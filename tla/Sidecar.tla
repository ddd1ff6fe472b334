-------------------------------- MODULE Sidecar --------------------------------
(***************************************************************************)
(* The inference servers of EdgeVision, which differ in how they share:    *)
(*   "triton-infer"      triton-infer/sidecar/main.py: four gRPC workers   *)
(*                       and the HTTP event loop over one shared input     *)
(*                       region and one set of output regions, no lock     *)
(*   "infer-sidecar"     infer-sidecar/main.py: the same regions, but only *)
(*                       the event loop, which does not wait between the   *)
(*                       write of the input and the read of the output     *)
(*   "triton-infer-cpu"  triton-infer-cpu/main.py: workers and event loop, *)
(*                       tensors of their own                              *)
(*   "k8s"               k8s/infer-sidecar/main.py: the event loop, which  *)
(*                       awaits Triton, and tensors of their own           *)
(* A tensor is named by the image that it was computed from.               *)
(***************************************************************************)
EXTENDS FiniteSets, Absent

CONSTANTS
  Handlers,     \* requests that can be handled at once
  GrpcWorkers,  \* those of the gRPC pool; the others are the event loop's
  Images

Servers == {"triton-infer", "infer-sidecar", "triton-infer-cpu", "k8s"}

ASSUME WorkersAssumption == GrpcWorkers \subseteq Handlers
ASSUME NoImageAssumption == None \notin Images

VARIABLES
  server,  \* which of them runs
  region,  \* the shared memory regions: what each was written from
  task,    \* what each handler does next, its request and what it has read
  seen,    \* history: images in service at some moment during the request
  answer   \* the last answer of each handler

sidecarVars == <<server, region, task, seen, answer>>

Regions == {"input", "det_output", "seg_output0", "seg_output1"}
Models  == {"detect", "seg"}
Steps   == {"preprocess", "infer", "boxes", "masks", "respond"}
Tasks   == [step: Steps, image: Images, model: Models, output: Images \cup {None},
            boxes: Images \cup {None}, masks: Images \cup {None}]

ASSUME NoTaskAssumption == None \notin Tasks

(* Type correctness of regions and handlers.                                 *)
SidecarTypeOK ==
  /\ server \in Servers
  /\ region \in [Regions -> Images \cup {None}]
  /\ task \in [Handlers -> Tasks \cup {None}]
  /\ seen \in [Handlers -> SUBSET Images]
  /\ answer \in [Handlers -> [boxes: Images, masks: Images \cup {None}] \cup {None}]

SidecarInit ==
  /\ server \in Servers
  /\ region = [r \in Regions |-> None]
  /\ task = [h \in Handlers |-> None]
  /\ seen = [h \in Handlers |-> {}]
  /\ answer = [h \in Handlers |-> None]

OnLoop(h) == h \notin GrpcWorkers
Shares  == server \in {"triton-infer", "infer-sidecar"}
Awaits  == server = "k8s"
HasGrpc == server \in {"triton-infer", "triton-infer-cpu"}

Busy == {h \in Handlers : task[h] # None}
At(h, step) == task[h] # None /\ task[h].step = step
GoesOn(h, step, field, value) ==
  task' = [task EXCEPT ![h].step = step, ![h][field] = value]

(* The event loop runs one handler's body at a time, unless it awaits.       *)
(* Where a definition has another form before it, that is the form a         *)
(* plausible bug would give it; no action uses it.                           *)
NoLoop(h)   == TRUE
LoopFree(h) == OnLoop(h) /\ ~Awaits => \A g \in Busy : ~OnLoop(g)

-------------------------------------------------------------------------------
(* A request's body has been read; only triton-infer looks at the model.     *)
ModelServed(m) == IF server = "triton-infer" THEN m ELSE "detect"
Infer(h, i, m) ==
  /\ task[h] = None
  /\ OnLoop(h) \/ HasGrpc
  /\ LoopFree(h)
  /\ task' = [task EXCEPT ![h] = [step |-> "preprocess", image |-> i,
                                  model |-> ModelServed(m), output |-> None,
                                  boxes |-> None, masks |-> None]]
  /\ seen' = [g \in Handlers |->
                IF g = h THEN {i} \cup {task[f].image : f \in Busy}
                ELSE IF g \in Busy THEN seen[g] \cup {i} ELSE {}]
  /\ answer' = [answer EXCEPT ![h] = None]
  /\ UNCHANGED <<server, region>>

(* _preprocess decodes, resizes and, where regions are shared, writes the    *)
(* input region.                                                             *)
WritesOnce(h)  == IF Shares /\ region["input"] = None
                  THEN region' = [region EXCEPT !["input"] = task[h].image]
                  ELSE UNCHANGED region
WritesInput(h) == IF Shares THEN region' = [region EXCEPT !["input"] = task[h].image]
                  ELSE UNCHANGED region
Preprocess(h) ==
  /\ At(h, "preprocess")
  /\ WritesInput(h)
  /\ task' = [task EXCEPT ![h].step = "infer"]
  /\ UNCHANGED <<server, seen, answer>>

(* Triton reads the input and writes the outputs of the model asked for.     *)
OutputsOf(m) == IF m = "seg" THEN {"seg_output0", "seg_output1"} ELSE {"det_output"}
RunModel(h) ==
  /\ At(h, "infer")
  /\ region' = IF Shares
               THEN [r \in Regions |-> IF r \in OutputsOf(task[h].model)
                                       THEN region["input"] ELSE region[r]]
               ELSE region
  /\ GoesOn(h, "boxes", "output", IF Shares THEN None ELSE task[h].image)
  /\ UNCHANGED <<server, seen, answer>>

(* get_contents_as_numpy gives views of the regions, so they are read when   *)
(* the postprocessing gets to them: boxes and scores first, masks last.      *)
OutputRegion(h, r) == region[r]
Output(h, r) == IF Shares THEN region[r] ELSE task[h].output
ReadBoxes(h) ==
  /\ At(h, "boxes")
  /\ \/ task[h].model = "seg" /\ GoesOn(h, "masks", "boxes", Output(h, "seg_output0"))
     \/ task[h].model = "detect" /\ GoesOn(h, "respond", "boxes", Output(h, "det_output"))
  /\ UNCHANGED <<server, region, seen, answer>>

ReadMasks(h) ==
  /\ At(h, "masks")
  /\ GoesOn(h, "respond", "masks", Output(h, "seg_output1"))
  /\ UNCHANGED <<server, region, seen, answer>>

Respond(h) ==
  /\ At(h, "respond")
  /\ answer' = [answer EXCEPT ![h] = [boxes |-> task[h].boxes, masks |-> task[h].masks]]
  /\ task' = [task EXCEPT ![h] = None]
  /\ seen' = [seen EXCEPT ![h] = {}]
  /\ UNCHANGED <<server, region>>

(* An image that does not decode, or an exception of Triton's client.        *)
Raises(h) ==
  /\ At(h, "preprocess") \/ At(h, "infer")
  /\ task' = [task EXCEPT ![h] = None]
  /\ seen' = [seen EXCEPT ![h] = {}]
  /\ UNCHANGED <<server, region, answer>>

SidecarNext ==
  \E h \in Handlers :
    \/ \E i \in Images, m \in Models : Infer(h, i, m)
    \/ Preprocess(h) \/ RunModel(h) \/ ReadBoxes(h) \/ ReadMasks(h)
    \/ Respond(h) \/ Raises(h)

SidecarSpec == SidecarInit /\ [][SidecarNext]_sidecarVars

-------------------------------------------------------------------------------
(* Properties.                                                               *)

(* Every server implements the inference service: whatever region a handler  *)
(* reads was last written from an image in service with its own, never from  *)
(* one that was answered before (sidecar/main.py:119-187).                   *)
Request(h) == IF task[h] = None THEN None ELSE task[h].image
Service == INSTANCE InferenceService WITH
             Callers <- Handlers, request <- [h \in Handlers |-> Request(h)]
ServesTheLiving == Service!ServiceSpec

(* Except for triton-infer with its workers, a caller gets the detections of *)
(* its own image, however many requests are handled at once: the event loop  *)
(* or the private tensors keep them apart (infer-sidecar/main.py:124-155,    *)
(* triton-infer-cpu/main.py:69-88, k8s/infer-sidecar/main.py:60-115).        *)
OwnDetections ==
  server # "triton-infer" =>
    \A h \in Handlers : At(h, "respond") =>
      task[h].boxes = task[h].image /\ task[h].masks = None

===============================================================================
