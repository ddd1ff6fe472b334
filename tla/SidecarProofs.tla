------------------------------ MODULE SidecarProofs ------------------------------
(***************************************************************************)
(* Theorems about the inference servers (Sidecar) and what they do with a  *)
(* model's output (Detections), for any requests, workers, images and      *)
(* boxes.                                                                  *)
(***************************************************************************)
EXTENDS Sidecar, Detections, TLAPS

(* The small pieces of the handlers are expanded everywhere.                 *)
USE DEF LoopFree, WritesInput, Output, At

-------------------------------------------------------------------------------
(* Regions and handlers.                                                     *)

(* A handler has seen its own image and those in service with it.            *)
SeenOK ==
  \A h, g \in Handlers : task[h] # None /\ task[g] # None => task[g].image \in seen[h]

(* What a handler holds by the step it has reached.                          *)
Shown(h, x) == x \in seen[h] \cap Images
HoldsOK ==
  \A h \in Handlers : task[h] # None =>
    /\ server # "triton-infer" => task[h].model = "detect"
    /\ task[h].step = "masks" => task[h].model = "seg" /\ Shown(h, task[h].boxes)
    /\ task[h].step = "respond" => Shown(h, task[h].boxes)
    /\ task[h].masks # None => task[h].model = "seg" /\ Shown(h, task[h].masks)

(* Where the regions are shared, those that a handler still reads were last  *)
(* written from an image that it has seen; elsewhere it has its own output.  *)
SharedOK ==
  Shares => \A h \in Handlers : task[h] # None =>
    /\ task[h].step # "preprocess" => Shown(h, region["input"])
    /\ task[h].step \in {"boxes", "masks"} =>
         \A r \in OutputsOf(task[h].model) : Shown(h, region[r])
PrivateOK ==
  ~Shares => \A h \in Handlers : task[h] # None /\ task[h].step \in {"boxes", "masks"} =>
    task[h].output = task[h].image

(* infer-sidecar's event loop has one request at a time, so the regions hold *)
(* that request's image.                                                     *)
AloneOK ==
  server = "infer-sidecar" =>
    \A h \in Handlers : task[h] # None =>
      /\ OnLoop(h)
      /\ \A g \in Handlers : task[g] # None => g = h
      /\ task[h].step # "preprocess" => region["input"] = task[h].image
      /\ task[h].step = "boxes" => region["det_output"] = task[h].image

SidecarInv ==
  SidecarTypeOK /\ SeenOK /\ HoldsOK /\ SharedOK /\ PrivateOK /\ AloneOK /\ OwnDetections

LEMMA SidecarInvInit == SidecarInit => SidecarInv
  BY DEF SidecarInit, SidecarInv, SidecarTypeOK, SeenOK, HoldsOK, SharedOK, PrivateOK, AloneOK,
         OwnDetections

(* A task that changes is a record of the same kind.                         *)
LEMMA TaskType ==
  ASSUME SidecarTypeOK, NEW h \in Handlers, task[h] # None
  PROVE  /\ task[h] \in Tasks /\ task[h].image \in Images /\ task[h].image # None
         /\ Request(h) = task[h].image
  BY NoImageAssumption DEF SidecarTypeOK, Tasks, Request

LEMMA InferKeepsInv ==
  ASSUME SidecarInv, NEW h \in Handlers, NEW i \in Images, NEW m \in Models, Infer(h, i, m)
  PROVE  SidecarInv'
<1> DEFINE new == [step |-> "preprocess", image |-> i, model |-> ModelServed(m), output |-> None,
                   boxes |-> None, masks |-> None]
<1>1. /\ task[h] = None /\ task' = [task EXCEPT ![h] = new]
      /\ UNCHANGED <<server, region>> /\ answer' = [answer EXCEPT ![h] = None]
      /\ new \in Tasks /\ new # None
      /\ \A g \in Handlers : g # h => task'[g] = task[g]
      /\ task'[h] = new
  BY NoTaskAssumption DEF Infer, SidecarInv, SidecarTypeOK, Tasks, Steps, ModelServed, Models
<1>2. ASSUME NEW g \in Handlers
      PROVE  seen'[g] = IF g = h THEN {i} \cup {task[f].image : f \in Busy}
                        ELSE IF task[g] # None THEN seen[g] \cup {i} ELSE {}
  BY DEF Infer, Busy
<1>3. SidecarTypeOK'
  <2>1. \A f \in Busy : task[f].image \in Images
    BY TaskType DEF SidecarInv, Busy
  <2>2. seen' \in [Handlers -> SUBSET Images]
    BY <2>1, <1>2 DEF Infer, SidecarInv, SidecarTypeOK, Busy
  <2> QED
    BY <1>1, <2>2 DEF SidecarInv, SidecarTypeOK
<1>4. SeenOK'
  <2> SUFFICES ASSUME NEW f \in Handlers, NEW g \in Handlers,
                      task'[f] # None, task'[g] # None
               PROVE  task'[g].image \in seen'[f]
    BY DEF SeenOK
  <2>1. CASE g = h
    <3>1. task'[g].image = i
      BY <2>1, <1>1
    <3>2. i \in seen'[f]
      BY <1>1, <1>2
    <3> QED
      BY <3>1, <3>2
  <2>2. CASE g # h /\ f = h
    <3>1. g \in Busy /\ task'[g].image = task[g].image
      BY <2>2, <1>1 DEF Busy
    <3> QED
      BY <3>1, <2>2, <1>2
  <2>3. CASE g # h /\ f # h
    BY <2>3, <1>1, <1>2 DEF SidecarInv, SeenOK
  <2> QED
    BY <2>1, <2>2, <2>3
<1>5. /\ \A g \in Handlers : g # h /\ task[g] # None => seen[g] \subseteq seen'[g]
      /\ \A x : \A g \in Handlers : g # h /\ task[g] # None /\ Shown(g, x) => Shown(g, x)'
  BY <1>2 DEF Shown
<1>6. HoldsOK'
  <2>1. server # "triton-infer" => new.model = "detect"
    BY DEF ModelServed
  <2> QED
    BY <1>1, <1>5, <2>1 DEF SidecarInv, HoldsOK
<1>7. SharedOK' /\ PrivateOK'
  BY <1>1, <1>5 DEF SidecarInv, SharedOK, PrivateOK, Shares
<1>8. AloneOK'
  <2>1. server = "infer-sidecar" => OnLoop(h) /\ \A g \in Handlers : task[g] = None
    BY DEF Infer, SidecarInv, AloneOK, HasGrpc, Awaits, Busy
  <2> QED
    BY <1>1, <2>1 DEF SidecarInv, AloneOK, OnLoop
<1>9. OwnDetections'
  BY <1>1 DEF SidecarInv, OwnDetections
<1> QED
  BY <1>3, <1>4, <1>6, <1>7, <1>8, <1>9 DEF SidecarInv

(* A handler that goes away takes nothing from the others.                   *)
LEMMA LeavingKeepsInv ==
  ASSUME SidecarInv, NEW h \in Handlers, UNCHANGED <<server, region>>,
         task' = [task EXCEPT ![h] = None], seen' = [seen EXCEPT ![h] = {}],
         answer' \in [Handlers -> [boxes: Images, masks: Images \cup {None}] \cup {None}]
  PROVE  SidecarInv'
<1>1. \A g \in Handlers : task'[g] # None => /\ g # h /\ task'[g] = task[g]
                                             /\ seen'[g] = seen[g]
  BY DEF SidecarInv, SidecarTypeOK
<1>2. SidecarTypeOK' /\ SeenOK'
  BY <1>1 DEF SidecarInv, SidecarTypeOK, SeenOK
<1>3. HoldsOK' /\ OwnDetections'
  BY <1>1 DEF SidecarInv, HoldsOK, Shown, OwnDetections
<1>4. SharedOK' /\ PrivateOK' /\ AloneOK'
  BY <1>1 DEF SidecarInv, SharedOK, PrivateOK, AloneOK, Shares, Shown, OnLoop
<1> QED
  BY <1>2, <1>3, <1>4 DEF SidecarInv

(* A handler that stays puts another record in the place of its own.         *)
LEMMA StayingKeepsType ==
  ASSUME SidecarInv, NEW h \in Handlers, NEW new \in Tasks, task[h] # None,
         task' = [task EXCEPT ![h] = new], new.image = task[h].image,
         new.model = task[h].model, UNCHANGED <<server, seen, answer>>,
         region' \in [Regions -> Images \cup {None}]
  PROVE  /\ SidecarTypeOK' /\ SeenOK'
         /\ task'[h] = new /\ new # None
         /\ \A g \in Handlers : g # h => task'[g] = task[g]
         /\ \A g \in Handlers : /\ task'[g] # None <=> task[g] # None
                                /\ task'[g].image = task[g].image
                                /\ task'[g].model = task[g].model
         /\ \A x : \A g \in Handlers : Shown(g, x) => Shown(g, x)'
<1>1. /\ task'[h] = new /\ new # None
      /\ \A g \in Handlers : g # h => task'[g] = task[g]
  BY NoTaskAssumption DEF SidecarInv, SidecarTypeOK
<1>2. SidecarTypeOK'
  BY DEF SidecarInv, SidecarTypeOK
<1>3. SeenOK'
  BY <1>1 DEF SidecarInv, SeenOK
<1> QED
  BY <1>1, <1>2, <1>3 DEF Shown

LEMMA PreprocessKeepsInv ==
  ASSUME SidecarInv, NEW h \in Handlers, Preprocess(h)
  PROVE  SidecarInv'
<1> DEFINE new == [task[h] EXCEPT !.step = "infer"]
<1>1. /\ task[h] # None /\ task[h].step = "preprocess" /\ UNCHANGED <<server, seen, answer>>
      /\ task' = [task EXCEPT ![h] = new]
  BY DEF Preprocess
<1>2. task[h] \in Tasks /\ task[h].image \in Images
  BY <1>1, TaskType DEF SidecarInv
<1>3. /\ new \in Tasks /\ new.step = "infer" /\ new.image = task[h].image
      /\ new.model = task[h].model /\ new.boxes = task[h].boxes /\ new.masks = task[h].masks
  BY <1>2 DEF Tasks, Steps
<1> HIDE DEF new
<1>4. /\ region' \in [Regions -> Images \cup {None}]
      /\ \A r \in Regions : r # "input" => region'[r] = region[r]
      /\ Shares => region'["input"] = task[h].image
  BY <1>2 DEF Preprocess, SidecarInv, SidecarTypeOK, Regions
<1>5. /\ SidecarTypeOK' /\ SeenOK'
      /\ task'[h] = new /\ new # None
      /\ \A g \in Handlers : g # h => task'[g] = task[g]
      /\ \A g \in Handlers : /\ task'[g] # None <=> task[g] # None
                             /\ task'[g].image = task[g].image
                             /\ task'[g].model = task[g].model
      /\ \A x : \A g \in Handlers : Shown(g, x) => Shown(g, x)'
  BY <1>1, <1>3, <1>4, StayingKeepsType
<1>6. HoldsOK' /\ OwnDetections'
  BY <1>1, <1>3, <1>5 DEF SidecarInv, HoldsOK, OwnDetections
<1>7. SharedOK'
  <2> SUFFICES ASSUME Shares, NEW g \in Handlers, task[g] # None
               PROVE  /\ Shown(g, region["input"])'
                      /\ task'[g].step \in {"boxes", "masks"} =>
                           \A r \in OutputsOf(task[g].model) : Shown(g, region[r])'
    BY <1>1, <1>5 DEF SharedOK, Shares
  <2>1. Shown(g, task[h].image)
    BY <1>1, <1>2 DEF SidecarInv, SeenOK, Shown
  <2>2. Shown(g, region["input"])'
    BY <2>1, <1>4, <1>5
  <2>3. ASSUME task'[g].step \in {"boxes", "masks"}, NEW r \in OutputsOf(task[g].model)
        PROVE  Shown(g, region[r])'
    <3>1. g # h /\ r \in Regions /\ r # "input"
      BY <2>3, <1>3, <1>5 DEF OutputsOf, Regions
    <3>2. Shown(g, region[r])
      BY <2>3, <3>1, <1>5 DEF SidecarInv, SharedOK
    <3> QED
      BY <3>1, <3>2, <1>4, <1>5
  <2> QED
    BY <2>2, <2>3
<1>8. PrivateOK' /\ AloneOK'
  BY <1>1, <1>3, <1>4, <1>5
  DEF SidecarInv, PrivateOK, AloneOK, Shares, OnLoop, Regions
<1> QED
  BY <1>5, <1>6, <1>7, <1>8 DEF SidecarInv

LEMMA RunModelKeepsInv ==
  ASSUME SidecarInv, NEW h \in Handlers, RunModel(h)
  PROVE  SidecarInv'
<1> DEFINE output == IF Shares THEN None ELSE task[h].image
           new == [task[h] EXCEPT !.step = "boxes", !.output = output]
<1>1. task[h] # None /\ task[h].step = "infer" /\ UNCHANGED <<server, seen, answer>>
  BY DEF RunModel
<1>2. task[h] \in Tasks /\ task[h].image \in Images
  BY <1>1, TaskType DEF SidecarInv
<1>3. /\ new \in Tasks /\ new.step = "boxes" /\ new.image = task[h].image
      /\ new.model = task[h].model /\ new.boxes = task[h].boxes /\ new.masks = task[h].masks
      /\ ~Shares => new.output = new.image
  BY <1>2 DEF Tasks, Steps
<1>4. task' = [task EXCEPT ![h] = new]
  BY DEF RunModel, GoesOn, SidecarInv, SidecarTypeOK
<1> HIDE DEF new
<1>5. /\ region' \in [Regions -> Images \cup {None}]
      /\ \A r \in Regions : region'[r] = IF Shares /\ r \in OutputsOf(task[h].model)
                                         THEN region["input"] ELSE region[r]
      /\ region'["input"] = region["input"]
  BY DEF RunModel, SidecarInv, SidecarTypeOK, Regions, OutputsOf
<1>6. /\ SidecarTypeOK' /\ SeenOK'
      /\ task'[h] = new /\ new # None
      /\ \A g \in Handlers : g # h => task'[g] = task[g]
      /\ \A g \in Handlers : /\ task'[g] # None <=> task[g] # None
                             /\ task'[g].image = task[g].image
                             /\ task'[g].model = task[g].model
      /\ \A x : \A g \in Handlers : Shown(g, x) => Shown(g, x)'
  BY <1>1, <1>3, <1>4, <1>5, StayingKeepsType
<1>7. HoldsOK' /\ OwnDetections'
  BY <1>1, <1>3, <1>6 DEF SidecarInv, HoldsOK, OwnDetections
<1>8. SharedOK'
  <2> SUFFICES ASSUME Shares, NEW g \in Handlers, task[g] # None
               PROVE  /\ task'[g].step # "preprocess" => Shown(g, region["input"])'
                      /\ task'[g].step \in {"boxes", "masks"} =>
                           \A r \in OutputsOf(task[g].model) : Shown(g, region[r])'
    BY <1>1, <1>6 DEF SharedOK, Shares
  <2>1. task'[g].step # "preprocess" => Shown(g, region["input"])
    BY <1>1, <1>6 DEF SidecarInv, SharedOK
  <2>2. ASSUME task'[g].step \in {"boxes", "masks"}, NEW r \in OutputsOf(task[g].model)
        PROVE  Shown(g, region[r])'
    <3>1. r \in Regions
      BY DEF OutputsOf, Regions
    <3>2. CASE r \in OutputsOf(task[h].model)
      BY <2>1, <2>2, <3>1, <3>2, <1>5, <1>6
    <3>3. CASE r \notin OutputsOf(task[h].model)
      <4>1. g # h /\ Shown(g, region[r])
        BY <2>2, <3>3, <1>6 DEF SidecarInv, SharedOK
      <4> QED
        BY <3>1, <3>3, <4>1, <1>5, <1>6
    <3> QED
      BY <3>2, <3>3
  <2> QED
    BY <2>1, <2>2, <1>5, <1>6
<1>9. PrivateOK'
  BY <1>1, <1>3, <1>6 DEF SidecarInv, PrivateOK, Shares
<1>10. AloneOK'
  <2> SUFFICES ASSUME server = "infer-sidecar", NEW g \in Handlers, task[g] # None
               PROVE  /\ OnLoop(g)
                      /\ \A f \in Handlers : task[f] # None => f = g
                      /\ task'[g].step # "preprocess" => region'["input"] = task[g].image
                      /\ task'[g].step = "boxes" => region'["det_output"] = task[g].image
    BY <1>1, <1>6 DEF AloneOK, OnLoop
  <2>1. g = h /\ OnLoop(g) /\ \A f \in Handlers : task[f] # None => f = g
    BY <1>1 DEF SidecarInv, AloneOK
  <2>2. region["input"] = task[g].image /\ task[h].model = "detect" /\ Shares
    BY <1>1, <2>1 DEF SidecarInv, AloneOK, HoldsOK, Shares
  <2>3. "det_output" \in Regions \cap OutputsOf(task[h].model)
    BY <2>2 DEF OutputsOf, Regions
  <2> QED
    BY <2>1, <2>2, <2>3, <1>5
<1> QED
  BY <1>6, <1>7, <1>8, <1>9, <1>10 DEF SidecarInv

LEMMA ReadBoxesKeepsInv ==
  ASSUME SidecarInv, NEW h \in Handlers, ReadBoxes(h)
  PROVE  SidecarInv'
<1> DEFINE from == IF task[h].model = "seg" THEN Output(h, "seg_output0")
                                            ELSE Output(h, "det_output")
           next == IF task[h].model = "seg" THEN "masks" ELSE "respond"
           new  == [task[h] EXCEPT !.step = next, !.boxes = from]
<1>1. /\ task[h] # None /\ task[h].step = "boxes"
      /\ UNCHANGED <<server, region, seen, answer>>
  BY DEF ReadBoxes
<1>2. task[h] \in Tasks /\ task[h].image \in Images
  BY <1>1, TaskType DEF SidecarInv
<1>3. Shown(h, from)
  <2>1. CASE Shares
    BY <1>1, <1>2, <2>1 DEF SidecarInv, SharedOK, OutputsOf, Tasks, Models
  <2>2. CASE ~Shares
    BY <1>1, <1>2, <2>2 DEF SidecarInv, SeenOK, PrivateOK, Shown
  <2> QED
    BY <2>1, <2>2
<1>4. server # "triton-infer" => from = task[h].image
  <2>1. CASE server = "infer-sidecar"
    BY <1>1, <2>1 DEF SidecarInv, AloneOK, HoldsOK, Shares
  <2>2. CASE server # "infer-sidecar" /\ server # "triton-infer"
    BY <1>1, <2>2 DEF SidecarInv, PrivateOK, Shares
  <2> QED
    BY <2>1, <2>2
<1>5. task' = [task EXCEPT ![h] = new]
  BY <1>2 DEF ReadBoxes, GoesOn, SidecarInv, SidecarTypeOK, Tasks
<1> HIDE DEF from
<1>6. /\ new \in Tasks /\ new.image = task[h].image
      /\ new.model = task[h].model /\ new.boxes = from /\ new.masks = task[h].masks
      /\ new.output = task[h].output
      /\ \/ new.step = "masks" /\ new.model = "seg"
         \/ new.step = "respond" /\ new.model = "detect"
  BY <1>2, <1>3 DEF Tasks, Steps, Models, Shown
<1> HIDE DEF new
<1>7. /\ SidecarTypeOK' /\ SeenOK'
      /\ task'[h] = new /\ new # None
      /\ \A g \in Handlers : g # h => task'[g] = task[g]
      /\ \A g \in Handlers : /\ task'[g] # None <=> task[g] # None
                             /\ task'[g].image = task[g].image
                             /\ task'[g].model = task[g].model
      /\ \A x : \A g \in Handlers : Shown(g, x) => Shown(g, x)'
  BY <1>1, <1>5, <1>6, StayingKeepsType DEF SidecarInv, SidecarTypeOK
<1>8. HoldsOK'
  BY <1>1, <1>3, <1>6, <1>7 DEF SidecarInv, HoldsOK
<1>9. OwnDetections'
  <2>1. server # "triton-infer" /\ new.step = "respond" => new.masks = None
    BY <1>1, <1>6 DEF SidecarInv, HoldsOK
  <2> QED
    BY <1>1, <1>4, <1>6, <1>7, <2>1 DEF SidecarInv, OwnDetections
<1>10. SharedOK' /\ PrivateOK' /\ AloneOK'
  BY <1>1, <1>6, <1>7 DEF SidecarInv, SharedOK, PrivateOK, AloneOK, Shares, OnLoop
<1> QED
  BY <1>7, <1>8, <1>9, <1>10 DEF SidecarInv

LEMMA ReadMasksKeepsInv ==
  ASSUME SidecarInv, NEW h \in Handlers, ReadMasks(h)
  PROVE  SidecarInv'
<1> DEFINE from == Output(h, "seg_output1")
           new  == [task[h] EXCEPT !.step = "respond", !.masks = from]
<1>1. /\ task[h] # None /\ task[h].step = "masks"
      /\ UNCHANGED <<server, region, seen, answer>>
  BY DEF ReadMasks
<1>2. task[h] \in Tasks /\ task[h].image \in Images
  BY <1>1, TaskType DEF SidecarInv
<1>3. task[h].model = "seg" /\ Shown(h, task[h].boxes) /\ server = "triton-infer"
  BY <1>1 DEF SidecarInv, HoldsOK
<1>4. Shown(h, from)
  BY <1>1, <1>3 DEF SidecarInv, SharedOK, OutputsOf, Shares
<1>5. task' = [task EXCEPT ![h] = new]
  BY DEF ReadMasks, GoesOn, SidecarInv, SidecarTypeOK
<1> HIDE DEF from
<1>6. /\ new \in Tasks /\ new.image = task[h].image /\ new.output = task[h].output
      /\ new.model = task[h].model /\ new.boxes = task[h].boxes /\ new.masks = from
      /\ new.step = "respond"
  BY <1>2, <1>4 DEF Tasks, Steps, Models, Shown
<1> HIDE DEF new
<1>7. /\ SidecarTypeOK' /\ SeenOK'
      /\ task'[h] = new /\ new # None
      /\ \A g \in Handlers : g # h => task'[g] = task[g]
      /\ \A g \in Handlers : /\ task'[g] # None <=> task[g] # None
                             /\ task'[g].image = task[g].image
                             /\ task'[g].model = task[g].model
      /\ \A x : \A g \in Handlers : Shown(g, x) => Shown(g, x)'
  BY <1>1, <1>5, <1>6, StayingKeepsType DEF SidecarInv, SidecarTypeOK
<1>8. HoldsOK' /\ OwnDetections'
  BY <1>1, <1>3, <1>4, <1>6, <1>7 DEF SidecarInv, HoldsOK, OwnDetections
<1>9. SharedOK' /\ PrivateOK' /\ AloneOK'
  BY <1>1, <1>6, <1>7 DEF SidecarInv, SharedOK, PrivateOK, AloneOK, Shares, OnLoop
<1> QED
  BY <1>7, <1>8, <1>9 DEF SidecarInv

LEMMA SidecarInvNext == SidecarInv /\ [SidecarNext]_sidecarVars => SidecarInv'
<1> SUFFICES ASSUME SidecarInv, [SidecarNext]_sidecarVars PROVE SidecarInv'
  OBVIOUS
<1>1. ASSUME NEW h \in Handlers, Respond(h) PROVE SidecarInv'
  <2>1. task[h] \in Tasks /\ task[h].boxes \in Images
    BY <1>1, TaskType DEF Respond, SidecarInv, HoldsOK, Shown
  <2>2. answer' \in [Handlers -> [boxes: Images, masks: Images \cup {None}] \cup {None}]
    BY <1>1, <2>1 DEF Respond, SidecarInv, SidecarTypeOK, Tasks
  <2> QED
    BY <1>1, <2>2, LeavingKeepsInv DEF Respond
<1>2. ASSUME NEW h \in Handlers, Raises(h) PROVE SidecarInv'
  BY <1>2, LeavingKeepsInv DEF Raises, SidecarInv, SidecarTypeOK
<1>3. CASE UNCHANGED sidecarVars
  BY <1>3 DEF sidecarVars, SidecarInv, SidecarTypeOK, SeenOK, HoldsOK, SharedOK, PrivateOK,
              AloneOK, OwnDetections, Shown, Shares, OnLoop
<1> QED
  BY <1>1, <1>2, <1>3, InferKeepsInv, PreprocessKeepsInv, RunModelKeepsInv, ReadBoxesKeepsInv,
     ReadMasksKeepsInv DEF SidecarNext

(* What a handler keeps is well formed at every step.                        *)
THEOREM SidecarTypes == SidecarSpec => []SidecarTypeOK
<1>1. SidecarInv => SidecarTypeOK
  BY DEF SidecarInv
<1> QED
  BY SidecarInvInit, SidecarInvNext, <1>1, PTL DEF SidecarSpec

(* The loop without an await of infer-sidecar, and the private tensors of    *)
(* triton-infer-cpu and k8s, answer each request from its own image, however *)
(* many are handled at once (infer-sidecar/main.py:124-155,                  *)
(* triton-infer-cpu/main.py:69-88, k8s/infer-sidecar/main.py:60-115).        *)
THEOREM DetectsItsOwn == SidecarSpec => []OwnDetections
<1>1. SidecarInv => OwnDetections
  BY DEF SidecarInv
<1> QED
  BY SidecarInvInit, SidecarInvNext, <1>1, PTL DEF SidecarSpec

-------------------------------------------------------------------------------
(* The refinement of InferenceService: a request begins when its body has    *)
(* been read, is answered by Respond and failed by Raises; every other step  *)
(* stutters.                                                                 *)

LEMMA ServiceStart == SidecarInit => Service!ServiceInit
  BY DEF SidecarInit, Service!ServiceInit, Request

LEMMA SameRequest ==
  ASSUME SidecarInv, NEW h \in Handlers
  PROVE  (Request(h) = None) <=> (task[h] = None)
  BY TaskType DEF SidecarInv, Request

LEMMA InServiceIsBusy ==
  ASSUME SidecarInv
  PROVE  /\ Service!InService = Busy
         /\ \A h \in Busy : Request(h) = task[h].image
  BY SameRequest DEF Service!InService, Busy, Request

LEMMA InferBegins ==
  ASSUME SidecarInv, SidecarInv', NEW h \in Handlers, NEW i \in Images, NEW m \in Models,
         Infer(h, i, m)
  PROVE  Service!Begin(h, i)
<1>1. task[h] = None /\ Request(h) = None
  BY DEF Infer, Request
<1>2. [g \in Handlers |-> Request(g)]' = [[g \in Handlers |-> Request(g)] EXCEPT ![h] = i]
  <2>1. task'[h] # None /\ task'[h].image = i
    BY NoTaskAssumption DEF Infer, Tasks, Steps, ModelServed, Models, SidecarInv, SidecarTypeOK
  <2>2. \A g \in Handlers : g # h => task'[g] = task[g]
    BY DEF Infer, SidecarInv, SidecarTypeOK
  <2> QED
    BY <2>1, <2>2 DEF Request
<1>3. seen' = [g \in Handlers |->
                 IF g = h THEN {i} \cup {Request(e) : e \in Service!InService}
                 ELSE IF Request(g) # None THEN seen[g] \cup {i} ELSE {}]
  <2>1. {task[f].image : f \in Busy} = {Request(e) : e \in Service!InService}
    BY InServiceIsBusy
  <2>2. \A g \in Handlers : (g \in Busy) <=> (Request(g) # None)
    BY SameRequest DEF Busy
  <2> QED
    BY <2>1, <2>2 DEF Infer
<1>4. answer' = [answer EXCEPT ![h] = None]
  BY DEF Infer
<1>5. {Request(e) : e \in Service!InService} =
      {[g \in Handlers |-> Request(g)][e] : e \in Service!InService}
  BY DEF Service!InService
<1> QED
  BY <1>1, <1>2, <1>3, <1>4, <1>5 DEF Service!Begin

LEMMA LeavingFinishes ==
  ASSUME SidecarInv, NEW h \in Handlers, task[h] # None,
         task' = [task EXCEPT ![h] = None], seen' = [seen EXCEPT ![h] = {}]
  PROVE  Service!Finish(h)
<1>1. Request(h) # None
  BY SameRequest
<1>2. [g \in Handlers |-> Request(g)]' = [[g \in Handlers |-> Request(g)] EXCEPT ![h] = None]
  BY DEF SidecarInv, SidecarTypeOK, Request
<1> QED
  BY <1>1, <1>2 DEF Service!Finish

LEMMA RespondReplies ==
  ASSUME SidecarInv, NEW h \in Handlers, Respond(h)
  PROVE  Service!Reply(h)
<1>1. Service!Finish(h)
  BY LeavingFinishes DEF Respond
<1>2. task[h].boxes \in seen[h] /\ task[h].masks \in seen[h] \cup {None}
  BY DEF Respond, SidecarInv, HoldsOK, Shown
<1> QED
  BY <1>1, <1>2 DEF Respond, Service!Reply

LEMMA StayingStutters ==
  ASSUME SidecarInv, NEW h \in Handlers, Preprocess(h) \/ RunModel(h) \/ ReadBoxes(h) \/ ReadMasks(h)
  PROVE  UNCHANGED Service!serviceVars
<1>1. task[h] # None /\ UNCHANGED <<seen, answer>>
  BY DEF Preprocess, RunModel, ReadBoxes, ReadMasks
<1>2. task[h] \in Tasks
  BY <1>1, TaskType DEF SidecarInv
<1>3. ASSUME NEW new, new.image = task[h].image, new # None, task' = [task EXCEPT ![h] = new]
      PROVE  UNCHANGED Service!serviceVars
  <2>1. \A g \in Handlers : Request(g)' = Request(g)
    BY <1>1, <1>3 DEF Request, SidecarInv, SidecarTypeOK
  <2> QED
    BY <1>1, <2>1 DEF Service!serviceVars
<1>4. ASSUME NEW step \in Steps, NEW output \in Images \cup {None},
             NEW boxes \in Images \cup {None}, NEW masks \in Images \cup {None},
             task' = [task EXCEPT ![h] = [task[h] EXCEPT !.step = step, !.output = output,
                                            !.boxes = boxes, !.masks = masks]]
      PROVE  UNCHANGED Service!serviceVars
  <2> DEFINE new == [task[h] EXCEPT !.step = step, !.output = output, !.boxes = boxes,
                                    !.masks = masks]
  <2>1. new \in Tasks /\ new.image = task[h].image
    BY <1>2 DEF Tasks
  <2> QED
    BY <2>1, <1>3, <1>4, NoTaskAssumption
<1>5. /\ {"infer", "boxes", "respond"} \subseteq Steps
      /\ {task[h].output, task[h].boxes, task[h].masks} \subseteq Images \cup {None}
  BY <1>2 DEF Tasks, Steps
<1>6. CASE Preprocess(h)
  <2>1. task' = [task EXCEPT ![h] = [task[h] EXCEPT !.step = "infer", !.output = task[h].output,
                                       !.boxes = task[h].boxes, !.masks = task[h].masks]]
    BY <1>2, <1>6 DEF Preprocess, Tasks, SidecarInv, SidecarTypeOK
  <2> QED
    BY <2>1, <1>5, <1>4
<1>7. CASE RunModel(h)
  <2> DEFINE output == IF Shares THEN None ELSE task[h].image
  <2>1. task' = [task EXCEPT ![h] = [task[h] EXCEPT !.step = "boxes", !.output = output,
                                       !.boxes = task[h].boxes, !.masks = task[h].masks]]
    BY <1>2, <1>7 DEF RunModel, GoesOn, Tasks, SidecarInv, SidecarTypeOK
  <2>2. output \in Images \cup {None}
    BY <1>2 DEF Tasks
  <2> HIDE DEF output
  <2> QED
    BY <2>1, <2>2, <1>5, <1>4
<1>8. CASE ReadBoxes(h)
  <2>1. ASSUME NEW step \in Steps, NEW r \in Regions, GoesOn(h, step, "boxes", Output(h, r))
        PROVE  UNCHANGED Service!serviceVars
    <3> DEFINE from == Output(h, r)
    <3>1. task' = [task EXCEPT ![h] = [task[h] EXCEPT !.step = step, !.output = task[h].output,
                                         !.boxes = from, !.masks = task[h].masks]]
      BY <1>2, <2>1 DEF GoesOn, Tasks, SidecarInv, SidecarTypeOK
    <3>2. from \in Images \cup {None}
      BY <1>2 DEF Tasks, SidecarInv, SidecarTypeOK
    <3> HIDE DEF from
    <3> QED
      BY <3>1, <3>2, <1>5, <1>4
  <2> QED
    BY <2>1, <1>8 DEF ReadBoxes, Steps, Regions
<1>9. CASE ReadMasks(h)
  <2> DEFINE from == Output(h, "seg_output1")
  <2>1. task' = [task EXCEPT ![h] = [task[h] EXCEPT !.step = "respond", !.output = task[h].output,
                                       !.boxes = task[h].boxes, !.masks = from]]
    BY <1>2, <1>9 DEF ReadMasks, GoesOn, Tasks, SidecarInv, SidecarTypeOK
  <2>2. from \in Images \cup {None}
    BY <1>2 DEF Tasks, SidecarInv, SidecarTypeOK, Regions
  <2> HIDE DEF from
  <2> QED
    BY <2>1, <2>2, <1>5, <1>4
<1> QED
  BY <1>6, <1>7, <1>8, <1>9

LEMMA ServiceStep ==
  SidecarInv /\ SidecarInv' /\ [SidecarNext]_sidecarVars
    => [Service!ServiceNext]_(Service!serviceVars)
<1> SUFFICES ASSUME SidecarInv, SidecarInv', [SidecarNext]_sidecarVars
             PROVE  [Service!ServiceNext]_(Service!serviceVars)
  OBVIOUS
<1>1. ASSUME NEW h \in Handlers, NEW i \in Images, NEW m \in Models, Infer(h, i, m)
      PROVE  Service!ServiceNext
  BY <1>1, InferBegins DEF Service!ServiceNext
<1>2. ASSUME NEW h \in Handlers, Respond(h) PROVE Service!ServiceNext
  BY <1>2, RespondReplies DEF Service!ServiceNext
<1>3. ASSUME NEW h \in Handlers, Raises(h) PROVE Service!ServiceNext
  <2>1. Service!Finish(h) /\ UNCHANGED answer
    BY <1>3, LeavingFinishes DEF Raises
  <2> QED
    BY <2>1 DEF Service!ServiceNext, Service!Fail
<1>4. CASE UNCHANGED sidecarVars
  BY <1>4 DEF sidecarVars, Service!serviceVars, Request
<1> QED
  BY <1>1, <1>2, <1>3, <1>4, StayingStutters DEF SidecarNext

(* Every server implements the inference service: however the writes of the  *)
(* input, the runs of the models and the reads of the outputs of concurrent  *)
(* requests fall, an answer is made of images that were in service with its  *)
(* request, never of one answered before (sidecar/main.py:119-187).          *)
THEOREM ImplementsService == SidecarSpec => ServesTheLiving
<1>1. SidecarSpec => []SidecarInv
  BY SidecarInvInit, SidecarInvNext, PTL DEF SidecarSpec
<1> QED
  BY ServiceStart, ServiceStep, <1>1, PTL
  DEF SidecarSpec, ServesTheLiving, Service!ServiceSpec

-------------------------------------------------------------------------------
(* The postprocessing: what is kept, what is still in order, and what was    *)
(* dropped.                                                                  *)

KeptFirst ==
  \A i \in keep, j \in order : Score(j) <= Score(i) /\ FarApart(Box(i), Box(j))
KeptApart ==
  \A i, j \in keep : i # j => FarApart(Box(i), Box(j))
DroppedForOne ==
  \A i \in Candidates \ (keep \cup order) : Score(i) >= Confidence =>
    \E j \in keep : Score(j) >= Score(i) /\ ~FarApart(Box(j), Box(i))

DetectionsInv ==
  /\ order \subseteq Candidates /\ keep \subseteq Candidates
  /\ found = None => order = {} /\ keep = {}
  /\ found # None => /\ found \in [Candidates -> [box: Boxes, score: Scores]]
                     /\ KeptFirst /\ KeptApart /\ DroppedForOne

LEMMA BoxType ==
  ASSUME found \in [Candidates -> [box: Boxes, score: Scores]], NEW i \in Candidates
  PROVE  /\ Box(i) \in Boxes /\ Score(i) \in Int
         /\ Box(i).x1 \in Int /\ Box(i).x2 \in Int /\ Box(i).x1 <= Box(i).x2
         /\ Box(i).y1 \in Int /\ Box(i).y2 \in Int /\ Box(i).y1 <= Box(i).y2
<1>1. Box(i) \in Boxes /\ Score(i) \in Int
  BY ScoresAssumption DEF Box, Score
<1>2. Box(i) \in [Edges -> Int]
  BY <1>1, BoxesAssumption
<1> QED
  BY <1>1, <1>2, BoxesAssumption DEF Edges

(* The overlap of two boxes does not depend on which is which.               *)
LEMMA ApartCommutes ==
  ASSUME NEW a \in [Edges -> Int], NEW b \in [Edges -> Int]
  PROVE  FarApart(a, b) <=> FarApart(b, a)
<1> DEFINE w == Larger(0, Smaller(a.x2, b.x2) - Larger(a.x1, b.x1))
           h == Larger(0, Smaller(a.y2, b.y2) - Larger(a.y1, b.y1))
<1>1. /\ a.x1 \in Int /\ a.x2 \in Int /\ a.y1 \in Int /\ a.y2 \in Int
      /\ b.x1 \in Int /\ b.x2 \in Int /\ b.y1 \in Int /\ b.y2 \in Int
  BY DEF Edges
<1>2. /\ w = Larger(0, Smaller(b.x2, a.x2) - Larger(b.x1, a.x1))
      /\ h = Larger(0, Smaller(b.y2, a.y2) - Larger(b.y1, a.y1))
  BY <1>1 DEF Larger, Smaller
<1>3. Inter(a, b) = w * h /\ Inter(b, a) = w * h
  BY <1>2 DEF Inter
<1>4. w \in Int /\ h \in Int
  BY <1>1 DEF Larger, Smaller
<1>5. Area(a) \in Int /\ Area(b) \in Int /\ w * h \in Int
  BY <1>1, <1>4 DEF Area
<1>6. Union(a, b) = Union(b, a)
  BY <1>3, <1>5 DEF Union
<1> QED
  BY <1>3, <1>6 DEF FarApart

LEMMA DetectionsInvInit == DetectionsInit => DetectionsInv
  BY DEF DetectionsInit, DetectionsInv

LEMMA KeepKeepsInv ==
  ASSUME DetectionsInv, found # None, NEW i \in order, Keep(i)
  PROVE  DetectionsInv'
<1>1. /\ i \in Candidates /\ found' = found /\ keep' = keep \cup {i}
      /\ order' = {j \in order \ {i} : FarApart(Box(i), Box(j))}
      /\ found \in [Candidates -> [box: Boxes, score: Scores]]
      /\ order \subseteq Candidates /\ keep \subseteq Candidates
      /\ \A j \in order : Score(j) <= Score(i)
  BY DEF Keep, DetectionsInv, Survivors, Descending
<1>2. /\ \A j \in Candidates : Box(j)' = Box(j) /\ Score(j)' = Score(j)
      /\ \A j \in Candidates : Box(j) \in [Edges -> Int] /\ Score(j) \in Int
  BY <1>1, BoxType, BoxesAssumption DEF Box, Score
<1>3. KeptFirst'
  BY <1>1, <1>2 DEF DetectionsInv, KeptFirst
<1>4. KeptApart'
  BY <1>1, <1>2, ApartCommutes DEF DetectionsInv, KeptFirst, KeptApart
<1>5. DroppedForOne'
  <2> SUFFICES ASSUME NEW j \in Candidates \ (keep' \cup order'), Score(j) >= Confidence
               PROVE  \E k \in keep' : Score(k) >= Score(j) /\ ~FarApart(Box(k), Box(j))
    BY <1>1, <1>2 DEF DroppedForOne
  <2>1. CASE j \in order
    BY <2>1, <1>1, <1>2
  <2>2. CASE j \notin order
    BY <2>2, <1>1 DEF DetectionsInv, DroppedForOne
  <2> QED
    BY <2>1, <2>2
<1> QED
  BY <1>1, <1>3, <1>4, <1>5 DEF DetectionsInv

LEMMA DetectionsInvNext == DetectionsInv /\ [DetectionsNext]_detectionVars => DetectionsInv'
<1> SUFFICES ASSUME DetectionsInv, [DetectionsNext]_detectionVars PROVE DetectionsInv'
  OBVIOUS
<1>1. CASE Postprocess
  <2>1. /\ found' \in [Candidates -> [box: Boxes, score: Scores]] /\ keep' = {}
        /\ order' = {i \in Candidates : found'[i].score >= Confidence} /\ found' # None
    BY <1>1, NoOutputAssumption DEF Postprocess
  <2>2. \A i \in Candidates \ order' : ~(found'[i].score >= Confidence)
    BY <2>1
  <2> QED
    BY <2>1, <2>2 DEF DetectionsInv, KeptFirst, KeptApart, DroppedForOne, Score
<1>2. ASSUME NEW i \in order, Keep(i) PROVE DetectionsInv'
  BY <1>2, KeepKeepsInv DEF DetectionsInv
<1>3. CASE Answered
  BY <1>3 DEF Answered, DetectionsInv
<1>4. CASE UNCHANGED detectionVars
  BY <1>4 DEF detectionVars, DetectionsInv, KeptFirst, KeptApart, DroppedForOne, Box, Score
<1> QED
  BY <1>1, <1>2, <1>3, <1>4 DEF DetectionsNext

(* Whatever the model finds and in whichever order equal scores come, no two *)
(* detections of an answer overlap by more than the threshold, and each one  *)
(* missing scored too low or overlaps a better one that is answered          *)
(* (sidecar/main.py:420-437).                                                *)
THEOREM Suppresses == DetectionsSpec => []Suppression
<1>1. DetectionsInv => Suppression
  BY DEF DetectionsInv, Suppression, Done, KeptApart, DroppedForOne
<1> QED
  BY DetectionsInvInit, DetectionsInvNext, <1>1, PTL DEF DetectionsSpec

-------------------------------------------------------------------------------
(* The crop.                                                                 *)

(* Division rounds down.                                                     *)
LEMMA DivisionRoundsDown ==
  ASSUME NEW n \in Nat, NEW d \in Nat \ {0}, NEW k \in Int
  PROVE  /\ n \div d \in Nat
         /\ k <= n \div d <=> k * d <= n
<1> DEFINE q == n \div d
<1>1. q \in Int /\ q * d <= n /\ n < (q + 1) * d
  BY SMT
<1> HIDE DEF q
<1>2. q >= 0
  BY <1>1, SMT
<1>3. k <= q => k * d <= q * d
  BY <1>1, SMT
<1>4. k > q => k * d >= (q + 1) * d
  BY <1>1, SMT
<1> QED
  BY <1>1, <1>2, <1>3, <1>4 DEF q

(* The first pixel that stays is at most n exactly when the edge lo is before *)
(* the end of pixel n, and the last one is beyond n exactly when the edge hi *)
(* is not.                                                                   *)
LEMMA FirstPixelRoundsDown ==
  ASSUME NEW lo \in Int, NEW n \in Nat
  PROVE  /\ FirstPixel(lo) \in Nat
         /\ FirstPixel(lo) <= n <=> lo * ProtoSize < (n + 1) * InputSize
<1> DEFINE a == lo * ProtoSize
<1>1. a \in Int /\ InputSize \in Nat \ {0} /\ ProtoSize \in Nat \ {0}
  BY SizesAssumption
<1>2. (n + 1) * InputSize \in Nat /\ (n + 1) * InputSize > 0
  BY <1>1, SMT
<1>3. CASE a >= 0
  <2>1. /\ a \div InputSize \in Nat
        /\ n + 1 <= a \div InputSize <=> (n + 1) * InputSize <= a
    BY <1>1, <1>3, DivisionRoundsDown
  <2>2. FirstPixel(lo) = a \div InputSize
    BY <1>1, <1>3, <2>1 DEF FirstPixel, ToMask, ToInt, Larger
  <2> HIDE DEF a
  <2> QED
    BY <1>1, <1>2, <2>1, <2>2 DEF a
<1>4. CASE a < 0
  <2>1. /\ (-a) \div InputSize \in Nat
    BY <1>1, <1>4, DivisionRoundsDown
  <2>2. FirstPixel(lo) = 0
    BY <1>1, <1>4, <2>1 DEF FirstPixel, ToMask, ToInt, Larger
  <2> HIDE DEF a
  <2>3. a < (n + 1) * InputSize
    BY <1>1, <1>2, <1>4
  <2> QED
    BY <2>2, <2>3 DEF a
<1> QED
  BY <1>1, <1>3, <1>4

LEMMA LastPixelRoundsDown ==
  ASSUME NEW hi \in Int, ReachesImage(hi), NEW n \in 0 .. ProtoSize - 1
  PROVE  /\ LastPixel(hi) \in 0 .. ProtoSize
         /\ n < LastPixel(hi) <=> (n + 1) * InputSize <= hi * ProtoSize
<1> DEFINE b == hi * ProtoSize
           m == (n + 1) * InputSize
<1>1. /\ b \in Int /\ InputSize \in Nat \ {0} /\ ProtoSize \in Nat \ {0}
      /\ -InputSize < b /\ n \in Nat
  BY SizesAssumption DEF ReachesImage
<1>2. m \in Nat /\ m > 0
  BY <1>1, SMT
<1>3. CASE b >= 0
  <2>1. /\ b \div InputSize \in Nat
        /\ n + 1 <= b \div InputSize <=> m <= b
    BY <1>1, <1>3, DivisionRoundsDown
  <2>2. LastPixel(hi) = Smaller(ProtoSize, b \div InputSize)
    BY <1>1, <1>3 DEF LastPixel, ToMask, ToInt
  <2> HIDE DEF b, m
  <2>3. LastPixel(hi) \in 0 .. ProtoSize /\ (n < LastPixel(hi) <=> n + 1 <= b \div InputSize)
    BY <1>1, <2>1, <2>2 DEF Smaller
  <2> QED
    BY <2>1, <2>3 DEF b, m
<1>4. CASE b < 0
  <2>1. (-b) \div InputSize = 0
    <3>1. /\ (-b) \div InputSize \in Nat
          /\ 1 <= (-b) \div InputSize <=> 1 * InputSize <= -b
      BY <1>1, <1>4, DivisionRoundsDown
    <3> HIDE DEF b
    <3>2. ~(1 * InputSize <= -b)
      BY <1>1
    <3> QED
      BY <3>1, <3>2
  <2>2. LastPixel(hi) = 0
    BY <1>1, <1>4, <2>1 DEF LastPixel, ToMask, ToInt, Smaller
  <2> HIDE DEF b, m
  <2>3. ~(m <= b)
    BY <1>1, <1>2, <1>4
  <2> QED
    BY <1>1, <2>2, <2>3 DEF b, m
<1> QED
  BY <1>1, <1>3, <1>4

LEMMA CropIsExact ==
  ASSUME NEW lo \in Int, NEW hi \in Int, ReachesImage(hi)
  PROVE  Cropped(lo, hi) = InBox(lo, hi)
<1> USE SizesAssumption
<1>1. FirstPixel(lo) \in Nat /\ LastPixel(hi) \in 0 .. ProtoSize
  BY FirstPixelRoundsDown, LastPixelRoundsDown
<1>2. Slice(LastPixel(hi)) = LastPixel(hi) /\ Slice(FirstPixel(lo)) \in Nat
  BY <1>1 DEF Slice, Smaller
<1>3. \A n \in 0 .. ProtoSize - 1 : Slice(FirstPixel(lo)) <= n <=> FirstPixel(lo) <= n
  BY <1>1 DEF Slice, Smaller
<1>4. Cropped(lo, hi) = {n \in 0 .. ProtoSize - 1 : FirstPixel(lo) <= n /\ n < LastPixel(hi)}
  BY <1>1, <1>2, <1>3 DEF Cropped
<1>5. ASSUME NEW n \in 0 .. ProtoSize - 1
      PROVE  /\ FirstPixel(lo) <= n <=> lo * ProtoSize < (n + 1) * InputSize
             /\ n < LastPixel(hi) <=> (n + 1) * InputSize <= hi * ProtoSize
  BY FirstPixelRoundsDown, LastPixelRoundsDown
<1> QED
  BY <1>4, <1>5 DEF InBox

(* For every size of the input and of the masks, and every box that reaches  *)
(* the image, the crop leaves exactly the pixels of the mask that are in the *)
(* box (sidecar/main.py:375-386).                                            *)
THEOREM CropsExactly == DetectionsSpec => []MasksCropped
<1>1. DetectionsInv => MasksCropped
  BY BoxType, CropIsExact DEF DetectionsInv, MasksCropped
<1> QED
  BY DetectionsInvInit, DetectionsInvNext, <1>1, PTL DEF DetectionsSpec

===============================================================================
