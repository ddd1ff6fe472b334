----------------------------- MODULE MCRequestParts -----------------------------
(* Requests and their answers, side by side: the GUI's remote detector, the  *)
(* nef-shim's proxy and status, and the inference servers with their         *)
(* postprocessing.  They share no state, so each behaviour runs one of them  *)
(* and leaves the others as they start.                                      *)
EXTENDS RemoteDetector, Sidecar, Detections, PodStatus, ProxyRace, TLC

VARIABLE part

Parts == {"detector", "sidecar", "detections", "pod", "proxy"}

Rectangle(x1, y1, x2, y2) == [x1 |-> x1, y1 |-> y1, x2 |-> x2, y2 |-> y2]

(* Three boxes of which only neighbours overlap by more than the threshold,  *)
(* one that sticks out above and on the left, one below and on the right,    *)
(* an empty one and one outside the image.                                   *)
InferenceBoxes ==
  {Rectangle(0, 0, 8, 8), Rectangle(2, 0, 10, 8), Rectangle(4, 0, 12, 8),
   Rectangle(-7, -6, 6, 7), Rectangle(11, 12, 20, 18), Rectangle(3, 3, 3, 3),
   Rectangle(-9, -9, -5, -5)}

Runs(p) == part = p
Rests(p) ==
  CASE p = "detector" -> UNCHANGED remoteVars [] p = "sidecar" -> UNCHANGED sidecarVars
    [] p = "detections" -> UNCHANGED detectionVars [] p = "pod" -> UNCHANGED podVars
    [] p = "proxy" -> UNCHANGED proxyVars

RequestInit ==
  /\ part \in Parts
  /\ RemoteInit /\ SidecarInit /\ DetectionsInit /\ PodInit /\ ProxyInit
  /\ Runs("detector") \/ imported = "grpc"
  /\ Runs("sidecar") \/ server = "k8s"

RequestNext ==
  /\ UNCHANGED part
  /\ \A p \in Parts \ {part} : Rests(p)
  /\ \/ Runs("detector") /\ RemoteNext
     \/ Runs("sidecar") /\ SidecarNext
     \/ Runs("detections") /\ DetectionsNext
     \/ Runs("pod") /\ PodNext
     \/ Runs("proxy") /\ ProxyNext

RequestSpec ==
  RequestInit /\ [][RequestNext]_<<part, remoteVars, sidecarVars, detectionVars, podVars,
                                   proxyVars>>

===============================================================================
