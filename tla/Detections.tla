------------------------------ MODULE Detections ------------------------------
(***************************************************************************)
(* What every EdgeVision server does with the output of a model: the       *)
(* threshold on the scores, non-maximum suppression, and the crop of the   *)
(* masks to the boxes that are kept.  The same code is in                  *)
(* triton-infer/sidecar, infer-sidecar, triton-infer-cpu and (twice) k8s.  *)
(*                                                                         *)
(* A coordinate is a whole number of pixels; the rounding of float32 is    *)
(* left out.                                                               *)
(***************************************************************************)
EXTENDS Integers, Absent

CONSTANTS
  Candidates,  \* the columns of the model's output
  Boxes,       \* what their coordinates may be
  Scores,      \* the best class score of a column, in hundredths
  Confidence,  \* confidence_threshold, in hundredths
  InputSize,   \* pixels in a row of the image given to the model
  ProtoSize    \* pixels in a row of a mask

Edges == {"x1", "y1", "x2", "y2"}
ASSUME BoxesAssumption ==
  /\ Boxes \subseteq [Edges -> Int]
  /\ \A b \in Boxes : b.x1 <= b.x2 /\ b.y1 <= b.y2
ASSUME ScoresAssumption == Scores \subseteq Int /\ Confidence \in Int
ASSUME SizesAssumption == InputSize \in Nat \ {0} /\ ProtoSize \in Nat \ {0}
ASSUME NoOutputAssumption == None \notin [Candidates -> [box: Boxes, score: Scores]]

VARIABLES
  found,  \* the box and score of each column, or None between two requests
  order,  \* the candidates not yet kept or dropped
  keep    \* those kept

detectionVars == <<found, order, keep>>

DetectionsInit == found = None /\ order = {} /\ keep = {}

Box(i)   == found[i].box
Score(i) == found[i].score

(* The columns whose score reaches the threshold.                            *)
Postprocess ==
  /\ found = None
  /\ found' \in [Candidates -> [box: Boxes, score: Scores]]
  /\ order' = {i \in Candidates : found'[i].score >= Confidence}
  /\ keep' = {}

Smaller(a, b) == IF a < b THEN a ELSE b
Larger(a, b)  == IF a < b THEN b ELSE a

Area(b) == (b.x2 - b.x1) * (b.y2 - b.y1)
Inter(a, b) == Larger(0, Smaller(a.x2, b.x2) - Larger(a.x1, b.x1))
               * Larger(0, Smaller(a.y2, b.y2) - Larger(a.y1, b.y1))
Union(a, b) == Area(a) + Area(b) - Inter(a, b)

(* iou <= 0.45, which is false of the NaN that two empty boxes give.         *)
FarApart(a, b) == Union(a, b) # 0 /\ 100 * Inter(a, b) <= 45 * Union(a, b)

(* scores.argsort()[::-1]: equal scores come in any order.  Where a           *)
(* definition has another form before it, that is the form a plausible bug   *)
(* would give it; no action uses it.                                         *)
Ascending(i)  == \A j \in order : Score(i) <= Score(j)
Descending(i) == \A j \in order : Score(j) <= Score(i)

OverlapOfSum(a, b) == 100 * Inter(a, b) <= 45 * (Area(a) + Area(b))
SurvivorsOfSum(i)  == {j \in order \ {i} : OverlapOfSum(Box(i), Box(j))}
Survivors(i)       == {j \in order \ {i} : FarApart(Box(i), Box(j))}

Keep(i) ==
  /\ i \in order /\ Descending(i)
  /\ keep' = keep \cup {i}
  /\ order' = Survivors(i)
  /\ UNCHANGED found

Answered ==
  /\ found # None /\ order = {}
  /\ found' = None /\ keep' = {}
  /\ UNCHANGED order

DetectionsNext == Postprocess \/ (\E i \in order : Keep(i)) \/ Answered

DetectionsSpec == DetectionsInit /\ [][DetectionsNext]_detectionVars

-------------------------------------------------------------------------------
(* The crop of a mask to its box, for rows and columns alike.                *)

(* int() cuts towards zero.                                                  *)
ToInt(n, d) == IF n >= 0 THEN n \div d ELSE -((-n) \div d)
ToMask(c) == ToInt(c * ProtoSize, InputSize)

(* What mask[:n] and mask[n:] are: a negative n counts from the end.         *)
Slice(n) == IF n < 0 THEN Larger(0, ProtoSize + n) ELSE Smaller(n, ProtoSize)
Unclamped(lo) == ToMask(lo)
FirstPixel(lo)     == Larger(0, ToMask(lo))
LastPixel(hi)      == Smaller(ProtoSize, ToMask(hi))

(* The pixels between the edges lo and hi that the two zeroings leave.       *)
Cropped(lo, hi) == Slice(FirstPixel(lo)) .. Slice(LastPixel(hi)) - 1

-------------------------------------------------------------------------------
(* Properties.                                                               *)

Done == found # None /\ order = {}

(* No two of the detections answered overlap by more than the threshold, and *)
(* what is missing scored too low or overlaps a detection that is answered   *)
(* and scored as high: suppression is not transitive                         *)
(* (sidecar/main.py:420-437).                                                *)
Suppression ==
  Done =>
    /\ \A i, j \in keep : i # j => FarApart(Box(i), Box(j))
    /\ \A i \in Candidates \ keep :
         Score(i) >= Confidence =>
           \E j \in keep : Score(j) >= Score(i) /\ ~FarApart(Box(j), Box(i))

(* A mask is cropped to exactly the part of its box that is in the image,    *)
(* also for boxes that stick out on either side, as long as they reach the   *)
(* image: the far edge of one that does not becomes a negative index, which  *)
(* crops one row where it should crop them all (sidecar/main.py:375-386).    *)
ReachesImage(hi) == -InputSize < hi * ProtoSize
InBox(lo, hi) == {n \in 0 .. ProtoSize - 1 : /\ lo * ProtoSize < (n + 1) * InputSize
                                               /\ (n + 1) * InputSize <= hi * ProtoSize}
MasksCropped ==
  \A i \in keep :
    /\ ReachesImage(Box(i).x2) => Cropped(Box(i).x1, Box(i).x2) = InBox(Box(i).x1, Box(i).x2)
    /\ ReachesImage(Box(i).y2) => Cropped(Box(i).y1, Box(i).y2) = InBox(Box(i).y1, Box(i).y2)

===============================================================================
