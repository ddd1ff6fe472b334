-------------------------------- MODULE CameraApi --------------------------------
(***************************************************************************)
(* The camera API (edgevision/camera-api/main.py): serves the images of a  *)
(* directory in turn.  It lists the directory when it starts, and again    *)
(* only while it knows of no image; a handler has no await, so each        *)
(* request is a step.                                                      *)
(***************************************************************************)
EXTENDS SequencesExt, Absent

CONSTANT Frames  \* the images that the directory may hold, numbered by name

ASSUME FramesAssumption == Frames \subseteq Nat

VARIABLES
  directory,  \* external: the images in IMAGES_DIR
  listed,     \* _image_files
  index,      \* _frame_index
  served,     \* the image that the last request got, or None for an error
  removed     \* history: an image was removed after it had been listed

cameraVars == <<directory, listed, index, served, removed>>

LoadImages == SetToSortSeq(directory, <)

CameraInit ==
  /\ directory \in SUBSET Frames
  /\ listed = LoadImages /\ index = 0 /\ served = None /\ removed = FALSE

(* get_frame: 503 with no images; a file that is gone raises before the      *)
(* index moves.  Where a definition has another form before it, that is the  *)
(* form a plausible bug would give it; no action uses it.                    *)
SkipsLast(files) == (index + 1) % (IF Len(files) > 1 THEN Len(files) - 1 ELSE 1)
NextIndex(files) == (index + 1) % Len(files)
GetFrame ==
  /\ listed' = IF listed = <<>> THEN LoadImages ELSE listed
  /\ LET image == listed'[(index % Len(listed')) + 1]
     IN IF listed' # <<>> /\ image \in directory
        THEN served' = image /\ index' = NextIndex(listed')
        ELSE served' = None /\ UNCHANGED index
  /\ UNCHANGED <<directory, removed>>

DirectoryChanges ==
  /\ \/ \E f \in Frames \ directory : directory' = directory \cup {f} /\ UNCHANGED removed
     \/ \E f \in directory : /\ directory' = directory \ {f}
                             /\ removed' = (removed \/ f \in ToSet(listed))
  /\ UNCHANGED <<listed, index, served>>

CameraNext == GetFrame \/ DirectoryChanges

(* The clients ask for a frame again and again.                              *)
CameraSpec == CameraInit /\ [][CameraNext]_cameraVars /\ WF_cameraVars(GetFrame)

-------------------------------------------------------------------------------
(* Properties.                                                               *)

(* Every image that was listed is served again and again, unless a listed one*)
(* is removed: no request ever gets past that one (camera-api/main.py:23-58).*)
AllImagesReturn ==
  \A f \in Frames : []<>(served = f \/ f \notin ToSet(listed) \/ removed)

===============================================================================
