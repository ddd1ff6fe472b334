--------------------------- MODULE InferenceService ---------------------------
(***************************************************************************)
(* What an inference server promises to its callers, whatever its threads  *)
(* and buffers: an answer is made of images that were in service while the *)
(* request was, never of one answered before it came.  A request that is   *)
(* served alone is therefore answered from its own image.                  *)
(***************************************************************************)
CONSTANTS
  Callers,  \* requests that can be in service at once
  Images,   \* the images they send
  None      \* no request, no answer, no masks

VARIABLES
  request,  \* the image of each caller in service, or None
  seen,     \* the images in service at some moment since the caller's began
  answer    \* the last answer of each caller: where boxes and masks come from

serviceVars == <<request, seen, answer>>

Answers == [boxes: Images, masks: Images \cup {None}]

InService == {c \in Callers : request[c] # None}

ServiceInit ==
  /\ request = [c \in Callers |-> None]
  /\ seen = [c \in Callers |-> {}]
  /\ answer = [c \in Callers |-> None]

Begin(c, i) ==
  /\ request[c] = None
  /\ request' = [request EXCEPT ![c] = i]
  /\ seen' = [d \in Callers |->
                IF d = c THEN {i} \cup {request[e] : e \in InService}
                ELSE IF request[d] # None THEN seen[d] \cup {i} ELSE {}]
  /\ answer' = [answer EXCEPT ![c] = None]

Finish(c) ==
  /\ request[c] # None
  /\ request' = [request EXCEPT ![c] = None]
  /\ seen' = [seen EXCEPT ![c] = {}]

Reply(c) ==
  /\ \E b \in seen[c], m \in seen[c] \cup {None} :
       answer' = [answer EXCEPT ![c] = [boxes |-> b, masks |-> m]]
  /\ Finish(c)

(* An image that cannot be decoded, or a model that cannot be reached.       *)
Fail(c) == Finish(c) /\ UNCHANGED answer

ServiceNext == \E c \in Callers : \/ \E i \in Images : Begin(c, i)
                                  \/ Reply(c) \/ Fail(c)

ServiceSpec == ServiceInit /\ [][ServiceNext]_serviceVars

===============================================================================
