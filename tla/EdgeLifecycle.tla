------------------------------ MODULE EdgeLifecycle ------------------------------
(***************************************************************************)
(* The life of an edge instance under each program that runs one without a *)
(* window: EdgeVision's headless client (edgevision/client/main.py with    *)
(* camara.py), the edge demo (edge-demo/edge_demo.py) and the two latency  *)
(* benchmarks (edgevision/bench.py, edgevision/scripts/benchmark.py).      *)
(* They discover a zone, register, instantiate, poll, ask for the endpoint,*)
(* work and tear down, and differ in what they do when a step fails.       *)
(***************************************************************************)
EXTENDS Naturals

CONSTANT MaxPolls  \* polls before a program gives up: 60 in most of them

ASSUME MaxPollsAssumption == MaxPolls \in Nat

VARIABLES
  program,   \* which of the programs runs
  keep,      \* the edge demo's --keep
  stage,     \* what it does next
  held,      \* whether it knows the id of its instance
  exists,    \* external: whether the edge has the instance
  polled,    \* polls so far
  shutdown,  \* main's _shutdown, which its signal handler sets
  excuse     \* history: why an instance may be left

lifeVars == <<program, keep, stage, held, exists, polled, shutdown, excuse>>

Programs == {"main", "edge_demo", "bench", "scripts_benchmark"}
NextStage == [discover |-> "register", register |-> "instantiate", endpoint |-> "work"]

LifeInit ==
  /\ program \in Programs
  /\ keep \in (IF program = "edge_demo" THEN BOOLEAN ELSE {FALSE})
  /\ stage = "discover" /\ held = FALSE /\ exists = FALSE
  /\ polled = 0 /\ shutdown = FALSE /\ excuse = {}

ProgramRuns == stage # "ended"
SameEdge == UNCHANGED <<program, keep, exists>>

(* Where an exception leads: the edge demo's finally covers all its steps,   *)
(* the second benchmark's only its work; main and the first benchmark have   *)
(* none.  Where a definition has another form before it, that is the form a  *)
(* plausible bug would give it; no action uses it.                           *)
NoFinally == FALSE
Protected == program = "edge_demo" \/ (program = "scripts_benchmark" /\ stage = "work")
Finally   == IF held /\ ~keep THEN "teardown" ELSE "ended"
Raises    == stage' = IF Protected THEN Finally ELSE "ended"

(* A step that raises while an instance runs, in a program without a finally.*)
Unprotected == IF held /\ ~Protected THEN {"unprotected"} ELSE {}
Fails == Raises /\ excuse' = excuse \cup Unprotected

(* discover_zone, register_app: an answer, or an exception.                  *)
AnswerOrFailure ==
  /\ \/ stage' = NextStage[stage] /\ UNCHANGED excuse
     \/ Fails
  /\ UNCHANGED <<held, polled, shutdown>> /\ SameEdge
Asks == stage \in {"discover", "register"} /\ AnswerOrFailure

(* get_endpoint, which also raises if the port it wants is not advertised.   *)
GetEndpoint == stage = "endpoint" /\ AnswerOrFailure

(* instantiate_app, whose answer may be lost.                                *)
Instantiate ==
  /\ stage = "instantiate"
  /\ \/ exists' = TRUE /\ held' = TRUE /\ stage' = "poll" /\ UNCHANGED excuse
     \/ exists' = TRUE /\ Raises /\ excuse' = excuse \cup {"no answer"} /\ UNCHANGED held
     \/ Fails /\ UNCHANGED <<exists, held>>
  /\ UNCHANGED <<program, keep, polled, shutdown>>

(* A poll: ready, failed or an exception, or not yet.  The second benchmark  *)
(* compares the answer, a dict, with "ready", and so never sees it.          *)
RestartsClock == polled' = (polled + 1) % MaxPolls
Counts        == polled' = polled + 1
SeesReady     == program # "scripts_benchmark"
Poll ==
  /\ stage = "poll" /\ polled < MaxPolls
  /\ Counts
  /\ \/ SeesReady /\ stage' = "endpoint" /\ UNCHANGED excuse
     \/ Fails
     \/ UNCHANGED <<stage, excuse>>
  /\ UNCHANGED <<held, shutdown>> /\ SameEdge

PollTimeout ==
  /\ stage = "poll" /\ polled = MaxPolls
  /\ Fails
  /\ UNCHANGED <<held, polled, shutdown>> /\ SameEdge

(* main's loop only ends by _shutdown; the others do their work once.        *)
EndLoop ==
  /\ stage = "work" /\ program = "main" /\ shutdown
  /\ stage' = Finally
  /\ UNCHANGED <<held, polled, shutdown, excuse>> /\ SameEdge

(* A failed frame is only logged in main and the first benchmark.            *)
LogsFailures == program \in {"main", "bench"}
WorkOnce ==
  /\ stage = "work" /\ program # "main"
  /\ \/ stage' = Finally /\ UNCHANGED excuse
     \/ ~LogsFailures /\ Fails
  /\ UNCHANGED <<held, polled, shutdown>> /\ SameEdge

(* terminate_app: an error is only logged, or ends the program.              *)
Teardown ==
  /\ stage = "teardown" /\ stage' = "ended"
  /\ \/ exists' = FALSE /\ UNCHANGED excuse
     \/ excuse' = excuse \cup {"delete failed"} /\ UNCHANGED exists
  /\ UNCHANGED <<program, keep, held, polled, shutdown>>

(* SIGTERM and SIGINT set main's flag.  In the others SIGTERM is the end, and*)
(* SIGINT raises wherever they are.                                          *)
Signal ==
  /\ ProgramRuns
  /\ \/ /\ program = "main" /\ ~shutdown /\ shutdown' = TRUE
        /\ UNCHANGED <<stage, excuse>>
     \/ /\ program # "main" /\ stage' = "ended" /\ excuse' = excuse \cup {"killed"}
        /\ UNCHANGED shutdown
     \/ /\ program # "main" /\ stage # "teardown" /\ Fails /\ UNCHANGED shutdown
  /\ UNCHANGED <<held, polled>> /\ SameEdge

ProgramStep == Asks \/ Instantiate \/ Poll \/ PollTimeout \/ GetEndpoint \/ EndLoop
               \/ WorkOnce \/ Teardown
LifeNext == ProgramStep \/ Signal

(* Every request has a timeout, so a program goes on.                        *)
LifeSpec == LifeInit /\ [][LifeNext]_lifeVars /\ WF_lifeVars(ProgramStep)

-------------------------------------------------------------------------------
(* Properties.                                                               *)

(* A program that has ended leaves an instance only because it was told to   *)
(* keep it, was killed, never got the instance's id, had its delete fail, or,*)
(* of those without a finally, failed in its setup or was interrupted; the   *)
(* edge demo leaves none on account of a failed step (edge_demo.py:209-235,  *)
(* main.py:105-128, 182-183, bench.py:25-87, benchmark.py:53-86).            *)
LeavesNothing ==
  ~ProgramRuns /\ exists =>
    \/ keep \/ excuse \cap {"killed", "no answer", "delete failed"} # {}
    \/ program # "edge_demo" /\ "unprotected" \in excuse

(* Every program comes to its end, main once it was signalled, also when the *)
(* signal comes in the middle of its setup (main.py:39-46, 76-90, 134,       *)
(* edge_demo.py:129-148, bench.py:51-65, benchmark.py:62-68).                *)
ProgramsEnd == program # "main" \/ shutdown ~> ~ProgramRuns

===============================================================================
