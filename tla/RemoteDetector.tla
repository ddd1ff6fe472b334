----------------------------- MODULE RemoteDetector -----------------------------
(***************************************************************************)
(* The GUI's remote detector (edgevision/client/detector_remote.py) under  *)
(* the two threads that use it: the capture thread, which sends frames     *)
(* through a cached gRPC channel and falls back to HTTP, and the window's  *)
(* thread, whose T key closes the channel; each statement that reads or    *)
(* writes the module's globals is a step.  The setup thread changes the    *)
(* server behind the endpoint.  GuiEdge.tla has the rest of the window.    *)
(***************************************************************************)
EXTENDS Naturals, Absent

CONSTANTS
  Channels,     \* gRPC channels: bounds those in use at once
  LastServer,   \* bound: zones are switched until this server runs
  MaxRetries,   \* max_retries of detect
  MaxNetFails   \* bound: attempts lost in the network

ASSUME RemoteAssumption ==
  LastServer \in Nat \ {0} /\ MaxRetries \in Nat \ {0} /\ MaxNetFails \in Nat
ASSUME ChannelAssumption ==  \* a new channel is none of those in use
  None \notin Channels /\ \A c, d \in Channels \cup {None} : Channels \ {c, d} # {}

VARIABLES
  imported,  \* EDGE_TRANSPORT as detector_remote imported it from config
  cached,    \* the globals _channel and _stub (a stub is named by its channel)
  target,    \* the endpoint that each channel was made for, None once closed
  window,    \* config.EDGE_TRANSPORT, the GUI's endpoint, its server, whether
             \* a setup is in progress
  serving,   \* external: the servers that run
  call,      \* the capture thread's call of detect
  key,       \* what the T key's handler does next
  resets,    \* what _reset_channel does next, in each thread
  netFails,  \* how many attempts the network lost
  troubled   \* history: for how many more calls a closed channel may be met

remoteVars == <<imported, cached, target, window, serving, call, key, resets,
                netFails, troubled>>

Threads   == {"capture", "window"}
ServerIds   == 1 .. LastServer
Urls      == [server: ServerIds, transport: {"grpc", "http"}]
ServerUrl(s, t) == [server |-> s, transport |-> t]

ASSUME NoUrlAssumption == None \notin Urls

IdleCall == [step |-> "idle", endpoint |-> None, made |-> None, stub |-> None,
             left |-> 0, second |-> FALSE, excused |-> FALSE]

RemoteInit ==
  /\ imported \in {"grpc", "http"}
  /\ cached = [channel |-> None, stub |-> None]
  /\ target = [c \in Channels |-> None]
  /\ window = [transport |-> imported, endpoint |-> ServerUrl(1, imported), server |-> 1,
               busy |-> FALSE]
  /\ serving = {1} /\ call = IdleCall /\ key = "none"
  /\ resets = [t \in Threads |-> "none"]
  /\ netFails = 0 /\ troubled = 0

-------------------------------------------------------------------------------
(* _reset_channel: closes the channel and clears the two globals.  Where a   *)
(* definition has another form before it, that is the form a plausible bug   *)
(* would give it; no action uses it.                                         *)

KeepsStub   == cached
ForgetsStub == [cached EXCEPT !.stub = None]
ResetStep(t) ==
  /\ \/ /\ resets[t] = "close"
        /\ target' = [c \in Channels |-> IF c = cached.channel THEN None ELSE target[c]]
        /\ resets' = [resets EXCEPT ![t] = "channel"] /\ UNCHANGED cached
     \/ /\ resets[t] = "channel" /\ cached' = [cached EXCEPT !.channel = None]
        /\ resets' = [resets EXCEPT ![t] = "stub"] /\ UNCHANGED target
     \/ /\ resets[t] = "stub" /\ cached' = ForgetsStub
        /\ resets' = [resets EXCEPT ![t] = "none"] /\ UNCHANGED target
  /\ troubled' = IF t = "window" THEN 2 ELSE troubled
  /\ UNCHANGED <<imported, window, serving, call, key, netFails>>

(* The T key: the transport, then the endpoint, then the reset.              *)
OtherTransport == IF window.transport = "grpc" THEN "http" ELSE "grpc"
PressT ==
  /\ key = "none" /\ resets["window"] = "none"
  /\ window' = [window EXCEPT !.transport = OtherTransport]
  /\ key' = "endpoint"
  /\ troubled' = 2
  /\ UNCHANGED <<imported, cached, target, serving, call, resets, netFails>>

SetsUrl == [window EXCEPT !.endpoint =
              IF window.busy THEN None ELSE ServerUrl(window.server, window.transport)]
PressTEnds ==
  /\ key = "endpoint"
  /\ window' = SetsUrl
  /\ key' = "none" /\ resets' = [resets EXCEPT !["window"] = "close"]
  /\ troubled' = 2
  /\ UNCHANGED <<imported, cached, target, serving, call, netFails>>

-------------------------------------------------------------------------------
(* A zone switch: the old server is released, and may serve a while longer,  *)
(* or for ever when its deletion failed; then the new one is ready.          *)

SwitchBegins ==
  /\ ~window.busy /\ window.server < LastServer
  /\ window' = [window EXCEPT !.busy = TRUE, !.endpoint = None]
  /\ UNCHANGED <<imported, cached, target, serving, call, key, resets, netFails,
                 troubled>>

SwitchEnds ==
  /\ window.busy
  /\ LET new == window.server + 1
     IN /\ window' = [window EXCEPT !.busy = FALSE, !.server = new,
                                    !.endpoint = ServerUrl(new, window.transport)]
        /\ serving' = serving \cup {new}
  /\ UNCHANGED <<imported, cached, target, call, key, resets, netFails, troubled>>

Replaced == IF window.busy THEN serving ELSE serving \ {window.server}
ServerStops ==
  /\ \E s \in Replaced : serving' = serving \ {s}
  /\ UNCHANGED <<imported, cached, target, window, call, key, resets, netFails,
                 troubled>>

-------------------------------------------------------------------------------
(* The capture thread: detect, with the transport that was imported.         *)

CallAt(step) == call.step = step /\ resets["capture"] = "none"
CallGoes(step) == call' = [call EXCEPT !.step = step]

FirstStep == IF imported = "grpc" THEN "test" ELSE "attempt"
CallBegins ==
  /\ CallAt("idle") /\ window.endpoint # None /\ ~window.busy
  /\ call' = [IdleCall EXCEPT !.step = FirstStep, !.endpoint = window.endpoint,
                              !.left = MaxRetries]
  /\ UNCHANGED <<imported, cached, target, window, serving, key, resets, netFails,
                 troubled>>

(* _get_stub: the test, the new channel, its stub and the assignment of it,  *)
(* and the read that returns it.  A stub of no channel raises.               *)
TestStub ==
  /\ CallAt("test") /\ CallGoes(IF cached.stub = None THEN "create" ELSE "return")
  /\ UNCHANGED <<imported, cached, target, window, serving, key, resets, netFails,
                 troubled>>

NewChannel == CHOOSE c \in Channels : c \notin {cached.channel, cached.stub, call.stub}
CreateChannel ==
  /\ CallAt("create") /\ CallGoes("wrap")
  /\ cached' = [cached EXCEPT !.channel = NewChannel]
  /\ target' = [target EXCEPT ![NewChannel] = call.endpoint]
  /\ UNCHANGED <<imported, window, serving, key, resets, netFails, troubled>>

WrapChannel ==
  /\ CallAt("wrap")
  /\ call' = [call EXCEPT !.step = IF cached.channel = None THEN "lost" ELSE "store",
                          !.made = cached.channel]
  /\ UNCHANGED <<imported, cached, target, window, serving, key, resets, netFails,
                 troubled>>

StoreStub ==
  /\ CallAt("store") /\ CallGoes("return")
  /\ cached' = [cached EXCEPT !.stub = call.made]
  /\ UNCHANGED <<imported, target, window, serving, key, resets, netFails, troubled>>

ReturnStub ==
  /\ CallAt("return")
  /\ call' = [call EXCEPT !.step = "attempt", !.stub = cached.stub, !.made = None]
  /\ UNCHANGED <<imported, cached, target, window, serving, key, resets, netFails,
                 troubled>>

(* An attempt is answered by the server that the stub's channel or the       *)
(* session's request reaches; a gRPC channel reaches none at an HTTP url,    *)
(* nor the session at a gRPC target.                                         *)
Reached == IF imported = "http" THEN call.endpoint
           ELSE IF call.stub = None THEN None ELSE target[call.stub]
Reaches == Reached # None /\ Reached.transport = imported /\ Reached.server \in serving
AttemptAnswered ==
  /\ CallAt("attempt") /\ Reaches
  /\ call' = IdleCall
  /\ troubled' = IF troubled = 0 THEN 0 ELSE troubled - 1
  /\ UNCHANGED <<imported, cached, target, window, serving, key, resets, netFails>>

(* A failed attempt: any but the last resets the channel, while the call     *)
(* keeps the stub that it has.                                               *)
Excuse == \/ Reaches                            \* the network lost it
          \/ Reached # None                     \* the wrong or a dead server
AttemptFails ==
  /\ CallAt("attempt")
  /\ \/ ~Reaches /\ UNCHANGED netFails
     \/ Reaches /\ netFails < MaxNetFails /\ netFails' = netFails + 1
  /\ call' = [call EXCEPT !.left = @ - 1, !.excused = @ \/ Excuse,
                          !.step = IF call.left = 1 THEN "gaveUp" ELSE "attempt"]
  /\ resets' = [resets EXCEPT !["capture"] =
                  IF call.left > 1 /\ imported = "grpc" THEN "close" ELSE "none"]
  /\ UNCHANGED <<imported, cached, target, window, serving, key, troubled>>

(* The capture loop: a RuntimeError makes it fall back to HTTP, once.        *)
FallBack ==
  /\ CallAt("gaveUp")
  /\ \/ /\ window.transport = "grpc" /\ ~call.second /\ ~window.busy
        /\ window' = [window EXCEPT !.transport = "http"] /\ CallGoes("switch")
     \/ /\ window.transport = "http" \/ call.second \/ window.busy
        /\ CallGoes("lost") /\ UNCHANGED window
  /\ UNCHANGED <<imported, cached, target, serving, key, resets, netFails, troubled>>

FallBackSwitch ==
  /\ CallAt("switch") /\ CallGoes("again")
  /\ window' = SetsUrl
  /\ resets' = [resets EXCEPT !["capture"] = "close"]
  /\ UNCHANGED <<imported, cached, target, serving, key, netFails, troubled>>

FallBackAgain ==
  /\ CallAt("again")
  /\ call' = IF window.endpoint = None THEN [call EXCEPT !.step = "lost"]
             ELSE [IdleCall EXCEPT !.step = FirstStep, !.endpoint = window.endpoint,
                                   !.left = MaxRetries, !.second = TRUE]
  /\ UNCHANGED <<imported, cached, target, window, serving, key, resets, netFails,
                 troubled>>

CallLost ==
  /\ CallAt("lost")
  /\ call' = IdleCall
  /\ troubled' = IF troubled = 0 THEN 0 ELSE troubled - 1
  /\ UNCHANGED <<imported, cached, target, window, serving, key, resets, netFails>>

CallStep ==
  \/ CallBegins \/ TestStub \/ CreateChannel \/ WrapChannel \/ StoreStub \/ ReturnStub
  \/ AttemptAnswered \/ AttemptFails \/ FallBack \/ FallBackSwitch \/ FallBackAgain \/ CallLost
  \/ ResetStep("capture")
WindowStep == PressTEnds \/ ResetStep("window")

RemoteNext == CallStep \/ WindowStep \/ PressT \/ SwitchBegins \/ SwitchEnds \/ ServerStops

RemoteSpec == RemoteInit /\ [][RemoteNext]_remoteVars

-------------------------------------------------------------------------------
(* Properties.                                                               *)

(* A call gives up for a reason of its own: the network lost an attempt, or  *)
(* the stub leads to a server that is gone or speaks another protocol, or    *)
(* the T key closed its channel during this call or the last one.  A failure *)
(* never outlives the call that it happened in (detector_remote.py:91-174,   *)
(* gui.py:77-85, 311-324).                                                   *)
FailsForAReason == call.step = "gaveUp" => call.excused \/ troubled > 0

(* "Transport is selected by EDGE_TRANSPORT config" (detector_remote.py:5):  *)
(* an endpoint is called with the transport that it is an endpoint of.       *)
ConfiguredTransport == call.step = "attempt" => call.endpoint.transport = imported

===============================================================================
