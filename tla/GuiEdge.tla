-------------------------------- MODULE GuiEdge --------------------------------
(***************************************************************************)
(* The edge life of the EdgeVision GUI (edgevision/client/gui.py): the     *)
(* window's thread that handles keys, the threads it starts to discover    *)
(* zones and to set an edge instance up, and the capture thread that sends *)
(* frames to the endpoint.  They share the object's fields without a lock, *)
(* so every write of a field that another thread reads is an action.       *)
(*                                                                         *)
(* The edge (the nef-shim, NefShim.tla) is reduced to the set of the       *)
(* tenant's instances that it has a record of.                             *)
(***************************************************************************)
EXTENDS FiniteSets, Absent

CONSTANTS
  Zones,        \* zones that discovery lists
  InstanceIds,  \* ids the edge may hand out: bounds those in use at once
  Discoveries,  \* discovery threads: bounds those running at once
  Setups,       \* setup threads: bounds those running at once
  DeletesFail   \* whether a request to terminate an instance may fail

Transports == {"grpc", "http"}

ASSUME DeletesFailAssumption == DeletesFail \in BOOLEAN
(* discover_zones raises when there is none (camara.py:98-100).              *)
ASSUME ZonesAssumption == Zones # {}

VARIABLES
  records,    \* the edge: the instances that exist
  self,       \* the fields of the object that several threads use
  ui,         \* the window's thread: what it does next, and the zone it confirms
  discovery,  \* what each discovery thread does next
  setup,      \* what each setup thread does next, its zone and its instance_id,
              \* which after discovery stands for the urls that it was answered
  capture,    \* what the capture thread does next
  stranded,   \* history: instances whose termination failed, or the answer to
              \* whose create was lost
  overlapped, \* history: a zone was confirmed while a setup was under way
  hasty       \* history: a key was pressed before what the last one started
              \* had come to its end

vars == <<records, self, ui, discovery, setup, capture, stranded, overlapped, hasty>>

Endpoints  == [instance: InstanceIds, transport: Transports]

(* endpoint is the url of an instance's port; grpcUrl and httpUrl say whose  *)
(* urls are kept; zone is _edge_zone_id, which __init__ leaves unset.        *)
Fields ==
  [mode: {"local", "edge"}, transport: Transports, instance: InstanceIds \cup {None},
   zone: Zones \cup {None}, endpoint: Endpoints \cup {None},
   grpcUrl: InstanceIds \cup {None}, httpUrl: InstanceIds \cup {None},
   inProgress: BOOLEAN, picking: BOOLEAN, listed: SUBSET Zones]
UiSteps    == {"keys", "grpcEndpoint", "httpEndpoint", "edge", "flag", "crashed", "closed"}
SetupSteps == {"start", "terminate", "forget", "clearEndpoint", "clearGrpc", "clearHttp",
               "create", "keep", "keepZone", "poll", "urls", "keepGrpc", "keepHttp", "choose",
               "useGrpc", "toHttp", "useHttp", "done", "failed", "toLocal"}

ASSUME NoneAssumption ==
  None \notin Zones \cup InstanceIds \cup Endpoints \cup SetupSteps \cup {"ask", "list", "open"}

(* Type correctness of the GUI's fields and of its threads.                  *)
TypeOK ==
  /\ records \subseteq InstanceIds /\ stranded \subseteq records
  /\ self \in Fields
  /\ ui \in [step: UiSteps, zone: Zones \cup {None}]
  /\ discovery \in [Discoveries -> {None, "ask", "list", "open"}]
  /\ setup \in [Setups -> [step: SetupSteps \cup {None}, zone: Zones \cup {None},
                           instance: InstanceIds \cup {None}]]
  /\ capture \in {"frame", "call", "fallback", "switch"}
  /\ {overlapped, hasty} \subseteq BOOLEAN

Idle == [step |-> None, zone |-> None, instance |-> None]

Init ==
  /\ records = {}
  /\ self = [mode |-> "local", transport |-> "grpc", instance |-> None, zone |-> None,
             endpoint |-> None, grpcUrl |-> None, httpUrl |-> None,
             inProgress |-> FALSE, picking |-> FALSE, listed |-> {}]
  /\ ui = [step |-> "keys", zone |-> None]
  /\ discovery = [d \in Discoveries |-> None]
  /\ setup = [s \in Setups |-> Idle]
  /\ capture = "frame"
  /\ stranded = {} /\ overlapped = FALSE /\ hasty = FALSE

(* The other threads are daemons: they end with the window's thread.         *)
Running == ui.step \notin {"crashed", "closed"}

UiAt(step) == ui.step = step
UiGoesTo(step) == ui' = [ui EXCEPT !.step = step]

(* Where a definition has another form before it, that is the form a         *)
(* plausible bug would give it; no action uses it.                           *)
UrlAlways(i, t) == [instance |-> i, transport |-> t]
Url(i, t) == IF i = None THEN None ELSE [instance |-> i, transport |-> t]

-------------------------------------------------------------------------------
(* The keys.                                                                 *)

(* _toggle_mode, by the E key when no picker is open, or by a click on the   *)
(* badge at any time.                                                        *)
StartDiscovery ==
  \E d \in Discoveries : /\ discovery[d] = None
                         /\ discovery' = [discovery EXCEPT ![d] = "ask"]
ToggleMode ==
  /\ UiAt("keys") /\ ~self.inProgress
  /\ \/ self.mode = "local" /\ StartDiscovery /\ UNCHANGED self
     \/ self.mode = "edge" /\ self' = [self EXCEPT !.mode = "local"] /\ UNCHANGED discovery
  /\ UNCHANGED <<records, ui, setup, capture, stranded, overlapped>>

(* _toggle_transport writes the transport, then the endpoint.                *)
ToggleTransport ==
  /\ UiAt("keys") /\ ~self.picking
  /\ \/ /\ self.transport = "grpc" /\ self' = [self EXCEPT !.transport = "http"]
        /\ UiGoesTo("httpEndpoint")
     \/ /\ self.transport = "http" /\ self' = [self EXCEPT !.transport = "grpc"]
        /\ UiGoesTo("grpcEndpoint")
  /\ UNCHANGED <<records, discovery, setup, capture, stranded, overlapped>>

ToggleEndpoint ==
  /\ \/ UiAt("httpEndpoint") /\ self' = [self EXCEPT !.endpoint = Url(self.httpUrl, "http")]
     \/ UiAt("grpcEndpoint") /\ self' = [self EXCEPT !.endpoint = Url(self.grpcUrl, "grpc")]
  /\ UiGoesTo("keys")
  /\ UNCHANGED <<records, discovery, setup, capture, stranded, overlapped>>

(* ESC in the picker.                                                        *)
CancelPicker ==
  /\ UiAt("keys") /\ self.picking
  /\ self' = [self EXCEPT !.picking = FALSE, !.listed = {}]
  /\ UNCHANGED <<records, ui, discovery, setup, capture, stranded, overlapped>>

(* UP and DOWN compute modulo the number of zones listed: ZeroDivisionError  *)
(* in the window's thread when there is none.                                *)
MoveSelection ==
  /\ UiAt("keys") /\ self.picking /\ self.listed = {}
  /\ UiGoesTo("crashed")
  /\ UNCHANGED <<records, self, discovery, setup, capture, stranded, overlapped>>

(* ENTER or a digit: _confirm_zone_picker, four statements.                  *)
ConfirmPicker ==
  /\ UiAt("keys") /\ self.picking
  /\ \E z \in self.listed : ui' = [step |-> "edge", zone |-> z]
  /\ self' = [self EXCEPT !.picking = FALSE]
  /\ overlapped' = (overlapped \/ \E s \in Setups : setup[s] # Idle)
  /\ UNCHANGED <<records, discovery, setup, capture, stranded>>

ConfirmMode ==
  /\ UiAt("edge")
  /\ self' = [self EXCEPT !.mode = "edge"]
  /\ UiGoesTo("flag")
  /\ UNCHANGED <<records, discovery, setup, capture, stranded, overlapped>>

StartsSetup(z) ==
  \E s \in Setups : /\ setup[s] = Idle
                    /\ setup' = [setup EXCEPT ![s] = [step |-> "start", zone |-> z,
                                                      instance |-> None]]
ConfirmFlag ==
  /\ UiAt("flag")
  /\ self' = [self EXCEPT !.inProgress = TRUE]
  /\ StartsSetup(ui.zone)
  /\ ui' = [step |-> "keys", zone |-> None]
  /\ UNCHANGED <<records, discovery, capture, stranded, overlapped>>

(* Q or ESC: the loop ends and _teardown_edge terminates the instance that   *)
(* the object holds.                                                         *)
Deletes(i) == \/ records' = records \ {i} /\ stranded' = stranded \ {i}
              \/ /\ DeletesFail /\ i \in records /\ UNCHANGED records
                 /\ stranded' = stranded \cup {i}
Quit ==
  /\ UiAt("keys") /\ ~self.picking
  /\ Deletes(self.instance)
  /\ UiGoesTo("closed")
  /\ UNCHANGED <<self, discovery, setup, capture, overlapped>>

-------------------------------------------------------------------------------
(* _discover_zones_bg, in a thread: the request may fail.                    *)

Unlisted == {}
Listed   == Zones
DiscoveryStep(d) ==
  /\ \/ /\ discovery[d] = "ask"
        /\ \E next \in {"list", None} : discovery' = [discovery EXCEPT ![d] = next]
        /\ UNCHANGED self
     \/ /\ discovery[d] = "list"
        /\ self' = [self EXCEPT !.listed = Listed]
        /\ discovery' = [discovery EXCEPT ![d] = "open"]
     \/ /\ discovery[d] = "open"
        /\ self' = [self EXCEPT !.picking = TRUE]
        /\ discovery' = [discovery EXCEPT ![d] = None]
  /\ UNCHANGED <<records, ui, setup, capture, stranded, overlapped>>

-------------------------------------------------------------------------------
(* _setup_edge, in a thread.  Every request it sends may raise.              *)

SetupAt(s, step) == setup[s].step = step
GoesTo(s, step) == setup' = [setup EXCEPT ![s].step = step]
Ends(s) == setup' = [setup EXCEPT ![s] = Idle]
OnlySetup == UNCHANGED <<ui, discovery, capture, stranded, overlapped>>

(* The fast path: an instance in the zone asked for, with an endpoint.       *)
Warm(z) == self.instance # None /\ self.endpoint # None /\ z = self.zone
SetupStart(s) ==
  /\ SetupAt(s, "start")
  /\ \/ Warm(setup[s].zone) /\ GoesTo(s, "done")
     \/ ~Warm(setup[s].zone) /\ self.instance # None /\ GoesTo(s, "terminate")
     \/ ~Warm(setup[s].zone) /\ self.instance = None /\ GoesTo(s, "create")
  /\ UNCHANGED <<records, self>> /\ OnlySetup

(* The previous instance goes, a failure is logged, and what the object kept *)
(* of it goes.                                                               *)
SkipsTerminate(s) == UNCHANGED <<records, stranded>>
Terminates(s)     == Deletes(self.instance)
SetupTerminate(s) ==
  /\ SetupAt(s, "terminate")
  /\ Terminates(s)
  /\ GoesTo(s, "forget")
  /\ UNCHANGED <<self, ui, discovery, capture, overlapped>>

SetupForget(s) ==
  /\ \/ /\ SetupAt(s, "forget") /\ self' = [self EXCEPT !.instance = None]
        /\ GoesTo(s, "clearEndpoint")
     \/ /\ SetupAt(s, "clearEndpoint") /\ self' = [self EXCEPT !.endpoint = None]
        /\ GoesTo(s, "clearGrpc")
     \/ /\ SetupAt(s, "clearGrpc") /\ self' = [self EXCEPT !.grpcUrl = None]
        /\ GoesTo(s, "clearHttp")
     \/ /\ SetupAt(s, "clearHttp") /\ self' = [self EXCEPT !.httpUrl = None]
        /\ GoesTo(s, "create")
  /\ UNCHANGED records /\ OnlySetup

(* register_app and instantiate_app.  Either may fail before anything is     *)
(* recorded; and the answer to the second may be lost, or come after its     *)
(* timeout, when the edge has recorded the instance (camara.py:133).         *)
UsedIds ==
  records \cup {self.instance, self.grpcUrl, self.httpUrl}
  \cup {setup[s].instance : s \in Setups}
  \cup (IF self.endpoint = None THEN {} ELSE {self.endpoint.instance})
Recorded(i) == i \in InstanceIds \ UsedIds /\ records' = records \cup {i}
Answered(s, i) ==
  /\ Recorded(i) /\ UNCHANGED stranded
  /\ setup' = [setup EXCEPT ![s] = [step |-> "keep", zone |-> @.zone, instance |-> i]]
AnswerLost(s, i) ==
  Recorded(i) /\ stranded' = stranded \cup {i} /\ GoesTo(s, "failed")
SetupCreate(s) ==
  /\ SetupAt(s, "create")
  /\ \/ \E i \in InstanceIds : Answered(s, i) \/ AnswerLost(s, i)
     \/ GoesTo(s, "failed") /\ UNCHANGED <<records, stranded>>
  /\ UNCHANGED <<self, ui, discovery, capture, overlapped>>

(* Then the object keeps the id and the zone.                                *)
KeepsNothing(s)  == UNCHANGED self
KeepsInstance(s) == self' = [self EXCEPT !.instance = setup[s].instance]
SetupKeep(s) ==
  /\ \/ SetupAt(s, "keep") /\ KeepsInstance(s) /\ GoesTo(s, "keepZone")
     \/ /\ SetupAt(s, "keepZone") /\ self' = [self EXCEPT !.zone = setup[s].zone]
        /\ GoesTo(s, "poll")
  /\ UNCHANGED records /\ OnlySetup

(* The poll ends the thread when the mode is no longer edge; the answer for  *)
(* an instance the edge does not know, a failed one and the timeout raise.   *)
SetupPoll(s) ==
  /\ SetupAt(s, "poll")
  /\ \/ self.mode # "edge" /\ Ends(s)
     \/ self.mode = "edge" /\ setup[s].instance \in records /\ GoesTo(s, "urls")
     \/ self.mode = "edge" /\ GoesTo(s, "failed")
  /\ UNCHANGED <<records, self>> /\ OnlySetup

(* The answer of discovery has the instance's urls, or only empty ones, when *)
(* the shim could not read the Service (NefShim's Endpoints).  They are kept *)
(* one after the other.                                                      *)
SetupUrls(s) ==
  /\ SetupAt(s, "urls")
  /\ \/ /\ setup[s].instance \in records
        /\ \E i \in {setup[s].instance, None} :
             setup' = [setup EXCEPT ![s] = [step |-> "keepGrpc", zone |-> @.zone,
                                            instance |-> i]]
     \/ GoesTo(s, "failed")
  /\ UNCHANGED <<records, self>> /\ OnlySetup

SetupKeepUrls(s) ==
  /\ \/ /\ SetupAt(s, "keepGrpc") /\ self' = [self EXCEPT !.grpcUrl = setup[s].instance]
        /\ GoesTo(s, "keepHttp")
     \/ /\ SetupAt(s, "keepHttp") /\ self' = [self EXCEPT !.httpUrl = setup[s].instance]
        /\ GoesTo(s, "choose")
  /\ UNCHANGED records /\ OnlySetup

(* The transport decides which one is the endpoint; without a gRPC url it    *)
(* becomes "http".                                                           *)
SetupChoose(s) ==
  /\ SetupAt(s, "choose")
  /\ \/ self.transport = "grpc" /\ setup[s].instance # None /\ GoesTo(s, "useGrpc")
     \/ self.transport = "http" /\ GoesTo(s, "toHttp")
     \/ setup[s].instance = None /\ GoesTo(s, "toHttp")
  /\ UNCHANGED <<records, self>> /\ OnlySetup

SetupEndpoint(s) ==
  /\ \/ /\ SetupAt(s, "useGrpc") /\ self' = [self EXCEPT !.endpoint = Url(setup[s].instance, "grpc")]
        /\ GoesTo(s, "done")
     \/ /\ SetupAt(s, "toHttp") /\ self' = [self EXCEPT !.transport = "http"]
        /\ GoesTo(s, "useHttp")
     \/ /\ SetupAt(s, "useHttp") /\ self' = [self EXCEPT !.endpoint = Url(setup[s].instance, "http")]
        /\ GoesTo(s, "done")
  /\ UNCHANGED records /\ OnlySetup

LeavesFlag == UNCHANGED self
ClearsFlag == self' = [self EXCEPT !.inProgress = FALSE]
SetupDone(s) ==
  /\ SetupAt(s, "done")
  /\ ClearsFlag
  /\ Ends(s)
  /\ UNCHANGED records /\ OnlySetup

(* The except clause clears the flag, then sets the mode.                    *)
SetupFailed(s) ==
  /\ \/ SetupAt(s, "failed") /\ ClearsFlag /\ GoesTo(s, "toLocal")
     \/ SetupAt(s, "toLocal") /\ self' = [self EXCEPT !.mode = "local"] /\ Ends(s)
  /\ UNCHANGED records /\ OnlySetup

SetupStep(s) ==
  \/ SetupStart(s) \/ SetupTerminate(s) \/ SetupForget(s) \/ SetupCreate(s) \/ SetupKeep(s)
  \/ SetupPoll(s) \/ SetupUrls(s) \/ SetupKeepUrls(s) \/ SetupChoose(s) \/ SetupEndpoint(s)
  \/ SetupDone(s) \/ SetupFailed(s)

-------------------------------------------------------------------------------
(* _capture_loop: the test of the guard and the use of the endpoint are two  *)
(* reads.  A frame that runs locally changes nothing here.                   *)

CaptureTest ==
  /\ capture = "frame"
  /\ self.mode = "edge" /\ self.endpoint # None /\ ~self.inProgress
  /\ capture' = "call"
  /\ UNCHANGED <<records, self, ui, discovery, setup, stranded, overlapped>>

(* detect answers, or has given up after its tries.                          *)
Serves(e) == e # None /\ e.instance \in records
CaptureCall ==
  /\ capture = "call"
  /\ \/ Serves(self.endpoint) /\ capture' = "frame"
     \/ capture' = "fallback"
  /\ UNCHANGED <<records, self, ui, discovery, setup, stranded, overlapped>>

CaptureFallback ==
  /\ capture = "fallback"
  /\ \/ /\ self.transport = "grpc" /\ self.httpUrl # None
        /\ self' = [self EXCEPT !.transport = "http"]
        /\ capture' = "switch"
     \/ /\ self.transport = "http" \/ self.httpUrl = None
        /\ capture' = "frame" /\ UNCHANGED self
  /\ UNCHANGED <<records, ui, discovery, setup, stranded, overlapped>>

CaptureSwitch ==
  /\ capture = "switch"
  /\ self' = [self EXCEPT !.endpoint = Url(self.httpUrl, "http")]
  /\ capture' = "frame"
  /\ UNCHANGED <<records, ui, discovery, setup, stranded, overlapped>>

CaptureStep == CaptureTest \/ CaptureCall \/ CaptureFallback \/ CaptureSwitch

-------------------------------------------------------------------------------
(* A patient user presses no key during a discovery or a setup, and none but *)
(* the picker's own while it is open.                                        *)
Quiet == /\ \A d \in Discoveries : discovery[d] = None
         /\ \A s \in Setups : setup[s] = Idle

PickerKeys == CancelPicker \/ MoveSelection \/ ConfirmPicker
MainKeys   == ToggleMode \/ ToggleTransport \/ Quit
Continues  == \/ ToggleEndpoint \/ ConfirmMode \/ ConfirmFlag
              \/ \E d \in Discoveries : DiscoveryStep(d)
              \/ \E s \in Setups : SetupStep(s)
              \/ CaptureStep

Next ==
  /\ Running
  /\ \/ PickerKeys /\ hasty' = (hasty \/ ~Quiet)
     \/ MainKeys /\ hasty' = (hasty \/ ~Quiet \/ self.picking)
     \/ Continues /\ UNCHANGED hasty

Spec == Init /\ [][Next]_vars

(* The patient user, whose threads are scheduled.  Requests have timeouts    *)
(* and the polls of a setup are counted, so none of its steps waits for ever.*)
UserContinues     == Running /\ (ToggleEndpoint \/ ConfirmMode \/ ConfirmFlag) /\ UNCHANGED hasty
SetupContinues(s) == Running /\ SetupStep(s) /\ UNCHANGED hasty
PatientSpec ==
  /\ Init /\ [][Next /\ ~hasty']_vars
  /\ WF_vars(UserContinues) /\ \A s \in Setups : WF_vars(SetupContinues(s))

-------------------------------------------------------------------------------
(* Properties.                                                               *)

AtRest == Running /\ UiAt("keys") /\ Quiet

Tracked == records \ stranded \subseteq {self.instance}

(* A patient user leaks nothing but what failed to terminate and what was    *)
(* created without her hearing of it: between setups the edge has at most    *)
(* one other instance, the one that the object holds, and after quitting     *)
(* none, so whatever else failed in a setup, the next one, a zone switch or  *)
(* the teardown finds what there is to delete (gui.py:168-179, 191, 271-284, *)
(* 903; camara.py:133).                                                      *)
NothingLeaked ==
  ~hasty => (AtRest => Tracked) /\ (UiAt("closed") => records = stranded)

(* Nor does the picker's arithmetic, modulo the number of zones, ever divide *)
(* by zero for her (gui.py:116-140, 877-886).                                *)
ArrowsWork == ~hasty => ~UiAt("crashed")

(* "Press 'e' ... to toggle between local CPU and edge GPU" (gui.py:4): with *)
(* no setup under way the flag that disables the key is down.                *)
KeyAlive == AtRest => ~self.inProgress

(* Whatever the user does, while the window is open an instance whose create *)
(* was answered and whose termination did not fail is only lost track of, or *)
(* the E key only disabled for good, when a zone was confirmed during an     *)
(* earlier setup: no other interleaving of the threads does it               *)
(* (gui.py:95-275; camara.py:133).                                           *)
OnlyOverlapHurts == ~overlapped /\ AtRest => Tracked /\ ~self.inProgress

(* A setup comes to its end, whatever fails in it: the E key works again     *)
(* (gui.py:142-275).                                                         *)
SetupEnds == self.inProgress ~> ~self.inProgress \/ ~Running

===============================================================================
