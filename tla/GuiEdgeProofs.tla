----------------------------- MODULE GuiEdgeProofs -----------------------------
(***************************************************************************)
(* Theorems about the GUI's edge life (GuiEdge.tla): what its threads do   *)
(* to the instance, the flag and the picker however they interleave, for   *)
(* any zones, ids and numbers of threads.                                  *)
(***************************************************************************)
EXTENDS GuiEdge, TLAPS

-------------------------------------------------------------------------------
(* The inductive invariant.                                                  *)

(* While no zone was confirmed during a setup, what confirms a zone and the  *)
(* setup it starts are one thread of control, the holder.                    *)
NoSetup == \A s \in Setups : setup[s] = Idle
Lone == /\ UiAt("edge") \/ UiAt("flag") => NoSetup
        /\ \A s, t \in Setups : setup[s] # Idle /\ setup[t] # Idle => s = t
Rested == NoSetup => Tracked /\ ~self.inProgress

(* What the holder's step says of the instance that the edge has: it is the  *)
(* object's, there is none, or it is the setup's own.                        *)
Bare == records \subseteq stranded
Holds(x) ==
  /\ x.step \in {"start", "terminate", "keepZone", "poll", "urls", "keepGrpc", "keepHttp",
                  "choose", "useGrpc", "toHttp", "useHttp", "done", "failed", "toLocal"}
       => Tracked
  /\ x.step \in {"forget", "clearEndpoint", "clearGrpc", "clearHttp", "create"} => Bare
  /\ x.step = "keep" => records \ stranded \subseteq {x.instance}

(* And of the flag and the mode: the flag is up, so no key leaves edge mode. *)
Flagged(x) ==
  /\ x.step = None => x = Idle
  /\ x.step \notin {None, "toLocal"} => self.inProgress /\ self.mode = "edge"
  /\ x.step = "toLocal" => ~self.inProgress

LoneOK == /\ Lone /\ Rested /\ (UiAt("flag") => self.mode = "edge")
          /\ \A s \in Setups : Holds(setup[s]) /\ Flagged(setup[s])

(* A patient user confirms no zone during a setup, opens the picker with all *)
(* zones listed, and quits when the edge has no more than the object holds.  *)
PatientOK ==
  /\ ~overlapped
  /\ self.picking \/ (\E d \in Discoveries : discovery[d] = "open") => self.listed = Zones
  /\ ~UiAt("crashed")
  /\ UiAt("closed") => Bare

GuiInv == TypeOK /\ (~overlapped => LoneOK) /\ (~hasty => PatientOK)

-------------------------------------------------------------------------------
(* Types.                                                                    *)

(* A thread that goes on to another step keeps its zone and its instance.    *)
LEMMA GoesOn ==
  ASSUME TypeOK, NEW s \in Setups, NEW step \in SetupSteps, GoesTo(s, step)
  PROVE  /\ setup' = [setup EXCEPT ![s] = [step |-> step, zone |-> setup[s].zone,
                                           instance |-> setup[s].instance]]
         /\ setup' \in [Setups -> [step: SetupSteps \cup {None}, zone: Zones \cup {None},
                                   instance: InstanceIds \cup {None}]]
<1>1. setup[s] \in [step: SetupSteps \cup {None}, zone: Zones \cup {None},
                    instance: InstanceIds \cup {None}]
  BY DEF TypeOK
<1>2. [setup[s] EXCEPT !.step = step] = [step |-> step, zone |-> setup[s].zone,
                                         instance |-> setup[s].instance]
  BY <1>1
<1>3. setup' = [setup EXCEPT ![s] = [setup[s] EXCEPT !.step = step]]
  BY DEF GoesTo
<1> QED
  BY <1>1, <1>2, <1>3 DEF TypeOK

LEMMA EndsIdle ==
  ASSUME TypeOK, NEW s \in Setups, Ends(s)
  PROVE  setup' \in [Setups -> [step: SetupSteps \cup {None}, zone: Zones \cup {None},
                                instance: InstanceIds \cup {None}]]
  BY DEF Ends, Idle, TypeOK

LEMMA UrlTypes ==
  ASSUME NEW i \in InstanceIds \cup {None}, NEW t \in Transports
  PROVE  Url(i, t) \in Endpoints \cup {None}
  BY DEF Url, Endpoints

(* A deletion leaves no more than there was, and nothing where there was but *)
(* the instance.                                                             *)
LEMMA DeletesOne ==
  ASSUME TypeOK, NEW i, Deletes(i)
  PROVE  /\ records' \subseteq InstanceIds /\ stranded' \subseteq records'
         /\ records' \ stranded' \subseteq records \ stranded
         /\ records \ stranded \subseteq {i} => records' \subseteq stranded'
  BY DEF Deletes, TypeOK

LEMMA GuiTypesInit == Init => TypeOK
<1> SUFFICES ASSUME Init PROVE TypeOK
  OBVIOUS
<1>1. self \in Fields
  BY DEF Init, Fields, Transports
<1>2. ui \in [step: UiSteps, zone: Zones \cup {None}]
  BY DEF Init, UiSteps
<1>3. setup \in [Setups -> [step: SetupSteps \cup {None}, zone: Zones \cup {None},
                            instance: InstanceIds \cup {None}]]
  BY DEF Init, Idle
<1> QED
  BY <1>1, <1>2, <1>3 DEF Init, TypeOK

LEMMA KeyTypes ==
  ASSUME TypeOK,
         \/ ToggleMode \/ ToggleTransport \/ ToggleEndpoint \/ CancelPicker
         \/ MoveSelection \/ ConfirmPicker \/ ConfirmMode \/ ConfirmFlag \/ Quit,
         hasty' \in BOOLEAN
  PROVE  TypeOK'
<1>1. CASE ToggleMode
  BY <1>1 DEF ToggleMode, StartDiscovery, TypeOK, Fields
<1>2. CASE ToggleTransport
  BY <1>2 DEF ToggleTransport, UiGoesTo, TypeOK, Fields, UiSteps, Transports
<1>3. CASE ToggleEndpoint
  <2>1. self \in Fields /\ Url(self.httpUrl, "http") \in Endpoints \cup {None}
        /\ Url(self.grpcUrl, "grpc") \in Endpoints \cup {None}
    BY UrlTypes DEF TypeOK, Fields, Transports
  <2>2. self' \in Fields
    BY <1>3, <2>1 DEF ToggleEndpoint, Fields
  <2>3. ui' \in [step: UiSteps, zone: Zones \cup {None}]
    BY <1>3 DEF ToggleEndpoint, UiGoesTo, TypeOK, UiSteps
  <2> QED
    BY <1>3, <2>2, <2>3 DEF ToggleEndpoint, TypeOK
<1>4. CASE CancelPicker
  BY <1>4 DEF CancelPicker, TypeOK, Fields
<1>5. CASE MoveSelection
  BY <1>5 DEF MoveSelection, UiGoesTo, TypeOK, UiSteps
<1>6. CASE ConfirmPicker
  <2>1. ui' \in [step: UiSteps, zone: Zones \cup {None}]
    BY <1>6 DEF ConfirmPicker, TypeOK, Fields, UiSteps
  <2>2. self' \in Fields
    BY <1>6 DEF ConfirmPicker, TypeOK, Fields
  <2>3. overlapped' \in BOOLEAN
    BY <1>6 DEF ConfirmPicker, TypeOK
  <2> QED
    BY <1>6, <2>1, <2>2, <2>3 DEF ConfirmPicker, TypeOK
<1>7. CASE ConfirmMode
  BY <1>7 DEF ConfirmMode, UiGoesTo, TypeOK, Fields, UiSteps
<1>8. CASE ConfirmFlag
  <2>1. setup' \in [Setups -> [step: SetupSteps \cup {None}, zone: Zones \cup {None},
                               instance: InstanceIds \cup {None}]]
    BY <1>8 DEF ConfirmFlag, StartsSetup, TypeOK, SetupSteps
  <2>2. self' \in Fields /\ ui' \in [step: UiSteps, zone: Zones \cup {None}]
    BY <1>8 DEF ConfirmFlag, TypeOK, Fields, UiSteps
  <2> QED
    BY <1>8, <2>1, <2>2 DEF ConfirmFlag, TypeOK
<1>9. CASE Quit
  <2>1. records' \subseteq InstanceIds /\ stranded' \subseteq records'
    BY <1>9, DeletesOne DEF Quit
  <2>2. ui' \in [step: UiSteps, zone: Zones \cup {None}]
    BY <1>9 DEF Quit, UiGoesTo, TypeOK, UiSteps
  <2> QED
    BY <1>9, <2>1, <2>2 DEF Quit, TypeOK
<1> QED
  BY <1>1, <1>2, <1>3, <1>4, <1>5, <1>6, <1>7, <1>8, <1>9

LEMMA SetupTypes ==
  ASSUME TypeOK, NEW s \in Setups, SetupStep(s), UNCHANGED hasty
  PROVE  TypeOK'
<1> USE DEF SetupSteps
<1>1. CASE SetupStart(s)
  <2>1. GoesTo(s, "done") \/ GoesTo(s, "terminate") \/ GoesTo(s, "create")
    BY <1>1 DEF SetupStart
  <2> QED
    BY <1>1, <2>1, GoesOn DEF SetupStart, OnlySetup, TypeOK
<1>2. CASE SetupTerminate(s)
  <2>1. records' \subseteq InstanceIds /\ stranded' \subseteq records'
    BY <1>2, DeletesOne DEF SetupTerminate, Terminates
  <2> QED
    BY <1>2, <2>1, GoesOn DEF SetupTerminate, TypeOK
<1>3. CASE SetupForget(s)
  <2>1. \/ GoesTo(s, "clearEndpoint") \/ GoesTo(s, "clearGrpc") \/ GoesTo(s, "clearHttp")
        \/ GoesTo(s, "create")
    BY <1>3 DEF SetupForget
  <2>2. self' \in Fields
    BY <1>3 DEF SetupForget, TypeOK, Fields
  <2> QED
    BY <1>3, <2>1, <2>2, GoesOn DEF SetupForget, OnlySetup, TypeOK
<1>4. CASE SetupCreate(s)
  <2>1. CASE GoesTo(s, "failed") /\ UNCHANGED <<records, stranded>>
    BY <1>4, <2>1, GoesOn DEF SetupCreate, TypeOK
  <2>2. ASSUME NEW i \in InstanceIds, Answered(s, i) PROVE TypeOK'
    BY <1>4, <2>2 DEF SetupCreate, Answered, Recorded, TypeOK
  <2>3. ASSUME NEW i \in InstanceIds, AnswerLost(s, i) PROVE TypeOK'
    BY <1>4, <2>3, GoesOn DEF SetupCreate, AnswerLost, Recorded, TypeOK
  <2> QED
    BY <1>4, <2>1, <2>2, <2>3 DEF SetupCreate
<1>5. CASE SetupKeep(s)
  <2>1. self' \in Fields
    BY <1>5 DEF SetupKeep, KeepsInstance, TypeOK, Fields
  <2>2. GoesTo(s, "keepZone") \/ GoesTo(s, "poll")
    BY <1>5 DEF SetupKeep
  <2> QED
    BY <1>5, <2>1, <2>2, GoesOn DEF SetupKeep, OnlySetup, TypeOK
<1>6. CASE SetupPoll(s)
  <2>1. Ends(s) \/ GoesTo(s, "urls") \/ GoesTo(s, "failed")
    BY <1>6 DEF SetupPoll
  <2> QED
    BY <1>6, <2>1, GoesOn, EndsIdle DEF SetupPoll, OnlySetup, TypeOK
<1>7. CASE SetupUrls(s)
  <2>1. CASE GoesTo(s, "failed")
    BY <1>7, <2>1, GoesOn DEF SetupUrls, OnlySetup, TypeOK
  <2>2. ASSUME NEW i \in {setup[s].instance, None},
               setup' = [setup EXCEPT ![s] = [step |-> "keepGrpc", zone |-> @.zone,
                                              instance |-> i]]
        PROVE  TypeOK'
    BY <1>7, <2>2 DEF SetupUrls, OnlySetup, TypeOK
  <2> QED
    BY <1>7, <2>1, <2>2 DEF SetupUrls
<1>8. CASE SetupKeepUrls(s) \/ SetupChoose(s)
  <2>1. \/ GoesTo(s, "keepHttp") \/ GoesTo(s, "choose")
        \/ GoesTo(s, "useGrpc") \/ GoesTo(s, "toHttp")
    BY <1>8 DEF SetupKeepUrls, SetupChoose
  <2>2. self' \in Fields
    BY <1>8 DEF SetupKeepUrls, SetupChoose, TypeOK, Fields
  <2> QED
    BY <1>8, <2>1, <2>2, GoesOn DEF SetupKeepUrls, SetupChoose, OnlySetup, TypeOK
<1>11. CASE SetupEndpoint(s)
  <2>1. /\ self \in Fields /\ Url(setup[s].instance, "grpc") \in Endpoints \cup {None}
        /\ Url(setup[s].instance, "http") \in Endpoints \cup {None}
    BY UrlTypes DEF TypeOK, Transports
  <2>2. self' \in Fields
    BY <1>11, <2>1 DEF SetupEndpoint, Fields, Transports
  <2>3. GoesTo(s, "useHttp") \/ GoesTo(s, "done")
    BY <1>11 DEF SetupEndpoint
  <2> QED
    BY <1>11, <2>2, <2>3, GoesOn DEF SetupEndpoint, OnlySetup, TypeOK
<1>9. CASE SetupDone(s)
  BY <1>9, EndsIdle DEF SetupDone, ClearsFlag, OnlySetup, TypeOK, Fields
<1>10. CASE SetupFailed(s)
  <2>1. GoesTo(s, "toLocal") \/ Ends(s)
    BY <1>10 DEF SetupFailed
  <2>2. self' \in Fields
    <3>1. ClearsFlag \/ self' = [self EXCEPT !.mode = "local"]
      BY <1>10 DEF SetupFailed
    <3>2. CASE ClearsFlag
      BY <3>2 DEF ClearsFlag, TypeOK, Fields
    <3>3. CASE self' = [self EXCEPT !.mode = "local"]
      BY <3>3 DEF TypeOK, Fields
    <3> QED
      BY <3>1, <3>2, <3>3
  <2> QED
    BY <1>10, <2>1, <2>2, GoesOn, EndsIdle DEF SetupFailed, OnlySetup, TypeOK
<1> QED
  BY <1>1, <1>2, <1>3, <1>4, <1>5, <1>6, <1>7, <1>8, <1>9, <1>10, <1>11 DEF SetupStep

LEMMA ThreadTypes ==
  ASSUME TypeOK, (\E d \in Discoveries : DiscoveryStep(d)) \/ CaptureStep, UNCHANGED hasty
  PROVE  TypeOK'
<1>1. ASSUME NEW d \in Discoveries, DiscoveryStep(d) PROVE TypeOK'
  <2>1. discovery' \in [Discoveries -> {None, "ask", "list", "open"}]
    BY <1>1 DEF DiscoveryStep, TypeOK
  <2>2. self' \in Fields
    <3>1. \/ UNCHANGED self
          \/ self' = [self EXCEPT !.listed = Listed]
          \/ self' = [self EXCEPT !.picking = TRUE]
      BY <1>1 DEF DiscoveryStep
    <3>2. CASE self' = [self EXCEPT !.listed = Listed]
      BY <3>2 DEF Listed, TypeOK, Fields
    <3>3. CASE self' = [self EXCEPT !.picking = TRUE]
      BY <3>3 DEF TypeOK, Fields
    <3> QED
      BY <3>1, <3>2, <3>3 DEF TypeOK
  <2> QED
    BY <1>1, <2>1, <2>2 DEF DiscoveryStep, TypeOK
<1>2. CASE CaptureTest \/ CaptureCall
  BY <1>2 DEF CaptureTest, CaptureCall, TypeOK
<1>3. CASE CaptureFallback
  BY <1>3 DEF CaptureFallback, TypeOK, Fields, Transports
<1>4. CASE CaptureSwitch
  <2>1. self \in Fields /\ Url(self.httpUrl, "http") \in Endpoints \cup {None}
    BY UrlTypes DEF TypeOK, Fields, Transports
  <2>2. self' \in Fields
    BY <1>4, <2>1 DEF CaptureSwitch, Fields
  <2> QED
    BY <1>4, <2>2 DEF CaptureSwitch, TypeOK
<1> QED
  BY <1>1, <1>2, <1>3, <1>4 DEF CaptureStep

LEMMA GuiTypesNext == TypeOK /\ [Next]_vars => TypeOK'
<1> SUFFICES ASSUME TypeOK, [Next]_vars PROVE TypeOK'
  OBVIOUS
<1>1. CASE PickerKeys \/ MainKeys
  <2>1. hasty' \in BOOLEAN
    BY <1>1 DEF Next, TypeOK, vars
  <2> QED
    BY <1>1, <2>1, KeyTypes DEF PickerKeys, MainKeys
<1>2. CASE Continues /\ UNCHANGED hasty
  <2>1. hasty' \in BOOLEAN
    BY <1>2 DEF TypeOK
  <2> QED
    BY <1>2, <2>1, KeyTypes, SetupTypes, ThreadTypes DEF Continues
<1>3. CASE UNCHANGED vars
  BY <1>3 DEF vars, TypeOK
<1> QED
  BY <1>1, <1>2, <1>3 DEF Next

(* Type correctness of the fields that the GUI's threads share and of what   *)
(* each of the threads does (gui.py:30-311, 860-903).                        *)
THEOREM GuiTypes == Spec => []TypeOK
  BY GuiTypesInit, GuiTypesNext, PTL DEF Spec


-------------------------------------------------------------------------------
(* The holder.                                                               *)

(* A step of another thread, which leaves the holder, the object's instance  *)
(* and the flag alone, and adds nothing to what the edge has.                *)
LEMMA OtherThreads ==
  ASSUME LoneOK, UNCHANGED setup, records' \ stranded' \subseteq records \ stranded,
         self'.instance = self.instance, self'.inProgress = self.inProgress,
         self'.mode = self.mode \/ ~self.inProgress,
         ui'.step \in {ui.step, "keys", "grpcEndpoint", "httpEndpoint", "crashed", "closed"},
         ui.step = "flag" => self'.mode = self.mode
  PROVE  LoneOK'
<1>1. Lone'
  BY DEF LoneOK, Lone, NoSetup, UiAt
<1>2. Tracked => Tracked'
  BY DEF Tracked
<1>3. Rested'
  BY <1>2 DEF LoneOK, Rested, NoSetup
<1>4. UiAt("flag")' => self'.mode = "edge"
  BY DEF LoneOK, UiAt
<1>5. ASSUME NEW s \in Setups PROVE Holds(setup[s])' /\ Flagged(setup[s])'
  <2>1. Holds(setup[s])'
    BY <1>2 DEF LoneOK, Holds, Bare
  <2>2. Flagged(setup[s])'
    BY DEF LoneOK, Flagged
  <2> QED
    BY <2>1, <2>2
<1> QED
  BY <1>1, <1>3, <1>4, <1>5 DEF LoneOK

(* A step of the holder: the other setup threads have nothing to do.         *)
LEMMA HolderMoves ==
  ASSUME TypeOK, LoneOK, NEW s \in Setups, setup[s] # Idle, UNCHANGED ui, NEW y,
         setup' = [setup EXCEPT ![s] = y], Holds(setup[s])', Flagged(setup[s])',
         y = Idle => Tracked' /\ ~self'.inProgress
  PROVE  LoneOK'
<1>1. DOMAIN setup = Setups /\ setup'[s] = y
  BY DEF TypeOK
<1>2. ASSUME NEW t \in Setups, t # s PROVE setup[t] = Idle /\ setup'[t] = Idle
  BY <1>1, <1>2 DEF LoneOK, Lone
<1>3. ~UiAt("edge") /\ ~UiAt("flag") /\ ~UiAt("edge")' /\ ~UiAt("flag")'
  BY DEF LoneOK, Lone, NoSetup, UiAt
<1>4. Lone'
  BY <1>2, <1>3 DEF Lone
<1>5. Rested'
  BY <1>1 DEF Rested, NoSetup
<1>6. ASSUME NEW t \in Setups PROVE Holds(setup[t])' /\ Flagged(setup[t])'
  <2>1. CASE t = s
    BY <2>1
  <2>2. CASE t # s
    <3>1. setup'[t] = Idle /\ Idle.step = None
      BY <1>2, <2>2 DEF Idle
    <3> QED
      BY <3>1, NoneAssumption DEF Holds, Flagged, SetupSteps
  <2> QED
    BY <2>1, <2>2
<1> QED
  BY <1>3, <1>4, <1>5, <1>6 DEF LoneOK

LEMMA LoneInit == Init => LoneOK
<1> SUFFICES ASSUME Init PROVE LoneOK
  OBVIOUS
<1>1. Lone /\ Rested /\ ~UiAt("flag")
  BY DEF Init, Lone, Rested, NoSetup, UiAt, Tracked
<1>2. ASSUME NEW s \in Setups PROVE Holds(setup[s]) /\ Flagged(setup[s])
  <2>1. setup[s] = Idle /\ Idle.step = None
    BY DEF Init, Idle
  <2> QED
    BY <2>1, NoneAssumption DEF Holds, Flagged, SetupSteps
<1> QED
  BY <1>1, <1>2 DEF LoneOK

LEMMA KeysLone ==
  ASSUME TypeOK, LoneOK, ~overlapped',
         \/ ToggleMode \/ ToggleTransport \/ ToggleEndpoint \/ CancelPicker
         \/ MoveSelection \/ ConfirmPicker \/ ConfirmMode \/ ConfirmFlag \/ Quit
  PROVE  LoneOK'
<1>0. self \in Fields /\ ui \in [step: UiSteps, zone: Zones \cup {None}]
  BY DEF TypeOK
<1>1. CASE ToggleMode
  BY <1>0, <1>1, OtherThreads DEF ToggleMode, UiAt, Fields
<1>2. CASE ToggleTransport
  BY <1>0, <1>2, OtherThreads DEF ToggleTransport, UiAt, UiGoesTo, Fields
<1>3. CASE ToggleEndpoint
  BY <1>0, <1>3, OtherThreads DEF ToggleEndpoint, UiAt, UiGoesTo, Fields
<1>4. CASE CancelPicker
  BY <1>0, <1>4, OtherThreads DEF CancelPicker, UiAt, Fields
<1>5. CASE MoveSelection
  BY <1>0, <1>5, OtherThreads DEF MoveSelection, UiAt, UiGoesTo
<1>6. CASE ConfirmPicker
  <2>1. NoSetup
    BY <1>6 DEF ConfirmPicker, NoSetup
  <2>2. /\ ui'.step = "edge" /\ UNCHANGED <<records, setup, stranded>>
        /\ self'.instance = self.instance /\ self'.inProgress = self.inProgress
        /\ self'.mode = self.mode
    BY <1>0, <1>6 DEF ConfirmPicker, Fields
  <2>3. Lone'
    BY <2>1, <2>2 DEF Lone, NoSetup
  <2>4. Rested'
    BY <2>2 DEF LoneOK, Rested, NoSetup, Tracked
  <2>5. ASSUME NEW s \in Setups PROVE Holds(setup[s])' /\ Flagged(setup[s])'
    BY <2>2 DEF LoneOK, Holds, Flagged, Tracked, Bare
  <2> QED
    BY <2>2, <2>3, <2>4, <2>5 DEF LoneOK, UiAt
<1>7. CASE ConfirmMode
  <2>1. /\ ui.step = "edge" /\ ui'.step = "flag" /\ UNCHANGED <<records, setup, stranded>>
        /\ self'.instance = self.instance /\ self'.inProgress = self.inProgress
        /\ self'.mode = "edge"
    BY <1>0, <1>7 DEF ConfirmMode, UiAt, UiGoesTo, Fields
  <2>2. NoSetup
    BY <2>1 DEF LoneOK, Lone, UiAt
  <2>3. Lone'
    BY <2>1, <2>2 DEF Lone, NoSetup
  <2>4. Rested'
    BY <2>1 DEF LoneOK, Rested, NoSetup, Tracked
  <2>5. ASSUME NEW s \in Setups PROVE Holds(setup[s])' /\ Flagged(setup[s])'
    <3>1. setup'[s] = Idle /\ Idle.step = None
      BY <2>1, <2>2 DEF NoSetup, Idle
    <3> QED
      BY <3>1, NoneAssumption DEF Holds, Flagged, SetupSteps
  <2> QED
    BY <2>1, <2>3, <2>4, <2>5 DEF LoneOK, UiAt
<1>8. CASE ConfirmFlag
  <2>1. NoSetup /\ Tracked
    BY <1>8 DEF ConfirmFlag, LoneOK, Lone, Rested
  <2> DEFINE begun == [step |-> "start", zone |-> ui.zone, instance |-> None]
  <2>2. PICK s \in Setups : setup' = [setup EXCEPT ![s] = begun]
    BY <1>8 DEF ConfirmFlag, StartsSetup
  <2>3. /\ ui'.step = "keys" /\ UNCHANGED <<records, stranded>>
        /\ self'.instance = self.instance /\ self'.inProgress /\ self'.mode = "edge"
    BY <1>0, <1>8 DEF ConfirmFlag, LoneOK, Fields
  <2>4. setup'[s] = begun /\ \A t \in Setups : t # s => setup'[t] = Idle
    BY <2>1, <2>2 DEF NoSetup, TypeOK
  <2>5. begun.step = "start" /\ begun # Idle /\ Idle.step = None
    <3>1. begun.step = "start" /\ Idle.step = None
      BY DEF Idle
    <3> QED
      BY <3>1, NoneAssumption DEF SetupSteps
  <2> HIDE DEF begun
  <2>6. Lone' /\ Rested'
    BY <2>3, <2>4, <2>5 DEF Lone, Rested, NoSetup, UiAt
  <2>7. Tracked'
    BY <2>1, <2>3 DEF Tracked
  <2>8. ASSUME NEW t \in Setups PROVE Holds(setup[t])' /\ Flagged(setup[t])'
    <3>1. CASE t = s
      BY <2>3, <2>4, <2>5, <2>7, <3>1, NoneAssumption DEF Holds, Flagged, SetupSteps
    <3>2. CASE t # s
      BY <2>4, <2>5, <3>2, NoneAssumption DEF Holds, Flagged, SetupSteps
    <3> QED
      BY <3>1, <3>2
  <2> QED
    BY <2>3, <2>6, <2>8 DEF LoneOK, UiAt
<1>9. CASE Quit
  <2>1. records' \ stranded' \subseteq records \ stranded
    BY <1>9, DeletesOne DEF Quit
  <2> QED
    BY <1>0, <1>9, <2>1, OtherThreads DEF Quit, UiAt, UiGoesTo
<1> QED
  BY <1>1, <1>2, <1>3, <1>4, <1>5, <1>6, <1>7, <1>8, <1>9

LEMMA SetupLone ==
  ASSUME TypeOK, LoneOK, NEW s \in Setups, SetupStep(s)
  PROVE  LoneOK'
<1> USE DEF SetupSteps
<1> DEFINE x == setup[s]
           y == setup'[s]
<1>0. /\ self \in Fields /\ x \in [step: SetupSteps \cup {None}, zone: Zones \cup {None},
                                   instance: InstanceIds \cup {None}]
      /\ x.step \in SetupSteps => x # Idle
      /\ Holds(x) /\ Flagged(x) /\ stranded \subseteq records /\ records \subseteq InstanceIds
  BY NoneAssumption DEF TypeOK, LoneOK, Idle
<1>1. ASSUME NEW step \in SetupSteps, GoesTo(s, step)
      PROVE  /\ setup' = [setup EXCEPT ![s] = y] /\ y # Idle
             /\ y.step = step /\ y.zone = x.zone /\ y.instance = x.instance
  <2>1. y = [step |-> step, zone |-> x.zone, instance |-> x.instance]
    BY <1>1, GoesOn DEF TypeOK
  <2>2. setup' = [setup EXCEPT ![s] = y]
    BY <1>1, <2>1, GoesOn
  <2>3. y.step # Idle.step
    BY <2>1, NoneAssumption DEF Idle
  <2> QED
    BY <2>1, <2>2, <2>3
<1>2. ASSUME Ends(s) PROVE setup' = [setup EXCEPT ![s] = y] /\ y = Idle /\ y.step = None
  BY <1>2 DEF Ends, TypeOK, Idle
<1>3. CASE SetupStart(s)
  <2>1. /\ x.step = "start" /\ UNCHANGED <<records, self, ui, stranded>>
        /\ Tracked /\ self.inProgress /\ self.mode = "edge"
    BY <1>0, <1>3, NoneAssumption DEF SetupStart, SetupAt, OnlySetup, Holds, Flagged
  <2>2. PICK step \in {"done", "terminate", "create"} :
          GoesTo(s, step) /\ (step = "create" => self.instance = None)
    BY <1>3 DEF SetupStart
  <2>3. step = "create" => Bare
    BY <1>0, <2>1, <2>2, NoneAssumption DEF Tracked, Bare
  <2>4. Tracked' /\ (step = "create" => Bare')
    BY <2>1, <2>3 DEF Tracked, Bare
  <2>5. /\ setup' = [setup EXCEPT ![s] = y] /\ y # Idle /\ y.step = step
    BY <1>1, <2>2
  <2>6. Holds(setup[s])' /\ Flagged(setup[s])'
    BY <2>1, <2>2, <2>4, <2>5, NoneAssumption DEF Holds, Flagged
  <2> QED
    BY <1>0, <2>1, <2>5, <2>6, HolderMoves
<1>4. CASE SetupTerminate(s)
  <2>1. /\ x.step = "terminate" /\ UNCHANGED <<self, ui>> /\ GoesTo(s, "forget")
        /\ Tracked /\ self.inProgress /\ self.mode = "edge"
    BY <1>0, <1>4, NoneAssumption DEF SetupTerminate, SetupAt, Holds, Flagged
  <2>2. Bare'
    BY <1>4, <2>1, DeletesOne DEF SetupTerminate, Terminates, Tracked, Bare
  <2>3. setup' = [setup EXCEPT ![s] = y] /\ y # Idle /\ y.step = "forget"
    BY <1>1, <2>1
  <2>4. Holds(setup[s])' /\ Flagged(setup[s])'
    BY <2>1, <2>2, <2>3, NoneAssumption DEF Holds, Flagged
  <2> QED
    BY <1>0, <2>1, <2>3, <2>4, HolderMoves
<1>5. CASE SetupForget(s)
  <2>1. /\ x.step \in {"forget", "clearEndpoint", "clearGrpc", "clearHttp"}
        /\ UNCHANGED <<records, stranded, ui>>
        /\ Bare /\ self.inProgress /\ self.mode = "edge"
    BY <1>0, <1>5, NoneAssumption DEF SetupForget, SetupAt, OnlySetup, Holds, Flagged
  <2>2. /\ self'.inProgress = self.inProgress /\ self'.mode = self.mode
    BY <1>0, <1>5 DEF SetupForget, Fields
  <2>3. PICK step \in {"clearEndpoint", "clearGrpc", "clearHttp", "create"} : GoesTo(s, step)
    BY <1>5 DEF SetupForget
  <2>4. setup' = [setup EXCEPT ![s] = y] /\ y # Idle /\ y.step = step
    BY <1>1, <2>3
  <2>5. Bare'
    BY <2>1 DEF Bare
  <2>6. Holds(setup[s])' /\ Flagged(setup[s])'
    BY <2>1, <2>2, <2>3, <2>4, <2>5, NoneAssumption DEF Holds, Flagged
  <2> QED
    BY <1>0, <2>1, <2>4, <2>6, HolderMoves
<1>6. CASE SetupCreate(s)
  <2>1. /\ x.step = "create" /\ UNCHANGED <<self, ui>>
        /\ Bare /\ self.inProgress /\ self.mode = "edge"
    BY <1>0, <1>6, NoneAssumption DEF SetupCreate, SetupAt, Holds, Flagged
  <2>2. ASSUME GoesTo(s, "failed"), Bare' PROVE LoneOK'
    <3>1. setup' = [setup EXCEPT ![s] = y] /\ y # Idle /\ y.step = "failed"
      BY <1>1, <2>2
    <3>2. Tracked'
      BY <2>2 DEF Bare, Tracked
    <3>3. Holds(setup[s])' /\ Flagged(setup[s])'
      BY <2>1, <3>1, <3>2, NoneAssumption DEF Holds, Flagged
    <3> QED
      BY <1>0, <2>1, <3>1, <3>3, HolderMoves
  <2>3. ASSUME NEW i \in InstanceIds, Answered(s, i) PROVE LoneOK'
    <3> DEFINE kept == [step |-> "keep", zone |-> x.zone, instance |-> i]
    <3>1. setup' = [setup EXCEPT ![s] = kept] /\ kept.step = "keep" /\ kept.instance = i
      BY <2>3 DEF Answered
    <3> HIDE DEF kept
    <3>2. setup' = [setup EXCEPT ![s] = y] /\ y.step = "keep" /\ y.instance = i
      BY <3>1 DEF TypeOK
    <3>3. y # Idle
      BY <3>2, NoneAssumption DEF Idle
    <3>4. records' \ stranded' \subseteq {i}
      BY <2>1, <2>3 DEF Answered, Recorded, Bare
    <3>5. Holds(setup[s])' /\ Flagged(setup[s])'
      BY <2>1, <3>2, <3>4, NoneAssumption DEF Holds, Flagged
    <3> QED
      BY <1>0, <2>1, <3>2, <3>3, <3>5, HolderMoves
  <2>4. UNCHANGED <<records, stranded>> => Bare'
    BY <2>1 DEF Bare
  <2>5. ASSUME NEW i \in InstanceIds, AnswerLost(s, i) PROVE LoneOK'
    <3>1. Bare' /\ GoesTo(s, "failed")
      BY <2>1, <2>5 DEF AnswerLost, Recorded, Bare
    <3> QED
      BY <2>2, <3>1
  <2> QED
    BY <1>6, <2>2, <2>3, <2>4, <2>5 DEF SetupCreate
<1>7. CASE SetupKeep(s)
  <2>1. /\ x.step \in {"keep", "keepZone"} /\ UNCHANGED <<records, ui, stranded>>
        /\ self.inProgress /\ self.mode = "edge"
    BY <1>0, <1>7, NoneAssumption DEF SetupKeep, SetupAt, OnlySetup, Flagged
  <2>2. self'.inProgress = self.inProgress /\ self'.mode = self.mode
    BY <1>0, <1>7 DEF SetupKeep, KeepsInstance, Fields
  <2>3. Tracked'
    <3>1. CASE x.step = "keep"
      <4>1. self'.instance = x.instance
        BY <1>0, <1>7, <3>1 DEF SetupKeep, SetupAt, KeepsInstance, Fields
      <4> QED
        BY <1>0, <2>1, <3>1, <4>1 DEF Holds, Tracked
    <3>2. CASE x.step = "keepZone"
      <4>1. self'.instance = self.instance
        BY <1>0, <1>7, <3>2 DEF SetupKeep, SetupAt, Fields
      <4> QED
        BY <1>0, <2>1, <3>2, <4>1 DEF Holds, Tracked
    <3> QED
      BY <2>1, <3>1, <3>2
  <2>4. PICK step \in {"keepZone", "poll"} : GoesTo(s, step)
    BY <1>7 DEF SetupKeep
  <2>5. setup' = [setup EXCEPT ![s] = y] /\ y # Idle /\ y.step = step
    BY <1>1, <2>4
  <2>6. Holds(setup[s])' /\ Flagged(setup[s])'
    BY <2>1, <2>2, <2>3, <2>4, <2>5, NoneAssumption DEF Holds, Flagged
  <2> QED
    BY <1>0, <2>1, <2>5, <2>6, HolderMoves
<1>8. CASE SetupPoll(s)
  <2>1. /\ x.step = "poll" /\ UNCHANGED <<records, self, ui, stranded>>
        /\ Tracked /\ self.inProgress /\ self.mode = "edge"
    BY <1>0, <1>8, NoneAssumption DEF SetupPoll, SetupAt, OnlySetup, Holds, Flagged
  <2>2. PICK step \in {"urls", "failed"} : GoesTo(s, step)
    BY <1>8, <2>1 DEF SetupPoll
  <2>3. setup' = [setup EXCEPT ![s] = y] /\ y # Idle /\ y.step = step
    BY <1>1, <2>2
  <2>4. Tracked'
    BY <2>1 DEF Tracked
  <2>5. Holds(setup[s])' /\ Flagged(setup[s])'
    BY <2>1, <2>2, <2>3, <2>4, NoneAssumption DEF Holds, Flagged
  <2> QED
    BY <1>0, <2>1, <2>3, <2>5, HolderMoves
<1>9. CASE SetupUrls(s) \/ SetupKeepUrls(s) \/ SetupChoose(s) \/ SetupEndpoint(s)
  <2>1. /\ x.step \in {"urls", "keepGrpc", "keepHttp", "choose", "useGrpc", "toHttp", "useHttp"}
        /\ UNCHANGED <<records, ui, stranded>>
    BY <1>9 DEF SetupUrls, SetupKeepUrls, SetupChoose, SetupEndpoint, SetupAt, OnlySetup
  <2>2. Tracked /\ self.inProgress /\ self.mode = "edge"
    BY <1>0, <2>1, NoneAssumption DEF Holds, Flagged
  <2>3. /\ self'.inProgress = self.inProgress /\ self'.mode = self.mode
        /\ self'.instance = self.instance
    BY <1>0, <1>9 DEF SetupUrls, SetupKeepUrls, SetupChoose, SetupEndpoint, Fields
  <2>4. Tracked'
    BY <2>1, <2>2, <2>3 DEF Tracked
  <2>5. PICK step \in {"keepGrpc", "keepHttp", "choose", "useGrpc", "toHttp", "useHttp",
                       "failed", "done"} :
          setup' = [setup EXCEPT ![s] = y] /\ y # Idle /\ y.step = step
    <3>1. CASE \E step \in {"keepHttp", "choose", "useGrpc", "toHttp", "useHttp", "failed",
                            "done"} : GoesTo(s, step)
      BY <1>1, <3>1
    <3>2. ASSUME NEW i, setup' = [setup EXCEPT ![s] = [step |-> "keepGrpc", zone |-> @.zone,
                                                       instance |-> i]]
          PROVE  setup' = [setup EXCEPT ![s] = y] /\ y # Idle /\ y.step = "keepGrpc"
      <4> DEFINE urls == [step |-> "keepGrpc", zone |-> x.zone, instance |-> i]
      <4>1. setup' = [setup EXCEPT ![s] = urls] /\ urls.step = "keepGrpc"
        BY <3>2
      <4> HIDE DEF urls
      <4>2. setup' = [setup EXCEPT ![s] = y] /\ y.step = "keepGrpc"
        BY <4>1 DEF TypeOK
      <4> QED
        BY <4>2, NoneAssumption DEF Idle
    <3> QED
      BY <1>9, <3>1, <3>2 DEF SetupUrls, SetupKeepUrls, SetupChoose, SetupEndpoint
  <2>6. Holds(setup[s])' /\ Flagged(setup[s])'
    BY <2>2, <2>3, <2>4, <2>5, NoneAssumption DEF Holds, Flagged
  <2> QED
    BY <1>0, <2>1, <2>5, <2>6, HolderMoves
<1>10. CASE SetupDone(s)
  <2>1. /\ x.step = "done" /\ UNCHANGED <<records, ui, stranded>> /\ Ends(s) /\ Tracked
    BY <1>0, <1>10, NoneAssumption DEF SetupDone, SetupAt, OnlySetup, Holds
  <2>2. ~self'.inProgress /\ self'.instance = self.instance
    BY <1>0, <1>10 DEF SetupDone, ClearsFlag, Fields
  <2>3. setup' = [setup EXCEPT ![s] = y] /\ y = Idle /\ y.step = None
    BY <1>2, <2>1
  <2>4. Tracked'
    BY <2>1, <2>2 DEF Tracked
  <2>5. Holds(setup[s])' /\ Flagged(setup[s])'
    BY <2>3, NoneAssumption DEF Holds, Flagged
  <2> QED
    BY <1>0, <2>1, <2>2, <2>3, <2>4, <2>5, HolderMoves
<1>11. CASE SetupFailed(s)
  <2>1. /\ x.step \in {"failed", "toLocal"} /\ UNCHANGED <<records, ui, stranded>> /\ Tracked
    BY <1>0, <1>11, NoneAssumption DEF SetupFailed, SetupAt, OnlySetup, Holds
  <2>2. ~self'.inProgress /\ self'.instance = self.instance
    BY <1>0, <1>11 DEF SetupFailed, SetupAt, ClearsFlag, Flagged, Fields
  <2>3. Tracked'
    BY <2>1, <2>2 DEF Tracked
  <2>4. CASE GoesTo(s, "toLocal")
    <3>1. setup' = [setup EXCEPT ![s] = y] /\ y # Idle /\ y.step = "toLocal"
      BY <1>1, <2>4
    <3>2. Holds(setup[s])' /\ Flagged(setup[s])'
      BY <2>2, <2>3, <3>1, NoneAssumption DEF Holds, Flagged
    <3> QED
      BY <1>0, <2>1, <3>1, <3>2, HolderMoves
  <2>5. CASE Ends(s)
    <3>1. setup' = [setup EXCEPT ![s] = y] /\ y = Idle /\ y.step = None
      BY <1>2, <2>5
    <3>2. Holds(setup[s])' /\ Flagged(setup[s])'
      BY <3>1, NoneAssumption DEF Holds, Flagged
    <3> QED
      BY <1>0, <2>1, <2>2, <2>3, <3>1, <3>2, HolderMoves
  <2> QED
    BY <1>11, <2>4, <2>5 DEF SetupFailed
<1> QED
  BY <1>3, <1>4, <1>5, <1>6, <1>7, <1>8, <1>9, <1>10, <1>11 DEF SetupStep

LEMMA ThreadsLone ==
  ASSUME TypeOK, LoneOK, (\E d \in Discoveries : DiscoveryStep(d)) \/ CaptureStep
  PROVE  LoneOK'
<1>0. self \in Fields /\ ui \in [step: UiSteps, zone: Zones \cup {None}]
  BY DEF TypeOK
<1>1. ASSUME NEW d \in Discoveries, DiscoveryStep(d) PROVE LoneOK'
  <2>1. /\ UNCHANGED <<setup, records, stranded, ui>>
        /\ self'.instance = self.instance /\ self'.inProgress = self.inProgress
        /\ self'.mode = self.mode
    BY <1>0, <1>1 DEF DiscoveryStep, Fields
  <2> QED
    BY <2>1, OtherThreads
<1>2. CASE CaptureStep
  <2>1. /\ UNCHANGED <<setup, records, stranded, ui>>
        /\ self'.instance = self.instance /\ self'.inProgress = self.inProgress
        /\ self'.mode = self.mode
    BY <1>0, <1>2
    DEF CaptureStep, CaptureTest, CaptureCall, CaptureFallback, CaptureSwitch, Fields
  <2> QED
    BY <2>1, OtherThreads
<1> QED
  BY <1>1, <1>2

-------------------------------------------------------------------------------
(* The patient user.                                                         *)

LEMMA PatientStays ==
  ASSUME GuiInv, Next, ~hasty'
  PROVE  PatientOK'
<1>0. /\ ~hasty /\ PatientOK /\ LoneOK /\ ~overlapped
      /\ self \in Fields /\ ui \in [step: UiSteps, zone: Zones \cup {None}]
      /\ discovery \in [Discoveries -> {None, "ask", "list", "open"}]
  BY DEF GuiInv, TypeOK, Next, PatientOK
<1>1. CASE PickerKeys /\ hasty' = (hasty \/ ~Quiet)
  <2>1. Quiet /\ NoSetup /\ \A d \in Discoveries : discovery[d] # "open"
    BY <1>1, NoneAssumption DEF Quiet, NoSetup
  <2>2. CASE CancelPicker
    <3>1. ~self'.picking /\ UNCHANGED <<ui, discovery, overlapped>>
      BY <1>0, <2>2 DEF CancelPicker, Fields
    <3> QED
      BY <1>0, <2>1, <2>2, <3>1 DEF CancelPicker, PatientOK, UiAt
  <2>3. CASE MoveSelection
    BY <1>0, <2>3, ZonesAssumption DEF MoveSelection, PatientOK
  <2>4. CASE ConfirmPicker
    <3>1. ~self'.picking /\ ui'.step = "edge" /\ UNCHANGED discovery
      BY <1>0, <2>4 DEF ConfirmPicker, Fields
    <3>2. ~overlapped'
      BY <1>0, <2>1, <2>4 DEF ConfirmPicker, NoSetup
    <3> QED
      BY <2>1, <3>1, <3>2 DEF PatientOK, UiAt
  <2> QED
    BY <1>1, <2>2, <2>3, <2>4 DEF PickerKeys
<1>2. CASE MainKeys /\ hasty' = (hasty \/ ~Quiet \/ self.picking)
  <2>1. /\ Quiet /\ ~self.picking /\ NoSetup /\ Tracked
        /\ \A d \in Discoveries : discovery[d] = None
    BY <1>0, <1>2 DEF Quiet, NoSetup, LoneOK, Rested
  <2>2. CASE ToggleMode
    <3>1. ~self'.picking /\ UNCHANGED <<ui, overlapped>> /\ UiAt("keys")
      BY <1>0, <2>1, <2>2 DEF ToggleMode, Fields
    <3>2. \A d \in Discoveries : discovery'[d] # "open"
      BY <1>0, <2>1, <2>2, NoneAssumption DEF ToggleMode, StartDiscovery
    <3> QED
      BY <1>0, <3>1, <3>2 DEF PatientOK, UiAt
  <2>3. CASE ToggleTransport
    <3>1. /\ ~self'.picking /\ UNCHANGED <<discovery, overlapped>>
          /\ ui'.step \in {"httpEndpoint", "grpcEndpoint"}
      BY <1>0, <2>1, <2>3 DEF ToggleTransport, UiGoesTo, Fields
    <3> QED
      BY <1>0, <2>1, <3>1, NoneAssumption DEF PatientOK, UiAt
  <2>4. CASE Quit
    <3>1. UNCHANGED <<self, discovery, overlapped>> /\ ui'.step = "closed"
      BY <1>0, <2>4 DEF Quit, UiGoesTo
    <3>2. Bare'
      BY <2>1, <2>4, DeletesOne DEF Quit, GuiInv, Tracked, Bare
    <3> QED
      BY <1>0, <2>1, <3>1, <3>2, NoneAssumption DEF PatientOK, UiAt
  <2> QED
    BY <1>2, <2>2, <2>3, <2>4 DEF MainKeys
<1>3. CASE Continues /\ UNCHANGED hasty
  <2>1. ui.step \notin {"crashed", "closed"}
    BY DEF Next, Running
  <2>2. UNCHANGED overlapped /\ ui'.step \notin {"crashed", "closed"}
    <3>1. CASE ToggleEndpoint \/ ConfirmMode \/ ConfirmFlag
      BY <1>0, <3>1 DEF ToggleEndpoint, ConfirmMode, ConfirmFlag, UiGoesTo
    <3>2. CASE (\E d \in Discoveries : DiscoveryStep(d)) \/ CaptureStep
      BY <2>1, <3>2
      DEF DiscoveryStep, CaptureStep, CaptureTest, CaptureCall, CaptureFallback, CaptureSwitch
    <3>3. ASSUME NEW s \in Setups, SetupStep(s)
          PROVE  UNCHANGED overlapped /\ ui'.step \notin {"crashed", "closed"}
      BY <2>1, <3>3
      DEF SetupStep, SetupStart, SetupTerminate, SetupForget, SetupCreate, SetupKeep,
          SetupPoll, SetupUrls, SetupKeepUrls, SetupChoose, SetupEndpoint, SetupDone,
          SetupFailed, OnlySetup
    <3> QED
      BY <1>3, <3>1, <3>2, <3>3 DEF Continues
  <2>3. self'.picking \/ (\E d \in Discoveries : discovery'[d] = "open") => self'.listed = Zones
    <3>1. CASE ToggleEndpoint \/ ConfirmMode \/ ConfirmFlag
      <4>1. self'.picking = self.picking /\ self'.listed = self.listed /\ UNCHANGED discovery
        BY <1>0, <3>1 DEF ToggleEndpoint, ConfirmMode, ConfirmFlag, Fields
      <4> QED
        BY <1>0, <4>1 DEF PatientOK
    <3>2. ASSUME NEW d \in Discoveries, DiscoveryStep(d)
          PROVE  self'.picking \/ (\E c \in Discoveries : discovery'[c] = "open")
                   => self'.listed = Zones
      <4>1. CASE discovery[d] = "ask"
        <5>1. /\ UNCHANGED self
              /\ \A c \in Discoveries : discovery'[c] = "open" => discovery[c] = "open"
          BY <1>0, <3>2, <4>1, NoneAssumption DEF DiscoveryStep
        <5> QED
          BY <1>0, <5>1 DEF PatientOK
      <4>2. CASE discovery[d] = "list"
        BY <1>0, <3>2, <4>2, NoneAssumption DEF DiscoveryStep, Listed, Fields
      <4>3. CASE discovery[d] = "open"
        BY <1>0, <3>2, <4>3, NoneAssumption DEF DiscoveryStep, PatientOK, Fields
      <4> QED
        BY <3>2, <4>1, <4>2, <4>3 DEF DiscoveryStep
    <3>3. CASE CaptureStep
      <4>1. self'.picking = self.picking /\ self'.listed = self.listed /\ UNCHANGED discovery
        BY <1>0, <3>3
        DEF CaptureStep, CaptureTest, CaptureCall, CaptureFallback, CaptureSwitch, Fields
      <4> QED
        BY <1>0, <4>1 DEF PatientOK
    <3>4. ASSUME NEW s \in Setups, SetupStep(s)
          PROVE  self'.picking \/ (\E d \in Discoveries : discovery'[d] = "open")
                   => self'.listed = Zones
      <4>1. self'.picking = self.picking /\ self'.listed = self.listed /\ UNCHANGED discovery
        <5>1. UNCHANGED discovery
          BY <3>4
          DEF SetupStep, SetupStart, SetupTerminate, SetupForget, SetupCreate, SetupKeep,
              SetupPoll, SetupUrls, SetupKeepUrls, SetupChoose, SetupEndpoint, SetupDone,
              SetupFailed, OnlySetup
        <5>2. CASE \/ SetupStart(s) \/ SetupTerminate(s) \/ SetupCreate(s) \/ SetupPoll(s)
                   \/ SetupUrls(s) \/ SetupChoose(s)
          BY <5>1, <5>2
          DEF SetupStart, SetupTerminate, SetupCreate, SetupPoll, SetupUrls, SetupChoose
        <5>3. CASE SetupForget(s)
          BY <1>0, <5>1, <5>3 DEF SetupForget, Fields
        <5>4. CASE SetupKeep(s) \/ SetupKeepUrls(s) \/ SetupEndpoint(s)
          <6>1. CASE SetupKeep(s)
            BY <1>0, <5>1, <6>1 DEF SetupKeep, KeepsInstance, Fields
          <6>2. CASE SetupKeepUrls(s)
            BY <1>0, <5>1, <6>2 DEF SetupKeepUrls, Fields
          <6>3. CASE SetupEndpoint(s)
            BY <1>0, <5>1, <6>3 DEF SetupEndpoint, Fields
          <6> QED
            BY <5>4, <6>1, <6>2, <6>3
        <5>5. CASE SetupDone(s) \/ SetupFailed(s)
          BY <1>0, <5>1, <5>5 DEF SetupDone, SetupFailed, ClearsFlag, Fields
        <5> QED
          BY <3>4, <5>2, <5>3, <5>4, <5>5 DEF SetupStep
      <4> QED
        BY <1>0, <4>1 DEF PatientOK
    <3> QED
      BY <1>3, <3>1, <3>2, <3>3, <3>4 DEF Continues
  <2> QED
    BY <1>0, <2>2, <2>3 DEF PatientOK, UiAt
<1> QED
  BY <1>1, <1>2, <1>3 DEF Next

-------------------------------------------------------------------------------
(* The theorems.                                                             *)

LEMMA GuiInvInit == Init => GuiInv
  BY GuiTypesInit, LoneInit, NoneAssumption DEF Init, GuiInv, PatientOK, UiAt

LEMMA GuiInvNext == GuiInv /\ [Next]_vars => GuiInv'
<1> SUFFICES ASSUME GuiInv, [Next]_vars PROVE GuiInv'
  OBVIOUS
<1>1. TypeOK /\ TypeOK'
  BY GuiTypesNext DEF GuiInv
<1>2. CASE Next
  <2>1. ASSUME ~overlapped' PROVE LoneOK'
    <3>1. ~overlapped
      BY <1>2, <2>1
      DEF Next, PickerKeys, MainKeys, Continues, CancelPicker, MoveSelection, ConfirmPicker,
          ToggleMode, ToggleTransport, Quit, ToggleEndpoint, ConfirmMode, ConfirmFlag,
          DiscoveryStep, CaptureStep, CaptureTest, CaptureCall, CaptureFallback, CaptureSwitch,
          SetupStep, SetupStart, SetupTerminate, SetupForget, SetupCreate, SetupKeep,
          SetupPoll, SetupUrls, SetupKeepUrls, SetupChoose, SetupEndpoint, SetupDone,
          SetupFailed, OnlySetup
    <3>2. LoneOK
      BY <3>1 DEF GuiInv
    <3> QED
      BY <1>1, <1>2, <2>1, <3>2, KeysLone, SetupLone, ThreadsLone
      DEF Next, PickerKeys, MainKeys, Continues
  <2> QED
    BY <1>1, <1>2, <2>1, PatientStays DEF GuiInv
<1>3. CASE UNCHANGED vars
  <2>1. LoneOK => LoneOK'
    BY <1>3 DEF vars, LoneOK, Lone, Rested, NoSetup, Tracked, UiAt, Holds, Bare, Flagged
  <2>2. PatientOK => PatientOK'
    BY <1>3 DEF vars, PatientOK, UiAt, Bare
  <2> QED
    BY <1>1, <1>3, <2>1, <2>2 DEF GuiInv, vars
<1> QED
  BY <1>2, <1>3

(* Whatever keys are pressed and however the threads interleave, an instance *)
(* whose create was answered and whose termination did not fail is only lost *)
(* track of, and the E key only stays disabled, once a zone was confirmed    *)
(* during an earlier setup (gui.py:95-275, camara.py:133).                   *)
THEOREM HurtByOverlapOnly == Spec => []OnlyOverlapHurts
<1>1. GuiInv => OnlyOverlapHurts
  BY DEF GuiInv, LoneOK, Rested, NoSetup, OnlyOverlapHurts, AtRest, Quiet
<1> QED
  BY GuiInvInit, GuiInvNext, <1>1, PTL DEF Spec

(* A user who waits leaks nothing but what failed to terminate and what was  *)
(* created without an answer: between the setups the edge has at most one    *)
(* other instance, the one that the object holds, and none after quitting    *)
(* (gui.py:168-179, 191, 271-284, 903, camara.py:133).                       *)
THEOREM PatientLeaksNothing == Spec => []NothingLeaked
<1>1. GuiInv => NothingLeaked
  BY DEF GuiInv, TypeOK, LoneOK, Rested, NoSetup, PatientOK, Bare, NothingLeaked, AtRest, Quiet
<1> QED
  BY GuiInvInit, GuiInvNext, <1>1, PTL DEF Spec

(* Nor does the picker ever divide by zero for her: it is open only while    *)
(* all the zones are listed, and discovery raises when there is none         *)
(* (gui.py:116-140, 877-886, camara.py:98-100).                              *)
THEOREM PatientArrowsWork == Spec => []ArrowsWork
<1>1. GuiInv => ArrowsWork
  BY DEF GuiInv, PatientOK, ArrowsWork
<1> QED
  BY GuiInvInit, GuiInvNext, <1>1, PTL DEF Spec

===============================================================================
