-------------------------- MODULE RemoteDetectorProofs --------------------------
(***************************************************************************)
(* Theorem about the GUI's remote detector (RemoteDetector), for any       *)
(* number of channels, servers, lost attempts and presses of the T key.    *)
(***************************************************************************)
EXTENDS RemoteDetector, TLAPS

(* The forms of the code that have another one before them.                  *)
USE DEF ForgetsStub

Steps == {"idle", "test", "create", "wrap", "store", "return", "attempt", "gaveUp", "switch",
          "again", "lost"}
NoOrChannel == Channels \cup {None}
NoOrUrl == Urls \cup {None}

RemoteTypeOK ==
  /\ imported \in {"grpc", "http"}
  /\ cached \in [channel: NoOrChannel, stub: NoOrChannel]
  /\ target \in [Channels -> NoOrUrl]
  /\ window \in [transport: {"grpc", "http"}, endpoint: NoOrUrl, server: ServerIds,
                 busy: BOOLEAN]
  /\ call \in [step: Steps, endpoint: NoOrUrl, made: NoOrChannel, stub: NoOrChannel,
               left: Nat, second: BOOLEAN, excused: BOOLEAN]
  /\ resets \in [Threads -> {"none", "close", "channel", "stub"}]
  /\ troubled \in {0, 1, 2}

CaptureResets == resets["capture"] # "none"

(* Where a call is, whatever the window does.  The first attempt of a call   *)
(* is the only one before a reset of its own.                                *)
CallOK ==
  /\ window.busy => window.server < LastServer
  /\ imported = "http" => cached.stub = None
  /\ call.step # "idle" => call.endpoint # None
  /\ call.step \in {"test", "create", "wrap", "store", "return"}
       => imported = "grpc" /\ call.stub = None /\ call.left = MaxRetries
  /\ call.step = "attempt" => call.left \in 1 .. MaxRetries
  /\ CaptureResets => \/ call.step = "again"
                      \/ call.step = "attempt" /\ call.left < MaxRetries

(* A call that the window has left alone from its start.  What it made is    *)
(* still open, and once it has failed it leaves no stub behind.              *)
LeftAlone ==
  troubled < 2 =>
    /\ call.step = "wrap" => cached.channel # None /\ target[cached.channel] # None
    /\ call.step = "store" => call.made # None /\ target[call.made] # None
    /\ call.step = "return" => cached.stub # None
    /\ call.step = "attempt" /\ call.left = MaxRetries => call.stub = cached.stub
    /\ (\/ call.step \in {"gaveUp", "switch", "again", "lost"}
        \/ call.step = "attempt" /\ call.left < MaxRetries)
         => CaptureResets \/ cached.stub = None

(* A call that the window left alone, like the one before it: the stub it    *)
(* finds is open, and stays so until the call has a reason to fail.          *)
Untroubled ==
  troubled = 0 =>
    /\ CaptureResets \/ cached.stub = None \/ target[cached.stub] # None
    /\ call.step = "attempt" /\ ~call.excused /\ imported = "grpc"
         => ~CaptureResets /\ call.stub # None /\ target[call.stub] # None
    /\ call.step = "gaveUp" => call.excused

RemoteInv == RemoteTypeOK /\ CallOK /\ LeftAlone /\ Untroubled

LEMMA RemoteInvInit == RemoteInit => RemoteInv
<1> SUFFICES ASSUME RemoteInit PROVE RemoteInv
  OBVIOUS
<1>1. ServerUrl(1, imported) \in Urls /\ 1 \in ServerIds
  BY RemoteAssumption DEF RemoteInit, ServerUrl, Urls, ServerIds
<1>2. RemoteTypeOK
  BY <1>1 DEF RemoteInit, RemoteTypeOK, IdleCall, Steps, NoOrChannel, NoOrUrl, Threads
<1>3. CallOK /\ LeftAlone /\ Untroubled
  BY DEF RemoteInit, CallOK, LeftAlone, Untroubled, CaptureResets, IdleCall, Threads
<1> QED
  BY <1>2, <1>3 DEF RemoteInv

(* The channel that is created is none of those in use.                      *)
LEMMA FreshChannel ==
  ASSUME RemoteTypeOK, call.stub = None
  PROVE  /\ NewChannel \in Channels /\ NewChannel # None
         /\ NewChannel # cached.channel /\ NewChannel # cached.stub
<1>1. \E c \in Channels : c \notin {cached.channel, cached.stub, call.stub}
  <2>1. cached.channel \in Channels \cup {None} /\ cached.stub \in Channels \cup {None}
    BY DEF RemoteTypeOK, NoOrChannel
  <2>2. Channels \ {cached.channel, cached.stub} # {}
    BY <2>1, ChannelAssumption
  <2> QED
    BY <2>2, ChannelAssumption
<1> QED
  BY <1>1, ChannelAssumption DEF NewChannel

(* A call that begins, or begins again.                                      *)
LEMMA Begun ==
  ASSUME RemoteInv, call.step \in {"idle", "again"}, ~CaptureResets, window.endpoint \in Urls,
         UNCHANGED <<imported, cached, target, window, resets, troubled>>,
         NEW second \in BOOLEAN,
         call' = [step |-> FirstStep, endpoint |-> window.endpoint, made |-> None,
                  stub |-> None, left |-> MaxRetries, second |-> second, excused |-> FALSE]
  PROVE  RemoteInv'
<1> USE DEF RemoteInv
<1>1. FirstStep = (IF imported = "grpc" THEN "test" ELSE "attempt") /\ window.endpoint # None
  BY NoUrlAssumption DEF FirstStep
<1>2. RemoteTypeOK'
  BY <1>1, RemoteAssumption DEF RemoteTypeOK, Steps, NoOrChannel, NoOrUrl
<1>3. CallOK'
  BY <1>1, RemoteAssumption DEF RemoteTypeOK, CallOK, CaptureResets
<1>4. LeftAlone' /\ Untroubled'
  BY <1>1 DEF RemoteTypeOK, CallOK, LeftAlone, Untroubled, CaptureResets
<1> QED
  BY <1>2, <1>3, <1>4

(* A call that ends with an open stub cached or none, unless the window      *)
(* interfered with it.                                                       *)
LEMMA Ended ==
  ASSUME RemoteInv, ~CaptureResets, UNCHANGED <<imported, cached, target, window, resets>>,
         call' = IdleCall, troubled' = IF troubled = 0 THEN 0 ELSE troubled - 1,
         troubled < 2 => cached.stub = None \/ target[cached.stub] # None
  PROVE  RemoteInv'
<1> USE DEF RemoteInv
<1>1. RemoteTypeOK'
  BY DEF RemoteTypeOK, IdleCall, Steps, NoOrChannel, NoOrUrl
<1>2. CallOK' /\ LeftAlone'
  BY DEF RemoteTypeOK, CallOK, LeftAlone, CaptureResets, IdleCall
<1>3. Untroubled'
  BY DEF RemoteTypeOK, Untroubled, CaptureResets, IdleCall
<1> QED
  BY <1>1, <1>2, <1>3

LEMMA RemoteInvNext ==
  ASSUME MaxRetries > 1, RemoteInv, [RemoteNext]_remoteVars PROVE RemoteInv'
<1> USE DEF RemoteInv
<1>1. ASSUME NEW t \in Threads, ResetStep(t) PROVE RemoteInv'
  <2>1. /\ UNCHANGED <<imported, window, call>> /\ resets[t] # "none"
        /\ troubled' = IF t = "window" THEN 2 ELSE troubled
        /\ \A u \in Threads \ {t} : resets'[u] = resets[u]
    BY <1>1 DEF ResetStep, RemoteTypeOK
  <2>2. RemoteTypeOK'
    BY <1>1, <2>1 DEF ResetStep, RemoteTypeOK, NoOrChannel, NoOrUrl
  <2>3. CallOK'
    BY <1>1, <2>1 DEF ResetStep, RemoteTypeOK, CallOK, CaptureResets, Threads
  <2>4. CASE t = "window"
    BY <2>1, <2>2, <2>3, <2>4 DEF LeftAlone, Untroubled
  <2>5. CASE t = "capture"
    <3>1. LeftAlone'
      BY <1>1, <2>1, <2>5 DEF ResetStep, RemoteTypeOK, CallOK, LeftAlone, CaptureResets, Threads
    <3>2. Untroubled'
      BY <1>1, <2>1, <2>5 DEF ResetStep, RemoteTypeOK, CallOK, Untroubled, CaptureResets, Threads
    <3> QED
      BY <2>2, <2>3, <3>1, <3>2
  <2> QED
    BY <2>4, <2>5 DEF Threads
<1>2. CASE PressT \/ PressTEnds
  <2>1. UNCHANGED <<imported, cached, target, call>> /\ troubled' = 2
    BY <1>2 DEF PressT, PressTEnds
  <2>2. window' \in [transport: {"grpc", "http"}, endpoint: NoOrUrl, server: ServerIds,
                     busy: BOOLEAN] /\ window'.server = window.server
        /\ window'.busy = window.busy
    BY <1>2 DEF PressT, PressTEnds, SetsUrl, OtherTransport, ServerUrl, Urls, NoOrUrl,
                RemoteTypeOK
  <2>3. resets' \in [Threads -> {"none", "close", "channel", "stub"}]
        /\ resets'["capture"] = resets["capture"]
    BY <1>2 DEF PressT, PressTEnds, RemoteTypeOK, Threads
  <2> QED
    BY <2>1, <2>2, <2>3
    DEF RemoteTypeOK, CallOK, LeftAlone, Untroubled, CaptureResets
<1>3. CASE SwitchBegins \/ SwitchEnds \/ ServerStops
  <2>1. UNCHANGED <<imported, cached, target, call, resets, troubled>>
    BY <1>3 DEF SwitchBegins, SwitchEnds, ServerStops
  <2>2. window' \in [transport: {"grpc", "http"}, endpoint: NoOrUrl, server: ServerIds,
                     busy: BOOLEAN] /\ (window'.busy => window'.server < LastServer)
    <3>1. CASE SwitchBegins
      BY <3>1 DEF SwitchBegins, NoOrUrl, RemoteTypeOK
    <3>2. CASE SwitchEnds
      <4>1. window.busy /\ window.server + 1 \in ServerIds
        BY <3>2, RemoteAssumption DEF SwitchEnds, ServerIds, RemoteTypeOK, CallOK
      <4>2. ServerUrl(window.server + 1, window.transport) \in Urls
        BY <4>1 DEF ServerUrl, Urls, RemoteTypeOK
      <4> QED
        BY <3>2, <4>1, <4>2 DEF SwitchEnds, NoOrUrl, RemoteTypeOK
    <3>3. CASE ServerStops
      BY <3>3 DEF ServerStops, RemoteTypeOK, CallOK
    <3> QED
      BY <1>3, <3>1, <3>2, <3>3
  <2> QED
    BY <2>1, <2>2 DEF RemoteTypeOK, CallOK, LeftAlone, Untroubled, CaptureResets
<1>4. CASE CallBegins
  <2>1. /\ call.step = "idle" /\ ~CaptureResets /\ window.endpoint \in Urls
        /\ UNCHANGED <<imported, cached, target, window, resets, troubled>>
        /\ call' = [step |-> FirstStep, endpoint |-> window.endpoint, made |-> None,
                    stub |-> None, left |-> MaxRetries, second |-> FALSE, excused |-> FALSE]
    BY <1>4 DEF CallBegins, CallAt, IdleCall, CaptureResets, RemoteTypeOK, NoOrUrl
  <2>2. RemoteTypeOK' /\ CallOK' /\ LeftAlone' /\ Untroubled'
    BY <2>1, Begun
  <2> QED
    BY <2>2
<1>5. CASE TestStub
  <2>1. /\ call.step = "test" /\ ~CaptureResets
        /\ UNCHANGED <<imported, cached, target, window, resets, troubled>>
        /\ call' = [call EXCEPT !.step = IF cached.stub = None THEN "create" ELSE "return"]
    BY <1>5 DEF TestStub, CallAt, CallGoes, CaptureResets
  <2>2. RemoteTypeOK'
    BY <2>1 DEF RemoteTypeOK, Steps
  <2>3. CallOK' /\ LeftAlone' /\ Untroubled'
    BY <2>1 DEF RemoteTypeOK, CallOK, LeftAlone, Untroubled, CaptureResets
  <2> QED
    BY <2>2, <2>3
<1>6. CASE CreateChannel
  <2>1. /\ call.step = "create" /\ ~CaptureResets /\ call.endpoint \in Urls
        /\ UNCHANGED <<imported, window, resets, troubled>>
        /\ call' = [call EXCEPT !.step = "wrap"]
        /\ cached' = [cached EXCEPT !.channel = NewChannel]
        /\ target' = [target EXCEPT ![NewChannel] = call.endpoint]
        /\ NewChannel \in Channels /\ NewChannel # None /\ NewChannel # cached.stub
    BY <1>6, FreshChannel
    DEF CreateChannel, CallAt, CallGoes, CaptureResets, RemoteTypeOK, CallOK, NoOrUrl
  <2> HIDE DEF NewChannel
  <2>2. RemoteTypeOK'
    BY <2>1 DEF RemoteTypeOK, Steps, NoOrChannel, NoOrUrl
  <2>3. CallOK' /\ LeftAlone' /\ Untroubled'
    BY <2>1, NoUrlAssumption
    DEF RemoteTypeOK, CallOK, LeftAlone, Untroubled, CaptureResets, NoOrChannel, NoOrUrl
  <2> QED
    BY <2>2, <2>3
<1>7. CASE WrapChannel
  <2>1. /\ call.step = "wrap" /\ ~CaptureResets
        /\ UNCHANGED <<imported, cached, target, window, resets, troubled>>
        /\ call' = [call EXCEPT !.step = IF cached.channel = None THEN "lost" ELSE "store",
                                !.made = cached.channel]
    BY <1>7 DEF WrapChannel, CallAt, CaptureResets
  <2>2. RemoteTypeOK'
    BY <2>1 DEF RemoteTypeOK, Steps
  <2>3. CallOK' /\ LeftAlone' /\ Untroubled'
    BY <2>1 DEF RemoteTypeOK, CallOK, LeftAlone, Untroubled, CaptureResets
  <2> QED
    BY <2>2, <2>3
<1>8. CASE StoreStub
  <2>1. /\ call.step = "store" /\ ~CaptureResets
        /\ UNCHANGED <<imported, target, window, resets, troubled>>
        /\ call' = [call EXCEPT !.step = "return"]
        /\ cached' = [cached EXCEPT !.stub = call.made]
    BY <1>8 DEF StoreStub, CallAt, CallGoes, CaptureResets
  <2>2. RemoteTypeOK'
    BY <2>1 DEF RemoteTypeOK, Steps
  <2>3. CallOK' /\ LeftAlone' /\ Untroubled'
    BY <2>1 DEF RemoteTypeOK, CallOK, LeftAlone, Untroubled, CaptureResets
  <2> QED
    BY <2>2, <2>3
<1>9. CASE ReturnStub
  <2>1. /\ call.step = "return" /\ ~CaptureResets
        /\ UNCHANGED <<imported, cached, target, window, resets, troubled>>
        /\ call' = [call EXCEPT !.step = "attempt", !.stub = cached.stub, !.made = None]
    BY <1>9 DEF ReturnStub, CallAt, CaptureResets
  <2>2. RemoteTypeOK'
    BY <2>1 DEF RemoteTypeOK, Steps, NoOrChannel
  <2>3. CallOK' /\ LeftAlone' /\ Untroubled'
    BY <2>1, RemoteAssumption
    DEF RemoteTypeOK, CallOK, LeftAlone, Untroubled, CaptureResets
  <2> QED
    BY <2>2, <2>3
<1>10. CASE AttemptAnswered
  <2>1. /\ call.step = "attempt" /\ ~CaptureResets /\ Reached # None
    BY <1>10 DEF AttemptAnswered, Reaches, CallAt, CaptureResets
  <2>2. troubled < 2 => cached.stub = None \/ target[cached.stub] # None
    <3>1. CASE imported = "http" \/ call.left < MaxRetries
      BY <2>1, <3>1 DEF CallOK, LeftAlone
    <3>2. CASE imported = "grpc" /\ call.left = MaxRetries
      BY <2>1, <3>2 DEF Reached, LeftAlone
    <3> QED
      BY <2>1, <3>1, <3>2, RemoteAssumption DEF RemoteTypeOK, CallOK
  <2> QED
    BY <1>10, <2>1, <2>2, Ended DEF AttemptAnswered
<1>11. CASE AttemptFails
  <2>1. PICK excused \in BOOLEAN :
          /\ excused = (call.excused \/ Excuse)
          /\ call' = [call EXCEPT !.left = call.left - 1, !.excused = excused,
                                  !.step = IF call.left = 1 THEN "gaveUp" ELSE "attempt"]
    BY <1>11 DEF AttemptFails
  <2>2. /\ call.step = "attempt" /\ ~CaptureResets /\ call.left \in 1 .. MaxRetries
        /\ call.endpoint # None
        /\ UNCHANGED <<imported, cached, target, window, troubled>>
        /\ resets' = [resets EXCEPT !["capture"] =
                        IF call.left > 1 /\ imported = "grpc" THEN "close" ELSE "none"]
    BY <1>11 DEF AttemptFails, CallAt, CaptureResets, CallOK
  <2>3. troubled = 0 => excused
    <3>1. troubled = 0 /\ ~call.excused => Reached # None
      BY <2>2 DEF Reached, RemoteTypeOK, Untroubled
    <3> QED
      BY <2>1, <3>1 DEF Excuse
  <2>4. RemoteTypeOK'
    <3>1. call.left - 1 \in Nat
      BY <2>2, RemoteAssumption
    <3>2. call' \in [step: Steps, endpoint: NoOrUrl, made: NoOrChannel, stub: NoOrChannel,
                     left: Nat, second: BOOLEAN, excused: BOOLEAN]
      BY <2>1, <3>1 DEF RemoteTypeOK, Steps
    <3> QED
      BY <2>2, <3>2 DEF RemoteTypeOK, Threads
  <2>5. CallOK'
    BY <2>1, <2>2, RemoteAssumption DEF RemoteTypeOK, CallOK, CaptureResets, Threads
  <2>6. LeftAlone'
    BY <2>1, <2>2, RemoteAssumption DEF RemoteTypeOK, CallOK, LeftAlone, CaptureResets, Threads
  <2>7. Untroubled'
    BY <2>1, <2>2, <2>3 DEF RemoteTypeOK, Untroubled, CaptureResets, Threads
  <2> QED
    BY <2>4, <2>5, <2>6, <2>7
<1>12. CASE FallBack
  <2>1. /\ call.step = "gaveUp" /\ ~CaptureResets
        /\ UNCHANGED <<imported, cached, target, resets, troubled>>
        /\ \E s \in {"switch", "lost"} : call' = [call EXCEPT !.step = s]
        /\ window' = window \/ window' = [window EXCEPT !.transport = "http"]
    BY <1>12 DEF FallBack, CallAt, CallGoes, CaptureResets
  <2>2. RemoteTypeOK'
    BY <2>1 DEF RemoteTypeOK, Steps
  <2>3. CallOK' /\ LeftAlone' /\ Untroubled'
    BY <2>1 DEF RemoteTypeOK, CallOK, LeftAlone, Untroubled, CaptureResets
  <2> QED
    BY <2>2, <2>3
<1>13. CASE FallBackSwitch
  <2>1. /\ call.step = "switch" /\ ~CaptureResets
        /\ UNCHANGED <<imported, cached, target, troubled>>
        /\ call' = [call EXCEPT !.step = "again"]
        /\ resets' = [resets EXCEPT !["capture"] = "close"]
    BY <1>13 DEF FallBackSwitch, CallAt, CallGoes, CaptureResets
  <2>2. window' \in [transport: {"grpc", "http"}, endpoint: NoOrUrl, server: ServerIds,
                     busy: BOOLEAN] /\ window'.server = window.server
        /\ window'.busy = window.busy
    BY <1>13 DEF FallBackSwitch, SetsUrl, ServerUrl, Urls, NoOrUrl, RemoteTypeOK
  <2>3. RemoteTypeOK'
    BY <2>1, <2>2 DEF RemoteTypeOK, Steps
  <2>4. CallOK' /\ LeftAlone' /\ Untroubled'
    BY <2>1, <2>2 DEF RemoteTypeOK, CallOK, LeftAlone, Untroubled, CaptureResets, Threads
  <2> QED
    BY <2>3, <2>4
<1>14. CASE FallBackAgain
  <2>1. /\ call.step = "again" /\ ~CaptureResets
        /\ UNCHANGED <<imported, cached, target, window, resets, troubled>>
    BY <1>14 DEF FallBackAgain, CallAt, CaptureResets
  <2>2. CASE window.endpoint = None
    <3>1. call' = [call EXCEPT !.step = "lost"]
      BY <1>14, <2>2 DEF FallBackAgain
    <3>2. RemoteTypeOK'
      BY <2>1, <3>1 DEF RemoteTypeOK, Steps
    <3>3. CallOK' /\ LeftAlone' /\ Untroubled'
      BY <2>1, <3>1 DEF RemoteTypeOK, CallOK, LeftAlone, Untroubled, CaptureResets
    <3> QED
      BY <3>2, <3>3
  <2>3. CASE window.endpoint # None
    <3>1. call' = [step |-> FirstStep, endpoint |-> window.endpoint, made |-> None,
                   stub |-> None, left |-> MaxRetries, second |-> TRUE, excused |-> FALSE]
      BY <1>14, <2>3 DEF FallBackAgain, IdleCall
    <3> QED
      BY <2>1, <2>3, <3>1, Begun DEF RemoteTypeOK, NoOrUrl
  <2> QED
    BY <2>2, <2>3
<1>15. CASE CallLost
  <2>1. call.step = "lost" /\ ~CaptureResets
    BY <1>15 DEF CallLost, CallAt, CaptureResets
  <2>2. troubled < 2 => cached.stub = None
    BY <2>1 DEF LeftAlone
  <2> QED
    BY <1>15, <2>1, <2>2, Ended DEF CallLost
<1>16. CASE UNCHANGED remoteVars
  BY <1>16
  DEF remoteVars, RemoteTypeOK, CallOK, LeftAlone, Untroubled, CaptureResets
<1> QED
  BY <1>1, <1>2, <1>3, <1>4, <1>5, <1>6, <1>7, <1>8, <1>9, <1>10, <1>11, <1>12, <1>13,
     <1>14, <1>15, <1>16
  DEF RemoteNext, CallStep, WindowStep, Threads

(* Whatever the user presses and however the two threads interleave, with    *)
(* more than one attempt to a call it gives up for a reason of its own, or   *)
(* because the T key closed its channel during it or during the last one: no *)
(* failure outlives its call (detector_remote.py:91-174, gui.py:77-85,       *)
(* 311-324).                                                                 *)
THEOREM CallsFailForAReason ==
  ASSUME MaxRetries > 1 PROVE RemoteSpec => []FailsForAReason
<1>1. RemoteInv /\ [RemoteNext]_remoteVars => RemoteInv'
  BY RemoteInvNext
<1>2. RemoteInv => FailsForAReason
  BY DEF RemoteInv, RemoteTypeOK, Untroubled, FailsForAReason
<1> QED
  BY RemoteInvInit, <1>1, <1>2, PTL DEF RemoteSpec

===============================================================================
