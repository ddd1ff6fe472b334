------------------------------ MODULE ClientProofs ------------------------------
(***************************************************************************)
(* Theorems about the client programs' smaller parts: the samples of a     *)
(* session (LatencyCollector) and what a program without a window leaves   *)
(* at the edge (EdgeLifecycle), for sessions and polls of any length.      *)
(***************************************************************************)
EXTENDS LatencyCollector, EdgeLifecycle, TLAPS

-------------------------------------------------------------------------------
(* The collector.                                                            *)

WriterSteps == {"test", "fill", "flush", "wait", "final", "close", "done"}
LatencyTypeOK ==
  /\ recorded \in Nat /\ atStop \in Nat
  /\ file \in Seq(Nat) /\ batch \in Seq(Nat) /\ buffer \in Seq(Nat)
  /\ writer \in WriterSteps /\ session \in {"open", "stopping", "ended"}

(* The samples recorded are numbered through the file, the batch and the     *)
(* deque.                                                                    *)
Numbered ==
  /\ recorded = Len(file) + Len(batch) + Len(buffer)
  /\ \A i \in 1 .. Len(file) : file[i] = i
  /\ \A i \in 1 .. Len(batch) : batch[i] = Len(file) + i
  /\ \A i \in 1 .. Len(buffer) : buffer[i] = Len(file) + Len(batch) + i

(* The writer's last rounds come after stop(), and once it has emptied the   *)
(* deque it holds all that was recorded before.                              *)
StopOK ==
  /\ session # "open" => atStop <= recorded
  /\ writer \in {"final", "close", "done"} => session # "open"
  /\ writer = "close" => atStop <= Len(file) + Len(batch)
  /\ writer = "done" => atStop <= Len(file)

LatencyInv == LatencyTypeOK /\ Numbered /\ StopOK

LEMMA LatencyInvInit == LatencyInit => LatencyInv
  BY DEF LatencyInit, LatencyInv, LatencyTypeOK, Numbered, StopOK, WriterSteps

LEMMA LatencyInvNext == LatencyInv /\ [LatencyNext]_latencyVars => LatencyInv'
<1> SUFFICES ASSUME LatencyInv, [LatencyNext]_latencyVars PROVE LatencyInv'
  OBVIOUS
<1> USE DEF LatencyInv, LatencyTypeOK
<1>1. CASE Record
  <2>1. /\ recorded' = recorded + 1 /\ buffer' = Append(buffer, recorded + 1)
        /\ UNCHANGED <<batch, file, writer, session, atStop>>
    BY <1>1 DEF Record
  <2>2. Numbered'
    <3>1. Len(buffer') = Len(buffer) + 1 /\ recorded' = Len(file) + Len(batch) + Len(buffer')
      BY <2>1 DEF Numbered
    <3>2. ASSUME NEW i \in 1 .. Len(buffer') PROVE buffer'[i] = Len(file) + Len(batch) + i
      <4>1. CASE i \in 1 .. Len(buffer)
        <5>1. buffer'[i] = buffer[i]
          BY <2>1, <4>1
        <5> QED
          BY <4>1, <5>1 DEF Numbered
      <4>2. CASE i = Len(buffer) + 1
        <5>1. buffer'[i] = recorded + 1
          BY <2>1, <4>2
        <5> QED
          BY <2>1, <3>1, <4>2, <5>1
      <4> QED
        BY <3>1, <3>2, <4>1, <4>2
    <3> QED
      BY <2>1, <3>1, <3>2 DEF Numbered
  <2>3. StopOK'
    BY <2>1 DEF StopOK
  <2> QED
    BY <2>1, <2>2, <2>3
<1>2. CASE TakeOne
  <2>1. /\ batch' = Append(batch, Head(buffer)) /\ buffer' = Tail(buffer) /\ buffer # <<>>
        /\ writer \in {"fill", "final"}
        /\ UNCHANGED <<recorded, file, writer, session, atStop>>
    BY <1>2 DEF TakeOne, PopLeft
  <2>2. /\ Len(batch') = Len(batch) + 1 /\ Len(buffer') = Len(buffer) - 1
        /\ batch' \in Seq(Nat) /\ buffer' \in Seq(Nat)
        /\ \A i \in 1 .. Len(batch) : batch'[i] = batch[i]
        /\ batch'[Len(batch) + 1] = buffer[1]
        /\ \A i \in 1 .. Len(buffer') : buffer'[i] = buffer[i + 1]
    BY <2>1
  <2>3. LatencyTypeOK'
    BY <2>1, <2>2
  <2>4. Numbered'
    <3>1. /\ Len(file) \in Nat /\ Len(batch) \in Nat /\ Len(buffer) \in Nat \ {0}
          /\ buffer[1] = Len(file) + Len(batch) + 1
      BY <2>1 DEF Numbered
    <3>2. ASSUME NEW i \in 1 .. Len(batch') PROVE batch'[i] = Len(file) + i
      <4>1. CASE i \in 1 .. Len(batch)
        BY <2>2, <4>1 DEF Numbered
      <4>2. CASE i = Len(batch) + 1
        BY <2>2, <3>1, <4>2
      <4> QED
        BY <2>2, <3>1, <4>1, <4>2
    <3>3. ASSUME NEW i \in 1 .. Len(buffer') PROVE buffer'[i] = Len(file) + Len(batch') + i
      <4>1. i + 1 \in 1 .. Len(buffer)
        BY <2>2, <3>1
      <4>2. buffer[i + 1] = Len(file) + Len(batch) + (i + 1)
        BY <4>1 DEF Numbered
      <4> QED
        BY <2>2, <3>1, <4>2
    <3>4. recorded = Len(file) + Len(batch') + Len(buffer')
      BY <2>2, <3>1 DEF Numbered
    <3> QED
      BY <2>1, <3>2, <3>3, <3>4 DEF Numbered
  <2>5. StopOK'
    BY <2>1 DEF StopOK
  <2> QED
    BY <2>3, <2>4, <2>5
<1>3. CASE Flush \/ Close
  <2>1. /\ file' = file \o batch /\ batch' = <<>>
        /\ \/ writer = "flush" /\ writer' = "wait"
           \/ writer = "close" /\ writer' = "done"
        /\ UNCHANGED <<recorded, buffer, session, atStop>>
    BY <1>3 DEF Flush, Close
  <2>2. LatencyTypeOK' /\ Numbered' /\ Len(file') = Len(file) + Len(batch)
    BY <2>1 DEF Numbered, WriterSteps
  <2>3. StopOK'
    BY <2>1, <2>2 DEF StopOK
  <2> QED
    BY <2>2, <2>3
<1>4. CASE TestStop \/ EndFill \/ WaitEnd
  BY <1>4 DEF TestStop, EndFill, WaitEnd, FlushesRest, Stopping, Numbered, StopOK, WriterSteps
<1>5. CASE EndFinal
  <2>1. /\ writer = "final" /\ writer' = "close" /\ buffer = <<>>
        /\ UNCHANGED <<recorded, buffer, batch, file, session, atStop>>
    BY <1>5 DEF EndFinal
  <2>2. recorded = Len(file) + Len(batch)
    BY <2>1 DEF Numbered
  <2> QED
    BY <2>1, <2>2 DEF Numbered, StopOK, WriterSteps
<1>6. CASE Stop \/ Exit
  <2>1. /\ session \in {"open", "stopping"} /\ session' \in {"stopping", "ended"}
        /\ atStop' = IF session = "open" THEN recorded ELSE atStop
        /\ UNCHANGED <<recorded, buffer, batch, file, writer>>
    BY <1>6 DEF Stop, Exit
  <2>2. LatencyTypeOK' /\ Numbered'
    BY <2>1 DEF Numbered
  <2>3. StopOK'
    BY <2>1 DEF StopOK
  <2> QED
    BY <2>2, <2>3
<1>7. CASE UNCHANGED latencyVars
  BY <1>7 DEF latencyVars, Numbered, StopOK
<1> QED
  BY <1>1, <1>2, <1>3, <1>4, <1>5, <1>6, <1>7 DEF LatencyNext, WriterStep

(* Whatever the capture thread adds while the writer moves samples, none is  *)
(* lost, doubled or reordered (latency_collector.py:36-50, 69-86).           *)
THEOREM SamplesInOrder == LatencySpec => []InOrder
<1>1. LatencyInv => InOrder
  <2> SUFFICES ASSUME LatencyInv PROVE InOrder
    OBVIOUS
  <2> DEFINE saved == file \o batch
             all   == saved \o buffer
  <2> USE DEF LatencyInv, LatencyTypeOK
  <2>1. /\ saved \in Seq(Nat) /\ Len(saved) = Len(file) + Len(batch)
        /\ Len(file) \in Nat /\ Len(batch) \in Nat /\ Len(buffer) \in Nat
        /\ recorded = Len(saved) + Len(buffer)
    BY DEF Numbered
  <2>2. ASSUME NEW i \in 1 .. Len(saved) PROVE saved[i] = i
    <3>1. CASE i <= Len(file)
      BY <2>1, <3>1 DEF Numbered
    <3>2. CASE i > Len(file)
      <4>1. i - Len(file) \in 1 .. Len(batch) /\ saved[i] = batch[i - Len(file)]
        BY <2>1, <3>2
      <4> QED
        BY <2>1, <4>1 DEF Numbered
    <3> QED
      BY <2>1, <3>1, <3>2
  <2> HIDE DEF saved
  <2>3. all \in Seq(Nat) /\ Len(all) = recorded
    <3>1. saved \in Seq(Nat) /\ buffer \in Seq(Nat)
      BY <2>1
    <3>2. all \in Seq(Nat) /\ Len(all) = Len(saved) + Len(buffer)
      BY ONLY <3>1
    <3> QED
      BY <2>1, <3>2
  <2>4. ASSUME NEW i \in 1 .. recorded PROVE all[i] = i
    <3>1. CASE i <= Len(saved)
      BY <2>1, <2>2, <2>3, <3>1
    <3>2. CASE i > Len(saved)
      <4>1. saved \in Seq(Nat) /\ buffer \in Seq(Nat)
            /\ i \in (Len(saved) + 1) .. (Len(saved) + Len(buffer))
        BY <2>1, <3>2
      <4>2. i - Len(saved) \in 1 .. Len(buffer) /\ all[i] = buffer[i - Len(saved)]
        BY ONLY <4>1
      <4> QED
        BY <2>1, <4>2 DEF Numbered
    <3> QED
      BY <2>1, <3>1, <3>2
  <2> HIDE DEF all
  <2>5. all = [i \in 1 .. recorded |-> i]
    BY <2>3, <2>4
  <2> QED
    BY <2>5 DEF InOrder, all, saved
<1> QED
  BY LatencyInvInit, LatencyInvNext, <1>1, PTL DEF LatencySpec

(* A writer that was done in time left every sample recorded before stop()   *)
(* on disk, however long the session (latency_collector.py:53-56, 81-86).    *)
THEOREM SavesAtStop == LatencySpec => []SavedAtStop
<1>1. LatencyInv => SavedAtStop
  BY DEF LatencyInv, LatencyTypeOK, StopOK, SavedAtStop
<1> QED
  BY LatencyInvInit, LatencyInvNext, <1>1, PTL DEF LatencySpec

-------------------------------------------------------------------------------
(* The programs without a window.                                            *)

(* An instance is there only once it was asked for; then the program knows   *)
(* its id or its answer was lost.                                            *)
HeldOK ==
  /\ exists => held \/ "no answer" \in excuse
  /\ stage \in {"discover", "register", "instantiate"} => ~exists

LifeInv == exists \in BOOLEAN /\ held \in BOOLEAN /\ HeldOK /\ LeavesNothing

LEMMA LifeInvInit == LifeInit => LifeInv
  BY DEF LifeInit, LifeInv, HeldOK, LeavesNothing, ProgramRuns

(* A step that fails runs the program's finally, or ends it with its excuse. *)
LEMMA FailsKeepsInv ==
  ASSUME LifeInv, Fails, UNCHANGED <<program, keep, exists, held>>
  PROVE  LifeInv'
<1>1. excuse' = excuse \cup (IF held /\ ~Protected THEN {"unprotected"} ELSE {})
  BY DEF Fails, Unprotected
<1>2. stage' = IF Protected /\ held /\ ~keep THEN "teardown" ELSE "ended"
  BY DEF Fails, Raises, Finally
<1> QED
  BY <1>1, <1>2 DEF LifeInv, HeldOK, LeavesNothing, ProgramRuns, Protected

LEMMA LifeInvNext == LifeInv /\ [LifeNext]_lifeVars => LifeInv'
<1> SUFFICES ASSUME LifeInv, [LifeNext]_lifeVars PROVE LifeInv'
  OBVIOUS
<1>1. CASE Asks \/ GetEndpoint
  <2>1. UNCHANGED <<program, keep, exists, held>>
    BY <1>1 DEF Asks, GetEndpoint, AnswerOrFailure, SameEdge
  <2>2. CASE Fails
    BY <2>1, <2>2, FailsKeepsInv
  <2>3. CASE stage' = NextStage[stage] /\ UNCHANGED excuse
    <3>1. \/ stage \in {"discover", "register"} /\ stage' \in {"register", "instantiate"}
          \/ stage' = "work"
      BY <1>1, <2>3 DEF Asks, GetEndpoint, NextStage
    <3> QED
      BY <2>1, <2>3, <3>1 DEF LifeInv, HeldOK, LeavesNothing, ProgramRuns
  <2> QED
    BY <1>1, <2>2, <2>3 DEF Asks, GetEndpoint, AnswerOrFailure
<1>2. CASE Instantiate
  <2>1. CASE exists' = TRUE /\ held' = TRUE /\ stage' = "poll" /\ UNCHANGED excuse
    BY <2>1 DEF LifeInv, HeldOK, LeavesNothing, ProgramRuns
  <2>2. CASE exists' = TRUE /\ Raises /\ excuse' = excuse \cup {"no answer"} /\ UNCHANGED held
    <3>1. stage' \in {"teardown", "ended"}
      BY <2>2 DEF Raises, Finally
    <3> QED
      BY <2>2, <3>1 DEF LifeInv, HeldOK, LeavesNothing, ProgramRuns
  <2>3. CASE Fails /\ UNCHANGED <<exists, held>>
    BY <1>2, <2>3, FailsKeepsInv DEF Instantiate
  <2> QED
    BY <1>2, <2>1, <2>2, <2>3 DEF Instantiate
<1>3. CASE Poll
  <2>1. UNCHANGED <<program, keep, exists, held>> /\ stage = "poll"
    BY <1>3 DEF Poll, SameEdge
  <2>2. CASE Fails
    BY <2>1, <2>2, FailsKeepsInv
  <2>3. CASE stage' \in {"poll", "endpoint"} /\ UNCHANGED excuse
    BY <2>1, <2>3 DEF LifeInv, HeldOK, LeavesNothing, ProgramRuns
  <2> QED
    BY <1>3, <2>1, <2>2, <2>3 DEF Poll
<1>4. CASE PollTimeout
  BY <1>4, FailsKeepsInv DEF PollTimeout, SameEdge
<1>5. CASE EndLoop \/ WorkOnce
  <2>1. UNCHANGED <<program, keep, exists, held>> /\ stage = "work"
    BY <1>5 DEF EndLoop, WorkOnce, SameEdge
  <2>2. CASE Fails
    BY <2>1, <2>2, FailsKeepsInv
  <2>3. CASE stage' = Finally /\ UNCHANGED excuse
    BY <2>1, <2>3 DEF Finally, LifeInv, HeldOK, LeavesNothing, ProgramRuns
  <2> QED
    BY <1>5, <2>2, <2>3 DEF EndLoop, WorkOnce
<1>6. CASE Teardown
  <2>1. stage' = "ended" /\ UNCHANGED <<program, keep, held>>
    BY <1>6 DEF Teardown
  <2>2. CASE exists' = FALSE /\ UNCHANGED excuse
    BY <2>1, <2>2 DEF LifeInv, HeldOK, LeavesNothing
  <2>3. CASE excuse' = excuse \cup {"delete failed"} /\ UNCHANGED exists
    BY <2>1, <2>3 DEF LifeInv, HeldOK, LeavesNothing
  <2> QED
    BY <1>6, <2>2, <2>3 DEF Teardown
<1>7. CASE Signal
  <2>1. UNCHANGED <<program, keep, exists, held>>
    BY <1>7 DEF Signal, SameEdge
  <2>2. CASE Fails
    BY <2>1, <2>2, FailsKeepsInv
  <2>3. CASE UNCHANGED <<stage, excuse>>
    BY <2>1, <2>3 DEF LifeInv, HeldOK, LeavesNothing, ProgramRuns
  <2>4. CASE stage' = "ended" /\ excuse' = excuse \cup {"killed"}
    BY <2>1, <2>4 DEF LifeInv, HeldOK, LeavesNothing, ProgramRuns
  <2> QED
    BY <1>7, <2>2, <2>3, <2>4 DEF Signal
<1>8. CASE UNCHANGED lifeVars
  BY <1>8 DEF lifeVars, LifeInv, HeldOK, LeavesNothing, ProgramRuns
<1> QED
  BY <1>1, <1>2, <1>3, <1>4, <1>5, <1>6, <1>7, <1>8 DEF LifeNext, ProgramStep

(* A program that ended left an instance only for one of the reasons listed, *)
(* wherever its steps fail or signals come, and the edge demo never because  *)
(* a step failed (edge_demo.py:209-235, main.py:105-128, bench.py:25-87,     *)
(* benchmark.py:53-86).                                                      *)
THEOREM LeavesNoInstance == LifeSpec => []LeavesNothing
<1>1. LifeInv => LeavesNothing
  BY DEF LifeInv
<1> QED
  BY LifeInvInit, LifeInvNext, <1>1, PTL DEF LifeSpec

===============================================================================
