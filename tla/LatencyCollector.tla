---------------------------- MODULE LatencyCollector ----------------------------
(***************************************************************************)
(* The collector of latency samples (edgevision/client/                    *)
(* latency_collector.py): the capture thread appends samples to a deque, a *)
(* writer thread moves them to a file in batches, and the window's thread  *)
(* stops the writer, waits at most two seconds for it and ends the process.*)
(***************************************************************************)
EXTENDS Naturals, Sequences

CONSTANT MaxSamples  \* bound: samples recorded in a session

ASSUME MaxSamplesAssumption == MaxSamples \in Nat

VARIABLES
  recorded,   \* how many samples the capture thread has recorded
  buffer,     \* _buffer
  batch,      \* the writer's batch, then the rows that its file holds back
  file,       \* the rows on disk
  writer,     \* what the writer thread does next
  session,    \* the window's thread: "open", "stopping" in join, "ended"
  atStop      \* history: how many samples were recorded before stop()

latencyVars == <<recorded, buffer, batch, file, writer, session, atStop>>

LatencyInit ==
  /\ recorded = 0 /\ buffer = <<>> /\ batch = <<>> /\ file = <<>>
  /\ writer = "test" /\ session = "open" /\ atStop = 0

Stopping == session # "open"  \* _stop_event.is_set()
Alive    == session # "ended"

(* record, from the capture thread, a daemon, which ends the frame that it    *)
(* works on when the window's thread stops it.                               *)
Record ==
  /\ Alive /\ recorded < MaxSamples /\ (Stopping => recorded = atStop)
  /\ recorded' = recorded + 1
  /\ buffer' = Append(buffer, recorded + 1)
  /\ UNCHANGED <<batch, file, writer, session, atStop>>

-------------------------------------------------------------------------------
(* _flush_loop.  Where a definition has another form before it, that is the  *)
(* form a plausible bug would give it; no action uses it.                    *)

SkipsRest   == "close"
FlushesRest == "final"
TestStop ==
  /\ writer = "test" /\ writer' = IF Stopping THEN FlushesRest ELSE "fill"
  /\ UNCHANGED <<recorded, buffer, batch, file, session, atStop>>

Pop     == [taken |-> buffer[Len(buffer)], left |-> SubSeq(buffer, 1, Len(buffer) - 1)]
PopLeft == [taken |-> Head(buffer), left |-> Tail(buffer)]
TakeOne ==
  /\ writer \in {"fill", "final"} /\ buffer # <<>>
  /\ batch' = Append(batch, PopLeft.taken)
  /\ buffer' = PopLeft.left
  /\ UNCHANGED <<recorded, file, writer, session, atStop>>

(* The loop takes what is there; then writerows and flush, if any.           *)
EndFill ==
  /\ writer = "fill" /\ buffer = <<>>
  /\ writer' = "flush"
  /\ UNCHANGED <<recorded, buffer, batch, file, session, atStop>>

Flush ==
  /\ writer = "flush" /\ writer' = "wait"
  /\ file' = file \o batch /\ batch' = <<>>
  /\ UNCHANGED <<recorded, buffer, session, atStop>>

(* wait(timeout=1.0): the event, or a second.                                *)
WaitEnd ==
  /\ writer = "wait" /\ writer' = "test"
  /\ UNCHANGED <<recorded, buffer, batch, file, session, atStop>>

(* The final flush: its rows are on disk when the file is closed.            *)
EndFinal ==
  /\ writer = "final" /\ buffer = <<>>
  /\ writer' = "close"
  /\ UNCHANGED <<recorded, buffer, batch, file, session, atStop>>

Close ==
  /\ writer = "close" /\ writer' = "done"
  /\ file' = file \o batch /\ batch' = <<>>
  /\ UNCHANGED <<recorded, buffer, session, atStop>>

WriterStep == Alive /\ (TestStop \/ TakeOne \/ EndFill \/ Flush \/ WaitEnd \/ EndFinal \/ Close)

-------------------------------------------------------------------------------
(* stop(): the event, then join with its timeout; gui.run then ends the      *)
(* process and the threads with it.                                          *)

Stop ==
  /\ session = "open" /\ session' = "stopping"
  /\ atStop' = recorded
  /\ UNCHANGED <<recorded, buffer, batch, file, writer>>

Exit ==
  /\ session = "stopping" /\ session' = "ended"
  /\ UNCHANGED <<recorded, buffer, batch, file, writer, atStop>>

LatencyNext == Record \/ WriterStep \/ Stop \/ Exit
LatencySpec == LatencyInit /\ [][LatencyNext]_latencyVars

-------------------------------------------------------------------------------
(* Properties.                                                               *)

(* No sample is lost, doubled or reordered on its way through the deque and  *)
(* the writer's batch to the file, whatever the capture thread adds          *)
(* meanwhile (latency_collector.py:36-50, 69-86).                            *)
InOrder == file \o batch \o buffer = [i \in 1 .. recorded |-> i]

(* A session whose writer was done in time left every sample on disk that was*)
(* recorded before stop(); only a frame that the capture thread was still    *)
(* working on may be missing (latency_collector.py:53-56, 81-86,             *)
(* gui.py:900).                                                              *)
SavedAtStop == session = "ended" /\ writer = "done" => Len(file) >= atStop

===============================================================================
