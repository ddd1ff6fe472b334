----------------------------- MODULE BenchmarkStream -----------------------------
(***************************************************************************)
(* The 5G core benchmark (benchmark/benchmark-client.py and the server in  *)
(* benchmark-deploy.yaml): over one TCP connection the client sends a      *)
(* request of a header and a body, and reads a response of a header and a  *)
(* body, whose lengths the headers give.  TCP delivers bytes in pieces of  *)
(* any length, and recv returns what is there.                             *)
(***************************************************************************)
EXTENDS SequencesExt

CONSTANTS
  MaxSeq,      \* bound: requests on the connection
  HeaderSize,  \* HEADER_SIZE
  MaxBody      \* bound: bytes of a body

ASSUME StreamAssumption == {MaxSeq, MaxBody} \subseteq Nat /\ HeaderSize \in Nat \ {0}

VARIABLES
  requests,   \* the bytes on their way to the server
  responses,  \* the bytes on their way to the client
  peer        \* what the client and the server do: what they read, how many
              \* bytes are missing, the bytes they have, the number of the request

streamVars == <<requests, responses, peer>>

Kinds == {"ping", "download", "upload"}

(* A byte is named by the message and the part of it that it belongs to, and *)
(* knows what the header says of the body.                                   *)
Bytes(seq, part, length, body) == [i \in 1 .. length |-> [seq |-> seq, part |-> part, body |-> body]]
Message(seq, body) == Bytes(seq, "header", HeaderSize, body) \o Bytes(seq, "body", body, body)

Reads(part, missing, got, seq) == [part |-> part, missing |-> missing, got |-> got, seq |-> seq]
Resting(seq) == Reads("none", 0, <<>>, seq)

StreamInit ==
  /\ requests = <<>> /\ responses = <<>>
  /\ peer = [client |-> Resting(0), server |-> Reads("header", HeaderSize, <<>>, 0)]

(* do_ping, do_download, do_upload: sendall.                                 *)
SendRequest ==
  /\ peer.client.part = "none" /\ peer.client.seq < MaxSeq
  /\ \E body \in 0 .. MaxBody :
       requests' = requests \o Message(peer.client.seq, body)
  /\ peer' = [peer EXCEPT !.client = Reads("header", HeaderSize, <<>>, @.seq)]
  /\ UNCHANGED responses

(* recv_exact: as many bytes as there are, up to those that are missing.     *)
(* Where a definition has another form before it, that is the form a         *)
(* plausible bug would give it; no action uses it.                           *)
OneRecv(missing, n) == 0
Loops(missing, n)   == missing - n
Recv(who, stream, n) ==
  /\ peer[who].part # "none" /\ peer[who].missing > 0 /\ n \in 1 .. peer[who].missing
  /\ n <= Len(stream)
  /\ peer' = [peer EXCEPT ![who] = Reads(@.part, Loops(@.missing, n),
                                         @.got \o SubSeq(stream, 1, n), @.seq)]
Rest(stream, n) == SubSeq(stream, n + 1, Len(stream))
ClientRecv == \E n \in 1 .. Len(responses) :
                Recv("client", responses, n) /\ responses' = Rest(responses, n) /\ UNCHANGED requests
ServerRecv == \E n \in 1 .. Len(requests) :
                Recv("server", requests, n) /\ requests' = Rest(requests, n) /\ UNCHANGED responses

Complete(who, part) == peer[who].part = part /\ peer[who].missing = 0
BodyOf(who) == peer[who].got[1].body

(* The header is unpacked, and the body that it announces is read.           *)
HeaderRead(who) ==
  /\ Complete(who, "header")
  /\ peer' = [peer EXCEPT ![who] = Reads("body", BodyOf(who), @.got, @.seq)]
  /\ UNCHANGED <<requests, responses>>

(* handle_client answers: the body of a ping, the bytes that a download asks *)
(* for, none to an upload.                                                   *)
Respond ==
  /\ Complete("server", "body")
  /\ \E kind \in Kinds, chunk \in 0 .. MaxBody :
       LET body == IF kind = "ping" THEN BodyOf("server")
                   ELSE IF kind = "upload" THEN 0 ELSE chunk
       IN responses' = responses \o Message(peer.server.seq, body)
  /\ peer' = [peer EXCEPT !.server = Reads("header", HeaderSize, <<>>, @.seq + 1)]
  /\ UNCHANGED requests

ResponseRead ==
  /\ Complete("client", "body")
  /\ peer' = [peer EXCEPT !.client = Resting(@.seq + 1)]
  /\ UNCHANGED <<requests, responses>>

StreamNext == SendRequest \/ ClientRecv \/ ServerRecv \/ HeaderRead("client")
              \/ HeaderRead("server") \/ Respond \/ ResponseRead
StreamSpec == StreamInit /\ [][StreamNext]_streamVars

-------------------------------------------------------------------------------
(* Properties.                                                               *)

(* However the bytes are cut into pieces, each side reads exactly the message*)
(* of the request that it is at, so a round trip is measured on its own      *)
(* response and what is unpacked is a header (benchmark-client.py:46-90,     *)
(* benchmark-deploy.yaml:30-75).                                             *)
InFrame ==
  \A who \in {"client", "server"} : peer[who].part # "none" /\ peer[who].missing = 0 =>
    IsPrefix(peer[who].got, Message(peer[who].seq, IF peer[who].got = <<>> THEN 0 ELSE BodyOf(who)))
    /\ Len(peer[who].got) >= HeaderSize

===============================================================================
