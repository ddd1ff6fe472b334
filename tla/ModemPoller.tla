------------------------------- MODULE ModemPoller -------------------------------
(***************************************************************************)
(* The radio poller (edgevision/client/modem.py): a thread that logs in to *)
(* the modem, asks it for its radio data with the token, logs in again on  *)
(* a 401, and keeps the last answer for the window.  The modem may go away *)
(* and come back, and expires its tokens.                                  *)
(***************************************************************************)
EXTENDS Naturals, Absent

CONSTANT MaxTrouble  \* bound: outages and expirations

ASSUME MaxTroubleAssumption == MaxTrouble \in Nat

VARIABLES
  poller,   \* what the poll does next, or "sleep"
  token,    \* _token: the number of the session that it was given for
  radio,    \* the data in _radio_data: "none", "old" or "fresh"
  modem,    \* external: its session (tokens of others are refused), is it up
  polling,  \* _running
  trouble   \* how often the modem went away or expired the token

modemVars == <<poller, token, radio, modem, polling, trouble>>

ModemInit ==
  /\ poller = "login" /\ token = None /\ radio = "none" /\ polling = TRUE
  /\ modem = [session |-> 0, up |-> TRUE] /\ trouble = 0

(* _login: a token, or a failure, which ends the poll.                       *)
Login(step, next) ==
  /\ poller = step
  /\ \/ modem.up /\ token' = modem.session /\ poller' = next
     \/ ~modem.up /\ poller' = "sleep" /\ UNCHANGED token
  /\ UNCHANGED <<radio, modem, polling, trouble>>

(* A request's answer: the data, a 401, or an exception.  Where a definition *)
(* has another form before it, that is the form a plausible bug would give   *)
(* it; no action uses it.                                                    *)
KeepsToken(step)   == poller' = "sleep" /\ UNCHANGED token
ForgetsToken(step) == token' = None /\ poller' = IF step = "ask" THEN "relogin" ELSE "sleep"
AsksRadio(step) ==
  /\ poller = step
  /\ \/ ~modem.up /\ poller' = "sleep" /\ UNCHANGED <<token, radio>>
     \/ modem.up /\ token = modem.session /\ poller' = "keep" /\ UNCHANGED <<token, radio>>
     \/ /\ modem.up /\ token # modem.session /\ UNCHANGED radio
        /\ IF step = "ask" THEN ForgetsToken(step)
           ELSE poller' = "sleep" /\ UNCHANGED token
  /\ UNCHANGED <<modem, polling, trouble>>

(* The loop keeps a result under the lock, and sleeps.                       *)
KeepData ==
  /\ poller = "keep" /\ poller' = "sleep" /\ radio' = "fresh"
  /\ UNCHANGED <<token, modem, polling, trouble>>

Wake ==
  /\ poller = "sleep"
  /\ poller' = IF ~polling THEN "ended" ELSE IF token = None THEN "login" ELSE "ask"
  /\ UNCHANGED <<token, radio, modem, polling, trouble>>

PollerStep == Login("login", "ask") \/ AsksRadio("ask") \/ Login("relogin", "again")
              \/ AsksRadio("again") \/ KeepData \/ Wake

(* What the window shows grows old; it has no time of its own to show it by. *)
Ages ==
  /\ radio = "fresh" /\ radio' = "old"
  /\ UNCHANGED <<poller, token, modem, polling, trouble>>

(* External: the modem expires the token, goes away, or comes back.          *)
ModemStep ==
  /\ \/ /\ trouble < MaxTrouble /\ trouble' = trouble + 1
        /\ \/ modem' = [modem EXCEPT !.session = @ + 1]
           \/ modem.up /\ modem' = [modem EXCEPT !.up = FALSE]
     \/ ~modem.up /\ modem' = [modem EXCEPT !.up = TRUE] /\ UNCHANGED trouble
  /\ UNCHANGED <<poller, token, radio, polling>>

StopPolling == polling /\ polling' = FALSE /\ UNCHANGED <<poller, token, radio, modem, trouble>>

ModemNext == PollerStep \/ Ages \/ ModemStep \/ StopPolling

(* The poller's requests have timeouts, so its thread goes on.               *)
ModemSpec == ModemInit /\ [][ModemNext]_modemVars /\ WF_modemVars(PollerStep)

-------------------------------------------------------------------------------
(* Properties.                                                               *)

(* While the modem stays up the window's radio data is made fresh again and  *)
(* again, whenever in a poll it went away or dropped the token               *)
(* (modem.py:39-107).                                                        *)
Refreshes == []<>(radio = "fresh" \/ ~modem.up \/ ~polling)

===============================================================================
