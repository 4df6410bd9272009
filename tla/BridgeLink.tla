------------------------------ MODULE BridgeLink ------------------------------
(***************************************************************************)
(* The browser's connection to the relay: connect, scheduleReconnect,      *)
(* discover, forgetCredentials, loadState and the alarm of the add-on's    *)
(* worker, with the relay's side of a handshake and of a claimed pairing   *)
(* window.  Credentials are the number of the token they were minted for.  *)
(***************************************************************************)
EXTENDS Naturals

CONSTANTS
  Sockets,     \* bound: WebSocket objects that exist at once
  MaxTokens,   \* bound: tokens the relay has had
  StaleAfter,  \* STALE_AFTER_ATTEMPTS
  MaxFaults    \* bound: kills, exits, refusals, lapses, alarms, pastes

VARIABLES
  worker,      \* ready once loadState has been through
  load,        \* how far loadState has got
  stored,      \* the credentials in storage, 0 for none
  cred,        \* credentials
  socket,      \* the one `socket` names, 0 for none
  ws,          \* the state of every WebSocket object
  retry,       \* reconnectTimer is set
  attempts, fatal,
  forgetting,  \* forgetCredentials waits for the storage
  job,         \* how far discover, or set-credentials, has got
  grant,       \* the credentials it brings
  up,          \* the relay runs
  token,       \* its token
  window,      \* its pairing window is open
  attached,    \* the socket it has for a browser, 0 for none
  faults

bridgeVars == <<worker, load, stored, cred, socket, ws, retry, attempts, fatal, forgetting,
                job, grant, up, token, window, attached, faults>>

Tokens == 1 .. MaxTokens

BridgeTypeOK ==
  /\ worker \in {"dead", "booting", "ready"} /\ load \in {"none", "reading", "probing"}
  /\ {stored, cred, grant} \subseteq 0 .. token /\ token \in Tokens
  /\ {socket, attached} \subseteq Sockets \cup {0}
  /\ ws \in [Sockets -> {"none", "connecting", "accepted", "welcomed", "badToken",
                         "refused", "closing"}]
  /\ attempts \in 0 .. StaleAfter + 1 /\ faults \in 0 .. MaxFaults
  /\ {retry, fatal, forgetting, up, window} \subseteq BOOLEAN
  /\ job \in {"idle", "asking", "granted", "storing"}

(* A browser that is attached, or starts, paired before or never.          *)
BridgeInit ==
  /\ load = "none"
  /\ \/ /\ worker = "dead" /\ stored \in {0, 1} /\ cred = 0 /\ up = FALSE
        /\ socket = 0 /\ ws = [s \in Sockets |-> "none"]
     \/ /\ worker = "ready" /\ stored = 1 /\ cred = 1 /\ up = TRUE
        /\ socket = 1 /\ ws = [s \in Sockets |-> IF s = 1 THEN "welcomed" ELSE "none"]
  /\ attached = socket
  /\ retry = FALSE /\ attempts = 0 /\ fatal = FALSE /\ forgetting = FALSE
  /\ job = "idle" /\ grant = 0
  /\ token = 1 /\ window = FALSE /\ faults = 0

Fails == faults < MaxFaults /\ faults' = faults + 1

-----------------------------------------------------------------------------
(* The worker's socket.                                                    *)

(* readyState is neither CONNECTING nor OPEN.                              *)
NoSocket == socket # 0 => ws[socket] = "closing"

connect(c) ==
  IF c # 0 /\ NoSocket
  THEN \E s \in Sockets :
         /\ ws[s] = "none" /\ \A t \in Sockets : ws[t] = "none" => s <= t
         /\ ws' = [ws EXCEPT ![s] = "connecting"]
         /\ socket' = s
  ELSE UNCHANGED <<socket, ws>>

scheduleReconnect ==
  IF fatal \/ cred = 0 \/ retry
  THEN UNCHANGED <<retry, attempts>>
  ELSE /\ retry' = TRUE
       /\ attempts' = IF attempts > StaleAfter THEN attempts ELSE attempts + 1

forgetCredentials ==
  /\ cred' = 0 /\ attempts' = 0 /\ fatal' = FALSE
  /\ forgetting' = TRUE

(* The close handler clears `socket`, whichever socket it is for.          *)
Closes(s) ==
  /\ \/ ws[s] = "closing"
     \/ ws[s] = "connecting" /\ ~up
  /\ ws' = [ws EXCEPT ![s] = "none"] /\ socket' = 0
  /\ attached' = IF attached = s THEN 0 ELSE attached
  /\ scheduleReconnect
  /\ UNCHANGED <<worker, load, stored, cred, fatal, forgetting, job, grant, up, token,
                 window, faults>>

HearWelcome(s) ==
  /\ ws[s] = "accepted" /\ ws' = [ws EXCEPT ![s] = "welcomed"]
  /\ fatal' = FALSE /\ attempts' = 0
  /\ UNCHANGED <<worker, load, stored, cred, socket, retry, forgetting, job, grant, up,
                 token, window, attached, faults>>

(* Faulty: every refusal is final.                                         *)
JudgesFinal(bad) ==
  /\ fatal' = TRUE
  /\ UNCHANGED <<cred, attempts, forgetting>>

(* A token that is not the relay's is forgotten, any other refusal final.  *)
Judges(bad) ==
  IF bad THEN forgetCredentials
  ELSE fatal' = TRUE /\ UNCHANGED <<cred, attempts, forgetting>>

HearRejected(s) ==
  /\ ws[s] \in {"badToken", "refused"}
  /\ ws' = [t \in Sockets |-> IF t \in {s, socket} THEN "closing" ELSE ws[t]]
  /\ Judges(ws[s] = "badToken")
  /\ UNCHANGED <<worker, load, stored, socket, retry, job, grant, up, token, window,
                 attached, faults>>

(* Bound: the timers, of a second and more, outlast the relay's answers.   *)
NoAnswerDue == \A s \in Sockets : ws[s] \in {"none", "welcomed", "closing"}

RetryFires ==
  /\ retry /\ NoAnswerDue /\ retry' = FALSE
  /\ IF attempts > StaleAfter
     THEN forgetCredentials /\ UNCHANGED <<socket, ws>>
     ELSE connect(cred) /\ UNCHANGED <<cred, attempts, fatal, forgetting>>
  /\ UNCHANGED <<worker, load, stored, job, grant, up, token, window, attached, faults>>

Keepalive ==
  /\ worker = "ready" /\ cred # 0 /\ NoSocket /\ NoAnswerDue
  /\ connect(cred)
  /\ UNCHANGED <<worker, load, stored, cred, retry, attempts, fatal, forgetting, job, grant,
                 up, token, window, attached, faults>>

-----------------------------------------------------------------------------
(* The worker's credentials.                                               *)

(* startDiscovery, the keepalive and the user's popup ask while there are  *)
(* no credentials.  Bound: one of them asks at a time.                     *)
discover ==
  /\ worker # "dead" /\ cred = 0 /\ job = "idle" /\ job' = "asking"
  /\ UNCHANGED <<worker, load, stored, cred, socket, ws, retry, attempts, fatal, forgetting,
                 grant, up, token, window, attached, faults>>

(* The storage is cleared, and discover called.                            *)
Forgotten ==
  /\ forgetting /\ forgetting' = FALSE
  /\ stored' = 0
  /\ job' = IF cred = 0 /\ job = "idle" THEN "asking" ELSE job
  /\ UNCHANGED <<worker, load, cred, socket, ws, retry, attempts, fatal, grant, up, token,
                 window, attached, faults>>

(* GET /pair: claimBrowserPairing.                                         *)
Claims ==
  /\ job = "asking"
  /\ IF up /\ window
     THEN job' = "granted" /\ grant' = token /\ window' = FALSE
     ELSE job' = "idle" /\ UNCHANGED <<grant, window>>
  /\ UNCHANGED <<worker, load, stored, cred, socket, ws, retry, attempts, fatal, forgetting,
                 up, token, attached, faults>>

HearGrant ==
  /\ job = "granted" /\ job' = "storing"
  /\ cred' = grant
  /\ UNCHANGED <<worker, load, stored, socket, ws, retry, attempts, fatal, forgetting, grant,
                 up, token, window, attached, faults>>

SetCredentials ==
  /\ Fails /\ worker # "dead" /\ up /\ job = "idle"
  /\ cred' = token /\ grant' = token /\ job' = "storing"
  /\ UNCHANGED <<worker, load, stored, socket, ws, retry, attempts, fatal, forgetting, up,
                 token, window, attached>>

Stores ==
  /\ job = "storing" /\ job' = "idle"
  /\ stored' = grant /\ grant' = 0
  /\ connect(cred)
  /\ UNCHANGED <<worker, load, cred, retry, attempts, fatal, forgetting, up, token, window,
                 attached, faults>>

-----------------------------------------------------------------------------
(* The worker's life.                                                      *)

(* startup: of the browser, or of a worker the alarm wakes.                *)
Wakes ==
  /\ worker = "dead" /\ worker' = "booting"
  /\ load' = "reading"
  /\ UNCHANGED <<stored, cred, socket, ws, retry, attempts, fatal, forgetting, job, grant, up,
                 token, window, attached, faults>>

(* The alarm of a worker that lives: rare, one in half a minute, but it    *)
(* can fall between any two steps.                                         *)
Alarm ==
  /\ Fails /\ worker = "ready" /\ load = "none"
  /\ load' = "reading"
  /\ UNCHANGED <<worker, stored, cred, socket, ws, retry, attempts, fatal, forgetting, job,
                 grant, up, token, window, attached>>

(* loadState.                                                              *)
Loads ==
  /\ load = "reading" /\ load' = "probing"
  /\ cred' = stored
  /\ UNCHANGED <<worker, stored, socket, ws, retry, attempts, fatal, forgetting, job, grant,
                 up, token, window, attached, faults>>

Loaded ==
  /\ load = "probing" /\ load' = "none"
  /\ worker' = "ready"
  /\ connect(cred)
  /\ UNCHANGED <<stored, cred, retry, attempts, fatal, forgetting, job, grant, up, token,
                 window, attached, faults>>

Killed ==
  /\ Fails /\ worker # "dead" /\ worker' = "dead"
  /\ load' = "none" /\ cred' = 0 /\ socket' = 0 /\ ws' = [s \in Sockets |-> "none"]
  /\ retry' = FALSE /\ attempts' = 0 /\ fatal' = FALSE /\ forgetting' = FALSE
  /\ job' = "idle" /\ grant' = 0 /\ attached' = 0
  /\ UNCHANGED <<stored, up, token, window>>

-----------------------------------------------------------------------------
(* The relay, and the user who opens its pairing window.                   *)

(* A hello with the relay's token is welcomed and replaces the browser     *)
(* that was attached.                                                      *)
Hello(s) ==
  /\ ws[s] = "connecting" /\ up
  /\ IF cred = token
     THEN /\ ws' = [t \in Sockets |-> IF t = s THEN "accepted"
                                      ELSE IF t = attached THEN "closing" ELSE ws[t]]
          /\ attached' = s
     ELSE ws' = [ws EXCEPT ![s] = "badToken"] /\ UNCHANGED attached
  /\ UNCHANGED <<worker, load, stored, cred, socket, retry, attempts, fatal, forgetting, job,
                 grant, up, token, window, faults>>

HelloTooLate(s) ==
  /\ Fails /\ ws[s] = "connecting" /\ up
  /\ ws' = [ws EXCEPT ![s] = "refused"]
  /\ UNCHANGED <<worker, load, stored, cred, socket, retry, attempts, fatal, forgetting, job,
                 grant, up, token, window, attached>>

RelayStarts ==
  /\ ~up /\ up' = TRUE
  /\ token' \in {token, token + 1} \cap Tokens
  /\ UNCHANGED <<worker, load, stored, cred, socket, ws, retry, attempts, fatal, forgetting,
                 job, grant, window, attached, faults>>

RelayExits ==
  /\ Fails /\ up /\ up' = FALSE
  /\ window' = FALSE /\ attached' = 0
  /\ ws' = [s \in Sockets |->
              IF ws[s] \in {"none", "connecting"} THEN ws[s] ELSE "closing"]
  /\ UNCHANGED <<worker, load, stored, cred, socket, retry, attempts, fatal, forgetting, job,
                 grant, token>>

OpenWindow ==
  /\ up /\ ~window /\ window' = TRUE
  /\ UNCHANGED <<worker, load, stored, cred, socket, ws, retry, attempts, fatal, forgetting,
                 job, grant, up, token, attached, faults>>

WindowLapses ==
  /\ Fails /\ window /\ window' = FALSE
  /\ UNCHANGED <<worker, load, stored, cred, socket, ws, retry, attempts, fatal, forgetting,
                 job, grant, up, token, attached>>

SocketStep(s) == Closes(s) \/ HearWelcome(s) \/ HearRejected(s) \/ Hello(s)
PairingStep   == Claims \/ HearGrant \/ Stores
LoadStep      == Wakes \/ Loads \/ Loaded

BridgeNext ==
  \/ \E s \in Sockets : SocketStep(s) \/ HelloTooLate(s)
  \/ RetryFires \/ Keepalive \/ discover \/ Forgotten \/ PairingStep \/ SetCredentials
  \/ LoadStep \/ Alarm \/ Killed
  \/ RelayStarts \/ RelayExits \/ OpenWindow \/ WindowLapses

(* Sockets and storage answer, timers and the alarm fire, windows start    *)
(* the relay, and a user without a browser opens the window.               *)
BridgeFairness ==
  /\ \A s \in Sockets : WF_bridgeVars(SocketStep(s))
  /\ WF_bridgeVars(RetryFires) /\ WF_bridgeVars(Keepalive) /\ WF_bridgeVars(discover)
  /\ WF_bridgeVars(Forgotten) /\ WF_bridgeVars(PairingStep) /\ WF_bridgeVars(LoadStep)
  /\ WF_bridgeVars(RelayStarts) /\ WF_bridgeVars(attached = 0 /\ OpenWindow)

BridgeSpec == BridgeInit /\ [][BridgeNext]_bridgeVars
FairBridgeSpec == BridgeSpec /\ BridgeFairness

-----------------------------------------------------------------------------
(* However tokens change, workers and relays die and refusals arrive, the  *)
(* browser attaches again with nobody clearing its storage ("Nothing short *)
(* of clearing browser storage by hand could recover it").                 *)
Recovers == []<>(attached # 0 /\ ws[attached] = "welcomed")
=============================================================================
