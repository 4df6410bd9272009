----------------------------- MODULE BrowserParts -----------------------------
(***************************************************************************)
(* Two sides of the browser's worker: the turns it works on, and its       *)
(* connection to the relay (of which the turns see that it is up or not).  *)
(*                                                                         *)
(* One part moves in a behaviour and the other stays where it starts, so   *)
(* that the state spaces add up and do not multiply.                       *)
(***************************************************************************)
EXTENDS BrowserTurns

CONSTANTS Sockets, MaxTokens, StaleAfter, MaxBreaks   \* BridgeLink

VARIABLES
  part,                                               \* the part that moves
  worker, load, stored, cred, socket, ws, retry, attempts, fatal, forgetting, job, grant,
  runs, token, window, attached, breaks               \* BridgeLink

Bridge == INSTANCE BridgeLink WITH up <- runs, faults <- breaks, MaxFaults <- MaxBreaks

bridgeVars == <<worker, load, stored, cred, socket, ws, retry, attempts, fatal, forgetting,
                job, grant, runs, token, window, attached, breaks>>

PartsInit ==
  /\ part \in {"turns", "bridge"}
  /\ Init
  /\ Bridge!BridgeInit /\ (part # "bridge" => attached # 0)

TurnsStep  == part = "turns" /\ Next /\ UNCHANGED <<part, bridgeVars>>
BridgeStep == part = "bridge" /\ Bridge!BridgeNext /\ UNCHANGED <<part, vars>>

PartsSpec ==
  /\ PartsInit /\ [][TurnsStep \/ BridgeStep]_<<part, vars, bridgeVars>>
  /\ Fairness /\ Bridge!BridgeFairness

-----------------------------------------------------------------------------
(* A browser whose token, relay or worker is lost is attached again with   *)
(* nobody clearing its storage (adapter.rejected, forgetCredentials,       *)
(* discover, loadState, the alarm).                                        *)
Recovers == Bridge!Recovers
=============================================================================
