--------------------------- MODULE ConnectionParts ----------------------------
(***************************************************************************)
(* How everyone gets, keeps and uses a way to a chat: the relay process    *)
(* the windows share, the editor's connection to it and the choice of a    *)
(* chat over that connection, and the server a coding agent calls tools    *)
(* through.                                                                *)
(*                                                                         *)
(* One part moves in a behaviour and the others stay where they start, so  *)
(* that the state spaces add up and do not multiply.  Parts says which of  *)
(* them may.                                                               *)
(***************************************************************************)
EXTENDS Naturals, Sequences

CONSTANTS
  Parts,                                        \* of "relay", "link", "picks", "agent"
  Windows, Builds, Old, MaxRelays, MaxCrashes,  \* RelayProcess
  MaxProviders, MaxConnects, MaxTries, MaxFlips, \* EditorLink
  Models, NoModel, MaxOpens, MaxUpset,          \* SurfacePicks
  MaxLines, MaxDrops                            \* AgentBridge

ASSUME ConnectionAssumption ==
  /\ Old \in Builds /\ MaxRelays \in Nat \ {0} /\ MaxCrashes \in Nat
  /\ {MaxProviders, MaxConnects, MaxTries, MaxFlips} \subseteq Nat
  /\ NoModel \notin Models /\ {MaxOpens, MaxUpset} \subseteq Nat
  /\ {MaxLines, MaxDrops} \subseteq Nat

VARIABLES
  part,                                                          \* the part that moves
  build, made, proc, told, file, spawned, win, served, heard,
  crashes,                                                       \* RelayProcess
  current, built, connects, owner, step, held, conn, tries, beats,
  hub, relayUp, flips, hop,                                      \* EditorLink
  route, linked, browser, opens, latest, want, waiting, result, chosen, listed,
  down, job, up, surf, lost, upsets,                             \* SurfacePicks
  server, link, lines, at, calling, pending, unheard, transit, results, answers,
  drops                                                          \* AgentBridge

Relay == INSTANCE RelayProcess
Link  == INSTANCE EditorLink
Picks == INSTANCE SurfacePicks
Agent == INSTANCE AgentBridge

relayVars == <<build, made, proc, told, file, spawned, win, served, heard, crashes>>
linkVars  == <<current, built, connects, owner, step, held, conn, tries, beats, hub,
               relayUp, flips, hop>>
pickVars  == <<route, linked, browser, opens, latest, want, waiting, result, chosen, listed,
               down, job, up, surf, lost, upsets>>
agentVars == <<server, link, lines, at, calling, pending, unheard, transit, results,
               answers, drops>>
vars == <<part, relayVars, linkVars, pickVars, agentVars>>

Init ==
  /\ part \in Parts
  /\ Relay!RelayInit /\ (part # "relay" => proc[1] = "serving" /\ build = [w \in Windows |-> Old])
  /\ Link!LinkInit /\ (part # "link" => relayUp)
  /\ Picks!PicksInit
  /\ Agent!AgentInit /\ (part # "agent" => server = "dead")

RelayStep ==
  /\ part = "relay" /\ Relay!RelayNext
  /\ UNCHANGED <<part, linkVars, pickVars, agentVars>>
LinkStep ==
  /\ part = "link" /\ Link!LinkNext
  /\ UNCHANGED <<part, relayVars, pickVars, agentVars>>
PicksStep ==
  /\ part = "picks" /\ Picks!PicksNext
  /\ UNCHANGED <<part, relayVars, linkVars, agentVars>>
AgentStep ==
  /\ part = "agent" /\ Agent!AgentNext
  /\ UNCHANGED <<part, relayVars, linkVars, pickVars>>

Next == RelayStep \/ LinkStep \/ PicksStep \/ AgentStep

Spec ==
  /\ Init /\ [][Next]_vars
  /\ Link!LinkFairness /\ Picks!PicksFairness /\ Agent!AgentFairness

-----------------------------------------------------------------------------
(* "A relay from a different build is replaced, not reused": a window is   *)
(* handed one of its own build.                                            *)
AttachedToOwnBuild == Relay!AttachedToOwnBuild

(* A relay of another build that served when a window began to look, and   *)
(* answered it, is not the one the window is handed, however windows of    *)
(* whatever builds, signals and crashes interleave                         *)
(* (RelayLauncher.ensureRunning, stop, waitForRelay; main's shutdown).     *)
ReplacedNotReused == Relay!ReplacedNotReused

(* A provider keeps the connection it last made and no other, however      *)
(* calls of connect overlap (RelayCoachProvider.connect).                  *)
OnlyHeldConnections == Link!OnlyHeldConnections

(* The chat selected is the one of the last pick that was answered in      *)
(* time, and can answer once the editor has heard everything (pickModel    *)
(* against the answers of earlier picks, setSurfaces).                     *)
SelectionHolds == Picks!SelectionHolds

(* A coding agent hears the answers to its lines in their order, once, and *)
(* nothing to a notification, however late results are (McpBridge's        *)
(* pending calls against their timers, onRelayMessage).                    *)
AnswersInOrder == Agent!AnswersInOrder

(* Who waits is answered: a pick by the browser, by a status, by the timer *)
(* or by the provider's end; a coding agent line by line (finishSurfaceOpen,*)
(* finishAllSurfaceOpens; callTool and its timer); and a panel that says   *)
(* the relay is connected, over a connection that is held and was open,    *)
(* does not go on saying so when it is gone (RelayConnection's heartbeat   *)
(* and reconnection).                                                      *)
EveryoneIsAnswered == Picks!OpensEnd /\ Agent!LinesAnswered /\ Link!DeadLinkNoticed

(* The heartbeat is there for "the case that otherwise leaves a green dot  *)
(* next to a dead connection": whatever connection it was that said        *)
(* connected.                                                              *)
DotGoesOut == Link!DotGoesOut
=============================================================================
