------------------------------ MODULE AgentBridge ------------------------------
(***************************************************************************)
(* The MCP server: McpBridge and its loop over the lines a coding agent    *)
(* writes, between that agent and the relay with the editor behind it.     *)
(* Lines are numbered; a call goes by the number of its line.              *)
(***************************************************************************)
EXTENDS Naturals, Sequences, FiniteSets, SequencesExt

CONSTANTS
  MaxLines,  \* bound: lines the agent writes
  MaxDrops   \* bound: times the link to the relay is lost

VARIABLES
  server,   \* the process
  link,     \* its connection to the relay
  lines,    \* what the agent has written
  at,       \* lines the loop has read
  calling,  \* the loop waits for the call it read last
  pending,  \* calls with an entry and a timer
  unheard,  \* those whose promise nobody waits for: their send threw
  transit,  \* calls on the way to the editor
  results,  \* results on the way back
  answers,  \* the lines answered, in the order of the answers
  drops

agentVars == <<server, link, lines, at, calling, pending, unheard, transit, results, answers,
               drops>>

Lines == 1 .. MaxLines

(* A notification has no id; anything but a call is answered at once: what *)
(* is no request or an unknown method with an error.                       *)
Kinds == {"notification", "plain", "call"}

AgentTypeOK ==
  /\ server \in {"starting", "up", "dead"} /\ link \in {"none", "open", "down"}
  /\ lines \in Seq(Kinds) /\ Len(lines) <= MaxLines /\ at \in 0 .. Len(lines)
  /\ calling \in BOOLEAN /\ drops \in 0 .. MaxDrops
  /\ UNION {pending, unheard, transit, results, ToSet(answers)} \subseteq Lines

AgentInit ==
  /\ server \in {"starting", "dead"} /\ link = "none"
  /\ lines = <<>> /\ at = 0 /\ calling = FALSE
  /\ pending = {} /\ unheard = {} /\ transit = {} /\ results = {}
  /\ answers = <<>> /\ drops = 0

-----------------------------------------------------------------------------
(* start: without a handshake file the server goes on without a link; with *)
(* the file of a relay that cannot be reached it exits.                    *)
Start ==
  /\ server = "starting"
  /\ \/ server' = "up" /\ link' \in {"none", "open"}
     \/ server' = "dead" /\ UNCHANGED link
  /\ UNCHANGED <<lines, at, calling, pending, unheard, transit, results, answers, drops>>

write(n) == answers' = Append(answers, n)

(* The loop reads the next line when it is done with the last.             *)
Reads(kind) ==
  /\ server = "up" /\ ~calling /\ at < Len(lines)
  /\ lines[at + 1] = kind
  /\ at' = at + 1

ReadNotification ==
  /\ Reads("notification")
  /\ UNCHANGED <<server, link, lines, calling, pending, unheard, transit, results, answers,
                 drops>>

ReadPlain ==
  /\ Reads("plain") /\ write(at + 1)
  /\ UNCHANGED <<server, link, lines, calling, pending, unheard, transit, results, drops>>

(* callTool.                                                               *)
ReadCall ==
  /\ Reads("call") /\ link = "open"
  /\ calling' = TRUE
  /\ pending' = pending \cup {at + 1} /\ transit' = transit \cup {at + 1}
  /\ UNCHANGED <<server, link, lines, unheard, results, answers, drops>>

(* Its send throws: the call is answered, its entry and its timer stay.    *)
ReadCallDown ==
  /\ Reads("call") /\ link = "down" /\ write(at + 1)
  /\ pending' = pending \cup {at + 1} /\ unheard' = unheard \cup {at + 1}
  /\ UNCHANGED <<server, link, lines, calling, transit, results, drops>>

ReadCallUnlinked ==
  /\ Reads("call") /\ link = "none" /\ write(at + 1)
  /\ UNCHANGED <<server, link, lines, calling, pending, unheard, transit, results, drops>>

(* Faulty: a result is written whether or not it is still waited for.      *)
HearAnyResult(n) ==
  /\ n \in results /\ server = "up"
  /\ results' = results \ {n} /\ pending' = pending \ {n}
  /\ calling' = (calling /\ n # at)
  /\ write(n)
  /\ UNCHANGED <<server, link, lines, at, unheard, transit, drops>>

(* onRelayMessage: a result nobody waits for any more is dropped.          *)
HearResult(n) ==
  /\ n \in results /\ server = "up"
  /\ results' = results \ {n} /\ pending' = pending \ {n}
  /\ IF n \in pending
     THEN calling' = FALSE /\ write(n)
     ELSE UNCHANGED <<calling, answers>>
  /\ UNCHANGED <<server, link, lines, at, unheard, transit, drops>>

(* The 180 s are over.  Rejecting a promise nobody waits for ends the      *)
(* process.                                                                *)
CallExpires(n) ==
  /\ n \in pending /\ server = "up"
  /\ pending' = pending \ {n}
  /\ IF n \in unheard
     THEN server' = "dead" /\ UNCHANGED <<calling, answers>>
     ELSE calling' = FALSE /\ write(n) /\ UNCHANGED server
  /\ UNCHANGED <<link, lines, at, unheard, transit, results, drops>>

-----------------------------------------------------------------------------
(* The agent, and the relay with the editor behind it.                     *)

AgentWrites(kind) ==
  /\ Len(lines) < MaxLines /\ lines' = Append(lines, kind)
  /\ UNCHANGED <<server, link, at, calling, pending, unheard, transit, results, answers,
                 drops>>

(* The editor answers, or the relay for an editor that is not there.       *)
EditorAnswers(n) ==
  /\ n \in transit /\ link = "open"
  /\ transit' = transit \ {n} /\ results' = results \cup {n}
  /\ UNCHANGED <<server, link, lines, at, calling, pending, unheard, answers, drops>>

(* With the socket goes what was on its way; the relay sends results only  *)
(* to the connection that called.                                          *)
LinkDrops ==
  /\ link = "open" /\ drops < MaxDrops /\ drops' = drops + 1
  /\ link' = "down" /\ transit' = {} /\ results' = {}
  /\ UNCHANGED <<server, lines, at, calling, pending, unheard, answers>>

LinkReturns ==
  /\ link = "down" /\ link' = "open"
  /\ UNCHANGED <<server, lines, at, calling, pending, unheard, transit, results, answers,
                 drops>>

LoopStep == ReadNotification \/ ReadPlain \/ ReadCall \/ ReadCallDown \/ ReadCallUnlinked

AgentNext ==
  \/ Start \/ LoopStep \/ LinkDrops \/ LinkReturns
  \/ \E k \in Kinds : AgentWrites(k)
  \/ \E n \in Lines : HearResult(n) \/ CallExpires(n) \/ EditorAnswers(n)

(* The process runs and its timers fire; nothing is asked of the editor.   *)
AgentFairness ==
  /\ WF_agentVars(Start) /\ WF_agentVars(LoopStep)
  /\ \A n \in Lines : WF_agentVars(CallExpires(n))

AgentSpec == AgentInit /\ [][AgentNext]_agentVars
FairAgentSpec == AgentSpec /\ AgentFairness

-----------------------------------------------------------------------------
(* Requests are answered in the order of the lines and once, however late  *)
(* results are; a notification is not.                                     *)
AnswersInOrder ==
  /\ \A i, j \in DOMAIN answers : i < j => answers[i] < answers[j]
  /\ \A i \in DOMAIN answers : lines[answers[i]] # "notification"

(* Every request is answered in the end by a server that lives ("short     *)
(* enough that a lost message does not hang the agent forever").           *)
LineAnswered(n) ==
  n <= Len(lines) /\ lines[n] # "notification" ~> n \in ToSet(answers) \/ server = "dead"

LinesAnswered == \A n \in Lines : LineAnswered(n)
=============================================================================
