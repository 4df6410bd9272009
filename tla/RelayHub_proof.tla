--------------------------- MODULE RelayHub_proof ---------------------------
(***************************************************************************)
(* Proofs about the relay, for every number of connections, requests,      *)
(* questions, calls, tool lists and restarts.                              *)
(***************************************************************************)
EXTENDS RelayHub, TLAPS

(* Only a socket that is still there has a kind or a place in the map.     *)
Present ==
  \A c \in Conns :
    kind[c] # "none" \/ c \in members => socket[c] \notin {"none", "closed"}

(* What correlates has been asked and is not yet finished.                 *)
StillOpen ==
  \A r \in Requests :
    /\ r \in pending => r \in requested /\ replies[r] \in {"none", "partial"}
    /\ r \notin requested => replies[r] = "none"

(* A caller is remembered from the call to its result, unless the relay    *)
(* was restarted in between.                                               *)
Remembered ==
  \A t \in Calls :
    /\ called[t] = NoConn => t \notin owed /\ wentTo[t] = "nobody"
    /\ toolCallers[t] # NoConn => toolCallers[t] = called[t]
    /\ calledIn[t] <= restarts
    /\ t \in owed /\ toolCallers[t] = NoConn => calledIn[t] # restarts

IInv ==
  /\ TypeOK /\ Present /\ StillOpen /\ Remembered
  /\ OneOfEachKind /\ EveryoneIsTold /\ FinalIsLast /\ ResultsGoHome /\ WaitersWait

-----------------------------------------------------------------------------
(* Facts about the handlers.                                               *)

(* What is routed changes nobody's place.                                  *)
LEMMA RoutingLeavesPlaces ==
  ASSUME Routing \/ \E a \in Asks : Ask(a) \/ AskExpires(a)
  PROVE  UNCHANGED <<socket, members, kind, handshake, registry>>
BY DEF Routing, EditorRequest, Response, AskAnswered, AskFailed, Settle, ToolCall, ToolResult,
       ToolsAvailable, Ask, AskExpires, attachment

(* What comes and goes changes nothing that is routed.                     *)
LEMMA ConnectingLeavesRoutes ==
  ASSUME Connecting
  PROVE  UNCHANGED <<tools, requests, questions, calls, restarts>>
BY DEF Connecting, accept, Hello, Attach, HelloRefused, HandshakeExpires, PeerLeaves,
       GoesSilent, Closed, Swept, Keep

(* A drop takes the connection out of the map, and leaves every adapter    *)
(* that stays with its list.                                               *)
LEMMA DropFacts ==
  ASSUME TypeOK, NEW c \in Conns, drop(c), socket' \in [Conns -> SocketStates]
  PROVE  /\ members' = members \ {c} /\ handshake' = handshake \ {c}
         /\ registry' \in [Conns -> Registries]
         /\ toolList' \in [Conns -> 0 .. MaxTools]
         /\ \A d \in Conns : socket'[d] = "open" => toolList'[d] = toolList[d]
<1>1. Snapshot' \in Registries /\ NoRegistry \in Registries
  BY DEF Snapshot, Registries, NoRegistry
<1>2. members' = members \ {c} /\ handshake' = handshake \ {c}
  BY DEF drop
<1>3. toolList' = [d \in Conns |-> IF socket'[d] = "open" THEN toolList[d] ELSE 0]
  BY DEF drop, Untold
<1>4. MaxTools \in Nat
  BY HubAssumption
<1>5. toolList' \in [Conns -> 0 .. MaxTools]
  BY <1>3, <1>4 DEF TypeOK
<1>6. registry' \in [Conns -> Registries]
  BY <1>1 DEF drop, Untold, broadcastRegistry, Told, TypeOK
<1> QED
  BY <1>2, <1>3, <1>5, <1>6

(* A hello puts out no one but an attached adapter of its own kind; of an  *)
(* exclusive kind, every such adapter.                                     *)
LEMMA HelloFacts ==
  ASSUME TypeOK, NEW c \in Conns, NEW k \in AdapterKinds, Hello(c, k)
  PROVE  \E old \in SUBSET Live(k) :
           /\ Attach(c, k, old)
           /\ OneOfEachKind /\ k \in Exclusive => old = Live(k)
<1>1. CASE k \in Exclusive /\ \E old \in Live(k) : Attach(c, k, {old})
  <2>1. PICK old \in Live(k) : Attach(c, k, {old})
    BY <1>1
  <2>2. OneOfEachKind => {old} = Live(k)
    BY <1>1 DEF OneOfEachKind
  <2> QED
    BY <2>1, <2>2
<1>2. CASE (k = "mcp" \/ Live(k) = {}) /\ Attach(c, k, {})
  <2>1. {} \in SUBSET Live(k) /\ (k \in Exclusive => {} = Live(k))
    BY <1>2 DEF Exclusive
  <2> QED
    BY <1>2, <2>1
<1> QED
  BY <1>1, <1>2 DEF Hello

(* A relay that has just started satisfies the invariant.                  *)
LEMMA InitIInv == Init => IInv
<1> SUFFICES ASSUME Init PROVE IInv
  OBVIOUS
<1>1. TypeOK
  BY HubAssumption DEF Init, TypeOK, SocketStates, AdapterKinds, Registries, NoRegistry, Outcomes
<1>2. Present /\ StillOpen /\ Remembered
  BY HubAssumption DEF Init, Present, StillOpen, Remembered
<1>3. OneOfEachKind /\ EveryoneIsTold /\ FinalIsLast /\ ResultsGoHome /\ WaitersWait
  BY DEF Init, OneOfEachKind, Live, EveryoneIsTold, FinalIsLast, ResultsGoHome, WaitersWait
<1> QED
  BY <1>1, <1>2, <1>3 DEF IInv

-----------------------------------------------------------------------------
(* Every step preserves each part of the invariant.                        *)

LEMMA TypeKept ==
  ASSUME TypeOK, Next
  PROVE  TypeOK'
<1> NoConn \notin Conns /\ MaxTools \in Nat /\ MaxRestarts \in Nat
  BY HubAssumption
<1> NoRegistry \in Registries /\ Snapshot' \in Registries
  BY DEF NoRegistry, Registries, Snapshot
<1>1. ASSUME NEW c \in Conns, accept(c) PROVE TypeOK'
  BY <1>1 DEF accept, TypeOK, Keep, requests, questions, calls, SocketStates
<1>2. ASSUME NEW c \in Conns, NEW k \in AdapterKinds, NEW old \in SUBSET Conns,
             Attach(c, k, old)
      PROVE  TypeOK'
  <2>1. socket' \in [Conns -> SocketStates] /\ members' \subseteq Conns
        /\ kind' \in [Conns -> AdapterKinds \cup {"none"}] /\ handshake' \subseteq Conns
    BY <1>2 DEF Attach, TypeOK, SocketStates
  <2>2. registry' \in [Conns -> Registries]
    BY <1>2 DEF Attach, TypeOK, broadcastRegistry, Told
  <2>3. toolList' \in [Conns -> 0 .. MaxTools]
    BY <1>2 DEF Attach, TypeOK, Untold
  <2> QED
    BY <1>2, <2>1, <2>2, <2>3 DEF Attach, TypeOK, Keep, requests, questions, calls
<1>3. ASSUME NEW c \in Conns, NEW k \in AdapterKinds, Hello(c, k) PROVE TypeOK'
  <2>1. PICK old \in SUBSET Live(k) : Attach(c, k, old)
    BY <1>3, HelloFacts
  <2>2. old \in SUBSET Conns
    BY DEF Live, TypeOK
  <2> QED
    BY <1>2, <2>1, <2>2
<1>4. ASSUME NEW c \in Conns, HelloRefused(c) \/ HandshakeExpires(c) PROVE TypeOK'
  <2>1. socket' \in [Conns -> SocketStates] /\ drop(c) /\ UNCHANGED kind /\ Keep
    BY <1>4 DEF HelloRefused, HandshakeExpires, TypeOK, SocketStates
  <2> QED
    BY <2>1, DropFacts DEF TypeOK, Keep, requests, questions, calls
<1>5. ASSUME NEW c \in Conns, PeerLeaves(c) \/ GoesSilent(c) PROVE TypeOK'
  <2>1. socket' \in [Conns -> SocketStates] /\ registry' \in [Conns -> Registries]
        /\ toolList' \in [Conns -> 0 .. MaxTools]
    BY <1>5 DEF PeerLeaves, GoesSilent, TypeOK, SocketStates, Untold
  <2> QED
    BY <1>5, <2>1 DEF PeerLeaves, GoesSilent, TypeOK, Keep, requests, questions, calls
<1>6. ASSUME NEW c \in Conns, Closed(c) \/ Swept(c) PROVE TypeOK'
  <2>1. /\ socket' \in [Conns -> SocketStates]
        /\ kind' \in [Conns -> AdapterKinds \cup {"none"}]
        /\ drop(c) /\ Keep
    BY <1>6 DEF Closed, Swept, TypeOK, SocketStates
  <2> QED
    BY <2>1, DropFacts DEF TypeOK, Keep, requests, questions, calls
<1>7. CASE Restart
  <2>1. socket' \in [Conns -> SocketStates]
    BY <1>7 DEF Restart, SocketStates
  <2>2. registry' = [c \in Conns |-> NoRegistry]
    BY <1>7 DEF Restart
  <2>3. toolList' = [c \in Conns |-> 0]
    BY <1>7 DEF Restart
  <2>4. registry' \in [Conns -> Registries] /\ toolList' \in [Conns -> 0 .. MaxTools]
    BY <2>2, <2>3
  <2>5. asked' \in [Asks -> Outcomes]
    <3>1. asked \in [Asks -> Outcomes] /\ "cut off" \in Outcomes
      BY DEF TypeOK, Outcomes
    <3> QED
      BY <1>7, <3>1 DEF Restart
  <2>6. restarts \in 0 .. MaxRestarts /\ restarts < MaxRestarts /\ restarts' = restarts + 1
        /\ tools' = 0
    BY <1>7 DEF Restart, TypeOK
  <2>7. restarts' \in 0 .. MaxRestarts /\ tools' \in 0 .. MaxTools
    BY <2>6
  <2> QED
    BY <1>7, <2>1, <2>4, <2>5, <2>7 DEF Restart, TypeOK
<1>8. ASSUME NEW c \in Conns, NEW r \in Requests, EditorRequest(c, r) PROVE TypeOK'
  BY <1>8 DEF EditorRequest, TypeOK, attachment, questions, calls
<1>9. ASSUME NEW c \in Conns, NEW r \in Requests, NEW partial \in BOOLEAN,
             Response(c, r, partial)
      PROVE  TypeOK'
  BY <1>9 DEF Response, Progress, TypeOK, attachment, questions, calls
<1>10. ASSUME NEW a \in Asks, NEW outcome \in Outcomes, Settle(a, outcome) PROVE TypeOK'
  BY <1>10 DEF Settle, TypeOK, attachment, requests, calls
<1>11. ASSUME NEW c \in Conns, NEW t \in Calls, ToolCall(c, t) PROVE TypeOK'
  BY <1>11 DEF ToolCall, TypeOK, attachment, requests, questions
<1>12. ASSUME NEW c \in Conns, NEW t \in Calls, ToolResult(c, t) PROVE TypeOK'
  <2>1. wentTo' \in [Calls -> {"nobody", "caller", "other"}]
        /\ toolCallers' \in [Calls -> Conns \cup {NoConn}]
    BY <1>12 DEF ToolResult, TypeOK
  <2> QED
    BY <1>12, <2>1 DEF ToolResult, TypeOK, attachment, requests, questions
<1>13. ASSUME NEW c \in Conns, ToolsAvailable(c) PROVE TypeOK'
  <2>1. tools' \in 0 .. MaxTools /\ toolList' \in [Conns -> 0 .. MaxTools]
    BY <1>13 DEF ToolsAvailable, TypeOK
  <2> QED
    BY <1>13, <2>1 DEF ToolsAvailable, TypeOK, requests, questions, calls
<1>14. ASSUME NEW a \in Asks, Ask(a) PROVE TypeOK'
  <2>1. /\ \E o \in {"refused", "waiting"} : asked' = [asked EXCEPT ![a] = o]
        /\ answers' \in {answers, answers \cup {a}}
    BY <1>14 DEF Ask
  <2>2. asked' \in [Asks -> Outcomes] /\ answers' \subseteq Asks
    BY <2>1 DEF TypeOK, Outcomes
  <2> QED
    BY <1>14, <2>2 DEF Ask, TypeOK, attachment, requests, calls
<1>15. ASSUME NEW a \in Asks, AskExpires(a) PROVE TypeOK'
  BY <1>10, <1>15 DEF AskExpires, Outcomes
<1>16. ASSUME NEW c \in Conns, NEW a \in Asks, AskAnswered(c, a) \/ AskFailed(c, a)
       PROVE  TypeOK'
  BY <1>10, <1>16 DEF AskAnswered, AskFailed, Outcomes
<1>17. CASE Connecting
  BY <1>1, <1>3, <1>4, <1>5, <1>6, <1>17 DEF Connecting
<1>18. CASE Routing
  BY <1>8, <1>9, <1>11, <1>12, <1>13, <1>16, <1>18 DEF Routing
<1> QED
  BY <1>7, <1>14, <1>15, <1>17, <1>18 DEF Next

(* A socket that was closed is out of the map and has no kind.             *)
LEMMA PresentKept ==
  ASSUME TypeOK, Present, Next
  PROVE  Present'
<1>1. ASSUME NEW c \in Conns, accept(c) PROVE Present'
  BY <1>1 DEF accept, Present, TypeOK
<1>2. ASSUME NEW c \in Conns, NEW k \in AdapterKinds, Hello(c, k) PROVE Present'
  <2>1. PICK old \in SUBSET Live(k) : Attach(c, k, old)
    BY <1>2, HelloFacts
  <2>2. \A d \in Conns : socket[d] \notin {"none", "closed"} => socket'[d] \notin {"none", "closed"}
    BY <2>1 DEF Attach, TypeOK
  <2>3. \A d \in Conns : d # c => kind'[d] = kind[d]
    BY <2>1 DEF Attach, TypeOK
  <2> QED
    BY <1>2, <2>1, <2>2, <2>3 DEF Attach, Hello, Present, Heard, TypeOK
<1>3. ASSUME NEW c \in Conns, HelloRefused(c) \/ HandshakeExpires(c) PROVE Present'
  <2>1. /\ \A d \in Conns : d # c => socket'[d] = socket[d]
        /\ socket'[c] \in {"closing", "leaving"}
        /\ kind' = kind /\ members' \subseteq members
    BY <1>3 DEF HelloRefused, HandshakeExpires, drop, TypeOK
  <2> QED
    BY <2>1 DEF Present
<1>4. ASSUME NEW c \in Conns, PeerLeaves(c) \/ GoesSilent(c) PROVE Present'
  BY <1>4 DEF PeerLeaves, GoesSilent, Present, TypeOK
<1>5. ASSUME NEW c \in Conns, Closed(c) \/ Swept(c) PROVE Present'
  <2>1. /\ \A d \in Conns : d # c => socket'[d] = socket[d] /\ kind'[d] = kind[d]
        /\ kind'[c] = "none" /\ members' = members \ {c}
    BY <1>5 DEF Closed, Swept, drop, TypeOK
  <2> QED
    BY <2>1 DEF Present
<1>6. CASE Restart
  BY <1>6 DEF Restart, Present
<1>7. CASE UNCHANGED <<socket, members, kind>>
  BY <1>7 DEF Present
<1> QED
  BY <1>1, <1>2, <1>3, <1>4, <1>5, <1>6, <1>7, RoutingLeavesPlaces DEF Next, Connecting

(* A hello of an exclusive kind puts out the one adapter of its kind.      *)
LEMMA OneKept ==
  ASSUME TypeOK, Present, OneOfEachKind, Next
  PROVE  OneOfEachKind'
<1>1. ASSUME \A k \in Exclusive : Live(k)' \subseteq Live(k) PROVE OneOfEachKind'
  BY <1>1 DEF OneOfEachKind
<1>2. ASSUME NEW c \in Conns, accept(c) PROVE OneOfEachKind'
  <2>1. kind[c] = "none" /\ members' = members \cup {c} /\ kind' = kind
    BY <1>2 DEF accept, Present
  <2> QED
    BY <1>1, <2>1 DEF Live, Exclusive, AdapterKinds
<1>3. ASSUME NEW c \in Conns, NEW k \in AdapterKinds, Hello(c, k) PROVE OneOfEachKind'
  <2>1. PICK old \in SUBSET Live(k) : Attach(c, k, old) /\ (k \in Exclusive => old = Live(k))
    BY <1>3, HelloFacts
  <2>2. /\ kind' = [kind EXCEPT ![c] = k] /\ members' = members \ old /\ kind[c] = "none"
    BY <1>3, <2>1 DEF Attach, Hello
  <2>3. \A d \in Conns : d # c => kind'[d] = kind[d]
    BY <2>2 DEF TypeOK
  <2>4. kind'[c] = k
    BY <2>2 DEF TypeOK
  <2>5. ASSUME NEW j \in Exclusive, NEW d \in Live(j)', NEW e \in Live(j)' PROVE d = e
    <3>1. /\ d \in members /\ d \notin old /\ kind'[d] = j
          /\ e \in members /\ e \notin old /\ kind'[e] = j
      BY <2>2, <2>5 DEF Live
    <3>2. CASE j = k
      BY <2>1, <2>3, <3>1, <3>2 DEF Live, TypeOK
    <3>3. CASE j # k
      <4>1. d \in Live(j) /\ e \in Live(j)
        BY <2>3, <2>4, <3>1, <3>3 DEF Live, TypeOK
      <4> QED
        BY <4>1 DEF OneOfEachKind
    <3> QED
      BY <3>2, <3>3
  <2> QED
    BY <2>5 DEF OneOfEachKind
<1>4. ASSUME NEW c \in Conns, HelloRefused(c) \/ HandshakeExpires(c) PROVE OneOfEachKind'
  BY <1>1, <1>4 DEF HelloRefused, HandshakeExpires, drop, Live
<1>5. ASSUME NEW c \in Conns, Closed(c) \/ Swept(c) PROVE OneOfEachKind'
  <2>1. kind' = [kind EXCEPT ![c] = "none"] /\ members' = members \ {c}
    BY <1>5 DEF Closed, Swept, drop
  <2>2. \A d \in Conns : d # c => kind'[d] = kind[d]
    BY <2>1 DEF TypeOK
  <2> QED
    BY <1>1, <2>1, <2>2 DEF Live, TypeOK
<1>6. CASE Restart
  BY <1>1, <1>6 DEF Restart, Live
<1>7. CASE UNCHANGED <<members, kind>>
  BY <1>1, <1>7 DEF Live
<1> QED
  BY <1>2, <1>3, <1>4, <1>5, <1>6, <1>7, RoutingLeavesPlaces
  DEF Next, Connecting, PeerLeaves, GoesSilent

(* What an open adapter was told last is still so, as long as the same     *)
(* adapters are attached.                                                  *)
LEMMA SameSnapshot ==
  ASSUME \A k \in AdapterKinds : Live(k)' = Live(k)
  PROVE  Snapshot' = Snapshot
BY DEF Snapshot, AdapterKinds

(* If an action leaves who is attached alone, closes sockets or opens new  *)
(* ones, and takes knowledge from none that is open, all still know.       *)
LEMMA StillTold ==
  ASSUME TypeOK, EveryoneIsTold, tools' = tools, Snapshot' = Snapshot,
         \A d \in Conns : d \in members' /\ kind'[d] # "none" /\ socket'[d] = "open" =>
           /\ d \in members /\ kind[d] = kind'[d] /\ socket[d] = "open"
           /\ registry'[d] = registry[d] /\ toolList'[d] = toolList[d],
         members' \subseteq Conns
  PROVE  EveryoneIsTold'
BY DEF EveryoneIsTold

(* Every open adapter has been told of the last change.                    *)
LEMMA ToldKept ==
  ASSUME TypeOK, TypeOK', Present, EveryoneIsTold, Next
  PROVE  EveryoneIsTold'
<1>1. ASSUME NEW c \in Conns, accept(c) PROVE EveryoneIsTold'
  <2>1. kind[c] = "none" /\ members' = members \cup {c} /\ kind' = kind
        /\ UNCHANGED <<registry, toolList, tools>>
    BY <1>1 DEF accept, Present, Keep
  <2>2. \A d \in Conns : d # c => socket'[d] = socket[d]
    BY <1>1 DEF accept, TypeOK
  <2>3. Snapshot' = Snapshot
    BY <2>1, SameSnapshot DEF Live, AdapterKinds
  <2> QED
    BY <2>1, <2>2, <2>3, StillTold DEF TypeOK
<1>2. ASSUME NEW c \in Conns, NEW k \in AdapterKinds, Hello(c, k) PROVE EveryoneIsTold'
  <2>1. PICK old \in SUBSET Live(k) : Attach(c, k, old)
    BY <1>2, HelloFacts
  <2>2. \A d \in Conns : /\ d # c => kind'[d] = kind[d]
                         /\ socket'[d] = "open" => socket[d] = "open" /\ d \notin old
    BY <2>1 DEF Attach, TypeOK
  <2>3. members' = members \ old /\ tools' = tools /\ kind'[c] = k
    BY <2>1 DEF Attach, Keep, TypeOK
  <2>4. \A d \in members' : kind'[d] # "none" /\ socket'[d] = "open" => registry'[d] = Snapshot'
    BY <2>1 DEF Attach, broadcastRegistry, Told, TypeOK
  <2>5. toolList' = [Untold(toolList, 0) EXCEPT ![c] =
                       IF k # "editor" /\ socket'[c] = "open" THEN tools ELSE @]
    BY <2>1 DEF Attach
  <2>6. \A d \in Conns : d # c /\ socket'[d] = "open" => toolList'[d] = toolList[d]
    BY <2>5 DEF Untold
  <2>7. k # "editor" /\ socket'[c] = "open" => toolList'[c] = tools
    BY <2>5 DEF Untold
  <2>8. ASSUME NEW d \in members', kind'[d] # "none", socket'[d] = "open", kind'[d] # "editor"
        PROVE  toolList'[d] = tools'
    <3>1. CASE d = c
      BY <2>3, <2>7, <2>8, <3>1
    <3>2. CASE d # c
      BY <2>2, <2>3, <2>6, <2>8, <3>2 DEF EveryoneIsTold, TypeOK
    <3> QED
      BY <3>1, <3>2
  <2> QED
    BY <2>4, <2>8 DEF EveryoneIsTold
<1>3. ASSUME NEW c \in Conns, drop(c), tools' = tools, socket'[c] # "open",
             kind' \in {kind, [kind EXCEPT ![c] = "none"]},
             \A d \in Conns : d # c => socket'[d] = socket[d]
      PROVE  EveryoneIsTold'
  <2>1. members' = members \ {c} /\ \A d \in Conns : socket'[d] = "open" => toolList'[d] = toolList[d]
    BY <1>3, DropFacts DEF TypeOK
  <2>2. \A d \in Conns : d # c => kind'[d] = kind[d]
    BY <1>3 DEF TypeOK
  <2>3. CASE c \in members /\ kind[c] # "none"
    <3>1. \A d \in members' : kind'[d] # "none" /\ socket'[d] = "open" => registry'[d] = Snapshot'
      BY <1>3, <2>3 DEF drop, broadcastRegistry, Told, TypeOK
    <3> QED
      BY <1>3, <2>1, <2>2, <3>1 DEF EveryoneIsTold, TypeOK
  <2>4. CASE ~(c \in members /\ kind[c] # "none")
    <3>1. Snapshot' = Snapshot
      BY <2>1, <2>2, <2>4, SameSnapshot DEF Live, AdapterKinds, TypeOK
    <3>2. \A d \in Conns : socket'[d] = "open" => registry'[d] = registry[d]
      BY <1>3, <2>4 DEF drop, Untold, TypeOK
    <3> QED
      BY <1>3, <2>1, <2>2, <3>1, <3>2, StillTold DEF TypeOK
  <2> QED
    BY <2>3, <2>4
<1>4. ASSUME NEW c \in Conns,
             HelloRefused(c) \/ HandshakeExpires(c) \/ Closed(c) \/ Swept(c)
      PROVE  EveryoneIsTold'
  BY <1>3, <1>4 DEF HelloRefused, HandshakeExpires, Closed, Swept, Keep, TypeOK
<1>5. ASSUME NEW c \in Conns, PeerLeaves(c) \/ GoesSilent(c) PROVE EveryoneIsTold'
  <2>1. /\ UNCHANGED <<members, kind, tools>>
        /\ registry' = Untold(registry, NoRegistry) /\ toolList' = Untold(toolList, 0)
    BY <1>5 DEF PeerLeaves, GoesSilent, Keep
  <2>2. \A d \in Conns : socket'[d] = "open" =>
          socket[d] = "open" /\ registry'[d] = registry[d] /\ toolList'[d] = toolList[d]
    BY <1>5, <2>1 DEF PeerLeaves, GoesSilent, Untold, TypeOK
  <2>3. Snapshot' = Snapshot
    BY <2>1, SameSnapshot DEF Live
  <2> QED
    BY <2>1, <2>2, <2>3, StillTold DEF TypeOK
<1>6. CASE Restart
  BY <1>6 DEF Restart, EveryoneIsTold
<1>7. ASSUME NEW c \in Conns, ToolsAvailable(c) PROVE EveryoneIsTold'
  <2>1. /\ UNCHANGED <<socket, members, kind, registry>> /\ tools' = tools + 1
        /\ \A d \in members : kind[d] \notin {"none", "editor"} /\ socket[d] = "open" =>
             toolList'[d] = tools + 1
    BY <1>7 DEF ToolsAvailable, TypeOK
  <2>2. Snapshot' = Snapshot
    BY <2>1, SameSnapshot DEF Live
  <2> QED
    BY <2>1, <2>2 DEF EveryoneIsTold
<1>8. CASE UNCHANGED <<socket, members, kind, registry, toolList, tools>>
  <2>1. Snapshot' = Snapshot
    BY <1>8, SameSnapshot DEF Live
  <2> QED
    BY <1>8, <2>1 DEF EveryoneIsTold
<1>9. ASSUME Routing \/ \E a \in Asks : Ask(a) \/ AskExpires(a),
             ~\E c \in Conns : ToolsAvailable(c)
      PROVE  UNCHANGED <<socket, members, kind, registry, toolList, tools>>
  BY <1>9 DEF Routing, EditorRequest, Response, AskAnswered, AskFailed, Settle, ToolCall,
              ToolResult, Ask, AskExpires, attachment
<1> QED
  BY <1>1, <1>2, <1>4, <1>5, <1>6, <1>7, <1>8, <1>9 DEF Next, Connecting

(* A correlation is closed by the reply that is final, and not reopened.   *)
LEMMA RepliesKept ==
  ASSUME TypeOK, StillOpen, FinalIsLast, Next
  PROVE  StillOpen' /\ FinalIsLast'
<1>1. ASSUME NEW c \in Conns, NEW r \in Requests, EditorRequest(c, r)
      PROVE  StillOpen' /\ FinalIsLast'
  BY <1>1 DEF EditorRequest, StillOpen, FinalIsLast
<1>2. ASSUME NEW c \in Conns, NEW r \in Requests, NEW partial \in BOOLEAN,
             Response(c, r, partial)
      PROVE  StillOpen' /\ FinalIsLast'
  <2>1. /\ replies[r] \in {"none", "partial"} /\ r \in requested /\ requested' = requested
        /\ pending' = IF partial THEN pending ELSE pending \ {r}
    BY <1>2 DEF Response, StillOpen
  <2>2. \/ replies' = replies
        \/ replies' = [replies EXCEPT ![r] = IF partial THEN "partial" ELSE "final"]
    BY <1>2, <2>1 DEF Response, Progress
  <2>3. /\ \A q \in Requests : q # r => replies'[q] = replies[q]
        /\ replies'[r] \in {replies[r], IF partial THEN "partial" ELSE "final"}
    BY <2>2 DEF TypeOK
  <2>4. StillOpen'
    BY <2>1, <2>3 DEF StillOpen
  <2>5. FinalIsLast'
    BY <2>1, <2>3 DEF FinalIsLast
  <2> QED
    BY <2>4, <2>5
<1>3. CASE Restart
  BY <1>3 DEF Restart, StillOpen, FinalIsLast
<1>4. CASE UNCHANGED requests
  BY <1>4 DEF requests, StillOpen, FinalIsLast
<1>5. ASSUME Routing, ~\E c \in Conns, r \in Requests : EditorRequest(c, r),
             ~\E c \in Conns, r \in Requests, partial \in BOOLEAN : Response(c, r, partial)
      PROVE  UNCHANGED requests
  BY <1>5 DEF Routing, AskAnswered, AskFailed, Settle, ToolCall, ToolResult, ToolsAvailable
<1>6. ASSUME NEW a \in Asks, Ask(a) \/ AskExpires(a) PROVE UNCHANGED requests
  BY <1>6 DEF Ask, AskExpires, Settle
<1> QED
  BY <1>1, <1>2, <1>3, <1>4, <1>5, <1>6, ConnectingLeavesRoutes DEF Next

(* A question and its waiter come and go together.                         *)
LEMMA WaitersKept ==
  ASSUME TypeOK, WaitersWait, Next
  PROVE  WaitersWait'
<1>1. ASSUME NEW a \in Asks, Ask(a) PROVE WaitersWait'
  <2>1. CASE Answerers = {}
    <3>1. asked' = [asked EXCEPT ![a] = "refused"] /\ answers' = answers /\ asked[a] = "unasked"
      BY <1>1, <2>1 DEF Ask
    <3> QED
      BY <3>1 DEF WaitersWait, TypeOK
  <2>2. CASE Answerers # {}
    <3>1. asked' = [asked EXCEPT ![a] = "waiting"] /\ answers' = answers \cup {a}
      BY <1>1, <2>2 DEF Ask
    <3> QED
      BY <3>1 DEF WaitersWait, TypeOK
  <2> QED
    BY <2>1, <2>2
<1>2. ASSUME NEW a \in Asks, NEW outcome \in Outcomes \ {"waiting"}, Settle(a, outcome)
      PROVE  WaitersWait'
  BY <1>2 DEF Settle, WaitersWait, TypeOK
<1>3. ASSUME NEW c \in Conns, NEW a \in Asks, AskAnswered(c, a) \/ AskFailed(c, a)
      PROVE  WaitersWait'
  BY <1>2, <1>3 DEF AskAnswered, AskFailed, Outcomes
<1>4. ASSUME NEW a \in Asks, AskExpires(a) PROVE WaitersWait'
  BY <1>2, <1>4 DEF AskExpires, Outcomes
<1>5. CASE Restart
  BY <1>5 DEF Restart, WaitersWait
<1>6. CASE UNCHANGED questions
  BY <1>6 DEF questions, WaitersWait
<1>7. ASSUME Routing, ~\E c \in Conns, a \in Asks : AskAnswered(c, a) \/ AskFailed(c, a)
      PROVE  UNCHANGED questions
  BY <1>7 DEF Routing, EditorRequest, Response, ToolCall, ToolResult, ToolsAvailable
<1> QED
  BY <1>1, <1>3, <1>4, <1>5, <1>6, <1>7, ConnectingLeavesRoutes DEF Next

(* A call has one caller, who is remembered while the result is owed.      *)
LEMMA CallsKept ==
  ASSUME TypeOK, Remembered, ResultsGoHome, Next
  PROVE  Remembered' /\ ResultsGoHome'
<1>1. ASSUME NEW c \in Conns, NEW t \in Calls, ToolCall(c, t)
      PROVE  Remembered' /\ ResultsGoHome'
  <2>1. /\ called[t] = NoConn /\ t \notin owed /\ wentTo[t] = "nobody"
        /\ called' = [called EXCEPT ![t] = c]
        /\ calledIn' = [calledIn EXCEPT ![t] = restarts]
        /\ restarts' = restarts /\ restarts \in Nat
    BY <1>1, HubAssumption DEF ToolCall, Remembered, TypeOK
  <2>2. toolCallers[t] = NoConn
    BY <2>1 DEF Remembered
  <2>3. /\ called'[t] = c /\ c # NoConn /\ calledIn'[t] = restarts
        /\ \A u \in Calls : u # t => called'[u] = called[u] /\ calledIn'[u] = calledIn[u]
    BY <2>1, HubAssumption DEF TypeOK
  <2>4. CASE Live("editor") = {}
    <3>1. /\ toolCallers' = toolCallers /\ owed' = owed
          /\ wentTo' = [wentTo EXCEPT ![t] = IF socket[c] = "open" THEN "caller" ELSE @]
      BY <1>1, <2>4 DEF ToolCall
    <3>2. /\ wentTo'[t] # "other"
          /\ \A u \in Calls : u # t => wentTo'[u] = wentTo[u]
      BY <2>1, <3>1 DEF TypeOK
    <3>3. Remembered'
      BY <2>1, <2>2, <2>3, <3>1, <3>2 DEF Remembered
    <3>4. ResultsGoHome'
      BY <2>1, <2>3, <3>2 DEF ResultsGoHome
    <3> QED
      BY <3>3, <3>4
  <2>5. CASE Live("editor") # {}
    <3>1. /\ toolCallers' = [toolCallers EXCEPT ![t] = c] /\ owed' \subseteq owed \cup {t}
          /\ wentTo' = wentTo
      BY <1>1, <2>5 DEF ToolCall
    <3>2. /\ toolCallers'[t] = c
          /\ \A u \in Calls : u # t => toolCallers'[u] = toolCallers[u]
      BY <3>1 DEF TypeOK
    <3>3. Remembered'
      BY <2>1, <2>3, <3>1, <3>2 DEF Remembered
    <3>4. ResultsGoHome'
      BY <2>1, <2>3, <3>1 DEF ResultsGoHome
    <3> QED
      BY <3>3, <3>4
  <2> QED
    BY <2>4, <2>5
<1>2. ASSUME NEW c \in Conns, NEW t \in Calls, ToolResult(c, t)
      PROVE  Remembered' /\ ResultsGoHome'
  <2>1. /\ UNCHANGED <<called, calledIn, restarts>> /\ t \in owed /\ owed' = owed \ {t}
        /\ toolCallers' = [toolCallers EXCEPT ![t] = NoConn]
    BY <1>2 DEF ToolResult
  <2>2. /\ toolCallers'[t] = NoConn
        /\ \A u \in Calls : u # t => toolCallers'[u] = toolCallers[u]
    BY <2>1 DEF TypeOK
  <2>3. \A u \in Calls : u # t => wentTo'[u] = wentTo[u]
    BY <1>2 DEF ToolResult, TypeOK
  <2>4. wentTo[t] # "other" /\ toolCallers[t] # NoConn => wentTo'[t] # "other"
    <3>1. SUFFICES ASSUME toolCallers[t] # NoConn, wentTo[t] # "other" PROVE wentTo'[t] # "other"
      OBVIOUS
    <3>2. toolCallers[t] = called[t]
      BY <3>1 DEF Remembered
    <3>3. ResultTargets(t) \subseteq {called[t]}
      BY <3>1, <3>2 DEF ResultTargets
    <3>4. {d \in ResultTargets(t) : socket[d] = "open"} \in {{}, {called[t]}}
      BY <3>3
    <3> QED
      BY <1>2, <3>1, <3>4 DEF ToolResult, TypeOK
  <2>5. Remembered'
    BY <2>1, <2>2, <2>3 DEF Remembered
  <2>6. ResultsGoHome'
    BY <2>1, <2>3, <2>4 DEF ResultsGoHome, Remembered
  <2> QED
    BY <2>5, <2>6
<1>3. CASE Restart
  <2>1. /\ UNCHANGED <<called, calledIn, owed, wentTo>> /\ restarts' = restarts + 1
        /\ \A t \in Calls : toolCallers'[t] = NoConn
    BY <1>3 DEF Restart
  <2>2. restarts \in Nat /\ \A t \in Calls : calledIn[t] \in Nat /\ calledIn[t] <= restarts
    BY HubAssumption DEF TypeOK, Remembered
  <2>3. \A t \in Calls : calledIn[t] <= restarts + 1 /\ calledIn[t] # restarts + 1
    BY <2>2
  <2> QED
    BY <2>1, <2>3 DEF Remembered, ResultsGoHome
<1>4. CASE UNCHANGED calls /\ UNCHANGED restarts
  BY <1>4 DEF calls, Remembered, ResultsGoHome
<1>5. ASSUME Routing, ~\E c \in Conns, t \in Calls : ToolCall(c, t) \/ ToolResult(c, t)
      PROVE  UNCHANGED calls /\ UNCHANGED restarts
  BY <1>5 DEF Routing, EditorRequest, Response, AskAnswered, AskFailed, Settle, ToolsAvailable
<1>6. ASSUME NEW a \in Asks, Ask(a) \/ AskExpires(a)
      PROVE  UNCHANGED calls /\ UNCHANGED restarts
  BY <1>6 DEF Ask, AskExpires, Settle
<1> QED
  BY <1>1, <1>2, <1>3, <1>4, <1>5, <1>6, ConnectingLeavesRoutes DEF Next

-----------------------------------------------------------------------------
(* The invariant is inductive.                                             *)
LEMMA StepIInv == IInv /\ [Next]_vars => IInv'
<1> SUFFICES ASSUME IInv, [Next]_vars PROVE IInv'
  OBVIOUS
<1>1. CASE Next
  BY <1>1, TypeKept, PresentKept, OneKept, ToldKept, RepliesKept, WaitersKept, CallsKept DEF IInv
<1>2. CASE UNCHANGED vars
  BY <1>2 DEF vars, attachment, requests, questions, calls, IInv, TypeOK, Present, StillOpen,
              Remembered, OneOfEachKind, Live, EveryoneIsTold, Snapshot, FinalIsLast,
              ResultsGoHome, WaitersWait
<1> QED
  BY <1>1, <1>2

THEOREM Invariant == Spec => []IInv
  BY InitIInv, StepIInv, PTL DEF Spec

(* Every variable of the relay keeps the type its code gives it.           *)
THEOREM TypeCorrect == Spec => []TypeOK
<1>1. IInv => TypeOK
  BY DEF IInv
<1> QED
  BY <1>1, Invariant, PTL

(* However hellos, closes, sweeps and restarts interleave, no two adapters *)
(* of an exclusive kind are attached at once (authenticate, drop).         *)
THEOREM AlwaysOneOfEachKind == Spec => []OneOfEachKind
<1>1. IInv => OneOfEachKind
  BY DEF IInv
<1> QED
  BY <1>1, Invariant, PTL

(* Every attached adapter that can be told knows who is attached, and      *)
(* holds the tools published last (broadcastRegistry, tools.available).    *)
THEOREM AlwaysEveryoneIsTold == Spec => []EveryoneIsTold
<1>1. IInv => EveryoneIsTold
  BY DEF IInv
<1> QED
  BY <1>1, Invariant, PTL

(* No request is replied to after its final reply (coach.response).        *)
THEOREM NothingAfterFinal == Spec => []FinalIsLast
<1>1. IInv => FinalIsLast
  BY DEF IInv
<1> QED
  BY <1>1, Invariant, PTL

(* No tool result is given to another than the caller, unless the relay    *)
(* was restarted since the call (toolCallers, tool.result).                *)
THEOREM ResultsAlwaysGoHome == Spec => []ResultsGoHome
<1>1. IInv => ResultsGoHome
  BY DEF IInv
<1> QED
  BY <1>1, Invariant, PTL

(* The waiters are exactly the questions unanswered (ask, answers).        *)
THEOREM WaitersAlwaysWait == Spec => []WaitersWait
<1>1. IInv => WaitersWait
  BY DEF IInv
<1> QED
  BY <1>1, Invariant, PTL
=============================================================================
