------------------------------ MODULE RelayHub ------------------------------
(***************************************************************************)
(* The relay process: RelayHub (hub.ts).  Adapters connect, say hello as   *)
(* one kind, and are routed to by kind; HTTP harnesses ask questions       *)
(* through it.  Its pairing window is in BridgeLink, with the browser that *)
(* claims it.                                                              *)
(*                                                                         *)
(* Node is single threaded, so one event is one action.  What the adapters *)
(* send is chosen freely among what such an adapter can send; every        *)
(* message is taken from the socket it came on, in any interleaving with   *)
(* timers, closes and the other sockets.                                   *)
(***************************************************************************)
EXTENDS FiniteSets, Naturals

CONSTANTS
  Conns,         \* connections ever accepted; an id is never used again
  Requests,      \* coach.request ids editors send
  Asks,          \* questions HTTP harnesses ask
  Calls,         \* tool call ids
  NoConn,        \* undefined, where a connection id is expected
  MaxTools,      \* tool lists published
  MaxRestarts    \* times the relay process is restarted

ASSUME HubAssumption ==
  /\ NoConn \notin Conns
  /\ MaxTools \in Nat /\ MaxRestarts \in Nat

VARIABLES
  socket,      \* each connection's socket, as the relay sees it
  members,     \* the connections map
  kind,        \* the kind each authenticated as, "none" while it has not
  handshake,   \* connections whose handshakeTimer is armed
  registry,    \* the adapter.registry each adapter holds
  tools,       \* toolsAvailable: how many lists were published, 0: undefined
  toolList,    \* the tools.available each adapter holds, by number
  pending,     \* correlations of editor requests
  requested,   \* the requests editors have sent
  replies,     \* how far the replies forwarded for each request have got
  answers,     \* HTTP waiters
  asked,       \* the outcome of each HTTP question
  toolCallers, \* who is to get a call's result
  called,      \* who made each call
  calledIn,    \* how often the relay had been restarted by then
  owed,        \* calls an editor has received and not yet answered
  wentTo,      \* who got each call's result
  restarts     \* times the relay process was restarted

attachment == <<socket, members, kind, handshake, registry, toolList>>
requests   == <<pending, requested, replies>>
questions  == <<answers, asked>>
calls      == <<toolCallers, called, calledIn, owed, wentTo>>
vars == <<attachment, tools, requests, questions, calls, restarts>>

AdapterKinds == {"editor", "provider", "browser", "mcp"}
Exclusive    == AdapterKinds \ {"mcp"}
Chats        == {"provider", "browser"}

(* "open": both ends up.  "silent": up, and nobody behind it.  "closing":  *)
(* the relay called close(), what the peer had sent is still delivered.    *)
(* "leaving": closing, and the peer sends nothing more.                    *)
SocketStates == {"none", "open", "silent", "closing", "leaving", "closed"}
Registries   == [editor : BOOLEAN, provider : BOOLEAN, browser : BOOLEAN]
NoRegistry   == [editor |-> FALSE, provider |-> FALSE, browser |-> FALSE]
Outcomes     == {"unasked", "waiting", "refused", "answered", "failed",
                 "timed out", "cut off"}

TypeOK ==
  /\ socket \in [Conns -> SocketStates]
  /\ members \subseteq Conns
  /\ kind \in [Conns -> AdapterKinds \cup {"none"}]
  /\ handshake \subseteq Conns
  /\ registry \in [Conns -> Registries]
  /\ tools \in 0 .. MaxTools
  /\ toolList \in [Conns -> 0 .. MaxTools]
  /\ pending \subseteq Requests /\ requested \subseteq Requests
  /\ replies \in [Requests -> {"none", "partial", "final", "more"}]
  /\ answers \subseteq Asks
  /\ asked \in [Asks -> Outcomes]
  /\ toolCallers \in [Calls -> Conns \cup {NoConn}]
  /\ called \in [Calls -> Conns \cup {NoConn}]
  /\ calledIn \in [Calls -> 0 .. MaxRestarts]
  /\ owed \subseteq Calls
  /\ wentTo \in [Calls -> {"nobody", "caller", "other"}]
  /\ restarts \in 0 .. MaxRestarts

Init ==
  /\ socket = [c \in Conns |-> "none"]
  /\ members = {} /\ handshake = {}
  /\ kind = [c \in Conns |-> "none"]
  /\ registry = [c \in Conns |-> NoRegistry]
  /\ tools = 0
  /\ toolList = [c \in Conns |-> 0]
  /\ pending = {} /\ requested = {}
  /\ replies = [r \in Requests |-> "none"]
  /\ answers = {}
  /\ asked = [a \in Asks |-> "unasked"]
  /\ toolCallers = [t \in Calls |-> NoConn]
  /\ called = [t \in Calls |-> NoConn]
  /\ calledIn = [t \in Calls |-> 0]
  /\ owed = {}
  /\ wentTo = [t \in Calls |-> "nobody"]
  /\ restarts = 0

-----------------------------------------------------------------------------
(* Who is attached.                                                        *)

Live(k) == {c \in members : kind[c] = k}

(* providerConnection: a real chat outranks the test double.               *)
Answerers == IF Live("browser") # {} THEN Live("browser") ELSE Live("provider")

Snapshot ==
  [editor   |-> Live("editor") # {},
   provider |-> Live("provider") \cup Live("browser") # {},
   browser  |-> Live("browser") # {}]

(* Messages of this connection are still read.  route() asks no more of it *)
(* than that it once authenticated, and of some messages that it did so as *)
(* the editor; kinds are those whose adapters send the message at all.     *)
Heard(c) == socket[c] \in {"open", "closing"}
Speaks(c, kinds) == Heard(c) /\ kind[c] \in kinds

(* An adapter knows nothing any more once its socket closes.               *)
Told(know, new, nothing) ==
  [c \in Conns |->
     IF socket'[c] # "open" THEN nothing
     ELSE IF c \in members' /\ kind'[c] # "none" THEN new
     ELSE know[c]]
Untold(know, nothing) == [c \in Conns |-> IF socket'[c] = "open" THEN know[c] ELSE nothing]

broadcastRegistry == registry' = Told(registry, Snapshot', NoRegistry)

(* drop: the others are told, when an adapter and not a stranger left.     *)
drop(c) ==
  /\ members' = members \ {c}
  /\ handshake' = handshake \ {c}
  /\ toolList' = Untold(toolList, 0)
  /\ IF c \in members /\ kind[c] # "none"
     THEN broadcastRegistry
     ELSE registry' = Untold(registry, NoRegistry)

Keep == UNCHANGED <<tools, requests, questions, calls, restarts>>

-----------------------------------------------------------------------------
(* Connections come and go.                                                *)

accept(c) ==
  /\ socket[c] = "none"
  /\ socket' = [socket EXCEPT ![c] = "open"]
  /\ members' = members \cup {c}
  /\ handshake' = handshake \cup {c}
  /\ UNCHANGED <<kind, registry, toolList>>
  /\ Keep

(* authenticate: c joins as kind k, and replaces the adapters in old.  A   *)
(* connection already dropped is not put back.                             *)
Attach(c, k, old) ==
  /\ socket' = [d \in Conns |->
       IF d \notin old THEN socket[d]
       ELSE IF socket[d] = "open" THEN "closing" ELSE "leaving"]
  /\ members' = members \ old
  /\ kind' = [kind EXCEPT ![c] = k]
  /\ handshake' = handshake \ {c}
  /\ toolList' = [Untold(toolList, 0) EXCEPT ![c] =
       IF k # "editor" /\ socket'[c] = "open" THEN tools ELSE @]
  /\ broadcastRegistry
  /\ Keep

(* Faulty: nobody is ever replaced.                                        *)
HelloBeside(c, k) == Heard(c) /\ kind[c] = "none" /\ Attach(c, k, {})

(* A good adapter.hello.  It is an adapter's first message, so only the    *)
(* handshake timeout can have closed the socket it arrives on.             *)
Hello(c, k) ==
  /\ Heard(c) /\ kind[c] = "none"
  /\ \/ k \in Exclusive /\ \E old \in Live(k) : Attach(c, k, {old})
     \/ (k = "mcp" \/ Live(k) = {}) /\ Attach(c, k, {})

(* reject: the peer gave a wrong token or version, and says no more.       *)
HelloRefused(c) ==
  /\ Heard(c) /\ kind[c] = "none"
  /\ socket' = [socket EXCEPT ![c] = "leaving"]
  /\ drop(c)
  /\ UNCHANGED kind /\ Keep

(* No hello within the handshake window: one may still be on its way.      *)
HandshakeExpires(c) ==
  /\ c \in handshake
  /\ socket' = [socket EXCEPT ![c] = IF @ = "open" THEN "closing" ELSE "leaving"]
  /\ drop(c)
  /\ UNCHANGED kind /\ Keep

(* The peer starts to close, and nothing can be sent to it any more.       *)
PeerLeaves(c) ==
  /\ socket[c] \in {"open", "closing"}
  /\ socket' = [socket EXCEPT ![c] = "leaving"]
  /\ registry' = Untold(registry, NoRegistry)
  /\ toolList' = Untold(toolList, 0)
  /\ UNCHANGED <<members, kind, handshake>>
  /\ Keep

(* The peer is gone without closing: asleep, killed, unplugged.            *)
GoesSilent(c) ==
  /\ socket[c] = "open"
  /\ socket' = [socket EXCEPT ![c] = "silent"]
  /\ registry' = Untold(registry, NoRegistry)
  /\ toolList' = Untold(toolList, 0)
  /\ UNCHANGED <<members, kind, handshake>>
  /\ Keep

(* The socket's "close", after either side closed it or it broke.  What is *)
(* left of the connection is garbage: its kind is forgotten.               *)
Closed(c) ==
  /\ socket[c] \in {"open", "closing", "leaving"}
  /\ socket' = [socket EXCEPT ![c] = "closed"]
  /\ kind' = [kind EXCEPT ![c] = "none"]
  /\ drop(c)
  /\ Keep

(* sweep terminates a member that stopped answering.                       *)
Swept(c) ==
  /\ c \in members
  /\ socket[c] \in {"silent", "leaving"}
  /\ socket' = [socket EXCEPT ![c] = "closed"]
  /\ kind' = [kind EXCEPT ![c] = "none"]
  /\ drop(c)
  /\ Keep

(* The relay process is restarted: everything it held in memory is gone.   *)
Restart ==
  /\ restarts < MaxRestarts
  /\ restarts' = restarts + 1
  /\ socket' = [c \in Conns |-> IF socket[c] = "none" THEN "none" ELSE "closed"]
  /\ members' = {} /\ handshake' = {}
  /\ kind' = [c \in Conns |-> "none"]
  /\ registry' = [c \in Conns |-> NoRegistry]
  /\ toolList' = [c \in Conns |-> 0]
  /\ tools' = 0
  /\ pending' = {}
  /\ answers' = {}
  /\ asked' = [a \in Asks |-> IF asked[a] = "waiting" THEN "cut off" ELSE asked[a]]
  /\ toolCallers' = [t \in Calls |-> NoConn]
  /\ UNCHANGED <<requested, replies, called, calledIn, owed, wentTo>>

-----------------------------------------------------------------------------
(* Editor requests and the replies to them.                                *)

EditorRequest(c, r) ==
  /\ Speaks(c, {"editor"})
  /\ r \notin requested
  /\ requested' = requested \cup {r}
  /\ pending' = IF Answerers = {} THEN pending ELSE pending \cup {r}
  /\ UNCHANGED <<attachment, tools, replies, questions, calls, restarts>>

(* What has been forwarded to an editor, a reply more.                     *)
Progress(sofar, partial) ==
  IF sofar \in {"final", "more"} THEN "more"
  ELSE IF partial THEN "partial" ELSE "final"

(* Faulty: the correlation outlives its final reply.                       *)
ResponseKeepsPending(c, r, partial) ==
  /\ Speaks(c, Chats)
  /\ r \in pending
  /\ replies' = IF \E e \in Live("editor") : socket[e] = "open"
                THEN [replies EXCEPT ![r] = Progress(@, partial)]
                ELSE replies
  /\ UNCHANGED <<attachment, tools, pending, requested, questions, calls, restarts>>

(* A coach.response that correlates: it goes to whoever is the editor now, *)
(* and is lost when there is none.  Only a terminal one closes the entry.  *)
Response(c, r, partial) ==
  /\ Speaks(c, Chats)
  /\ r \in pending
  /\ pending' = IF partial THEN pending ELSE pending \ {r}
  /\ replies' = IF \E e \in Live("editor") : socket[e] = "open"
                THEN [replies EXCEPT ![r] = Progress(@, partial)]
                ELSE replies
  /\ UNCHANGED <<attachment, tools, requested, questions, calls, restarts>>

-----------------------------------------------------------------------------
(* A harness asks over HTTP and is made to wait.                           *)

Ask(a) ==
  /\ asked[a] = "unasked"
  /\ IF Answerers = {}
     THEN asked' = [asked EXCEPT ![a] = "refused"] /\ UNCHANGED answers
     ELSE asked' = [asked EXCEPT ![a] = "waiting"] /\ answers' = answers \cup {a}
  /\ UNCHANGED <<attachment, tools, requests, calls, restarts>>

(* Faulty: the waiter stays in the map.                                    *)
SettleLeaks(a, outcome) ==
  /\ a \in answers
  /\ answers' = answers
  /\ asked' = [asked EXCEPT ![a] = outcome]
  /\ UNCHANGED <<attachment, tools, requests, calls, restarts>>

(* The waiter and the timer both take themselves out of the map.           *)
Settle(a, outcome) ==
  /\ a \in answers
  /\ answers' = answers \ {a}
  /\ asked' = [asked EXCEPT ![a] = outcome]
  /\ UNCHANGED <<attachment, tools, requests, calls, restarts>>

(* The final response, or a provider.error, that names the question.  A    *)
(* partial response is skipped.                                            *)
AskAnswered(c, a) == Speaks(c, Chats) /\ Settle(a, "answered")
AskFailed(c, a)   == Speaks(c, Chats) /\ Settle(a, "failed")

(* Faulty: a question is given up only while a chat is connected.          *)
AskExpiresIfChat(a) == Answerers # {} /\ Settle(a, "timed out")

AskExpires(a) == Settle(a, "timed out")

-----------------------------------------------------------------------------
(* Tool calls and their results.                                           *)

(* The caller is remembered, whether the call reaches the editor or not.   *)
ToolCall(c, t) ==
  /\ Speaks(c, Chats \cup {"mcp"})
  /\ called[t] = NoConn
  /\ called' = [called EXCEPT ![t] = c]
  /\ calledIn' = [calledIn EXCEPT ![t] = restarts]
  /\ IF Live("editor") = {}
     THEN /\ wentTo' = [wentTo EXCEPT ![t] = IF socket[c] = "open" THEN "caller" ELSE @]
          /\ UNCHANGED <<toolCallers, owed>>
     ELSE /\ toolCallers' = [toolCallers EXCEPT ![t] = c]
          /\ owed' = IF \E e \in Live("editor") : socket[e] = "open"
                     THEN owed \cup {t} ELSE owed
          /\ UNCHANGED wentTo
  /\ UNCHANGED <<attachment, tools, requests, questions, restarts>>

(* Faulty: results go to whoever answers requests, as with one provider.   *)
ResultTargetsAnswerer(t) == Answerers

(* The remembered caller if it is still attached; when the call is not     *)
(* known, whoever answers requests.                                        *)
ResultTargets(t) ==
  IF toolCallers[t] # NoConn THEN {toolCallers[t]} \cap members ELSE Answerers

(* An editor answers each call it received once, on whatever connection it *)
(* has by then.                                                            *)
ToolResult(c, t) ==
  /\ Speaks(c, {"editor"})
  /\ t \in owed
  /\ owed' = owed \ {t}
  /\ toolCallers' = [toolCallers EXCEPT ![t] = NoConn]
  /\ LET reached == {d \in ResultTargets(t) : socket[d] = "open"}
     IN wentTo' = [wentTo EXCEPT ![t] = IF reached = {} THEN @
                                        ELSE IF reached = {called[t]} THEN "caller"
                                        ELSE "other"]
  /\ UNCHANGED <<attachment, tools, requests, questions, called, calledIn, restarts>>

(* Faulty: only kept for those who join later.                             *)
ToolsKept(c) ==
  /\ Speaks(c, {"editor"})
  /\ tools < MaxTools
  /\ tools' = tools + 1
  /\ UNCHANGED <<attachment, requests, questions, calls, restarts>>

(* tools.available: kept for later joiners, and sent to everyone else.     *)
ToolsAvailable(c) ==
  /\ Speaks(c, {"editor"})
  /\ tools < MaxTools
  /\ tools' = tools + 1
  /\ toolList' = [d \in Conns |->
       IF d \in members /\ kind[d] \notin {"none", "editor"} /\ socket[d] = "open"
       THEN tools + 1 ELSE toolList[d]]
  /\ UNCHANGED <<socket, members, kind, handshake, registry, requests, questions,
                 calls, restarts>>

-----------------------------------------------------------------------------
Connecting ==
  \E c \in Conns :
    \/ accept(c)
    \/ \E k \in AdapterKinds : Hello(c, k)
    \/ HelloRefused(c)
    \/ HandshakeExpires(c)
    \/ PeerLeaves(c)
    \/ GoesSilent(c)
    \/ Closed(c)
    \/ Swept(c)

Routing ==
  \E c \in Conns :
    \/ \E r \in Requests : EditorRequest(c, r)
    \/ \E r \in Requests, partial \in BOOLEAN : Response(c, r, partial)
    \/ \E a \in Asks : AskAnswered(c, a) \/ AskFailed(c, a)
    \/ \E t \in Calls : ToolCall(c, t) \/ ToolResult(c, t)
    \/ ToolsAvailable(c)

Next ==
  \/ Connecting
  \/ Routing
  \/ \E a \in Asks : Ask(a) \/ AskExpires(a)
  \/ Restart

(* The relay's timers fire, its sweep runs, and a closing socket closes    *)
(* (the WebSocket library destroys one whose peer does not answer).        *)
Fairness ==
  /\ \A c \in Conns :
       /\ WF_vars(HandshakeExpires(c))
       /\ WF_vars(Swept(c))
       /\ WF_vars(socket[c] \in {"closing", "leaving"} /\ Closed(c))
  /\ \A a \in Asks : WF_vars(AskExpires(a))

Spec == Init /\ [][Next]_vars
FairSpec == Spec /\ Fairness

-----------------------------------------------------------------------------
(* What the relay promises.                                                *)

(* At most one adapter of each exclusive kind is routed to, however hellos,*)
(* closes, sweeps and replacements interleave (authenticate).              *)
OneOfEachKind == \A k \in Exclusive : \A c, d \in Live(k) : c = d

(* Every attached adapter that can be told knows which kinds are attached, *)
(* and all but the editor hold the tool list published last, whenever they *)
(* joined and whoever left meanwhile (authenticate, drop, tools.available).*)
EveryoneIsTold ==
  \A c \in members : kind[c] # "none" /\ socket[c] = "open" =>
    registry[c] = Snapshot /\ (kind[c] # "editor" => toolList[c] = tools)

(* Nothing about a request is forwarded after its final reply, whichever   *)
(* providers answered it and however often (coach.response).               *)
FinalIsLast == \A r \in Requests : replies[r] # "more"

(* A tool result goes to the connection that called, or is lost; only a    *)
(* call the relay has forgotten by being restarted is given to another.    *)
ResultsGoHome == \A t \in Calls : wentTo[t] = "other" => calledIn[t] # restarts

(* The map of waiters holds exactly the questions still unanswered: none   *)
(* is forgotten, and none is left behind to swallow a later message (ask). *)
WaitersWait == answers = {a \in Asks : asked[a] = "waiting"}

(* A connection that never says hello, and one whose peer is gone without  *)
(* closing it, stops looking connected (handshakeTimer, sweep).            *)
GoneOnesLeave == \A c \in Conns :
  LET idle == c \in members /\ (kind[c] = "none" \/ socket[c] = "silent")
  IN  idle ~> ~idle

(* Every harness gets an answer, an error or a timeout.                    *)
AsksEnd == \A a \in Asks : (asked[a] = "waiting") ~> (asked[a] # "waiting")

(* Nobody waits for ever: neither who should leave nor who asked.          *)
WaitsEnd == GoneOnesLeave /\ AsksEnd

=============================================================================
