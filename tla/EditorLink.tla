------------------------------ MODULE EditorLink ------------------------------
(***************************************************************************)
(* The editor's connection to the relay: swapProvider, start and           *)
(* resetSession of CoachController, the commands that call them,           *)
(* RelayCoachProvider.connect and disconnect, and RelayConnection with its *)
(* backoff and heartbeat.  Each call of connect makes a connection of its  *)
(* own, so calls and connections share their numbers.                      *)
(***************************************************************************)
EXTENDS Naturals, FiniteSets

CONSTANTS
  MaxProviders,  \* bound: relay providers built
  MaxConnects,   \* bound: calls of connect
  MaxTries,      \* maxReconnectAttempts
  MaxFlips       \* bound: times the relay goes down or comes back

VARIABLES
  current,  \* CoachController.provider; 0 for one that needs no relay
  built,    \* relay providers so far
  connects, \* calls of connect so far
  owner,    \* the provider each call belongs to
  step,     \* how far the call has got
  held,     \* RelayCoachProvider.connection of each provider, 0 for none
  conn,     \* the state of each connection
  tries,    \* its attempts
  beats,    \* connections whose heartbeat timer runs
  hub,      \* the connection the relay takes for the editor, 0 for none
  relayUp,
  flips,
  hop       \* what the panel says of the relay

linkVars == <<current, built, connects, owner, step, held, conn, tries, beats, hub,
              relayUp, flips, hop>>

Conns     == 1 .. MaxConnects
Providers == 1 .. MaxProviders

LinkTypeOK ==
  /\ current \in 0 .. MaxProviders /\ built \in 0 .. MaxProviders
  /\ connects \in 0 .. MaxConnects
  /\ owner \in [Conns -> 0 .. MaxProviders] /\ held \in [Providers -> 0 .. MaxConnects]
  /\ step \in [Conns -> {"none", "launching", "linking", "done", "failed"}]
  /\ conn \in [Conns -> {"none", "opening", "open", "backoff", "closing", "closed", "gaveup"}]
  /\ tries \in [Conns -> 0 .. MaxTries] /\ beats \subseteq Conns
  /\ hub \in 0 .. MaxConnects /\ relayUp \in BOOLEAN /\ flips \in 0 .. MaxFlips
  /\ hop \in {"connecting", "connected", "disconnected", "error"}

LinkInit ==
  /\ current = 0 /\ built = 0 /\ connects = 0
  /\ owner = [c \in Conns |-> 0] /\ step = [c \in Conns |-> "none"]
  /\ held = [p \in Providers |-> 0]
  /\ conn = [c \in Conns |-> "none"] /\ tries = [c \in Conns |-> 0]
  /\ beats = {} /\ hub = 0 /\ relayUp \in BOOLEAN /\ flips = 0
  /\ hop = "disconnected"

Alive(c) == conn[c] \in {"opening", "open", "backoff"}

(* RelayConnection.close: no reconnection after it.  The relay drops a     *)
(* connection that closes.  A socket on which nothing was heard yet may    *)
(* still hear the answer to its hello.                                     *)
CloseHeld(p) ==
  [c \in Conns |-> IF p = 0 \/ c # held[p] \/ conn[c] = "gaveup" THEN conn[c]
                   ELSE IF conn[c] \in {"opening", "closing"} THEN "closing" ELSE "closed"]
HeldBy(p) == IF p = 0 THEN {} ELSE {held[p]}

-----------------------------------------------------------------------------
(* The controller and the commands.                                        *)

StartsConnect(p) ==
  /\ connects < MaxConnects /\ connects' = connects + 1
  /\ owner' = [owner EXCEPT ![connects + 1] = p]
  /\ step' = [step EXCEPT ![connects + 1] = "launching"]
  /\ hop' = "connecting"

(* disconnect of the provider that was in use.                             *)
Disconnects ==
  /\ conn' = CloseHeld(current) /\ beats' = beats \ HeldBy(current)
  /\ held' = [p \in Providers |-> IF p = current THEN 0 ELSE held[p]]
  /\ hub' = IF hub \in HeldBy(current) THEN 0 ELSE hub

(* startStack, setupBrowser, and activation in relay mode.                 *)
SwapToRelay ==
  /\ built < MaxProviders /\ built' = built + 1
  /\ current' = built + 1
  /\ Disconnects /\ StartsConnect(built + 1)
  /\ UNCHANGED <<tries, relayUp, flips>>

(* stopStack and useClipboard.                                             *)
SwapAway ==
  /\ current # 0 /\ current' = 0
  /\ Disconnects /\ hop' = "disconnected"
  /\ UNCHANGED <<built, connects, owner, step, tries, relayUp, flips>>

(* resetSession: the provider in use connects again.                       *)
ResetSession ==
  /\ current # 0 /\ StartsConnect(current)
  /\ UNCHANGED <<current, built, held, conn, tries, beats, hub, relayUp, flips>>

-----------------------------------------------------------------------------
(* RelayCoachProvider.connect, once ensureRunning has returned or thrown.  *)

(* Faulty: the connection of an earlier call is left open.                 *)
LeavesOpen(p) == conn

ClosesFirst(p) == CloseHeld(p)

Launched(c) ==
  /\ step[c] = "launching" /\ step' = [step EXCEPT ![c] = "linking"]
  /\ LET p == owner[c] IN
       /\ conn' = [ClosesFirst(p) EXCEPT ![c] = "opening"]
       /\ beats' = beats \ {held[p]}
       /\ held' = [held EXCEPT ![p] = c]
       /\ hub' = IF hub = held[p] THEN 0 ELSE hub
  /\ hop' = "connecting"
  /\ UNCHANGED <<current, built, connects, owner, tries, relayUp, flips>>

LaunchFails(c) ==
  /\ step[c] = "launching" /\ step' = [step EXCEPT ![c] = "failed"]
  /\ UNCHANGED <<current, built, connects, owner, held, conn, tries, beats, hub, relayUp,
                 flips, hop>>

-----------------------------------------------------------------------------
(* RelayConnection.                                                        *)

BeatsAgain(c) == beats \cup {c}

(* adapter.welcome: the relay closes the connection it had for the editor. *)
Welcome(c) ==
  /\ relayUp /\ conn[c] = "opening"
  /\ conn' = [conn EXCEPT ![c] = "open"]
  /\ tries' = [tries EXCEPT ![c] = 0]
  /\ beats' = BeatsAgain(c)
  /\ step' = [step EXCEPT ![c] = IF @ = "linking" THEN "done" ELSE @]
  /\ hub' = c /\ hop' = "connected"
  /\ UNCHANGED <<current, built, connects, owner, held, relayUp, flips>>

(* adapter.rejected, for a token or a protocol that does not fit: final.   *)
Rejected(c) ==
  /\ relayUp /\ conn[c] = "opening"
  /\ conn' = [conn EXCEPT ![c] = "gaveup"]
  /\ step' = [step EXCEPT ![c] = IF @ = "linking" THEN "failed" ELSE @]
  /\ hop' = "error"
  /\ UNCHANGED <<current, built, connects, owner, held, tries, beats, hub, relayUp, flips>>

(* The answer to a hello is heard on a socket that close was called on     *)
(* already.  The heartbeat it starts has no socket to end.                 *)
AnsweredLate(c) ==
  /\ relayUp /\ conn[c] = "closing" /\ conn' = [conn EXCEPT ![c] = "closed"]
  /\ \/ hop' = "connected" /\ hub' \in {hub, 0}
     \/ hop' = "error" /\ UNCHANGED hub
  /\ step' = [step EXCEPT ![c] = IF @ # "linking" THEN @
                                  ELSE IF hop' = "connected" THEN "done" ELSE "failed"]
  /\ UNCHANGED <<current, built, connects, owner, held, tries, beats, relayUp, flips>>

(* scheduleReconnect.                                                      *)
Ends(c) ==
  /\ beats' = beats \ {c}
  /\ IF tries[c] < MaxTries
     THEN /\ conn' = [conn EXCEPT ![c] = "backoff"]
          /\ tries' = [tries EXCEPT ![c] = @ + 1]
          /\ hop' = "disconnected"
          /\ UNCHANGED step
     ELSE /\ conn' = [conn EXCEPT ![c] = "gaveup"]
          /\ step' = [step EXCEPT ![c] = IF @ = "linking" THEN "failed" ELSE @]
          /\ hop' = "error"
          /\ UNCHANGED tries
  /\ hub' = IF hub = c THEN 0 ELSE hub
  /\ UNCHANGED <<current, built, connects, owner, held, relayUp, flips>>

(* The socket closes: the relay refuses or drops it, or is gone.           *)
SocketCloses(c) ==
  /\ \/ conn[c] = "opening"
     \/ conn[c] = "open" /\ (~relayUp \/ hub # c)
  /\ Ends(c)

(* The heartbeat finds the socket silent: the relay went away without a    *)
(* word.                                                                   *)
HeartbeatStale(c) ==
  /\ conn[c] = "open" /\ c \in beats /\ ~relayUp
  /\ Ends(c)

Reconnects(c) ==
  /\ conn[c] = "backoff" /\ conn' = [conn EXCEPT ![c] = "opening"]
  /\ hop' = "connecting"
  /\ UNCHANGED <<current, built, connects, owner, step, held, tries, beats, hub, relayUp,
                 flips>>

RelayFlips ==
  /\ flips < MaxFlips /\ flips' = flips + 1
  /\ relayUp' = ~relayUp /\ hub' = 0
  /\ UNCHANGED <<current, built, connects, owner, step, held, conn, tries, beats, hop>>

LinkNext ==
  \/ SwapToRelay \/ SwapAway \/ ResetSession \/ RelayFlips
  \/ \E c \in Conns : \/ Launched(c) \/ LaunchFails(c) \/ Welcome(c) \/ Rejected(c)
                      \/ AnsweredLate(c) \/ SocketCloses(c) \/ HeartbeatStale(c) \/ Reconnects(c)

(* The timers of a connection fire.                                        *)
LinkFairness ==
  \A c \in Conns : WF_linkVars(HeartbeatStale(c)) /\ WF_linkVars(Reconnects(c))

LinkSpec == LinkInit /\ [][LinkNext]_linkVars
FairLinkSpec == LinkSpec /\ LinkFairness

-----------------------------------------------------------------------------
(* A provider keeps the connection it last made and no other, however      *)
(* calls of connect overlap: an older one is closed for good.              *)
OnlyHeldConnections == \A c \in Conns : Alive(c) => held[owner[c]] = c

(* The panel does not go on saying the relay is connected when it is gone  *)
(* ("the case that otherwise leaves a green dot next to a dead             *)
(* connection").                                                           *)
DotGoesOut == ~relayUp /\ hop = "connected" ~> relayUp \/ hop # "connected"

(* What holds of it: the connection the provider in use holds is noticed   *)
(* to be dead.  A connection closed before its answer was heard may say it *)
(* is connected, and nothing takes that back.                              *)
Holds(c) == current # 0 /\ c = held[current] /\ conn[c] = "open"
DeadLinkNoticed ==
  ~relayUp /\ hop = "connected" /\ (\E c \in Conns : Holds(c)) ~> relayUp \/ hop # "connected"
=============================================================================
