---------------------------- MODULE BrowserTurns ----------------------------
(***************************************************************************)
(* Turns in the browser's service worker (background.ts): a request waits  *)
(* for its tab, is typed into the chat, the reply is observed, the tools   *)
(* it asks for are called through the editor, and their results are typed  *)
(* into the same chat, until the chat answers.                             *)
(*                                                                         *)
(* The worker is single threaded; what it asks of a page (askTab) and what *)
(* the editor sends come back as later events.  Requests are numbered in   *)
(* the order in which they join the queues of their tabs.                  *)
(***************************************************************************)
EXTENDS Naturals

CONSTANTS
  MaxRequests,  \* requests the relay delivers
  Tabs,         \* paired chat tabs
  NoTab,        \* not a tab
  MaxRounds,    \* tool round trips of one request
  MaxCalls,     \* tool calls in one reply
  MaxRetries,   \* how often askTab repeats a question that failed
  MaxFaults     \* times the socket is lost or the worker is killed

ASSUME TurnsAssumption ==
  /\ NoTab \notin Tabs
  /\ MaxRequests \in Nat /\ MaxRounds \in Nat /\ MaxCalls \in Nat
  /\ MaxRetries \in Nat /\ MaxFaults \in Nat

VARIABLES
  op,        \* how far each request's turn has got
  tab,       \* the tab it was routed to
  chain,     \* what its latest sendToChat waits for
  round,     \* its observation id: how many batches were finished
  tries,     \* askTab's retries of the observation it waits for
  batch,     \* operation.batch: how many calls it expects, 0: undefined
  got,       \* batch.results: the calls of the batch that were answered
  gaveUp,    \* the operation's ceiling fired
  owed,      \* calls <<request, round, number>> the editor has yet to answer
  last,      \* the request whose text was typed last in each tab, 0: none
  watching,  \* the request each page's content script observes for, 0: none
  up,        \* the socket to the relay is open
  told,      \* the last ending the relay got for a request
  shown,     \* the round whose text was last streamed for a request
  missed,    \* requests whose error or final response was sent while the socket was down
  crossed,   \* requests whose reply was read behind another's message
  killed,    \* the worker was killed
  faults     \* sockets lost and workers killed

turn == <<op, tab, chain, round, tries, batch, got, gaveUp>>
page == <<last, watching>>
wire == <<up, owed>>
said == <<told, shown, missed>>
vars == <<turn, page, wire, said, crossed, killed, faults>>

Requests == 1 .. MaxRequests
Rounds   == 0 .. MaxRounds

TypeOK ==
  /\ op \in [Requests -> {"new", "queued", "running", "over", "lost"}]
  /\ tab \in [Requests -> Tabs \cup {NoTab}]
  /\ chain \in [Requests -> {"none", "delivering", "observing"}]
  /\ round \in [Requests -> Rounds]
  /\ tries \in [Requests -> 0 .. MaxRetries]
  /\ batch \in [Requests -> 0 .. MaxCalls]
  /\ got \in [Requests -> SUBSET (1 .. MaxCalls)]
  /\ gaveUp \subseteq Requests
  /\ owed \subseteq Requests \X Rounds \X (1 .. MaxCalls)
  /\ last \in [Tabs -> 0 .. MaxRequests]
  /\ watching \in [Tabs -> 0 .. MaxRequests]
  /\ up \in BOOLEAN /\ killed \in BOOLEAN
  /\ told \in [Requests -> {"nothing", "error", "final", "more"}]
  /\ shown \in [Requests -> Rounds]
  /\ missed \subseteq Requests /\ crossed \subseteq Requests
  /\ faults \in 0 .. MaxFaults

Init ==
  /\ op = [r \in Requests |-> "new"]
  /\ tab = [r \in Requests |-> NoTab]
  /\ chain = [r \in Requests |-> "none"]
  /\ round = [r \in Requests |-> 0]
  /\ tries = [r \in Requests |-> 0]
  /\ batch = [r \in Requests |-> 0]
  /\ got = [r \in Requests |-> {}]
  /\ gaveUp = {}
  /\ last = [t \in Tabs |-> 0] /\ watching = [t \in Tabs |-> 0]
  /\ up = TRUE /\ owed = {}
  /\ told = [r \in Requests |-> "nothing"]
  /\ shown = [r \in Requests |-> 0]
  /\ missed = {} /\ crossed = {}
  /\ killed = FALSE /\ faults = 0

-----------------------------------------------------------------------------
(* send: dropped without a word when the socket is not open.               *)
Tell(r, what) ==
  IF up
  THEN /\ told' = [told EXCEPT ![r] =
            IF @ \in {"final", "more"} THEN "more"
            ELSE IF what = "partial" THEN @ ELSE what]
       /\ UNCHANGED missed
  ELSE missed' = (IF what = "partial" THEN missed ELSE missed \cup {r}) /\ UNCHANGED told

(* queueForTab: a turn starts when the one before it in its tab is over,   *)
(* however that ended.                                                     *)
Turn(r) ==
  \A q \in Requests : q < r /\ tab[q] = tab[r] => op[q] \in {"over", "lost"}

(* sendToChat has returned: a turn without a batch is settled, one that    *)
(* was given up on is settled already.                                     *)
EndOfSend(r) ==
  op' = [op EXCEPT ![r] =
    IF @ = "running" /\ (batch'[r] = 0 \/ r \in gaveUp) THEN "over" ELSE @]

(* finishBatch: what the editor said is typed, as a new observation.       *)
finishBatch(r) ==
  /\ batch' = [batch EXCEPT ![r] = 0]
  /\ got' = [got EXCEPT ![r] = {}]
  /\ round' = [round EXCEPT ![r] = @ + 1]
  /\ chain' = [chain EXCEPT ![r] = "delivering"]
  /\ tries' = [tries EXCEPT ![r] = 0]

-----------------------------------------------------------------------------
(* Requests.                                                               *)

(* handleRequest: routed to a ready chat, or refused.                      *)
Request(r, t) ==
  /\ up
  /\ op[r] = "new" /\ \A q \in Requests : q < r => op[q] # "new"
  /\ tab' = [tab EXCEPT ![r] = t]
  /\ op' = [op EXCEPT ![r] = IF t = NoTab THEN "over" ELSE "queued"]
  /\ IF t = NoTab THEN Tell(r, "error") ELSE UNCHANGED <<told, missed>>
  /\ UNCHANGED <<chain, round, tries, batch, got, gaveUp, page, wire, shown,
                 crossed, killed, faults>>

(* Faulty: nothing waits for the tab.                                      *)
StartAtOnce(r) ==
  /\ op[r] = "queued"
  /\ op' = [op EXCEPT ![r] = "running"]
  /\ chain' = [chain EXCEPT ![r] = "delivering"]
  /\ UNCHANGED <<tab, round, tries, batch, got, gaveUp, page, wire, said, crossed,
                 killed, faults>>

(* Faulty: a turn that failed blocks those behind it.                      *)
StartIfAnswered(r) ==
  /\ op[r] = "queued"
  /\ \A q \in Requests : q < r /\ tab[q] = tab[r] => told[q] = "final"
  /\ op' = [op EXCEPT ![r] = "running"]
  /\ chain' = [chain EXCEPT ![r] = "delivering"]
  /\ UNCHANGED <<tab, round, tries, batch, got, gaveUp, page, wire, said, crossed,
                 killed, faults>>

Start(r) ==
  /\ op[r] = "queued" /\ Turn(r)
  /\ op' = [op EXCEPT ![r] = "running"]
  /\ chain' = [chain EXCEPT ![r] = "delivering"]
  /\ UNCHANGED <<tab, round, tries, batch, got, gaveUp, page, wire, said, crossed,
                 killed, faults>>

(* The page confirms that the text was sent.  Observing for this turn      *)
(* aborts whatever the page was observing for.                             *)
Delivered(r) ==
  /\ chain[r] = "delivering"
  /\ last' = [last EXCEPT ![tab[r]] = r]
  /\ watching' = [watching EXCEPT ![tab[r]] = r]
  /\ chain' = [chain EXCEPT ![r] = "observing"]
  /\ tries' = [tries EXCEPT ![r] = 0]
  /\ UNCHANGED <<op, tab, round, batch, got, gaveUp, wire, said, crossed, killed,
                 faults>>

(* Faulty: the relay is not told.                                          *)
DeliverFailsSilently(r, typed) ==
  /\ chain[r] = "delivering"
  /\ last' = IF typed THEN [last EXCEPT ![tab[r]] = r] ELSE last
  /\ chain' = [chain EXCEPT ![r] = "none"]
  /\ UNCHANGED batch
  /\ EndOfSend(r)
  /\ UNCHANGED <<tab, round, tries, got, gaveUp, watching, wire, said, crossed,
                 killed, faults>>

(* It could not be sent, or was and the page could not tell.               *)
DeliverFails(r, typed) ==
  /\ chain[r] = "delivering"
  /\ last' = IF typed THEN [last EXCEPT ![tab[r]] = r] ELSE last
  /\ chain' = [chain EXCEPT ![r] = "none"]
  /\ Tell(r, "error")
  /\ UNCHANGED batch
  /\ EndOfSend(r)
  /\ UNCHANGED <<tab, round, tries, got, gaveUp, watching, wire, shown, crossed,
                 killed, faults>>

-----------------------------------------------------------------------------
(* Replies.                                                                *)

(* The reply is complete: it is an answer, or it asks for n tools.  It is  *)
(* the last thing in the chat, whoever's message that follows.             *)
Observed(r, n) ==
  /\ chain[r] = "observing" /\ watching[tab[r]] = r
  /\ n > 0 => round[r] < MaxRounds
  /\ chain' = [chain EXCEPT ![r] = "none"]
  /\ watching' = [watching EXCEPT ![tab[r]] = 0]
  /\ crossed' = IF last[tab[r]] = r THEN crossed ELSE crossed \cup {r}
  /\ batch' = [batch EXCEPT ![r] = n]
  /\ owed' = IF up THEN owed \cup {<<r, round[r], i>> : i \in 1 .. n} ELSE owed
  /\ IF n = 0 THEN Tell(r, "final") ELSE UNCHANGED <<told, missed>>
  /\ EndOfSend(r)
  /\ UNCHANGED <<tab, round, tries, got, gaveUp, last, up, shown, killed, faults>>

(* No reply was found in time, the page went away, or it was told to       *)
(* observe for another: askTab asks again, which aborts the other.         *)
AskAgain(r) ==
  /\ chain[r] = "observing"
  /\ tries[r] < MaxRetries
  /\ tries' = [tries EXCEPT ![r] = @ + 1]
  /\ watching' = [watching EXCEPT ![tab[r]] = r]
  /\ UNCHANGED <<op, tab, chain, round, batch, got, gaveUp, last, wire, said, crossed,
                 killed, faults>>

(* The same, for the last time.                                            *)
Unreadable(r) ==
  /\ chain[r] = "observing"
  /\ tries[r] = MaxRetries
  /\ chain' = [chain EXCEPT ![r] = "none"]
  /\ watching' = [t \in Tabs |-> IF watching[t] = r THEN 0 ELSE watching[t]]
  /\ Tell(r, "error")
  /\ UNCHANGED batch
  /\ EndOfSend(r)
  /\ UNCHANGED <<tab, round, tries, got, gaveUp, last, wire, shown, crossed, killed,
                 faults>>

(* A page's progress frame for round n arrives, in time or late.           *)
Framed(r, n) == n < round[r] \/ (n = round[r] /\ chain[r] # "delivering")

(* Faulty: a frame of any of the request's observations will do.           *)
ProgressOfAny(r, n) ==
  /\ op[r] = "running" /\ Framed(r, n)
  /\ shown' = IF up THEN [shown EXCEPT ![r] = n] ELSE shown
  /\ Tell(r, "partial")
  /\ UNCHANGED <<turn, page, wire, crossed, killed, faults>>

(* Faulty: the frame's request need not be in flight.                      *)
ProgressOfOld(r, n) ==
  /\ op[r] \in {"running", "over"} /\ tab[r] # NoTab
  /\ Framed(r, n) /\ n = round[r]
  /\ shown' = IF up THEN [shown EXCEPT ![r] = n] ELSE shown
  /\ Tell(r, "partial")
  /\ UNCHANGED <<turn, page, wire, crossed, killed, faults>>

(* reply-progress: forwarded when its request is in flight and observed    *)
(* under the id the frame names; it comes from the request's own tab.      *)
Progress(r, n) ==
  /\ op[r] = "running" /\ Framed(r, n)
  /\ n = round[r]
  /\ shown' = IF up THEN [shown EXCEPT ![r] = n] ELSE shown
  /\ Tell(r, "partial")
  /\ UNCHANGED <<turn, page, wire, crossed, killed, faults>>

-----------------------------------------------------------------------------
(* Tools.                                                                  *)

(* collectResult: kept when its call is expected by an operation in        *)
(* flight, dropped otherwise.  The last one finishes the batch.            *)
ToolResult(r, n, i) ==
  /\ up
  /\ <<r, n, i>> \in owed
  /\ owed' = owed \ {<<r, n, i>>}
  /\ IF op[r] = "running" /\ batch[r] > 0 /\ n = round[r]
     THEN IF got[r] \cup {i} = 1 .. batch[r]
          THEN finishBatch(r)
          ELSE /\ got' = [got EXCEPT ![r] = @ \cup {i}]
               /\ UNCHANGED <<chain, round, tries, batch>>
     ELSE UNCHANGED <<chain, round, tries, batch, got>>
  /\ UNCHANGED <<op, tab, gaveUp, page, up, said, crossed, killed, faults>>

(* OPERATION_CEILING_MS: the relay is told, and the turn is settled.  It   *)
(* keeps its tab while its first sendToChat has not returned.              *)
Ceiling(r) ==
  /\ op[r] = "running" /\ r \notin gaveUp
  /\ gaveUp' = gaveUp \cup {r}
  /\ Tell(r, "error")
  /\ op' = [op EXCEPT ![r] =
       IF round[r] = 0 /\ chain[r] # "none" THEN "running" ELSE "over"]
  /\ UNCHANGED <<tab, chain, round, tries, batch, got, page, wire, shown, crossed,
                 killed, faults>>

(* BATCH_DEADLINE_MS.  It is longer than the ceiling, and starts later: a  *)
(* batch that gets this far belongs to a turn that was given up on.        *)
BatchDeadline(r) ==
  /\ batch[r] > 0 /\ r \in gaveUp
  /\ finishBatch(r)
  /\ UNCHANGED <<op, tab, gaveUp, page, wire, said, crossed, killed, faults>>

-----------------------------------------------------------------------------
(* Faults.                                                                 *)

(* The socket closes.  The relay gives no result to a caller that left.    *)
SocketLost ==
  /\ up /\ faults < MaxFaults
  /\ up' = FALSE /\ owed' = {}
  /\ faults' = faults + 1
  /\ UNCHANGED <<turn, page, said, crossed, killed>>

Reconnected ==
  /\ ~up /\ up' = TRUE
  /\ UNCHANGED <<turn, page, owed, said, crossed, killed, faults>>

(* The browser kills the worker: every operation, queue and batch is gone, *)
(* and an event or an alarm starts a new one.  The pages stay.             *)
Killed ==
  /\ faults < MaxFaults
  /\ faults' = faults + 1
  /\ killed' = TRUE
  /\ op' = [r \in Requests |-> IF op[r] \in {"queued", "running"} THEN "lost" ELSE op[r]]
  /\ chain' = [r \in Requests |-> "none"]
  /\ tries' = [r \in Requests |-> 0]
  /\ batch' = [r \in Requests |-> 0]
  /\ got' = [r \in Requests |-> {}]
  /\ up' = FALSE /\ owed' = {}
  /\ UNCHANGED <<tab, round, gaveUp, page, said, crossed>>

-----------------------------------------------------------------------------
Turns(r) ==
  \/ \E t \in Tabs \cup {NoTab} : Request(r, t)
  \/ Start(r)
  \/ Delivered(r)
  \/ \E typed \in BOOLEAN : DeliverFails(r, typed)
  \/ \E n \in 0 .. MaxCalls : Observed(r, n)
  \/ AskAgain(r)
  \/ Unreadable(r)
  \/ \E n \in Rounds : Progress(r, n)
  \/ \E n \in Rounds, i \in 1 .. MaxCalls : ToolResult(r, n, i)
  \/ Ceiling(r)
  \/ BatchDeadline(r)

Next == (\E r \in Requests : Turns(r)) \/ SocketLost \/ Reconnected \/ Killed

(* Timers fire, a queued turn starts, and the page answers: delivering and *)
(* observing are bounded in the page (SEND_CONFIRM_MS, maxWaitMs).         *)
Answers(r) ==
  \/ Delivered(r) \/ (\E typed \in BOOLEAN : DeliverFails(r, typed))
  \/ (\E n \in 0 .. MaxCalls : Observed(r, n)) \/ AskAgain(r) \/ Unreadable(r)

Fairness ==
  \A r \in Requests :
    WF_vars(Start(r)) /\ WF_vars(Answers(r)) /\ WF_vars(Ceiling(r)) /\ WF_vars(BatchDeadline(r))

Spec == Init /\ [][Next]_vars
FairSpec == Spec /\ Fairness

-----------------------------------------------------------------------------
(* What the worker promises.                                               *)

(* A reply is read behind its own request's message: turns in one tab do   *)
(* not overlap (tabQueues), except around a turn that was given up on or   *)
(* that a killed worker left behind.                                       *)
CrossedOnlyIfGivenUp == crossed # {} => killed \/ gaveUp # {}

(* What the panel is shown of a reply never goes back to an earlier round: *)
(* a straggling frame is not taken for the current one (observationId).    *)
ShownNeverGoesBack == [][\A r \in Requests : shown'[r] >= shown[r]]_vars

(* Nothing is sent about a request after its final response, whatever      *)
(* frames, timers and results are still on their way (operations.delete).  *)
FinalIsLast == \A r \in Requests : told[r] # "more"

(* No turn ends in silence: the relay got an answer or an error for it,    *)
(* unless the socket was down when the worker said so (sendToChat, send).  *)
NoSilentEnd == \A r \in Requests : op[r] = "over" => told[r] # "nothing" \/ r \in missed

(* Every turn ends, and so every queued one starts, whatever became of the *)
(* turn before it, and its batch ends even when it has been given up on    *)
(* (queueForTab, the ceiling, BATCH_DEADLINE_MS).                          *)
TurnsEnd ==
  \A r \in Requests :
    LET busy == op[r] \in {"queued", "running"} \/ batch[r] > 0
    IN  busy ~> ~busy

-----------------------------------------------------------------------------
(* What the repository says and the code does not do.                      *)

(* "Two requests sharing a tab without this would interleave their typing  *)
(* there": only the turn that holds a tab types in it (tabQueues).         *)
OnlyHolderTypes ==
  \A r, q \in Requests :
    chain[r] = "delivering" /\ op[q] = "running" /\ tab[q] = tab[r] => q = r
=============================================================================
