--------------------------- MODULE CoachController ---------------------------
(***************************************************************************)
(* The editor's request lifecycle: CoachController.ts, with the parts of   *)
(* SessionStore, ExtensionState and ToolRegistry it drives.                *)
(*                                                                         *)
(* The extension host is single threaded, so an action is what one event   *)
(* (a command, a timer, an inbound message, a settled promise) runs until  *)
(* its first await that really waits.  Two providers differ in that: the   *)
(* relay's sendRequest and sendToolResult settle within the event that     *)
(* called them, the clipboard's wait for the clipboard.                    *)
(***************************************************************************)
EXTENDS Naturals

CONSTANTS
  MaxSends,     \* requests the user sends; a request's id is its number
  MaxSessions,  \* conversations opened with "new session"
  MaxCalls,     \* tool calls the far side makes
  MaxPartials   \* partial replies the far side streams

ASSUME BoundsAssumption ==
  /\ MaxSends \in Nat \ {0}
  /\ MaxSessions \in Nat \ {0}
  /\ MaxCalls \in Nat
  /\ MaxPartials \in Nat

VARIABLES
  pending,     \* pendingRequestId, None when undefined
  timer,       \* the request timeoutHandle is armed for, None when undefined
  paused,      \* timeoutPaused
  settling,    \* settleHandle is armed
  abortCtl,    \* the request abortController was made for, None when undefined
  aborted,     \* the requests whose AbortController was aborted
  reqState,    \* ExtensionState's request state, what the panel shows
  session,     \* the current session (SessionStore.session)
  active,      \* its activeRequestId, None when deleted
  transcript,  \* transcript[s][r]: the coach message of request r in session s
  sends,       \* how many requests were sent; Sent is their ids
  home,        \* the session each request was sent in, None before it is sent
  ended,       \* why each request ended, NotEnded while it has not
  kind,        \* the transport in use
  sending,     \* requests whose provider.sendRequest is still awaited
  partials,    \* partial replies received so far
  jobs         \* one record per tool call: how far handleToolCall has got

controller == <<pending, timer, paused, settling, abortCtl, aborted>>
store      == <<session, transcript, sends, home>>
vars       == <<controller, reqState, store, active, ended, kind, sending,
                partials, jobs>>

None     == 0
Requests == 1 .. MaxSends
Sessions == 1 .. MaxSessions
Calls    == 1 .. MaxCalls
Sent     == 1 .. sends

(* The terminal states finish() is called with, and the others the         *)
(* controller leaves behind when an event is over.                         *)
Terminal == {"DELIVERED", "FAILED", "CANCELLED", "TIMED_OUT"}
Working  == {"SENDING", "PROVIDER_PROCESSING", "TOOL_RUNNING",
             "TOOL_RESULT_SENT", "RESPONSE_RECEIVED"}
RequestStates == {"IDLE"} \cup Terminal \cup Working

Kinds == {"relay", "clipboard"}

(* Why a request ended, and the request the cause is about (None: the      *)
(* transport as a whole).                                                  *)
Reasons == {"answered", "incomplete", "cancelled", "timed out",
            "provider error", "send undelivered", "result undelivered"}
Causes  == [why : Reasons, by : Requests \cup {None}]
NotEnded == [why |-> "not ended", by |-> None]

Phases == {"idle", "asking", "running", "returning", "done", "lost"}
JobSet == [phase : Phases, request : Requests \cup {None},
           ctl : Requests \cup {None}]
NewJob  == [phase |-> "idle", request |-> None, ctl |-> None]
DoneJob == [NewJob EXCEPT !.phase = "done"]
LostJob == [NewJob EXCEPT !.phase = "lost"]
Asking == {c \in Calls : jobs[c].phase = "asking"}

TypeOK ==
  /\ pending \in Requests \cup {None}
  /\ timer \in Requests \cup {None}
  /\ paused \in BOOLEAN
  /\ settling \in BOOLEAN
  /\ abortCtl \in Requests \cup {None}
  /\ aborted \subseteq Requests
  /\ reqState \in RequestStates
  /\ session \in Sessions
  /\ active \in Requests \cup {None}
  /\ transcript \in [Sessions -> [Requests -> {"none", "partial", "final"}]]
  /\ sends \in 0 .. MaxSends
  /\ home \in [Requests -> Sessions \cup {None}]
  /\ ended \in [Requests -> Causes \cup {NotEnded}]
  /\ kind \in Kinds
  /\ sending \subseteq Requests
  /\ partials \in 0 .. MaxPartials
  /\ jobs \in [Calls -> JobSet]

Init ==
  /\ pending = None /\ timer = None /\ abortCtl = None /\ active = None
  /\ paused = FALSE /\ settling = FALSE
  /\ aborted = {} /\ sending = {}
  /\ reqState = "IDLE"
  /\ session = 1
  /\ sends = 0
  /\ transcript = [s \in Sessions |-> [r \in Requests |-> "none"]]
  /\ home = [r \in Requests |-> None]
  /\ ended = [r \in Requests |-> NotEnded]
  /\ kind \in Kinds
  /\ partials = 0
  /\ jobs = [c \in Calls |-> NewJob]

-----------------------------------------------------------------------------
(* Helpers that several handlers call.                                     *)

(* armTimeout: any earlier timer, and the settle timer, are cleared.       *)
ArmTimeout(r) == timer' = r /\ settling' = FALSE

(* Faulty: a closing prompt forgets to restart the clock.                  *)
NoRearm == UNCHANGED <<timer, settling>>

(* handleToolCall and resumeTimeout re-arm for whatever is pending now.    *)
RearmIfPending ==
  IF pending # None THEN ArmTimeout(pending) ELSE UNCHANGED <<timer, settling>>

(* finish(): whatever request is pending now is the one that ends.         *)
Finish(final, why, by) ==
  /\ timer' = None
  /\ settling' = TRUE
  /\ abortCtl' = None
  /\ pending' = None
  /\ active' = None
  /\ reqState' = final
  /\ ended' = [r \in Requests |->
                 IF r = pending THEN [why |-> why, by |-> by] ELSE ended[r]]

KeepRequest == UNCHANGED <<pending, active, abortCtl, ended>>

-----------------------------------------------------------------------------
(* The user: send, cancel, new session, another transport, reload.         *)

(* send() up to provider.sendRequest: the fields every outcome shares.     *)
StartRequest(r) ==
  /\ pending = None
  /\ sends < MaxSends
  /\ r = sends + 1
  /\ sends' = r
  /\ home' = [home EXCEPT ![r] = session]
  /\ UNCHANGED <<paused, aborted, session, transcript, kind, partials, jobs>>

(* Faulty: the clock is not started with the request.                      *)
AwaitNoClock(r) ==
  pending' = r /\ abortCtl' = r /\ active' = r /\ UNCHANGED <<timer, settling>>

(* ... and the fields it sets while it waits for the answer.               *)
Await(r) == pending' = r /\ abortCtl' = r /\ active' = r /\ ArmTimeout(r)

(* The relay provider: sendRequest has settled before anything else runs,  *)
(* and when it threw, finish() has undone what send() set.                 *)
SendOverRelay(r) ==
  /\ kind = "relay"
  /\ StartRequest(r)
  /\ \/ Await(r) /\ reqState' = "PROVIDER_PROCESSING" /\ UNCHANGED ended
     \/ /\ pending' = None /\ abortCtl' = None /\ active' = None
        /\ timer' = None /\ settling' = TRUE
        /\ reqState' = "FAILED"
        /\ ended' = [ended EXCEPT ![r] = [why |-> "send undelivered", by |-> r]]
  /\ UNCHANGED sending

(* The clipboard provider: the write is awaited.                           *)
SendOverClipboard(r) ==
  /\ kind = "clipboard"
  /\ StartRequest(r)
  /\ Await(r)
  /\ reqState' = "SENDING"
  /\ sending' = sending \cup {r}
  /\ UNCHANGED ended

(* The awaited sendRequest resolves, or throws, whatever happened since.   *)
SendSettled(r) ==
  /\ r \in sending
  /\ sending' = sending \ {r}
  /\ \/ /\ reqState' = "PROVIDER_PROCESSING"
        /\ KeepRequest
        /\ UNCHANGED <<timer, settling>>
     \/ Finish("FAILED", "send undelivered", r)
  /\ UNCHANGED <<paused, aborted, store, kind, partials, jobs>>

(* Faulty: finish() drops the controller before anything aborted it.       *)
CancelWithoutAbort ==
  /\ pending # None
  /\ Finish("CANCELLED", "cancelled", pending)
  /\ UNCHANGED <<aborted, paused, store, kind, sending, partials, jobs>>

(* cancel(): no provider awaits anything in cancelRequest, so the notice   *)
(* and finish() follow in the same event.                                  *)
Cancel ==
  /\ pending # None
  /\ aborted' = IF abortCtl = None THEN aborted ELSE aborted \cup {abortCtl}
  /\ Finish("CANCELLED", "cancelled", pending)
  /\ UNCHANGED <<paused, store, kind, sending, partials, jobs>>

(* Faulty: the abandoned request is still the pending one.                 *)
ResetKeepsId ==
  /\ session < MaxSessions
  /\ timer' = None /\ settling' = FALSE
  /\ reqState' = "IDLE"
  /\ session' = session + 1
  /\ active' = None
  /\ UNCHANGED <<pending, paused, abortCtl, aborted, transcript, sends, home,
                 ended, kind, sending, partials, jobs>>

(* resetSession(): the running tool and its AbortController are left be.   *)
ResetSession ==
  /\ session < MaxSessions
  /\ timer' = None /\ settling' = FALSE
  /\ pending' = None
  /\ reqState' = "IDLE"
  /\ session' = session + 1
  /\ active' = None
  /\ UNCHANGED <<paused, abortCtl, aborted, transcript, sends, home, ended, kind,
                 sending, partials, jobs>>

(* swapProvider(): the old transport's listeners are disposed with it.     *)
SwapProvider(next) ==
  /\ timer' = None /\ settling' = FALSE
  /\ pending' = None
  /\ active' = None
  /\ reqState' = "IDLE"
  /\ kind' = next
  /\ UNCHANGED <<paused, abortCtl, aborted, store, ended, sending, partials, jobs>>

(* The window reloads: a new controller, and the session as it was stored. *)
Reload(next) ==
  /\ pending' = None /\ timer' = None /\ abortCtl' = None
  /\ paused' = FALSE /\ settling' = FALSE
  /\ reqState' = "IDLE"
  /\ kind' = next
  /\ sending' = {}
  /\ jobs' = [c \in Calls |-> IF jobs[c].phase \in {"idle", "done"} THEN jobs[c]
                              ELSE LostJob]
  /\ UNCHANGED <<aborted, store, active, ended, partials>>

-----------------------------------------------------------------------------
(* The far side: replies, errors, tool calls.  It may name any request it  *)
(* was ever sent, as late as it likes.                                     *)

Shows(r, text) == transcript' = [transcript EXCEPT ![session][r] = text]

(* Faulty: any reply is taken while something is pending.                  *)
CorrelatesLoosely(r) == pending # None

(* handleResponse's correlation check.                                     *)
Correlates(r) == pending # None /\ r = pending

PartialReply(r) ==
  /\ kind = "relay"
  /\ partials < MaxPartials
  /\ r \in Sent
  /\ Correlates(r)
  /\ partials' = partials + 1
  /\ reqState' = "RESPONSE_RECEIVED"
  /\ Shows(r, "partial") \/ UNCHANGED transcript      \* a reply with no text yet
  /\ ArmTimeout(r)
  /\ KeepRequest
  /\ UNCHANGED <<paused, aborted, session, sends, home, kind, sending, jobs>>

UnfinishedReply(r, final) ==
  /\ kind = "relay"
  /\ r \in Sent
  /\ Correlates(r)
  /\ Finish(final, "incomplete", r)
  /\ UNCHANGED <<paused, aborted, store, kind, sending, partials, jobs>>

CompleteReply(r) ==
  /\ r \in Sent
  /\ Correlates(r)
  /\ Shows(r, "final")
  /\ Finish("DELIVERED", "answered", r)
  /\ UNCHANGED <<paused, aborted, session, sends, home, kind, sending, partials, jobs>>

(* Faulty: an error about any request fails the one in flight.             *)
ProviderErrorLoose(r) ==
  /\ kind = "relay"
  /\ r \in Sent \cup {None}
  /\ Finish("FAILED", "provider error", r)
  /\ UNCHANGED <<paused, aborted, store, kind, sending, partials, jobs>>

(* provider.error, about one request or (None) about the whole transport.  *)
ProviderError(r) ==
  /\ kind = "relay"
  /\ r \in Sent \cup {None}
  /\ r = None \/ Correlates(r)
  /\ Finish("FAILED", "provider error", r)
  /\ UNCHANGED <<paused, aborted, store, kind, sending, partials, jobs>>

(* rejectToolCall: r is the call's requestId (None: it has none).          *)
Rejected(r, s) ==
  \/ pending = None
  \/ r # None /\ r # pending
  \/ s # session

(* Calls are told apart by number, so the next one is the lowest unused.   *)
Called(c, r) ==
  /\ jobs[c].phase = "idle"
  /\ \A d \in 1 .. (c - 1) : jobs[d].phase # "idle"
  /\ r \in Sent \cup {None}

(* deliverToolResult.  Over the relay it settles at once, either way; over *)
(* the clipboard the write is awaited.  rearm: handleToolCall has just     *)
(* restarted the clock because the tool was at work.                       *)
Deliver(c, job, rearm) ==
  /\ \/ /\ kind = "relay"
        /\ jobs' = [jobs EXCEPT ![c] = DoneJob]
        /\ Finish("FAILED", "result undelivered", job.request)
     \/ /\ \/ /\ kind = "relay"
              /\ jobs' = [jobs EXCEPT ![c] = DoneJob]
              /\ reqState' = "PROVIDER_PROCESSING"
           \/ /\ kind = "clipboard"
              /\ jobs' = [jobs EXCEPT ![c] = [job EXCEPT !.phase = "returning"]]
              /\ reqState' = "TOOL_RESULT_SENT"
        /\ IF rearm THEN RearmIfPending ELSE UNCHANGED <<timer, settling>>
        /\ KeepRequest
  /\ UNCHANGED <<aborted, store, kind, sending, partials>>

RefuseCall(c, r, s) ==
  /\ Called(c, r)
  /\ Rejected(r, s)
  /\ Deliver(c, [jobs[c] EXCEPT !.request = r], FALSE)
  /\ UNCHANGED paused

(* handleToolCall up to tools.execute.  The call belongs to the request in *)
(* flight and to its abort signal, whether it named the request or not.    *)
AcceptCall(c, r, s, phase) ==
  /\ Called(c, r)
  /\ ~Rejected(r, s)
  /\ jobs' = [jobs EXCEPT ![c] = [phase |-> phase, request |-> pending, ctl |-> abortCtl]]
  /\ reqState' = "TOOL_RUNNING"
  /\ KeepRequest
  /\ UNCHANGED <<settling, aborted, store, kind, sending, partials>>

(* The policy allows the tool's class, or a remembered grant covers it.    *)
RunTool(c, r, s) ==
  /\ AcceptCall(c, r, s, "running")
  /\ UNCHANGED <<timer, paused>>

(* The policy says ask: pauseTimeout runs as the prompt opens.             *)
OpenPrompt(c, r, s) ==
  /\ AcceptCall(c, r, s, "asking")
  /\ IF timer # None THEN timer' = None /\ paused' = TRUE
                     ELSE UNCHANGED <<timer, paused>>

(* The user approves: resumeTimeout, and the tool starts.                  *)
PromptAllowed(c) ==
  /\ jobs[c].phase = "asking"
  /\ jobs' = [jobs EXCEPT ![c].phase = "running"]
  /\ paused' = FALSE
  /\ IF paused THEN RearmIfPending ELSE UNCHANGED <<timer, settling>>
  /\ KeepRequest
  /\ UNCHANGED <<reqState, aborted, store, kind, sending, partials>>

(* The user refuses, or dismisses the prompt: resumeTimeout, and the       *)
(* refusal is the tool's result.                                           *)
PromptDenied(c) ==
  /\ jobs[c].phase = "asking"
  /\ paused' = FALSE
  /\ Deliver(c, jobs[c], TRUE)

(* tools.execute resolves: with a result, a failure or the abort.          *)
ToolEnds(c) ==
  /\ jobs[c].phase = "running"
  /\ Deliver(c, jobs[c], TRUE)
  /\ UNCHANGED paused

(* The awaited clipboard write resolves, or throws.                        *)
ResultSettled(c) ==
  /\ jobs[c].phase = "returning"
  /\ jobs' = [jobs EXCEPT ![c] = DoneJob]
  /\ \/ /\ reqState' = "PROVIDER_PROCESSING"
        /\ KeepRequest
        /\ UNCHANGED <<timer, settling>>
     \/ Finish("FAILED", "result undelivered", jobs[c].request)
  /\ UNCHANGED <<paused, aborted, store, kind, sending, partials>>

-----------------------------------------------------------------------------
(* The two timers.                                                         *)

TimerFires ==
  /\ timer # None
  /\ IF pending = timer
     THEN Finish("TIMED_OUT", "timed out", timer)
     ELSE timer' = None /\ KeepRequest /\ UNCHANGED <<settling, reqState>>
  /\ UNCHANGED <<paused, aborted, store, kind, sending, partials, jobs>>

SettleFires ==
  /\ settling
  /\ settling' = FALSE
  /\ reqState' = IF pending = None THEN "IDLE" ELSE reqState
  /\ KeepRequest
  /\ UNCHANGED <<timer, paused, aborted, store, kind, sending, partials, jobs>>

-----------------------------------------------------------------------------
UserActs ==
  \/ \E r \in Requests : SendOverRelay(r) \/ SendOverClipboard(r)
  \/ Cancel
  \/ ResetSession
  \/ \E next \in Kinds : SwapProvider(next) \/ Reload(next)
  \/ \E c \in Calls : PromptAllowed(c) \/ PromptDenied(c)

FarSideActs ==
  \/ \E r \in Requests : PartialReply(r) \/ CompleteReply(r)
  \/ \E r \in Requests, final \in {"CANCELLED", "FAILED"} : UnfinishedReply(r, final)
  \/ \E r \in Requests \cup {None} : ProviderError(r)
  \/ \E c \in Calls, r \in Requests \cup {None}, s \in Sessions :
       RefuseCall(c, r, s) \/ RunTool(c, r, s) \/ OpenPrompt(c, r, s)

HostActs ==
  \/ \E r \in Requests : SendSettled(r)
  \/ \E c \in Calls : ToolEnds(c) \/ ResultSettled(c)
  \/ TimerFires
  \/ SettleFires

Next == UserActs \/ FarSideActs \/ HostActs

(* Timers fire, an awaited write settles, and ToolRegistry races every     *)
(* tool against its own timeout.  Nothing is assumed of the user or of the *)
(* far side.  The request clock runs off because the far side can restart  *)
(* it only MaxPartials + MaxCalls times.                                   *)
Fairness ==
  /\ WF_vars(TimerFires)
  /\ WF_vars(SettleFires)
  /\ \A r \in Requests : WF_vars(SendSettled(r))
  /\ \A c \in Calls : WF_vars(ToolEnds(c)) /\ WF_vars(ResultSettled(c))

Spec == Init /\ [][Next]_vars
FairSpec == Spec /\ Fairness

-----------------------------------------------------------------------------
(* What the lifecycle promises.                                            *)

(* "Nothing waits forever": a pending request has its clock running, or    *)
(* the clock is suspended by a prompt that is still on the screen and whose*)
(* closing restarts it -- through every cancel, new session, swap, partial *)
(* and overlapping prompt (armTimeout, pauseTimeout, resumeTimeout).       *)
NothingWaitsForever ==
  pending # None => \/ timer = pending
                    \/ paused /\ Asking # {}

(* A request ends once: when an ending was recorded for it, no handler can *)
(* still be working for it, so no second notice can follow (finish).       *)
EndsOnce ==
  \A r \in Requests : ended[r] # NotEnded => pending # r /\ r \in Sent

(* cancel() aborts whatever tool is running: every tool started for a      *)
(* request the user cancelled holds a signal that has been aborted.        *)
CancelReachesTools ==
  \A c \in Calls :
    /\ jobs[c].phase \in {"asking", "running"}
    /\ ended[jobs[c].request].why = "cancelled"
    => jobs[c].ctl \in aborted

(* The panel is busy for as long as a request is pending: no settle timer, *)
(* late result or late failure of an earlier request takes it to IDLE or to*)
(* an ending the pending request has not had.                              *)
PanelBusyWhilePending == pending # None => reqState \in Working

(* What ends a request is about that request or about the whole transport, *)
(* with one exception the code makes: a send or a tool result of an earlier*)
(* request that could not be delivered fails whatever is pending by then   *)
(* (the catch blocks of send and deliverToolResult).                       *)
EndingIsOwn ==
  \A r \in Requests :
    ended[r] # NotEnded =>
      \/ ended[r].by = r
      \/ ended[r] = [why |-> "provider error", by |-> None]
      \/ ended[r].why \in {"send undelivered", "result undelivered"}

(* A late or duplicate reply is dropped: the coach message of a request    *)
(* changes only while that request is pending and has not ended, and only  *)
(* in the conversation it was asked in; a finished reply is never changed. *)
ReplyWhileOpen ==
  \A s \in Sessions, r \in Requests :
    transcript'[s][r] # transcript[s][r] =>
      /\ r = pending
      /\ s = session /\ s = home[r]
      /\ ended[r] = NotEnded
      /\ transcript[s][r] # "final"
RepliesOnlyWhileOpen == [][ReplyWhileOpen]_vars

(* The life of each request, and the refinement of RequestLife.            *)
Lives ==
  [r \in Requests |->
     IF r > sends THEN "unsent"
     ELSE IF ended[r] # NotEnded THEN ended[r].why
     ELSE IF pending = r THEN "open" ELSE "left"]

Life == INSTANCE RequestLife
          WITH Nowhere <- None, Outcomes <- Reasons \ {"answered"},
               life <- Lives, asked <- home, reply <- transcript

(* Whatever timers, prompts, transports and late messages do, the panel    *)
(* shows lives and replies that RequestLife allows: one open request, one  *)
(* ending, one finished reply (CoachController, SessionStore).             *)
PromisesKept == Life!LifeSpec

(* Every request is over in the end -- answered, failed, timed out or left *)
(* behind -- unless it is waiting for the user to answer a prompt; and     *)
(* every tool that starts has its outcome handed back to a transport, or   *)
(* the window it ran in is gone.                                           *)
WorkEnds ==
  /\ \A r \in Requests : (pending = r) ~> (pending # r \/ Asking # {})
  /\ \A c \in Calls : (jobs[c].phase = "running") ~> (jobs[c].phase \in {"done", "lost"})

-----------------------------------------------------------------------------
(* What the repository says and the code does not do.                      *)

(* ADR 0007: the request timeout is suspended while a prompt is open.      *)
ClockSuspendedWhileAsking == Asking # {} => timer = None
=============================================================================
