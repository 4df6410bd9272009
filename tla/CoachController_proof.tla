----------------------- MODULE CoachController_proof ------------------------
(***************************************************************************)
(* Proofs about the request lifecycle, for every number of requests,       *)
(* conversations, tool calls and partial replies.                          *)
(***************************************************************************)
EXTENDS CoachController, TLAPS

(* What is known of a pending request: it was sent, in the current         *)
(* conversation, has not ended, and the abort controller is its own.       *)
PendingIsLive ==
  pending # None =>
    /\ pending \in Sent
    /\ ended[pending] = NotEnded
    /\ home[pending] = session
    /\ abortCtl = pending

(* A tool at work holds the signal of the request it works for.            *)
JobsHoldTheirSignal ==
  \A c \in Calls :
    jobs[c].phase \in {"asking", "running"} =>
      jobs[c].request \in Requests /\ jobs[c].ctl = jobs[c].request

(* A cancelled request was aborted.                                        *)
CancelledIsAborted ==
  \A r \in Requests : ended[r].why = "cancelled" => r \in aborted

(* Only a request that has ended has a finished reply.                     *)
FinalHasEnded ==
  \A s \in Sessions, r \in Requests :
    transcript[s][r] = "final" => ended[r] # NotEnded

(* The inductive invariant.                                                *)
IInv ==
  /\ TypeOK
  /\ NothingWaitsForever
  /\ EndsOnce
  /\ PanelBusyWhilePending
  /\ EndingIsOwn
  /\ PendingIsLive
  /\ JobsHoldTheirSignal
  /\ CancelledIsAborted
  /\ FinalHasEnded

-----------------------------------------------------------------------------
USE DEF None, Requests, Sessions, Calls, Sent

(* The initial state satisfies every part of the invariant.                *)
LEMMA InitIInv == Init => IInv
  <1> SUFFICES ASSUME Init PROVE IInv
    OBVIOUS
  <1> USE BoundsAssumption DEF Init
  <1>1. TypeOK
    <2>1. /\ session \in Sessions
          /\ sends \in 0 .. MaxSends /\ partials \in 0 .. MaxPartials
          /\ reqState \in RequestStates
      BY DEF RequestStates
    <2>2. transcript \in [Sessions -> [Requests -> {"none", "partial", "final"}]]
      OBVIOUS
    <2>3. ended \in [Requests -> Causes \cup {NotEnded}]
      OBVIOUS
    <2>4. jobs \in [Calls -> JobSet]
      BY DEF JobSet, Phases, NewJob
    <2>5. QED
      BY <2>1, <2>2, <2>3, <2>4 DEF TypeOK
  <1>2. NothingWaitsForever /\ EndsOnce /\ PanelBusyWhilePending /\ EndingIsOwn
    BY DEF NothingWaitsForever, EndsOnce, PanelBusyWhilePending, EndingIsOwn
  <1>3. PendingIsLive /\ JobsHoldTheirSignal /\ CancelledIsAborted /\ FinalHasEnded
    BY DEF PendingIsLive, JobsHoldTheirSignal, CancelledIsAborted, FinalHasEnded,
           NotEnded, NewJob
  <1>4. QED
    BY <1>1, <1>2, <1>3 DEF IInv

(* finish() leaves the fields it writes well typed, when the state, the    *)
(* reason and the blame it is given are.                                   *)
LEMMA FinishTypes ==
  ASSUME TypeOK, NEW final \in Terminal, NEW why \in Reasons,
         NEW by \in Requests \cup {None}, Finish(final, why, by)
  PROVE  /\ timer' \in Requests \cup {None} /\ settling' \in BOOLEAN
         /\ abortCtl' \in Requests \cup {None} /\ pending' \in Requests \cup {None}
         /\ active' \in Requests \cup {None} /\ reqState' \in RequestStates
         /\ ended' \in [Requests -> Causes \cup {NotEnded}]
  BY DEF TypeOK, Finish, Causes, RequestStates

(* A job with another phase, or about another request, is a job.           *)
LEMMA JobFields ==
  ASSUME NEW job \in JobSet
  PROVE  /\ \A p \in Phases : [job EXCEPT !.phase = p] \in JobSet
         /\ \A r \in Requests \cup {None} : [job EXCEPT !.request = r] \in JobSet
  BY DEF JobSet

(* deliverToolResult leaves the state well typed.                          *)
LEMMA DeliverTypes ==
  ASSUME TypeOK, paused' \in BOOLEAN, NEW c \in Calls, NEW job \in JobSet,
         NEW rearm \in BOOLEAN, Deliver(c, job, rearm)
  PROVE  TypeOK'
  <1>1. jobs' \in [Calls -> JobSet]
    <2>1. DoneJob \in JobSet
      BY DEF JobSet, Phases, DoneJob, NewJob
    <2>2. [job EXCEPT !.phase = "returning"] \in JobSet
      BY JobFields DEF Phases
    <2>3. QED
      BY <2>1, <2>2 DEF TypeOK, Deliver
  <1>2. CASE Finish("FAILED", "result undelivered", job.request)
    <2>1. job.request \in Requests \cup {None}
      BY DEF JobSet
    <2>2. "FAILED" \in Terminal /\ "result undelivered" \in Reasons
      BY DEF Terminal, Reasons
    <2>3. QED
      BY <1>1, <1>2, <2>1, <2>2, FinishTypes DEF TypeOK, Deliver, store
  <1>3. CASE /\ reqState' \in {"PROVIDER_PROCESSING", "TOOL_RESULT_SENT"}
             /\ IF rearm THEN RearmIfPending ELSE UNCHANGED <<timer, settling>>
             /\ KeepRequest
    BY <1>1, <1>3 DEF TypeOK, Deliver, RearmIfPending, ArmTimeout, KeepRequest,
                      store,
                      RequestStates, Working
  <1>4. QED
    BY <1>2, <1>3 DEF Deliver

(* Every step keeps the types.                                             *)
LEMMA TypeStep == TypeOK /\ [Next]_vars => TypeOK'
  <1> SUFFICES ASSUME TypeOK, [Next]_vars PROVE TypeOK'
    OBVIOUS
  <1> USE BoundsAssumption DEF RequestStates, Terminal, Working, Kinds, Reasons
  <1>1. ASSUME NEW r \in Requests, SendOverRelay(r) PROVE TypeOK'
    <2>0. StartRequest(r)
      BY <1>1 DEF SendOverRelay
    <2>1. sends' \in 0 .. MaxSends
      BY <2>0 DEF TypeOK, StartRequest
    <2>2. home' \in [Requests -> Sessions \cup {None}]
      BY <2>0 DEF TypeOK, StartRequest
    <2>3. ended' \in [Requests -> Causes \cup {NotEnded}]
      <3>1. [why |-> "send undelivered", by |-> r] \in Causes
        BY DEF Causes
      <3>2. QED
        BY <1>1, <3>1 DEF TypeOK, SendOverRelay
    <2>4. QED
      BY <1>1, <2>1, <2>2, <2>3 DEF TypeOK, SendOverRelay, StartRequest, Await,
                                    ArmTimeout
  <1>2. ASSUME NEW r \in Requests, SendOverClipboard(r) PROVE TypeOK'
    <2>1. sends' \in 0 .. MaxSends
      BY <1>2 DEF TypeOK, SendOverClipboard, StartRequest
    <2>2. home' \in [Requests -> Sessions \cup {None}]
      BY <1>2 DEF TypeOK, SendOverClipboard, StartRequest
    <2>3. QED
      BY <1>2, <2>1, <2>2 DEF TypeOK, SendOverClipboard, StartRequest, Await,
                              ArmTimeout
  <1>3. ASSUME NEW r \in Requests, SendSettled(r) PROVE TypeOK'
    <2>1. CASE Finish("FAILED", "send undelivered", r)
      BY <1>3, <2>1, FinishTypes DEF TypeOK, SendSettled, store
    <2>2. CASE reqState' = "PROVIDER_PROCESSING" /\ KeepRequest /\ UNCHANGED <<timer, settling>>
      BY <1>3, <2>2 DEF TypeOK, SendSettled, KeepRequest, store
    <2>3. QED
      BY <1>3, <2>1, <2>2 DEF SendSettled
  <1>4. ASSUME Cancel PROVE TypeOK'
    BY <1>4, FinishTypes DEF TypeOK, Cancel, store
  <1>5. ASSUME ResetSession PROVE TypeOK'
    <2>1. session' \in Sessions
      BY <1>5 DEF TypeOK, ResetSession
    <2>2. QED
      BY <1>5, <2>1 DEF TypeOK, ResetSession
  <1>6. ASSUME NEW next \in Kinds, SwapProvider(next) PROVE TypeOK'
    BY <1>6 DEF TypeOK, SwapProvider, store
  <1>7. ASSUME NEW next \in Kinds, Reload(next) PROVE TypeOK'
    BY <1>7 DEF TypeOK, Reload, store, JobSet, Phases, LostJob, NewJob
  <1>8. ASSUME NEW r \in Requests, PartialReply(r) PROVE TypeOK'
    <2>1. transcript' \in [Sessions -> [Requests -> {"none", "partial", "final"}]]
      <3>1. CASE Shows(r, "partial")
        BY <3>1 DEF TypeOK, Shows
      <3>2. CASE UNCHANGED transcript
        BY <3>2 DEF TypeOK
      <3>3. QED
        BY <1>8, <3>1, <3>2 DEF PartialReply
    <2>2. partials' \in 0 .. MaxPartials
      BY <1>8 DEF TypeOK, PartialReply
    <2>3. QED
      BY <1>8, <2>1, <2>2 DEF TypeOK, PartialReply, ArmTimeout, KeepRequest
  <1>9. ASSUME NEW r \in Requests, CompleteReply(r) PROVE TypeOK'
    <2>1. transcript' \in [Sessions -> [Requests -> {"none", "partial", "final"}]]
      BY <1>9 DEF TypeOK, CompleteReply, Shows
    <2>2. QED
      BY <1>9, <2>1, FinishTypes DEF TypeOK, CompleteReply
  <1>10. ASSUME NEW r \in Requests, NEW final \in {"CANCELLED", "FAILED"},
                UnfinishedReply(r, final)
         PROVE  TypeOK'
    BY <1>10, FinishTypes DEF TypeOK, UnfinishedReply, store
  <1>11. ASSUME NEW r \in Requests \cup {None}, ProviderError(r) PROVE TypeOK'
    BY <1>11, FinishTypes DEF TypeOK, ProviderError, store
  <1>12. ASSUME NEW c \in Calls, NEW r \in Requests \cup {None}, NEW s \in Sessions,
                RefuseCall(c, r, s)
         PROVE  TypeOK'
    <2>1. [jobs[c] EXCEPT !.request = r] \in JobSet
      BY JobFields DEF TypeOK
    <2>2. QED
      BY <1>12, <2>1, DeliverTypes DEF TypeOK, RefuseCall
  <1>13. ASSUME NEW c \in Calls, NEW r \in Requests \cup {None}, NEW s \in Sessions,
                RunTool(c, r, s)
         PROVE  TypeOK'
    BY <1>13 DEF TypeOK, RunTool, AcceptCall, KeepRequest, store, JobSet, Phases
  <1>14. ASSUME NEW c \in Calls, NEW r \in Requests \cup {None}, NEW s \in Sessions,
                OpenPrompt(c, r, s)
         PROVE  TypeOK'
    BY <1>14 DEF TypeOK, OpenPrompt, AcceptCall, KeepRequest, store, JobSet,
                 Phases
  <1>15. ASSUME NEW c \in Calls, PromptAllowed(c) PROVE TypeOK'
    BY <1>15 DEF TypeOK, PromptAllowed, RearmIfPending, ArmTimeout, KeepRequest,
                 store, JobSet, Phases
  <1>16. ASSUME NEW c \in Calls, PromptDenied(c) PROVE TypeOK'
    BY <1>16, DeliverTypes DEF TypeOK, PromptDenied
  <1>17. ASSUME NEW c \in Calls, ToolEnds(c) PROVE TypeOK'
    BY <1>17, DeliverTypes DEF TypeOK, ToolEnds
  <1>18. ASSUME NEW c \in Calls, ResultSettled(c) PROVE TypeOK'
    <2>1. jobs' \in [Calls -> JobSet]
      BY <1>18 DEF TypeOK, ResultSettled, JobSet, Phases, DoneJob, NewJob
    <2>2. CASE Finish("FAILED", "result undelivered", jobs[c].request)
      <3>1. jobs[c].request \in Requests \cup {None}
        BY DEF TypeOK, JobSet
      <3>2. QED
        BY <1>18, <2>1, <2>2, <3>1, FinishTypes DEF TypeOK, ResultSettled, store
    <2>3. CASE reqState' = "PROVIDER_PROCESSING" /\ KeepRequest /\ UNCHANGED <<timer, settling>>
      BY <1>18, <2>1, <2>3 DEF TypeOK, ResultSettled, KeepRequest, store
    <2>4. QED
      BY <1>18, <2>2, <2>3 DEF ResultSettled
  <1>19. ASSUME TimerFires PROVE TypeOK'
    <2>1. CASE Finish("TIMED_OUT", "timed out", timer)
      BY <1>19, <2>1, FinishTypes DEF TypeOK, TimerFires, store
    <2>2. CASE timer' = None /\ KeepRequest /\ UNCHANGED <<settling, reqState>>
      BY <1>19, <2>2 DEF TypeOK, TimerFires, KeepRequest, store
    <2>3. QED
      BY <1>19, <2>1, <2>2 DEF TimerFires
  <1>20. ASSUME SettleFires PROVE TypeOK'
    BY <1>20 DEF TypeOK, SettleFires, KeepRequest, store
  <1>21. CASE UNCHANGED vars
    BY <1>21 DEF TypeOK, vars, controller, store
  <1>22. QED
    BY <1>1, <1>2, <1>3, <1>4, <1>5, <1>6, <1>7, <1>8, <1>9, <1>10, <1>11, <1>12,
       <1>13, <1>14, <1>15, <1>16, <1>17, <1>18, <1>19, <1>20, <1>21
       DEF Next, UserActs, FarSideActs, HostActs
-----------------------------------------------------------------------------
(* The four things a step can do to the fate of a request.  Every handler  *)
(* does one of them, so the invariants about endings need four cases each. *)

(* Only the pending request's reply in the current session may change.     *)
Writes(text) ==
  pending # None /\ transcript' = [transcript EXCEPT ![session][pending] = text]

Quiet ==
  /\ UNCHANGED <<pending, abortCtl, ended, session, sends, home, aborted>>
  /\ transcript' = transcript \/ Writes("partial")

Abandons ==
  /\ pending' = None
  /\ UNCHANGED <<ended, sends, home, transcript, aborted>>

Starts(r) ==
  /\ pending = None
  /\ r = sends + 1 /\ sends' = r
  /\ UNCHANGED <<session, transcript, aborted>>
  /\ home'[r] = session
  /\ \A q \in Requests : q # r => ended'[q] = ended[q] /\ home'[q] = home[q]
  /\ \/ pending' = r /\ abortCtl' = r /\ ended'[r] = ended[r]
     \/ pending' = None /\ ended'[r] = [why |-> "send undelivered", by |-> r]

(* The causes finish() is given: the pending request, the transport, or a  *)
(* delivery that failed.                                                   *)
Blames(why, by) ==
  \/ by = pending /\ why # "cancelled"
  \/ why = "provider error" /\ by = None
  \/ why \in {"send undelivered", "result undelivered"}

Ends(why, by) ==
  /\ pending' = None
  /\ \A q \in Requests :
       ended'[q] = IF q = pending THEN [why |-> why, by |-> by] ELSE ended[q]
  /\ UNCHANGED <<session, sends, home>>
  /\ \/ Blames(why, by) /\ aborted' = aborted
     \/ /\ why = "cancelled" /\ by = pending /\ pending # None
        /\ abortCtl # None => abortCtl \in aborted'
        /\ aborted \subseteq aborted'
  /\ IF why = "answered" THEN Writes("final") ELSE transcript' = transcript

Fate ==
  \/ Quiet
  \/ Abandons
  \/ \E r \in Requests : Starts(r)
  \/ \E why \in Reasons, by \in Requests \cup {None} : Ends(why, by)

(* Delivering a result is quiet, or it fails whatever is pending.          *)
LEMMA DeliverFate ==
  ASSUME TypeOK, NEW c \in Calls, NEW job, job.request \in Requests \cup {None},
         NEW rearm, Deliver(c, job, rearm)
  PROVE  Fate
  <1>1. CASE Finish("FAILED", "result undelivered", job.request)
    <2>1. Ends("result undelivered", job.request)
      BY <1>1 DEF TypeOK, Ends, Writes, Blames, Finish, Deliver, store
    <2>2. QED
      BY <2>1 DEF Fate, Reasons
  <1>2. CASE KeepRequest
    BY <1>2 DEF Fate, Quiet, Writes, KeepRequest, Deliver, store
  <1>3. QED
    BY <1>1, <1>2 DEF Deliver

(* Every step of the model is one of the four.                             *)
LEMMA StepFate ==
  TypeOK /\ [Next]_vars => Fate
  <1> SUFFICES ASSUME TypeOK, [Next]_vars
               PROVE  Fate
    OBVIOUS
  <1>1. ASSUME NEW r \in Requests, SendOverRelay(r) PROVE Fate
    <2>1. Starts(r)
      BY <1>1 DEF TypeOK, Starts, StartRequest, SendOverRelay, Await
    <2>2. QED
      BY <2>1 DEF Fate
  <1>2. ASSUME NEW r \in Requests, SendOverClipboard(r) PROVE Fate
    <2>1. Starts(r)
      BY <1>2 DEF TypeOK, Starts, StartRequest, SendOverClipboard, Await
    <2>2. QED
      BY <2>1 DEF Fate
  <1>3. ASSUME NEW r \in Requests, SendSettled(r) PROVE Fate
    <2>1. CASE Finish("FAILED", "send undelivered", r)
      <3>1. Ends("send undelivered", r)
        BY <1>3, <2>1 DEF TypeOK, Ends, Writes, Blames, Finish, SendSettled,
                          store
      <3>2. r \in Requests \cup {None}
        BY DEF TypeOK, JobSet
      <3>3. QED
        BY <3>1, <3>2 DEF Fate, Reasons
    <2>2. CASE KeepRequest
      BY <1>3, <2>2 DEF Fate, Quiet, Writes, KeepRequest, SendSettled, store
    <2>3. QED
      BY <1>3, <2>1, <2>2 DEF SendSettled
  <1>4. ASSUME Cancel PROVE Fate
    <2>1. Ends("cancelled", pending)
      BY <1>4 DEF TypeOK, Ends, Writes, Blames, Cancel, Finish, store
    <2>2. QED
      BY <2>1 DEF Fate, Reasons, TypeOK
  <1>5. ASSUME ResetSession PROVE Fate
    BY <1>5 DEF Fate, Abandons, ResetSession
  <1>6. ASSUME NEW next \in Kinds, SwapProvider(next) PROVE Fate
    BY <1>6 DEF Fate, Abandons, SwapProvider, store
  <1>7. ASSUME NEW next \in Kinds, Reload(next) PROVE Fate
    BY <1>7 DEF Fate, Abandons, Reload, store
  <1>8. ASSUME NEW r \in Requests, PartialReply(r) PROVE Fate
    <2>1. transcript' = transcript \/ Writes("partial")
      BY <1>8 DEF Writes, PartialReply, Correlates, Shows
    <2>2. QED
      BY <1>8, <2>1 DEF Fate, Quiet, PartialReply, KeepRequest
  <1>9. ASSUME NEW r \in Requests, CompleteReply(r) PROVE Fate
    <2>1. Ends("answered", r)
      BY <1>9 DEF TypeOK, Ends, Writes, Blames, CompleteReply, Correlates,
                  Shows, Finish
    <2>2. QED
      BY <2>1 DEF Fate, Reasons, TypeOK
  <1>10. ASSUME NEW r \in Requests, NEW final \in {"CANCELLED", "FAILED"},
                UnfinishedReply(r, final)
         PROVE  Fate
    <2>1. Ends("incomplete", r)
      BY <1>10 DEF TypeOK, Ends, Writes, Blames, UnfinishedReply,
                   Correlates, Finish, store
    <2>2. QED
      BY <2>1 DEF Fate, Reasons, TypeOK
  <1>11. ASSUME NEW r \in Requests \cup {None}, ProviderError(r)
         PROVE  Fate
    <2>1. Ends("provider error", r)
      BY <1>11 DEF TypeOK, Ends, Writes, Blames, ProviderError, Correlates,
                   Finish, store
    <2>2. QED
      BY <2>1 DEF Fate, Reasons, TypeOK
  <1>12. ASSUME NEW c \in Calls, NEW r \in Requests \cup {None}, NEW s \in Sessions,
                RefuseCall(c, r, s)
         PROVE  Fate
    BY <1>12, DeliverFate, JobFields DEF RefuseCall, TypeOK, JobSet
  <1>13. ASSUME NEW c \in Calls, NEW r \in Requests \cup {None}, NEW s \in Sessions,
                RunTool(c, r, s)
         PROVE  Fate
    BY <1>13 DEF TypeOK, Fate, Quiet, Writes, RunTool, AcceptCall,
                 KeepRequest, store
  <1>14. ASSUME NEW c \in Calls, NEW r \in Requests \cup {None}, NEW s \in Sessions,
                OpenPrompt(c, r, s)
         PROVE  Fate
    BY <1>14 DEF TypeOK, Fate, Quiet, Writes, OpenPrompt, AcceptCall,
                 KeepRequest, store
  <1>15. ASSUME NEW c \in Calls, PromptAllowed(c) PROVE Fate
    BY <1>15 DEF TypeOK, Fate, Quiet, Writes, PromptAllowed, KeepRequest,
                 store
  <1>16. ASSUME NEW c \in Calls, PromptDenied(c) PROVE Fate
    BY <1>16, DeliverFate, JobFields DEF PromptDenied, TypeOK, JobSet
  <1>17. ASSUME NEW c \in Calls, ToolEnds(c) PROVE Fate
    BY <1>17, DeliverFate, JobFields DEF ToolEnds, TypeOK, JobSet
  <1>18. ASSUME NEW c \in Calls, ResultSettled(c) PROVE Fate
    <2>1. CASE Finish("FAILED", "result undelivered", jobs[c].request)
      <3>1. Ends("result undelivered", jobs[c].request)
        BY <1>18, <2>1 DEF TypeOK, Ends, Writes, Blames, Finish,
                           ResultSettled, store
      <3>2. jobs[c].request \in Requests \cup {None}
        BY DEF TypeOK, JobSet
      <3>3. QED
        BY <3>1, <3>2 DEF Fate, Reasons
    <2>2. CASE KeepRequest
      BY <1>18, <2>2 DEF Fate, Quiet, Writes, KeepRequest, ResultSettled,
                         store
    <2>3. QED
      BY <1>18, <2>1, <2>2 DEF ResultSettled
  <1>19. ASSUME TimerFires PROVE Fate
    <2>1. CASE pending = timer
      <3>1. Ends("timed out", pending)
        BY <1>19, <2>1 DEF TypeOK, Ends, Writes, Blames, TimerFires, Finish,
                           store
      <3>2. QED
        BY <3>1 DEF Fate, Reasons, TypeOK
    <2>2. CASE pending # timer
      BY <1>19, <2>2 DEF Fate, Quiet, Writes, TimerFires, KeepRequest, store
    <2>3. QED
      BY <2>1, <2>2
  <1>20. ASSUME SettleFires PROVE Fate
    BY <1>20 DEF TypeOK, Fate, Quiet, Writes, SettleFires, KeepRequest, store
  <1>21. CASE UNCHANGED vars
    BY <1>21 DEF Fate, Quiet, Writes, vars, controller, store
  <1>22. QED
    BY <1>1, <1>2, <1>3, <1>4, <1>5, <1>6, <1>7, <1>8, <1>9, <1>10,
       <1>11, <1>12, <1>13, <1>14, <1>15, <1>16, <1>17, <1>18, <1>19, <1>20, <1>21
       DEF Next, UserActs, FarSideActs, HostActs

-----------------------------------------------------------------------------
HIDE DEF None, Requests, Sessions, Calls, Sent

(* What the case analyses below need of recorded endings and of counts.    *)
LEMMA EndingFacts ==
  /\ NotEnded.why # "cancelled"
  /\ \A why \in Reasons, by \in Requests \cup {None} :
       /\ [why |-> why, by |-> by] # NotEnded
       /\ [why |-> why, by |-> by].why = why
       /\ [why |-> why, by |-> by].by = by
  BY DEF NotEnded, Reasons

(* The next request's number is unused and above every number used so far. *)
LEMMA CountFacts ==
  ASSUME TypeOK, NEW r \in Requests, r = sends + 1
  PROVE  r # None /\ r \notin 1 .. sends /\ r \in 1 .. r /\ 1 .. sends \subseteq 1 .. r
  <1>1. sends \in Nat
    BY BoundsAssumption DEF TypeOK
  <1>2. QED
    BY <1>1 DEF None

(* undefined is not a request id.                                          *)
LEMMA NoneIsNoRequest == None \notin Requests
  BY DEF None, Requests

(* The pending request stays live.                                         *)
LEMMA LiveStep ==
  ASSUME TypeOK, EndsOnce, PendingIsLive, Fate
  PROVE  PendingIsLive'
  <1>1. CASE Quiet
    BY <1>1 DEF PendingIsLive, Quiet, Sent
  <1>2. CASE Abandons
    BY <1>2 DEF PendingIsLive, Abandons
  <1>3. ASSUME NEW r \in Requests, Starts(r) PROVE PendingIsLive'
    <2>1. ended[r] = NotEnded
      BY <1>3, CountFacts DEF EndsOnce, Sent, Starts
    <2>2. r \in Sent'
      BY <1>3, CountFacts DEF Starts, Sent
    <2>3. QED
      BY <1>3, <2>1, <2>2 DEF PendingIsLive, Starts
  <1>4. ASSUME NEW why \in Reasons, NEW by \in Requests \cup {None}, Ends(why, by)
        PROVE  PendingIsLive'
    BY <1>4 DEF PendingIsLive, Ends
  <1>5. QED
    BY <1>1, <1>2, <1>3, <1>4 DEF Fate

(* Nothing that has ended is pending again.                                *)
LEMMA EndsStep ==
  ASSUME TypeOK, EndsOnce, PendingIsLive, Fate
  PROVE  EndsOnce'
  <1> SUFFICES ASSUME NEW q \in Requests, ended'[q] # NotEnded'
               PROVE  pending' # q /\ q \in Sent'
    BY DEF EndsOnce, NotEnded
  <1>1. CASE Quiet
    BY <1>1 DEF EndsOnce, Quiet, Sent
  <1>2. CASE Abandons
    BY <1>2 DEF EndsOnce, Abandons, Sent, None, Requests
  <1>3. ASSUME NEW r \in Requests, Starts(r) PROVE pending' # q /\ q \in Sent'
    <2>1. CASE q = r
      <3>1. ended[r] = NotEnded
        BY <1>3, CountFacts DEF EndsOnce, Sent, Starts
      <3>2. pending' = None
        BY <1>3, <2>1, <3>1 DEF Starts
      <3>3. QED
        BY <1>3, <2>1, <3>2, CountFacts DEF Starts, Sent, None
    <2>2. CASE q # r
      <3>1. q \in Sent
        BY <1>3, <2>2 DEF EndsOnce, Starts, Sent
      <3>2. pending' # q
        BY <1>3, <2>2, NoneIsNoRequest DEF Starts
      <3>3. QED
        BY <1>3, <3>1, <3>2, CountFacts DEF Starts, Sent
    <2>3. QED
      BY <2>1, <2>2
  <1>4. ASSUME NEW why \in Reasons, NEW by \in Requests \cup {None}, Ends(why, by)
        PROVE  pending' # q /\ q \in Sent'
    <2>1. pending' # q /\ sends' = sends
      BY <1>4 DEF Ends, None, Requests
    <2>2. q \in Sent
      BY <1>4 DEF Ends, EndsOnce, PendingIsLive, None, Requests
    <2>3. QED
      BY <2>1, <2>2 DEF Sent
  <1>5. QED
    BY <1>1, <1>2, <1>3, <1>4 DEF Fate

(* Endings keep their causes, and a new one has its own.                   *)
LEMMA OwnStep ==
  ASSUME TypeOK, EndsOnce, EndingIsOwn, Fate
  PROVE  EndingIsOwn'
  <1> DEFINE Own(q, e) == e # NotEnded =>
               \/ e.by = q
               \/ e = [why |-> "provider error", by |-> None]
               \/ e.why \in {"send undelivered", "result undelivered"}
  <1>0. \A q \in Requests : Own(q, ended[q])
    BY DEF EndingIsOwn
  <1> SUFFICES ASSUME NEW q \in Requests PROVE Own(q, ended'[q])
    BY DEF EndingIsOwn, NotEnded
  <1>1. CASE ended'[q] = ended[q]
    BY <1>0, <1>1
  <1>2. CASE Quiet \/ Abandons
    BY <1>1, <1>2 DEF Quiet, Abandons
  <1>3. ASSUME NEW r \in Requests, Starts(r) PROVE Own(q, ended'[q])
    <2>1. CASE q = r
      <3>1. \/ ended'[q] = ended[q]
            \/ ended'[q] = [why |-> "send undelivered", by |-> r]
        BY <1>3, <2>1 DEF Starts
      <3>2. [why |-> "send undelivered", by |-> r].why = "send undelivered"
        BY EndingFacts DEF Reasons
      <3>3. QED
        BY <1>1, <3>1, <3>2
    <2>2. CASE q # r
      BY <1>1, <1>3, <2>2 DEF Starts
    <2>3. QED
      BY <2>1, <2>2
  <1>4. ASSUME NEW why \in Reasons, NEW by \in Requests \cup {None}, Ends(why, by)
        PROVE  Own(q, ended'[q])
    <2>1. CASE q = pending
      <3>1. /\ ended'[q] = [why |-> why, by |-> by]
            /\ ended'[q].why = why /\ ended'[q].by = by
        BY <1>4, <2>1 DEF Ends
      <3>2. \/ by = q
            \/ why = "provider error" /\ by = None
            \/ why \in {"send undelivered", "result undelivered"}
        BY <1>4, <2>1 DEF Ends, Blames
      <3>3. QED
        BY <3>1, <3>2
    <2>2. CASE q # pending
      BY <1>1, <1>4, <2>2 DEF Ends
    <2>3. QED
      BY <2>1, <2>2
  <1>5. QED
    BY <1>2, <1>3, <1>4 DEF Fate

(* A cancelled request was aborted.                                        *)
LEMMA AbortStep ==
  ASSUME TypeOK, PendingIsLive, CancelledIsAborted, Fate
  PROVE  CancelledIsAborted'
  <1> SUFFICES ASSUME NEW q \in Requests, ended'[q].why = "cancelled"
               PROVE  q \in aborted'
    BY DEF CancelledIsAborted
  <1>1. CASE ended'[q] = ended[q] /\ aborted \subseteq aborted'
    BY <1>1 DEF CancelledIsAborted
  <1>2. CASE Quiet \/ Abandons
    BY <1>1, <1>2 DEF Quiet, Abandons
  <1>3. ASSUME NEW r \in Requests, Starts(r) PROVE q \in aborted'
    <2>1. CASE ended'[q] = ended[q]
      BY <1>1, <1>3, <2>1 DEF Starts
    <2>2. CASE ended'[q] = [why |-> "send undelivered", by |-> r]
      <3>1. [why |-> "send undelivered", by |-> r].why = "send undelivered"
        BY EndingFacts DEF Reasons
      <3>2. QED
        BY <2>2, <3>1
    <2>3. QED
      BY <1>3, <2>1, <2>2 DEF Starts
  <1>4. ASSUME NEW why \in Reasons, NEW by \in Requests \cup {None}, Ends(why, by)
        PROVE  q \in aborted'
    <2>1. CASE q = pending
      <3>1. why = "cancelled"
        BY <1>4, <2>1 DEF Ends
      <3>2. abortCtl = pending
        BY <2>1, NoneIsNoRequest DEF PendingIsLive
      <3>3. QED
        BY <1>4, <2>1, <3>1, <3>2 DEF Ends, Blames
    <2>2. CASE q # pending
      BY <1>1, <1>4, <2>2 DEF Ends
    <2>3. QED
      BY <2>1, <2>2
  <1>5. QED
    BY <1>2, <1>3, <1>4 DEF Fate

(* A reply that changes is the pending request's, in the current session.  *)
LEMMA WritesOne ==
  ASSUME TypeOK, NEW text, Writes(text), NEW s \in Sessions, NEW q \in Requests,
         transcript'[s][q] # transcript[s][q]
  PROVE  pending # None /\ q = pending /\ s = session /\ transcript'[s][q] = text
  <1>1. s = session
    BY DEF Writes, TypeOK
  <1>2. transcript'[s] = [transcript[s] EXCEPT ![pending] = text]
    BY <1>1 DEF Writes, TypeOK
  <1>3. QED
    BY <1>1, <1>2 DEF Writes, TypeOK

(* A finished reply comes with the end of its request.                     *)
LEMMA FinalStep ==
  ASSUME TypeOK, EndsOnce, FinalHasEnded, Fate
  PROVE  FinalHasEnded'
  <1> SUFFICES ASSUME NEW s \in Sessions, NEW q \in Requests, transcript'[s][q] = "final"
               PROVE  ended'[q] # NotEnded
    BY DEF FinalHasEnded, NotEnded
  <1>1. CASE transcript[s][q] = "final" /\ ended'[q] = ended[q]
    BY <1>1 DEF FinalHasEnded
  <1>2. CASE Quiet \/ Abandons
    BY <1>1, <1>2, WritesOne DEF Quiet, Abandons
  <1>3. ASSUME NEW r \in Requests, Starts(r) PROVE ended'[q] # NotEnded
    <2>1. ended[r] = NotEnded
      BY <1>3, CountFacts DEF EndsOnce, Sent, Starts
    <2>2. q # r
      BY <1>3, <2>1 DEF FinalHasEnded, Starts
    <2>3. QED
      BY <1>1, <1>3, <2>2 DEF Starts
  <1>4. ASSUME NEW why \in Reasons, NEW by \in Requests \cup {None}, Ends(why, by)
        PROVE  ended'[q] # NotEnded
    <2>1. CASE q = pending
      BY <1>4, <2>1, EndingFacts DEF Ends
    <2>2. CASE q # pending
      BY <1>1, <1>4, <2>2, WritesOne DEF Ends
    <2>3. QED
      BY <2>1, <2>2
  <1>5. QED
    BY <1>2, <1>3, <1>4 DEF Fate

(* No step leaves a pending request without its clock, or without the      *)
(* prompt whose closing restarts it.                                       *)
LEMMA ClockStep ==
  TypeOK /\ NothingWaitsForever /\ [Next]_vars => NothingWaitsForever'
  <1> SUFFICES ASSUME TypeOK, NothingWaitsForever, [Next]_vars
               PROVE  NothingWaitsForever'
    OBVIOUS
  <1>1. ASSUME NEW r \in Requests, SendOverRelay(r) PROVE NothingWaitsForever'
    BY <1>1 DEF TypeOK, NothingWaitsForever, Asking, SendOverRelay,
                StartRequest, Await, ArmTimeout
  <1>2. ASSUME NEW r \in Requests, SendOverClipboard(r) PROVE NothingWaitsForever'
    BY <1>2 DEF TypeOK, NothingWaitsForever, Asking, SendOverClipboard,
                StartRequest, Await, ArmTimeout
  <1>3. ASSUME NEW r \in Requests, SendSettled(r) PROVE NothingWaitsForever'
    BY <1>3 DEF TypeOK, NothingWaitsForever, Asking, SendSettled, Finish,
                KeepRequest
  <1>4. ASSUME Cancel PROVE NothingWaitsForever'
    BY <1>4 DEF TypeOK, NothingWaitsForever, Asking, Cancel, Finish
  <1>5. ASSUME ResetSession PROVE NothingWaitsForever'
    BY <1>5 DEF TypeOK, NothingWaitsForever, Asking, ResetSession
  <1>6. ASSUME NEW next \in Kinds, SwapProvider(next) PROVE NothingWaitsForever'
    BY <1>6 DEF TypeOK, NothingWaitsForever, Asking, SwapProvider
  <1>7. ASSUME NEW next \in Kinds, Reload(next) PROVE NothingWaitsForever'
    BY <1>7 DEF TypeOK, NothingWaitsForever, Asking, Reload, LostJob, NewJob
  <1>8. ASSUME NEW r \in Requests, PartialReply(r) PROVE NothingWaitsForever'
    BY <1>8 DEF TypeOK, NothingWaitsForever, Asking, PartialReply, Correlates,
                ArmTimeout, KeepRequest
  <1>9. ASSUME NEW r \in Requests, CompleteReply(r) PROVE NothingWaitsForever'
    BY <1>9 DEF TypeOK, NothingWaitsForever, Asking, CompleteReply, Correlates,
                Finish
  <1>10. ASSUME NEW r \in Requests, NEW final \in {"CANCELLED", "FAILED"},
                UnfinishedReply(r, final)
         PROVE  NothingWaitsForever'
    BY <1>10 DEF TypeOK, NothingWaitsForever, Asking, UnfinishedReply,
                 Correlates, Finish
  <1>11. ASSUME NEW r \in Requests \cup {None}, ProviderError(r)
         PROVE  NothingWaitsForever'
    BY <1>11 DEF TypeOK, NothingWaitsForever, Asking, ProviderError,
                 Correlates, Finish
  <1>12. ASSUME NEW c \in Calls, NEW r \in Requests \cup {None}, NEW s \in Sessions,
                RefuseCall(c, r, s)
         PROVE  NothingWaitsForever'
    BY <1>12 DEF TypeOK, NothingWaitsForever, Asking, RefuseCall, Deliver,
                 Finish, KeepRequest, DoneJob, NewJob, Called
  <1>13. ASSUME NEW c \in Calls, NEW r \in Requests \cup {None}, NEW s \in Sessions,
                RunTool(c, r, s)
         PROVE  NothingWaitsForever'
    <2>1. CASE timer = pending
      BY <1>13, <2>1 DEF NothingWaitsForever, RunTool, AcceptCall, KeepRequest
    <2>2. CASE paused /\ Asking # {}
      <3>1. Asking \subseteq Asking'
        BY <1>13 DEF TypeOK, Asking, RunTool, AcceptCall, Called
      <3>2. QED
        BY <1>13, <2>2, <3>1 DEF NothingWaitsForever, RunTool
    <2>3. CASE pending = None
      BY <1>13, <2>3 DEF NothingWaitsForever, RunTool, AcceptCall, KeepRequest
    <2>4. QED
      BY <2>1, <2>2, <2>3 DEF NothingWaitsForever
  <1>14. ASSUME NEW c \in Calls, NEW r \in Requests \cup {None}, NEW s \in Sessions,
                OpenPrompt(c, r, s)
         PROVE  NothingWaitsForever'
    BY <1>14 DEF TypeOK, NothingWaitsForever, Asking, OpenPrompt, AcceptCall,
                 Rejected, KeepRequest
  <1>15. ASSUME NEW c \in Calls, PromptAllowed(c) PROVE NothingWaitsForever'
    BY <1>15 DEF TypeOK, NothingWaitsForever, Asking, PromptAllowed,
                 RearmIfPending, ArmTimeout, KeepRequest
  <1>16. ASSUME NEW c \in Calls, PromptDenied(c) PROVE NothingWaitsForever'
    BY <1>16 DEF TypeOK, NothingWaitsForever, Asking, PromptDenied, Deliver,
                 RearmIfPending, ArmTimeout, Finish, KeepRequest, DoneJob,
                 NewJob
  <1>17. ASSUME NEW c \in Calls, ToolEnds(c) PROVE NothingWaitsForever'
    BY <1>17 DEF TypeOK, NothingWaitsForever, Asking, ToolEnds, Deliver,
                 RearmIfPending, ArmTimeout, Finish, KeepRequest, DoneJob,
                 NewJob
  <1>18. ASSUME NEW c \in Calls, ResultSettled(c) PROVE NothingWaitsForever'
    BY <1>18 DEF TypeOK, NothingWaitsForever, Asking, ResultSettled, Finish,
                 KeepRequest, DoneJob, NewJob
  <1>19. ASSUME TimerFires PROVE NothingWaitsForever'
    BY <1>19 DEF TypeOK, NothingWaitsForever, Asking, TimerFires, Finish,
                 KeepRequest
  <1>20. ASSUME SettleFires PROVE NothingWaitsForever'
    BY <1>20 DEF TypeOK, NothingWaitsForever, Asking, SettleFires, KeepRequest
  <1>21. CASE UNCHANGED vars
    BY <1>21 DEF TypeOK, NothingWaitsForever, Asking, vars, controller
  <1>22. QED
    BY <1>1, <1>2, <1>3, <1>4, <1>5, <1>6, <1>7, <1>8, <1>9, <1>10,
       <1>11, <1>12, <1>13, <1>14, <1>15, <1>16, <1>17, <1>18, <1>19, <1>20, <1>21
       DEF Next, UserActs, FarSideActs, HostActs

(* No step shows an idle or finished state while a request is pending.     *)
LEMMA PanelStep ==
  TypeOK /\ PanelBusyWhilePending /\ [Next]_vars => PanelBusyWhilePending'
  <1> SUFFICES ASSUME TypeOK, PanelBusyWhilePending, [Next]_vars
               PROVE  PanelBusyWhilePending'
    OBVIOUS
  <1>1. ASSUME NEW r \in Requests, SendOverRelay(r) PROVE PanelBusyWhilePending'
    BY <1>1 DEF PanelBusyWhilePending, Working, SendOverRelay, StartRequest,
                Await
  <1>2. ASSUME NEW r \in Requests, SendOverClipboard(r) PROVE PanelBusyWhilePending'
    BY <1>2 DEF PanelBusyWhilePending, Working, SendOverClipboard,
                StartRequest, Await
  <1>3. ASSUME NEW r \in Requests, SendSettled(r) PROVE PanelBusyWhilePending'
    BY <1>3 DEF PanelBusyWhilePending, Working, SendSettled, Finish, KeepRequest
  <1>4. ASSUME Cancel PROVE PanelBusyWhilePending'
    BY <1>4 DEF PanelBusyWhilePending, Working, Cancel, Finish
  <1>5. ASSUME ResetSession PROVE PanelBusyWhilePending'
    BY <1>5 DEF PanelBusyWhilePending, Working, ResetSession
  <1>6. ASSUME NEW next \in Kinds, SwapProvider(next) PROVE PanelBusyWhilePending'
    BY <1>6 DEF PanelBusyWhilePending, Working, SwapProvider
  <1>7. ASSUME NEW next \in Kinds, Reload(next) PROVE PanelBusyWhilePending'
    BY <1>7 DEF PanelBusyWhilePending, Working, Reload
  <1>8. ASSUME NEW r \in Requests, PartialReply(r) PROVE PanelBusyWhilePending'
    BY <1>8 DEF PanelBusyWhilePending, Working, PartialReply, Correlates,
                KeepRequest
  <1>9. ASSUME NEW r \in Requests, CompleteReply(r) PROVE PanelBusyWhilePending'
    BY <1>9 DEF PanelBusyWhilePending, Working, CompleteReply, Correlates,
                Finish
  <1>10. ASSUME NEW r \in Requests, NEW final \in {"CANCELLED", "FAILED"},
                UnfinishedReply(r, final)
         PROVE  PanelBusyWhilePending'
    BY <1>10 DEF PanelBusyWhilePending, Working, UnfinishedReply, Correlates,
                 Finish
  <1>11. ASSUME NEW r \in Requests \cup {None}, ProviderError(r)
         PROVE  PanelBusyWhilePending'
    BY <1>11 DEF PanelBusyWhilePending, Working, ProviderError, Correlates,
                 Finish
  <1>12. ASSUME NEW c \in Calls, NEW r \in Requests \cup {None}, NEW s \in Sessions,
                RefuseCall(c, r, s)
         PROVE  PanelBusyWhilePending'
    BY <1>12 DEF PanelBusyWhilePending, Working, RefuseCall, Deliver, Finish,
                 KeepRequest
  <1>13. ASSUME NEW c \in Calls, NEW r \in Requests \cup {None}, NEW s \in Sessions,
                RunTool(c, r, s)
         PROVE  PanelBusyWhilePending'
    BY <1>13 DEF PanelBusyWhilePending, Working, RunTool, AcceptCall,
                 KeepRequest
  <1>14. ASSUME NEW c \in Calls, NEW r \in Requests \cup {None}, NEW s \in Sessions,
                OpenPrompt(c, r, s)
         PROVE  PanelBusyWhilePending'
    BY <1>14 DEF PanelBusyWhilePending, Working, OpenPrompt, AcceptCall,
                 KeepRequest
  <1>15. ASSUME NEW c \in Calls, PromptAllowed(c) PROVE PanelBusyWhilePending'
    BY <1>15 DEF PanelBusyWhilePending, Working, PromptAllowed, KeepRequest
  <1>16. ASSUME NEW c \in Calls, PromptDenied(c) PROVE PanelBusyWhilePending'
    BY <1>16 DEF PanelBusyWhilePending, Working, PromptDenied, Deliver, Finish,
                 KeepRequest
  <1>17. ASSUME NEW c \in Calls, ToolEnds(c) PROVE PanelBusyWhilePending'
    BY <1>17 DEF PanelBusyWhilePending, Working, ToolEnds, Deliver, Finish,
                 KeepRequest
  <1>18. ASSUME NEW c \in Calls, ResultSettled(c) PROVE PanelBusyWhilePending'
    BY <1>18 DEF PanelBusyWhilePending, Working, ResultSettled, Finish,
                 KeepRequest
  <1>19. ASSUME TimerFires PROVE PanelBusyWhilePending'
    BY <1>19 DEF PanelBusyWhilePending, Working, TimerFires, Finish, KeepRequest
  <1>20. ASSUME SettleFires PROVE PanelBusyWhilePending'
    BY <1>20 DEF PanelBusyWhilePending, Working, SettleFires, KeepRequest
  <1>21. CASE UNCHANGED vars
    BY <1>21 DEF PanelBusyWhilePending, Working, vars, controller
  <1>22. QED
    BY <1>1, <1>2, <1>3, <1>4, <1>5, <1>6, <1>7, <1>8, <1>9, <1>10,
       <1>11, <1>12, <1>13, <1>14, <1>15, <1>16, <1>17, <1>18, <1>19, <1>20, <1>21
       DEF Next, UserActs, FarSideActs, HostActs

(* Delivering a result takes its own call out of the hands of the tools,   *)
(* and leaves the others.                                                  *)
LEMMA DeliverJobs ==
  ASSUME TypeOK, NEW c \in Calls, NEW job \in JobSet, NEW rearm, Deliver(c, job, rearm)
  PROVE  /\ jobs'[c].phase \in {"returning", "done"}
         /\ \A d \in Calls : d # c => jobs'[d] = jobs[d]
  <1>1. PICK outcome \in {DoneJob, [job EXCEPT !.phase = "returning"]} :
          jobs' = [jobs EXCEPT ![c] = outcome]
    BY DEF Deliver
  <1>2. outcome.phase \in {"returning", "done"}
    BY DEF DoneJob, NewJob, JobSet
  <1>3. QED
    BY <1>1, <1>2 DEF TypeOK

(* A tool is given the signal of the request in flight, and keeps it.      *)
LEMMA JobsStep ==
  TypeOK /\ PendingIsLive /\ JobsHoldTheirSignal /\ [Next]_vars => JobsHoldTheirSignal'
  <1> SUFFICES ASSUME TypeOK, PendingIsLive, JobsHoldTheirSignal, [Next]_vars
               PROVE  JobsHoldTheirSignal'
    OBVIOUS
  <1>1. ASSUME NEW r \in Requests, SendOverRelay(r) PROVE JobsHoldTheirSignal'
    BY <1>1 DEF TypeOK, JobSet, PendingIsLive, JobsHoldTheirSignal,
                SendOverRelay, StartRequest, Await
  <1>2. ASSUME NEW r \in Requests, SendOverClipboard(r) PROVE JobsHoldTheirSignal'
    BY <1>2 DEF TypeOK, JobSet, PendingIsLive, JobsHoldTheirSignal,
                SendOverClipboard, StartRequest, Await
  <1>3. ASSUME NEW r \in Requests, SendSettled(r) PROVE JobsHoldTheirSignal'
    BY <1>3 DEF TypeOK, JobSet, PendingIsLive, JobsHoldTheirSignal,
                SendSettled, Finish, KeepRequest
  <1>4. ASSUME Cancel PROVE JobsHoldTheirSignal'
    BY <1>4 DEF TypeOK, JobSet, PendingIsLive, JobsHoldTheirSignal, Cancel,
                Finish
  <1>5. ASSUME ResetSession PROVE JobsHoldTheirSignal'
    BY <1>5 DEF TypeOK, JobSet, PendingIsLive, JobsHoldTheirSignal, ResetSession
  <1>6. ASSUME NEW next \in Kinds, SwapProvider(next) PROVE JobsHoldTheirSignal'
    BY <1>6 DEF TypeOK, JobSet, PendingIsLive, JobsHoldTheirSignal, SwapProvider
  <1>7. ASSUME NEW next \in Kinds, Reload(next) PROVE JobsHoldTheirSignal'
    BY <1>7 DEF TypeOK, JobSet, PendingIsLive, JobsHoldTheirSignal, Reload,
                LostJob, NewJob
  <1>8. ASSUME NEW r \in Requests, PartialReply(r) PROVE JobsHoldTheirSignal'
    BY <1>8 DEF TypeOK, JobSet, PendingIsLive, JobsHoldTheirSignal,
                PartialReply, KeepRequest
  <1>9. ASSUME NEW r \in Requests, CompleteReply(r) PROVE JobsHoldTheirSignal'
    BY <1>9 DEF TypeOK, JobSet, PendingIsLive, JobsHoldTheirSignal,
                CompleteReply, Finish
  <1>10. ASSUME NEW r \in Requests, NEW final \in {"CANCELLED", "FAILED"},
                UnfinishedReply(r, final)
         PROVE  JobsHoldTheirSignal'
    BY <1>10 DEF TypeOK, JobSet, PendingIsLive, JobsHoldTheirSignal,
                 UnfinishedReply, Finish
  <1>11. ASSUME NEW r \in Requests \cup {None}, ProviderError(r)
         PROVE  JobsHoldTheirSignal'
    BY <1>11 DEF TypeOK, JobSet, PendingIsLive, JobsHoldTheirSignal,
                 ProviderError, Finish
  <1>12. ASSUME NEW c \in Calls, NEW r \in Requests \cup {None}, NEW s \in Sessions,
                RefuseCall(c, r, s)
         PROVE  JobsHoldTheirSignal'
    <2>1. [jobs[c] EXCEPT !.request = r] \in JobSet
      BY DEF TypeOK, JobSet
    <2>2. QED
      BY <1>12, <2>1, DeliverJobs DEF JobsHoldTheirSignal, RefuseCall
  <1>13. ASSUME NEW c \in Calls, NEW r \in Requests \cup {None}, NEW s \in Sessions,
                RunTool(c, r, s)
         PROVE  JobsHoldTheirSignal'
    BY <1>13 DEF TypeOK, JobSet, PendingIsLive, JobsHoldTheirSignal, RunTool,
                 AcceptCall, Rejected, KeepRequest
  <1>14. ASSUME NEW c \in Calls, NEW r \in Requests \cup {None}, NEW s \in Sessions,
                OpenPrompt(c, r, s)
         PROVE  JobsHoldTheirSignal'
    BY <1>14 DEF TypeOK, JobSet, PendingIsLive, JobsHoldTheirSignal,
                 OpenPrompt, AcceptCall, Rejected, KeepRequest
  <1>15. ASSUME NEW c \in Calls, PromptAllowed(c) PROVE JobsHoldTheirSignal'
    BY <1>15 DEF TypeOK, JobSet, PendingIsLive, JobsHoldTheirSignal,
                 PromptAllowed, KeepRequest
  <1>16. ASSUME NEW c \in Calls, PromptDenied(c) PROVE JobsHoldTheirSignal'
    BY <1>16, DeliverJobs DEF TypeOK, JobsHoldTheirSignal, PromptDenied
  <1>17. ASSUME NEW c \in Calls, ToolEnds(c) PROVE JobsHoldTheirSignal'
    BY <1>17, DeliverJobs DEF TypeOK, JobsHoldTheirSignal, ToolEnds
  <1>18. ASSUME NEW c \in Calls, ResultSettled(c) PROVE JobsHoldTheirSignal'
    <2>1. /\ jobs'[c].phase = "done"
          /\ \A d \in Calls : d # c => jobs'[d] = jobs[d]
      BY <1>18 DEF TypeOK, ResultSettled, DoneJob, NewJob
    <2>2. QED
      BY <2>1 DEF JobsHoldTheirSignal
  <1>19. ASSUME TimerFires PROVE JobsHoldTheirSignal'
    BY <1>19 DEF TypeOK, JobSet, PendingIsLive, JobsHoldTheirSignal,
                 TimerFires, Finish, KeepRequest
  <1>20. ASSUME SettleFires PROVE JobsHoldTheirSignal'
    BY <1>20 DEF TypeOK, JobSet, PendingIsLive, JobsHoldTheirSignal,
                 SettleFires, KeepRequest
  <1>21. CASE UNCHANGED vars
    BY <1>21 DEF TypeOK, JobSet, PendingIsLive, JobsHoldTheirSignal, vars,
                 controller
  <1>22. QED
    BY <1>1, <1>2, <1>3, <1>4, <1>5, <1>6, <1>7, <1>8, <1>9, <1>10,
       <1>11, <1>12, <1>13, <1>14, <1>15, <1>16, <1>17, <1>18, <1>19, <1>20, <1>21
       DEF Next, UserActs, FarSideActs, HostActs

-----------------------------------------------------------------------------
(* The invariant is inductive, and so holds in every reachable state.      *)
THEOREM Invariant == Spec => []IInv
  <1>1. IInv /\ [Next]_vars => IInv'
    <2> SUFFICES ASSUME IInv, [Next]_vars PROVE IInv'
      OBVIOUS
    <2>1. TypeOK'
      BY TypeStep DEF IInv
    <2>2. Fate
      BY StepFate DEF IInv
    <2>3. PendingIsLive' /\ EndsOnce' /\ EndingIsOwn' /\ CancelledIsAborted' /\ FinalHasEnded'
      BY <2>2, LiveStep, EndsStep, OwnStep, AbortStep, FinalStep DEF IInv
    <2>4. NothingWaitsForever' /\ PanelBusyWhilePending' /\ JobsHoldTheirSignal'
      BY ClockStep, PanelStep, JobsStep DEF IInv
    <2>5. QED
      BY <2>1, <2>3, <2>4 DEF IInv
  <1>2. QED
    BY InitIInv, <1>1, PTL DEF Spec

(* The variables keep their types (TypeOK).                                *)
THEOREM TypeCorrect == Spec => []TypeOK
  BY Invariant, PTL DEF IInv

(* A pending request always has its clock running, or suspended by a prompt*)
(* that is still open (armTimeout, pauseTimeout, resumeTimeout).           *)
THEOREM ClockAlwaysGuards == Spec => []NothingWaitsForever
  BY Invariant, PTL DEF IInv

(* No request ends twice (finish).                                         *)
THEOREM EveryRequestEndsOnce == Spec => []EndsOnce
  BY Invariant, PTL DEF IInv

(* The panel never says a pending request is over (setRequestState).       *)
THEOREM PanelFollowsPending == Spec => []PanelBusyWhilePending
  BY Invariant, PTL DEF IInv

(* A request ends for a reason of its own, or by a failed delivery.        *)
THEOREM EndingsAreOwn == Spec => []EndingIsOwn
  BY Invariant, PTL DEF IInv

(* Cancelling a request aborts every tool working for it (cancel).         *)
THEOREM CancelAlwaysReachesTools == Spec => []CancelReachesTools
  <1>1. IInv => CancelReachesTools
    BY DEF IInv, CancelReachesTools, JobsHoldTheirSignal, CancelledIsAborted
  <1>2. QED
    BY <1>1, Invariant, PTL

(* A late or duplicate reply never changes the conversation                *)
(* (handleResponse, replaceStreamingMessage).                              *)
THEOREM LateRepliesDropped == Spec => RepliesOnlyWhileOpen
  <1>1. IInv /\ [Next]_vars => [ReplyWhileOpen]_vars
    <2> SUFFICES ASSUME IInv, [Next]_vars PROVE ReplyWhileOpen
      OBVIOUS
    <2> SUFFICES ASSUME NEW s \in Sessions, NEW r \in Requests,
                        transcript'[s][r] # transcript[s][r]
                 PROVE  /\ r = pending
                        /\ s = session /\ s = home[r]
                        /\ ended[r] = NotEnded
                        /\ transcript[s][r] # "final"
      BY DEF ReplyWhileOpen
    <2>1. Fate
      BY StepFate DEF IInv
    <2>2. pending # None /\ r = pending /\ s = session
      BY <2>1, WritesOne DEF IInv, Fate, Quiet, Abandons, Starts, Ends
    <2>3. QED
      BY <2>2 DEF IInv, PendingIsLive, FinalHasEnded
  <1>2. QED
    BY <1>1, Invariant, PTL DEF Spec, RepliesOnlyWhileOpen

-----------------------------------------------------------------------------
(* The refinement of RequestLife.                                          *)

(* What the mapping says of a request.                                     *)
LEMMA LifeFacts ==
  ASSUME TypeOK, PendingIsLive, EndsOnce
  PROVE  /\ pending # None => /\ pending \in Requests /\ Lives[pending] = "open"
                              /\ home[pending] = session /\ session \in Sessions
         /\ \A r \in Requests : Lives[r] = "open" => r = pending
         /\ \A r \in Requests : r = sends + 1 => Lives[r] = "unsent"
  <1>1. \A r \in Requests : ended[r] # NotEnded => ended[r].why \in Reasons
    BY DEF TypeOK, Causes
  <1>2. \A r \in Requests : r \in Nat /\ sends \in Nat
    BY BoundsAssumption DEF TypeOK, Requests
  <1>3. \A r \in Requests : Lives[r] = "open" => r = pending
    BY <1>1 DEF Lives, Reasons
  <1>4. pending # None => pending \in Requests /\ Lives[pending] = "open"
    BY <1>2 DEF TypeOK, PendingIsLive, Lives, Sent
  <1>5. \A r \in Requests : r = sends + 1 => Lives[r] = "unsent"
    BY <1>2 DEF Lives
  <1>6. QED
    BY <1>3, <1>4, <1>5 DEF PendingIsLive, TypeOK

(* Each of the four fates is a step of RequestLife, or leaves its          *)
(* variables alone.                                                        *)
LEMMA FateRefines ==
  ASSUME IInv, IInv', Fate
  PROVE  [Life!LifeNext]_(Life!lifeVars)
  <1> USE DEF Life!lifeVars
  <1>0. TypeOK /\ PendingIsLive /\ EndsOnce /\ TypeOK' /\ PendingIsLive' /\ EndsOnce'
    BY DEF IInv
  <1>1. CASE Quiet
    <2>1. Lives' = Lives /\ home' = home
      BY <1>1 DEF Quiet, Lives
    <2>2. CASE Writes("partial")
      <3>1. Life!Stream(pending)
        BY <1>0, <2>1, <2>2, LifeFacts DEF Writes, Life!Stream, Life!Shows
      <3>2. QED
        BY <1>0, <2>2, <3>1, LifeFacts DEF Writes, Life!LifeNext
    <2>3. QED
      BY <1>1, <2>1, <2>2 DEF Quiet
  <1>2. CASE Abandons
    <2>1. CASE pending = None
      <3>1. Lives' = Lives
        BY <1>2, <2>1 DEF Abandons, Lives
      <3>2. QED
        BY <1>2, <3>1 DEF Abandons
    <2>2. CASE pending # None
      <3>0. pending \in Requests /\ pending \in 1 .. sends /\ sends \in Nat
        BY <1>0, <2>2, BoundsAssumption DEF TypeOK, PendingIsLive, Sent
      <3>1. Lives' = [Lives EXCEPT ![pending] = "left"]
        <4>1. ~(pending > sends) /\ ended[pending] = NotEnded
          BY <1>0, <2>2, <3>0 DEF PendingIsLive
        <4>2. \A q \in Requests : Lives'[q] = IF q = pending THEN "left" ELSE Lives[q]
          BY <1>2, <3>0, <4>1, NoneIsNoRequest DEF Abandons, Lives
        <4>3. QED
          BY <3>0, <4>2 DEF Lives
      <3>2. Life!Close(pending)
        BY <1>0, <1>2, <2>2, <3>1, LifeFacts DEF Abandons, Life!Close, Life!Becomes
      <3>3. QED
        BY <1>0, <2>2, <3>2, LifeFacts DEF Life!LifeNext
    <2>3. QED
      BY <2>1, <2>2
  <1>3. ASSUME NEW r \in Requests, Starts(r) PROVE [Life!LifeNext]_(Life!lifeVars)
    <2>1. Lives[r] = "unsent" /\ \A q \in Requests : Lives[q] # "open"
      BY <1>0, <1>3, LifeFacts, NoneIsNoRequest DEF Starts
    <2>2. home' = [home EXCEPT ![r] = session]
      BY <1>0, <1>3 DEF Starts, TypeOK
    <2>3. \E what \in {"open", "send undelivered"} : Lives' = [Lives EXCEPT ![r] = what]
      <3>1. \A q \in Requests : q \in Nat /\ sends \in Nat
        BY <1>0, BoundsAssumption DEF TypeOK, Requests
      <3>2. ASSUME NEW q \in Requests, q # r PROVE Lives'[q] = Lives[q]
        <4>1. q > sends' <=> q > sends
          <5>1. sends' = sends + 1 /\ q # sends + 1 /\ q \in Nat /\ sends \in Nat
            BY <1>3, <3>1, <3>2 DEF Starts
          <5>2. QED
            BY <5>1
        <4>2. ended'[q] = ended[q] /\ pending # q /\ pending' # q
          BY <1>3, <3>2, NoneIsNoRequest DEF Starts
        <4>3. QED
          BY <4>1, <4>2 DEF Lives
      <3>3. ended[r] = NotEnded
        BY <1>0, <1>3, CountFacts DEF EndsOnce, Starts, Sent
      <3>4. Lives'[r] \in {"open", "send undelivered"}
        <4>1. ~(r > sends')
          <5>1. sends' = r /\ r \in Nat
            BY <1>3, <3>1 DEF Starts
          <5>2. QED
            BY <5>1
        <4>2. CASE pending' = r /\ ended'[r] = ended[r]
          BY <3>3, <4>1, <4>2 DEF Lives
        <4>3. CASE ended'[r] = [why |-> "send undelivered", by |-> r]
          <5>0. "send undelivered" \in Reasons /\ r \in Requests \cup {None}
            BY DEF Reasons
          <5>1. /\ [why |-> "send undelivered", by |-> r] # NotEnded
                /\ [why |-> "send undelivered", by |-> r].why = "send undelivered"
            BY <5>0, EndingFacts
          <5>2. ended'[r] # NotEnded /\ ended'[r].why = "send undelivered"
            BY <4>3, <5>1, Zenon
          <5>3. QED
            BY <4>1, <5>2 DEF Lives
        <4>4. QED
          BY <1>3, <4>2, <4>3 DEF Starts
      <3>5. QED
        BY <3>2, <3>4 DEF Lives
    <2>4. Life!Ask(r, session)
      BY <1>3, <2>1, <2>2, <2>3 DEF Starts, Reasons, Life!Ask, Life!Becomes
    <2>5. QED
      BY <1>0, <2>4 DEF TypeOK, Life!LifeNext
  <1>4. ASSUME NEW why \in Reasons, NEW by \in Requests \cup {None}, Ends(why, by)
        PROVE  [Life!LifeNext]_(Life!lifeVars)
    <2>1. CASE pending = None
      <3>1. Lives' = Lives
        BY <1>0, <1>4, <2>1, NoneIsNoRequest DEF Ends, Lives
      <3>2. QED
        BY <1>4, <2>1, <3>1 DEF Ends, Writes
    <2>2. CASE pending # None
      <3>1. pending \in Requests /\ pending \in Sent
        BY <1>0, <2>2 DEF TypeOK, PendingIsLive
      <3>2. \A q \in Requests : Lives'[q] = IF q = pending THEN why ELSE Lives[q]
        <4>1. ~(pending > sends)
          BY <1>0, <3>1, BoundsAssumption DEF Sent, TypeOK
        <4>2. QED
          BY <1>4, <3>1, <4>1, EndingFacts, NoneIsNoRequest DEF Ends, Lives
      <3>3. Lives' = [Lives EXCEPT ![pending] = why]
        BY <3>1, <3>2 DEF Lives
      <3>4. Life!Answer(pending) \/ Life!Close(pending)
        BY <1>0, <1>4, <2>2, <3>3, LifeFacts
           DEF Ends, Writes, Life!Answer, Life!Close, Life!Becomes, Life!Shows
      <3>5. QED
        BY <3>1, <3>4 DEF Life!LifeNext
    <2>3. QED
      BY <2>1, <2>2
  <1>5. QED
    BY <1>1, <1>2, <1>3, <1>4 DEF Fate

(* The request lifecycle keeps the promises of RequestLife: requests end   *)
(* once, replies grow only while theirs is open (CoachController).         *)
THEOREM PromisesHeld == Spec => PromisesKept
  <1>1. Init => Life!LifeInit
    <2> SUFFICES ASSUME Init PROVE Life!LifeInit
      OBVIOUS
    <2>1. \A r \in Requests : r > sends
      BY DEF Init, Requests
    <2>2. Lives = [r \in Requests |-> "unsent"]
      BY <2>1 DEF Lives
    <2>3. QED
      BY <2>2 DEF Init, Life!LifeInit
  <1>2. IInv /\ IInv' /\ [Next]_vars => [Life!LifeNext]_(Life!lifeVars)
    BY StepFate, FateRefines DEF IInv
  <1>3. QED
    BY <1>1, <1>2, Invariant, PTL DEF Spec, PromisesKept, Life!LifeSpec
=============================================================================
