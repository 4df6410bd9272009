----------------------------- MODULE SurfacePicks -----------------------------
(***************************************************************************)
(* Choosing which chat answers: the pickModel and chatModel commands, the  *)
(* pending opens of RelayCoachProvider, the selection ExtensionState       *)
(* keeps, and what the browser worker reports, over a relay that hands     *)
(* messages on in order while both ends are attached and loses them while  *)
(* one is not.  How the worker opens a chat is in BrowserPairing.          *)
(***************************************************************************)
EXTENDS Naturals, Sequences, FiniteSets, FiniteSetsExt

CONSTANTS
  Models,    \* the chats there are
  NoModel,   \* none of them
  MaxOpens,  \* bound: opens asked for
  MaxUpset   \* bound: connections lost, tabs closed and routes changed

VARIABLES
  route,    \* "relay", or "other" while another provider is in use
  linked,   \* the editor's connection is open
  browser,  \* the worker's connection is open
  opens,    \* opens asked for; an id each
  latest,   \* latestModelPick: the open of the last pick, or none of them
  want,     \* the chat each open names
  waiting,  \* pendingSurfaceOpens
  result,   \* what became of each open, as the command that asked sees it
  chosen,   \* ExtensionState.chosenModel
  listed,   \* ExtensionState.surfaces: the status of each chat
  down,     \* opens on their way to the worker
  job,      \* how far the worker's openSurface has got
  up,       \* messages on their way to the editor
  surf,     \* the worker's pairing records
  lost,     \* a message was lost, or a chat chosen without being opened
  upsets

editorVars == <<route, opens, latest, want, waiting, result, chosen, listed>>
wireVars   == <<linked, browser, down, up, lost>>
pickVars   == <<editorVars, wireVars, job, surf, upsets>>

OpenIds  == 1 .. MaxOpens
Statuses == {"none", "ready", "blocked", "closed"}

PicksTypeOK ==
  /\ route \in {"relay", "other"} /\ {linked, browser, lost} \subseteq BOOLEAN
  /\ opens \in 0 .. MaxOpens /\ latest \in 0 .. MaxOpens + 1
  /\ want \in [OpenIds -> Models \cup {NoModel}]
  /\ waiting \cup down \subseteq 1 .. opens
  /\ result \in [OpenIds -> {"none", "pending", "ready", "late", "blocked", "failed"}]
  /\ chosen \in Models \cup {NoModel}
  /\ listed \in [Models -> Statuses] /\ surf \in [Models -> Statuses]
  /\ job \in [OpenIds -> {"none", "working", "reported", "done"}]
  /\ upsets \in 0 .. MaxUpset

PicksInit ==
  /\ route = "relay" /\ linked = TRUE /\ browser = TRUE
  /\ opens = 0 /\ latest = 0
  /\ want = [r \in OpenIds |-> NoModel]
  /\ waiting = {} /\ result = [r \in OpenIds |-> "none"]
  /\ chosen = NoModel /\ listed = [m \in Models |-> "none"]
  /\ down = {} /\ job = [r \in OpenIds |-> "none"] /\ up = <<>>
  /\ surf = [m \in Models |-> "none"]
  /\ lost = FALSE /\ upsets = 0

Opened(r, status) == [type |-> "opened", open |-> r, status |-> status]
Report(records)   == [type |-> "status", records |-> records]

(* From the worker to the editor, through the relay.                       *)
Tell(messages) ==
  IF linked /\ browser
  THEN up' = up \o messages /\ UNCHANGED lost
  ELSE lost' = TRUE /\ UNCHANGED up

-----------------------------------------------------------------------------
(* The editor.                                                             *)

(* Faulty: a late answer counts as the last pick's.                        *)
SelectsAny(done) ==
  LET ready == {r \in DOMAIN done : done[r] = "ready"} IN
  [now   |-> done,
   model |-> IF ready # {} THEN want[Max(ready)] ELSE chosen]

(* What the commands make of answers: only the last pick is selected, and  *)
(* an open that only switches the model inside a chat selects nothing.     *)
Selects(done) ==
  [now   |-> [r \in DOMAIN done |->
                IF done[r] = "ready" /\ r # latest THEN "late" ELSE done[r]],
   model |-> IF latest \in DOMAIN done /\ done[latest] = "ready" THEN want[latest] ELSE chosen]

(* finishSurfaceOpen: `done` holds the status each open ends with.         *)
Finish(done) ==
  LET s == Selects(done) IN
  /\ waiting' = waiting \ DOMAIN done
  /\ result' = [r \in OpenIds |-> IF r \in DOMAIN done THEN s.now[r] ELSE result[r]]
  /\ chosen' = s.model

(* openSurface, for a command that selects (picks) or not.  With no        *)
(* browser the relay answers by itself; with no connection send throws.    *)
Open(m, picks) ==
  LET r == opens + 1 IN
  /\ route = "relay" /\ opens < MaxOpens
  /\ opens' = r /\ want' = [want EXCEPT ![r] = m]
  /\ latest' = IF picks THEN r ELSE latest
  /\ result' = [result EXCEPT ![r] = IF linked THEN "pending" ELSE "failed"]
  /\ waiting' = IF linked THEN waiting \cup {r} ELSE waiting
  /\ down' = IF linked /\ browser THEN down \cup {r} ELSE down
  /\ up' = IF linked /\ ~browser THEN Append(up, Opened(r, "failed")) ELSE up
  /\ UNCHANGED <<route, chosen, listed, linked, browser, lost, job, surf, upsets>>

(* A pick the user dismisses: it counts as the last one all the same.      *)
Dismiss ==
  /\ latest \in 1 .. MaxOpens /\ latest' = MaxOpens + 1
  /\ UNCHANGED <<route, opens, want, waiting, result, chosen, listed, wireVars, job, surf,
                 upsets>>

(* A pick while another provider is in use: the chat is selected as it is. *)
PickUnopened(m) ==
  LET r == opens + 1 IN
  /\ route = "other" /\ opens < MaxOpens
  /\ opens' = r /\ want' = [want EXCEPT ![r] = m] /\ latest' = r
  /\ result' = [result EXCEPT ![r] = "ready"]
  /\ chosen' = m /\ lost' = TRUE
  /\ UNCHANGED <<route, waiting, listed, linked, browser, down, up, job, surf, upsets>>

(* SURFACE_OPEN_TIMEOUT_MS.                                                *)
OpenTimesOut(r) ==
  /\ r \in waiting
  /\ Finish([q \in {r} |-> "failed"])
  /\ UNCHANGED <<route, opens, latest, want, listed, wireVars, job, surf, upsets>>

(* handle, "surface.opened".                                               *)
HearOpened(m) ==
  /\ IF m.open \in waiting
     THEN Finish([r \in {m.open} |-> m.status])
     ELSE UNCHANGED <<waiting, result, chosen>>
  /\ UNCHANGED listed

(* setSurfaces.                                                            *)
StillSelected(records) ==
  IF chosen # NoModel /\ records[chosen] # "ready" THEN NoModel ELSE chosen

(* handle, "surface.status": the selection is checked, and the opens of    *)
(* the chats that are ready or blocked are over.                           *)
HearStatus(m) ==
  LET over == {r \in waiting : m.records[want[r]] \in {"ready", "blocked"}}
      s    == Selects([r \in over |-> m.records[want[r]]])
  IN  /\ listed' = m.records
      /\ waiting' = waiting \ over
      /\ result' = [r \in OpenIds |-> IF r \in over THEN s.now[r] ELSE result[r]]
      /\ chosen' = IF s.model # chosen THEN s.model ELSE StillSelected(m.records)

Hear ==
  /\ up # <<>> /\ up' = Tail(up)
  /\ \/ Head(up).type = "opened" /\ HearOpened(Head(up))
     \/ Head(up).type = "status" /\ HearStatus(Head(up))
  /\ UNCHANGED <<route, opens, latest, want, linked, browser, down, lost, job, surf, upsets>>

-----------------------------------------------------------------------------
(* The browser's worker.                                                   *)

Start(r) ==
  /\ browser /\ r \in down /\ down' = down \ {r}
  /\ job' = [job EXCEPT ![r] = "working"]
  /\ UNCHANGED <<editorVars, linked, browser, up, lost, surf, upsets>>

(* openSurface has the chat ready and reports it; the model inside it is   *)
(* switched next, and the open is acknowledged after that.                 *)
ReportReady(r) ==
  /\ job[r] = "working"
  /\ job' = [job EXCEPT ![r] = "reported"]
  /\ surf' = [surf EXCEPT ![want[r]] = "ready"]
  /\ Tell(<<Report(surf')>>)
  /\ UNCHANGED <<editorVars, linked, browser, down, upsets>>

AckReady(r) ==
  /\ job[r] = "reported"
  /\ job' = [job EXCEPT ![r] = "done"]
  /\ Tell(<<Opened(r, "ready")>>)
  /\ UNCHANGED <<editorVars, linked, browser, down, surf, upsets>>

(* autoPair reports a blocked page, and openSurface acknowledges it.       *)
AckBlocked(r) ==
  /\ job[r] = "working"
  /\ job' = [job EXCEPT ![r] = "done"]
  /\ surf' = [surf EXCEPT ![want[r]] = "blocked"]
  /\ Tell(<<Report(surf'), Opened(r, "blocked")>>)
  /\ UNCHANGED <<editorVars, linked, browser, down, upsets>>

AckFailed(r) ==
  /\ job[r] = "working"
  /\ job' = [job EXCEPT ![r] = "done"]
  /\ Tell(<<Opened(r, "failed")>>)
  /\ UNCHANGED <<editorVars, linked, browser, down, surf, upsets>>

-----------------------------------------------------------------------------
(* What goes wrong.                                                        *)
Upset == upsets < MaxUpset /\ upsets' = upsets + 1

TabCloses(m) ==
  /\ Upset /\ surf[m] = "ready"
  /\ surf' = [surf EXCEPT ![m] = "closed"]
  /\ Tell(<<Report(surf')>>)
  /\ UNCHANGED <<editorVars, linked, browser, down, job>>

(* The worker's socket closes, or the worker is killed with its jobs.      *)
BrowserDrops(killed) ==
  /\ Upset /\ browser /\ browser' = FALSE
  /\ job' = IF killed
            THEN [r \in OpenIds |-> IF job[r] = "none" THEN "none" ELSE "done"]
            ELSE job
  /\ lost' = (lost \/ down # {}) /\ down' = {}
  /\ UNCHANGED <<editorVars, linked, up, surf>>

(* The worker is welcomed again, and says what it is paired with.          *)
BrowserReturns ==
  /\ ~browser /\ browser' = TRUE
  /\ IF linked THEN up' = Append(up, Report(surf)) ELSE UNCHANGED up
  /\ lost' = (lost \/ ~linked)
  /\ UNCHANGED <<editorVars, linked, down, job, surf, upsets>>

EditorDrops ==
  /\ Upset /\ linked /\ linked' = FALSE
  /\ up' = <<>> /\ lost' = (lost \/ up # <<>>)
  /\ UNCHANGED <<editorVars, browser, down, job, surf>>

EditorReturns ==
  /\ route = "relay" /\ ~linked /\ linked' = TRUE
  /\ UNCHANGED <<editorVars, browser, down, up, lost, job, surf, upsets>>

(* Faulty: the pending opens are forgotten and not answered.               *)
ForgetsOpens ==
  /\ waiting' = {}
  /\ UNCHANGED <<result, chosen>>

(* finishAllSurfaceOpens.                                                  *)
FailsOpens == Finish([r \in waiting |-> "failed"])

(* swapProvider disconnects the relay's provider, and later makes one.     *)
LeaveRelay ==
  /\ Upset /\ route = "relay" /\ route' = "other"
  /\ FailsOpens
  /\ linked' = FALSE /\ up' = <<>> /\ lost' = (lost \/ up # <<>>)
  /\ UNCHANGED <<opens, latest, want, listed, browser, down, job, surf>>

ReturnToRelay ==
  /\ route = "other" /\ route' = "relay"
  /\ UNCHANGED <<opens, latest, want, waiting, result, chosen, listed, wireVars, job, surf,
                 upsets>>

PicksNext ==
  \/ \E m \in Models : PickUnopened(m) \/ TabCloses(m) \/ \E p \in BOOLEAN : Open(m, p)
  \/ Dismiss \/ Hear
  \/ \E r \in OpenIds : \/ OpenTimesOut(r) \/ Start(r) \/ ReportReady(r) \/ AckReady(r)
                        \/ AckBlocked(r) \/ AckFailed(r)
  \/ BrowserReturns \/ EditorDrops \/ EditorReturns \/ LeaveRelay \/ ReturnToRelay
  \/ \E k \in BOOLEAN : BrowserDrops(k)

(* A timer fires.                                                          *)
PicksFairness == \A r \in OpenIds : WF_pickVars(OpenTimesOut(r))

PicksSpec == PicksInit /\ [][PicksNext]_pickVars
FairPicksSpec == PicksSpec /\ PicksFairness

-----------------------------------------------------------------------------
(* The chat selected is the one of the last pick that was answered in      *)
(* time: an answer to an earlier pick does not take its place.  And once   *)
(* the editor has heard everything, and nothing was lost, it can answer    *)
(* ("Selection is a promise that this chat can answer now").               *)
SelectionHolds ==
  chosen # NoModel =>
    LET ready == {r \in OpenIds : result[r] = "ready"} IN
    /\ ready # {} /\ chosen = want[Max(ready)]
    /\ ~lost /\ up = <<>> => surf[chosen] = "ready"

(* Every open is answered: by the browser, by a status, by the timer, or   *)
(* by the provider's end.                                                  *)
OpensEnd == \A r \in OpenIds : result[r] = "pending" ~> result[r] # "pending"
=============================================================================
