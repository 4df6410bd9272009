--------------------------- MODULE BrowserPairing ---------------------------
(***************************************************************************)
(* Which chats the browser's service worker can reach (background.ts):     *)
(* tabs are paired on sight or by hand, restored from storage whenever the *)
(* keepalive alarm fires, opened for the editor, and closed by the user;   *)
(* the browser may kill the worker at any time.                            *)
(*                                                                         *)
(* The worker is single threaded.  Everything it asks of the browser and   *)
(* of a page is awaited, and any other event may run meanwhile.            *)
(***************************************************************************)
EXTENDS Naturals, Sequences, SequencesExt

CONSTANTS
  Sites,      \* surface types
  NoSite,     \* undefined, where a surface type is expected
  MaxTabs,    \* tabs ever opened; an id is never used again
  Opens,      \* surface.open request ids
  MaxCopies,  \* times the relay delivers one surface.open
  MaxKills    \* times the worker is killed

ASSUME PairingAssumption ==
  /\ NoSite \notin Sites
  /\ MaxTabs \in Nat /\ MaxCopies \in Nat /\ MaxKills \in Nat

VARIABLES
  where,      \* the chat each tab shows, NoSite before it is opened
  alive,      \* tabs that are open
  pairings,   \* the pairing record of each site
  order,      \* the sites in the map, in order of insertion
  preferred,  \* the chat a request goes to when it names none
  opening,    \* chats being opened
  stored,     \* the saved records, in order
  loading,    \* loadState is under way
  todo,       \* the saved records it has not restored yet
  probing,    \* tabs autoPair waits for, in the background
  job,        \* how far the openSurface of each request has got
  jobTab,     \* the tab it is about, 0: none yet
  wanted,     \* the chat each surface.open names
  outcome,    \* surfaceOpenResults
  copies,     \* times each surface.open was delivered
  owes,       \* deliveries not acknowledged yet
  threw,      \* requests whose openSurface ended in an exception, since their last outcome
  created,    \* tabs each surface.open has created, in this worker's life
  kills

tabs   == <<where, alive>>
map    == <<pairings, order>>
memory == <<map, preferred, opening, stored, loading, todo, probing>>
jobs   == <<job, jobTab, wanted, outcome, copies, owes, threw, created>>
vars   == <<tabs, memory, jobs, kills>>

Tabs     == 1 .. MaxTabs
Unpaired == [tab |-> 0, status |-> "none"]
Records  == {Unpaired} \cup
            [tab : Tabs, status : {"ready", "blocked", "lost", "closed"}]
Nothing  == [s \in Sites |-> Unpaired]
Entry    == [site : Sites, tab : Tabs, status : {"ready", "blocked", "lost", "closed"}]

TypeOK ==
  /\ where \in [Tabs -> Sites \cup {NoSite}]
  /\ alive \subseteq Tabs
  /\ pairings \in [Sites -> Records]
  /\ IsInjective(order) /\ ToSet(order) = {s \in Sites : pairings[s] # Unpaired}
  /\ preferred \in Sites \cup {NoSite}
  /\ opening \subseteq Sites
  /\ ToSet(stored) \subseteq Entry /\ ToSet(todo) \subseteq Entry
  /\ loading \in BOOLEAN
  /\ probing \subseteq Tabs
  /\ job \in [Opens -> {"none", "checking", "checking blocked", "retrying", "sweeping",
                       "loading", "probing", "switching", "switching new"}]
  /\ jobTab \in [Opens -> 0 .. MaxTabs]
  /\ wanted \in [Opens -> Sites \cup {NoSite}]
  /\ outcome \in [Opens -> {"none", "ready", "blocked", "failed"}]
  /\ copies \in [Opens -> 0 .. MaxCopies] /\ owes \in [Opens -> 0 .. MaxCopies]
  /\ threw \subseteq Opens
  /\ created \in [Opens -> Nat]
  /\ kills \in 0 .. MaxKills

Init ==
  /\ where = [t \in Tabs |-> NoSite] /\ alive = {}
  /\ pairings = Nothing /\ order = << >> /\ preferred = NoSite
  /\ opening = {} /\ stored = << >>
  /\ loading = FALSE /\ todo = << >> /\ probing = {}
  /\ job = [o \in Opens |-> "none"] /\ jobTab = [o \in Opens |-> 0]
  /\ wanted = [o \in Opens |-> NoSite]
  /\ outcome = [o \in Opens |-> "none"]
  /\ copies = [o \in Opens |-> 0] /\ owes = [o \in Opens |-> 0]
  /\ threw = {}
  /\ created = [o \in Opens |-> 0]
  /\ kills = 0

-----------------------------------------------------------------------------
(* The map and what is saved of it.                                        *)

Ready(s) == pairings[s].status = "ready"
Healthy(s) == Ready(s) /\ pairings[s].tab \in alive

FirstReady(list, records) ==
  LET ready == {i \in DOMAIN list : records[list[i]].status = "ready"}
  IN IF ready = {} THEN NoSite ELSE list[Min(ready)]

(* savePairings: the whole map, as it is after this step.                  *)
savePairings ==
  stored' = [i \in DOMAIN order' |->
    [site |-> order'[i], tab |-> pairings'[order'[i]].tab,
     status |-> pairings'[order'[i]].status]]

Put(s, t, status) ==
  /\ pairings' = [pairings EXCEPT ![s] = [tab |-> t, status |-> status]]
  /\ order' = IF pairings[s] = Unpaired THEN Append(order, s) ELSE order

(* What autoPair does with the answer of tab t's page: it answered, the    *)
(* browser's policy forbids it, or there was no answer.                    *)
Answered(t, answer) ==
  CASE answer = "probed" /\ t \in alive ->
         /\ Put(where[t], t, "ready")
         /\ savePairings
         /\ preferred' = IF preferred = NoSite THEN where[t] ELSE preferred
    [] answer = "blocked" /\ t \in alive ->
         Put(where[t], t, "blocked") /\ savePairings /\ UNCHANGED preferred
    [] OTHER -> UNCHANGED <<map, stored, preferred>>

Answers == {"probed", "blocked", "silent"}

-----------------------------------------------------------------------------
(* The user.                                                               *)

Unused     == {t \in Tabs : where[t] = NoSite}
HasNextTab == Unused # {}
NextTab    == Min(Unused)

UserOpens(s) ==
  /\ HasNextTab
  /\ where' = [where EXCEPT ![NextTab] = s]
  /\ alive' = alive \cup {NextTab}
  /\ UNCHANGED <<memory, jobs, kills>>

(* tabs.onRemoved.                                                         *)
TabClosed(t) ==
  /\ t \in alive
  /\ alive' = alive \ {t}
  /\ pairings' = [s \in Sites |->
       IF pairings[s].tab = t THEN [pairings[s] EXCEPT !.status = "closed"]
       ELSE pairings[s]]
  /\ UNCHANGED order
  /\ IF \E s \in Sites : pairings[s].tab = t THEN savePairings ELSE UNCHANGED stored
  /\ UNCHANGED <<where, preferred, opening, loading, todo, probing, jobs, kills>>

(* pair-current-tab, when the page answers or the policy forbids it.       *)
PairCurrentTab(t) ==
  /\ t \in alive
  /\ Put(where[t], t, "ready")
  /\ savePairings
  /\ preferred' = where[t]
  /\ UNCHANGED <<tabs, opening, loading, todo, probing, jobs, kills>>

PairForbidden(t) ==
  /\ t \in alive
  /\ Put(where[t], t, "blocked")
  /\ savePairings
  /\ UNCHANGED <<tabs, preferred, opening, loading, todo, probing, jobs, kills>>

Unpair ==
  /\ pairings' = Nothing /\ order' = << >> /\ preferred' = NoSite
  /\ stored' = << >>
  /\ UNCHANGED <<tabs, opening, loading, todo, probing, jobs, kills>>

-----------------------------------------------------------------------------
(* Pairing on sight: a page finished loading, or a sweep came to the tab,  *)
(* which passes over a tab known to be blocked.                            *)

StartPairing(t) ==
  /\ t \in alive \ probing
  /\ ~Healthy(where[t])
  /\ probing' = probing \cup {t}
  /\ UNCHANGED <<tabs, map, preferred, opening, stored, loading, todo, jobs, kills>>

AutoPair(t, answer) ==
  /\ t \in probing
  /\ probing' = probing \ {t}
  /\ Answered(t, answer)
  /\ UNCHANGED <<tabs, opening, loading, todo, jobs, kills>>

-----------------------------------------------------------------------------
(* loadState: at startup and at every keepalive alarm.                     *)

(* Restored one by one, each after asking whether its tab still exists.    *)
(* The last one chooses the preferred chat and saves.                      *)
LoadStart ==
  /\ ~loading
  /\ pairings' = Nothing /\ order' = << >>
  /\ todo' = stored
  /\ loading' = (stored # << >>)
  /\ preferred' = IF stored = << >> THEN NoSite ELSE preferred
  /\ UNCHANGED <<tabs, opening, stored, probing, jobs, kills>>

(* Faulty: the saved status is believed.                                   *)
RestoreAsSaved ==
  /\ loading
  /\ LET e == Head(todo) IN Put(e.site, e.tab, e.status)
  /\ todo' = Tail(todo) /\ loading' = (Tail(todo) # << >>)
  /\ IF Tail(todo) = << >>
     THEN /\ preferred' = FirstReady(order', pairings')
          /\ savePairings
     ELSE UNCHANGED <<preferred, stored>>
  /\ UNCHANGED <<tabs, opening, probing, jobs, kills>>

Restore ==
  /\ loading
  /\ LET e == Head(todo)
     IN Put(e.site, e.tab, IF e.tab \in alive THEN e.status ELSE "lost")
  /\ todo' = Tail(todo) /\ loading' = (Tail(todo) # << >>)
  /\ IF Tail(todo) = << >>
     THEN /\ preferred' = FirstReady(order', pairings')
          /\ savePairings
     ELSE UNCHANGED <<preferred, stored>>
  /\ UNCHANGED <<tabs, opening, probing, jobs, kills>>

-----------------------------------------------------------------------------
(* surface.open.                                                           *)

Goto(o, place, t) ==
  /\ job' = [job EXCEPT ![o] = place]
  /\ jobTab' = [jobTab EXCEPT ![o] = t]

(* Faulty: only the copy that started the job is answered.                 *)
AcknowledgeFirst(o, result) ==
  /\ Goto(o, "none", 0)
  /\ outcome' = [outcome EXCEPT ![o] = result]
  /\ owes' = [owes EXCEPT ![o] = @ - 1]
  /\ threw' = threw \ {o}

(* A job's outcome answers every copy that was waiting for it.             *)
Acknowledge(o, result) ==
  /\ Goto(o, "none", 0)
  /\ outcome' = [outcome EXCEPT ![o] = result]
  /\ owes' = [owes EXCEPT ![o] = 0]
  /\ threw' = threw \ {o}

Unmark(o) == opening' = opening \ {wanted[o]}

Finish(o, result) == Acknowledge(o, result) /\ Unmark(o)

GoOn(o, place, t) == Goto(o, place, t) /\ UNCHANGED <<opening, outcome, owes, threw>>

(* The chat is there: it becomes the preferred one, and applyVariant       *)
(* switches its model before the copies are answered.                      *)
Opened(o) ==
  /\ preferred' = wanted[o] /\ Unmark(o) /\ Goto(o, "switching", 0)
  /\ UNCHANGED <<outcome, owes, threw>>

(* The same in a tab that was opened for it; the mark is taken off last.   *)
OpenedNew(o) == preferred' = wanted[o] /\ GoOn(o, "switching new", 0)

(* An exception that nothing catches: the copies that wait are not         *)
(* answered, and the chat stays marked.                                    *)
Throw(o) ==
  /\ Goto(o, "none", 0) /\ threw' = threw \cup {o}
  /\ UNCHANGED <<opening, outcome, owes>>

Look(s) == IF Ready(s) THEN "checking" ELSE "checking blocked"

(* Faulty: a copy that comes while the job runs starts another.            *)
OpenTwice(o, s) ==
  /\ copies[o] < MaxCopies /\ outcome[o] = "none"
  /\ wanted[o] \in {NoSite, s}
  /\ copies' = [copies EXCEPT ![o] = @ + 1]
  /\ wanted' = [wanted EXCEPT ![o] = s]
  /\ owes' = [owes EXCEPT ![o] = @ + 1]
  /\ opening' = opening \cup {s}
  /\ IF Ready(s) \/ pairings[s].status = "blocked"
     THEN Goto(o, Look(s), pairings[s].tab)
     ELSE Goto(o, "sweeping", 0)
  /\ UNCHANGED <<tabs, map, preferred, stored, loading, todo, probing, outcome, threw, created,
                 kills>>

(* A copy of surface.open o arrives.  Its outcome is answered at once when *)
(* there is one; else it waits for the job, which the first copy starts.   *)
SurfaceOpen(o, s) ==
  /\ copies[o] < MaxCopies
  /\ wanted[o] \in {NoSite, s}
  /\ copies' = [copies EXCEPT ![o] = @ + 1]
  /\ wanted' = [wanted EXCEPT ![o] = s]
  /\ owes' = IF outcome[o] = "none" THEN [owes EXCEPT ![o] = @ + 1] ELSE owes
  /\ IF outcome[o] = "none" /\ job[o] = "none"
     THEN /\ opening' = opening \cup {s}
          /\ IF Ready(s) \/ pairings[s].status = "blocked"
             THEN Goto(o, Look(s), pairings[s].tab)
             ELSE Goto(o, "sweeping", 0)
     ELSE UNCHANGED <<opening, job, jobTab>>
  /\ UNCHANGED <<tabs, map, preferred, stored, loading, todo, probing, outcome, threw, created,
                 kills>>

(* A model that is no chat of this table: refused at once.                 *)
SurfaceUnknown(o) ==
  /\ copies[o] < MaxCopies /\ wanted[o] = NoSite
  /\ copies' = [copies EXCEPT ![o] = @ + 1]
  /\ outcome' = [outcome EXCEPT ![o] = "failed"]
  /\ UNCHANGED <<tabs, memory, job, jobTab, wanted, owes, threw, created, kills>>

OpenKeep == UNCHANGED <<tabs, loading, todo, probing, wanted, copies, kills>>

(* tabExists of the record found at the start.  A blocked tab is retried,  *)
(* which begins as every autoPair does with a look for a healthy pairing.  *)
Checked(o) ==
  /\ job[o] \in {"checking", "checking blocked"}
  /\ IF jobTab[o] \notin alive
     THEN GoOn(o, "sweeping", 0) /\ UNCHANGED preferred
     ELSE IF job[o] = "checking"
     THEN Opened(o)
     ELSE IF Healthy(wanted[o])
     THEN Finish(o, "ready") /\ preferred' = wanted[o]
     ELSE GoOn(o, "retrying", jobTab[o]) /\ UNCHANGED preferred
  /\ UNCHANGED <<map, stored, created>> /\ OpenKeep

(* The end of the job's own sweep.                                         *)
Swept(o) ==
  /\ job[o] = "sweeping"
  /\ \/ /\ Ready(wanted[o])
        /\ Opened(o)
        /\ UNCHANGED <<tabs, created>>
     \/ /\ ~Ready(wanted[o]) /\ HasNextTab
        /\ where' = [where EXCEPT ![NextTab] = wanted[o]]
        /\ alive' = alive \cup {NextTab}
        /\ created' = [created EXCEPT ![o] = @ + 1]
        /\ GoOn(o, "loading", NextTab)
        /\ UNCHANGED preferred
     \/ /\ ~Ready(wanted[o])
        /\ Finish(o, "failed")
        /\ UNCHANGED <<tabs, preferred, created>>
  /\ UNCHANGED <<map, stored, loading, todo, probing, wanted, copies, kills>>

(* The browser refuses to list the tabs.                                   *)
SweepThrows(o) ==
  /\ job[o] = "sweeping" /\ Throw(o)
  /\ UNCHANGED <<map, stored, preferred, created>> /\ OpenKeep

(* waitForTabLoad, and what autoPair looks at first.                       *)
TabLoaded(o) ==
  /\ job[o] = "loading" /\ jobTab[o] \in alive
  /\ IF Healthy(wanted[o])
     THEN OpenedNew(o)
     ELSE GoOn(o, "probing", jobTab[o]) /\ UNCHANGED preferred
  /\ UNCHANGED <<map, stored, created>> /\ OpenKeep

(* Closed, or not loaded within its time.                                  *)
TabNotLoaded(o) ==
  /\ job[o] = "loading"
  /\ Finish(o, "failed")
  /\ UNCHANGED <<map, stored, preferred, created>> /\ OpenKeep

(* autoPair's last probe of the tab, of a retry or of a new tab.           *)
Probed(o, answer) ==
  /\ job[o] \in {"retrying", "probing"}
  /\ LET t == jobTab[o]
     IN IF answer = "probed" /\ t \in alive
        THEN /\ Put(where[t], t, "ready") /\ savePairings
             /\ IF job[o] = "probing"
                THEN OpenedNew(o)
                ELSE Finish(o, "ready") /\ preferred' = wanted[o]
        ELSE /\ Answered(t, answer)
             /\ Finish(o, IF answer = "blocked" /\ t \in alive THEN "blocked" ELSE "failed")
  /\ UNCHANGED created /\ OpenKeep

(* The tab is paired, or known to be blocked, but it cannot be saved.  Only *)
(* the exception in a new tab is caught.                                   *)
NotSaved(o, status) ==
  /\ job[o] \in {"retrying", "probing"} /\ jobTab[o] \in alive
  /\ LET t == jobTab[o]
     IN /\ Put(where[t], t, status)
        /\ preferred' = IF status = "ready" /\ preferred = NoSite THEN where[t] ELSE preferred
  /\ IF job[o] = "probing" THEN Finish(o, "failed") ELSE Throw(o)
  /\ UNCHANGED <<stored, created>> /\ OpenKeep

(* The chat's model is switched, or it is not, which fails nothing.        *)
Switched(o) ==
  /\ \/ job[o] = "switching" /\ Acknowledge(o, "ready") /\ UNCHANGED opening
     \/ job[o] = "switching new" /\ Finish(o, "ready")
  /\ UNCHANGED <<map, stored, preferred, created>> /\ OpenKeep

-----------------------------------------------------------------------------
(* The browser kills the worker; an event or an alarm starts a new one.    *)
Killed ==
  /\ kills < MaxKills
  /\ kills' = kills + 1
  /\ pairings' = Nothing /\ order' = << >> /\ preferred' = NoSite
  /\ opening' = {} /\ loading' = FALSE /\ todo' = << >> /\ probing' = {}
  /\ job' = [o \in Opens |-> "none"] /\ jobTab' = [o \in Opens |-> 0]
  /\ outcome' = [o \in Opens |-> "none"] /\ owes' = [o \in Opens |-> 0]
  /\ threw' = {} /\ created' = [o \in Opens |-> 0]
  /\ UNCHANGED <<tabs, stored, wanted, copies>>

-----------------------------------------------------------------------------
Opening(o) ==
  \/ Checked(o)
  \/ Swept(o) \/ SweepThrows(o)
  \/ TabLoaded(o) \/ TabNotLoaded(o)
  \/ \E answer \in Answers : Probed(o, answer)
  \/ \E status \in {"ready", "blocked"} : NotSaved(o, status)
  \/ Switched(o)

Next ==
  \/ \E s \in Sites : UserOpens(s)
  \/ \E t \in Tabs : TabClosed(t) \/ PairCurrentTab(t) \/ PairForbidden(t)
  \/ Unpair
  \/ \E t \in Tabs : StartPairing(t) \/ \E answer \in Answers : AutoPair(t, answer)
  \/ LoadStart \/ Restore
  \/ \E o \in Opens : (\E s \in Sites : SurfaceOpen(o, s)) \/ SurfaceUnknown(o) \/ Opening(o)
  \/ Killed

Spec == Init /\ [][Next]_vars

-----------------------------------------------------------------------------
(* What the worker promises.                                               *)

(* One surface.open creates at most one tab in a worker's life, however    *)
(* often it is delivered and whatever is paired or closed meanwhile        *)
(* (surfaceOpenJobs).  That only 64 outcomes are kept is not modelled: no  *)
(* run of the worker opens so many chats between two copies of a message.  *)
OneTabPerOpen == \A o \in Opens : created[o] <= 1

(* No request is routed to a tab that is closed, also after the worker was *)
(* dead or reloading its records when it closed (onRemoved, loadState).    *)
ReadyIsOpen == \A s \in Sites : Ready(s) => pairings[s].tab \in alive

(* A chat is marked as being opened only while it is: left set, it would   *)
(* keep every later request waiting.  And a copy of a surface.open that is *)
(* still owed an answer waits for a job that is under way, unless the job  *)
(* ended in an exception (acknowledgeSurfaceOpen, openSurface's exits).    *)
OpensAccounted ==
  /\ \A s \in opening : \E o \in Opens : wanted[o] = s /\ (job[o] # "none" \/ o \in threw)
  /\ \A o \in Opens : owes[o] > 0 => job[o] # "none" \/ o \in threw

(* "Opens once and always sends one terminal acknowledgement": whatever    *)
(* fails on the way, who is owed one has a job to wait for.                *)
AlwaysAcknowledged == \A o \in Opens : owes[o] > 0 => job[o] # "none"
=============================================================================
