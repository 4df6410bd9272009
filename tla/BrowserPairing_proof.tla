------------------------ MODULE BrowserPairing_proof ------------------------
(***************************************************************************)
(* Proofs about which chats the browser's worker can reach, for every set  *)
(* of chats and of opens, and every number of tabs, copies and kills.      *)
(***************************************************************************)
EXTENDS BrowserPairing, SequenceTheorems, WellFoundedInduction, TLAPS

Statuses == {"ready", "blocked", "lost", "closed"}

(* The map lists each chat that has a record, once.                        *)
MapOK ==
  /\ pairings \in [Sites -> Records]
  /\ order \in Seq(Sites) /\ IsInjective(order)
  /\ ToSet(order) = {s \in Sites : pairings[s] # Unpaired}

(* What is saved, and what is left to restore, are records.                *)
SavedOK ==
  /\ stored \in Seq(Entry) /\ todo \in Seq(Entry)
  /\ loading \in BOOLEAN /\ (loading <=> todo # << >>)

(* A tab that is open shows a chat.                                        *)
TabsOK ==
  /\ where \in [Tabs -> Sites \cup {NoSite}]
  /\ alive \subseteq Tabs /\ \A t \in alive : where[t] \in Sites
  /\ probing \subseteq Tabs
  /\ preferred \in Sites \cup {NoSite}
  /\ kills \in 0 .. MaxKills

Before == {"checking", "checking blocked", "retrying", "sweeping"}
After  == {"loading", "probing", "switching", "switching new"}

JobsTypeOK ==
  /\ job \in [Opens -> {"none"} \cup Before \cup After]
  /\ jobTab \in [Opens -> 0 .. MaxTabs]
  /\ wanted \in [Opens -> Sites \cup {NoSite}]
  /\ outcome \in [Opens -> {"none", "ready", "blocked", "failed"}]
  /\ copies \in [Opens -> 0 .. MaxCopies] /\ owes \in [Opens -> 0 .. MaxCopies]
  /\ threw \subseteq Opens
  /\ created \in [Opens -> 0 .. 1]
  /\ opening \subseteq Sites

(* An open knows its chat once it is worked on, and has made no tab as    *)
(* long as it may still make one.                                          *)
JobsOK ==
  \A o \in Opens :
    /\ owes[o] <= copies[o]
    /\ job[o] # "none" \/ o \in threw => wanted[o] \in Sites
    /\ job[o] \in Before \/ (job[o] = "none" /\ outcome[o] = "none") => created[o] = 0

(* While its model is switched, an open has taken the mark off its chat;    *)
(* another may have put one there since.                                   *)
Marks(o) == job[o] # "switching" /\ (job[o] # "none" \/ o \in threw)

MarksHeld == \A s \in opening : \E o \in Opens : wanted[o] = s /\ Marks(o)

CopiesWait == \A o \in Opens : owes[o] > 0 => job[o] # "none" \/ o \in threw

IInv ==
  /\ MapOK /\ SavedOK /\ TabsOK /\ JobsTypeOK /\ JobsOK
  /\ ReadyIsOpen /\ MarksHeld /\ CopiesWait
-----------------------------------------------------------------------------
(* Facts about the parts a step is made of.                                *)

LEMMA LeastNumber ==
  ASSUME NEW S \in SUBSET Nat, S # {}
  PROVE  Min(S) \in S
<1>1. PICK x \in S : \A y \in S : ~ (<<y, x>> \in OpToRel(<, Nat))
  BY NatLessThanWellFounded, WFMin
<1>2. \A y \in S : ~ (y < x)
  BY <1>1, Zenon DEF OpToRel
<1>3. \A y \in S : x <= y
  BY <1>2
<1> QED
  BY <1>3 DEF Min

(* The next tab is one that was never used.                                *)
LEMMA NextTabIsNew ==
  ASSUME TabsOK, HasNextTab
  PROVE  NextTab \in Tabs /\ where[NextTab] = NoSite /\ NextTab \notin alive
<1>1. Unused \in SUBSET Nat /\ Unused # {}
  BY PairingAssumption DEF HasNextTab, Unused, Tabs
<1>2. NextTab \in Unused
  BY <1>1, LeastNumber DEF NextTab
<1> QED
  BY <1>2, PairingAssumption DEF Unused, TabsOK

(* The chat chosen after a restart is one of the list, or none.            *)
LEMMA FirstReadyFacts ==
  ASSUME NEW list \in Seq(Sites), NEW records
  PROVE  FirstReady(list, records) \in Sites \cup {NoSite}
<1> DEFINE ready == {i \in DOMAIN list : records[list[i]].status = "ready"}
<1>1. ready \in SUBSET Nat
  OBVIOUS
<1>2. CASE ready = {}
  BY <1>2 DEF FirstReady
<1>3. CASE ready # {}
  <2>1. Min(ready) \in ready
    BY <1>1, <1>3, LeastNumber
  <2> HIDE DEF ready
  <2>2. ready \subseteq DOMAIN list /\ FirstReady(list, records) = list[Min(ready)]
    BY <1>3 DEF ready, FirstReady
  <2> QED
    BY <2>1, <2>2
<1> QED
  BY <1>2, <1>3

(* A record is put in the map once, for its own chat.                      *)
LEMMA PutFacts ==
  ASSUME MapOK, NEW s \in Sites, NEW t \in Tabs, NEW status \in Statuses, Put(s, t, status)
  PROVE  /\ MapOK'
         /\ pairings'[s] = [tab |-> t, status |-> status]
         /\ \A r \in Sites : r # s => pairings'[r] = pairings[r]
<1> DEFINE record == [tab |-> t, status |-> status]
<1>1. record \in Records /\ record # Unpaired
  BY DEF Records, Unpaired, Statuses
<1>2. pairings' = [pairings EXCEPT ![s] = record]
  BY DEF Put
<1> HIDE DEF record
<1>3. /\ pairings' \in [Sites -> Records] /\ pairings'[s] = record
      /\ \A r \in Sites : r # s => pairings'[r] = pairings[r]
  BY <1>1, <1>2 DEF MapOK
<1>4. {r \in Sites : pairings'[r] # Unpaired} = {r \in Sites : pairings[r] # Unpaired} \cup {s}
  BY <1>1, <1>3
<1>5. order' \in Seq(Sites) /\ IsInjective(order')
      /\ ToSet(order') = {r \in Sites : pairings'[r] # Unpaired}
  <2>1. CASE pairings[s] # Unpaired
    <3>1. order' = order
      BY <2>1 DEF Put
    <3> QED
      BY <2>1, <3>1, <1>4 DEF MapOK
  <2>2. CASE pairings[s] = Unpaired
    <3>1. order' = Append(order, s) /\ s \notin ToSet(order)
      BY <2>2 DEF Put, MapOK
    <3>2. order \in Seq(Sites) /\ order' \in Seq(Sites) /\ Len(order') = Len(order) + 1
          /\ (\A i \in 1 .. Len(order) : order'[i] = order[i])
          /\ order'[Len(order) + 1] = s
      BY <3>1, AppendProperties DEF MapOK
    <3>3. DOMAIN order = 1 .. Len(order) /\ DOMAIN order' = 1 .. Len(order) + 1
          /\ Len(order) \in Nat
      BY <3>2
    <3>4. \A i \in DOMAIN order : order[i] # s
      BY <3>1 DEF ToSet
    <3>5. IsInjective(order')
      BY <3>2, <3>3, <3>4 DEF IsInjective, MapOK
    <3>6. ToSet(order') = ToSet(order) \cup {s}
      BY <3>2, <3>3 DEF ToSet
    <3> QED
      BY <3>2, <3>5, <3>6, <1>4 DEF MapOK
  <2> QED
    BY <2>1, <2>2
<1> QED
  BY <1>3, <1>5 DEF MapOK, record

(* What is saved of a good map are records.                                *)
LEMMA SaveFacts ==
  ASSUME MapOK', savePairings
  PROVE  stored' \in Seq(Entry)
<1>1. order' \in Seq(Sites) /\ \A i \in DOMAIN order' : pairings'[order'[i]] # Unpaired
  BY DEF MapOK, ToSet
<1>2. \A i \in DOMAIN order' :
        [site |-> order'[i], tab |-> pairings'[order'[i]].tab,
         status |-> pairings'[order'[i]].status] \in Entry
  <2>1. TAKE i \in DOMAIN order'
  <2>2. order'[i] \in Sites
    BY <1>1
  <2>3. pairings'[order'[i]] \in [tab : Tabs, status : {"ready", "blocked", "lost", "closed"}]
    BY <1>1, <2>2 DEF MapOK, Records
  <2> QED
    BY <2>2, <2>3 DEF Entry
<1>3. stored' \in [1 .. Len(order') -> Entry] /\ Len(order') \in Nat
  BY <1>1, <1>2 DEF savePairings
<1> QED
  BY <1>3
-----------------------------------------------------------------------------
(* The map, and that a chat is ready only in a tab that is open.           *)

MapStays == MapOK' /\ ReadyIsOpen' /\ stored' \in Seq(Entry)

LEMMA MapUntouched ==
  ASSUME IInv, UNCHANGED <<map, stored>>, alive \subseteq alive'
  PROVE  MapStays
<1>1. MapOK' /\ ReadyIsOpen'
  BY DEF IInv, MapOK, map, ReadyIsOpen, Ready
<1> QED
  BY <1>1 DEF IInv, SavedOK, MapStays

LEMMA MapForgotten ==
  ASSUME pairings' = Nothing, order' = << >>, stored' \in Seq(Entry)
  PROVE  MapStays
<1>1. Nothing \in [Sites -> Records] /\ \A s \in Sites : Nothing[s] = Unpaired
  BY DEF Nothing, Records
<1>2. ReadyIsOpen'
  BY <1>1 DEF ReadyIsOpen, Ready, Unpaired
<1>3. MapOK'
  BY <1>1 DEF MapOK, IsInjective, ToSet
<1> QED
  BY <1>2, <1>3 DEF MapStays

(* A page that answered is the chat's tab if it is still open.             *)
LEMMA MapPaired ==
  ASSUME IInv, NEW t \in alive, NEW status \in Statuses,
         Put(where[t], t, status), savePairings, alive' = alive
  PROVE  MapStays
<1>1. t \in Tabs /\ where[t] \in Sites
  BY DEF IInv, TabsOK
<1>2. /\ MapOK' /\ pairings'[where[t]] = [tab |-> t, status |-> status]
      /\ \A r \in Sites : r # where[t] => pairings'[r] = pairings[r]
  BY <1>1, PutFacts DEF IInv
<1>3. ReadyIsOpen'
  BY <1>2 DEF IInv, ReadyIsOpen, Ready
<1> QED
  BY <1>2, <1>3, SaveFacts DEF MapStays

(* A closed tab leaves its chat with a record that says so.                *)
LEMMA MapAfterClosing ==
  ASSUME IInv, NEW t \in Tabs, TabClosed(t)
  PROVE  MapStays
<1>1. \A s \in Sites :
        pairings'[s] = IF pairings[s].tab = t THEN [pairings[s] EXCEPT !.status = "closed"]
                       ELSE pairings[s]
  BY DEF TabClosed
<1>2. \A s \in Sites : pairings[s] \in Records
  BY DEF IInv, MapOK
<1>3. \A s \in Sites :
        /\ pairings'[s] \in Records
        /\ pairings'[s] = Unpaired <=> pairings[s] = Unpaired
        /\ pairings'[s].status = "ready" =>
             pairings[s].status = "ready" /\ pairings'[s].tab = pairings[s].tab
             /\ pairings[s].tab # t
  <2> TAKE s \in Sites
  <2>1. CASE pairings[s].tab = t
    <3>1. pairings[s] \in [tab : Tabs, status : {"ready", "blocked", "lost", "closed"}]
      BY <1>2, <2>1, PairingAssumption DEF Records, Unpaired, Tabs
    <3>2. pairings'[s] = [pairings[s] EXCEPT !.status = "closed"]
      BY <1>1, <2>1
    <3> QED
      BY <3>1, <3>2 DEF Records, Unpaired
  <2>2. CASE pairings[s].tab # t
    BY <1>1, <1>2, <2>2
  <2> QED
    BY <2>1, <2>2
<1>4. pairings' \in [Sites -> Records] /\ order' = order /\ alive' = alive \ {t}
  BY <1>3 DEF TabClosed
<1>5. MapOK'
  BY <1>3, <1>4 DEF IInv, MapOK
<1>6. ReadyIsOpen'
  BY <1>3, <1>4 DEF IInv, ReadyIsOpen, Ready
<1>7. stored' \in Seq(Entry)
  BY <1>5, SaveFacts DEF TabClosed, IInv, SavedOK
<1> QED
  BY <1>5, <1>6, <1>7 DEF MapStays

(* A restored record is ready only if its tab is open at that moment.      *)
LEMMA MapRestored ==
  ASSUME IInv, Restore
  PROVE  /\ MapStays
         /\ todo' \in Seq(Entry) /\ (loading' <=> todo' # << >>)
         /\ preferred' \in Sites \cup {NoSite}
<1> DEFINE e  == Head(todo)
           st == IF e.tab \in alive THEN e.status ELSE "lost"
<1>1. todo \in Seq(Entry) /\ todo # << >>
  BY DEF IInv, SavedOK, Restore
<1>2. e \in Entry /\ Tail(todo) \in Seq(Entry)
  BY <1>1, HeadTailProperties
<1>3. e.site \in Sites /\ e.tab \in Tabs /\ st \in Statuses /\ (st = "ready" => e.tab \in alive)
  BY <1>2 DEF Entry, Statuses
<1>4. Put(e.site, e.tab, st) /\ todo' = Tail(todo) /\ (loading' <=> Tail(todo) # << >>)
      /\ alive' = alive
  BY DEF Restore, tabs
<1> HIDE DEF e, st
<1>5. /\ MapOK' /\ pairings'[e.site] = [tab |-> e.tab, status |-> st]
      /\ \A r \in Sites : r # e.site => pairings'[r] = pairings[r]
  BY <1>3, <1>4, PutFacts DEF IInv
<1>6. ReadyIsOpen'
  BY <1>3, <1>4, <1>5 DEF IInv, ReadyIsOpen, Ready
<1>7. stored' \in Seq(Entry) /\ preferred' \in Sites \cup {NoSite}
  <2>1. CASE Tail(todo) = << >>
    <3>1. savePairings /\ preferred' = FirstReady(order', pairings')
      BY <2>1 DEF Restore
    <3>2. order' \in Seq(Sites)
      BY <1>5 DEF MapOK
    <3> QED
      BY <1>5, <3>1, <3>2, SaveFacts, FirstReadyFacts
  <2>2. CASE Tail(todo) # << >>
    BY <2>2 DEF Restore, IInv, SavedOK, TabsOK
  <2> QED
    BY <2>1, <2>2
<1> QED
  BY <1>2, <1>4, <1>5, <1>6, <1>7 DEF MapStays

(* The answer of a page pairs its tab, or changes nothing.                 *)
LEMMA AnswerFacts ==
  ASSUME IInv, NEW t, NEW answer \in Answers, Answered(t, answer), alive' = alive
  PROVE  MapStays /\ preferred' \in Sites \cup {NoSite}
<1>1. CASE answer = "probed" /\ t \in alive
  <2>1. Put(where[t], t, "ready") /\ savePairings
        /\ preferred' = IF preferred = NoSite THEN where[t] ELSE preferred
    BY <1>1 DEF Answered
  <2>2. where[t] \in Sites
    BY <1>1 DEF IInv, TabsOK
  <2>3. MapStays
    BY <1>1, <2>1, MapPaired DEF Statuses
  <2> QED
    BY <2>1, <2>2, <2>3 DEF IInv, TabsOK
<1>2. CASE answer = "blocked" /\ t \in alive
  <2>1. Put(where[t], t, "blocked") /\ savePairings /\ preferred' = preferred
    BY <1>2 DEF Answered
  <2> QED
    BY <1>2, <2>1, MapPaired DEF Statuses, IInv, TabsOK
<1>3. CASE t \notin alive \/ answer = "silent"
  <2>1. UNCHANGED <<map, stored, preferred>>
    BY <1>3 DEF Answered
  <2> QED
    BY <2>1, MapUntouched DEF IInv, TabsOK
<1> QED
  BY <1>1, <1>2, <1>3 DEF Answers
-----------------------------------------------------------------------------
(* The opens.                                                              *)

JobsStay == JobsTypeOK' /\ JobsOK' /\ MarksHeld' /\ CopiesWait'

(* An open that ends answers every copy, and takes its mark off unless it  *)
(* did so before.                                                          *)
LEMMA EndKeeps ==
  ASSUME IInv, NEW o \in Opens, NEW result \in {"ready", "blocked", "failed"},
         Acknowledge(o, result), job[o] # "none",
         Unmark(o) \/ (job[o] = "switching" /\ UNCHANGED opening),
         UNCHANGED <<wanted, copies, created>>
  PROVE  JobsStay
<1>1. /\ job' = [job EXCEPT ![o] = "none"] /\ jobTab' = [jobTab EXCEPT ![o] = 0]
      /\ outcome' = [outcome EXCEPT ![o] = result] /\ owes' = [owes EXCEPT ![o] = 0]
      /\ threw' = threw \ {o}
      /\ opening' = opening \ {wanted[o]} \/ (job[o] = "switching" /\ opening' = opening)
  BY DEF Acknowledge, Goto, Unmark
<1>2. JobsTypeOK'
  BY <1>1, PairingAssumption DEF IInv, JobsTypeOK
<1>3. /\ job'[o] = "none" /\ outcome'[o] = result /\ owes'[o] = 0 /\ o \notin threw'
      /\ \A p \in Opens : p # o => /\ job'[p] = job[p] /\ outcome'[p] = outcome[p]
                                  /\ owes'[p] = owes[p] /\ (p \in threw' <=> p \in threw)
  BY <1>1 DEF IInv, JobsTypeOK
<1>4. JobsOK'
  <2>1. result # "none" /\ "none" \notin Before
    BY DEF Before
  <2>2. copies[o] \in Nat
    BY PairingAssumption DEF IInv, JobsTypeOK
  <2> QED
    BY <1>3, <2>1, <2>2 DEF IInv, JobsOK
<1>5. MarksHeld'
  <2> SUFFICES ASSUME NEW s \in opening'
               PROVE  \E p \in Opens : wanted[p] = s /\ Marks(p)'
    BY DEF MarksHeld
  <2>1. PICK p \in Opens : wanted[p] = s /\ Marks(p)
    BY <1>1 DEF IInv, MarksHeld
  <2>2. p # o
    BY <1>1, <2>1 DEF Marks
  <2> QED
    BY <1>3, <2>1, <2>2 DEF Marks
<1>6. CopiesWait'
  BY <1>3 DEF IInv, CopiesWait
<1> QED
  BY <1>2, <1>4, <1>5, <1>6 DEF JobsStay

LEMMA FinishKeeps ==
  ASSUME IInv, NEW o \in Opens, NEW result \in {"ready", "blocked", "failed"},
         Finish(o, result), job[o] # "none", UNCHANGED <<wanted, copies, created>>
  PROVE  JobsStay
BY EndKeeps DEF Finish

(* An open under way goes on or throws, and has made no tab before it      *)
(* loads one.                                                              *)
LEMMA MoveKeeps ==
  ASSUME IInv, NEW o \in Opens, job[o] # "none",
         NEW place \in {"none"} \cup Before \cup After, NEW t \in 0 .. MaxTabs, Goto(o, place, t),
         Unmark(o) \/ (place # "switching" /\ UNCHANGED opening),
         threw' = (IF place = "none" THEN threw \cup {o} ELSE threw),
         created' \in [Opens -> 0 .. 1], \A p \in Opens : p # o => created'[p] = created[p],
         place \in {"none"} \cup Before => created'[o] = 0,
         UNCHANGED <<outcome, owes, wanted, copies>>
  PROVE  JobsStay
<1>1. /\ job' = [job EXCEPT ![o] = place] /\ jobTab' = [jobTab EXCEPT ![o] = t]
      /\ opening' = opening \ {wanted[o]} \/ (place # "switching" /\ opening' = opening)
  BY DEF Goto, Unmark
<1>2. JobsTypeOK'
  <2>1. threw' \subseteq Opens /\ opening' \subseteq Sites
    BY <1>1 DEF IInv, JobsTypeOK
  <2> QED
    BY <1>1, <2>1 DEF IInv, JobsTypeOK
<1>3. /\ job'[o] = place /\ (place # "none" \/ o \in threw') /\ wanted[o] \in Sites
      /\ \A p \in Opens : p # o => job'[p] = job[p] /\ (p \in threw' <=> p \in threw)
  BY <1>1 DEF IInv, JobsTypeOK, JobsOK
<1>4. JobsOK'
  BY <1>3 DEF IInv, JobsOK
<1>5. MarksHeld'
  <2> SUFFICES ASSUME NEW s \in opening'
               PROVE  \E p \in Opens : wanted[p] = s /\ Marks(p)'
    BY DEF MarksHeld
  <2>1. PICK p \in Opens : wanted[p] = s /\ Marks(p)
    BY <1>1 DEF IInv, MarksHeld
  <2>2. p = o => place # "switching"
    BY <1>1, <2>1
  <2> QED
    BY <1>3, <2>1, <2>2 DEF Marks
<1>6. CopiesWait'
  BY <1>3 DEF IInv, CopiesWait
<1> QED
  BY <1>2, <1>4, <1>5, <1>6 DEF JobsStay

(* A copy of an open starts it, waits for it, or has its outcome.          *)
LEMMA SurfaceOpenKeeps ==
  ASSUME IInv, NEW o \in Opens, NEW s \in Sites, SurfaceOpen(o, s)
  PROVE  JobsStay
<1> DEFINE starts == outcome[o] = "none" /\ job[o] = "none"
<1>1. /\ copies' = [copies EXCEPT ![o] = copies[o] + 1]
      /\ wanted' = [wanted EXCEPT ![o] = s] /\ wanted[o] \in {NoSite, s}
      /\ owes' = IF outcome[o] = "none" THEN [owes EXCEPT ![o] = owes[o] + 1] ELSE owes
      /\ copies[o] < MaxCopies /\ UNCHANGED <<outcome, threw, created>>
  BY DEF SurfaceOpen
<1>2. /\ copies[o] \in Nat /\ owes[o] \in Nat /\ owes[o] <= copies[o]
      /\ copies[o] + 1 \in 0 .. MaxCopies /\ owes[o] + 1 \in 0 .. MaxCopies
  BY <1>1, PairingAssumption DEF IInv, JobsTypeOK, JobsOK
<1>3. /\ \A p \in Opens : p # o => /\ copies'[p] = copies[p] /\ owes'[p] = owes[p]
                                   /\ wanted'[p] = wanted[p]
      /\ copies'[o] = copies[o] + 1 /\ wanted'[o] = s
      /\ owes'[o] = IF outcome[o] = "none" THEN owes[o] + 1 ELSE owes[o]
  BY <1>1 DEF IInv, JobsTypeOK
<1>4. copies' \in [Opens -> 0 .. MaxCopies] /\ owes' \in [Opens -> 0 .. MaxCopies]
      /\ wanted' \in [Opens -> Sites \cup {NoSite}]
  BY <1>1, <1>2 DEF IInv, JobsTypeOK
<1>5. CASE starts
  <2>1. PICK place \in Before, t \in 0 .. MaxTabs :
          job' = [job EXCEPT ![o] = place] /\ jobTab' = [jobTab EXCEPT ![o] = t]
    <3>1. pairings[s].tab \in 0 .. MaxTabs
      BY PairingAssumption DEF IInv, MapOK, Records, Unpaired, Tabs
    <3>2. Look(s) \in Before /\ "sweeping" \in Before /\ 0 \in 0 .. MaxTabs
      BY PairingAssumption DEF Look, Before
    <3>3. Goto(o, Look(s), pairings[s].tab) \/ Goto(o, "sweeping", 0)
      BY <1>5 DEF SurfaceOpen
    <3> QED
      BY <3>1, <3>2, <3>3 DEF Goto
  <2>2. opening' = opening \cup {s}
    BY <1>5 DEF SurfaceOpen
  <2>3. place # "none" /\ place # "switching"
    BY DEF Before
  <2>4. JobsTypeOK'
    BY <1>1, <1>4, <2>1, <2>2 DEF IInv, JobsTypeOK
  <2>5. (\A p \in Opens : p # o => job'[p] = job[p]) /\ job'[o] = place /\ created[o] = 0
    BY <1>5, <2>1 DEF IInv, JobsTypeOK, JobsOK
  <2>6. JobsOK'
    <3> SUFFICES ASSUME NEW p \in Opens
                 PROVE  /\ owes'[p] <= copies'[p]
                        /\ job'[p] # "none" \/ p \in threw' => wanted'[p] \in Sites
                        /\ job'[p] \in Before \/ (job'[p] = "none" /\ outcome'[p] = "none")
                             => created'[p] = 0
      BY DEF JobsOK
    <3>1. CASE p = o
      BY <1>1, <1>2, <1>3, <2>5, <3>1
    <3>2. CASE p # o
      BY <1>1, <1>3, <2>5, <3>2 DEF IInv, JobsOK
    <3> QED
      BY <3>1, <3>2
  <2>7. MarksHeld'
    <3> SUFFICES ASSUME NEW r \in opening'
                 PROVE  \E p \in Opens : wanted'[p] = r /\ Marks(p)'
      BY DEF MarksHeld
    <3>1. CASE r = s
      BY <1>3, <2>3, <2>5, <3>1 DEF Marks
    <3>2. CASE r # s
      <4>1. PICK p \in Opens : wanted[p] = r /\ Marks(p)
        BY <2>2, <3>2 DEF IInv, MarksHeld
      <4>2. p # o
        BY <1>1, <3>2, <4>1, PairingAssumption DEF IInv, JobsOK, Marks
      <4> QED
        BY <1>1, <1>3, <2>5, <4>1, <4>2 DEF Marks
    <3> QED
      BY <3>1, <3>2
  <2>8. CopiesWait'
    BY <1>1, <1>3, <2>3, <2>5 DEF IInv, CopiesWait
  <2> QED
    BY <2>4, <2>6, <2>7, <2>8 DEF JobsStay
<1>6. CASE ~starts
  <2>1. UNCHANGED <<opening, job, jobTab>>
    BY <1>6 DEF SurfaceOpen
  <2>2. JobsTypeOK'
    BY <1>1, <1>4, <2>1 DEF IInv, JobsTypeOK
  <2>3. JobsOK'
    <3> SUFFICES ASSUME NEW p \in Opens
                 PROVE  /\ owes'[p] <= copies'[p]
                        /\ job'[p] # "none" \/ p \in threw' => wanted'[p] \in Sites
                        /\ job'[p] \in Before \/ (job'[p] = "none" /\ outcome'[p] = "none")
                             => created'[p] = 0
      BY DEF JobsOK
    <3>1. CASE p = o
      BY <1>1, <1>2, <1>3, <2>1, <3>1 DEF IInv, JobsOK
    <3>2. CASE p # o
      BY <1>1, <1>3, <2>1, <3>2 DEF IInv, JobsOK
    <3> QED
      BY <3>1, <3>2
  <2>4. MarksHeld'
    <3> SUFFICES ASSUME NEW r \in opening'
                 PROVE  \E p \in Opens : wanted'[p] = r /\ Marks(p)'
      BY DEF MarksHeld
    <3>1. PICK p \in Opens : wanted[p] = r /\ Marks(p)
      BY <2>1 DEF IInv, MarksHeld
    <3>2. wanted'[p] = r
      BY <1>1, <1>3, <3>1, PairingAssumption DEF IInv, JobsOK, Marks
    <3> QED
      BY <1>1, <2>1, <3>1, <3>2 DEF Marks
  <2>5. CopiesWait'
    BY <1>1, <1>3, <1>6, <2>1 DEF IInv, CopiesWait
  <2> QED
    BY <2>2, <2>3, <2>4, <2>5 DEF JobsStay
<1> QED
  BY <1>5, <1>6

(* A model that is no chat is refused, and nothing was begun for it.       *)
LEMMA UnknownKeeps ==
  ASSUME IInv, NEW o \in Opens, SurfaceUnknown(o)
  PROVE  JobsStay
<1>1. /\ copies' = [copies EXCEPT ![o] = copies[o] + 1] /\ copies[o] < MaxCopies
      /\ outcome' = [outcome EXCEPT ![o] = "failed"]
      /\ UNCHANGED <<job, jobTab, wanted, owes, threw, created, opening>>
  BY DEF SurfaceUnknown, memory
<1>2. copies[o] \in Nat /\ copies[o] + 1 \in 0 .. MaxCopies /\ owes[o] \in Nat
  BY <1>1, PairingAssumption DEF IInv, JobsTypeOK
<1>3. /\ copies'[o] = copies[o] + 1 /\ outcome'[o] = "failed"
      /\ \A p \in Opens : p # o => copies'[p] = copies[p] /\ outcome'[p] = outcome[p]
  BY <1>1 DEF IInv, JobsTypeOK
<1>4. JobsTypeOK'
  BY <1>1, <1>2 DEF IInv, JobsTypeOK
<1>5. JobsOK'
  BY <1>1, <1>2, <1>3 DEF IInv, JobsOK
<1> QED
  BY <1>1, <1>4, <1>5 DEF IInv, MarksHeld, CopiesWait, JobsStay, Marks

(* Steps that leave every open as it is.                                   *)
LEMMA JobsUntouched ==
  ASSUME IInv, UNCHANGED <<jobs, opening>>
  PROVE  JobsStay
<1>1. UNCHANGED <<job, jobTab, wanted, outcome, copies, owes, threw, created, opening>>
  BY DEF jobs
<1> QED
  BY <1>1 DEF IInv, JobsTypeOK, JobsOK, MarksHeld, CopiesWait, JobsStay, Marks
-----------------------------------------------------------------------------
(* Each step keeps the invariant.                                          *)

LEMMA Together ==
  ASSUME IInv, MapStays, TabsOK', JobsStay,
         \/ UNCHANGED <<loading, todo>>
         \/ loading' \in BOOLEAN /\ todo' \in Seq(Entry) /\ (loading' <=> todo' # << >>)
  PROVE  IInv'
BY DEF IInv, SavedOK, MapStays, JobsStay

(* A tab is opened, by the user or for an open.                            *)
LEMMA NewTabKeeps ==
  ASSUME IInv, HasNextTab, NEW s \in Sites, where' = [where EXCEPT ![NextTab] = s],
         alive' = alive \cup {NextTab}, UNCHANGED <<probing, preferred, kills>>
  PROVE  TabsOK'
<1>1. NextTab \in Tabs /\ where[NextTab] = NoSite /\ NextTab \notin alive
  BY NextTabIsNew DEF IInv
<1> QED
  BY <1>1 DEF IInv, TabsOK

LEMMA UserKeeps ==
  ASSUME IInv,
         \/ \E s \in Sites : UserOpens(s)
         \/ \E t \in Tabs : TabClosed(t) \/ PairCurrentTab(t) \/ PairForbidden(t)
         \/ Unpair
  PROVE  IInv'
<1>1. ASSUME NEW s \in Sites, UserOpens(s) PROVE IInv'
  <2>1. HasNextTab /\ where' = [where EXCEPT ![NextTab] = s] /\ alive' = alive \cup {NextTab}
        /\ UNCHANGED <<map, preferred, opening, stored, loading, todo, probing, jobs, kills>>
    BY <1>1 DEF UserOpens, memory
  <2>2. MapStays
    BY <2>1, MapUntouched
  <2>3. TabsOK'
    BY <2>1, NewTabKeeps
  <2> QED
    BY <2>1, <2>2, <2>3, Together, JobsUntouched
<1>2. ASSUME NEW t \in Tabs, TabClosed(t) PROVE IInv'
  <2>1. MapStays
    BY <1>2, MapAfterClosing
  <2>2. alive' \subseteq alive
        /\ UNCHANGED <<where, preferred, opening, loading, todo, probing, jobs, kills>>
    BY <1>2 DEF TabClosed
  <2>3. TabsOK'
    BY <2>2 DEF IInv, TabsOK
  <2> QED
    BY <2>1, <2>2, <2>3, Together, JobsUntouched
<1>3. ASSUME NEW t \in Tabs, NEW status \in Statuses, t \in alive, Put(where[t], t, status),
             savePairings, preferred' \in {preferred, where[t]},
             UNCHANGED <<tabs, opening, loading, todo, probing, jobs, kills>>
      PROVE  IInv'
  <2>1. MapStays
    BY <1>3, MapPaired DEF tabs
  <2>2. TabsOK'
    BY <1>3 DEF IInv, TabsOK, tabs
  <2> QED
    BY <1>3, <2>1, <2>2, Together, JobsUntouched
<1>4. ASSUME NEW t \in Tabs, PairCurrentTab(t) \/ PairForbidden(t) PROVE IInv'
  BY <1>3, <1>4 DEF PairCurrentTab, PairForbidden, Statuses
<1>5. ASSUME Unpair PROVE IInv'
  <2>1. pairings' = Nothing /\ order' = << >> /\ stored' = << >> /\ preferred' = NoSite
        /\ UNCHANGED <<where, alive, opening, loading, todo, probing, jobs, kills>>
    BY <1>5 DEF Unpair, tabs
  <2>2. MapStays
    BY <2>1, MapForgotten
  <2>3. TabsOK'
    BY <2>1 DEF IInv, TabsOK
  <2> QED
    BY <2>1, <2>2, <2>3, Together, JobsUntouched
<1> QED
  BY <1>1, <1>2, <1>4, <1>5

(* Pairing on sight, and restoring what was saved.                         *)
LEMMA WorkerKeeps ==
  ASSUME IInv,
         \/ \E t \in Tabs : StartPairing(t) \/ \E answer \in Answers : AutoPair(t, answer)
         \/ LoadStart \/ Restore
  PROVE  IInv'
<1>1. ASSUME NEW t \in Tabs, StartPairing(t) PROVE IInv'
  <2>1. UNCHANGED <<tabs, map, preferred, opening, stored, loading, todo, jobs, kills>>
        /\ probing' = probing \cup {t}
    BY <1>1 DEF StartPairing
  <2>2. MapStays
    BY <2>1, MapUntouched DEF tabs
  <2>3. TabsOK'
    BY <2>1 DEF IInv, TabsOK, tabs
  <2> QED
    BY <2>1, <2>2, <2>3, Together, JobsUntouched
<1>2. ASSUME NEW t \in Tabs, NEW answer \in Answers, AutoPair(t, answer) PROVE IInv'
  <2>1. UNCHANGED <<tabs, opening, loading, todo, jobs, kills>>
        /\ probing' = probing \ {t} /\ Answered(t, answer)
    BY <1>2 DEF AutoPair
  <2>2. MapStays /\ preferred' \in Sites \cup {NoSite}
    BY <2>1, AnswerFacts DEF tabs
  <2>3. TabsOK'
    BY <2>1, <2>2 DEF IInv, TabsOK, tabs
  <2> QED
    BY <2>1, <2>2, <2>3, Together, JobsUntouched
<1>3. ASSUME LoadStart PROVE IInv'
  <2>1. /\ pairings' = Nothing /\ order' = << >> /\ stored' = stored /\ todo' = stored
        /\ loading' = (stored # << >>) /\ preferred' \in {NoSite, preferred}
        /\ UNCHANGED <<where, alive, opening, probing, jobs, kills>>
    BY <1>3 DEF LoadStart, tabs
  <2>2. MapStays
    BY <2>1, MapForgotten DEF IInv, SavedOK
  <2>3. TabsOK'
    BY <2>1 DEF IInv, TabsOK
  <2>4. loading' \in BOOLEAN /\ todo' \in Seq(Entry) /\ (loading' <=> todo' # << >>)
    BY <2>1 DEF IInv, SavedOK
  <2> QED
    BY <2>1, <2>2, <2>3, <2>4, Together, JobsUntouched
<1>4. ASSUME Restore PROVE IInv'
  <2>1. /\ MapStays /\ todo' \in Seq(Entry) /\ (loading' <=> todo' # << >>)
        /\ preferred' \in Sites \cup {NoSite}
    BY <1>4, MapRestored
  <2>2. UNCHANGED <<tabs, opening, probing, jobs, kills>> /\ loading' \in BOOLEAN
    BY <1>4 DEF Restore
  <2>3. TabsOK'
    BY <2>1, <2>2 DEF IInv, TabsOK, tabs
  <2> QED
    BY <2>1, <2>2, <2>3, Together, JobsUntouched
<1> QED
  BY <1>1, <1>2, <1>3, <1>4

(* An open ends, with its chat there and preferred or without it.          *)
LEMMA FinishedKeeps ==
  ASSUME IInv, NEW o \in Opens, NEW result \in {"ready", "blocked", "failed"},
         Finish(o, result), job[o] # "none",
         UNCHANGED <<tabs, loading, todo, probing, wanted, copies, created, kills>>,
         MapStays, preferred' \in Sites \cup {NoSite}
  PROVE  IInv'
<1>1. JobsStay
  BY FinishKeeps
<1>2. TabsOK'
  BY DEF IInv, TabsOK, tabs
<1> QED
  BY <1>1, <1>2, Together

(* An open moves, with the tabs as they are.                               *)
LEMMA MovedKeeps ==
  ASSUME IInv, NEW o \in Opens, job[o] # "none",
         NEW place \in {"none"} \cup Before \cup After, NEW t \in 0 .. MaxTabs, Goto(o, place, t),
         Unmark(o) \/ (place # "switching" /\ UNCHANGED opening),
         threw' = (IF place = "none" THEN threw \cup {o} ELSE threw),
         place \in {"none"} \cup Before => created[o] = 0,
         UNCHANGED <<tabs, loading, todo, probing, wanted, outcome, copies, owes, created, kills>>,
         MapStays, preferred' \in Sites \cup {NoSite}
  PROVE  IInv'
<1>1. JobsStay
  BY MoveKeeps DEF IInv, JobsTypeOK
<1>2. TabsOK'
  BY DEF IInv, TabsOK, tabs
<1> QED
  BY <1>1, <1>2, Together

(* Its chat is there: the mark is taken off now, or at the end.            *)
LEMMA OpenedKeeps ==
  ASSUME IInv, NEW o \in Opens, job[o] # "none", Opened(o) \/ OpenedNew(o),
         UNCHANGED <<tabs, loading, todo, probing, wanted, copies, created, kills>>,
         MapStays
  PROVE  IInv'
<1>1. preferred' = wanted[o] /\ wanted[o] \in Sites /\ UNCHANGED <<outcome, owes, threw>>
  BY DEF Opened, OpenedNew, GoOn, IInv, JobsOK
<1>2. 0 \in 0 .. MaxTabs
  BY PairingAssumption
<1>3. CASE Opened(o)
  <2>1. /\ "switching" \in {"none"} \cup Before \cup After /\ "switching" \notin {"none"} \cup Before
        /\ Goto(o, "switching", 0) /\ Unmark(o)
    BY <1>3 DEF Opened, Before, After
  <2> QED
    BY <1>1, <1>2, <2>1, MovedKeeps
<1>4. CASE OpenedNew(o)
  <2>1. /\ "switching new" \in {"none"} \cup Before \cup After
        /\ "switching new" \notin {"none"} \cup Before
        /\ Goto(o, "switching new", 0) /\ UNCHANGED opening
    BY <1>4 DEF OpenedNew, GoOn, Before, After
  <2> QED
    BY <1>1, <1>2, <2>1, MovedKeeps
<1> QED
  BY <1>3, <1>4

(* An open goes on to its next wait, or throws.                            *)
LEMMA GoesOnKeeps ==
  ASSUME IInv, NEW o \in Opens, job[o] # "none", NEW place \in Before \cup {"probing"},
         NEW t \in 0 .. MaxTabs, GoOn(o, place, t), place \in Before => created[o] = 0,
         UNCHANGED <<tabs, map, stored, preferred, loading, todo, probing>>,
         UNCHANGED <<wanted, copies, created, kills>>
  PROVE  IInv'
<1>1. /\ place \in {"none"} \cup Before \cup After /\ place # "switching" /\ place # "none"
      /\ place \in {"none"} \cup Before => created[o] = 0
      /\ Goto(o, place, t) /\ UNCHANGED <<opening, outcome, owes, threw>>
  BY DEF Before, After, GoOn
<1>2. MapStays /\ preferred' \in Sites \cup {NoSite}
  BY MapUntouched DEF tabs, IInv, TabsOK
<1> QED
  BY <1>1, <1>2, MovedKeeps

LEMMA ThrowKeeps ==
  ASSUME IInv, NEW o \in Opens, job[o] \in Before, Throw(o),
         UNCHANGED <<tabs, loading, todo, probing, wanted, copies, created, kills>>,
         MapStays, preferred' \in Sites \cup {NoSite}
  PROVE  IInv'
<1>1. job[o] # "none" /\ created[o] = 0
  BY DEF Before, IInv, JobsOK
<1>2. 0 \in 0 .. MaxTabs
  BY PairingAssumption
<1>3. Goto(o, "none", 0) /\ threw' = threw \cup {o} /\ UNCHANGED <<opening, outcome, owes>>
  BY DEF Throw
<1> QED
  BY <1>1, <1>2, <1>3, MovedKeeps

LEMMA CheckedKeeps ==
  ASSUME IInv, NEW o \in Opens, Checked(o)
  PROVE  IInv'
<1>1. /\ job[o] # "none" /\ created[o] = 0 /\ wanted[o] \in Sites
      /\ jobTab[o] \in 0 .. MaxTabs /\ 0 \in 0 .. MaxTabs
  <2>1. job[o] \in {"checking", "checking blocked"}
    BY DEF Checked
  <2>2. created[o] = 0 /\ wanted[o] \in Sites
    BY <2>1 DEF IInv, JobsOK, Before
  <2>3. jobTab[o] \in 0 .. MaxTabs
    BY DEF IInv, JobsTypeOK
  <2>4. 0 \in 0 .. MaxTabs
    BY PairingAssumption
  <2> QED
    BY <2>1, <2>2, <2>3, <2>4
<1>2. UNCHANGED <<map, stored, created, tabs, loading, todo, probing, wanted, copies, kills>>
  BY DEF Checked, OpenKeep
<1>3. MapStays
  BY <1>2, MapUntouched DEF tabs
<1>4. ASSUME NEW place \in {"sweeping", "retrying"}, NEW t \in 0 .. MaxTabs, GoOn(o, place, t),
             UNCHANGED preferred
      PROVE  IInv'
  <2>1. place \in Before
    BY DEF Before
  <2> QED
    BY <1>1, <1>2, <1>4, <2>1, GoesOnKeeps
<1>5. CASE Opened(o)
  BY <1>1, <1>2, <1>3, <1>5, OpenedKeeps
<1>6. CASE Finish(o, "ready") /\ preferred' = wanted[o]
  BY <1>1, <1>2, <1>3, <1>6, FinishedKeeps
<1>7. \/ GoOn(o, "sweeping", 0) /\ UNCHANGED preferred
      \/ Opened(o)
      \/ Finish(o, "ready") /\ preferred' = wanted[o]
      \/ GoOn(o, "retrying", jobTab[o]) /\ UNCHANGED preferred
  BY DEF Checked
<1> QED
  BY <1>1, <1>4, <1>5, <1>6, <1>7

LEMMA SweptKeeps ==
  ASSUME IInv, NEW o \in Opens, Swept(o) \/ SweepThrows(o)
  PROVE  IInv'
<1>1. job[o] = "sweeping" /\ created[o] = 0 /\ wanted[o] \in Sites
      /\ UNCHANGED <<map, stored, loading, todo, probing, wanted, copies, kills>>
  BY DEF Swept, SweepThrows, OpenKeep, IInv, JobsOK, Before
<1>2. CASE Opened(o) /\ UNCHANGED <<tabs, created>>
  <2>1. MapStays
    BY <1>1, <1>2, MapUntouched DEF tabs
  <2> QED
    BY <1>1, <1>2, <2>1, OpenedKeeps
<1>3. CASE /\ HasNextTab /\ where' = [where EXCEPT ![NextTab] = wanted[o]]
           /\ alive' = alive \cup {NextTab} /\ created' = [created EXCEPT ![o] = created[o] + 1]
           /\ GoOn(o, "loading", NextTab) /\ UNCHANGED preferred
  <2>1. NextTab \in 0 .. MaxTabs
    BY <1>3, NextTabIsNew, PairingAssumption DEF IInv, Tabs
  <2>2. created' \in [Opens -> 0 .. 1] /\ \A p \in Opens : p # o => created'[p] = created[p]
    BY <1>1, <1>3 DEF IInv, JobsTypeOK
  <2>3. "loading" \in {"none"} \cup Before \cup After /\ "loading" \notin {"none"} \cup Before
    BY DEF After, Before
  <2>4. JobsStay
    BY <1>1, <1>3, <2>1, <2>2, <2>3, MoveKeeps DEF GoOn
  <2>5. TabsOK'
    BY <1>1, <1>3, NewTabKeeps
  <2>6. MapStays
    BY <1>1, <1>3, MapUntouched
  <2> QED
    BY <1>1, <2>4, <2>5, <2>6, Together
<1>4. CASE Finish(o, "failed") /\ UNCHANGED <<tabs, preferred, created>>
  <2>1. MapStays
    BY <1>1, <1>4, MapUntouched DEF tabs
  <2> QED
    BY <1>1, <1>4, <2>1, FinishedKeeps DEF IInv, TabsOK
<1>5. CASE SweepThrows(o)
  <2>1. Throw(o) /\ UNCHANGED <<tabs, preferred, created>> /\ job[o] \in Before
    BY <1>1, <1>5 DEF SweepThrows, OpenKeep, Before
  <2>2. MapStays
    BY <1>1, <2>1, MapUntouched DEF tabs
  <2> QED
    BY <1>1, <2>1, <2>2, ThrowKeeps DEF IInv, TabsOK
<1> QED
  BY <1>2, <1>3, <1>4, <1>5 DEF Swept

LEMMA LoadedKeeps ==
  ASSUME IInv, NEW o \in Opens, TabLoaded(o) \/ TabNotLoaded(o)
  PROVE  IInv'
<1>1. /\ job[o] = "loading" /\ jobTab[o] \in 0 .. MaxTabs
      /\ UNCHANGED <<map, stored, created, tabs, loading, todo, probing, wanted, copies, kills>>
  BY DEF TabLoaded, TabNotLoaded, OpenKeep, IInv, JobsTypeOK
<1>2. MapStays
  BY <1>1, MapUntouched DEF tabs
<1>3. CASE OpenedNew(o)
  BY <1>1, <1>2, <1>3, OpenedKeeps
<1>4. CASE GoOn(o, "probing", jobTab[o]) /\ UNCHANGED preferred
  BY <1>1, <1>4, GoesOnKeeps DEF Before
<1>5. CASE Finish(o, "failed") /\ preferred' = preferred
  BY <1>1, <1>2, <1>5, FinishedKeeps DEF IInv, TabsOK
<1> QED
  BY <1>3, <1>4, <1>5 DEF TabLoaded, TabNotLoaded

LEMMA ProbedKeeps ==
  ASSUME IInv, NEW o \in Opens, NEW answer \in Answers, Probed(o, answer)
  PROVE  IInv'
<1>1. /\ job[o] # "none" /\ wanted[o] \in Sites
      /\ UNCHANGED <<created, tabs, loading, todo, probing, wanted, copies, kills>>
  BY DEF Probed, OpenKeep, IInv, JobsOK
<1>2. CASE answer = "probed" /\ jobTab[o] \in alive
  <2>1. /\ Put(where[jobTab[o]], jobTab[o], "ready") /\ savePairings
        /\ OpenedNew(o) \/ (Finish(o, "ready") /\ preferred' = wanted[o])
    BY <1>2 DEF Probed
  <2>2. MapStays
    BY <1>1, <1>2, <2>1, MapPaired DEF Statuses, tabs
  <2> QED
    BY <1>1, <2>1, <2>2, OpenedKeeps, FinishedKeeps
<1>3. CASE ~(answer = "probed" /\ jobTab[o] \in alive)
  <2>1. /\ Answered(jobTab[o], answer)
        /\ \E result \in {"blocked", "failed"} : Finish(o, result)
    BY <1>3 DEF Probed
  <2>2. MapStays /\ preferred' \in Sites \cup {NoSite}
    BY <1>1, <2>1, AnswerFacts DEF tabs
  <2> QED
    BY <1>1, <2>1, <2>2, FinishedKeeps
<1> QED
  BY <1>2, <1>3

(* What a probe found is in the map, though it is not saved.               *)
LEMMA NotSavedKeeps ==
  ASSUME IInv, NEW o \in Opens, NEW status \in {"ready", "blocked"}, NotSaved(o, status)
  PROVE  IInv'
<1> DEFINE t == jobTab[o]
<1>1. /\ job[o] \in {"retrying", "probing"} /\ t \in alive /\ t \in Tabs /\ where[t] \in Sites
      /\ status \in Statuses /\ Put(where[t], t, status)
      /\ preferred' \in {preferred, where[t]}
      /\ UNCHANGED <<stored, created, tabs, loading, todo, probing, wanted, copies, kills>>
  BY DEF NotSaved, OpenKeep, IInv, TabsOK, Statuses
<1>2. /\ MapOK' /\ pairings'[where[t]] = [tab |-> t, status |-> status]
      /\ \A r \in Sites : r # where[t] => pairings'[r] = pairings[r]
  BY <1>1, PutFacts DEF IInv
<1>3. ReadyIsOpen'
  BY <1>1, <1>2 DEF IInv, ReadyIsOpen, Ready, tabs
<1>4. MapStays /\ preferred' \in Sites \cup {NoSite}
  BY <1>1, <1>2, <1>3 DEF MapStays, IInv, SavedOK, TabsOK
<1>5. CASE job[o] = "probing"
  <2>1. Finish(o, "failed") /\ job[o] # "none"
    BY <1>5 DEF NotSaved
  <2> QED
    BY <1>1, <1>4, <2>1, FinishedKeeps
<1>6. CASE job[o] # "probing"
  <2>1. Throw(o) /\ job[o] \in Before
    BY <1>1, <1>6 DEF NotSaved, Before
  <2> QED
    BY <1>1, <1>4, <2>1, ThrowKeeps
<1> QED
  BY <1>5, <1>6

LEMMA SwitchedKeeps ==
  ASSUME IInv, NEW o \in Opens, Switched(o)
  PROVE  IInv'
<1>1. UNCHANGED <<map, stored, preferred, created, tabs, loading, todo, probing, wanted, copies,
                  kills>>
  BY DEF Switched, OpenKeep
<1>2. MapStays /\ preferred' \in Sites \cup {NoSite}
  BY <1>1, MapUntouched DEF tabs, IInv, TabsOK
<1>3. JobsStay
  <2>1. /\ job[o] # "none" /\ Acknowledge(o, "ready")
        /\ Unmark(o) \/ (job[o] = "switching" /\ UNCHANGED opening)
    BY DEF Switched, Finish
  <2> QED
    BY <1>1, <2>1, EndKeeps
<1>4. TabsOK'
  BY <1>1 DEF IInv, TabsOK, tabs
<1> QED
  BY <1>1, <1>2, <1>3, <1>4, Together

(* A new worker knows only what was saved.                                 *)
LEMMA KilledKeeps ==
  ASSUME IInv, Killed
  PROVE  IInv'
<1>1. /\ pairings' = Nothing /\ order' = << >> /\ preferred' = NoSite /\ stored' = stored
      /\ loading' = FALSE /\ todo' = << >> /\ probing' = {} /\ opening' = {}
      /\ where' = where /\ alive' = alive /\ kills' \in 0 .. MaxKills
      /\ wanted' = wanted /\ copies' = copies
  BY PairingAssumption DEF Killed, tabs, IInv, TabsOK
<1>2. /\ job' = [o \in Opens |-> "none"] /\ jobTab' = [o \in Opens |-> 0]
      /\ outcome' = [o \in Opens |-> "none"] /\ owes' = [o \in Opens |-> 0]
      /\ threw' = {} /\ created' = [o \in Opens |-> 0]
  BY DEF Killed
<1>3. MapStays
  BY <1>1, MapForgotten DEF IInv, SavedOK
<1>4. TabsOK'
  BY <1>1 DEF IInv, TabsOK
<1>5. JobsTypeOK'
  BY <1>1, <1>2, PairingAssumption DEF IInv, JobsTypeOK
<1>6. JobsOK' /\ MarksHeld' /\ CopiesWait'
  BY <1>1, <1>2, PairingAssumption DEF IInv, JobsTypeOK, JobsOK, MarksHeld, CopiesWait
<1>7. loading' \in BOOLEAN /\ todo' \in Seq(Entry) /\ (loading' <=> todo' # << >>)
  <2>1. << >> \in Seq(Entry)
    OBVIOUS
  <2> QED
    BY <1>1, <2>1, Zenon
<1> QED
  BY <1>3, <1>4, <1>5, <1>6, <1>7, Together DEF JobsStay

LEMMA InitKeeps ==
  ASSUME Init
  PROVE  IInv
<1>1. MapOK /\ ReadyIsOpen
  <2>1. pairings = Nothing /\ order = << >>
    BY DEF Init
  <2>2. Nothing \in [Sites -> Records] /\ \A s \in Sites : Nothing[s] = Unpaired
    BY DEF Nothing, Records
  <2>3. ReadyIsOpen
    BY <2>1, <2>2 DEF ReadyIsOpen, Ready, Unpaired
  <2>4. MapOK
    BY <2>1, <2>2 DEF MapOK, IsInjective, ToSet
  <2> QED
    BY <2>3, <2>4
<1>2. SavedOK
  <2>1. << >> \in Seq(Entry)
    OBVIOUS
  <2> QED
    BY <2>1, Zenon DEF Init, SavedOK
<1>3. TabsOK
  BY PairingAssumption DEF Init, TabsOK
<1>4. JobsTypeOK /\ JobsOK /\ MarksHeld /\ CopiesWait
  BY PairingAssumption DEF Init, JobsTypeOK, JobsOK, MarksHeld, CopiesWait
<1> QED
  BY <1>1, <1>2, <1>3, <1>4 DEF IInv

LEMMA NextKeeps ==
  ASSUME IInv, [Next]_vars
  PROVE  IInv'
<1>1. ASSUME NEW o \in Opens, (\E s \in Sites : SurfaceOpen(o, s)) \/ SurfaceUnknown(o)
      PROVE  IInv'
  <2>1. UNCHANGED <<tabs, map, preferred, stored, loading, todo, probing, kills>>
    BY <1>1 DEF SurfaceOpen, SurfaceUnknown, memory
  <2>2. JobsStay
    BY <1>1, SurfaceOpenKeeps, UnknownKeeps
  <2>3. MapStays
    BY <2>1, MapUntouched DEF tabs
  <2>4. TabsOK'
    BY <2>1 DEF IInv, TabsOK, tabs
  <2> QED
    BY <2>1, <2>2, <2>3, <2>4, Together
<1>2. ASSUME NEW o \in Opens, Opening(o) PROVE IInv'
  BY <1>2, CheckedKeeps, SweptKeeps, LoadedKeeps, ProbedKeeps, NotSavedKeeps, SwitchedKeeps
     DEF Opening
<1>3. CASE UNCHANGED vars
  <2>1. UNCHANGED <<tabs, map, stored, preferred, opening, loading, todo, probing, jobs, kills>>
    BY <1>3 DEF vars, memory
  <2>2. TabsOK'
    BY <2>1 DEF IInv, TabsOK, tabs
  <2>3. MapStays
    BY <2>1, MapUntouched DEF tabs
  <2> QED
    BY <2>1, <2>2, <2>3, Together, JobsUntouched
<1> QED
  BY <1>1, <1>2, <1>3, UserKeeps, WorkerKeeps, KilledKeeps DEF Next

-----------------------------------------------------------------------------
(* The theorems.                                                           *)

(* What loadState, autoPair, openSurface and onRemoved keep true together. *)
THEOREM Invariant == Spec => []IInv
<1>1. Init => IInv
  BY InitKeeps
<1>2. IInv /\ [Next]_vars => IInv'
  BY NextKeeps
<1> QED
  BY <1>1, <1>2, PTL DEF Spec

(* Every variable has its type: the map lists each paired chat once, and   *)
(* what is saved and restored are records (pairings, savePairings).        *)
THEOREM TypeCorrect == Spec => []TypeOK
<1>1. ASSUME IInv PROVE TypeOK
  <2>1. \A q : q \in Seq(Entry) => ToSet(q) \subseteq Entry
    BY DEF ToSet
  <2>2. ToSet(stored) \subseteq Entry /\ ToSet(todo) \subseteq Entry
    BY <1>1, <2>1 DEF IInv, SavedOK
  <2>3. created \in [Opens -> Nat]
    BY <1>1 DEF IInv, JobsTypeOK
  <2> QED
    BY <1>1, <2>2, <2>3
    DEF IInv, MapOK, SavedOK, TabsOK, JobsTypeOK, Before, After, TypeOK
<1> QED
  BY <1>1, Invariant, PTL

(* One surface.open creates at most one tab in a worker's life, however    *)
(* often the relay delivers it while its outcome is among the 64 that are  *)
(* kept (surfaceOpenJobs, surfaceOpenResults).                             *)
THEOREM AtMostOneTab == Spec => []OneTabPerOpen
<1>1. IInv => OneTabPerOpen
  BY DEF IInv, JobsTypeOK, OneTabPerOpen
<1> QED
  BY <1>1, Invariant, PTL

(* A chat is ready only in a tab that is open, also after the worker was   *)
(* dead or restoring when the tab closed (onRemoved, loadState).           *)
THEOREM RoutedToOpenTabs == Spec => []ReadyIsOpen
<1>1. IInv => ReadyIsOpen
  BY DEF IInv
<1> QED
  BY <1>1, Invariant, PTL

(* A chat is marked as being opened only while an open works on it, and no *)
(* copy of a surface.open waits for an open that has ended, but for those  *)
(* that ended in an exception that nothing catches (openSurface).          *)
THEOREM EveryCopyAccounted == Spec => []OpensAccounted
<1>1. IInv => OpensAccounted
  BY DEF IInv, MarksHeld, CopiesWait, OpensAccounted, Marks
<1> QED
  BY <1>1, Invariant, PTL
=============================================================================
