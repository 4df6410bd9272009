------------------------- MODULE BrowserTurns_proof -------------------------
(***************************************************************************)
(* Proofs about the turns of the browser's service worker, for every       *)
(* number of requests, tabs, rounds, calls, retries and faults.            *)
(***************************************************************************)
EXTENDS BrowserTurns, TLAPS

(* A turn waits for its page or for its tools, never for both, and a batch *)
(* leaves room for the round that will type its results.                   *)
OneThing ==
  \A r \in Requests :
    /\ chain[r] # "none" => batch[r] = 0
    /\ batch[r] > 0 => round[r] < MaxRounds
    /\ chain[r] # "none" \/ batch[r] > 0 => op[r] \in {"running", "over"} /\ tab[r] \in Tabs
    /\ op[r] \in {"queued", "running"} => tab[r] \in Tabs

(* After a final response nothing of the turn is left to send anything.    *)
DoneAfterFinal ==
  \A r \in Requests :
    /\ told[r] # "more"
    /\ told[r] = "final" => op[r] \in {"over", "lost"} /\ chain[r] = "none" /\ batch[r] = 0

(* The relay was told of a turn that ended or was given up on.             *)
Heard ==
  \A r \in Requests :
    op[r] = "over" \/ r \in gaveUp => told[r] # "nothing" \/ r \in missed

(* Requests come in order, and a running one has had its turn.             *)
InOrder ==
  \A r, q \in Requests : q < r =>
    /\ op[r] # "new" => op[q] # "new"
    /\ op[r] = "running" /\ tab[q] = tab[r] => op[q] \in {"over", "lost"}

(* As long as no turn was given up on or lost, only running turns do       *)
(* anything, and an observed one has the last word in its tab.             *)
Apart ==
  ~killed /\ gaveUp = {} =>
    /\ crossed = {}
    /\ \A r \in Requests :
         /\ chain[r] # "none" \/ batch[r] > 0 => op[r] = "running"
         /\ chain[r] = "observing" => last[tab[r]] = r

(* No text of a round to come has been shown.                              *)
ShownSofar == \A r \in Requests : shown[r] <= round[r]

IInv == TypeOK /\ OneThing /\ DoneAfterFinal /\ Heard /\ InOrder /\ Apart /\ ShownSofar

(* What a message to the relay does to what it was told: only the request  *)
(* itself is concerned, it is heard of unless the socket is down, and      *)
(* "final" comes from nothing but a final response.                        *)
LEMMA TellFacts ==
  ASSUME TypeOK, NEW r \in Requests, NEW what \in {"error", "final", "partial"}, Tell(r, what)
  PROVE  /\ told' \in [Requests -> {"nothing", "error", "final", "more"}]
         /\ missed' \subseteq Requests /\ missed \subseteq missed'
         /\ \A q \in Requests : q # r => told'[q] = told[q]
         /\ told[r] # "nothing" => told'[r] # "nothing"
         /\ what # "partial" => told'[r] # "nothing" \/ r \in missed'
         /\ told[r] \notin {"final", "more"} =>
              told'[r] # "more" /\ (told'[r] = "final" => what = "final")
<1>1. CASE up
  <2>1. told' = [told EXCEPT ![r] = IF told[r] \in {"final", "more"} THEN "more"
                                    ELSE IF what = "partial" THEN told[r] ELSE what]
    BY <1>1 DEF Tell
  <2>2. missed' = missed
    BY <1>1 DEF Tell
  <2>3. told'[r] = IF told[r] \in {"final", "more"} THEN "more"
                   ELSE IF what = "partial" THEN told[r] ELSE what
    BY <2>1 DEF TypeOK
  <2>4. \A q \in Requests : q # r => told'[q] = told[q]
    BY <2>1 DEF TypeOK
  <2>5. told' \in [Requests -> {"nothing", "error", "final", "more"}]
    BY <2>1 DEF TypeOK
  <2> QED
    BY <2>2, <2>3, <2>4, <2>5 DEF TypeOK
<1>2. CASE ~up
  BY <1>2 DEF Tell, TypeOK
<1> QED
  BY <1>1, <1>2

(* A worker that has just started satisfies the invariant.                 *)
LEMMA InitIInv == Init => IInv
<1> SUFFICES ASSUME Init PROVE IInv
  OBVIOUS
<1>1. TypeOK
  <2>1. /\ 0 \in Rounds /\ 0 \in 0 .. MaxRetries /\ 0 \in 0 .. MaxCalls
        /\ 0 \in 0 .. MaxRequests /\ 0 \in 0 .. MaxFaults
    BY TurnsAssumption DEF Rounds
  <2> QED
    BY <2>1 DEF Init, TypeOK
<1>2. OneThing /\ DoneAfterFinal /\ Heard /\ InOrder /\ ShownSofar
  BY DEF Init, OneThing, DoneAfterFinal, Heard, InOrder, ShownSofar
<1>3. Apart
  BY DEF Init, Apart
<1> QED
  BY <1>1, <1>2, <1>3 DEF IInv

(* A request is routed or refused.                                         *)
LEMMA RequestKeeps ==
  ASSUME IInv, NEW r \in Requests, NEW t \in Tabs \cup {NoTab}, Request(r, t)
  PROVE  IInv'
<1>1. /\ op[r] = "new"
      /\ \A q \in Requests : q < r => op[q] # "new"
      /\ t \in Tabs \cup {NoTab}
      /\ \A q \in Requests : tab'[q] = IF q = r THEN t ELSE tab[q]
      /\ \A q \in Requests : op'[q] = IF q = r THEN IF t = NoTab THEN "over"
           ELSE "queued" ELSE op[q]
      /\ UNCHANGED <<chain, round, tries, batch, got, gaveUp, owed, last, watching, up,
           shown, crossed, killed, faults>>
  BY DEF IInv, TypeOK, OneThing, Request, turn, page, wire, said
<1>2. /\ told' \in [Requests -> {"nothing", "error", "final", "more"}]
      /\ missed' \subseteq Requests /\ missed \subseteq missed'
      /\ \A q \in Requests : q # r => told'[q] = told[q]
      /\ told[r] # "nothing" => told'[r] # "nothing"
      /\ t = NoTab => told'[r] # "nothing" \/ r \in missed'
      /\ told[r] \notin {"final", "more"} => told'[r] # "more" /\ told'[r] # "final"
  <2>1. CASE t = NoTab
    BY <2>1, TellFacts DEF IInv, Request
  <2>2. CASE ~(t = NoTab)
    <3>1. UNCHANGED <<told, missed>>
      BY <2>2 DEF Request
    <3> QED
      BY <2>2, <3>1 DEF IInv, TypeOK
  <2> QED
    BY <2>1, <2>2
<1>3. TypeOK'
  <2>1. tab' \in [Requests -> Tabs \cup {NoTab}]
    BY <1>1, TurnsAssumption DEF IInv, TypeOK, OneThing, Request, Requests, Rounds
  <2>2. op' \in [Requests -> {"new", "queued", "running", "over", "lost"}]
    BY <1>1, TurnsAssumption DEF IInv, TypeOK, OneThing, Request, Requests, Rounds
  <2> QED
    BY <1>1, <1>2, <2>1, <2>2 DEF IInv, TypeOK
<1>4. OneThing'
  BY <1>1, <1>2 DEF IInv, TypeOK, OneThing
<1>5. DoneAfterFinal'
  BY <1>1, <1>2 DEF IInv, TypeOK, OneThing, DoneAfterFinal
<1>6. Heard'
  BY <1>1, <1>2 DEF IInv, TypeOK, Heard
<1>7. InOrder'
  <2> SUFFICES ASSUME NEW p \in Requests, NEW q \in Requests, q < p
               PROVE  /\ op'[p] # "new" => op'[q] # "new"
                      /\ op'[p] = "running" /\ tab'[q] = tab'[p] => op'[q] \in {"over", "lost"}
    BY DEF InOrder
  <2>1. CASE p = r
    <3>1. q # r
      BY <2>1 DEF Requests
    <3> QED
      BY <1>1, <2>1, <3>1 DEF IInv, OneThing, InOrder
  <2>2. CASE q = r
    <3>1. p # r
      BY <2>2 DEF Requests
    <3> QED
      BY <1>1, <2>2, <3>1 DEF IInv, OneThing, InOrder
  <2>3. CASE p # r /\ q # r
    BY <1>1, <2>3 DEF IInv, InOrder
  <2> QED
    BY <2>1, <2>2, <2>3
<1>8. Apart'
  BY <1>1, <1>2 DEF IInv, TypeOK, OneThing, InOrder, Apart
<1>9. ShownSofar'
  BY <1>1 DEF IInv, ShownSofar
<1> QED
  BY <1>3, <1>4, <1>5, <1>6, <1>7, <1>8, <1>9 DEF IInv

(* A queued turn starts.                                                   *)
LEMMA StartKeeps ==
  ASSUME IInv, NEW r \in Requests, Start(r)
  PROVE  IInv'
<1>1. /\ op[r] = "queued"
      /\ \A q \in Requests : q < r /\ tab[q] = tab[r] => op[q] \in {"over", "lost"}
      /\ \A q \in Requests : op'[q] = IF q = r THEN "running" ELSE op[q]
      /\ \A q \in Requests : chain'[q] = IF q = r THEN "delivering" ELSE chain[q]
      /\ UNCHANGED <<tab, round, tries, batch, got, gaveUp, owed, last, watching, up, told,
           shown, missed, crossed, killed, faults>>
  BY DEF IInv, TypeOK, OneThing, Start, Turn, turn, page, wire, said
<1>3. TypeOK'
  BY <1>1, TurnsAssumption DEF IInv, TypeOK, OneThing, Start, Turn, Requests, Rounds
<1>4. OneThing'
  <2> SUFFICES ASSUME NEW q \in Requests
               PROVE  /\ chain'[q] # "none" => batch'[q] = 0
                      /\ batch'[q] > 0 => round'[q] < MaxRounds
                      /\ chain'[q] # "none" \/ batch'[q] > 0 => op'[q] \in {"running",
                           "over"} /\ tab'[q] \in Tabs
                      /\ op'[q] \in {"queued", "running"} => tab'[q] \in Tabs
    BY DEF OneThing
  <2>1. CASE q = r
    BY <1>1, <2>1 DEF IInv, TypeOK, OneThing
  <2>2. CASE q # r
    BY <1>1, <2>2 DEF IInv, TypeOK, OneThing
  <2> QED
    BY <2>1, <2>2
<1>5. DoneAfterFinal'
  BY <1>1 DEF IInv, TypeOK, OneThing, DoneAfterFinal
<1>6. Heard'
  BY <1>1 DEF IInv, TypeOK, Heard
<1>7. InOrder'
  BY <1>1 DEF IInv, TypeOK, InOrder
<1>8. Apart'
  BY <1>1 DEF IInv, TypeOK, OneThing, InOrder, Apart
<1>9. ShownSofar'
  BY <1>1 DEF IInv, ShownSofar
<1> QED
  BY <1>3, <1>4, <1>5, <1>6, <1>7, <1>8, <1>9 DEF IInv

(* The text was typed.                                                     *)
LEMMA DeliveredKeeps ==
  ASSUME IInv, NEW r \in Requests, Delivered(r)
  PROVE  IInv'
<1>1. /\ chain[r] = "delivering"
      /\ tab[r] \in Tabs
      /\ last'[tab[r]] = r
      /\ \A t \in Tabs : t # tab[r] => last'[t] = last[t]
      /\ \A q \in Requests : chain'[q] = IF q = r THEN "observing" ELSE chain[q]
      /\ \A q \in Requests : tries'[q] = IF q = r THEN 0 ELSE tries[q]
      /\ UNCHANGED <<op, tab, round, batch, got, gaveUp, owed, up, told, shown, missed,
           crossed, killed, faults>>
  BY DEF IInv, TypeOK, OneThing, Delivered, turn, page, wire, said
<1>3. TypeOK'
  <2>1. chain' \in [Requests -> {"none", "delivering", "observing"}]
    BY <1>1, TurnsAssumption DEF IInv, TypeOK, OneThing, Delivered, Requests, Rounds
  <2>2. tries' \in [Requests -> 0 .. MaxRetries]
    BY <1>1, TurnsAssumption DEF IInv, TypeOK, OneThing, Delivered, Requests, Rounds
  <2>3. last' \in [Tabs -> 0 .. MaxRequests]
    <3>1. r \in 0 .. MaxRequests
      BY TurnsAssumption DEF Requests
    <3> QED
      BY <3>1 DEF IInv, TypeOK, Delivered
  <2>4. watching' \in [Tabs -> 0 .. MaxRequests]
    BY <1>1, TurnsAssumption DEF IInv, TypeOK, OneThing, Delivered, Requests, Rounds
  <2> QED
    BY <1>1, <2>1, <2>2, <2>3, <2>4 DEF IInv, TypeOK
<1>4. OneThing'
  BY <1>1 DEF IInv, TypeOK, OneThing
<1>5. DoneAfterFinal'
  BY <1>1 DEF IInv, TypeOK, OneThing, DoneAfterFinal
<1>6. Heard'
  BY <1>1 DEF IInv, Heard
<1>7. InOrder'
  BY <1>1 DEF IInv, InOrder
<1>8. Apart'
  <2> SUFFICES ASSUME ~killed', gaveUp' = {}
               PROVE  /\ crossed' = {}
                      /\ \A q \in Requests :
                           /\ chain'[q] # "none" \/ batch'[q] > 0 => op'[q] = "running"
                           /\ chain'[q] = "observing" => last'[tab'[q]] = q
    BY DEF Apart
  <2>1. /\ gaveUp = {} /\ crossed = {}
        /\ \A q \in Requests :
             /\ chain[q] # "none" \/ batch[q] > 0 => op[q] = "running"
             /\ chain[q] = "observing" => last[tab[q]] = q
    BY <1>1 DEF IInv, Apart
  <2>2. crossed' = {}
    BY <1>1, <2>1
  <2>3. ASSUME NEW q \in Requests
        PROVE  chain'[q] # "none" \/ batch'[q] > 0 => op'[q] = "running"
    <3>1. CASE q = r
      BY <1>1, <2>1, <3>1 DEF IInv, TypeOK, OneThing
    <3>2. CASE q # r
      BY <1>1, <2>1, <3>2
    <3> QED
      BY <3>1, <3>2
  <2>4. ASSUME NEW q \in Requests, chain'[q] = "observing"
        PROVE  last'[tab'[q]] = q
    <3>1. CASE q = r
      BY <1>1, <2>1, <2>4, <3>1 DEF IInv, OneThing
    <3>2. CASE q # r
      <4>1. op[q] = "running" /\ op[r] = "running" /\ tab[q] \in Tabs
        BY <1>1, <2>1, <2>4, <3>2 DEF IInv, OneThing
      <4>2. q < r \/ r < q
        BY <3>2 DEF Requests
      <4>3. tab[q] # tab[r]
        BY <4>1, <4>2 DEF IInv, InOrder
      <4> QED
        BY <1>1, <2>1, <2>4, <3>2, <4>1, <4>3
    <3> QED
      BY <3>1, <3>2
  <2> QED
    BY <2>2, <2>3, <2>4
<1>9. ShownSofar'
  BY <1>1 DEF IInv, ShownSofar
<1> QED
  BY <1>3, <1>4, <1>5, <1>6, <1>7, <1>8, <1>9 DEF IInv

(* The text could not be typed.                                            *)
LEMMA DeliverFailsKeeps ==
  ASSUME IInv, NEW r \in Requests, NEW typed \in BOOLEAN, DeliverFails(r, typed)
  PROVE  IInv'
<1>1. /\ chain[r] = "delivering"
      /\ tab[r] \in Tabs
      /\ \A t \in Tabs : t # tab[r] => last'[t] = last[t]
      /\ \A q \in Requests : op'[q] = IF q = r
           THEN IF op[r] = "running" /\ (batch[r] = 0 \/ r \in gaveUp) THEN "over"
                ELSE op[r] ELSE op[q]
      /\ \A q \in Requests : chain'[q] = IF q = r THEN "none" ELSE chain[q]
      /\ UNCHANGED <<tab, round, tries, batch, got, gaveUp, owed, watching, up, shown,
           crossed, killed, faults>>
  BY DEF IInv, TypeOK, OneThing, DeliverFails, EndOfSend, turn, page, wire, said
<1>2. /\ told' \in [Requests -> {"nothing", "error", "final", "more"}]
      /\ missed' \subseteq Requests /\ missed \subseteq missed'
      /\ \A q \in Requests : q # r => told'[q] = told[q]
      /\ told[r] # "nothing" => told'[r] # "nothing"
      /\ told'[r] # "nothing" \/ r \in missed'
      /\ told[r] \notin {"final", "more"} => told'[r] # "more" /\ told'[r] # "final"
  BY TellFacts DEF IInv, DeliverFails, EndOfSend
<1>3. TypeOK'
  <2>1. op' \in [Requests -> {"new", "queued", "running", "over", "lost"}]
    BY <1>1, TurnsAssumption DEF IInv, TypeOK, OneThing, DeliverFails, EndOfSend, Requests,
       Rounds
  <2>2. chain' \in [Requests -> {"none", "delivering", "observing"}]
    BY <1>1, TurnsAssumption DEF IInv, TypeOK, OneThing, DeliverFails, EndOfSend, Requests,
       Rounds
  <2>3. last' \in [Tabs -> 0 .. MaxRequests]
    <3>1. r \in 0 .. MaxRequests
      BY TurnsAssumption DEF Requests
    <3> QED
      BY <3>1 DEF IInv, TypeOK, DeliverFails
  <2> QED
    BY <1>1, <1>2, <2>1, <2>2, <2>3 DEF IInv, TypeOK
<1>4. OneThing'
  BY <1>1, <1>2 DEF IInv, TypeOK, OneThing
<1>5. DoneAfterFinal'
  BY <1>1, <1>2 DEF IInv, TypeOK, OneThing, DoneAfterFinal
<1>6. Heard'
  BY <1>1, <1>2 DEF IInv, TypeOK, Heard
<1>7. InOrder'
  <2> SUFFICES ASSUME NEW p \in Requests, NEW q \in Requests, q < p
               PROVE  /\ op'[p] # "new" => op'[q] # "new"
                      /\ op'[p] = "running" /\ tab'[q] = tab'[p] => op'[q] \in {"over", "lost"}
    BY DEF InOrder
  <2>1. CASE p = r
    <3>1. q # r
      BY <2>1 DEF Requests
    <3> QED
      BY <1>1, <2>1, <3>1 DEF IInv, OneThing, InOrder
  <2>2. CASE q = r
    <3>1. p # r
      BY <2>2 DEF Requests
    <3> QED
      BY <1>1, <2>2, <3>1 DEF IInv, OneThing, InOrder
  <2>3. CASE p # r /\ q # r
    BY <1>1, <2>3 DEF IInv, InOrder
  <2> QED
    BY <2>1, <2>2, <2>3
<1>8. Apart'
  <2> SUFFICES ASSUME ~killed', gaveUp' = {}
               PROVE  /\ crossed' = {}
                      /\ \A q \in Requests :
                           /\ chain'[q] # "none" \/ batch'[q] > 0 => op'[q] = "running"
                           /\ chain'[q] = "observing" => last'[tab'[q]] = q
    BY DEF Apart
  <2>1. /\ gaveUp = {} /\ crossed = {}
        /\ \A q \in Requests :
             /\ chain[q] # "none" \/ batch[q] > 0 => op[q] = "running"
             /\ chain[q] = "observing" => last[tab[q]] = q
    BY <1>1 DEF IInv, Apart
  <2>2. crossed' = {}
    BY <1>1, <2>1
  <2>3. ASSUME NEW q \in Requests
        PROVE  chain'[q] # "none" \/ batch'[q] > 0 => op'[q] = "running"
    <3>1. CASE q = r
      BY <1>1, <2>1, <3>1 DEF IInv, TypeOK, OneThing
    <3>2. CASE q # r
      BY <1>1, <2>1, <3>2
    <3> QED
      BY <3>1, <3>2
  <2>4. ASSUME NEW q \in Requests, chain'[q] = "observing"
        PROVE  last'[tab'[q]] = q
    <3>1. CASE q = r
      BY <1>1, <2>1, <2>4, <3>1 DEF IInv, OneThing
    <3>2. CASE q # r
      <4>1. op[q] = "running" /\ op[r] = "running" /\ tab[q] \in Tabs
        BY <1>1, <2>1, <2>4, <3>2 DEF IInv, OneThing
      <4>2. q < r \/ r < q
        BY <3>2 DEF Requests
      <4>3. tab[q] # tab[r]
        BY <4>1, <4>2 DEF IInv, InOrder
      <4> QED
        BY <1>1, <2>1, <2>4, <3>2, <4>1, <4>3
    <3> QED
      BY <3>1, <3>2
  <2> QED
    BY <2>2, <2>3, <2>4
<1>9. ShownSofar'
  BY <1>1 DEF IInv, ShownSofar
<1> QED
  BY <1>3, <1>4, <1>5, <1>6, <1>7, <1>8, <1>9 DEF IInv

(* The reply was read.                                                     *)
LEMMA ObservedKeeps ==
  ASSUME IInv, NEW r \in Requests, NEW n \in 0 .. MaxCalls, Observed(r, n)
  PROVE  IInv'
<1>1. /\ chain[r] = "observing"
      /\ n > 0 => round[r] < MaxRounds
      /\ tab[r] \in Tabs
      /\ crossed' = IF last[tab[r]] = r THEN crossed ELSE crossed \cup {r}
      /\ \A q \in Requests : chain'[q] = IF q = r THEN "none" ELSE chain[q]
      /\ \A q \in Requests : batch'[q] = IF q = r THEN n ELSE batch[q]
      /\ \A q \in Requests : op'[q] = IF q = r
           THEN IF op[r] = "running" /\ (n = 0 \/ r \in gaveUp) THEN "over" ELSE op[r]
                ELSE op[q]
      /\ UNCHANGED <<tab, round, tries, got, gaveUp, last, up, shown, killed, faults>>
  BY DEF IInv, TypeOK, OneThing, Observed, EndOfSend, turn, page, wire, said
<1>2. /\ told' \in [Requests -> {"nothing", "error", "final", "more"}]
      /\ missed' \subseteq Requests /\ missed \subseteq missed'
      /\ \A q \in Requests : q # r => told'[q] = told[q]
      /\ told[r] # "nothing" => told'[r] # "nothing"
      /\ n = 0 => told'[r] # "nothing" \/ r \in missed'
      /\ told[r] \notin {"final", "more"} => told'[r] # "more" /\ (told'[r] = "final" => n = 0)
  <2>1. CASE n = 0
    BY <2>1, TellFacts DEF IInv, Observed, EndOfSend
  <2>2. CASE ~(n = 0)
    <3>1. UNCHANGED <<told, missed>>
      BY <2>2 DEF Observed, EndOfSend
    <3> QED
      BY <2>2, <3>1 DEF IInv, TypeOK
  <2> QED
    BY <2>1, <2>2
<1>3. TypeOK'
  <2>1. chain' \in [Requests -> {"none", "delivering", "observing"}]
    BY <1>1, TurnsAssumption DEF IInv, TypeOK, OneThing, Observed, EndOfSend, Requests, Rounds
  <2>2. batch' \in [Requests -> 0 .. MaxCalls]
    BY <1>1, TurnsAssumption DEF IInv, TypeOK, OneThing, Observed, EndOfSend, Requests, Rounds
  <2>3. op' \in [Requests -> {"new", "queued", "running", "over", "lost"}]
    BY <1>1, TurnsAssumption DEF IInv, TypeOK, OneThing, Observed, EndOfSend, Requests, Rounds
  <2>4. watching' \in [Tabs -> 0 .. MaxRequests]
    BY <1>1, TurnsAssumption DEF IInv, TypeOK, OneThing, Observed, EndOfSend, Requests, Rounds
  <2>5. owed' \subseteq Requests \X Rounds \X (1 .. MaxCalls)
    <3>1. \A i \in 1 .. n : i \in 1 .. MaxCalls
      BY TurnsAssumption
    <3>2. round[r] \in Rounds
      BY DEF IInv, TypeOK
    <3>3. {<<r, round[r], i>> : i \in 1 .. n} \subseteq Requests \X Rounds \X (1 .. MaxCalls)
      BY <3>1, <3>2
    <3> QED
      BY <3>3 DEF IInv, TypeOK, Observed
  <2>6. crossed' \subseteq Requests
    BY <1>1, TurnsAssumption DEF IInv, TypeOK, OneThing, Observed, EndOfSend, Requests, Rounds
  <2> QED
    BY <1>1, <1>2, <2>1, <2>2, <2>3, <2>4, <2>5, <2>6 DEF IInv, TypeOK
<1>4. OneThing'
  <2> SUFFICES ASSUME NEW q \in Requests
               PROVE  /\ chain'[q] # "none" => batch'[q] = 0
                      /\ batch'[q] > 0 => round'[q] < MaxRounds
                      /\ chain'[q] # "none" \/ batch'[q] > 0 => op'[q] \in {"running",
                           "over"} /\ tab'[q] \in Tabs
                      /\ op'[q] \in {"queued", "running"} => tab'[q] \in Tabs
    BY DEF OneThing
  <2>1. CASE q = r
    BY <1>1, <1>2, <2>1 DEF IInv, TypeOK, OneThing
  <2>2. CASE q # r
    BY <1>1, <1>2, <2>2 DEF IInv, TypeOK, OneThing
  <2> QED
    BY <2>1, <2>2
<1>5. DoneAfterFinal'
  BY <1>1, <1>2 DEF IInv, TypeOK, OneThing, DoneAfterFinal
<1>6. Heard'
  BY <1>1, <1>2 DEF IInv, TypeOK, Heard
<1>7. InOrder'
  <2> SUFFICES ASSUME NEW p \in Requests, NEW q \in Requests, q < p
               PROVE  /\ op'[p] # "new" => op'[q] # "new"
                      /\ op'[p] = "running" /\ tab'[q] = tab'[p] => op'[q] \in {"over", "lost"}
    BY DEF InOrder
  <2>1. CASE p = r
    <3>1. q # r
      BY <2>1 DEF Requests
    <3> QED
      BY <1>1, <2>1, <3>1 DEF IInv, OneThing, InOrder
  <2>2. CASE q = r
    <3>1. p # r
      BY <2>2 DEF Requests
    <3> QED
      BY <1>1, <2>2, <3>1 DEF IInv, OneThing, InOrder
  <2>3. CASE p # r /\ q # r
    BY <1>1, <2>3 DEF IInv, InOrder
  <2> QED
    BY <2>1, <2>2, <2>3
<1>8. Apart'
  <2> SUFFICES ASSUME ~killed', gaveUp' = {}
               PROVE  /\ crossed' = {}
                      /\ \A q \in Requests :
                           /\ chain'[q] # "none" \/ batch'[q] > 0 => op'[q] = "running"
                           /\ chain'[q] = "observing" => last'[tab'[q]] = q
    BY DEF Apart
  <2>1. /\ gaveUp = {} /\ crossed = {}
        /\ \A q \in Requests :
             /\ chain[q] # "none" \/ batch[q] > 0 => op[q] = "running"
             /\ chain[q] = "observing" => last[tab[q]] = q
    BY <1>1 DEF IInv, Apart
  <2>2. crossed' = {}
    BY <1>1, <2>1
  <2>3. ASSUME NEW q \in Requests
        PROVE  chain'[q] # "none" \/ batch'[q] > 0 => op'[q] = "running"
    <3>1. CASE q = r
      BY <1>1, <2>1, <3>1 DEF IInv, TypeOK, OneThing
    <3>2. CASE q # r
      BY <1>1, <2>1, <3>2
    <3> QED
      BY <3>1, <3>2
  <2>4. ASSUME NEW q \in Requests, chain'[q] = "observing"
        PROVE  last'[tab'[q]] = q
    <3>1. CASE q = r
      BY <1>1, <2>1, <2>4, <3>1 DEF IInv, OneThing
    <3>2. CASE q # r
      BY <1>1, <2>1, <2>4, <3>2 DEF IInv, OneThing
    <3> QED
      BY <3>1, <3>2
  <2> QED
    BY <2>2, <2>3, <2>4
<1>9. ShownSofar'
  BY <1>1 DEF IInv, ShownSofar
<1> QED
  BY <1>3, <1>4, <1>5, <1>6, <1>7, <1>8, <1>9 DEF IInv

(* The page is asked again.                                                *)
LEMMA AskAgainKeeps ==
  ASSUME IInv, NEW r \in Requests, AskAgain(r)
  PROVE  IInv'
<1>1. /\ chain[r] = "observing"
      /\ tries[r] < MaxRetries
      /\ \A q \in Requests : tries'[q] = IF q = r THEN tries[r] + 1 ELSE tries[q]
      /\ UNCHANGED <<op, tab, chain, round, batch, got, gaveUp, owed, last, up, told, shown,
           missed, crossed, killed, faults>>
  BY DEF IInv, TypeOK, OneThing, AskAgain, turn, page, wire, said
<1>3. TypeOK'
  <2>1. tries' \in [Requests -> 0 .. MaxRetries]
    <3>1. tries[r] + 1 \in 0 .. MaxRetries
      BY <1>1, TurnsAssumption DEF IInv, TypeOK
    <3>2. tries' = [tries EXCEPT ![r] = tries[r] + 1]
      BY DEF AskAgain
    <3> QED
      BY <3>1, <3>2 DEF IInv, TypeOK
  <2>2. watching' \in [Tabs -> 0 .. MaxRequests]
    BY <1>1, TurnsAssumption DEF IInv, TypeOK, OneThing, AskAgain, Requests, Rounds
  <2> QED
    BY <1>1, <2>1, <2>2 DEF IInv, TypeOK
<1>4. OneThing'
  BY <1>1 DEF IInv, OneThing
<1>5. DoneAfterFinal'
  BY <1>1 DEF IInv, DoneAfterFinal
<1>6. Heard'
  BY <1>1 DEF IInv, Heard
<1>7. InOrder'
  BY <1>1 DEF IInv, InOrder
<1>8. Apart'
  BY <1>1 DEF IInv, Apart
<1>9. ShownSofar'
  BY <1>1 DEF IInv, ShownSofar
<1> QED
  BY <1>3, <1>4, <1>5, <1>6, <1>7, <1>8, <1>9 DEF IInv

(* The reply was not found.                                                *)
LEMMA UnreadableKeeps ==
  ASSUME IInv, NEW r \in Requests, Unreadable(r)
  PROVE  IInv'
<1>1. /\ chain[r] = "observing"
      /\ \A q \in Requests : op'[q] = IF q = r
           THEN IF op[r] = "running" /\ (batch[r] = 0 \/ r \in gaveUp) THEN "over"
                ELSE op[r] ELSE op[q]
      /\ \A q \in Requests : chain'[q] = IF q = r THEN "none" ELSE chain[q]
      /\ UNCHANGED <<tab, round, tries, batch, got, gaveUp, owed, last, up, shown, crossed,
           killed, faults>>
  BY DEF IInv, TypeOK, OneThing, Unreadable, EndOfSend, turn, page, wire, said
<1>2. /\ told' \in [Requests -> {"nothing", "error", "final", "more"}]
      /\ missed' \subseteq Requests /\ missed \subseteq missed'
      /\ \A q \in Requests : q # r => told'[q] = told[q]
      /\ told[r] # "nothing" => told'[r] # "nothing"
      /\ told'[r] # "nothing" \/ r \in missed'
      /\ told[r] \notin {"final", "more"} => told'[r] # "more" /\ told'[r] # "final"
  BY TellFacts DEF IInv, Unreadable, EndOfSend
<1>3. TypeOK'
  <2>1. op' \in [Requests -> {"new", "queued", "running", "over", "lost"}]
    BY <1>1, TurnsAssumption DEF IInv, TypeOK, OneThing, Unreadable, EndOfSend, Requests, Rounds
  <2>2. chain' \in [Requests -> {"none", "delivering", "observing"}]
    BY <1>1, TurnsAssumption DEF IInv, TypeOK, OneThing, Unreadable, EndOfSend, Requests, Rounds
  <2>3. watching' \in [Tabs -> 0 .. MaxRequests]
    BY <1>1, TurnsAssumption DEF IInv, TypeOK, OneThing, Unreadable, EndOfSend, Requests, Rounds
  <2> QED
    BY <1>1, <1>2, <2>1, <2>2, <2>3 DEF IInv, TypeOK
<1>4. OneThing'
  BY <1>1, <1>2 DEF IInv, TypeOK, OneThing
<1>5. DoneAfterFinal'
  BY <1>1, <1>2 DEF IInv, TypeOK, OneThing, DoneAfterFinal
<1>6. Heard'
  BY <1>1, <1>2 DEF IInv, TypeOK, Heard
<1>7. InOrder'
  <2> SUFFICES ASSUME NEW p \in Requests, NEW q \in Requests, q < p
               PROVE  /\ op'[p] # "new" => op'[q] # "new"
                      /\ op'[p] = "running" /\ tab'[q] = tab'[p] => op'[q] \in {"over", "lost"}
    BY DEF InOrder
  <2>1. CASE p = r
    <3>1. q # r
      BY <2>1 DEF Requests
    <3> QED
      BY <1>1, <2>1, <3>1 DEF IInv, OneThing, InOrder
  <2>2. CASE q = r
    <3>1. p # r
      BY <2>2 DEF Requests
    <3> QED
      BY <1>1, <2>2, <3>1 DEF IInv, OneThing, InOrder
  <2>3. CASE p # r /\ q # r
    BY <1>1, <2>3 DEF IInv, InOrder
  <2> QED
    BY <2>1, <2>2, <2>3
<1>8. Apart'
  <2> SUFFICES ASSUME ~killed', gaveUp' = {}
               PROVE  /\ crossed' = {}
                      /\ \A q \in Requests :
                           /\ chain'[q] # "none" \/ batch'[q] > 0 => op'[q] = "running"
                           /\ chain'[q] = "observing" => last'[tab'[q]] = q
    BY DEF Apart
  <2>1. /\ gaveUp = {} /\ crossed = {}
        /\ \A q \in Requests :
             /\ chain[q] # "none" \/ batch[q] > 0 => op[q] = "running"
             /\ chain[q] = "observing" => last[tab[q]] = q
    BY <1>1 DEF IInv, Apart
  <2>2. crossed' = {}
    BY <1>1, <2>1
  <2>3. ASSUME NEW q \in Requests
        PROVE  chain'[q] # "none" \/ batch'[q] > 0 => op'[q] = "running"
    <3>1. CASE q = r
      BY <1>1, <2>1, <3>1 DEF IInv, TypeOK, OneThing
    <3>2. CASE q # r
      BY <1>1, <2>1, <3>2
    <3> QED
      BY <3>1, <3>2
  <2>4. ASSUME NEW q \in Requests, chain'[q] = "observing"
        PROVE  last'[tab'[q]] = q
    <3>1. CASE q = r
      BY <1>1, <2>1, <2>4, <3>1 DEF IInv, OneThing
    <3>2. CASE q # r
      BY <1>1, <2>1, <2>4, <3>2 DEF IInv, OneThing
    <3> QED
      BY <3>1, <3>2
  <2> QED
    BY <2>2, <2>3, <2>4
<1>9. ShownSofar'
  BY <1>1 DEF IInv, ShownSofar
<1> QED
  BY <1>3, <1>4, <1>5, <1>6, <1>7, <1>8, <1>9 DEF IInv

(* A frame is forwarded.                                                   *)
LEMMA ProgressKeeps ==
  ASSUME IInv, NEW r \in Requests, NEW n \in Rounds, Progress(r, n)
  PROVE  IInv'
<1>1. /\ op[r] = "running"
      /\ n = round[r]
      /\ \A q \in Requests : shown'[q] = IF q = r THEN IF up THEN n ELSE shown[r] ELSE shown[q]
      /\ UNCHANGED <<op, tab, chain, round, tries, batch, got, gaveUp, owed, last, watching,
           up, crossed, killed, faults>>
  BY DEF IInv, TypeOK, OneThing, Progress, Framed, turn, page, wire, said
<1>2. /\ told' \in [Requests -> {"nothing", "error", "final", "more"}]
      /\ missed' \subseteq Requests /\ missed \subseteq missed'
      /\ \A q \in Requests : q # r => told'[q] = told[q]
      /\ told[r] # "nothing" => told'[r] # "nothing"
      /\ told[r] \notin {"final", "more"} => told'[r] # "more" /\ told'[r] # "final"
  BY TellFacts DEF IInv, Progress, Framed
<1>3. TypeOK'
  BY <1>1, <1>2, TurnsAssumption DEF IInv, TypeOK, OneThing, Progress, Framed, Requests, Rounds
<1>4. OneThing'
  BY <1>1 DEF IInv, OneThing
<1>5. DoneAfterFinal'
  BY <1>1, <1>2 DEF IInv, TypeOK, OneThing, DoneAfterFinal
<1>6. Heard'
  BY <1>1, <1>2 DEF IInv, TypeOK, Heard
<1>7. InOrder'
  BY <1>1 DEF IInv, InOrder
<1>8. Apart'
  BY <1>1 DEF IInv, Apart
<1>9. ShownSofar'
  <2> SUFFICES ASSUME NEW q \in Requests
               PROVE  shown'[q] <= round'[q]
    BY DEF ShownSofar
  <2>0. shown[q] \in Nat /\ round[q] \in Nat
    BY TurnsAssumption DEF IInv, TypeOK, Rounds
  <2>1. CASE q = r
    BY <1>1, <1>2, <2>0, <2>1 DEF IInv, ShownSofar
  <2>2. CASE q # r
    BY <1>1, <1>2, <2>0, <2>2 DEF IInv, ShownSofar
  <2> QED
    BY <2>1, <2>2
<1> QED
  BY <1>3, <1>4, <1>5, <1>6, <1>7, <1>8, <1>9 DEF IInv

(* A batch is finished, by its last result or by its deadline.             *)
LEMMA FinishBatchKeeps ==
  ASSUME IInv, NEW r \in Requests, batch[r] > 0, finishBatch(r), owed' \subseteq owed,
         UNCHANGED <<op, tab, gaveUp, page, up, said, crossed, killed, faults>>
  PROVE  IInv'
<1>1. /\ batch[r] > 0
      /\ owed' \subseteq owed
      /\ \A q \in Requests : batch'[q] = IF q = r THEN 0 ELSE batch[q]
      /\ \A q \in Requests : got'[q] = IF q = r THEN {} ELSE got[q]
      /\ \A q \in Requests : round'[q] = IF q = r THEN round[r] + 1 ELSE round[q]
      /\ \A q \in Requests : chain'[q] = IF q = r THEN "delivering" ELSE chain[q]
      /\ \A q \in Requests : tries'[q] = IF q = r THEN 0 ELSE tries[q]
      /\ UNCHANGED <<op, tab, gaveUp, last, watching, up, told, shown, missed, crossed,
           killed, faults>>
  BY DEF IInv, TypeOK, OneThing, finishBatch, turn, page, wire, said
<1>3. TypeOK'
  <2>1. batch' \in [Requests -> 0 .. MaxCalls]
    BY <1>1, TurnsAssumption DEF IInv, TypeOK, OneThing, finishBatch, Requests, Rounds
  <2>2. got' \in [Requests -> SUBSET (1 .. MaxCalls)]
    BY <1>1, TurnsAssumption DEF IInv, TypeOK, OneThing, finishBatch, Requests, Rounds
  <2>3. round' \in [Requests -> Rounds]
    <3>1. round[r] + 1 \in Rounds
      BY <1>1, TurnsAssumption DEF IInv, TypeOK, OneThing, Rounds
    <3>2. round' = [round EXCEPT ![r] = round[r] + 1]
      BY DEF finishBatch
    <3> QED
      BY <3>1, <3>2 DEF IInv, TypeOK
  <2>4. chain' \in [Requests -> {"none", "delivering", "observing"}]
    BY <1>1, TurnsAssumption DEF IInv, TypeOK, OneThing, finishBatch, Requests, Rounds
  <2>5. tries' \in [Requests -> 0 .. MaxRetries]
    BY <1>1, TurnsAssumption DEF IInv, TypeOK, OneThing, finishBatch, Requests, Rounds
  <2>6. owed' \subseteq Requests \X Rounds \X (1 .. MaxCalls)
    BY <1>1, TurnsAssumption DEF IInv, TypeOK, OneThing, finishBatch, Requests, Rounds
  <2> QED
    BY <1>1, <2>1, <2>2, <2>3, <2>4, <2>5, <2>6 DEF IInv, TypeOK
<1>4. OneThing'
  <2> SUFFICES ASSUME NEW q \in Requests
               PROVE  /\ chain'[q] # "none" => batch'[q] = 0
                      /\ batch'[q] > 0 => round'[q] < MaxRounds
                      /\ chain'[q] # "none" \/ batch'[q] > 0 => op'[q] \in {"running",
                           "over"} /\ tab'[q] \in Tabs
                      /\ op'[q] \in {"queued", "running"} => tab'[q] \in Tabs
    BY DEF OneThing
  <2>1. CASE q = r
    BY <1>1, <2>1 DEF IInv, TypeOK, OneThing
  <2>2. CASE q # r
    BY <1>1, <2>2 DEF IInv, TypeOK, OneThing
  <2> QED
    BY <2>1, <2>2
<1>5. DoneAfterFinal'
  BY <1>1 DEF IInv, TypeOK, OneThing, DoneAfterFinal
<1>6. Heard'
  BY <1>1 DEF IInv, Heard
<1>7. InOrder'
  BY <1>1 DEF IInv, InOrder
<1>8. Apart'
  <2> SUFFICES ASSUME ~killed', gaveUp' = {}
               PROVE  /\ crossed' = {}
                      /\ \A q \in Requests :
                           /\ chain'[q] # "none" \/ batch'[q] > 0 => op'[q] = "running"
                           /\ chain'[q] = "observing" => last'[tab'[q]] = q
    BY DEF Apart
  <2>1. /\ gaveUp = {} /\ crossed = {}
        /\ \A q \in Requests :
             /\ chain[q] # "none" \/ batch[q] > 0 => op[q] = "running"
             /\ chain[q] = "observing" => last[tab[q]] = q
    BY <1>1 DEF IInv, Apart
  <2>2. crossed' = {}
    BY <1>1, <2>1
  <2>3. ASSUME NEW q \in Requests
        PROVE  chain'[q] # "none" \/ batch'[q] > 0 => op'[q] = "running"
    <3>1. CASE q = r
      BY <1>1, <2>1, <3>1 DEF IInv, TypeOK, OneThing
    <3>2. CASE q # r
      BY <1>1, <2>1, <3>2
    <3> QED
      BY <3>1, <3>2
  <2>4. ASSUME NEW q \in Requests, chain'[q] = "observing"
        PROVE  last'[tab'[q]] = q
    <3>1. CASE q = r
      BY <1>1, <2>1, <2>4, <3>1 DEF IInv, OneThing
    <3>2. CASE q # r
      BY <1>1, <2>1, <2>4, <3>2 DEF IInv, OneThing
    <3> QED
      BY <3>1, <3>2
  <2> QED
    BY <2>2, <2>3, <2>4
<1>9. ShownSofar'
  <2> SUFFICES ASSUME NEW q \in Requests
               PROVE  shown'[q] <= round'[q]
    BY DEF ShownSofar
  <2>0. shown[q] \in Nat /\ round[q] \in Nat
    BY TurnsAssumption DEF IInv, TypeOK, Rounds
  <2>1. CASE q = r
    BY <1>1, <2>0, <2>1 DEF IInv, ShownSofar
  <2>2. CASE q # r
    BY <1>1, <2>0, <2>2 DEF IInv, ShownSofar
  <2> QED
    BY <2>1, <2>2
<1> QED
  BY <1>3, <1>4, <1>5, <1>6, <1>7, <1>8, <1>9 DEF IInv

(* A turn is given up on.                                                  *)
LEMMA CeilingKeeps ==
  ASSUME IInv, NEW r \in Requests, Ceiling(r)
  PROVE  IInv'
<1>1. /\ op[r] = "running"
      /\ gaveUp' = gaveUp \cup {r}
      /\ \A q \in Requests : op'[q] = IF q = r THEN IF round[r] = 0 /\ chain[r] # "none"
           THEN "running" ELSE "over" ELSE op[q]
      /\ UNCHANGED <<tab, chain, round, tries, batch, got, owed, last, watching, up, shown,
           crossed, killed, faults>>
  BY DEF IInv, TypeOK, OneThing, Ceiling, turn, page, wire, said
<1>2. /\ told' \in [Requests -> {"nothing", "error", "final", "more"}]
      /\ missed' \subseteq Requests /\ missed \subseteq missed'
      /\ \A q \in Requests : q # r => told'[q] = told[q]
      /\ told[r] # "nothing" => told'[r] # "nothing"
      /\ told'[r] # "nothing" \/ r \in missed'
      /\ told[r] \notin {"final", "more"} => told'[r] # "more" /\ told'[r] # "final"
  BY TellFacts DEF IInv, Ceiling
<1>3. TypeOK'
  <2>1. op' \in [Requests -> {"new", "queued", "running", "over", "lost"}]
    BY <1>1, TurnsAssumption DEF IInv, TypeOK, OneThing, Ceiling, Requests, Rounds
  <2>2. gaveUp' \subseteq Requests
    BY <1>1, TurnsAssumption DEF IInv, TypeOK, OneThing, Ceiling, Requests, Rounds
  <2> QED
    BY <1>1, <1>2, <2>1, <2>2 DEF IInv, TypeOK
<1>4. OneThing'
  BY <1>1, <1>2 DEF IInv, TypeOK, OneThing
<1>5. DoneAfterFinal'
  BY <1>1, <1>2 DEF IInv, TypeOK, OneThing, DoneAfterFinal
<1>6. Heard'
  BY <1>1, <1>2 DEF IInv, TypeOK, Heard
<1>7. InOrder'
  <2> SUFFICES ASSUME NEW p \in Requests, NEW q \in Requests, q < p
               PROVE  /\ op'[p] # "new" => op'[q] # "new"
                      /\ op'[p] = "running" /\ tab'[q] = tab'[p] => op'[q] \in {"over", "lost"}
    BY DEF InOrder
  <2>1. CASE p = r
    <3>1. q # r
      BY <2>1 DEF Requests
    <3> QED
      BY <1>1, <2>1, <3>1 DEF IInv, OneThing, InOrder
  <2>2. CASE q = r
    <3>1. p # r
      BY <2>2 DEF Requests
    <3> QED
      BY <1>1, <2>2, <3>1 DEF IInv, OneThing, InOrder
  <2>3. CASE p # r /\ q # r
    BY <1>1, <2>3 DEF IInv, InOrder
  <2> QED
    BY <2>1, <2>2, <2>3
<1>8. Apart'
  BY <1>1, <1>2 DEF IInv, TypeOK, OneThing, InOrder, Apart
<1>9. ShownSofar'
  BY <1>1 DEF IInv, ShownSofar
<1> QED
  BY <1>3, <1>4, <1>5, <1>6, <1>7, <1>8, <1>9 DEF IInv

(* The socket closes.                                                      *)
LEMMA SocketLostKeeps ==
  ASSUME IInv, SocketLost
  PROVE  IInv'
<1>1. /\ owed' = {}
      /\ UNCHANGED <<op, tab, chain, round, tries, batch, got, gaveUp, last, watching, told,
           shown, missed, crossed, killed>>
  BY DEF IInv, TypeOK, OneThing, SocketLost, turn, page, wire, said
<1>3. TypeOK'
  <2>1. owed' \subseteq Requests \X Rounds \X (1 .. MaxCalls)
    BY <1>1, TurnsAssumption DEF IInv, TypeOK, OneThing, SocketLost, Requests, Rounds
  <2>2. faults' \in 0 .. MaxFaults
    BY <1>1, TurnsAssumption DEF IInv, TypeOK, OneThing, SocketLost, Requests, Rounds
  <2> QED
    BY <1>1, <2>1, <2>2 DEF IInv, TypeOK, SocketLost
<1>4. OneThing'
  BY <1>1, TurnsAssumption DEF IInv, TypeOK, OneThing, Requests
<1>5. DoneAfterFinal'
  BY <1>1, TurnsAssumption DEF IInv, TypeOK, OneThing, DoneAfterFinal, Requests
<1>6. Heard'
  BY <1>1, TurnsAssumption DEF IInv, TypeOK, Heard, Requests
<1>7. InOrder'
  BY <1>1, TurnsAssumption DEF IInv, TypeOK, InOrder, Requests
<1>8. Apart'
  BY <1>1, TurnsAssumption DEF IInv, TypeOK, OneThing, InOrder, Apart, Requests
<1>9. ShownSofar'
  BY <1>1, TurnsAssumption DEF IInv, TypeOK, ShownSofar, Rounds, Requests
<1> QED
  BY <1>3, <1>4, <1>5, <1>6, <1>7, <1>8, <1>9 DEF IInv

(* The socket opens again.                                                 *)
LEMMA ReconnectedKeeps ==
  ASSUME IInv, Reconnected
  PROVE  IInv'
<1>1. /\ UNCHANGED <<op, tab, chain, round, tries, batch, got, gaveUp, owed, last, watching,
           told, shown, missed, crossed, killed, faults>>
  BY DEF IInv, TypeOK, OneThing, Reconnected, turn, page, wire, said
<1>3. TypeOK'
  BY <1>1, TurnsAssumption DEF IInv, TypeOK, OneThing, Reconnected, Requests, Rounds
<1>4. OneThing'
  BY <1>1, TurnsAssumption DEF IInv, TypeOK, OneThing, Requests
<1>5. DoneAfterFinal'
  BY <1>1, TurnsAssumption DEF IInv, TypeOK, OneThing, DoneAfterFinal, Requests
<1>6. Heard'
  BY <1>1, TurnsAssumption DEF IInv, TypeOK, Heard, Requests
<1>7. InOrder'
  BY <1>1, TurnsAssumption DEF IInv, TypeOK, InOrder, Requests
<1>8. Apart'
  BY <1>1, TurnsAssumption DEF IInv, TypeOK, OneThing, InOrder, Apart, Requests
<1>9. ShownSofar'
  BY <1>1, TurnsAssumption DEF IInv, TypeOK, ShownSofar, Rounds, Requests
<1> QED
  BY <1>3, <1>4, <1>5, <1>6, <1>7, <1>8, <1>9 DEF IInv

(* The editor answers a call: the batch is finished, the answer is kept,   *)
(* or it is dropped.                                                       *)
LEMMA ToolResultKeeps ==
  ASSUME IInv, NEW r \in Requests, NEW n \in Rounds, NEW i \in 1 .. MaxCalls, ToolResult(r,
       n, i)
  PROVE  IInv'
<1>1. /\ owed' \subseteq owed
      /\ UNCHANGED <<op, tab, gaveUp, page, up, said, crossed, killed, faults>>
  BY DEF ToolResult
<1>2. CASE op[r] = "running" /\ batch[r] > 0 /\ n = round[r] /\ got[r] \cup {i} = 1 .. batch[r]
  <2>1. finishBatch(r)
    BY <1>2 DEF ToolResult
  <2> QED
    BY <1>1, <1>2, <2>1, FinishBatchKeeps
<1>3. CASE ~(op[r] = "running" /\ batch[r] > 0 /\ n = round[r] /\ got[r] \cup {i} = 1 .. batch[r])
  <2>1. UNCHANGED <<chain, round, tries, batch>>
    BY <1>3 DEF ToolResult
  <2>2. got' = [got EXCEPT ![r] = @ \cup {i}] \/ got' = got
    BY <1>3 DEF ToolResult
  <2>3. got' \in [Requests -> SUBSET (1 .. MaxCalls)]
    <3>1. CASE got' = got
      BY <3>1 DEF IInv, TypeOK
    <3>2. CASE got' = [got EXCEPT ![r] = @ \cup {i}]
      <4>1. got[r] \cup {i} \in SUBSET (1 .. MaxCalls)
        BY DEF IInv, TypeOK
      <4> QED
        BY <3>2, <4>1 DEF IInv, TypeOK
    <3> QED
      BY <2>2, <3>1, <3>2
  <2>4. UNCHANGED <<op, tab, gaveUp, last, watching, up, told, shown, missed, crossed,
       killed, faults>>
    BY <1>1 DEF page, said
  <2>5. TypeOK'
    BY <1>1, <2>1, <2>3, <2>4 DEF IInv, TypeOK
  <2>6. OneThing' /\ DoneAfterFinal' /\ Heard' /\ InOrder' /\ ShownSofar'
    BY <2>1, <2>4 DEF IInv, OneThing, DoneAfterFinal, Heard, InOrder, ShownSofar
  <2>7. Apart'
    BY <2>1, <2>4 DEF IInv, Apart
  <2> QED
    BY <2>5, <2>6, <2>7 DEF IInv
<1> QED
  BY <1>2, <1>3

(* The deadline of a batch whose turn was given up on.                     *)
LEMMA BatchDeadlineKeeps ==
  ASSUME IInv, NEW r \in Requests, BatchDeadline(r)
  PROVE  IInv'
BY FinishBatchKeeps DEF BatchDeadline, wire

(* The worker is killed.                                                   *)
LEMMA KilledKeeps ==
  ASSUME IInv, Killed
  PROVE  IInv'
<1>1. TypeOK'
  <2>1. op' \in [Requests -> {"new", "queued", "running", "over", "lost"}]
    BY TurnsAssumption DEF IInv, TypeOK, OneThing, Killed, Requests, Rounds
  <2>2. chain' \in [Requests -> {"none", "delivering", "observing"}]
    BY TurnsAssumption DEF IInv, TypeOK, OneThing, Killed, Requests, Rounds
  <2>3. tries' \in [Requests -> 0 .. MaxRetries]
    BY TurnsAssumption DEF IInv, TypeOK, OneThing, Killed, Requests, Rounds
  <2>4. batch' \in [Requests -> 0 .. MaxCalls]
    BY TurnsAssumption DEF IInv, TypeOK, OneThing, Killed, Requests, Rounds
  <2>5. got' \in [Requests -> SUBSET (1 .. MaxCalls)]
    BY TurnsAssumption DEF IInv, TypeOK, OneThing, Killed, Requests, Rounds
  <2>6. faults' \in 0 .. MaxFaults
    BY TurnsAssumption DEF IInv, TypeOK, OneThing, Killed, Requests, Rounds
  <2>7. owed' \subseteq Requests \X Rounds \X (1 .. MaxCalls)
    BY TurnsAssumption DEF IInv, TypeOK, OneThing, Killed, Requests, Rounds
  <2> QED
    BY <2>1, <2>2, <2>3, <2>4, <2>5, <2>6, <2>7 DEF IInv, TypeOK, Killed, turn, page, wire, said
<1>2. OneThing'
  BY TurnsAssumption DEF IInv, TypeOK, OneThing, Killed, Requests, Rounds, turn, page, wire,
     said
<1>3. DoneAfterFinal'
  BY TurnsAssumption DEF IInv, TypeOK, OneThing, DoneAfterFinal, Killed, Requests, Rounds,
     turn, page, wire, said
<1>4. Heard'
  BY TurnsAssumption DEF IInv, TypeOK, OneThing, DoneAfterFinal, Heard, Killed, Requests,
     Rounds, turn, page, wire, said
<1>5. InOrder'
  BY TurnsAssumption DEF IInv, TypeOK, InOrder, Killed, Requests, Rounds, turn, page, wire, said
<1>6. Apart'
  BY TurnsAssumption DEF IInv, TypeOK, OneThing, InOrder, Apart, Killed, Requests, Rounds,
     turn, page, wire, said
<1>7. ShownSofar'
  BY TurnsAssumption DEF IInv, TypeOK, ShownSofar, Killed, Requests, Rounds, turn, page,
     wire, said
<1> QED
  BY <1>1, <1>2, <1>3, <1>4, <1>5, <1>6, <1>7 DEF IInv

(* Every step of the worker, its pages and its editor keeps the invariant. *)
LEMMA NextIInv == IInv /\ [Next]_vars => IInv'
<1> SUFFICES ASSUME IInv, [Next]_vars PROVE IInv'
  OBVIOUS
<1>1. ASSUME NEW r \in Requests, Turns(r) PROVE IInv'
  BY <1>1, RequestKeeps, StartKeeps, DeliveredKeeps, DeliverFailsKeeps, ObservedKeeps,
     AskAgainKeeps, UnreadableKeeps, ProgressKeeps, ToolResultKeeps, CeilingKeeps,
     BatchDeadlineKeeps DEF Turns
<1>2. CASE UNCHANGED vars
  BY <1>2 DEF vars, turn, page, wire, said, IInv, TypeOK, OneThing, DoneAfterFinal,
     Heard, InOrder, Apart, ShownSofar
<1> QED
  BY <1>1, <1>2, SocketLostKeeps, ReconnectedKeeps, KilledKeeps DEF Next

(* In every reachable state a turn does one thing at a time, is silent     *)
(* after its final response, was reported if it ended, waited for those    *)
(* before it in its tab, and is alone in it until one is given up on or    *)
(* lost: background.ts's operations, tabQueues and observation ids.        *)
THEOREM Invariant == Spec => []IInv
<1>1. Init => IInv
  BY InitIInv
<1>2. IInv /\ [Next]_vars => IInv'
  BY NextIInv
<1> QED
  BY <1>1, <1>2, PTL DEF Spec

(* The worker's variables keep their types: no round beyond the limit, no  *)
(* call beyond a batch, nothing owed that was not asked for.               *)
THEOREM TypeCorrect == Spec => []TypeOK
<1>1. IInv => TypeOK
  BY DEF IInv
<1> QED
  BY <1>1, Invariant, PTL

(* Nothing is sent about a request after its final response, however late  *)
(* frames, timers and tool results arrive.                                 *)
THEOREM FinalStaysLast == Spec => []FinalIsLast
<1>1. IInv => FinalIsLast
  BY DEF IInv, DoneAfterFinal, FinalIsLast
<1> QED
  BY <1>1, Invariant, PTL

(* A turn that is over was answered or refused, unless the socket was      *)
(* down when the worker said so.                                           *)
THEOREM NoTurnEndsSilently == Spec => []NoSilentEnd
<1>1. IInv => NoSilentEnd
  BY DEF IInv, Heard, NoSilentEnd
<1> QED
  BY <1>1, Invariant, PTL

(* As long as no turn was given up on and no worker was killed, a reply is *)
(* read behind the message of its own request (queueForTab).               *)
THEOREM TurnsDoNotCross == Spec => []CrossedOnlyIfGivenUp
<1>1. IInv => CrossedOnlyIfGivenUp
  BY DEF IInv, Apart, CrossedOnlyIfGivenUp
<1> QED
  BY <1>1, Invariant, PTL

(* What the panel is shown of a reply never goes back to an earlier round  *)
(* (observationId).                                                        *)
THEOREM ShownOnlyGrows == Spec => ShownNeverGoesBack
<1>1. ASSUME IInv, [Next]_vars
      PROVE  [\A r \in Requests : shown'[r] >= shown[r]]_vars
  <2>1. \A r \in Requests : shown[r] \in Nat /\ shown[r] <= round[r]
    BY <1>1, TurnsAssumption DEF IInv, TypeOK, ShownSofar, Rounds
  <2>2. CASE UNCHANGED shown
    BY <2>1, <2>2
  <2>3. ASSUME NEW q \in Requests, NEW n \in Rounds, Progress(q, n)
        PROVE  \A r \in Requests : shown'[r] >= shown[r]
    <3>1. \A r \in Requests : shown'[r] = IF r = q /\ up THEN round[q] ELSE shown[r]
      BY <1>1, <2>3 DEF IInv, TypeOK, Progress
    <3> QED
      BY <2>1, <3>1
  <2>4. ASSUME NEW q \in Requests, Turns(q), \A n \in Rounds : ~Progress(q, n)
        PROVE  UNCHANGED shown
    BY <2>4 DEF Turns, Request, Start, Delivered, DeliverFails, Observed, AskAgain,
       Unreadable, ToolResult, Ceiling, BatchDeadline, said
  <2>5. SocketLost \/ Reconnected \/ Killed \/ UNCHANGED vars => UNCHANGED shown
    BY DEF SocketLost, Reconnected, Killed, vars, said
  <2> QED
    BY <1>1, <2>2, <2>3, <2>4, <2>5 DEF Next
<1> QED
  BY <1>1, Invariant, PTL DEF Spec, ShownNeverGoesBack

=============================================================================
