---------------------------- MODULE ChatParts_proof ----------------------------
(***************************************************************************)
(* Proofs about what is done on the page of a chat: typing, sending and    *)
(* reading, the model's menu, and the transcripts of harnesses, for every  *)
(* set of sites, boxes, models and runs and every number of turns, parts,  *)
(* controls, calls and faults.                                             *)
(***************************************************************************)
EXTENDS ChatParts, SequenceTheorems, FiniteSetTheorems, WellFoundedInduction, TLAPS

-----------------------------------------------------------------------------
(* ModelMenu.                                                              *)

(* What is looked at is what a control opened.                             *)
MenuInv ==
  Menu!MenuTypeOK /\ (menuStep = "look" => at \in Menu!Controls /\ seen \subseteq Menu!Listed(at))

-----------------------------------------------------------------------------
(* Completions.                                                            *)

(* Conversation t has been shown the first n messages of run r.            *)
ShownUpTo(t, r, n) == \A i \in 1 .. n : <<t, r, i>> \in shown

(* While one conversation has answered the run: what the relay has counted *)
(* was shown to it, and so was what a call takes for shown; when the rest  *)
(* of it is typed there, the whole transcript was.                         *)
CountedWasShown ==
  \A r \in Runs, t \in Tabs :
    Harness!Alone(r) /\ Harness!AllIn(t, r) => ShownUpTo(t, r, counts[key[r]])

RestWasShown(c) ==
  \A t \in Tabs :
    stage[c] \in {"asked", "typed", "answered"} /\ sent[c] <= size[c]
    /\ Harness!Alone(from[c]) /\ Harness!AllIn(t, from[c]) => ShownUpTo(t, from[c], sent[c])

WholeWasShown(c) ==
  stage[c] \in {"typed", "answered"} /\ Harness!Alone(from[c])
  /\ Harness!AllIn(into[c], from[c]) => ShownUpTo(into[c], from[c], size[c])

CallsGoOn ==
  \A c \in Harness!CallIds :
    /\ stage[c] # "none" => from[c] \in Runs
    /\ c > calls => stage[c] = "none"
    /\ RestWasShown(c) /\ WholeWasShown(c)

HarnessInv ==
  Harness!CompletionsTypeOK /\ CountedWasShown /\ CallsGoOn /\ DOMAIN from = Harness!CallIds

-----------------------------------------------------------------------------
(* ChatPage.                                                               *)

PageFlags == owed \in BOOLEAN

Answers == [to : Nat, size : Nat, block : {"none", "open", "closed"}, over : BOOLEAN]

PageTypes ==
  /\ site \in Sites
  /\ step \in {"idle", "placing", "sending", "confirming", "sent",
               "unsent", "observing", "read", "unread"}
  /\ turn \in 0 .. MaxTurns /\ held \subseteq Boxes /\ attempt \in 0 .. 2
  /\ spare \in Boxes \cup {NoBox} /\ box \in Boxes \cup {NoBox} /\ next \in Nat \ {0}
  /\ still \in 0 .. 2 /\ faults \in 0 .. MaxFaults
  /\ turns \in Nat /\ shownAt \in Nat /\ toClear \in Nat /\ toShow \in Nat
  /\ inbox \in Seq(Nat) /\ replies \in Seq(Answers)

(* The chat took the message of this turn, or had yet to react to an       *)
(* earlier one when deliver settled on the box.                            *)
Excused == Chat!Taken \/ owed

(* What the chat does to its box and to the conversation is a sign that it *)
(* took a message: until a sign of this one is seen, or one is excused,    *)
(* the message is in the box and no turn was added.                        *)
SignsAreTrue ==
  /\ step \in {"sending", "confirming"} =>
       /\ toClear > 0 \/ toShow > 0 => Excused
       /\ box = Composer => Composer \in held \/ Excused
       /\ turns > shownAt => Excused
  /\ step \in {"sent", "observing", "read", "unread"} /\ box = Composer => Excused

(* The box deliver settles on is fixed by the site: the first that takes   *)
(* the text and reacts or, when none reacts, the first that takes it.      *)
Good(b) == Chat!Placed(b) /\ Chat!Reacts(b)

FirstGood(b) ==
  \E i \in DOMAIN site.order :
    site.order[i] = b /\ Good(b) /\ \A k \in DOMAIN site.order : k < i => ~Good(site.order[k])

FirstPlaced(b) ==
  \E i \in DOMAIN site.order :
    /\ site.order[i] = b /\ Chat!Placed(b)
    /\ \A k \in DOMAIN site.order : k < i => ~Chat!Placed(site.order[k])

TheBox(b) ==
  FirstGood(b) \/ (FirstPlaced(b) /\ \A i \in DOMAIN site.order : ~Good(site.order[i]))

OneBoxIsUsed ==
  /\ \A b \in held : TheBox(b) \/ b \in site.keeps
  /\ step \in {"sending", "confirming", "sent", "observing", "read", "unread"} => TheBox(box)
  /\ step = "placing" =>
       /\ \A i \in DOMAIN site.order : i < next => ~Good(site.order[i])
       /\ spare = NoBox =>
            \A i \in DOMAIN site.order : i < next => ~Chat!Placed(site.order[i])
       /\ spare # NoBox => FirstPlaced(spare)
  /\ step # "placing" => next = 1 /\ spare = NoBox

(* Replies are added and grow, so the page before typing has at least what *)
(* it had when the message was first asked to be sent.                     *)
Grows(s, t) == Len(s) <= Len(t) /\ \A j \in 1 .. Len(s) : s[j] <= t[j]

RepliesGrow ==
  /\ before.sizes \in Seq(Nat) /\ atSend.sizes \in Seq(Nat)
  /\ Grows(atSend.sizes, Chat!Sizes)
  /\ before.taken => Grows(atSend.sizes, before.sizes)
  /\ FoundIsNew

PageInv == PageFlags /\ PageTypes /\ SignsAreTrue /\ OneBoxIsUsed /\ RepliesGrow
-----------------------------------------------------------------------------
(* ModelMenu, step by step.                                                *)

LEMMA MenuBounds ==
  /\ MaxControls \in Nat /\ MaxJobs \in Nat /\ IsFiniteSet(Models \cup Levels)
  /\ Menu!Controls = 1 .. MaxControls
BY ChatAssumption DEF Menu!Controls

LEMMA MenuInit == Init => MenuInv
<1> SUFFICES ASSUME Menu!MenuInit PROVE MenuInv
  BY DEF Init
<1>1. /\ kind \in [Menu!Controls -> Menu!Kinds] /\ offered \subseteq Models /\ model \in Models
      /\ on \subseteq Menu!Controls /\ job = "none" /\ wanted = NoName
      /\ menuStep = "done" /\ outcome = "none" /\ seen = {} /\ was = model
  BY DEF Menu!MenuInit
<1>2. open \in 0 .. MaxControls /\ at \in 1 .. MaxControls + 1 /\ jobs \in 0 .. MaxJobs
  BY MenuBounds DEF Menu!MenuInit
<1> QED
  BY <1>1, <1>2 DEF MenuInv, Menu!MenuTypeOK

(* The instance counts as FiniteSets does.                                 *)
LEMMA MenuCounts == ASSUME NEW S PROVE Menu!Cardinality(S) = Cardinality(S)
BY DEF Menu!Cardinality, Cardinality

(* The option clicked is the one named or the only one it can mean.        *)
LEMMA OptionFacts ==
  ASSUME seen \subseteq Models \cup Levels, NEW n, NEW m \in Menu!Option(n)
  PROVE  m \in seen /\ (m = n \/ Menu!Means(n) = {m})
<1>1. CASE n \in seen
  BY <1>1 DEF Menu!Option
<1>2. CASE n \notin seen
  <2>1. Cardinality(Menu!Means(n)) = 1 /\ m \in Menu!Means(n)
    BY <1>2, MenuCounts DEF Menu!Option
  <2>2. Menu!Means(n) \subseteq seen
    BY DEF Menu!Means
  <2>3. IsFiniteSet(Menu!Means(n))
    BY <2>2, MenuBounds, FS_Subset
  <2>4. PICK x : Menu!Means(n) = {x}
    BY <2>1, <2>3, FS_Singleton
  <2> QED
    BY <2>1, <2>2, <2>4
<1> QED
  BY <1>1, <1>2

LEMMA MenuNextInv == MenuInv /\ Menu!MenuNext => MenuInv'
<1> SUFFICES ASSUME MenuInv, Menu!MenuNext PROVE MenuInv'
  OBVIOUS
<1>1. /\ kind \in [Menu!Controls -> Menu!Kinds] /\ offered \subseteq Models /\ model \in Models
      /\ on \subseteq Menu!Controls /\ open \in 0 .. MaxControls
      /\ seen \subseteq Models \cup Levels /\ was \in Models
      /\ job \in {"none", "list", "set"} /\ wanted \in Named \cup {NoName}
      /\ at \in 1 .. MaxControls + 1 /\ menuStep \in {"click", "look", "confirm", "done"}
      /\ outcome \in {"none", "listed", "ok", "failed"} /\ jobs \in 0 .. MaxJobs
      /\ menuStep = "look" => at \in Menu!Controls /\ seen \subseteq Menu!Listed(at)
  BY DEF MenuInv, Menu!MenuTypeOK
<1>2. 1 \in 1 .. MaxControls + 1 /\ 0 \in 0 .. MaxControls
  BY MenuBounds
<1>3. \A c \in Menu!Controls : c \in 0 .. MaxControls /\ c + 1 \in 1 .. MaxControls + 1
  BY MenuBounds
<1>4. ASSUME NEW what \in {"list", "set"}, NEW name \in Named \cup {NoName},
             Menu!Begin(what, name)
      PROVE  MenuInv'
  <2>1. jobs' \in 0 .. MaxJobs
    BY <1>1, <1>4, MenuBounds DEF Menu!Begin
  <2> QED
    BY <1>1, <1>2, <1>4, <2>1 DEF Menu!Begin, MenuInv, Menu!MenuTypeOK
<1>5. CASE Menu!List \/ \E n \in Named : Menu!Set(n)
  BY <1>4, <1>5 DEF Menu!List, Menu!Set
<1>6. CASE Menu!ClickControl
  <2>1. /\ at \in Menu!Controls /\ UNCHANGED <<kind, offered, at>>
        /\ seen' \in SUBSET (IF open' = at THEN Menu!Listed(at) ELSE {})
    BY <1>6 DEF Menu!ClickControl
  <2>2. seen' \subseteq Menu!Listed(at) /\ Menu!Listed(at) \subseteq Models \cup Levels
    BY <1>1, <2>1 DEF Menu!Listed
  <2>3. Menu!Listed(at)' = Menu!Listed(at)
    BY <2>1 DEF Menu!Listed
  <2>4. /\ on' \subseteq Menu!Controls /\ open' \in 0 .. MaxControls /\ menuStep' = "look"
        /\ UNCHANGED <<model, was, job, wanted, outcome, jobs>>
    BY <1>1, <1>2, <1>3, <1>6 DEF Menu!ClickControl
  <2> QED
    BY <1>1, <2>1, <2>2, <2>3, <2>4 DEF MenuInv, Menu!MenuTypeOK
<1>7. CASE Menu!NoMenuFound
  BY <1>1, <1>7 DEF Menu!NoMenuFound, Menu!Finish, MenuInv, Menu!MenuTypeOK
<1>8. CASE Menu!LookToList
  BY <1>1, <1>2, <1>3, <1>8
     DEF Menu!LookToList, Menu!Dismiss, Menu!Escape, Menu!Finish, MenuInv, Menu!MenuTypeOK
<1>9. CASE Menu!NotThisMenu
  BY <1>1, <1>2, <1>3, <1>9 DEF Menu!NotThisMenu, Menu!Escape, MenuInv, Menu!MenuTypeOK
<1>10. CASE Menu!Ambiguous
  BY <1>1, <1>2, <1>10 DEF Menu!Ambiguous, Menu!Escape, Menu!Finish, MenuInv, Menu!MenuTypeOK
<1>11. CASE Menu!ClickOption
  <2>1. /\ menuStep = "look" /\ menuStep' = "confirm"
        /\ UNCHANGED <<kind, offered, seen, was, job, wanted, at, outcome, jobs>>
    BY <1>11 DEF Menu!ClickOption
  <2>2. model' \in Models /\ open' \in 0 .. MaxControls /\ on' \subseteq Menu!Controls
    <3>1. PICK m \in Menu!Option(wanted) :
            \/ kind[at] = "models" /\ model' = m /\ open' \in {0, open} /\ UNCHANGED on
            \/ kind[at] = "levels" /\ on' = on \cup {at} /\ open' \in {0, open} /\ UNCHANGED model
            \/ UNCHANGED <<model, open, on>>
      BY <1>11 DEF Menu!ClickOption
    <3>2. m \in seen
      BY <1>1, <3>1, OptionFacts
    <3>3. kind[at] = "models" => m \in Models
      BY <1>1, <2>1, <3>2 DEF Menu!Listed
    <3> QED
      BY <1>1, <1>2, <2>1, <3>1, <3>3
  <2> QED
    BY <1>1, <2>1, <2>2 DEF MenuInv, Menu!MenuTypeOK
<1>12. CASE Menu!ReadBack
  BY <1>1, <1>12 DEF Menu!ReadBack, Menu!Finish, MenuInv, Menu!MenuTypeOK
<1> QED
  BY <1>5, <1>6, <1>7, <1>8, <1>9, <1>10, <1>11, <1>12 DEF Menu!MenuNext

LEMMA MenuStays == MenuInv /\ UNCHANGED menuVars => MenuInv'
BY DEF menuVars, MenuInv, Menu!MenuTypeOK, Menu!Listed

(* What the menus may change in a step.                                    *)
LEMMA MenuNextNames ==
  ASSUME MenuInv, Menu!MenuNext
  PROVE  /\ model' # model => job = "set" /\ (model' = wanted \/ Menu!Means(wanted) = {model'})
         /\ on' # on /\ job = "set" => menuStep = "click" \/ kind[at] = "levels"
<1>1. seen \subseteq Models \cup Levels
  BY DEF MenuInv, Menu!MenuTypeOK
<1>2. CASE Menu!ClickOption
  <2>1. PICK m \in Menu!Option(wanted) :
          \/ model' = m /\ UNCHANGED on
          \/ kind[at] = "levels" /\ UNCHANGED model
          \/ UNCHANGED <<model, on>>
    BY <1>2 DEF Menu!ClickOption
  <2>2. job = "set" /\ (m = wanted \/ Menu!Means(wanted) = {m})
    BY <1>1, <1>2, <2>1, OptionFacts DEF Menu!ClickOption
  <2> QED
    BY <2>1, <2>2
<1>3. CASE Menu!List \/ \E n \in Named : Menu!Set(n)
  BY <1>3 DEF Menu!List, Menu!Set, Menu!Begin
<1>4. CASE Menu!ClickControl \/ Menu!NoMenuFound
  BY <1>4 DEF Menu!ClickControl, Menu!NoMenuFound
<1>5. CASE Menu!LookToList
  BY <1>5 DEF Menu!LookToList
<1>6. CASE Menu!NotThisMenu \/ Menu!Ambiguous \/ Menu!ReadBack
  BY <1>6 DEF Menu!NotThisMenu, Menu!Ambiguous, Menu!ReadBack
<1> QED
  BY <1>2, <1>3, <1>4, <1>5, <1>6 DEF Menu!MenuNext

-----------------------------------------------------------------------------
(* Completions, step by step.                                              *)

LEMMA HarnessBounds ==
  /\ MaxLen \in Nat /\ MaxLen >= 1 /\ MaxCalls \in Nat /\ MaxLosses \in Nat /\ Tabs # {}
  /\ Harness!CallIds = 1 .. MaxCalls
BY ChatAssumption DEF Harness!CallIds

LEMMA HarnessTypes ==
  ASSUME HarnessInv
  PROVE  /\ key \in [Runs -> Harness!Keys] /\ len \in [Runs -> 1 .. MaxLen]
         /\ counts \in [Harness!Keys -> 0 .. MaxLen] /\ calls \in 0 .. MaxCalls
         /\ size \in [Harness!CallIds -> 0 .. MaxLen] /\ sent \in [Harness!CallIds -> 0 .. MaxLen]
         /\ stage \in [Harness!CallIds ->
                         {"none", "called", "asked", "typed", "answered", "failed", "past"}]
         /\ tab \in Tabs /\ into \in [Harness!CallIds -> Tabs]
         /\ shown \subseteq Tabs \X Runs \X (1 .. MaxLen) /\ losses \in 0 .. MaxLosses
         /\ CountedWasShown /\ CallsGoOn
         /\ DOMAIN from = Harness!CallIds
BY DEF HarnessInv, Harness!CompletionsTypeOK

LEMMA HarnessInit == Init => HarnessInv
<1> SUFFICES ASSUME Harness!CompletionsInit PROVE HarnessInv
  BY DEF Init
<1>1. /\ 1 \in 1 .. MaxLen /\ 0 \in 0 .. MaxLen /\ 0 \in 0 .. MaxCalls /\ 0 \in 0 .. MaxLosses
      /\ (CHOOSE t \in Tabs : TRUE) \in Tabs
  BY HarnessBounds
<1>2. Harness!CompletionsTypeOK
  BY <1>1 DEF Harness!CompletionsInit, Harness!CompletionsTypeOK
<1>3. CountedWasShown
  <2>1. \A r \in Runs : counts[key[r]] = 0
    BY DEF Harness!CompletionsInit
  <2> QED
    BY <2>1 DEF CountedWasShown, ShownUpTo
<1>4. CallsGoOn
  BY DEF Harness!CompletionsInit, CallsGoOn, RestWasShown, WholeWasShown
<1> QED
  BY <1>2, <1>3, <1>4 DEF HarnessInv, Harness!CompletionsInit

(* Nothing that was answered is forgotten.                                 *)
Narrows == \A t \in Tabs, r \in Runs : Harness!AllIn(t, r)' => Harness!AllIn(t, r)

(* Steps that change neither the keys nor what the relay has counted, and  *)
(* take nothing from what was shown or answered.                           *)
LEMMA CountedStays ==
  ASSUME HarnessInv, UNCHANGED <<key, counts>>, shown \subseteq shown', Narrows
  PROVE  CountedWasShown'
BY DEF HarnessInv, CountedWasShown, ShownUpTo, Harness!Alone, Narrows

(* What holds of a call goes on to hold when it is left alone.             *)
LEMMA CallStays ==
  ASSUME HarnessInv, NEW d \in Harness!CallIds, UNCHANGED key, shown \subseteq shown', Narrows,
         stage'[d] = stage[d], from'[d] = from[d], size'[d] = size[d], sent'[d] = sent[d],
         into'[d] = into[d]
  PROVE  RestWasShown(d)' /\ WholeWasShown(d)'
<1>1. /\ stage[d] # "none" => from[d] \in Runs
      /\ RestWasShown(d) /\ WholeWasShown(d) /\ into[d] \in Tabs
  BY HarnessTypes DEF CallsGoOn
<1>2. Harness!Alone(from[d])' => Harness!Alone(from[d])
  BY DEF Harness!Alone
<1>3. stage[d] # "none" =>
        \A t \in Tabs : Harness!AllIn(t, from[d])' => Harness!AllIn(t, from[d])
  <2>1. ASSUME stage[d] # "none", NEW t \in Tabs, Harness!AllIn(t, from[d])'
        PROVE  Harness!AllIn(t, from[d])
    <3> DEFINE r == from[d]
    <3>1. \A c \in Harness!CallIds : from'[c] = r /\ stage'[c] = "answered" => into'[c] = t
      BY <2>1 DEF Harness!AllIn
    <3>2. r \in Runs
      BY <1>1, <2>1
    <3> HIDE DEF r
    <3>3. Harness!AllIn(t, r)
      BY <3>1, <3>2 DEF Narrows, Harness!AllIn
    <3> QED
      BY <3>3 DEF r
  <2> QED
    BY <2>1
<1>4. \A t, n : ShownUpTo(t, from[d], n) => ShownUpTo(t, from[d], n)'
  BY DEF ShownUpTo
<1>5. RestWasShown(d)'
  <2>1. SUFFICES ASSUME NEW t \in Tabs, stage[d] \in {"asked", "typed", "answered"},
                        sent[d] <= size[d], Harness!Alone(from[d])', Harness!AllIn(t, from[d])'
                 PROVE  ShownUpTo(t, from[d], sent[d])'
    BY DEF RestWasShown
  <2>2. ShownUpTo(t, from[d], sent[d])
    BY <1>1, <1>2, <1>3, <2>1 DEF RestWasShown
  <2> QED
    BY <2>2 DEF ShownUpTo
<1>6. WholeWasShown(d)'
  <2>1. SUFFICES ASSUME stage[d] \in {"typed", "answered"}, Harness!Alone(from[d])',
                        Harness!AllIn(into[d], from[d])'
                 PROVE  ShownUpTo(into[d], from[d], size[d])'
    BY DEF WholeWasShown
  <2>2. Harness!AllIn(into[d], from[d])
    <3> DEFINE r == from[d]
               t == into[d]
    <3>1. \A c \in Harness!CallIds : from'[c] = r /\ stage'[c] = "answered" => into'[c] = t
      BY <2>1 DEF Harness!AllIn
    <3>2. r \in Runs /\ t \in Tabs
      BY <1>1, <2>1
    <3> HIDE DEF r, t
    <3>3. Harness!AllIn(t, r)
      BY <3>1, <3>2 DEF Narrows, Harness!AllIn
    <3> QED
      BY <3>3 DEF r, t
  <2>3. ShownUpTo(into[d], from[d], size[d])
    BY <1>1, <1>2, <2>1, <2>2 DEF WholeWasShown
  <2> QED
    BY <2>3 DEF ShownUpTo
<1> QED
  BY <1>5, <1>6

(* A step of one call, that was not answered yet.                          *)
LEMMA OthersGoOn ==
  ASSUME HarnessInv, NEW c \in Harness!CallIds, NEW s,
         UNCHANGED key, shown \subseteq shown', stage' = [stage EXCEPT ![c] = s],
         stage[c] # "answered", calls <= calls', calls' \in Nat, c <= calls',
         \A d \in Harness!CallIds : d # c =>
           from'[d] = from[d] /\ size'[d] = size[d] /\ sent'[d] = sent[d] /\ into'[d] = into[d],
         s # "none" => from'[c] \in Runs,
         RestWasShown(c)', WholeWasShown(c)'
  PROVE  Narrows /\ CallsGoOn'
<1>1. /\ CallsGoOn /\ stage'[c] = s /\ \A d \in Harness!CallIds : d # c => stage'[d] = stage[d]
      /\ calls \in Nat /\ c \in Nat /\ \A d \in Harness!CallIds : d \in Nat
  BY HarnessTypes, HarnessBounds
<1>2. Narrows
  BY <1>1 DEF Narrows, Harness!AllIn
<1>3. ASSUME NEW d \in Harness!CallIds, d # c
      PROVE  /\ stage'[d] # "none" => from'[d] \in Runs
             /\ d > calls' => stage'[d] = "none"
             /\ RestWasShown(d)' /\ WholeWasShown(d)'
  BY <1>1, <1>2, <1>3, CallStays DEF CallsGoOn
<1> QED
  BY <1>1, <1>2, <1>3 DEF CallsGoOn

LEMMA CallInv ==
  ASSUME HarnessInv, NEW r \in Runs, NEW c, c = calls + 1, Harness!Call(r) PROVE HarnessInv'
<1>1. /\ calls < MaxCalls /\ calls' = c
      /\ from' = [from EXCEPT ![c] = r] /\ size' = [size EXCEPT ![c] = len[r]]
      /\ stage' = [stage EXCEPT ![c] = "called"]
      /\ UNCHANGED <<key, len, counts, sent, tab, into, shown, losses>>
  BY DEF Harness!Call, Harness!Goto
<1>2. /\ c \in Harness!CallIds /\ c \in 0 .. MaxCalls /\ stage[c] = "none"
      /\ c \in Nat /\ calls <= c /\ calls \in Nat
  <2>1. c \in Harness!CallIds /\ c \in 0 .. MaxCalls /\ c > calls /\ c \in Nat /\ calls \in Nat
    BY <1>1, HarnessTypes, HarnessBounds
  <2> QED
    BY <2>1, HarnessTypes DEF CallsGoOn
<1>3. len[r] \in 0 .. MaxLen
  BY HarnessTypes, HarnessBounds
<1>4. from'[c] = r /\ DOMAIN from' = Harness!CallIds
      /\ size' \in [Harness!CallIds -> 0 .. MaxLen]
      /\ stage'[c] = "called"
      /\ \A d \in Harness!CallIds : d # c => from'[d] = from[d] /\ size'[d] = size[d]
  BY <1>1, <1>2, <1>3, HarnessTypes
<1>5. Harness!CompletionsTypeOK'
  BY <1>1, <1>2, <1>4, HarnessTypes DEF Harness!CompletionsTypeOK
<1>6. RestWasShown(c)' /\ WholeWasShown(c)'
  BY <1>4 DEF RestWasShown, WholeWasShown
<1>7. Narrows /\ CallsGoOn'
  <2>1. c <= calls' /\ calls <= calls' /\ calls' \in Nat
    BY <1>1, <1>2
  <2> QED
    BY <1>1, <1>2, <1>4, <1>6, <2>1, OthersGoOn
<1>8. CountedWasShown'
  BY <1>1, <1>7, CountedStays
<1> QED
  BY <1>4, <1>5, <1>7, <1>8 DEF HarnessInv

(* The call that is served, typed or answered has been made.               *)
LEMMA CallMade ==
  ASSUME HarnessInv, NEW c \in Harness!CallIds, stage[c] # "none"
  PROVE  c <= calls /\ calls \in Nat /\ calls <= calls /\ from[c] \in Runs
<1>1. calls \in Nat /\ c \in Nat /\ ~(c > calls)
  BY HarnessTypes, HarnessBounds DEF CallsGoOn
<1> QED
  BY <1>1, HarnessTypes DEF CallsGoOn

LEMMA ServeInv ==
  ASSUME HarnessInv, NEW c \in Harness!CallIds, Harness!Serve(c) PROVE HarnessInv'
<1>1. /\ stage[c] = "called" /\ stage' = [stage EXCEPT ![c] = "asked"]
      /\ sent' = [sent EXCEPT ![c] = counts[key[from[c]]]]
      /\ UNCHANGED <<key, len, counts, calls, from, size, tab, into, shown, losses>>
  BY DEF Harness!Serve, Harness!Goto, Harness!Key, Harness!CountedLater
<1>2. from[c] \in Runs /\ key[from[c]] \in Harness!Keys
  BY <1>1, CallMade, HarnessTypes
<1>3. /\ sent' \in [Harness!CallIds -> 0 .. MaxLen] /\ sent'[c] = counts[key[from[c]]]
      /\ \A d \in Harness!CallIds : d # c => sent'[d] = sent[d]
      /\ stage'[c] = "asked" /\ \A d \in Harness!CallIds : d # c => stage'[d] = stage[d]
  BY <1>1, <1>2, HarnessTypes
<1>4. Harness!CompletionsTypeOK'
  BY <1>1, <1>3, HarnessTypes DEF Harness!CompletionsTypeOK
<1>5. RestWasShown(c)'
  <2>1. SUFFICES ASSUME NEW t \in Tabs, Harness!Alone(from[c])', Harness!AllIn(t, from[c])'
                 PROVE  ShownUpTo(t, from[c], sent[c])'
    BY DEF RestWasShown
  <2>2. Harness!Alone(from[c])
    BY <1>1, <2>1 DEF Harness!Alone
  <2>3. Harness!AllIn(t, from[c])
    BY <1>1, <1>3, <2>1 DEF Harness!AllIn
  <2>4. ShownUpTo(t, from[c], counts[key[from[c]]])
    BY <1>2, <2>2, <2>3, HarnessTypes DEF CountedWasShown
  <2> QED
    BY <1>1, <1>3, <2>4 DEF ShownUpTo
<1>6. WholeWasShown(c)'
  BY <1>3 DEF WholeWasShown
<1>7. Narrows /\ CallsGoOn'
  BY <1>1, <1>2, <1>3, <1>5, <1>6, CallMade, OthersGoOn
<1>8. CountedWasShown'
  BY <1>1, <1>7, CountedStays
<1> QED
  BY <1>1, <1>4, <1>7, <1>8, HarnessTypes DEF HarnessInv

LEMMA TypedInv ==
  ASSUME HarnessInv, NEW c \in Harness!CallIds, Harness!Typed(c) PROVE HarnessInv'
<1>1. /\ stage[c] = "asked" /\ stage' = [stage EXCEPT ![c] = "typed"]
      /\ into' = [into EXCEPT ![c] = tab]
      /\ shown' = shown \cup {tab} \X {from[c]} \X Harness!Delta(c)
      /\ UNCHANGED <<key, len, counts, calls, from, size, sent, tab, losses>>
  BY DEF Harness!Typed, Harness!Goto
<1>2. from[c] \in Runs /\ size[c] \in 0 .. MaxLen /\ sent[c] \in 0 .. MaxLen /\ tab \in Tabs
  BY <1>1, HarnessTypes, CallMade
<1>3. \A i : i \in Harness!Delta(c) => i \in 1 .. MaxLen /\ <<tab, from[c], i>> \in shown'
  BY <1>1, <1>2, HarnessBounds DEF Harness!Delta
<1>4. shown' \subseteq Tabs \X Runs \X (1 .. MaxLen) /\ shown \subseteq shown'
  BY <1>1, <1>2, <1>3, HarnessTypes
<1>5. /\ into' \in [Harness!CallIds -> Tabs] /\ into'[c] = tab
      /\ \A d \in Harness!CallIds : d # c => into'[d] = into[d]
      /\ stage'[c] = "typed" /\ \A d \in Harness!CallIds : d # c => stage'[d] = stage[d]
  BY <1>1, <1>2, HarnessTypes
<1>6. Harness!CompletionsTypeOK'
  BY <1>1, <1>4, <1>5, HarnessTypes DEF Harness!CompletionsTypeOK
<1>7. /\ Harness!Alone(from[c])' => Harness!Alone(from[c])
      /\ \A t : Harness!AllIn(t, from[c])' => Harness!AllIn(t, from[c])
      /\ Harness!AllIn(tab, from[c])' => Harness!AllIn(tab, from[c])
  BY <1>1, <1>5 DEF Harness!Alone, Harness!AllIn
<1>8. ASSUME NEW t \in Tabs, Harness!Alone(from[c]), Harness!AllIn(t, from[c]), sent[c] <= size[c]
      PROVE  ShownUpTo(t, from[c], sent[c])
  BY <1>1, <1>8, HarnessTypes DEF CallsGoOn, RestWasShown
<1>9. RestWasShown(c)'
  BY <1>1, <1>4, <1>7, <1>8 DEF RestWasShown, ShownUpTo
<1>10. WholeWasShown(c)'
  <2>1. SUFFICES ASSUME Harness!Alone(from[c])', Harness!AllIn(tab, from[c])',
                        NEW i \in 1 .. size[c]
                 PROVE  <<tab, from[c], i>> \in shown'
    BY <1>1, <1>5 DEF WholeWasShown, ShownUpTo, Harness!AllIn
  <2>2. CASE i \in Harness!Delta(c)
    BY <1>3, <2>2
  <2>3. CASE i \notin Harness!Delta(c)
    <3>1. sent[c] <= size[c] /\ i \in 1 .. sent[c]
      BY <1>2, <2>3, HarnessBounds DEF Harness!Delta
    <3>2. ShownUpTo(tab, from[c], sent[c])
      BY <1>2, <1>7, <1>8, <2>1, <3>1
    <3> QED
      BY <1>4, <3>1, <3>2 DEF ShownUpTo
  <2> QED
    BY <2>2, <2>3
<1>11. Narrows /\ CallsGoOn'
  BY <1>1, <1>2, <1>4, <1>5, <1>9, <1>10, CallMade, OthersGoOn
<1>12. CountedWasShown'
  BY <1>1, <1>4, <1>11, CountedStays
<1> QED
  BY <1>1, <1>6, <1>11, <1>12, HarnessTypes DEF HarnessInv

LEMMA AnsweredInv ==
  ASSUME HarnessInv, NEW c \in Harness!CallIds, Harness!Answered(c) PROVE HarnessInv'
<1>1. /\ stage[c] = "typed" /\ stage' = [stage EXCEPT ![c] = "answered"]
      /\ counts' = [counts EXCEPT ![key[from[c]]] = size[c]]
      /\ \/ len' = [len EXCEPT ![from[c]] = @ + 2] /\ len[from[c]] + 2 <= MaxLen
         \/ len' = len
      /\ UNCHANGED <<key, calls, from, size, sent, tab, into, shown, losses>>
  BY DEF Harness!Answered, Harness!Goto, Harness!Key
<1>2. /\ from[c] \in Runs /\ key[from[c]] \in Harness!Keys /\ size[c] \in 0 .. MaxLen
      /\ len[from[c]] \in 1 .. MaxLen /\ into[c] \in Tabs
  BY <1>1, HarnessTypes, CallMade
<1>3. /\ counts' \in [Harness!Keys -> 0 .. MaxLen]
      /\ \A k \in Harness!Keys : counts'[k] = IF k = key[from[c]] THEN size[c] ELSE counts[k]
      /\ stage'[c] = "answered" /\ \A d \in Harness!CallIds : d # c => stage'[d] = stage[d]
  BY <1>1, <1>2, HarnessTypes
<1>4. len' \in [Runs -> 1 .. MaxLen]
  <2>1. len[from[c]] + 2 <= MaxLen => len[from[c]] + 2 \in 1 .. MaxLen
    BY <1>2, HarnessBounds
  <2> QED
    BY <1>1, <1>2, <2>1, HarnessTypes
<1>5. Harness!CompletionsTypeOK'
  BY <1>1, <1>3, <1>4, HarnessTypes DEF Harness!CompletionsTypeOK
<1>6. /\ \A r : Harness!Alone(r)' => Harness!Alone(r)
      /\ \A t, r : Harness!AllIn(t, r)' => Harness!AllIn(t, r)
      /\ \A t : Harness!AllIn(t, from[c])' => into[c] = t
  BY <1>1, <1>3 DEF Harness!Alone, Harness!AllIn
<1>7. RestWasShown(c) /\ WholeWasShown(c)
  BY HarnessTypes DEF CallsGoOn
<1>8. CountedWasShown'
  <2>1. SUFFICES ASSUME NEW r \in Runs, NEW t \in Tabs, Harness!Alone(r)', Harness!AllIn(t, r)'
                 PROVE  ShownUpTo(t, r, counts'[key[r]])
    BY <1>1 DEF CountedWasShown, ShownUpTo
  <2>2. key[r] \in Harness!Keys
    BY HarnessTypes
  <2>3. CASE key[r] = key[from[c]]
    <3>1. r = from[c]
      BY <1>1, <1>2, <2>1, <2>3 DEF Harness!Alone
    <3>2. t = into[c]
      BY <1>1, <1>3, <2>1, <3>1 DEF Harness!AllIn
    <3>3. Harness!AllIn(t, r) /\ Harness!Alone(r)
      BY <1>6, <2>1
    <3>4. ShownUpTo(t, r, size[c])
      BY <1>1, <1>7, <3>1, <3>2, <3>3 DEF WholeWasShown
    <3> QED
      BY <1>3, <2>2, <2>3, <3>4
  <2>4. CASE key[r] # key[from[c]]
    <3>1. Harness!AllIn(t, r) /\ Harness!Alone(r)
      BY <1>6, <2>1
    <3> QED
      BY <1>3, <2>2, <2>4, <3>1, HarnessTypes DEF CountedWasShown
  <2> QED
    BY <2>3, <2>4
<1>9. RestWasShown(c)'
  BY <1>1, <1>6, <1>7 DEF RestWasShown, ShownUpTo
<1>10. WholeWasShown(c)'
  <2>1. SUFFICES ASSUME Harness!Alone(from[c])', Harness!AllIn(into[c], from[c])'
                 PROVE  ShownUpTo(into[c], from[c], size[c])'
    BY <1>1 DEF WholeWasShown
  <2>2. Harness!Alone(from[c]) /\ Harness!AllIn(into[c], from[c])
    BY <1>1, <1>3, <1>6, <2>1 DEF Harness!AllIn
  <2> QED
    BY <1>1, <1>7, <2>2 DEF WholeWasShown, ShownUpTo
<1>11. CallsGoOn'
  BY <1>1, <1>2, <1>9, <1>10, CallMade, OthersGoOn
<1> QED
  BY <1>1, <1>5, <1>8, <1>11, HarnessTypes DEF HarnessInv

LEMMA FailedInv ==
  ASSUME HarnessInv, NEW c \in Harness!CallIds, Harness!Failed(c) PROVE HarnessInv'
<1>1. /\ stage[c] \in {"asked", "typed"} /\ stage' = [stage EXCEPT ![c] = "failed"]
      /\ UNCHANGED <<key, len, counts, calls, from, size, sent, tab, into, shown, losses>>
  BY DEF Harness!Failed, Harness!Goto
<1>2. stage'[c] = "failed"
  BY <1>1, HarnessTypes
<1>3. Harness!CompletionsTypeOK'
  BY <1>1, HarnessTypes DEF Harness!CompletionsTypeOK
<1>4. RestWasShown(c)' /\ WholeWasShown(c)'
  BY <1>2 DEF RestWasShown, WholeWasShown
<1>5. Narrows /\ CallsGoOn'
  BY <1>1, <1>4, CallMade, OthersGoOn
<1>6. CountedWasShown'
  BY <1>1, <1>5, CountedStays
<1> QED
  BY <1>1, <1>3, <1>5, <1>6, HarnessTypes DEF HarnessInv

LEMMA RelayRestartsInv == ASSUME HarnessInv, Harness!RelayRestarts PROVE HarnessInv'
<1>1. /\ losses < MaxLosses /\ losses' = losses + 1
      /\ counts' = [k \in Harness!Keys |-> 0]
      /\ stage' = [c \in Harness!CallIds |->
                     IF stage[c] = "none" THEN "none"
                     ELSE IF stage[c] \in {"answered", "past"} THEN "past" ELSE "failed"]
      /\ UNCHANGED <<key, len, calls, from, size, sent, tab, into, shown>>
  BY DEF Harness!RelayRestarts
<1>2. losses' \in 0 .. MaxLosses /\ 0 \in 0 .. MaxLen
  BY <1>1, HarnessTypes, HarnessBounds
<1>3. Harness!CompletionsTypeOK'
  BY <1>1, <1>2, HarnessTypes DEF Harness!CompletionsTypeOK
<1>4. CountedWasShown'
  BY <1>1, HarnessTypes DEF CountedWasShown, ShownUpTo
<1>5. CallsGoOn'
  BY <1>1, HarnessTypes DEF CallsGoOn, RestWasShown, WholeWasShown
<1> QED
  BY <1>1, <1>3, <1>4, <1>5, HarnessTypes DEF HarnessInv

LEMMA HarnessStays == HarnessInv /\ UNCHANGED harnessVars => HarnessInv'
<1> SUFFICES ASSUME HarnessInv, UNCHANGED harnessVars PROVE HarnessInv'
  OBVIOUS
<1>1. UNCHANGED <<key, len, counts, calls, from, size, sent, stage, tab, into, shown, losses>>
  BY DEF harnessVars
<1>2. Harness!CompletionsTypeOK'
  BY <1>1, HarnessTypes DEF Harness!CompletionsTypeOK
<1>3. CountedWasShown'
  BY <1>1, HarnessTypes DEF CountedWasShown, ShownUpTo, Harness!Alone, Harness!AllIn
<1>4. CallsGoOn'
  BY <1>1, HarnessTypes
     DEF CallsGoOn, RestWasShown, WholeWasShown, ShownUpTo, Harness!Alone, Harness!AllIn
<1> QED
  BY <1>1, <1>2, <1>3, <1>4, HarnessTypes DEF HarnessInv

LEMMA ConversationChangesInv ==
  ASSUME HarnessInv, Harness!ConversationChanges PROVE HarnessInv'
<1>1. /\ losses < MaxLosses /\ losses' = losses + 1 /\ tab' \in Tabs
      /\ UNCHANGED <<key, len, counts, calls, from, size, sent, stage, into, shown>>
  BY DEF Harness!ConversationChanges
<1>2. losses' \in 0 .. MaxLosses
  BY <1>1, HarnessTypes, HarnessBounds
<1>3. Harness!CompletionsTypeOK'
  BY <1>1, <1>2, HarnessTypes DEF Harness!CompletionsTypeOK
<1>4. CountedWasShown'
  BY <1>1, HarnessTypes DEF CountedWasShown, ShownUpTo, Harness!Alone, Harness!AllIn
<1>5. CallsGoOn'
  BY <1>1, HarnessTypes
     DEF CallsGoOn, RestWasShown, WholeWasShown, ShownUpTo, Harness!Alone, Harness!AllIn
<1> QED
  BY <1>1, <1>3, <1>4, <1>5, HarnessTypes DEF HarnessInv

LEMMA HarnessNextInv == HarnessInv /\ Harness!CompletionsNext => HarnessInv'
BY CallInv, ServeInv, TypedInv, AnsweredInv, FailedInv, RelayRestartsInv, ConversationChangesInv
   DEF Harness!CompletionsNext

LEMMA HarnessShows == HarnessInv => ShownUnlessMoved
<1> SUFFICES ASSUME HarnessInv, NEW c \in Harness!CallIds, stage[c] = "answered",
                    Harness!Alone(from[c]), Harness!AllIn(into[c], from[c])
             PROVE  Harness!KnowsAll(c)
  BY DEF ShownUnlessMoved, Harness!ShownUnlessMoved
<1>1. ShownUpTo(into[c], from[c], size[c])
  BY HarnessTypes DEF CallsGoOn, WholeWasShown
<1> QED
  BY <1>1 DEF ShownUpTo, Harness!KnowsAll

-----------------------------------------------------------------------------
(* ChatPage, step by step.                                                 *)

LEMMA PageBounds ==
  /\ NoBox \notin Boxes /\ MaxTurns \in Nat /\ MaxFaults \in Nat
  /\ \A s \in Sites : s.order \in Seq(Boxes)
BY ChatAssumption

LEMMA PageInitInv == Init => PageInv
<1> SUFFICES ASSUME Chat!PageInit PROVE PageInv
  BY DEF Init
<1>1. PageFlags
  BY Zenon DEF Chat!PageInit, PageFlags
<1>2. inbox \in Seq(Nat) /\ replies \in Seq(Answers) /\ DOMAIN replies = {} /\ Len(replies) = 0
  BY EmptySeq DEF Chat!PageInit
<1>3. PageTypes
  BY <1>2, PageBounds DEF Chat!PageInit, PageTypes
<1>4. SignsAreTrue
  BY DEF Chat!PageInit, SignsAreTrue
<1>5. OneBoxIsUsed
  BY DEF Chat!PageInit, OneBoxIsUsed
<1>6. RepliesGrow
  <2>1. before.sizes = <<>> /\ atSend.sizes = <<>> /\ Len(atSend.sizes) = 0 /\ ~before.taken
    BY EmptySeq DEF Chat!PageInit, Chat!Nothing
  <2>2. Chat!Sizes = <<>>
    BY <1>2, SMT DEF Chat!Sizes
  <2>3. answer[1] # "reply"
    BY DEF Chat!PageInit, Chat!NoText
  <2> QED
    BY <2>1, <2>2, <2>3, EmptySeq DEF Chat!PageInit, RepliesGrow, Grows, FoundIsNew, Chat!FoundIsNew
<1> QED
  BY <1>1, <1>3, <1>4, <1>5, <1>6 DEF PageInv

(* A step is the script's, the worker's or the chat's.                     *)
LEMMA PageCases ==
  ASSUME Chat!PageNext
  PROVE  \/ \E again \in BOOLEAN : Chat!Deliver(again)
         \/ Chat!TryNext \/ Chat!TrySpare \/ Chat!Click \/ Chat!Confirm \/ Chat!NotConfirmed
         \/ Chat!Observe \/ (\E late \in BOOLEAN : Chat!Poll(late))
         \/ Chat!ObserveAgain \/ Chat!Navigates
         \/ Chat!ChatClears \/ Chat!ChatShows
         \/ Chat!ChatReplies \/ Chat!ChatWrites \/ Chat!ChatStops
BY DEF Chat!PageNext, Chat!ScriptNext, Chat!ChatNext

LEMMA PageFlagsNext ==
  ASSUME PageInv, Chat!PageNext PROVE PageFlags'
<1>1. owed \in BOOLEAN
  BY Zenon DEF PageInv, PageFlags
<1>2. \A b : Chat!Settle(b) => owed' \in BOOLEAN
  BY Zenon DEF Chat!Settle, Chat!Owing
<1>3. (\E again \in BOOLEAN : Chat!Deliver(again)) => UNCHANGED owed
  BY DEF Chat!Deliver
<1>4. Chat!TryNext \/ Chat!TrySpare => UNCHANGED owed \/ (\E b : Chat!Settle(b))
  BY Zenon DEF Chat!TryNext, Chat!TrySpare
<1>5. Chat!Click \/ Chat!Confirm \/ Chat!NotConfirmed \/ Chat!Observe => UNCHANGED owed
  BY DEF Chat!Click, Chat!Confirm, Chat!NotConfirmed, Chat!Observe
<1>6. (\E late \in BOOLEAN : Chat!Poll(late)) \/ Chat!ObserveAgain \/ Chat!Navigates
      => UNCHANGED owed
  BY DEF Chat!Poll, Chat!ObserveAgain, Chat!Navigates
<1>7. Chat!ChatClears \/ Chat!ChatShows \/ Chat!ChatReplies \/ Chat!ChatWrites \/ Chat!ChatStops
      => UNCHANGED owed
  BY DEF Chat!ChatClears, Chat!ChatShows, Chat!ChatReplies, Chat!ChatWrites, Chat!ChatStops
<1>8. UNCHANGED owed \/ (\E b : Chat!Settle(b)) => PageFlags'
  BY <1>1, <1>2, Zenon DEF PageFlags
<1> QED
  BY <1>3, <1>4, <1>5, <1>6, <1>7, <1>8, PageCases

(* An answer that is written on, or over.                                  *)
LEMMA WrittenOn ==
  ASSUME NEW r \in Answers, NEW b \in {"none", "open", "closed"}
  PROVE  /\ r.size \in Nat
         /\ [r EXCEPT !.size = r.size + 1, !.block = b] \in Answers
         /\ [r EXCEPT !.size = r.size + 1, !.block = b].size = r.size + 1
         /\ [r EXCEPT !.over = TRUE] \in Answers
         /\ [r EXCEPT !.over = TRUE].size = r.size
<1>1. r.size \in Nat
  BY DEF Answers
<1>2. [r EXCEPT !.size = r.size + 1, !.block = b] \in Answers
  <2>1. \A n \in Nat : [r EXCEPT !.size = n, !.block = b] \in Answers
    BY Zenon DEF Answers
  <2>2. r.size + 1 \in Nat
    BY <1>1
  <2> QED
    BY <2>1, <2>2, Zenon
<1>3. [r EXCEPT !.size = r.size + 1, !.block = b].size = r.size + 1
  BY DEF Answers
<1>4. [r EXCEPT !.over = TRUE] \in Answers
  BY DEF Answers
<1>5. [r EXCEPT !.over = TRUE].size = r.size
  BY DEF Answers
<1> QED
  BY <1>1, <1>2, <1>3, <1>4, <1>5

(* The last of them becomes a, which is no shorter.                        *)
LEMMA LastGrows ==
  ASSUME replies \in Seq(Answers), NEW n \in 1 .. Len(replies), NEW a \in Answers,
         replies[n].size <= a.size, replies' = [replies EXCEPT ![n] = a]
  PROVE  /\ replies' \in Seq(Answers) /\ Len(replies) <= Len(replies')
         /\ \A j \in 1 .. Len(replies) : replies[j].size <= replies'[j].size
<1>1. /\ replies' \in Seq(Answers) /\ Len(replies') = Len(replies)
      /\ \A j \in 1 .. Len(replies) : replies'[j] = IF j = n THEN a ELSE replies[j]
  BY ExceptSeq
<1>2. Len(replies) \in Nat
  OBVIOUS
<1>3. \A j \in 1 .. Len(replies) : replies[j].size \in Nat
  <2>1. \A j \in 1 .. Len(replies) : replies[j] \in Answers
    OBVIOUS
  <2> QED
    BY <2>1, WrittenOn
<1> QED
  BY <1>1, <1>2, <1>3

(* What the chat says: replies are added one by one and get longer.        *)
LEMMA AnswersGrow ==
  ASSUME PageInv, Chat!PageNext
  PROVE  /\ replies' \in Seq(Answers) /\ Len(replies) <= Len(replies')
         /\ \A j \in 1 .. Len(replies) : replies[j].size <= replies'[j].size
<1>1. /\ replies \in Seq(Answers) /\ inbox \in Seq(Nat) /\ Len(replies) \in Nat
      /\ toShow \in Nat /\ Len(inbox) \in Nat /\ DOMAIN replies = 1 .. Len(replies)
      /\ \A j \in 1 .. Len(replies) : replies[j] \in Answers
  BY DEF PageInv, PageTypes
<1>2. \A j \in 1 .. Len(replies) : replies[j].size \in Nat
  BY <1>1, WrittenOn
<1> DEFINE n == Len(replies)
<1>3. Chat!Writing => n \in 1 .. Len(replies)
  BY <1>1 DEF Chat!Writing
<1>4. CASE Chat!ChatReplies
  <2> DEFINE a == [to |-> inbox[n + 1], size |-> 0, block |-> "none", over |-> FALSE]
  <2>1. n < Len(inbox) /\ replies' = Append(replies, a)
    BY <1>1, <1>4 DEF Chat!ChatReplies
  <2>2. inbox[n + 1] \in Nat
    BY <1>1, <2>1
  <2>3. a \in Answers
    BY <2>2 DEF Answers
  <2> HIDE DEF a
  <2>4. /\ replies' \in Seq(Answers) /\ Len(replies') = Len(replies) + 1
        /\ \A i \in 1 .. Len(replies) : replies'[i] = replies[i]
    BY <1>1, <2>1, <2>3, AppendProperties
  <2> QED
    BY <1>1, <1>2, <2>4
<1>5. CASE Chat!ChatWrites
  <2>1. PICK b \in {"none", "open", "closed"} :
          replies' = [replies EXCEPT ![n].size = @ + 1, ![n].block = b]
    BY <1>5 DEF Chat!ChatWrites
  <2>2. n \in 1 .. Len(replies)
    BY <1>3, <1>5 DEF Chat!ChatWrites
  <2> DEFINE a == [replies[n] EXCEPT !.size = replies[n].size + 1, !.block = b]
  <2>3. a \in Answers /\ a.size = replies[n].size + 1
    BY <1>1, <2>2, WrittenOn
  <2>4. replies' = [replies EXCEPT ![n] = a]
    BY <1>1, <2>1, <2>2 DEF Answers
  <2>5. replies[n].size <= a.size
    BY <1>2, <2>2, <2>3
  <2> HIDE DEF a, n
  <2> QED
    BY <1>1, <2>2, <2>3, <2>4, <2>5, LastGrows
<1>6. CASE Chat!ChatStops
  <2>1. replies' = [replies EXCEPT ![n].over = TRUE]
    BY <1>6 DEF Chat!ChatStops
  <2>2. n \in 1 .. Len(replies)
    BY <1>3, <1>6 DEF Chat!ChatStops
  <2> DEFINE a == [replies[n] EXCEPT !.over = TRUE]
  <2>3. a \in Answers /\ a.size = replies[n].size
    BY <1>1, <2>2, WrittenOn
  <2>4. replies' = [replies EXCEPT ![n] = a]
    BY <1>1, <2>1, <2>2 DEF Answers
  <2>5. replies[n].size <= a.size
    BY <1>2, <2>2, <2>3
  <2> HIDE DEF a, n
  <2> QED
    BY <1>1, <2>2, <2>3, <2>4, <2>5, LastGrows
<1>7. (\E again \in BOOLEAN : Chat!Deliver(again)) => UNCHANGED replies
  BY DEF Chat!Deliver, Chat!chatVars
<1>8. Chat!TryNext \/ Chat!TrySpare \/ Chat!Confirm \/ Chat!NotConfirmed \/ Chat!Observe
      => UNCHANGED replies
  BY DEF Chat!TryNext, Chat!TrySpare, Chat!Confirm, Chat!NotConfirmed, Chat!Observe, Chat!chatVars
<1>9. (\E late \in BOOLEAN : Chat!Poll(late)) \/ Chat!ObserveAgain => UNCHANGED replies
  BY DEF Chat!Poll, Chat!ObserveAgain, Chat!chatVars
<1>10. Chat!Click \/ Chat!Navigates \/ Chat!ChatClears \/ Chat!ChatShows => UNCHANGED replies
  BY DEF Chat!Click, Chat!Navigates, Chat!ChatClears, Chat!ChatShows
<1>11. CASE UNCHANGED replies
  BY <1>1, <1>2, <1>11
<1> QED
  BY <1>4, <1>5, <1>6, <1>7, <1>8, <1>9, <1>10, <1>11, PageCases

(* What deliver has typed in.                                              *)
LEMMA CandidateFacts ==
  ASSUME PageInv
  PROVE  /\ site.order \in Seq(Boxes) /\ Len(site.order) \in Nat
         /\ DOMAIN site.order = 1 .. Len(site.order)
         /\ \A i \in DOMAIN site.order : site.order[i] \in Boxes /\ site.order[i] # NoBox
<1>1. site.order \in Seq(Boxes)
  BY PageBounds DEF PageInv, PageTypes
<1> QED
  BY <1>1, PageBounds

LEMMA PageTypesNext ==
  ASSUME PageInv, Chat!PageNext PROVE PageTypes'
<1>1. /\ site \in Sites
      /\ step \in {"idle", "placing", "sending", "confirming", "sent",
                   "unsent", "observing", "read", "unread"}
      /\ turn \in 0 .. MaxTurns /\ held \subseteq Boxes /\ attempt \in 0 .. 2
      /\ spare \in Boxes \cup {NoBox} /\ box \in Boxes \cup {NoBox} /\ next \in Nat \ {0}
      /\ still \in 0 .. 2 /\ faults \in 0 .. MaxFaults
      /\ turns \in Nat /\ shownAt \in Nat /\ toClear \in Nat /\ toShow \in Nat /\ inbox \in Seq(Nat)
  BY DEF PageInv, PageTypes
<1>2. replies' \in Seq(Answers)
  BY AnswersGrow
<1>3. ASSUME NEW again \in BOOLEAN, Chat!Deliver(again) PROVE PageTypes'
  <2>1. turn' \in 0 .. MaxTurns
    BY <1>1, <1>3, PageBounds DEF Chat!Deliver
  <2> QED
    BY <1>1, <1>2, <1>3, <2>1 DEF Chat!Deliver, Chat!chatVars, PageTypes
<1>4. CASE Chat!TryNext
  <2>1. site.order[next] \in Boxes /\ next + 1 \in Nat \ {0}
    BY <1>1, <1>4, CandidateFacts DEF Chat!TryNext, Chat!Candidates
  <2> QED
    BY <1>1, <1>2, <1>4, <2>1
       DEF Chat!TryNext, Chat!Candidates, Chat!Settle, Chat!Clears, Chat!LeavesText, Chat!chatVars,
           Chat!reading, PageTypes
<1>5. CASE Chat!TrySpare
  BY <1>1, <1>2, <1>5
     DEF Chat!TrySpare, Chat!Settle, Chat!Unsent, Chat!chatVars, Chat!reading, PageTypes
<1>6. CASE Chat!Click
  <2>1. Append(inbox, turn) \in Seq(Nat)
    BY <1>1, PageBounds, AppendProperties
  <2>2. toClear' \in Nat /\ toShow' \in Nat
    BY <1>1, <1>6 DEF Chat!Click, Chat!Count
  <2> QED
    BY <1>1, <1>2, <1>6, <2>1, <2>2 DEF Chat!Click, Chat!typing, Chat!reading, PageTypes
<1>7. CASE Chat!Confirm \/ Chat!Observe
  BY <1>1, <1>2, <1>7
     DEF Chat!Confirm, Chat!Observe, Chat!typing, Chat!chatVars, Chat!reading, PageTypes
<1>8. CASE Chat!NotConfirmed
  BY <1>1, <1>2, <1>8 DEF Chat!NotConfirmed, Chat!Unsent, Chat!chatVars, Chat!reading, PageTypes
<1>9. ASSUME NEW late \in BOOLEAN, Chat!Poll(late) PROVE PageTypes'
  <2>1. still' \in 0 .. 2
    BY <1>1, <1>9 DEF Chat!Poll
  <2> QED
    BY <1>1, <1>2, <1>9, <2>1 DEF Chat!Poll, Chat!typing, Chat!chatVars, PageTypes
<1>10. CASE Chat!ObserveAgain
  BY <1>1, <1>2, <1>10, PageBounds
     DEF Chat!ObserveAgain, Chat!typing, Chat!chatVars, Chat!reading, PageTypes
<1>11. CASE Chat!Navigates
  BY <1>1, <1>2, <1>11, PageBounds DEF Chat!Navigates, Chat!typing, Chat!reading, PageTypes
<1>12. CASE Chat!ChatClears \/ Chat!ChatShows
  <2>1. /\ toClear > 0 => toClear - 1 \in Nat
        /\ toShow > 0 => toShow - 1 \in Nat
        /\ turns + 1 \in Nat
    BY <1>1
  <2> QED
    BY <1>1, <1>2, <1>12, <2>1
       DEF Chat!ChatClears, Chat!ChatShows, Chat!typing, Chat!reading, PageTypes
<1>13. CASE Chat!ChatReplies \/ Chat!ChatWrites \/ Chat!ChatStops
  BY <1>1, <1>2, <1>13
     DEF Chat!ChatReplies, Chat!ChatWrites, Chat!ChatStops, Chat!typing, Chat!reading, PageTypes
<1> QED
  BY <1>3, <1>4, <1>5, <1>6, <1>7, <1>8, <1>9, <1>10, <1>11, <1>12, <1>13, PageCases

(* Settling on a box, what is still owed is excused.                       *)
LEMMA SettleExcuses ==
  ASSUME PageInv, NEW b, Chat!Settle(b), UNCHANGED <<toClear, toShow, turns>>
  PROVE  SignsAreTrue'
<1>1. /\ box' = b /\ b \in held' /\ step' = "sending" /\ shownAt' = turns'
      /\ turns \in Nat /\ turns' = turns
  BY DEF Chat!Settle, PageInv, PageTypes
<1>2. owed' = Chat!Owing
  BY DEF Chat!Settle
<1>3. toClear' > 0 \/ toShow' > 0 => Excused'
  BY <1>2, Zenon DEF Chat!Owing, Excused
<1>4. ~(turns' > shownAt')
  BY <1>1
<1> QED
  BY <1>1, <1>3, <1>4 DEF SignsAreTrue

(* The chat's box empties, a turn is added and a send is confirmed only    *)
(* after the chat took the message, or one it had yet to react to.         *)
LEMMA SignsNext ==
  ASSUME PageInv, Chat!PageNext PROVE SignsAreTrue'
<1>1. /\ inbox \in Seq(Nat) /\ turn \in Nat /\ turns \in Nat /\ shownAt \in Nat
      /\ toClear \in Nat /\ toShow \in Nat
      /\ step \in {"sending", "confirming"} =>
           /\ toClear > 0 \/ toShow > 0 => Excused
           /\ box = Composer => Composer \in held \/ Excused
           /\ turns > shownAt => Excused
      /\ step \in {"sent", "observing", "read", "unread"} /\ box = Composer => Excused
  BY PageBounds DEF PageInv, PageTypes, SignsAreTrue
<1>2. UNCHANGED <<inbox, turn, owed>> => (Excused' <=> Excused)
  BY DEF Excused, Chat!Taken
<1>3. ASSUME NEW again \in BOOLEAN, Chat!Deliver(again) PROVE SignsAreTrue'
  BY <1>3 DEF Chat!Deliver, SignsAreTrue
<1>4. CASE Chat!TryNext
  <2>1. /\ UNCHANGED <<toClear, toShow, turns>>
        /\ (\E b : Chat!Settle(b)) \/ (UNCHANGED step /\ step = "placing")
    BY <1>4, Zenon DEF Chat!TryNext, Chat!chatVars
  <2> QED
    BY <2>1, SettleExcuses DEF SignsAreTrue
<1>5. CASE Chat!TrySpare
  <2>1. /\ UNCHANGED <<toClear, toShow, turns>>
        /\ (\E b : Chat!Settle(b)) \/ step' = "unsent"
    BY <1>5, Zenon DEF Chat!TrySpare, Chat!Unsent, Chat!chatVars
  <2> QED
    BY <2>1, SettleExcuses DEF SignsAreTrue
<1>6. CASE Chat!Click
  <2>1. /\ step = "sending" /\ step' = "confirming" /\ UNCHANGED <<turn, box, turns, shownAt, owed>>
        /\ \/ inbox' = Append(inbox, turn)
           \/ box # Composer /\ UNCHANGED <<inbox, toClear, toShow>>
           \/ UNCHANGED <<held, inbox, toClear, toShow>>
    BY <1>6 DEF Chat!Click, Chat!typing
  <2>2. CASE inbox' = Append(inbox, turn)
    <3>1. Chat!Taken'
      <4>1. Len(inbox) + 1 \in DOMAIN inbox' /\ inbox'[Len(inbox) + 1] = turn
        BY <1>1, <2>2, AppendProperties
      <4> QED
        BY <2>1, <4>1 DEF Chat!Taken
    <3>2. Excused'
      BY <3>1, Zenon DEF Excused
    <3> QED
      BY <3>2 DEF SignsAreTrue
  <2>3. CASE box # Composer /\ UNCHANGED <<inbox, toClear, toShow>>
    BY <1>1, <1>2, <2>1, <2>3 DEF SignsAreTrue
  <2>4. CASE UNCHANGED <<held, inbox, toClear, toShow>>
    BY <1>1, <1>2, <2>1, <2>4 DEF SignsAreTrue
  <2> QED
    BY <2>1, <2>2, <2>3, <2>4
<1>7. CASE Chat!Confirm
  <2>1. /\ step = "confirming" /\ step' = "sent" /\ (box \notin held \/ turns > shownAt)
        /\ UNCHANGED <<inbox, turn, owed, box>>
    BY <1>7 DEF Chat!Confirm, Chat!ShownNewly, Chat!chatVars
  <2>2. box = Composer => Excused
    BY <1>1, <2>1
  <2> QED
    BY <1>2, <2>1, <2>2 DEF SignsAreTrue
<1>8. CASE Chat!NotConfirmed
  <2>1. /\ step = "confirming"
        /\ step' = "unsent" \/ (step' = "sending" /\ UNCHANGED box)
        /\ UNCHANGED <<inbox, turn, owed, toClear, toShow, turns, shownAt, held>>
    BY <1>8 DEF Chat!NotConfirmed, Chat!Unsent, Chat!chatVars
  <2> QED
    BY <1>1, <1>2, <2>1 DEF SignsAreTrue
<1>9. CASE Chat!Observe \/ Chat!ObserveAgain
  <2>1. /\ step \in {"sent", "unread"} /\ step' \in {"observing", "sent"}
        /\ UNCHANGED <<inbox, turn, owed, box>>
    BY <1>9 DEF Chat!Observe, Chat!ObserveAgain, Chat!typing, Chat!chatVars
  <2> QED
    BY <1>1, <1>2, <2>1 DEF SignsAreTrue
<1>10. ASSUME NEW late \in BOOLEAN, Chat!Poll(late) PROVE SignsAreTrue'
  <2>1. /\ step = "observing" /\ step' \in {"observing", "read", "unread"}
        /\ UNCHANGED <<inbox, turn, owed, box>>
    BY <1>10 DEF Chat!Poll, Chat!typing, Chat!chatVars
  <2> QED
    BY <1>1, <1>2, <2>1 DEF SignsAreTrue
<1>11. CASE Chat!Navigates
  <2>1. /\ step' \notin {"sending", "confirming"} /\ UNCHANGED <<inbox, turn, owed, box>>
        /\ step' \in {"sent", "observing", "read", "unread"} =>
             step \in {"sent", "observing", "read", "unread"}
    BY <1>11 DEF Chat!Navigates
  <2> QED
    BY <1>1, <1>2, <2>1 DEF SignsAreTrue
<1>12. CASE Chat!ChatClears
  <2>1. /\ toClear > 0 /\ toClear' = toClear - 1
        /\ UNCHANGED <<inbox, turn, owed, step, box, toShow, turns, shownAt>>
    BY <1>12 DEF Chat!ChatClears, Chat!typing
  <2> QED
    BY <1>1, <1>2, <2>1 DEF SignsAreTrue
<1>13. CASE Chat!ChatShows
  <2>1. /\ toShow > 0 /\ toShow' = toShow - 1
        /\ UNCHANGED <<inbox, turn, owed, step, box, held, toClear, shownAt>>
    BY <1>13 DEF Chat!ChatShows, Chat!typing
  <2> QED
    BY <1>1, <1>2, <2>1 DEF SignsAreTrue
<1>14. CASE Chat!ChatReplies \/ Chat!ChatWrites \/ Chat!ChatStops
  <2>1. UNCHANGED <<inbox, turn, owed, step, box, toClear, toShow, turns, shownAt, held>>
    BY <1>14 DEF Chat!ChatReplies, Chat!ChatWrites, Chat!ChatStops, Chat!typing
  <2> QED
    BY <1>1, <1>2, <2>1 DEF SignsAreTrue
<1> QED
  BY <1>3, <1>4, <1>5, <1>6, <1>7, <1>8, <1>9, <1>10, <1>11, <1>12, <1>13, <1>14, PageCases

(* The site fixes the box.                                                 *)
LEMMA BoxIsUnique ==
  ASSUME PageInv, NEW b, NEW c, TheBox(b), TheBox(c) PROVE b = c
<1>1. DOMAIN site.order \subseteq Nat
  BY CandidateFacts
<1>2. FirstGood(b) /\ FirstGood(c) => b = c
  BY <1>1 DEF FirstGood
<1>3. FirstPlaced(b) /\ FirstPlaced(c) => b = c
  BY <1>1 DEF FirstPlaced
<1>4. \A x : FirstGood(x) => \E i \in DOMAIN site.order : Good(site.order[i])
  BY DEF FirstGood
<1> QED
  BY <1>2, <1>3, <1>4 DEF TheBox

LEMMA BoxesStay ==
  ASSUME OneBoxIsUsed, UNCHANGED <<site, box, next, spare>>, held' \subseteq held,
         step' = "placing" <=> step = "placing",
         step' \in {"sending", "confirming", "sent", "observing", "read", "unread"} =>
           step \in {"sending", "confirming", "sent", "observing", "read", "unread"}
  PROVE  OneBoxIsUsed'
BY DEF OneBoxIsUsed, TheBox, FirstGood, FirstPlaced, Good, Chat!Placed, Chat!Reacts

LEMMA BoxSettled ==
  ASSUME PageInv, NEW b, Chat!Settle(b), TheBox(b), UNCHANGED site PROVE OneBoxIsUsed'
<1>1. /\ box' = b /\ held' = held \cup {b} /\ step' = "sending" /\ next' = 1 /\ spare' = NoBox
  BY DEF Chat!Settle
<1>2. \A c : TheBox(c) => TheBox(c)'
  BY DEF TheBox, FirstGood, FirstPlaced, Good, Chat!Placed, Chat!Reacts
<1> QED
  BY <1>1, <1>2 DEF PageInv, OneBoxIsUsed

LEMMA BoxesNext ==
  ASSUME PageInv, Chat!PageNext PROVE OneBoxIsUsed'
<1>1. OneBoxIsUsed /\ next \in Nat /\ next >= 1 /\ NoBox \notin Boxes
  BY PageBounds DEF PageInv, PageTypes
<1>2. /\ Len(site.order) \in Nat /\ DOMAIN site.order = 1 .. Len(site.order)
      /\ \A i \in DOMAIN site.order : site.order[i] \in Boxes /\ site.order[i] # NoBox
  BY CandidateFacts
<1>3. ASSUME NEW again \in BOOLEAN, Chat!Deliver(again) PROVE OneBoxIsUsed'
  <2>1. /\ step # "placing" /\ step' = "placing" /\ UNCHANGED <<site, next, spare, held>>
    BY <1>3 DEF Chat!Deliver
  <2>2. next' = 1 /\ spare' = NoBox
    BY <1>1, <2>1 DEF OneBoxIsUsed
  <2>3. \A i \in DOMAIN site.order : ~ (i < next')
    BY <1>2, <2>2
  <2>4. \A b \in held' : TheBox(b)' \/ b \in site'.keeps
    BY <1>1, <2>1
       DEF OneBoxIsUsed, TheBox, FirstGood, FirstPlaced, Good, Chat!Placed, Chat!Reacts
  <2> QED
    BY <2>1, <2>2, <2>3, <2>4 DEF OneBoxIsUsed
<1>4. CASE Chat!TryNext
  <2> DEFINE b == site.order[next]
  <2>1. /\ step = "placing" /\ next \in DOMAIN site.order /\ UNCHANGED site
        /\ \/ Good(b) /\ Chat!Settle(b)
           \/ /\ ~Good(b) /\ next' = next + 1
              /\ \A x \in held' : x \in held \/ x \in site.keeps
              /\ spare' = (IF Chat!Placed(b) /\ spare = NoBox THEN b ELSE spare)
              /\ UNCHANGED <<box, step>>
    <3>1. \A x \in Chat!Clears(b) : x \in held \/ x \in site.keeps
      BY DEF Chat!Clears, Chat!LeavesText
    <3> QED
      BY <1>4, <3>1 DEF Chat!TryNext, Chat!Candidates, Good
  <2>2. /\ \A i \in DOMAIN site.order : i < next => ~Good(site.order[i])
        /\ spare = NoBox =>
             \A i \in DOMAIN site.order : i < next => ~Chat!Placed(site.order[i])
        /\ spare # NoBox => FirstPlaced(spare)
    BY <1>1, <2>1 DEF OneBoxIsUsed
  <2>3. CASE Good(b) /\ Chat!Settle(b)
    <3>1. TheBox(b)
      BY <2>1, <2>2, <2>3 DEF TheBox, FirstGood
    <3> QED
      BY <2>1, <2>3, <3>1, BoxSettled
  <2>4. CASE /\ ~Good(b) /\ next' = next + 1
             /\ \A x \in held' : x \in held \/ x \in site.keeps
             /\ spare' = (IF Chat!Placed(b) /\ spare = NoBox THEN b ELSE spare)
             /\ UNCHANGED <<box, step>>
    <3>1. \A i \in DOMAIN site.order : i < next' => i < next \/ i = next
      BY <1>1, <1>2, <2>4
    <3>2. \A i \in DOMAIN site.order : i < next' => ~Good(site.order[i])
      BY <2>2, <2>4, <3>1
    <3>3. spare' = NoBox => \A i \in DOMAIN site.order : i < next' => ~Chat!Placed(site.order[i])
      <4>1. spare' = NoBox => spare = NoBox /\ ~Chat!Placed(b)
        BY <1>2, <2>1, <2>4
      <4> QED
        BY <2>2, <3>1, <4>1
    <3>4. spare' # NoBox => FirstPlaced(spare')
      <4>1. CASE Chat!Placed(b) /\ spare = NoBox
        BY <2>1, <2>2, <2>4, <4>1 DEF FirstPlaced
      <4>2. CASE ~ (Chat!Placed(b) /\ spare = NoBox)
        BY <2>2, <2>4, <4>2
      <4> QED
        BY <4>1, <4>2
    <3>5. \A x : /\ TheBox(x) <=> TheBox(x)'
                 /\ FirstPlaced(x) <=> FirstPlaced(x)'
                 /\ Good(x) <=> Good(x)'
                 /\ Chat!Placed(x) <=> Chat!Placed(x)'
      BY <2>1 DEF TheBox, FirstGood, FirstPlaced, Good, Chat!Placed, Chat!Reacts
    <3>7. step' = "placing" /\ site' = site
      BY <2>1, <2>4
    <3>6. \A x \in held' : TheBox(x)' \/ x \in site'.keeps
      BY <1>1, <2>4, <3>5, <3>7 DEF OneBoxIsUsed
    <3>8. FirstPlaced(spare)' <=> FirstPlaced(spare')
      BY <3>7 DEF FirstPlaced, Chat!Placed
    <3> QED
      BY <3>2, <3>3, <3>4, <3>5, <3>6, <3>7, <3>8
         DEF OneBoxIsUsed, Good, Chat!Placed, Chat!Reacts
  <2> QED
    BY <2>1, <2>3, <2>4
<1>5. CASE Chat!TrySpare
  <2>1. /\ step = "placing" /\ next \notin DOMAIN site.order /\ UNCHANGED site
        /\ \/ spare # NoBox /\ Chat!Settle(spare)
           \/ step' = "unsent" /\ next' = 1 /\ spare' = NoBox /\ UNCHANGED held
    BY <1>5 DEF Chat!TrySpare, Chat!Candidates, Chat!Unsent
  <2>2. \A i \in DOMAIN site.order : i < next
    BY <1>1, <1>2, <2>1
  <2>3. CASE spare # NoBox /\ Chat!Settle(spare)
    <3>1. TheBox(spare)
      BY <1>1, <2>1, <2>2, <2>3 DEF OneBoxIsUsed, TheBox
    <3> QED
      BY <2>1, <2>3, <3>1, BoxSettled
  <2>4. CASE step' = "unsent" /\ next' = 1 /\ spare' = NoBox /\ UNCHANGED held
    <3>1. \A x \in held' : TheBox(x)' \/ x \in site'.keeps
      BY <1>1, <2>1, <2>4
         DEF OneBoxIsUsed, TheBox, FirstGood, FirstPlaced, Good, Chat!Placed, Chat!Reacts
    <3> QED
      BY <2>4, <3>1 DEF OneBoxIsUsed
  <2> QED
    BY <2>1, <2>3, <2>4
<1>6. CASE Chat!Click
  <2>1. /\ step = "sending" /\ step' = "confirming" /\ UNCHANGED <<site, box, next, spare>>
        /\ held' \subseteq held
    BY <1>6 DEF Chat!Click, Chat!typing
  <2> QED
    BY <1>1, <2>1, BoxesStay
<1>7. CASE Chat!Confirm \/ Chat!Observe
  <2>1. /\ step \in {"confirming", "sent"} /\ step' \in {"sent", "observing"}
        /\ UNCHANGED <<site, box, next, spare, held>>
    BY <1>7 DEF Chat!Confirm, Chat!Observe, Chat!typing
  <2> QED
    BY <1>1, <2>1, BoxesStay
<1>8. CASE Chat!NotConfirmed
  <2>1. /\ step = "confirming" /\ UNCHANGED <<site, next, spare, held>>
        /\ step' = "unsent" \/ (step' = "sending" /\ UNCHANGED box)
    BY <1>8 DEF Chat!NotConfirmed, Chat!Unsent
  <2>2. CASE step' = "unsent"
    <3>1. \A x \in held' : TheBox(x)' \/ x \in site'.keeps
      BY <1>1, <2>1
         DEF OneBoxIsUsed, TheBox, FirstGood, FirstPlaced, Good, Chat!Placed, Chat!Reacts
    <3> QED
      BY <1>1, <2>1, <2>2, <3>1 DEF OneBoxIsUsed
  <2>3. CASE step' = "sending" /\ UNCHANGED box
    BY <1>1, <2>1, <2>3, BoxesStay
  <2> QED
    BY <2>1, <2>2, <2>3
<1>9. ASSUME NEW late \in BOOLEAN, Chat!Poll(late) PROVE OneBoxIsUsed'
  <2>1. /\ step = "observing" /\ step' \in {"observing", "read", "unread"}
        /\ UNCHANGED <<site, box, next, spare, held>>
    BY <1>9 DEF Chat!Poll, Chat!typing
  <2> QED
    BY <1>1, <2>1, BoxesStay
<1>10. CASE Chat!ObserveAgain
  <2>1. step = "unread" /\ step' = "sent" /\ UNCHANGED <<site, box, next, spare, held>>
    BY <1>10 DEF Chat!ObserveAgain, Chat!typing
  <2> QED
    BY <1>1, <2>1, BoxesStay
<1>11. CASE Chat!Navigates
  <2>1. /\ held' = {} /\ step' # "placing" /\ next' = 1 /\ spare' = NoBox /\ UNCHANGED <<site, box>>
        /\ step' \in {"sending", "confirming", "sent", "observing", "read", "unread"} =>
             step \in {"sending", "confirming", "sent", "observing", "read", "unread"}
    BY <1>11 DEF Chat!Navigates
  <2>2. TheBox(box) => TheBox(box)'
    BY <2>1 DEF TheBox, FirstGood, FirstPlaced, Good, Chat!Placed, Chat!Reacts
  <2> QED
    BY <1>1, <2>1, <2>2 DEF OneBoxIsUsed
<1>12. CASE Chat!ChatClears \/ Chat!ChatShows
  <2>1. UNCHANGED <<site, box, next, spare, step>> /\ held' \subseteq held
    BY <1>12 DEF Chat!ChatClears, Chat!ChatShows, Chat!typing
  <2> QED
    BY <1>1, <2>1, BoxesStay
<1>13. CASE Chat!ChatReplies \/ Chat!ChatWrites \/ Chat!ChatStops
  <2>1. UNCHANGED <<site, box, next, spare, step, held>>
    BY <1>13 DEF Chat!ChatReplies, Chat!ChatWrites, Chat!ChatStops, Chat!typing
  <2> QED
    BY <1>1, <2>1, BoxesStay
<1> QED
  BY <1>3, <1>4, <1>5, <1>6, <1>7, <1>8, <1>9, <1>10, <1>11, <1>12, <1>13, PageCases

(* A bounded set of numbers has a greatest.                                *)
LEMMA GreatestNumber ==
  ASSUME NEW n \in Nat, NEW S \in SUBSET (1 .. n), S # {}
  PROVE  \E x \in S : \A y \in S : y <= x
<1> DEFINE Below == {n - x : x \in S}
<1>1. Below \subseteq Nat /\ Below # {}
  <2>1. PICK x : x \in S
    OBVIOUS
  <2>2. n - x \in Below
    BY <2>1
  <2>3. \A y \in S : n - y \in Nat
    OBVIOUS
  <2> QED
    BY <2>2, <2>3
<1> HIDE DEF Below
<1>2. PICK d \in Below : \A e \in Below : ~ (<<e, d>> \in OpToRel(<, Nat))
  BY <1>1, NatLessThanWellFounded, WFMin
<1>3. \A e \in Below : ~ (e < d)
  BY <1>1, <1>2, Zenon DEF OpToRel
<1>4. PICK x \in S : d = n - x
  BY DEF Below
<1>5. \A y \in S : n - y \in Below
  BY DEF Below
<1>6. \A y \in S : y <= x
  BY <1>3, <1>4, <1>5
<1> QED
  BY <1>6

(* Answers on the page, by their sizes.                                    *)
LEMMA SizesFacts ==
  ASSUME NEW s \in Seq(Answers)
  PROVE  /\ [j \in DOMAIN s |-> s[j].size] \in Seq(Nat)
         /\ Len([j \in DOMAIN s |-> s[j].size]) = Len(s)
         /\ \A j \in 1 .. Len(s) : [k \in DOMAIN s |-> s[k].size][j] = s[j].size
<1>1. DOMAIN s = 1 .. Len(s) /\ Len(s) \in Nat /\ \A j \in 1 .. Len(s) : s[j] \in Answers
  OBVIOUS
<1>2. \A j \in 1 .. Len(s) : s[j].size \in Nat
  BY <1>1, WrittenOn
<1>3. [j \in 1 .. Len(s) |-> s[j].size] \in Seq(Nat)
  BY <1>1, <1>2
<1> QED
  BY <1>1, <1>3

LEMMA GrowsFurther ==
  ASSUME NEW s \in Seq(Nat), NEW t \in Seq(Nat), NEW u \in Seq(Nat), Grows(s, t), Grows(t, u)
  PROVE  Grows(s, u)
<1>1. /\ Len(s) \in Nat /\ Len(t) \in Nat /\ Len(u) \in Nat /\ Len(s) <= Len(t)
      /\ Len(t) <= Len(u)
  BY DEF Grows
<1>2. ASSUME NEW j \in 1 .. Len(s) PROVE s[j] <= u[j]
  <2>1. j \in 1 .. Len(t) /\ j \in 1 .. Len(u)
    BY <1>1
  <2>2. s[j] \in Nat /\ t[j] \in Nat /\ u[j] \in Nat
    BY <2>1, SMTT(30)
  <2>3. s[j] <= t[j] /\ t[j] <= u[j]
    BY <2>1 DEF Grows
  <2> QED
    BY <2>2, <2>3, SMTT(30)
<1> QED
  BY <1>1, <1>2 DEF Grows

LEMMA GrowsItself == ASSUME NEW s \in Seq(Nat) PROVE Grows(s, s)
<1>1. Len(s) \in Nat /\ \A j \in 1 .. Len(s) : s[j] \in Nat
  OBVIOUS
<1> QED
  BY <1>1 DEF Grows

LEMMA SizesGrow ==
  ASSUME PageInv, Chat!PageNext
  PROVE  /\ Chat!Sizes \in Seq(Nat) /\ Chat!Sizes' \in Seq(Nat)
         /\ Grows(Chat!Sizes, Chat!Sizes')
<1>1. replies \in Seq(Answers)
  BY DEF PageInv, PageTypes
<1>2. /\ replies' \in Seq(Answers) /\ Len(replies) <= Len(replies')
      /\ \A j \in 1 .. Len(replies) : replies[j].size <= replies'[j].size
  BY AnswersGrow
<1>3. \A j \in 1 .. Len(replies) : j \in 1 .. Len(replies')
  BY <1>1, <1>2
<1>4. /\ Chat!Sizes \in Seq(Nat) /\ Len(Chat!Sizes) = Len(replies)
      /\ \A j \in 1 .. Len(replies) : Chat!Sizes[j] = replies[j].size
  BY <1>1, SizesFacts, Zenon DEF Chat!Sizes
<1>5. /\ Chat!Sizes' \in Seq(Nat) /\ Len(Chat!Sizes') = Len(replies')
      /\ \A j \in 1 .. Len(replies') : Chat!Sizes'[j] = replies'[j].size
  BY <1>2, SizesFacts, Zenon DEF Chat!Sizes
<1>6. Grows(Chat!Sizes, Chat!Sizes')
  BY <1>2, <1>3, <1>4, <1>5, Zenon DEF Grows
<1> QED
  BY <1>4, <1>5, <1>6

(* What is found by difference is longer than anything there was in its    *)
(* place before the message was first asked to be sent.                    *)
LEMMA DiscoveredIsNew ==
  ASSUME PageInv, Chat!Discovered[1] = "reply"
  PROVE  \/ Chat!Discovered[2] > Len(atSend.sizes)
         \/ Chat!Discovered[3] > atSend.sizes[Chat!Discovered[2]]
<1> DEFINE grown == {j \in DOMAIN replies :
                       replies[j].size > IF j \in DOMAIN before.sizes THEN before.sizes[j] ELSE 0}
           m == CHOOSE j \in grown : \A k \in grown : k <= j
<1>1. /\ replies \in Seq(Answers) /\ before.sizes \in Seq(Nat) /\ atSend.sizes \in Seq(Nat)
      /\ Grows(atSend.sizes, before.sizes)
  <2>1. before.taken
    BY DEF Chat!Discovered, Chat!NoText
  <2> QED
    BY <2>1 DEF PageInv, PageTypes, RepliesGrow
<1>2. grown # {} /\ Chat!Discovered = Chat!Reply(m)
  BY DEF Chat!Discovered, Chat!NoText
<1>3. m \in grown
  <2>1. grown \in SUBSET (1 .. Len(replies)) /\ Len(replies) \in Nat
    BY <1>1
  <2> HIDE DEF grown
  <2>2. \E x \in grown : \A y \in grown : y <= x
    BY <1>2, <2>1, GreatestNumber
  <2> QED
    BY <2>2
<1>4. Chat!Discovered[2] = m /\ Chat!Discovered[3] = replies[m].size
  BY <1>2 DEF Chat!Reply
<1>5. /\ m \in 1 .. Len(replies) /\ replies[m] \in Answers
      /\ m \in DOMAIN before.sizes => replies[m].size > before.sizes[m]
  <2>1. \A j \in grown : /\ j \in DOMAIN replies
                        /\ j \in DOMAIN before.sizes => replies[j].size > before.sizes[j]
    OBVIOUS
  <2>2. \A j \in DOMAIN replies : j \in 1 .. Len(replies) /\ replies[j] \in Answers
    BY <1>1
  <2> QED
    BY <1>3, <2>1, <2>2, Zenon
<1> HIDE DEF m, grown
<1>6. CASE m \in DOMAIN atSend.sizes
  <2>1. m \in 1 .. Len(atSend.sizes) /\ m \in DOMAIN before.sizes
    BY <1>1, <1>6 DEF Grows
  <2>2. atSend.sizes[m] <= before.sizes[m] /\ replies[m].size > before.sizes[m]
    BY <1>1, <1>5, <2>1 DEF Grows
  <2>3. atSend.sizes[m] \in Nat /\ before.sizes[m] \in Nat /\ replies[m].size \in Nat
    <3>1. replies[m].size \in Nat
      BY <1>5, WrittenOn
    <3> QED
      BY <1>1, <1>6, <2>1, <3>1, SMTT(30)
  <2> QED
    BY <1>4, <2>2, <2>3
<1>7. CASE m \notin DOMAIN atSend.sizes
  <2>1. m \in Nat \ {0} /\ Len(atSend.sizes) \in Nat /\ m \notin 1 .. Len(atSend.sizes)
    BY <1>1, <1>7, <1>5
  <2> QED
    BY <1>4, <2>1
<1> QED
  BY <1>6, <1>7

(* Steps in which nothing is asked for and nothing is read.                *)
LEMMA RepliesStay ==
  ASSUME PageInv, Chat!PageNext, UNCHANGED <<site, atSend, answer>>,
         before' = before \/ before' = Chat!Nothing
  PROVE  RepliesGrow'
<1>1. /\ before.sizes \in Seq(Nat) /\ atSend.sizes \in Seq(Nat)
      /\ Grows(atSend.sizes, Chat!Sizes)
      /\ before.taken => Grows(atSend.sizes, before.sizes)
      /\ FoundIsNew
  BY DEF PageInv, RepliesGrow
<1>2. Grows(atSend.sizes, Chat!Sizes')
  BY <1>1, SizesGrow, GrowsFurther
<1>3. before'.sizes \in Seq(Nat)
  <2>1. Chat!Nothing.sizes = <<>>
    BY DEF Chat!Nothing
  <2>2. before' = before \/ before' = Chat!Nothing
    OBVIOUS
  <2> QED
    BY <1>1, <2>1, <2>2, EmptySeq
<1>4. before'.taken => before' = before
  BY DEF Chat!Nothing
<1>5. FoundIsNew'
  BY <1>1 DEF FoundIsNew, Chat!FoundIsNew
<1>6. Grows(atSend.sizes, Chat!Sizes)'
  BY <1>2 DEF Grows
<1>7. before'.taken => Grows(atSend.sizes, before.sizes)'
  BY <1>1, <1>4 DEF Grows
<1> QED
  BY <1>1, <1>3, <1>5, <1>6, <1>7 DEF RepliesGrow

LEMMA RepliesNext ==
  ASSUME PageInv, Chat!PageNext PROVE RepliesGrow'
<1>1. /\ before.sizes \in Seq(Nat) /\ atSend.sizes \in Seq(Nat)
      /\ Grows(atSend.sizes, Chat!Sizes)
      /\ before.taken => Grows(atSend.sizes, before.sizes)
      /\ FoundIsNew
  BY DEF PageInv, RepliesGrow
<1>2. ASSUME NEW again \in BOOLEAN, Chat!Deliver(again) PROVE RepliesGrow'
  <2>1. /\ before'.sizes = Chat!Sizes /\ UNCHANGED replies
        /\ atSend'.sizes = atSend.sizes \/ atSend'.sizes = Chat!Sizes
        /\ answer'[1] # "reply"
    BY <1>2 DEF Chat!Deliver, Chat!Snapshot, Chat!Page, Chat!NoText, Chat!chatVars
  <2>2. Chat!Sizes' = Chat!Sizes /\ Chat!Sizes \in Seq(Nat)
    BY <2>1, SizesGrow DEF Chat!Sizes
  <2>3. atSend'.sizes \in Seq(Nat) /\ Grows(atSend'.sizes, Chat!Sizes)
    BY <1>1, <2>1, <2>2, GrowsItself
  <2>4. FoundIsNew'
    BY <2>1 DEF FoundIsNew, Chat!FoundIsNew
  <2>5. Grows(atSend.sizes, Chat!Sizes)' /\ Grows(atSend.sizes, before.sizes)'
    BY <2>1, <2>2, <2>3 DEF Grows
  <2> QED
    BY <2>1, <2>2, <2>3, <2>4, <2>5 DEF RepliesGrow
<1>3. ASSUME NEW late \in BOOLEAN, Chat!Poll(late) PROVE RepliesGrow'
  <2>1. /\ UNCHANGED <<site, replies, before, atSend>>
        /\ answer' = answer \/ answer' = Chat!Reads
    BY <1>3 DEF Chat!Poll, Chat!chatVars
  <2>2. Chat!Sizes' = Chat!Sizes
    BY <2>1 DEF Chat!Sizes
  <2>3. /\ Grows(atSend.sizes, Chat!Sizes)'
        /\ before'.taken => Grows(atSend.sizes, before.sizes)'
    BY <1>1, <2>1, <2>2 DEF Grows
  <2>4. FoundIsNew'
    <3>1. CASE answer' = answer
      BY <1>1, <2>1, <3>1 DEF FoundIsNew, Chat!FoundIsNew
    <3>2. CASE answer' = Chat!Reads /\ ~site.table
      <4>1. answer' = Chat!Discovered
        BY <3>2 DEF Chat!Reads, Chat!LastReply
      <4> QED
        BY <2>1, <4>1, DiscoveredIsNew DEF FoundIsNew, Chat!FoundIsNew
    <3>3. CASE site.table
      BY <2>1, <3>3 DEF FoundIsNew, Chat!FoundIsNew
    <3> QED
      BY <2>1, <3>1, <3>2, <3>3
  <2> QED
    BY <1>1, <2>1, <2>3, <2>4 DEF RepliesGrow
<1>4. CASE Chat!TryNext
  <2>1. UNCHANGED <<site, atSend, answer, before>>
    BY <1>4 DEF Chat!TryNext, Chat!reading
  <2> QED
    BY <2>1, RepliesStay
<1>5. CASE Chat!TrySpare \/ Chat!Click
  <2>1. UNCHANGED <<site, atSend, answer, before>>
    BY <1>5 DEF Chat!TrySpare, Chat!Click, Chat!reading
  <2> QED
    BY <2>1, RepliesStay
<1>6. CASE Chat!Confirm \/ Chat!NotConfirmed \/ Chat!Observe \/ Chat!ObserveAgain
  <2>1. UNCHANGED <<site, atSend, answer, before>>
    BY <1>6 DEF Chat!Confirm, Chat!NotConfirmed, Chat!Observe, Chat!ObserveAgain, Chat!reading
  <2> QED
    BY <2>1, RepliesStay
<1>7. CASE Chat!Navigates
  <2>1. UNCHANGED <<site, atSend, answer>> /\ before' = Chat!Nothing
    BY <1>7 DEF Chat!Navigates, Chat!reading
  <2> QED
    BY <2>1, RepliesStay
<1>8. CASE Chat!ChatClears \/ Chat!ChatShows
  <2>1. UNCHANGED <<site, atSend, answer, before>>
    BY <1>8 DEF Chat!ChatClears, Chat!ChatShows, Chat!reading
  <2> QED
    BY <2>1, RepliesStay
<1>9. CASE Chat!ChatReplies \/ Chat!ChatWrites \/ Chat!ChatStops
  <2>1. UNCHANGED <<site, atSend, answer, before>>
    BY <1>9 DEF Chat!ChatReplies, Chat!ChatWrites, Chat!ChatStops, Chat!reading
  <2> QED
    BY <2>1, RepliesStay
<1> QED
  BY <1>2, <1>3, <1>4, <1>5, <1>6, <1>7, <1>8, <1>9, PageCases

LEMMA PageNextInv == PageInv /\ Chat!PageNext => PageInv'
BY PageFlagsNext, PageTypesNext, SignsNext, BoxesNext, RepliesNext DEF PageInv

LEMMA PageStays == PageInv /\ UNCHANGED pageVars => PageInv'
<1> SUFFICES ASSUME PageInv, UNCHANGED pageVars PROVE PageInv'
  OBVIOUS
<1>1. /\ UNCHANGED <<site, step, turn, next, spare, box, attempt, held, inbox, toClear, toShow>>
      /\ UNCHANGED <<turns, replies, shownAt, before, atSend, owed, text, still, answer, faults>>
  BY DEF pageVars
<1>2. PageFlags'
  BY <1>1, Zenon DEF PageInv, PageFlags
<1>3. PageTypes'
  BY <1>1 DEF PageInv, PageTypes
<1>4. SignsAreTrue'
  <2>1. Excused' <=> Excused
    BY <1>1, Zenon DEF Excused, Chat!Taken
  <2> QED
    BY <1>1, <2>1 DEF PageInv, SignsAreTrue
<1>5. OneBoxIsUsed'
  BY <1>1, BoxesStay DEF PageInv
<1>6. RepliesGrow'
  <2>1. Chat!Sizes' = Chat!Sizes
    BY <1>1 DEF Chat!Sizes
  <2> QED
    BY <1>1, <2>1 DEF PageInv, RepliesGrow, Grows, FoundIsNew, Chat!FoundIsNew
<1> QED
  BY <1>2, <1>3, <1>4, <1>5, <1>6 DEF PageInv

LEMMA PageTypeCorrect == PageInv => Chat!PageTypeOK
<1> SUFFICES ASSUME PageInv PROVE Chat!PageTypeOK
  OBVIOUS
<1>1. owed \in BOOLEAN
  BY Zenon DEF PageInv, PageFlags
<1>2. {spare, box} \subseteq Boxes \cup {NoBox}
  BY DEF PageInv, PageTypes
<1> QED
  BY <1>1, <1>2, Zenon DEF PageInv, PageTypes, Chat!PageTypeOK

(* Whatever holds the message is the one box deliver settled on.           *)
LEMMA HeldInTheBox == PageInv => NothingLeftBehind
<1> SUFFICES ASSUME PageInv,
                    step \in {"sending", "confirming", "sent", "observing", "read", "unread"},
                    NEW b \in held, b \notin site.keeps
             PROVE  b = box
  BY DEF NothingLeftBehind, Chat!NothingLeftBehind
<1>1. TheBox(b) /\ TheBox(box)
  BY DEF PageInv, OneBoxIsUsed
<1> QED
  BY <1>1, BoxIsUnique

-----------------------------------------------------------------------------
(* The parts together.                                                     *)
IInv == MenuInv /\ HarnessInv /\ PageInv

LEMMA InitInv == Init => IInv
BY MenuInit, HarnessInit, PageInitInv DEF IInv

LEMMA StepInv == IInv /\ [Next]_vars => IInv'
<1> SUFFICES ASSUME IInv, [Next]_vars PROVE IInv'
  OBVIOUS
<1>1. CASE PageStep
  BY <1>1, PageNextInv, MenuStays, HarnessStays DEF PageStep, IInv
<1>2. CASE MenuStep
  BY <1>2, MenuNextInv, PageStays, HarnessStays DEF MenuStep, IInv
<1>3. CASE HarnessStep
  BY <1>3, HarnessNextInv, PageStays, MenuStays DEF HarnessStep, IInv
<1>4. CASE UNCHANGED vars
  BY <1>4, PageStays, MenuStays, HarnessStays DEF vars, IInv
<1> QED
  BY <1>1, <1>2, <1>3, <1>4 DEF Next

(* The parts' invariants hold in every reachable state.                    *)
THEOREM Invariant == Spec => []IInv
BY InitInv, StepInv, PTL DEF Spec

(* Every variable of the page, the menu and the transcripts keeps its type.*)
THEOREM TypeCorrect ==
  Spec => [](Chat!PageTypeOK /\ Menu!MenuTypeOK /\ Harness!CompletionsTypeOK)
<1>1. IInv => Chat!PageTypeOK /\ Menu!MenuTypeOK /\ Harness!CompletionsTypeOK
  BY PageTypeCorrect DEF IInv, MenuInv, HarnessInv
<1> QED
  BY <1>1, Invariant, PTL

(* Whatever boxes a site has, however late it empties its box and shows a  *)
(* message, and wherever the page moves, deliver reports a message typed   *)
(* in the chat's own box as sent only when the chat took it, or when it    *)
(* had yet to react to an earlier message as deliver settled on the box    *)
(* (ConfiguredChatSurface.deliver).  Without the exception this is not so. *)
THEOREM SentOrOwed == Spec => []SentUnlessOwed
<1>1. IInv => SentUnlessOwed
  <2>1. SignsAreTrue => SentUnlessOwed
    BY Zenon DEF SignsAreTrue, SentUnlessOwed, Chat!SentUnlessOwed, Chat!Reported, Excused
  <2> QED
    BY <2>1 DEF IInv, PageInv
<1> QED
  BY <1>1, Invariant, PTL

(* However many candidates deliver tries before it settles on a box, and   *)
(* however often it types the message again, no other box is left with     *)
(* the message in it but one that refuses to be cleared (clearText).       *)
THEOREM OthersAreEmpty == Spec => []NothingLeftBehind
<1>1. IInv => NothingLeftBehind
  BY HeldInTheBox DEF IInv
<1> QED
  BY <1>1, Invariant, PTL

(* A reply found by difference was not on the page, as long as it is, when *)
(* the message was first asked to be sent, though the page was lost at any *)
(* time and the message typed again (observe, newestReply).                *)
THEOREM OnlyNewIsFound == Spec => []FoundIsNew
<1>1. IInv => FoundIsNew
  BY DEF IInv, PageInv, RepliesGrow
<1> QED
  BY <1>1, Invariant, PTL

(* Calls of runs overlap, fail and are repeated, and the relay restarts:   *)
(* a conversation that answers a call of a run that no other has the       *)
(* opening of has been shown the whole transcript, provided that it is the *)
(* one that gave every answer this relay has for the run (serveCompletions,*)
(* messagesToSend).  Of a run whose conversation is replaced this is not   *)
(* so.                                                                     *)
THEOREM WholeTranscriptOfOne == Spec => []ShownUnlessMoved
<1>1. IInv => ShownUnlessMoved
  BY HarnessShows DEF IInv
<1> QED
  BY <1>1, Invariant, PTL

(* Whatever is in view of whatever menu looks like models, the model       *)
(* becomes none but the one that was named or the only one in view that    *)
(* the name can mean, and setModel changes no setting in a menu that does  *)
(* not look like one (setModel, chooseModelOption).                        *)
THEOREM NoOtherModel == Spec => OnlyTheModelNamed
<1>1. IInv /\ [Next]_vars =>
        [/\ model' # model => job = "set" /\ (model' = wanted \/ Menu!Means(wanted) = {model'})
         /\ on' # on /\ job = "set" => menuStep = "click" \/ kind[at] = "levels"]_menuVars
  <2> SUFFICES ASSUME IInv, [Next]_vars, ~UNCHANGED menuVars
               PROVE  /\ model' # model =>
                            job = "set" /\ (model' = wanted \/ Menu!Means(wanted) = {model'})
                      /\ on' # on /\ job = "set" => menuStep = "click" \/ kind[at] = "levels"
    OBVIOUS
  <2>1. Menu!MenuNext
    BY DEF Next, PageStep, MenuStep, HarnessStep, vars
  <2> QED
    BY <2>1, MenuNextNames DEF IInv
<1> QED
  BY <1>1, Invariant, PTL
     DEF Spec, OnlyTheModelNamed, Menu!OnlyTheModelNamed, Menu!menuVars, menuVars
=============================================================================
