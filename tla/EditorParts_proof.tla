--------------------------- MODULE EditorParts_proof ---------------------------
(***************************************************************************)
(* Proofs about the editor's parts: tool calls, what a chat is told of a   *)
(* file, the clipboard loop, and the tools that read, for every set of     *)
(* texts, files, commands and ids and every number of packets, sessions,   *)
(* requests, calls and edits, and every size of the cache of answers.      *)
(***************************************************************************)
EXTENDS EditorParts, SequenceTheorems, FiniteSetTheorems, TLAPS

(* What is proved of edits, wherever they are made.                        *)
Edits == INSTANCE LineDiff_proof

-----------------------------------------------------------------------------
(* ToolCalls.                                                              *)

(* A packet is itself from when it arrives, and the user is heard once.    *)
InTurnAt(e) ==
  /\ phase[e] = "new" <=> call[e] = NoCall
  /\ phase[e] \in {"asking", "saving"} => call[e].tool = "command"
  /\ phase[e] \in {"new", "asking"} => said[e] = "nothing" /\ e \notin forgotten
  /\ phase[e] = "saving" => said[e] = "always"
  /\ phase[e] \in {"new", "asking", "saving"} => work[e] = "none" /\ child[e] = "none"
InTurn == \A e \in Packets : InTurnAt(e)

(* Whatever is granted was granted by an "always" not taken back.          *)
Backed ==
  \A x \in grants : \E d \in Packets \ forgotten : said[d] = "always" /\ call[d].shows = x

(* A process belongs to a command whose tool works, until it is gone, and  *)
(* whatever runs beyond the answer has had its signal.                     *)
SignalledAt(e) ==
  /\ child[e] # "none" => call[e].tool = "command"
  /\ child[e] \in {"alive", "terminating", "killed"} => work[e] = "working"
  /\ work[e] = "resolving" => child[e] = "none"
  /\ phase[e] = "answered" /\ work[e] # "none" => e \in cut
  /\ child[e] \in {"alive", "terminating"} /\ e \in cut => e \in deaf
Signalled == \A e \in Packets : SignalledAt(e)

(* What is remembered arrived, and an answer is found by its id until it   *)
(* falls out.                                                              *)
Found ==
  /\ \A j \in DOMAIN recent : call[recent[j]] # NoCall
  /\ \A d \in Packets : phase[d] = "answered" =>
       call[d].id \in evicted \/ \E j \in DOMAIN recent : call[recent[j]].id = call[d].id

(* A packet that came alone and after another of its id was given the      *)
(* other's answer, as long as that was there.                              *)
GivenAgain ==
  \A d, e \in Packets : d < e /\ phase[e] # "new" =>
    /\ phase[d] # "new"
    /\ call[d].id = call[e].id /\ e \notin overlap =>
         /\ phase[d] = "answered"
         /\ \/ call[e].id \in evicted
            \/ phase[e] = "answered" /\ work[e] = "none" /\ child[e] = "none"

CallsInv == CallsTypeOK /\ InTurn /\ Backed /\ Signalled /\ Found /\ GivenAgain

-----------------------------------------------------------------------------
(* Facts about the handlers.                                               *)

(* A step of one packet leaves the others where they are.                  *)
LEMMA OthersStay ==
  ASSUME CallsTypeOK, NEW e \in Packets, Steps(e)
  PROVE  \A d \in Packets : d # e =>
           /\ call'[d] = call[d] /\ phase'[d] = phase[d] /\ work'[d] = work[d]
           /\ child'[d] = child[d] /\ said'[d] = said[d]
           /\ (d \in cut' <=> d \in cut) /\ (d \in deaf' <=> d \in deaf)
           /\ (d \in overlap' <=> d \in overlap)
<1> USE DEF CallsTypeOK
<1>1. ASSUME NEW c \in Calls, Receive(e, c)
      PROVE  /\ call' = [call EXCEPT ![e] = c] /\ UNCHANGED <<child, said, cut, deaf>>
             /\ overlap' \in {overlap, overlap \cup {e}}
             /\ phase' \in {[phase EXCEPT ![e] = p] : p \in {"asking", "running", "answered"}}
             /\ work' \in {work, [work EXCEPT ![e] = "resolving"]}
  BY <1>1 DEF Receive, Begin, Finish
<1>2. ASSUME NEW outcome \in {"deny", "once", "always"}, Answer(e, outcome)
      PROVE  /\ said' = [said EXCEPT ![e] = outcome] /\ UNCHANGED <<call, child, cut, deaf, overlap>>
             /\ phase' \in {[phase EXCEPT ![e] = p] : p \in {"saving", "running", "answered"}}
             /\ work' \in {work, [work EXCEPT ![e] = "resolving"]}
  BY <1>2 DEF Answer, Begin, Finish
<1>3. ASSUME Saved(e)
      PROVE  /\ UNCHANGED <<call, child, said, cut, deaf, overlap>>
             /\ phase' \in {[phase EXCEPT ![e] = p] : p \in {"running", "answered"}}
             /\ work' \in {work, [work EXCEPT ![e] = "resolving"]}
  BY <1>3 DEF Saved, Begin, Finish
<1>4. ASSUME NEW a, Settle(e, a)
      PROVE  /\ work' = [work EXCEPT ![e] = "none"] /\ cut' = cut \cup {e}
             /\ phase' \in {phase, [phase EXCEPT ![e] = "answered"]}
  BY <1>4 DEF Settle, Finish
<1>5. CASE Refused(e) \/ \E a \in {"ok", "failed"} : ReadDone(e, a)
  BY <1>4, <1>5 DEF Refused, ReadDone
<1>6. CASE ChildCloses(e)
  <2>1. PICK a : Settle(e, a)
    BY <1>6 DEF ChildCloses
  <2>2. child' = [child EXCEPT ![e] = "gone"] /\ UNCHANGED <<call, deaf, said, overlap>>
    BY <1>6 DEF ChildCloses
  <2> QED
    BY <1>4, <2>1, <2>2
<1>7. CASE ReadBegins(e) \/ Spawn(e) \/ CommandTimer(e) \/ KillTimer(e)
  BY <1>7 DEF ReadBegins, Spawn, CommandTimer, KillTimer
<1>8. CASE ToolTimeout(e)
  BY <1>8 DEF ToolTimeout, Finish
<1> QED
  BY <1>1, <1>2, <1>3, <1>5, <1>6, <1>7, <1>8 DEF Steps

(* finish remembers the answer, and forgets one that falls out by name.    *)
LEMMA FinishKeepsFound ==
  ASSUME CallsTypeOK, Found, NEW e \in Packets, NEW c \in Calls, NEW a, Finish(e, c, a),
         call[e] \in {NoCall, c}, call' = [call EXCEPT ![e] = c],
         \A d \in Packets : phase[d] = "answered" => call[d] # NoCall
  PROVE  recent' \in Seq(Packets) /\ evicted' \in SUBSET Ids /\ evicted \subseteq evicted' /\ Found'
<1> DEFINE kept == IF \E j \in DOMAIN recent : call[recent[j]].id = c.id
                   THEN [j \in DOMAIN recent |->
                           IF call[recent[j]].id = c.id THEN e ELSE recent[j]]
                   ELSE Append(recent, e)
           oldest == IF Head(kept) = e THEN c.id ELSE call[Head(kept)].id
<1>1. /\ Len(kept) > CacheSize => recent' = Tail(kept) /\ evicted' = evicted \cup {oldest}
      /\ ~(Len(kept) > CacheSize) => recent' = kept /\ evicted' = evicted
  BY DEF Finish, Keep
<1>2. /\ kept \in Seq(Packets) /\ kept # <<>>
      /\ \A j \in DOMAIN kept : kept[j] # e => \E i \in DOMAIN recent : kept[j] = recent[i]
      /\ \E j \in DOMAIN kept : kept[j] = e
      /\ \A i \in DOMAIN recent : \E j \in DOMAIN kept :
           kept[j] = IF call[recent[i]].id = c.id THEN e ELSE recent[i]
  <2>1. recent \in Seq(Packets)
    BY DEF CallsTypeOK
  <2>2. CASE \E j \in DOMAIN recent : call[recent[j]].id = c.id
    <3>1. kept = [j \in 1 .. Len(recent) |-> IF call[recent[j]].id = c.id THEN e ELSE recent[j]]
      BY <2>1, <2>2, SMTT(30)
    <3>2. \A j \in 1 .. Len(recent) : recent[j] \in Packets
      BY <2>1
    <3>3. Len(recent) \in Nat /\ Len(recent) > 0 /\ DOMAIN recent = 1 .. Len(recent)
      BY <2>1, <2>2
    <3>4. kept \in Seq(Packets) /\ kept # <<>> /\ DOMAIN kept = 1 .. Len(recent)
      <4>1. kept \in [1 .. Len(recent) -> Packets]
        BY <3>1, <3>2
      <4> HIDE DEF kept
      <4> QED
        BY <3>3, <4>1, SeqDef
    <3>5. \A j \in 1 .. Len(recent) :
            /\ call[recent[j]].id = c.id => kept[j] = e
            /\ call[recent[j]].id # c.id => kept[j] = recent[j]
      BY <3>1
    <3> HIDE DEF kept
    <3>6. \E j \in DOMAIN kept : kept[j] = e
      BY <2>2, <3>3, <3>4, <3>5
    <3>7. DOMAIN kept = DOMAIN recent
      BY <3>3, <3>4
    <3>8. \A j \in DOMAIN recent : kept[j] = IF call[recent[j]].id = c.id THEN e ELSE recent[j]
      BY <3>3, <3>5
    <3>9. \A j \in DOMAIN kept : kept[j] # e => \E i \in DOMAIN recent : kept[j] = recent[i]
      BY <3>7, <3>8
    <3>10. \A i \in DOMAIN recent : \E j \in DOMAIN kept :
             kept[j] = IF call[recent[i]].id = c.id THEN e ELSE recent[i]
      BY <3>7, <3>8
    <3> QED
      BY <3>4, <3>6, <3>9, <3>10
  <2>3. CASE ~\E j \in DOMAIN recent : call[recent[j]].id = c.id
    <3>1. kept = Append(recent, e)
      BY <2>3
    <3>2. /\ kept \in Seq(Packets) /\ kept # <<>> /\ Len(kept) = Len(recent) + 1
          /\ kept[Len(kept)] = e /\ \A j \in 1 .. Len(recent) : kept[j] = recent[j]
          /\ DOMAIN kept = 1 .. Len(recent) + 1 /\ DOMAIN recent = 1 .. Len(recent)
      BY <2>1, <3>1
    <3> HIDE DEF kept
    <3>3. Len(recent) \in Nat
      BY <2>1
    <3> QED
      BY <2>3, <3>2, <3>3
  <2> QED
    BY <2>2, <2>3
<1> HIDE DEF kept
<1>3. \A d \in Packets : d # e => call'[d] = call[d]
  BY DEF CallsTypeOK
<1>4. call'[e] = c /\ c # NoCall /\ \A x \in Calls : x.id \in Ids
  BY ToolsAssumption DEF CallsTypeOK, Calls, NoCall
<1>5. \A j \in DOMAIN kept : kept[j] \in Packets
  BY <1>2
<1>6. \A j \in DOMAIN kept : call'[kept[j]] # NoCall /\ call'[kept[j]] \in Calls
  BY <1>2, <1>3, <1>4, <1>5 DEF Found, CallsTypeOK
<1>7. oldest = call'[kept[1]].id /\ oldest \in Ids
  <2>1. kept[1] \in Packets /\ 1 \in DOMAIN kept /\ Head(kept) = kept[1]
    BY <1>2
  <2>2. oldest = call'[kept[1]].id
    BY <1>3, <1>4, <2>1
  <2>3. call'[kept[1]] \in Calls
    BY <1>6, <2>1
  <2> QED
    BY <1>4, <2>2, <2>3
<1>8. ASSUME NEW i \in Ids, \/ i = c.id
                            \/ \E j \in DOMAIN recent : call[recent[j]].id = i
      PROVE  \E j \in DOMAIN kept : call'[kept[j]].id = i
  <2>1. CASE i = c.id
    BY <1>2, <1>4, <2>1
  <2>2. ASSUME NEW j \in DOMAIN recent, call[recent[j]].id = i, i # c.id
        PROVE  \E k \in DOMAIN kept : call'[kept[k]].id = i
    <3>1. PICK k \in DOMAIN kept : kept[k] = recent[j]
      BY <1>2, <2>2
    <3>2. recent[j] \in Packets /\ call[recent[j]] # NoCall
      BY DEF Found, CallsTypeOK
    <3>3. recent[j] # e
      BY <2>2, <3>2
    <3> QED
      BY <1>3, <2>2, <3>1, <3>2, <3>3
  <2> QED
    BY <1>8, <2>1, <2>2
<1>9. ASSUME NEW i \in Ids, \E j \in DOMAIN kept : call'[kept[j]].id = i
      PROVE  i \in evicted' \/ \E j \in DOMAIN recent' : call'[recent'[j]].id = i
  <2>1. CASE Len(kept) > CacheSize
    <3>1. PICK j \in DOMAIN kept : call'[kept[j]].id = i
      BY <1>9
    <3>2. CASE j = 1
      BY <1>1, <1>7, <2>1, <3>1, <3>2
    <3>3. CASE j # 1
      <4>1. j - 1 \in DOMAIN Tail(kept) /\ Tail(kept)[j - 1] = kept[j]
        BY <1>2, <3>1, <3>3
      <4> QED
        BY <1>1, <2>1, <3>1, <4>1
    <3> QED
      BY <3>2, <3>3
  <2>2. CASE ~(Len(kept) > CacheSize)
    BY <1>1, <1>9, <2>2
  <2> QED
    BY <2>1, <2>2
<1>10. /\ recent' \in Seq(Packets) /\ evicted' \in SUBSET Ids /\ evicted \subseteq evicted'
       /\ \A j \in DOMAIN recent' : call'[recent'[j]] # NoCall
  <2>1. CASE Len(kept) > CacheSize
    <3>1. /\ Tail(kept) \in Seq(Packets)
          /\ \A j \in DOMAIN Tail(kept) : j + 1 \in DOMAIN kept /\ Tail(kept)[j] = kept[j + 1]
      BY <1>2
    <3>2. recent' = Tail(kept) /\ evicted' = evicted \cup {oldest}
      BY <1>1, <2>1
    <3>3. evicted' \in SUBSET Ids /\ evicted \subseteq evicted'
      BY <1>7, <3>2 DEF CallsTypeOK
    <3> QED
      BY <1>6, <3>1, <3>2, <3>3
  <2>2. CASE ~(Len(kept) > CacheSize)
    BY <1>1, <1>2, <1>6, <2>2 DEF CallsTypeOK
  <2> QED
    BY <2>1, <2>2
<1>11. ASSUME NEW d \in Packets, phase'[d] = "answered"
       PROVE  \/ call'[d].id \in evicted'
              \/ \E j \in DOMAIN recent' : call'[recent'[j]].id = call'[d].id
  <2>1. CASE d = e
    BY <1>4, <1>8, <1>9, <2>1
  <2>2. CASE d # e
    <3>1. phase[d] = "answered" /\ call'[d] = call[d]
      BY <1>3, <1>11, <2>2 DEF Finish, CallsTypeOK
    <3>2. call[d].id \in Ids
      BY <1>4, <3>1 DEF CallsTypeOK
    <3> QED
      BY <1>8, <1>9, <1>10, <3>1, <3>2 DEF Found
  <2> QED
    BY <2>1, <2>2
<1> QED
  BY <1>10, <1>11 DEF Found

-----------------------------------------------------------------------------
(* An editor that has just started satisfies the invariant.                *)
LEMMA CallsInitInv == CallsInit => CallsInv
<1> SUFFICES ASSUME CallsInit PROVE CallsInv
  OBVIOUS
<1>1. CallsTypeOK
  BY DEF CallsInit, CallsTypeOK
<1>2. InTurn /\ Signalled
  BY DEF CallsInit, InTurn, InTurnAt, Signalled, SignalledAt
<1>3. Backed /\ Found /\ GivenAgain
  BY DEF CallsInit, Backed, Found, GivenAgain
<1> QED
  BY <1>1, <1>2, <1>3 DEF CallsInv

-----------------------------------------------------------------------------
(* Every step preserves each part of the invariant.                        *)

(* What a step does to its own packet.                                     *)
LEMMA Arrival ==
  ASSUME CallsTypeOK, InTurn, NEW e \in Packets, NEW c \in Calls, Receive(e, c)
  PROVE  /\ phase[e] = "new" /\ call' = [call EXCEPT ![e] = c] /\ call'[e] = c /\ c # NoCall
         /\ UNCHANGED <<grants, stopped, cut, child, deaf, said, forgotten>>
         /\ \/ /\ phase'[e] = "asking" /\ c.tool = "command" /\ work'[e] = "none"
               /\ UNCHANGED <<recent, evicted>>
            \/ /\ phase'[e] = "running" /\ work'[e] = "resolving"
               /\ UNCHANGED <<recent, evicted>>
               /\ c.tool = "command" => c.shows \in grants
            \/ /\ phase'[e] = "answered" /\ work'[e] = "none"
               /\ \/ \E a : Finish(e, c, a)
                  \/ /\ \E d \in Range(recent) : call[d].id = c.id
                     /\ UNCHANGED <<recent, evicted>>
         /\ (\E d \in Range(recent) : call[d].id = c.id) =>
               phase'[e] = "answered" /\ work'[e] = "none"
<1> USE DEF CallsTypeOK
<1>1. /\ phase[e] = "new" /\ call' = [call EXCEPT ![e] = c] /\ work[e] = "none"
      /\ UNCHANGED <<grants, stopped, cut, child, deaf, said, forgotten>>
  BY DEF Receive, InTurn, InTurnAt
<1>2. c # NoCall /\ call'[e] = c
  BY <1>1, ToolsAssumption DEF Calls, NoCall
<1>3. ASSUME Begin(e, c)
      PROVE  \/ phase'[e] = "running" /\ work'[e] = "resolving" /\ UNCHANGED <<recent, evicted>>
             \/ phase'[e] = "answered" /\ work'[e] = "none" /\ \E a : Finish(e, c, a)
  BY <1>1, <1>3 DEF Begin, Finish
<1>4. ASSUME NEW a, Finish(e, c, a), UNCHANGED work
      PROVE  phase'[e] = "answered" /\ work'[e] = "none"
  BY <1>1, <1>4 DEF Finish
<1>5. CASE \E d \in Range(recent) : call[d].id = c.id
  <2>1. phase' = [phase EXCEPT ![e] = "answered"] /\ UNCHANGED <<work, recent, evicted>>
    BY <1>5 DEF Receive
  <2> QED
    BY <1>1, <1>2, <1>5, <2>1
<1>6. CASE ~\E d \in Range(recent) : call[d].id = c.id
  <2>1. CASE c.tool = "unknown"
    <3>1. Finish(e, c, "unknown") /\ UNCHANGED work
      BY <1>6, <2>1 DEF Receive
    <3> QED
      BY <1>1, <1>2, <1>4, <1>6, <3>1
  <2>2. CASE c.tool = "read"
    <3>1. Begin(e, c)
      BY <1>6, <2>2 DEF Receive
    <3> QED
      BY <1>1, <1>2, <1>3, <1>6, <2>2, <3>1
  <2>3. CASE c.tool = "command" /\ Granted(c)
    <3>1. Begin(e, c)
      BY <1>6, <2>3 DEF Receive
    <3> QED
      BY <1>1, <1>2, <1>3, <1>6, <2>3, <3>1 DEF Granted
  <2>4. CASE c.tool = "command" /\ ~Granted(c)
    <3>1. phase' = [phase EXCEPT ![e] = "asking"] /\ UNCHANGED <<work, recent, evicted>>
      BY <1>6, <2>4 DEF Receive
    <3> QED
      BY <1>1, <1>2, <1>6, <2>4, <3>1
  <2> QED
    BY <2>1, <2>2, <2>3, <2>4 DEF Calls
<1> QED
  BY <1>5, <1>6

(* The user has answered, or the grant has been stored: the call begins.   *)
LEMMA Beginning ==
  ASSUME CallsTypeOK, InTurn, NEW e \in Packets, phase[e] \in {"asking", "saving"},
         Begin(e, call[e])
  PROVE  /\ call' = call => call' = [call EXCEPT ![e] = call[e]]
         /\ call[e] \in Calls
         /\ \/ /\ phase'[e] = "running" /\ work'[e] = "resolving"
               /\ UNCHANGED <<recent, evicted>>
            \/ /\ phase'[e] = "answered" /\ work'[e] = "none"
               /\ \E a : Finish(e, call[e], a)
<1>1. call[e] \in Calls /\ work[e] = "none"
  BY DEF InTurn, InTurnAt, CallsTypeOK
<1>2. call' = call => call' = [call EXCEPT ![e] = call[e]]
  BY DEF CallsTypeOK
<1>3. CASE Finish(e, call[e], "invalid") /\ UNCHANGED work
  <2>1. phase'[e] = "answered"
    BY <1>3 DEF Finish, CallsTypeOK
  <2> QED
    BY <1>1, <1>2, <1>3, <2>1
<1>4. CASE /\ phase' = [phase EXCEPT ![e] = "running"]
           /\ work' = [work EXCEPT ![e] = "resolving"]
           /\ UNCHANGED <<answer, recent, evicted>>
  BY <1>1, <1>2, <1>4 DEF CallsTypeOK
<1> QED
  BY <1>3, <1>4 DEF Begin

(* A tool settles: its call is answered, if it was still waited for.       *)
LEMMA Settling ==
  ASSUME CallsTypeOK, InTurn, NEW e \in Packets, NEW a, Settle(e, a), work[e] # "none"
  PROVE  /\ phase[e] \in {"running", "answered"} /\ phase'[e] = "answered"
         /\ work'[e] = "none" /\ cut' = cut \cup {e} /\ call[e] \in Calls
         /\ \/ phase[e] = "running" /\ Finish(e, call[e], a)
            \/ phase[e] = "answered" /\ UNCHANGED <<recent, evicted, phase>>
<1>1. phase[e] \in {"running", "answered"} /\ call[e] \in Calls
  BY DEF InTurn, InTurnAt, CallsTypeOK
<1>2. work'[e] = "none" /\ cut' = cut \cup {e}
  BY DEF Settle, CallsTypeOK
<1>3. CASE phase[e] = "running"
  <2>1. Finish(e, call[e], a)
    BY <1>3 DEF Settle
  <2>2. phase'[e] = "answered"
    BY <2>1 DEF Finish, CallsTypeOK
  <2> QED
    BY <1>1, <1>2, <1>3, <2>1, <2>2
<1>4. CASE phase[e] = "answered"
  BY <1>1, <1>2, <1>4 DEF Settle
<1> QED
  BY <1>1, <1>3, <1>4

(* The three ways for a tool to settle.                                    *)
LEMMA Ends ==
  ASSUME CallsTypeOK, InTurn, Signalled, NEW e \in Packets,
         Refused(e) \/ (\E a \in {"ok", "failed"} : ReadDone(e, a)) \/ ChildCloses(e)
  PROVE  /\ work[e] # "none" /\ \E a \in Answers : Settle(e, a)
         /\ child'[e] \in {"none", "gone"} /\ (child[e] = "none" => child'[e] = "none")
         /\ child' \in {child, [child EXCEPT ![e] = "gone"]}
         /\ UNCHANGED <<call, grants, stopped, deaf, said, forgotten, overlap>>
<1>1. CASE Refused(e)
  <2>1. work[e] = "resolving" /\ Settle(e, "failed") /\ UNCHANGED <<call, grants, stopped, child, deaf, said, forgotten, overlap>>
    BY <1>1 DEF Refused
  <2> QED
    BY <2>1 DEF Signalled, SignalledAt, Answers
<1>2. ASSUME NEW a \in {"ok", "failed"}, ReadDone(e, a)
      PROVE  /\ work[e] # "none" /\ \E b \in Answers : Settle(e, b)
             /\ child[e] = "none" /\ child' = child
             /\ UNCHANGED <<call, grants, stopped, deaf, said, forgotten, overlap>>
  BY <1>2 DEF ReadDone, Signalled, SignalledAt, Answers
<1>3. CASE ChildCloses(e)
  <2>1. /\ child[e] \in {"alive", "terminating", "killed"} /\ child' = [child EXCEPT ![e] = "gone"]
        /\ UNCHANGED <<call, grants, stopped, deaf, said, forgotten, overlap>>
    BY <1>3 DEF ChildCloses
  <2>2. \E a \in Answers : Settle(e, a)
    BY <1>3 DEF ChildCloses, Answers
  <2> QED
    BY <2>1, <2>2 DEF Signalled, SignalledAt, CallsTypeOK
<1> QED
  BY <1>1, <1>2, <1>3

(* A packet goes its way once, and what the user said to it stays said.    *)
LEMMA InTurnKept ==
  ASSUME CallsTypeOK, InTurn, Signalled, CallsNext
  PROVE  InTurn'
<1>1. ASSUME NEW e \in Packets, Steps(e) PROVE InTurn'
  <2>1. UNCHANGED forgotten
    BY <1>1 DEF Steps, Receive, Answer, Saved, Refused, ReadBegins, ReadDone, Spawn, ChildCloses,
                CommandTimer, KillTimer, ToolTimeout
  <2>2. SUFFICES InTurnAt(e)'
    BY <1>1, <2>1, OthersStay DEF InTurn, InTurnAt
  <2>3. InTurnAt(e)
    BY DEF InTurn
  <2>4. ASSUME NEW c \in Calls, Receive(e, c) PROVE InTurnAt(e)'
    BY <2>3, <2>4, Arrival DEF InTurnAt
  <2>5. ASSUME NEW outcome \in {"deny", "once", "always"}, Answer(e, outcome) PROVE InTurnAt(e)'
    <3>1. phase[e] = "asking" /\ UNCHANGED <<call, child>> /\ said'[e] = outcome
      BY <2>5 DEF Answer, CallsTypeOK
    <3>2. CASE outcome = "deny"
      <4>1. phase'[e] = "answered"
        BY <2>5, <3>2 DEF Answer, Finish, CallsTypeOK
      <4> QED
        BY <2>3, <3>1, <4>1 DEF InTurnAt
    <3>3. CASE outcome = "once"
      <4>1. Begin(e, call[e])
        BY <2>5, <3>3 DEF Answer
      <4> QED
        BY <2>3, <3>1, <4>1, Beginning DEF InTurnAt
    <3>4. CASE outcome = "always"
      <4>1. phase'[e] = "saving" /\ work' = work
        BY <2>5, <3>4 DEF Answer, CallsTypeOK
      <4> QED
        BY <2>3, <3>1, <3>4, <4>1 DEF InTurnAt
    <3> QED
      BY <3>2, <3>3, <3>4
  <2>6. CASE Saved(e)
    <3>1. phase[e] = "saving" /\ Begin(e, call[e]) /\ UNCHANGED <<call, child, said>>
      BY <2>6 DEF Saved
    <3> QED
      BY <2>3, <3>1, Beginning DEF InTurnAt
  <2>7. CASE Refused(e) \/ (\E a \in {"ok", "failed"} : ReadDone(e, a)) \/ ChildCloses(e)
    <3>1. PICK a \in Answers : Settle(e, a) /\ work[e] # "none" /\ UNCHANGED <<call, said>>
      BY <2>7, Ends
    <3>2. phase[e] \in {"running", "answered"} /\ phase'[e] = "answered"
      BY <3>1, Settling
    <3> QED
      BY <2>3, <3>1, <3>2 DEF InTurnAt
  <2>8. CASE ReadBegins(e) \/ Spawn(e) \/ CommandTimer(e) \/ KillTimer(e)
    <3>1. phase[e] \in {"running", "answered"}
      BY <2>3, <2>8 DEF ReadBegins, Spawn, CommandTimer, KillTimer, InTurnAt, CallsTypeOK
    <3>2. UNCHANGED <<call, phase, said>>
      BY <2>8 DEF ReadBegins, Spawn, CommandTimer, KillTimer
    <3> QED
      BY <2>3, <3>1, <3>2 DEF InTurnAt
  <2>9. CASE ToolTimeout(e)
    <3>1. phase[e] = "running" /\ phase'[e] = "answered" /\ UNCHANGED <<call, said>>
      BY <2>9 DEF ToolTimeout, Finish, CallsTypeOK
    <3> QED
      BY <2>3, <3>1 DEF InTurnAt
  <2> QED
    BY <1>1, <2>4, <2>5, <2>6, <2>7, <2>8, <2>9 DEF Steps
<1>2. CASE Forget
  BY <1>2 DEF Forget, InTurn, InTurnAt
<1>3. CASE Cancel
  <2>1. UNCHANGED <<call, phase, said, work, forgotten>>
    BY <1>3 DEF Cancel
  <2>2. \A e \in Packets : child[e] = "none" => child'[e] = "none"
    BY <1>3 DEF Cancel
  <2> QED
    BY <2>1, <2>2 DEF InTurn, InTurnAt
<1> QED
  BY <1>1, <1>2, <1>3 DEF CallsNext

(* A grant that is not taken back has its "always".                        *)
LEMMA BackedKept ==
  ASSUME CallsTypeOK, InTurn, Signalled, Backed, CallsNext
  PROVE  Backed'
<1>1. ASSUME NEW e \in Packets, Steps(e), UNCHANGED <<grants, forgotten, said>>,
             phase[e] = "new" \/ call'[e] = call[e]
      PROVE  Backed'
  <2>1. \A d \in Packets : said[d] = "always" => call'[d] = call[d]
    BY <1>1, OthersStay DEF InTurn, InTurnAt
  <2> QED
    BY <1>1, <2>1 DEF Backed
<1>2. ASSUME NEW e \in Packets, NEW c \in Calls, Receive(e, c) PROVE Backed'
  <2>1. phase[e] = "new" /\ UNCHANGED <<grants, forgotten, said>> /\ Steps(e)
    BY <1>2, Arrival DEF Steps
  <2> QED
    BY <1>1, <2>1
<1>3. ASSUME NEW e \in Packets, NEW outcome \in {"deny", "once", "always"}, Answer(e, outcome)
      PROVE  Backed'
  <2>1. /\ UNCHANGED <<call, forgotten>> /\ said' = [said EXCEPT ![e] = outcome]
        /\ grants' \subseteq grants \cup (IF outcome = "always" THEN {call[e].shows} ELSE {})
        /\ phase[e] = "asking"
    BY <1>3 DEF Answer
  <2>2. said[e] = "nothing" /\ e \notin forgotten
    BY <2>1 DEF InTurn, InTurnAt
  <2>3. said'[e] = outcome /\ \A d \in Packets : d # e => said'[d] = said[d]
    BY <2>1 DEF CallsTypeOK
  <2>4. \A x \in grants : \E d \in Packets \ forgotten' : said'[d] = "always" /\ call'[d].shows = x
    BY <2>1, <2>2, <2>3 DEF Backed
  <2> QED
    BY <2>1, <2>2, <2>3, <2>4 DEF Backed
<1>4. ASSUME NEW e \in Packets, Refused(e) \/ (\E a \in {"ok", "failed"} : ReadDone(e, a)) \/ ChildCloses(e)
      PROVE  Backed'
  <2>1. UNCHANGED <<grants, forgotten, said, call>>
    BY <1>4, Ends
  <2> QED
    BY <2>1 DEF Backed
<1>5. ASSUME NEW e \in Packets,
             Saved(e) \/ ReadBegins(e) \/ Spawn(e) \/ CommandTimer(e) \/ KillTimer(e) \/ ToolTimeout(e)
      PROVE  Backed'
  <2>1. UNCHANGED <<grants, forgotten, said, call>>
    BY <1>5 DEF Saved, ReadBegins, Spawn, CommandTimer, KillTimer, ToolTimeout
  <2> QED
    BY <2>1 DEF Backed
<1>6. CASE Forget
  BY <1>6 DEF Forget, Backed
<1>7. CASE Cancel
  BY <1>7 DEF Cancel, Backed
<1> QED
  BY <1>2, <1>3, <1>4, <1>5, <1>6, <1>7 DEF CallsNext, Steps

(* Whatever runs on has had its signal.                                    *)
LEMMA SignalledKept ==
  ASSUME CallsTypeOK, InTurn, Signalled, CallsNext
  PROVE  Signalled'
<1>1. ASSUME NEW e \in Packets, Steps(e) PROVE Signalled'
  <2>2. SUFFICES SignalledAt(e)'
    BY <1>1, OthersStay DEF Signalled, SignalledAt
  <2>3. SignalledAt(e) /\ InTurnAt(e)
    BY DEF Signalled, InTurn
  <2>4. ASSUME NEW c \in Calls, Receive(e, c) PROVE SignalledAt(e)'
    BY <2>3, <2>4, Arrival DEF SignalledAt, InTurnAt
  <2>5. ASSUME phase[e] \in {"asking", "saving"}, Begin(e, call[e]), UNCHANGED <<call, child, cut, deaf>>
        PROVE  SignalledAt(e)'
    BY <2>3, <2>5, Beginning DEF SignalledAt, InTurnAt
  <2>6. ASSUME NEW outcome \in {"deny", "once", "always"}, Answer(e, outcome) PROVE SignalledAt(e)'
    <3>1. phase[e] = "asking" /\ UNCHANGED <<call, child, cut, deaf>>
      BY <2>6 DEF Answer
    <3>2. Begin(e, call[e]) \/ work' = work
      BY <2>6 DEF Answer
    <3> QED
      BY <2>3, <2>5, <3>1, <3>2 DEF SignalledAt, InTurnAt
  <2>7. CASE Saved(e)
    BY <2>5, <2>7 DEF Saved
  <2>8. CASE Refused(e) \/ (\E a \in {"ok", "failed"} : ReadDone(e, a)) \/ ChildCloses(e)
    <3>1. PICK a \in Answers : Settle(e, a) /\ work[e] # "none" /\ UNCHANGED <<call, deaf>>
      BY <2>8, Ends
    <3>2. work'[e] = "none" /\ child'[e] \in {"none", "gone"} /\ (child[e] = "none" => child'[e] = "none")
      BY <2>8, <3>1, Settling, Ends
    <3> QED
      BY <2>3, <3>1, <3>2 DEF SignalledAt
  <2>9. CASE ReadBegins(e)
    <3>1. work[e] = "resolving" /\ work'[e] = "working" /\ UNCHANGED <<call, phase, child, cut, deaf>>
      BY <2>9 DEF ReadBegins, CallsTypeOK
    <3> QED
      BY <2>3, <3>1 DEF SignalledAt
  <2>10. CASE Spawn(e)
    <3>1. /\ work[e] = "resolving" /\ work'[e] = "working" /\ child'[e] = "alive"
          /\ call[e].tool = "command" /\ UNCHANGED <<call, phase, cut>>
          /\ (e \in cut => e \in deaf')
      BY <2>10 DEF Spawn, CallsTypeOK
    <3> QED
      BY <2>3, <3>1 DEF SignalledAt
  <2>11. CASE CommandTimer(e) \/ KillTimer(e)
    <3>1. /\ child[e] \in {"alive", "terminating"} /\ child'[e] \in {"terminating", "killed"}
          /\ (child'[e] = "terminating" => child[e] = "alive")
          /\ UNCHANGED <<call, phase, work, cut, deaf>>
      BY <2>11 DEF CommandTimer, KillTimer, CallsTypeOK
    <3> QED
      BY <2>3, <3>1 DEF SignalledAt
  <2>12. CASE ToolTimeout(e)
    <3>1. /\ UNCHANGED <<call, work, deaf>> /\ cut' = cut \cup {e}
          /\ \/ e \notin cut /\ child[e] \in {"alive", "terminating"} /\ child'[e] = "killed"
             \/ (e \in cut \/ child[e] \notin {"alive", "terminating"}) /\ child'[e] = child[e]
      BY <2>12 DEF ToolTimeout, CallsTypeOK
    <3> QED
      BY <2>3, <3>1 DEF SignalledAt
  <2> QED
    BY <1>1, <2>4, <2>6, <2>7, <2>8, <2>9, <2>10, <2>11, <2>12 DEF Steps
<1>2. CASE Forget
  BY <1>2 DEF Forget, Signalled, SignalledAt
<1>3. CASE Cancel
  <2>1. UNCHANGED <<call, phase, work, deaf>>
    BY <1>3 DEF Cancel
  <2>2. ASSUME NEW e \in Packets PROVE SignalledAt(e)'
    <3>1. \/ /\ e \in cut' <=> e \in cut
             /\ child'[e] = child[e]
          \/ /\ e \in cut' /\ phase[e] = "running"
             /\ child'[e] = IF child[e] \in {"alive", "terminating"} THEN "killed" ELSE child[e]
      BY <1>3, <2>2 DEF Cancel, CallsTypeOK
    <3>2. SignalledAt(e)
      BY DEF Signalled
    <3> QED
      BY <2>1, <3>1, <3>2 DEF SignalledAt
  <2> QED
    BY <2>2 DEF Signalled
<1> QED
  BY <1>1, <1>2, <1>3 DEF CallsNext

(* A step answers a packet by finish, or gives it an answer that is found, *)
(* or leaves the answers alone.                                            *)
LEMMA Answering ==
  ASSUME CallsTypeOK, InTurn, Signalled, NEW e \in Packets, Steps(e)
  PROVE  \/ \E c \in Calls : /\ \E a : Finish(e, c, a)
                            /\ call[e] \in {NoCall, c}
                            /\ call' = [call EXCEPT ![e] = c]
         \/ /\ UNCHANGED <<recent, evicted>>
            /\ phase[e] # "new" => call'[e] = call[e]
            /\ phase'[e] = "answered" =>
                 \/ phase[e] = "answered"
                 \/ \E j \in DOMAIN recent : call[recent[j]].id = call'[e].id
<1>1. ASSUME NEW c \in Calls, Receive(e, c)
      PROVE  \/ \E a : /\ Finish(e, c, a) /\ call[e] = NoCall /\ call' = [call EXCEPT ![e] = c]
             \/ /\ UNCHANGED <<recent, evicted>> /\ phase[e] = "new"
                /\ phase'[e] = "answered" => \E j \in DOMAIN recent : call[recent[j]].id = call'[e].id
  <2>1. phase[e] = "new" /\ call[e] = NoCall /\ call' = [call EXCEPT ![e] = c] /\ call'[e] = c
    BY <1>1, Arrival DEF InTurn, InTurnAt
  <2>2. \/ \E a : Finish(e, c, a)
        \/ UNCHANGED <<recent, evicted>> /\ phase'[e] # "answered"
        \/ UNCHANGED <<recent, evicted>> /\ \E d \in Range(recent) : call[d].id = c.id
    BY <1>1, Arrival
  <2> QED
    BY <2>1, <2>2 DEF Range
<1>2. ASSUME phase[e] \in {"asking", "saving"}, Begin(e, call[e]), UNCHANGED call
      PROVE  \/ \E a : Finish(e, call[e], a) /\ call' = [call EXCEPT ![e] = call[e]] /\ call[e] \in Calls
             \/ UNCHANGED <<recent, evicted>> /\ phase'[e] # "answered"
  BY <1>2, Beginning
<1>3. ASSUME NEW outcome \in {"deny", "once", "always"}, Answer(e, outcome)
      PROVE  \/ \E a : Finish(e, call[e], a) /\ call' = [call EXCEPT ![e] = call[e]] /\ call[e] \in Calls
             \/ UNCHANGED <<recent, evicted>> /\ phase'[e] # "answered" /\ call' = call
  <2>1. phase[e] = "asking" /\ call' = call /\ call[e] \in Calls
    BY <1>3 DEF Answer, InTurn, InTurnAt, CallsTypeOK
  <2>2. call' = [call EXCEPT ![e] = call[e]]
    BY <2>1 DEF CallsTypeOK
  <2>3. CASE outcome = "deny"
    BY <1>3, <2>1, <2>2, <2>3 DEF Answer
  <2>4. CASE outcome = "once"
    BY <1>2, <1>3, <2>1, <2>4 DEF Answer
  <2>5. CASE outcome = "always"
    BY <1>3, <2>1, <2>5 DEF Answer, CallsTypeOK
  <2> QED
    BY <2>3, <2>4, <2>5
<1>4. ASSUME Refused(e) \/ (\E a \in {"ok", "failed"} : ReadDone(e, a)) \/ ChildCloses(e)
      PROVE  \/ \E a : Finish(e, call[e], a) /\ call' = [call EXCEPT ![e] = call[e]] /\ call[e] \in Calls
             \/ UNCHANGED <<recent, evicted, call>> /\ phase[e] = "answered"
  <2>1. PICK a \in Answers : Settle(e, a) /\ work[e] # "none" /\ UNCHANGED call
    BY <1>4, Ends
  <2>2. call' = [call EXCEPT ![e] = call[e]]
    BY <2>1 DEF CallsTypeOK
  <2> QED
    BY <2>1, <2>2, Settling
<1>5. ASSUME ReadBegins(e) \/ Spawn(e) \/ CommandTimer(e) \/ KillTimer(e)
      PROVE  UNCHANGED <<recent, evicted, call, phase>>
  BY <1>5 DEF ReadBegins, Spawn, CommandTimer, KillTimer
<1>6. ASSUME ToolTimeout(e)
      PROVE  Finish(e, call[e], "timeout") /\ call' = [call EXCEPT ![e] = call[e]] /\ call[e] \in Calls
  <2>1. phase[e] = "running" /\ call' = call /\ Finish(e, call[e], "timeout")
    BY <1>6 DEF ToolTimeout
  <2> QED
    BY <2>1 DEF CallsTypeOK, InTurn, InTurnAt
<1>7. CASE Saved(e)
  BY <1>2, <1>7 DEF Saved
<1>8. CASE \E outcome \in {"deny", "once", "always"} : Answer(e, outcome)
  BY <1>3, <1>8
<1>9. CASE \E c \in Calls : Receive(e, c)
  BY <1>1, <1>9
<1> QED
  BY <1>4, <1>5, <1>6, <1>7, <1>8, <1>9 DEF Steps

(* What was answered is found, until it falls out.                         *)
LEMMA FoundKept ==
  ASSUME CallsTypeOK, InTurn, Signalled, Found, CallsNext
  PROVE  /\ Found' /\ recent' \in Seq(Packets)
         /\ evicted' \subseteq Ids /\ evicted \subseteq evicted'
<1>1. ASSUME NEW e \in Packets, Steps(e)
      PROVE  /\ Found' /\ recent' \in Seq(Packets)
             /\ evicted' \subseteq Ids /\ evicted \subseteq evicted'
  <2>1. ASSUME NEW c \in Calls, NEW a, Finish(e, c, a), call[e] \in {NoCall, c},
               call' = [call EXCEPT ![e] = c]
        PROVE  /\ Found' /\ recent' \in Seq(Packets)
               /\ evicted' \subseteq Ids /\ evicted \subseteq evicted'
    <3>1. \A d \in Packets : phase[d] = "answered" => call[d] # NoCall
      BY DEF InTurn, InTurnAt
    <3> QED
      BY <2>1, <3>1, FinishKeepsFound
  <2>2. ASSUME UNCHANGED <<recent, evicted>>, phase[e] # "new" => call'[e] = call[e],
               phase'[e] = "answered" =>
                 \/ phase[e] = "answered"
                 \/ \E j \in DOMAIN recent : call[recent[j]].id = call'[e].id
        PROVE  /\ Found' /\ recent' \in Seq(Packets)
               /\ evicted' \subseteq Ids /\ evicted \subseteq evicted'
    <3>1. \A j \in DOMAIN recent : recent[j] \in Packets /\ call[recent[j]] # NoCall
      BY DEF Found, CallsTypeOK
    <3>2. \A j \in DOMAIN recent : call'[recent[j]] = call[recent[j]]
      BY <1>1, <2>2, <3>1, OthersStay DEF InTurn, InTurnAt
    <3>3. \A d \in Packets : d # e => call'[d] = call[d] /\ phase'[d] = phase[d]
      BY <1>1, OthersStay
    <3>4. phase[e] = "answered" => call'[e] = call[e]
      BY <2>2
    <3>5. Found'
      BY <2>2, <3>1, <3>2, <3>3, <3>4 DEF Found
    <3> QED
      BY <2>2, <3>5 DEF CallsTypeOK
  <2> QED
    BY <1>1, <2>1, <2>2, Answering
<1>2. CASE Forget \/ Cancel
  BY <1>2 DEF Forget, Cancel, Found, CallsTypeOK
<1> QED
  BY <1>1, <1>2 DEF CallsNext

(* A packet that was answered stays answered, and only what still works    *)
(* for it moves.                                                           *)
LEMMA AnsweredStays ==
  ASSUME CallsTypeOK, InTurn, Signalled, NEW e \in Packets, Steps(e), phase[e] # "new"
  PROVE  /\ call'[e] = call[e] /\ overlap' = overlap /\ phase'[e] # "new"
         /\ phase[e] = "answered" => phase'[e] = "answered" /\ work[e] # "none"
<1>1. ASSUME NEW c \in Calls, Receive(e, c) PROVE FALSE
  BY <1>1 DEF Receive
<1>2. ASSUME NEW outcome \in {"deny", "once", "always"}, Answer(e, outcome)
      PROVE  UNCHANGED <<call, overlap>> /\ phase'[e] # "new" /\ phase[e] # "answered"
  <2>1. UNCHANGED <<call, overlap>> /\ phase[e] = "asking"
    BY <1>2 DEF Answer
  <2>2. \/ phase' \in {[phase EXCEPT ![e] = p] : p \in {"saving", "answered"}}
        \/ Begin(e, call[e])
    BY <1>2 DEF Answer, Finish
  <2> QED
    BY <2>1, <2>2, Beginning DEF CallsTypeOK
<1>3. CASE Saved(e)
  BY <1>3, Beginning DEF Saved
<1>4. CASE Refused(e) \/ (\E a \in {"ok", "failed"} : ReadDone(e, a)) \/ ChildCloses(e)
  <2>1. PICK a \in Answers : Settle(e, a) /\ work[e] # "none" /\ UNCHANGED <<call, overlap>>
    BY <1>4, Ends
  <2> QED
    BY <2>1, Settling
<1>5. CASE ReadBegins(e) \/ Spawn(e) \/ CommandTimer(e) \/ KillTimer(e)
  <2>1. UNCHANGED <<call, overlap, phase>>
    BY <1>5 DEF ReadBegins, Spawn, CommandTimer, KillTimer
  <2>2. work[e] # "none"
    BY <1>5 DEF ReadBegins, Spawn, CommandTimer, KillTimer, Signalled, SignalledAt
  <2> QED
    BY <2>1, <2>2
<1>6. CASE ToolTimeout(e)
  BY <1>6 DEF ToolTimeout, Finish, CallsTypeOK
<1> QED
  BY <1>1, <1>2, <1>3, <1>4, <1>5, <1>6 DEF Steps

(* A packet that comes alone and late is given the answer there is.        *)
LEMMA GivenAgainKept ==
  ASSUME CallsTypeOK, InTurn, Signalled, Found, GivenAgain, CallsNext
  PROVE  GivenAgain'
<1>1. evicted \subseteq evicted'
  BY FoundKept
<1>2. ASSUME NEW x \in Packets, Steps(x), phase[x] # "new" PROVE GivenAgain'
  <2>1. overlap' = overlap
    BY <1>2, AnsweredStays
  <2>2. ASSUME NEW d \in Packets
        PROVE  /\ call'[d] = call[d]
               /\ (phase'[d] # "new") = (phase[d] # "new")
               /\ phase[d] = "answered" => phase'[d] = "answered"
               /\ phase[d] = "answered" /\ work[d] = "none" /\ child[d] = "none" =>
                    work'[d] = "none" /\ child'[d] = "none"
    BY <1>2, OthersStay, AnsweredStays
  <2> SUFFICES ASSUME NEW d \in Packets, NEW e \in Packets, d < e, phase'[e] # "new"
               PROVE  /\ phase'[d] # "new"
                      /\ call'[d].id = call'[e].id /\ e \notin overlap' =>
                           /\ phase'[d] = "answered"
                           /\ \/ call'[e].id \in evicted'
                              \/ phase'[e] = "answered" /\ work'[e] = "none" /\ child'[e] = "none"
    BY DEF GivenAgain
  <2>3. /\ phase[e] # "new" /\ call'[d] = call[d] /\ call'[e] = call[e]
        /\ phase[d] # "new" => phase'[d] # "new"
        /\ phase[d] = "answered" => phase'[d] = "answered"
        /\ phase[e] = "answered" /\ work[e] = "none" /\ child[e] = "none" =>
             phase'[e] = "answered" /\ work'[e] = "none" /\ child'[e] = "none"
    BY <2>2
  <2>4. /\ phase[d] # "new"
        /\ call[d].id = call[e].id /\ e \notin overlap =>
             /\ phase[d] = "answered"
             /\ \/ call[e].id \in evicted
                \/ phase[e] = "answered" /\ work[e] = "none" /\ child[e] = "none"
    BY <2>3 DEF GivenAgain
  <2> QED
    BY <1>1, <2>1, <2>3, <2>4
<1>3. ASSUME NEW x \in Packets, NEW c \in Calls, Receive(x, c) PROVE GivenAgain'
  <2>1. /\ phase[x] = "new" /\ call'[x] = c /\ phase'[x] # "new"
        /\ (\E d \in Range(recent) : call[d].id = c.id) => phase'[x] = "answered" /\ work'[x] = "none"
        /\ child'[x] = "none"
    BY <1>3, Arrival DEF InTurn, InTurnAt
  <2>2. \A d \in Packets : d # x =>
          /\ call'[d] = call[d] /\ phase'[d] = phase[d] /\ work'[d] = work[d]
          /\ child'[d] = child[d] /\ (d \in overlap' <=> d \in overlap)
    BY <1>3, OthersStay DEF Steps
  <2>3. \A d \in Packets : d < x => phase[d] # "new"
    BY <1>3 DEF Receive
  <2>4. \A d \in Packets : call[d].id = c.id /\ phase[d] # "answered" => x \in overlap'
    BY <1>3 DEF Receive
  <2>5. ASSUME NEW d \in Packets, d < x, call[d].id = c.id, x \notin overlap'
        PROVE  /\ phase[d] = "answered"
               /\ \/ c.id \in evicted'
                  \/ phase'[x] = "answered" /\ work'[x] = "none" /\ child'[x] = "none"
    <3>1. phase[d] = "answered"
      BY <2>4, <2>5
    <3>2. c.id \in evicted \/ \E j \in DOMAIN recent : call[recent[j]].id = c.id
      BY <2>5, <3>1 DEF Found
    <3> QED
      BY <1>1, <2>1, <3>1, <3>2 DEF Range
  <2>6. ASSUME NEW d \in Packets, NEW e \in Packets, d < e, phase'[e] # "new"
        PROVE  /\ phase'[d] # "new"
               /\ call'[d].id = call'[e].id /\ e \notin overlap' =>
                    /\ phase'[d] = "answered"
                    /\ \/ call'[e].id \in evicted'
                       \/ phase'[e] = "answered" /\ work'[e] = "none" /\ child'[e] = "none"
    <3>1. d # e
      BY <2>6 DEF Packets
    <3>2. CASE e = x
      BY <2>1, <2>2, <2>3, <2>5, <2>6, <3>1, <3>2
    <3>3. CASE e # x /\ d = x
      BY <2>1, <2>2, <2>6, <3>3 DEF GivenAgain
    <3>4. CASE e # x /\ d # x
      <4>1. phase[e] # "new" /\ d < e
        BY <2>2, <2>6, <3>4
      <4> QED
        BY <1>1, <2>2, <3>4, <4>1 DEF GivenAgain
    <3> QED
      BY <3>2, <3>3, <3>4
  <2> QED
    BY <2>6 DEF GivenAgain
<1>4. CASE Forget
  BY <1>4 DEF Forget, GivenAgain
<1>5. CASE Cancel
  <2>1. UNCHANGED <<call, phase, work, evicted, overlap>>
    BY <1>5 DEF Cancel
  <2>2. \A e \in Packets : child[e] = "none" => child'[e] = "none"
    BY <1>5 DEF Cancel
  <2> QED
    BY <2>1, <2>2 DEF GivenAgain
<1>6. ASSUME NEW x \in Packets, Steps(x), phase[x] = "new" PROVE \E c \in Calls : Receive(x, c)
  <2>1. work[x] = "none" /\ child[x] = "none"
    BY <1>6 DEF InTurn, InTurnAt
  <2> QED
    BY <1>6, <2>1 DEF Steps, Answer, Saved, Refused, ReadBegins, ReadDone, Spawn, ChildCloses,
                      CommandTimer, KillTimer, ToolTimeout
<1> QED
  BY <1>2, <1>3, <1>4, <1>5, <1>6 DEF CallsNext

(* The variables keep their types.                                         *)
LEMMA TypeKept ==
  ASSUME CallsTypeOK, InTurn, Signalled, Found, CallsNext
  PROVE  CallsTypeOK'
<1>1. recent' \in Seq(Packets) /\ evicted' \subseteq Ids
  BY FoundKept
<1> USE DEF CallsTypeOK
<1>2. ASSUME NEW e \in Packets, NEW c \in Calls, NEW a \in Answers, Finish(e, c, a)
      PROVE  /\ answer' \in [Packets -> Answers \cup {"none"}]
             /\ phase' \in [Packets -> {"new", "asking", "saving", "running", "answered"}]
  BY <1>2 DEF Finish
<1>3. ASSUME NEW e \in Packets, NEW c \in Calls, Begin(e, c)
      PROVE  /\ answer' \in [Packets -> Answers \cup {"none"}]
             /\ phase' \in [Packets -> {"new", "asking", "saving", "running", "answered"}]
             /\ work' \in [Packets -> {"none", "resolving", "working"}]
  BY <1>2, <1>3 DEF Begin, Answers
<1>4. ASSUME NEW e \in Packets, NEW c \in Calls, Receive(e, c) PROVE CallsTypeOK'
  <2>1. /\ call' = [call EXCEPT ![e] = c] /\ overlap' \subseteq Packets
        /\ UNCHANGED <<grants, stopped, cut, child, deaf, said, forgotten>>
    BY <1>4 DEF Receive
  <2>2. CASE \E d \in Range(recent) : call[d].id = c.id
    <3>1. PICK d \in Range(recent) :
            /\ answer' = [answer EXCEPT ![e] = answer[d]]
            /\ phase' = [phase EXCEPT ![e] = "answered"] /\ work' = work
      BY <1>4, <2>2 DEF Receive
    <3>2. d \in Packets
      BY DEF Range
    <3> QED
      BY <1>1, <2>1, <3>1, <3>2
  <2>3. CASE ~\E d \in Range(recent) : call[d].id = c.id
    <3>1. \/ Finish(e, c, "unknown") /\ UNCHANGED work
          \/ Begin(e, c)
          \/ phase' = [phase EXCEPT ![e] = "asking"] /\ UNCHANGED <<work, answer>>
      BY <1>4, <2>3 DEF Receive
    <3>2. /\ answer' \in [Packets -> Answers \cup {"none"}]
          /\ phase' \in [Packets -> {"new", "asking", "saving", "running", "answered"}]
          /\ work' \in [Packets -> {"none", "resolving", "working"}]
      BY <1>2, <1>3, <3>1 DEF Answers
    <3> QED
      BY <1>1, <2>1, <3>2, ZenonT(40)
  <2> QED
    BY <2>2, <2>3
<1>5. ASSUME NEW e \in Packets, NEW outcome \in {"deny", "once", "always"}, Answer(e, outcome)
      PROVE  CallsTypeOK'
  <2>1. /\ UNCHANGED <<call, stopped, cut, child, deaf, forgotten, overlap>>
        /\ said' = [said EXCEPT ![e] = outcome] /\ phase[e] = "asking"
        /\ grants' \subseteq grants \cup {call[e].shows}
    BY <1>5 DEF Answer
  <2>2. call[e] \in Calls /\ call[e].tool = "command"
    BY <2>1 DEF InTurn, InTurnAt
  <2>3. call[e].shows \in Commands
    BY <2>2 DEF Calls
  <2>4. \/ Finish(e, call[e], "denied") /\ UNCHANGED work
        \/ Begin(e, call[e])
        \/ phase' = [phase EXCEPT ![e] = "saving"] /\ UNCHANGED <<work, answer>>
    BY <1>5 DEF Answer
  <2>5. /\ answer' \in [Packets -> Answers \cup {"none"}]
        /\ phase' \in [Packets -> {"new", "asking", "saving", "running", "answered"}]
        /\ work' \in [Packets -> {"none", "resolving", "working"}]
    BY <1>2, <1>3, <2>2, <2>4 DEF Answers
  <2> QED
    BY <1>1, <2>1, <2>3, <2>5
<1>6. ASSUME NEW e \in Packets, Saved(e) PROVE CallsTypeOK'
  <2>1. call[e] \in Calls
    BY <1>6 DEF Saved, InTurn, InTurnAt
  <2> QED
    BY <1>1, <1>3, <1>6, <2>1 DEF Saved
<1>7. ASSUME NEW e \in Packets,
             Refused(e) \/ (\E a \in {"ok", "failed"} : ReadDone(e, a)) \/ ChildCloses(e)
      PROVE  CallsTypeOK'
  <2>1. /\ UNCHANGED <<call, grants, stopped, deaf, said, forgotten, overlap>>
        /\ child' \in {child, [child EXCEPT ![e] = "gone"]}
    BY <1>7, Ends
  <2>2. PICK a \in Answers : Settle(e, a) /\ work[e] # "none"
    BY <1>7, Ends
  <2>3. work' = [work EXCEPT ![e] = "none"] /\ cut' = cut \cup {e} /\ call[e] \in Calls
    BY <2>2, Settling DEF Settle
  <2>4. /\ answer' \in [Packets -> Answers \cup {"none"}]
        /\ phase' \in [Packets -> {"new", "asking", "saving", "running", "answered"}]
    BY <1>2, <2>2, <2>3 DEF Settle
  <2>5. child' \in [Packets -> {"none", "alive", "terminating", "killed", "gone"}]
    BY <2>1
  <2>6. work' \in [Packets -> {"none", "resolving", "working"}] /\ cut' \subseteq Packets
    BY <2>3
  <2> QED
    BY <1>1, <2>1, <2>4, <2>5, <2>6
<1>8. ASSUME NEW e \in Packets, ReadBegins(e) \/ Spawn(e) \/ CommandTimer(e) \/ KillTimer(e)
      PROVE  CallsTypeOK'
  <2>1. /\ UNCHANGED <<call, phase, answer, recent, grants, stopped, cut, said, forgotten, evicted, overlap>>
        /\ work' \in {work, [work EXCEPT ![e] = "working"]}
        /\ child' \in {child} \cup {[child EXCEPT ![e] = p] : p \in {"alive", "terminating", "killed"}}
        /\ deaf' \in {deaf, deaf \cup {e}}
    BY <1>8 DEF ReadBegins, Spawn, CommandTimer, KillTimer
  <2> QED
    BY <2>1
<1>9. ASSUME NEW e \in Packets, ToolTimeout(e) PROVE CallsTypeOK'
  <2>1. /\ UNCHANGED <<call, work, grants, stopped, deaf, said, forgotten, overlap>>
        /\ cut' = cut \cup {e} /\ child' \in {child, [child EXCEPT ![e] = "killed"]}
        /\ Finish(e, call[e], "timeout") /\ phase[e] = "running"
    BY <1>9 DEF ToolTimeout
  <2>2. call[e] \in Calls
    BY <2>1 DEF InTurn, InTurnAt
  <2>3. /\ answer' \in [Packets -> Answers \cup {"none"}]
        /\ phase' \in [Packets -> {"new", "asking", "saving", "running", "answered"}]
    BY <1>2, <2>1, <2>2 DEF Answers
  <2> QED
    BY <1>1, <2>1, <2>3
<1>10. CASE Forget
  BY <1>10 DEF Forget
<1>11. CASE Cancel
  <2>1. /\ UNCHANGED <<call, phase, work, answer, recent, grants, deaf, said, forgotten, evicted, overlap>>
        /\ stopped' \subseteq Packets /\ cut' \subseteq Packets
        /\ child' \in [Packets -> {"none", "alive", "terminating", "killed", "gone"}]
    BY <1>11 DEF Cancel
  <2> QED
    BY <2>1
<1> QED
  BY <1>4, <1>5, <1>6, <1>7, <1>8, <1>9, <1>10, <1>11 DEF CallsNext, Steps

-----------------------------------------------------------------------------
(* The invariant is inductive.                                             *)
LEMMA CallsStepInv == CallsInv /\ [CallsNext]_toolVars => CallsInv'
<1> SUFFICES ASSUME CallsInv, [CallsNext]_toolVars PROVE CallsInv'
  OBVIOUS
<1>1. CASE CallsNext
  BY <1>1, TypeKept, InTurnKept, BackedKept, SignalledKept, FoundKept, GivenAgainKept DEF CallsInv
<1>2. CASE UNCHANGED toolVars
  BY <1>2 DEF toolVars, CallsInv, CallsTypeOK, InTurn, InTurnAt, Backed, Signalled, SignalledAt, Found,
              GivenAgain
<1> QED
  BY <1>1, <1>2

-----------------------------------------------------------------------------
(* ClipboardLoop.                                                          *)

LoopTypes ==
  /\ sent \in Nat /\ pending \in 0 .. sent /\ mine \in 0 .. sent
  /\ awaiting \in {"nothing", "request", "tool-result", "primer"}
  /\ taken \in Seq({taken[i] : i \in DOMAIN taken})
  /\ callIds \cup running \cup cleared \subseteq DOMAIN taken
  /\ \A w \in writing : w.for \in {"request", "tool-result", "primer"}

(* The provider knows of the request the controller waits for, so an       *)
(* answer closes it; and a tool that works works for a call that can still *)
(* be named or whose request is gone.  A result on its way goes by its     *)
(* call's name.                                                            *)
Named(w) ==
  /\ w.number \in DOMAIN taken
  /\ \/ w.blocks = <<Loop!Result(taken[w.number])>>
     \/ w.blocks = <<Loop!Result(Loop!Ours)>> /\ w.number \in cleared

LoopInv ==
  /\ LoopTypes
  /\ pending # 0 => mine = pending
  /\ LoopNeverStalls
  /\ running \subseteq callIds \cup cleared
  /\ \A w \in writing : w.for = "tool-result" => Named(w)

LEMMA LoopInit == Init => LoopInv
<1> SUFFICES ASSUME Loop!LoopInit PROVE LoopInv
  BY DEF Init
<1>1. taken = <<>> /\ DOMAIN taken = {} /\ taken \in Seq({taken[i] : i \in DOMAIN taken})
  BY EmptySeq DEF Loop!LoopInit
<1> QED
  BY <1>1 DEF Loop!LoopInit, LoopInv, LoopTypes, LoopNeverStalls, Loop!LoopNeverStalls

(* A call more.                                                            *)
LEMMA OneCallMore ==
  ASSUME NEW s, s \in Seq({s[i] : i \in DOMAIN s}), NEW c, NEW t, t = Append(s, c)
  PROVE  /\ t \in Seq({t[i] : i \in DOMAIN t})
         /\ DOMAIN s \subseteq DOMAIN t /\ Len(s) + 1 \in DOMAIN t
<1> DEFINE A == {s[i] : i \in DOMAIN s}
           B == {t[i] : i \in DOMAIN t}
<1>1. /\ s \in Seq(A \cup {c}) /\ Len(s) \in Nat
      /\ DOMAIN s = 1 .. Len(s)
  <2>1. s \in Seq(A)
    OBVIOUS
  <2> HIDE DEF A
  <2> QED
    BY <2>1
<1> HIDE DEF A
<1>2. t \in Seq(A \cup {c}) /\ Len(t) = Len(s) + 1
  BY <1>1, AppendProperties
<1>3. DOMAIN t = 1 .. Len(t) /\ Len(t) \in Nat
  BY <1>2
<1>4. \A i \in 1 .. Len(t) : t[i] \in B
  BY <1>3
<1> HIDE DEF B
<1>5. t \in Seq(B)
  <2>1. t = [i \in 1 .. Len(t) |-> t[i]]
    <3>1. t \in [1 .. Len(t) -> A \cup {c}]
      BY <1>2, LenProperties
    <3> QED
      BY <3>1
  <2>2. [i \in 1 .. Len(t) |-> t[i]] \in Seq(B)
    BY <1>3, <1>4
  <2> QED
    BY <2>1, <2>2
<1> QED
  BY <1>1, <1>2, <1>3, <1>5 DEF B

(* Steps that take no call.                                                *)
LEMMA TakenStays ==
  ASSUME LoopTypes, UNCHANGED taken
  PROVE  taken' \in Seq({taken[i] : i \in DOMAIN taken})'
BY DEF LoopTypes

LEMMA LoopNextInv == LoopInv /\ Loop!LoopNext => LoopInv'
<1> SUFFICES ASSUME LoopInv, Loop!LoopNext PROVE LoopInv'
  OBVIOUS
<1> DEFINE Owed(W) == \E w \in W : w.for # "primer"
<1>1. /\ sent \in Nat /\ pending \in 0 .. sent /\ mine \in 0 .. sent
      /\ awaiting \in {"nothing", "request", "tool-result", "primer"}
      /\ callIds \cup running \cup cleared \subseteq DOMAIN taken
      /\ pending # 0 => mine = pending
      /\ pending # 0 => running # {} \/ awaiting # "nothing" \/ Owed(writing)
      /\ running \subseteq callIds \cup cleared
      /\ taken \in Seq({taken[i] : i \in DOMAIN taken})
      /\ \A w \in writing : w.for \in {"request", "tool-result", "primer"}
  BY DEF LoopInv, LoopTypes, LoopNeverStalls, Loop!LoopNeverStalls
<1>2. UNCHANGED taken => taken' \in Seq({taken[i] : i \in DOMAIN taken})'
  BY TakenStays DEF LoopInv
<1>n. \A w \in writing : w.for = "tool-result" => Named(w)
  BY DEF LoopInv
<1>k. UNCHANGED taken /\ cleared \subseteq cleared' => \A w : Named(w) => Named(w)'
  BY DEF Named
<1>3. CASE Loop!Send
  <2> DEFINE new == Loop!Writing("request", sent + 1, IF primed THEN <<>> ELSE Loop!Primer)
  <2>1. /\ sent' = sent + 1 /\ mine' = sent + 1 /\ callIds' = {} /\ cleared' = DOMAIN taken
        /\ pending' = sent + 1 /\ UNCHANGED <<taken, running, awaiting>>
        /\ writing' = writing \cup {new}
    BY <1>3 DEF Loop!Send, Loop!Writes
  <2>2. new.for = "request"
    BY DEF Loop!Writing
  <2> HIDE DEF new
  <2>3. \A w \in writing' : w.for = "tool-result" => Named(w)'
    BY <1>1, <1>n, <1>k, <2>1, <2>2
  <2> QED
    BY <1>1, <1>2, <2>1, <2>2, <2>3 DEF LoopInv, LoopTypes, LoopNeverStalls, Loop!LoopNeverStalls
<1>4. CASE Loop!CopyPrimer
  <2> DEFINE new == Loop!Writing("primer", 0, Loop!Primer)
  <2>1. /\ UNCHANGED <<sent, pending, mine, awaiting, taken, callIds, running, cleared>>
        /\ writing' = writing \cup {new}
    BY <1>4 DEF Loop!CopyPrimer, Loop!Writes
  <2>2. new.for = "primer"
    BY DEF Loop!Writing
  <2> HIDE DEF new
  <2>3. \A w \in writing' : w.for = "tool-result" => Named(w)'
    BY <1>n, <1>k, <2>1, <2>2
  <2> QED
    BY <1>1, <1>2, <2>1, <2>2, <2>3 DEF LoopInv, LoopTypes, LoopNeverStalls, Loop!LoopNeverStalls
<1>5. CASE Loop!Cancel \/ Loop!TimesOut \/ Loop!NewSession
  <2>1. /\ UNCHANGED <<sent, taken, running, writing>> /\ pending' = 0 /\ mine' \in {0, mine}
        /\ callIds' \in {{}, callIds} /\ awaiting' \in {"nothing", awaiting}
        /\ \/ cleared' = DOMAIN taken
           \/ cleared' = cleared /\ callIds' = callIds
    BY <1>5 DEF Loop!Cancel, Loop!TimesOut, Loop!NewSession
  <2>2. \A w \in writing' : w.for = "tool-result" => Named(w)'
    BY <1>1, <1>n, <1>k, <2>1
  <2> QED
    BY <1>1, <1>2, <2>1, <2>2 DEF LoopInv, LoopTypes, LoopNeverStalls, Loop!LoopNeverStalls
<1>6. ASSUME NEW n \in Loop!CallNumbers, Loop!ToolDone(n) PROVE LoopInv'
  <2> DEFINE blocks == <<Loop!Result(IF n \in callIds THEN taken[n] ELSE Loop!Ours)>>
             new == Loop!Writing("tool-result", n, blocks)
  <2>1. /\ UNCHANGED <<sent, pending, mine, awaiting, taken, callIds, cleared>>
        /\ n \in running /\ running' = running \ {n}
        /\ writing' = writing \cup {new}
    BY <1>6 DEF Loop!ToolDone, Loop!Writes
  <2>2. new.for = "tool-result" /\ new.number = n /\ new.blocks = blocks
    BY DEF Loop!Writing
  <2> HIDE DEF new
  <2>3. Named(new)
    BY <1>1, <2>1, <2>2 DEF Named
  <2>4. \A w \in writing' : w.for = "tool-result" => Named(w)'
    BY <1>n, <1>k, <2>1, <2>3
  <2> HIDE DEF blocks
  <2> QED
    BY <1>1, <1>2, <2>1, <2>2, <2>4 DEF LoopInv, LoopTypes, LoopNeverStalls, Loop!LoopNeverStalls
<1>7. ASSUME NEW v \in writing, Loop!Written(v) \/ Loop!WriteFails(v) PROVE LoopInv'
  <2>1. /\ UNCHANGED <<sent, mine, taken, callIds, running, cleared>>
        /\ writing' = writing \ {v}
        /\ \/ awaiting' = v.for /\ UNCHANGED pending
           \/ UNCHANGED awaiting /\ pending' = IF v.for = "primer" THEN pending ELSE 0
    BY <1>7 DEF Loop!Written, Loop!WriteFails
  <2>2. \A w \in writing' : w.for = "tool-result" => Named(w)'
    BY <1>n, <1>k, <2>1
  <2>3. pending' # 0 => running' # {} \/ awaiting' # "nothing" \/ Owed(writing')
    BY <1>1, <2>1
  <2> HIDE DEF Owed
  <2>4. LoopTypes'
    BY <1>1, <1>2, <2>1 DEF LoopTypes
  <2> QED
    BY <1>1, <2>1, <2>2, <2>3, <2>4 DEF LoopInv, LoopNeverStalls, Loop!LoopNeverStalls, Owed
<1>8. CASE Loop!PasteReply /\ Loop!CallsIn(clip) = <<>>
  <2>1. /\ UNCHANGED <<sent, mine, cleared, taken, callIds, running, writing>>
        /\ awaiting' = "nothing" /\ pending' = (IF mine = pending THEN 0 ELSE pending)
    BY <1>8 DEF Loop!PasteReply, Loop!Answered
  <2>2. \A w \in writing' : w.for = "tool-result" => Named(w)'
    BY <1>n, <1>k, <2>1
  <2> QED
    BY <1>1, <1>2, <2>1, <2>2 DEF LoopInv, LoopTypes, LoopNeverStalls, Loop!LoopNeverStalls
<1>9. CASE Loop!PasteReply /\ Loop!CallsIn(clip) # <<>>
  <2> DEFINE n == Len(taken) + 1
             first == Head(Loop!CallsIn(clip)).id
  <2>a. PICK new : new = Loop!Writing("tool-result", n, <<Loop!Result(first)>>)
    OBVIOUS
  <2>1. /\ UNCHANGED <<sent, mine, cleared, pending>>
        /\ taken' = Append(taken, first) /\ callIds' = callIds \cup {n}
        /\ awaiting' = "nothing"
        /\ \/ pending # 0 /\ running' = running \cup {n} /\ UNCHANGED writing
           \/ pending = 0 /\ writing' = writing \cup {new} /\ UNCHANGED running
    BY <1>9, <2>a DEF Loop!PasteReply, Loop!FirstCall, Loop!Writes
  <2>2. new.for = "tool-result" /\ new.number = n /\ new.blocks = <<Loop!Result(first)>>
    BY <2>a DEF Loop!Writing
  <2> HIDE DEF first
  <2>3. /\ taken' \in Seq({taken'[i] : i \in DOMAIN taken'})
        /\ DOMAIN taken \subseteq DOMAIN taken' /\ n \in DOMAIN taken'
    BY <1>1, <2>1, OneCallMore
  <2>4. taken'[n] = first /\ \A k \in DOMAIN taken : taken'[k] = taken[k]
    BY <1>1, <2>1, AppendProperties
  <2>5. \A w : Named(w) => Named(w)'
    BY <2>1, <2>3, <2>4 DEF Named
  <2>6. Named(new)'
    BY <2>2, <2>3, <2>4 DEF Named
  <2>7. \A w \in writing' : w.for = "tool-result" => Named(w)'
    BY <1>n, <2>1, <2>5, <2>6
  <2> QED
    BY <1>1, <2>1, <2>2, <2>3, <2>7 DEF LoopInv, LoopTypes, LoopNeverStalls, Loop!LoopNeverStalls
<1>10. CASE Loop!GivesToChat \/ Loop!CopiesElse \/ \E blocks \in Loop!Replies : Loop!CopiesReply(blocks)
  <2>1. UNCHANGED <<sent, pending, mine, awaiting, taken, callIds, running, writing, cleared>>
    BY <1>10 DEF Loop!GivesToChat, Loop!CopiesElse, Loop!CopiesReply
  <2>2. \A w \in writing' : w.for = "tool-result" => Named(w)'
    BY <1>n, <1>k, <2>1
  <2> QED
    BY <1>1, <1>2, <2>1, <2>2 DEF LoopInv, LoopTypes, LoopNeverStalls, Loop!LoopNeverStalls
<1> QED
  BY <1>3, <1>4, <1>5, <1>6, <1>7, <1>8, <1>9, <1>10 DEF Loop!LoopNext

LEMMA LoopStays == LoopInv /\ UNCHANGED loopVars => LoopInv'
<1> SUFFICES ASSUME LoopInv, UNCHANGED loopVars PROVE LoopInv'
  OBVIOUS
<1>1. UNCHANGED <<sent, pending, mine, awaiting, taken, callIds, running, writing, cleared>>
  BY DEF loopVars
<1>2. LoopTypes'
  BY <1>1 DEF LoopInv, LoopTypes
<1>3. LoopNeverStalls'
  BY <1>1 DEF LoopInv, LoopNeverStalls, Loop!LoopNeverStalls
<1>4. \A w : Named(w)' = Named(w)
  BY <1>1 DEF Named
<1> QED
  BY <1>1, <1>2, <1>3, <1>4 DEF LoopInv

(* What a result that arrives is named by.                                 *)
LEMMA LoopNextNames ==
  ASSUME LoopInv, Loop!LoopNext, NEW w \in writing \ writing', w.for = "tool-result"
  PROVE  \/ clip' = clip
         \/ clip'.blocks = <<Loop!Result(taken[w.number])>>
         \/ clip'.blocks = <<Loop!Result(Loop!Ours)>> /\ w.number \in cleared
<1>1. Loop!Send \/ Loop!CopyPrimer \/ Loop!Cancel \/ Loop!TimesOut \/ Loop!NewSession
      \/ (\E n \in Loop!CallNumbers : Loop!ToolDone(n))
      => writing \subseteq writing'
  BY DEF Loop!Send, Loop!CopyPrimer, Loop!Cancel, Loop!TimesOut, Loop!NewSession, Loop!ToolDone,
         Loop!Writes
<1>2. Loop!PasteReply => writing \subseteq writing'
  BY DEF Loop!PasteReply, Loop!Answered, Loop!FirstCall, Loop!Writes
<1>3. Loop!GivesToChat \/ Loop!CopiesElse \/ (\E blocks \in Loop!Replies : Loop!CopiesReply(blocks))
      => UNCHANGED writing
  BY DEF Loop!GivesToChat, Loop!CopiesElse, Loop!CopiesReply
<1>4. ASSUME NEW v \in writing, Loop!Written(v) \/ Loop!WriteFails(v)
      PROVE  \/ clip' = clip
             \/ clip'.blocks = <<Loop!Result(taken[w.number])>>
             \/ clip'.blocks = <<Loop!Result(Loop!Ours)>> /\ w.number \in cleared
  <2>1. v = w /\ (clip' = clip \/ clip'.blocks = w.blocks)
    BY <1>4 DEF Loop!Written, Loop!WriteFails, Loop!Text
  <2>2. Named(w)
    BY DEF LoopInv
  <2> QED
    BY <2>1, <2>2 DEF Named
<1> QED
  BY <1>1, <1>2, <1>3, <1>4 DEF Loop!LoopNext

-----------------------------------------------------------------------------
(* ContextLedger.                                                          *)

(* A provider that sent the rules sent them in this session, so one that   *)
(* is new to the session sends them with its next message.                 *)
LedgerInv ==
  /\ file \in FileTexts /\ ledger.coverage \in {"none", "full", "preview"}
  /\ session \in 1 .. MaxSessions /\ known \in 0 .. session
  /\ primerSent => known = session
  /\ ledger.coverage = "none" => ledger.content = <<>>
  /\ ledger.coverage # "none" =>
       ledger.content \in {Ledger!Trimmed(t) : t \in FileTexts}
  /\ ChatIsInformed

LEMMA LedgerBounds ==
  /\ MaxFile \in Nat /\ MaxSessions \in Nat /\ MaxSessions >= 1
  /\ \A t \in FileTexts : t \in Seq(Range(t))
BY EditorAssumption

(* The head of a text is a text.                                           *)
LEMMA TrimmedIsText ==
  ASSUME NEW A, NEW t \in Seq(A)
  PROVE  Ledger!Trimmed(t) \in Seq(A) /\ Len(Ledger!Trimmed(t)) <= MaxFile
<1>1. Len(t) \in Nat /\ MaxFile \in Nat
  BY LedgerBounds
<1> DEFINE n == Ledger!Min({Len(t), MaxFile})
<1>2. n \in {Len(t), MaxFile} /\ n <= Len(t) /\ n <= MaxFile
  BY <1>1 DEF Ledger!Min
<1> HIDE DEF n
<1>3. n \in 0 .. Len(t)
  BY <1>1, <1>2
<1>4. SubSeq(t, 1, n) \in Seq(A) /\ Len(SubSeq(t, 1, n)) = n
  BY <1>1, <1>3
<1> QED
  BY <1>2, <1>4 DEF Ledger!Trimmed, n

(* The ledger's edits are those of LineDiff, operator by operator.          *)
LEMMA SameParts ==
  /\ \A before, after : Ledger!Operations(before, after) = Edits!Operations(before, after)
  /\ \A S : Ledger!Cardinality(S) = Edits!Cardinality(S)
  /\ \A S, i : Ledger!Nth(S, i) = Edits!Nth(S, i)
  /\ \A ops : Ledger!Firsts(ops) = Edits!Firsts(ops)
  /\ \A ops, first : Ledger!From(ops, first) = Edits!From(ops, first)
  /\ \A ops, first : Ledger!To(ops, first) = Edits!To(ops, first)
  /\ \A ops, from, to : Ledger!Hunk(ops, from, to) = Edits!Hunk(ops, from, to)
<1>1. ASSUME NEW before, NEW after
      PROVE  Ledger!Operations(before, after) = Edits!Operations(before, after)
  <2>1. Ledger!Scripts(before, after) = Edits!Scripts(before, after)
    BY DEF Ledger!Scripts, Ledger!Table, Ledger!Cells, Ledger!Max, Ledger!Same, Ledger!Added,
           Ledger!Removed, Edits!Scripts, Edits!Table, Edits!Cells, Edits!Max, Edits!Same,
           Edits!Added, Edits!Removed
  <2> QED
    BY <2>1 DEF Ledger!Operations, Edits!Operations
<1>2. ASSUME NEW S PROVE Ledger!Cardinality(S) = Edits!Cardinality(S)
  BY DEF Ledger!Cardinality, Edits!Cardinality
<1>3. ASSUME NEW S, NEW i PROVE Ledger!Nth(S, i) = Edits!Nth(S, i)
  BY DEF Ledger!Nth, Edits!Nth, Ledger!Cardinality, Edits!Cardinality
<1>4. ASSUME NEW ops PROVE Ledger!Firsts(ops) = Edits!Firsts(ops)
  BY DEF Ledger!Firsts, Edits!Firsts, Ledger!Changed, Edits!Changed
<1>5. ASSUME NEW ops, NEW first PROVE Ledger!From(ops, first) = Edits!From(ops, first)
  BY DEF Ledger!From, Edits!From, Ledger!Max, Edits!Max
<1>6. ASSUME NEW ops, NEW first PROVE Ledger!To(ops, first) = Edits!To(ops, first)
  <2>1. Ledger!Final(ops, first) = Edits!Final(ops, first)
    BY DEF Ledger!Final, Edits!Final, Ledger!Max, Edits!Max, Ledger!Changed, Edits!Changed,
           Ledger!Firsts, Edits!Firsts
  <2>2. \A S : Ledger!Min(S) = Edits!Min(S)
    BY DEF Ledger!Min, Edits!Min
  <2> QED
    BY <2>1, <2>2 DEF Ledger!To, Edits!To
<1>7. ASSUME NEW ops, NEW from, NEW to PROVE Ledger!Hunk(ops, from, to) = Edits!Hunk(ops, from, to)
  BY DEF Ledger!Hunk, Edits!Hunk, Ledger!CountNot, Edits!CountNot, Ledger!Cardinality,
         Edits!Cardinality
<1> QED
  BY <1>1, <1>2, <1>3, <1>4, <1>5, <1>6, <1>7

LEMMA SameEdits ==
  ASSUME NEW before, NEW after
  PROVE  Ledger!diffLines(before, after) = Edits!diffLines(before, after)
<1> SUFFICES ASSUME NEW ops, ops = Ledger!Operations(before, after)
             PROVE  Ledger!diffLines(before, after) = Edits!diffLines(before, after)
  OBVIOUS
<1>1. ops = Edits!Operations(before, after)
  BY SameParts
<1>2. Ledger!Cardinality(Ledger!Firsts(ops)) = Edits!Cardinality(Edits!Firsts(ops))
  BY SameParts
<1>3. \A i : LET f == Ledger!Nth(Ledger!Firsts(ops), i)
                 g == Edits!Nth(Edits!Firsts(ops), i)
             IN  Ledger!Hunk(ops, Ledger!From(ops, f), Ledger!To(ops, f))
                   = Edits!Hunk(ops, Edits!From(ops, g), Edits!To(ops, g))
  BY SameParts
<1> QED
  BY <1>1, <1>2, <1>3 DEF Ledger!diffLines, Edits!diffLines

LEMMA SameTexts ==
  ASSUME NEW text, NEW hunks
  PROVE  Ledger!Apply(text, hunks) = Edits!Apply(text, hunks)
BY DEF Ledger!Apply, Ledger!Quotes, Ledger!Replaced, Ledger!LinesNot, Ledger!Nth, Ledger!Min,
       Ledger!Range, Ledger!Cardinality, Edits!Apply, Edits!Quotes, Edits!Replaced,
       Edits!LinesNot, Edits!Nth, Edits!Min, Edits!Range, Edits!Cardinality

(* An edit yields the text it was made for, whatever a file may contain    *)
(* (diffLines, which a chat is sent in place of the file).                 *)
THEOREM EditsAreExact == Ledger!EditsApply
<1> SUFFICES ASSUME NEW s \in FileTexts, NEW t \in FileTexts
             PROVE  LET before == Ledger!Trimmed(s)
                        after == Ledger!Trimmed(t)
                    IN  Ledger!Apply(before, Ledger!diffLines(before, after)) = after
  BY DEF Ledger!EditsApply
<1> DEFINE A == Range(s) \cup Range(t)
           before == Ledger!Trimmed(s)
           after == Ledger!Trimmed(t)
<1>1. before \in Seq(A) /\ after \in Seq(A)
  <2>1. s \in Seq(A) /\ t \in Seq(A)
    BY LedgerBounds
  <2> HIDE DEF A
  <2> QED
    BY <2>1, TrimmedIsText
<1> HIDE DEF before, after, A
<1>2. Edits!Apply(before, Edits!diffLines(before, after)) = after
  BY <1>1, EditorAssumption, Edits!EditIsExact
<1> QED
  BY <1>2, SameEdits, SameTexts DEF before, after

LEMMA LedgerInit == Init => LedgerInv
<1> SUFFICES ASSUME Ledger!LedgerInit PROVE LedgerInv
  BY DEF Init
<1> QED
  BY LedgerBounds DEF Ledger!LedgerInit, Ledger!Nothing, LedgerInv, ChatIsInformed, Ledger!ChatIsInformed

(* What a chat that reads every message holds after one is planned.        *)
LEMMA PlansAreRead ==
  ASSUME LedgerInv,
         NEW content \in {Ledger!Trimmed(t) : t \in FileTexts},
         NEW p \in Ledger!Plans(content)
  PROVE  /\ p.kept.coverage \in {"none", "full", "preview"}
         /\ p.kept.coverage = "none" => p.kept.content = <<>>
         /\ p.kept.coverage # "none" =>
              p.kept.content \in {Ledger!Trimmed(t) : t \in FileTexts}
         /\ faithful /\ p.kept.coverage = "full" /\ Ledger!Read(p, content) =>
              copy' = p.kept.content
<1> DEFINE Versions == {Ledger!Trimmed(t) : t \in FileTexts}
<1>1. /\ Ledger!Remembered.coverage # "none" =>
           known = session /\ Ledger!Remembered = ledger /\ ledger.content \in Versions
      /\ faithful /\ Ledger!Remembered.coverage = "full" => copy = ledger.content
      /\ Ledger!Remembered.coverage \in {"none", "full", "preview"}
  BY DEF Ledger!Remembered, Ledger!Nothing, LedgerInv, ChatIsInformed, Ledger!ChatIsInformed
<1>2. CASE p = Ledger!Unchanged /\ Ledger!Remembered.coverage # "none"
  <2>1. p.says = "unchanged" /\ p.kept = ledger
    BY <1>1, <1>2 DEF Ledger!Unchanged
  <2> QED
    BY <1>1, <1>2, <2>1 DEF Ledger!Read
<1>3. CASE p = Ledger!AsEdit(content) /\ Ledger!Remembered.coverage = "full"
  <2> DEFINE hunks == Ledger!diffLines(ledger.content, content)
  <2>1. /\ p.says = "edit" /\ p.hunks = hunks /\ p.kept.content = content
        /\ p.kept.coverage = "full"
    BY <1>1, <1>3 DEF Ledger!AsEdit
  <2>2. Ledger!Apply(ledger.content, hunks) = content
    BY <1>1, <1>3, EditsAreExact DEF Ledger!EditsApply
  <2>3. faithful /\ Ledger!Read(p, content) => copy' = Ledger!Apply(copy, hunks)
    BY <2>1 DEF Ledger!Read
  <2> QED
    BY <1>1, <1>3, <2>1, <2>2, <2>3
<1>4. CASE p = Ledger!AsNew(content)
  <2>1. CASE Len(content) > PullThreshold
    BY <1>4, <2>1 DEF Ledger!AsNew
  <2>2. CASE ~ (Len(content) > PullThreshold)
    <3>1. p.says = "whole" /\ p.kept.content = content /\ p.kept.coverage = "full"
      BY <1>4, <2>2 DEF Ledger!AsNew
    <3> QED
      BY <3>1 DEF Ledger!Read
  <2> QED
    BY <2>1, <2>2
<1>5. \/ p = Ledger!Unchanged /\ Ledger!Remembered.coverage # "none"
      \/ p = Ledger!AsEdit(content) /\ Ledger!Remembered.coverage = "full"
      \/ p = Ledger!AsNew(content)
  BY DEF Ledger!Plans
<1> QED
  BY <1>2, <1>3, <1>4, <1>5

(* A message goes out: the rules with the first of them.                   *)
LEMMA RulesAreSent ==
  ASSUME LedgerInv, NEW d \in BOOLEAN, Ledger!Send(d)
  PROVE  /\ file' \in FileTexts /\ session' \in 1 .. MaxSessions /\ known' \in 0 .. session'
         /\ primerSent' => known' = session'
         /\ faithful' => faithful /\ d /\ told'
<1>1. /\ known' = session /\ UNCHANGED <<file, session>>
      /\ file \in FileTexts /\ session \in 1 .. MaxSessions
  BY DEF Ledger!Send, LedgerInv
<1>2. (faithful' <=> faithful /\ d) /\ (told' <=> told \/ (d /\ ~primerSent))
  BY Zenon DEF Ledger!Send
<1>3. faithful /\ primerSent => told
  BY DEF LedgerInv, ChatIsInformed, Ledger!ChatIsInformed
<1> QED
  BY <1>1, <1>2, <1>3

LEMMA LedgerNextInv == LedgerInv /\ Ledger!LedgerNext => LedgerInv'
<1> SUFFICES ASSUME LedgerInv, Ledger!LedgerNext PROVE LedgerInv'
  OBVIOUS
<1> DEFINE Versions == {Ledger!Trimmed(t) : t \in FileTexts}
<1>1. /\ file \in FileTexts /\ session \in 1 .. MaxSessions /\ known \in 0 .. session
      /\ primerSent => known = session
      /\ ledger.coverage # "none" => ledger.content \in Versions
      /\ ledger.coverage = "none" => ledger.content = <<>>
      /\ ledger.coverage \in {"none", "full", "preview"}
  BY DEF LedgerInv
<1>2. faithful /\ known = session =>
        told /\ (ledger.coverage = "full" => copy = ledger.content)
  BY DEF LedgerInv, ChatIsInformed, Ledger!ChatIsInformed
<1>3. ASSUME NEW d \in BOOLEAN, Ledger!Ask(d) PROVE LedgerInv'
  <2> DEFINE content == Ledger!Trimmed(file)
  <2>1. PICK p \in Ledger!Plans(content) :
          /\ ledger' = p.kept
          /\ d => Ledger!Read(p, content)
    BY <1>3 DEF Ledger!Ask
  <2>2. Ledger!Send(d)
    BY <1>3 DEF Ledger!Ask
  <2>3. content \in Versions
    BY <1>1
  <2>4. /\ ledger'.coverage \in {"none", "full", "preview"}
        /\ ledger'.coverage = "none" => ledger'.content = <<>>
        /\ ledger'.coverage # "none" => ledger'.content \in Versions
        /\ faithful /\ ledger'.coverage = "full" /\ d => copy' = ledger'.content
    BY <2>1, <2>3, PlansAreRead
  <2>5. ChatIsInformed'
    BY <2>2, <2>4, RulesAreSent DEF ChatIsInformed, Ledger!ChatIsInformed
  <2> QED
    BY <2>2, <2>4, <2>5, RulesAreSent DEF LedgerInv
<1>4. ASSUME NEW d \in BOOLEAN, Ledger!AskWithout(d) PROVE LedgerInv'
  <2>1. ledger' = Ledger!Remembered /\ UNCHANGED copy /\ Ledger!Send(d)
    BY <1>4 DEF Ledger!AskWithout
  <2>2. \/ known = session /\ ledger' = ledger
        \/ ledger'.coverage = "none" /\ ledger'.content = <<>>
    BY <2>1 DEF Ledger!Remembered, Ledger!Nothing
  <2>3. ChatIsInformed'
    BY <1>2, <2>1, <2>2, RulesAreSent DEF ChatIsInformed, Ledger!ChatIsInformed
  <2> QED
    BY <1>1, <2>1, <2>2, <2>3, RulesAreSent DEF LedgerInv
<1>5. ASSUME NEW t \in FileTexts, Ledger!Edit(t) PROVE LedgerInv'
  BY <1>1, <1>2, <1>5 DEF Ledger!Edit, LedgerInv, ChatIsInformed, Ledger!ChatIsInformed
<1>6. CASE Ledger!NewSession
  BY <1>1, <1>6, LedgerBounds DEF Ledger!NewSession, LedgerInv, ChatIsInformed, Ledger!ChatIsInformed
<1>7. CASE Ledger!SwapProvider
  BY <1>1, <1>2, <1>7 DEF Ledger!SwapProvider, LedgerInv, ChatIsInformed, Ledger!ChatIsInformed
<1>8. CASE Ledger!OtherChat
  BY <1>1, <1>8 DEF Ledger!OtherChat, LedgerInv, ChatIsInformed, Ledger!ChatIsInformed
<1>9. CASE Ledger!Reload
  BY <1>1, <1>9
     DEF Ledger!Reload, Ledger!Nothing, LedgerInv, ChatIsInformed, Ledger!ChatIsInformed
<1> QED
  BY <1>3, <1>4, <1>5, <1>6, <1>7, <1>8, <1>9 DEF Ledger!LedgerNext

LEMMA LedgerStays == LedgerInv /\ UNCHANGED ledgerVars => LedgerInv'
<1> SUFFICES ASSUME LedgerInv, UNCHANGED ledgerVars PROVE LedgerInv'
  OBVIOUS
<1>1. UNCHANGED <<file, ledger, session, known, primerSent, copy, told, faithful>>
  BY DEF ledgerVars
<1> QED
  BY <1>1 DEF LedgerInv, ChatIsInformed, Ledger!ChatIsInformed

LedgerFlags == primerSent \in BOOLEAN /\ told \in BOOLEAN /\ faithful \in BOOLEAN

LEMMA LedgerFlagsInit == Init => LedgerFlags
<1> SUFFICES ASSUME Ledger!LedgerInit PROVE LedgerFlags
  BY DEF Init
<1> QED
  BY Zenon DEF Ledger!LedgerInit, LedgerFlags

LEMMA LedgerFlagsNext == LedgerFlags /\ [Ledger!LedgerNext]_ledgerVars => LedgerFlags'
<1> SUFFICES ASSUME LedgerFlags, [Ledger!LedgerNext]_ledgerVars PROVE LedgerFlags'
  OBVIOUS
<1>1. primerSent \in BOOLEAN /\ told \in BOOLEAN /\ faithful \in BOOLEAN
  BY Zenon DEF LedgerFlags
<1>2. ASSUME NEW d \in BOOLEAN, Ledger!Ask(d) \/ Ledger!AskWithout(d) PROVE LedgerFlags'
  <2>1. Ledger!Send(d)
    BY <1>2, Zenon DEF Ledger!Ask, Ledger!AskWithout
  <2> QED
    BY <2>1, Zenon DEF Ledger!Send, LedgerFlags
<1>3. CASE \/ \E t \in FileTexts : Ledger!Edit(t)
           \/ Ledger!NewSession \/ Ledger!SwapProvider \/ Ledger!OtherChat \/ Ledger!Reload
  BY <1>1, <1>3, Zenon
     DEF Ledger!Edit, Ledger!NewSession, Ledger!SwapProvider, Ledger!OtherChat, Ledger!Reload,
         LedgerFlags
<1>4. CASE UNCHANGED ledgerVars
  <2>1. UNCHANGED primerSent /\ UNCHANGED told /\ UNCHANGED faithful
    BY <1>4 DEF ledgerVars
  <2> QED
    BY <1>1, <2>1, Zenon DEF LedgerFlags
<1> QED
  BY <1>2, <1>3, <1>4 DEF Ledger!LedgerNext

(* What is remembered of a file is no longer than what is sent of it.      *)
LEMMA LedgerTypeCorrect == LedgerInv /\ LedgerFlags => Ledger!LedgerTypeOK
<1> SUFFICES ASSUME LedgerInv, LedgerFlags PROVE Ledger!LedgerTypeOK
  OBVIOUS
<1>1. {primerSent, told, faithful} \subseteq BOOLEAN
  BY Zenon DEF LedgerFlags
<1>2. ASSUME NEW t \in FileTexts PROVE Len(Ledger!Trimmed(t)) <= MaxFile
  <2>1. t \in Seq(Range(t))
    BY LedgerBounds
  <2> QED
    BY <2>1, TrimmedIsText
<1>3. Len(ledger.content) <= MaxFile
  BY <1>2, LedgerBounds, EmptySeq DEF LedgerInv
<1>4. session \in 1 .. MaxSessions /\ known \in 0 .. MaxSessions
  BY LedgerBounds DEF LedgerInv
<1> QED
  BY <1>1, <1>3, <1>4, Zenon DEF LedgerInv, Ledger!LedgerTypeOK

-----------------------------------------------------------------------------
(* WorkspaceReads.                                                         *)

FolderCalls ==
  [tool : {"none", "read", "active", "search"},
   step : {"idle", "resolved", "loading", "walking", "done"},
   at : Folder!Places \cup {Outside}, skip : SUBSET {p[2] : p \in Folder!Places},
   left : SUBSET Files, buffers : SUBSET (Folder!Places \X Folder!Texts),
   hits : SUBSET (Folder!Places \X Folder!Texts), count : Nat]

FolderTypes ==
  /\ target \in Files \cup {Outside}
  /\ disk \in [Files \cup {Outside} -> Folder!Texts]
  /\ unsaved \in [Folder!Places -> Folder!Texts \cup {Folder!Clean}]
  /\ seen \in [Folder!Places -> SUBSET Folder!Texts] /\ changes \in Folder!Texts
  /\ reading \in FolderCalls

(* What is on the screen has been noted since the call began, and so has   *)
(* what is reported already or noted to be reported.                       *)
NotedIsSeen ==
  /\ reading.step # "idle" =>
       \A p \in Folder!Places : Folder!Shows(p) \in seen[p]
  /\ \A h \in reading.hits \cup reading.buffers : h[2] \in seen[h[1]]

(* What is on the disk of a file that is still to be read has been noted.  *)
ToRead ==
  /\ reading.step \in {"resolved", "loading"} => reading.at \in Files
  /\ reading.step = "loading" => disk[reading.at] \in seen[reading.at]
  /\ reading.step = "walking" =>
       \A p \in reading.left : p[2] \notin reading.skip => disk[p] \in seen[p]

(* No file is reported twice, and the reports are counted.                 *)
Once(S) == IsFiniteSet(S) /\ \A g, h \in S : g[1] = h[1] => g = h

Counted == Once(reading.hits) /\ reading.count = Cardinality(reading.hits)

(* A search goes on: every file of the folder is left, reported, or left   *)
(* out for a dirty document of its path, which is reported in the end.     *)
Searches ==
  /\ reading.step \in {"resolved", "loading"} => reading.hits = {} /\ reading.tool = "read"
  /\ reading.step = "walking" =>
       /\ reading.tool = "search" /\ Once(reading.buffers)
       /\ reading.skip = {b[1][2] : b \in reading.buffers}
       /\ \A h \in reading.hits : h[1] \notin reading.left /\ h[1][2] \notin reading.skip
       /\ \A p \in Folder!Walked \ reading.left :
            p[2] \in reading.skip \/ \E h \in reading.hits : h[1] = p

FolderInv ==
  FolderTypes /\ NotedIsSeen /\ ToRead /\ Counted /\ Searches /\ ReportsAreTrue

LEMMA FolderBounds ==
  /\ MaxChanges \in Nat /\ Link \notin Files /\ Outside[1] \notin {1, 2}
  /\ IsFiniteSet(Folder!Places)
  /\ Folder!Places = Files \cup {Link} /\ Folder!Texts = 0 .. MaxChanges
  /\ Folder!Clean = MaxChanges + 1 /\ Folder!Clean \notin Folder!Texts
<1>1. MaxChanges \in Nat /\ Link \notin Files /\ Outside[1] \notin {1, 2} /\ IsFiniteSet(Files)
  BY EditorAssumption
<1>2. IsFiniteSet(Files \cup {Link})
  BY <1>1, FS_AddElement
<1> QED
  BY <1>1, <1>2 DEF Folder!Places, Folder!Texts, Folder!Clean

(* The instance counts as FiniteSets does.                                 *)
LEMMA FolderCounts == ASSUME NEW S PROVE Folder!Cardinality(S) = Cardinality(S)
BY DEF Folder!Cardinality, Cardinality

LEMMA IdleCall ==
  /\ Folder!Idle \in FolderCalls
  /\ Folder!Idle.hits = {} /\ Folder!Idle.buffers = {} /\ Folder!Idle.count = 0
BY DEF Folder!Idle, FolderCalls

LEMMA FolderInit == Init => FolderInv
<1> SUFFICES ASSUME Folder!ReadsInit PROVE FolderInv
  BY DEF Init
<1>1. FolderTypes
  BY IdleCall, FolderBounds DEF Folder!ReadsInit, FolderTypes
<1>2. reading.step = "idle" /\ reading.hits = {} /\ reading.buffers = {} /\ reading.count = 0
  BY DEF Folder!ReadsInit, Folder!Idle
<1>3. Once({}) /\ Cardinality({}) = 0
  BY FS_EmptySet DEF Once
<1> QED
  BY <1>1, <1>2, <1>3
     DEF FolderInv, NotedIsSeen, ToRead, Counted, Searches, ReportsAreTrue, Folder!ReportsAreTrue

(* What a place shows is a text.                                           *)
LEMMA ShownText ==
  ASSUME NEW g \in Files \cup {Outside},
         NEW d \in [Files \cup {Outside} -> Folder!Texts],
         NEW u \in [Folder!Places -> Folder!Texts \cup {Folder!Clean}],
         NEW p \in Folder!Places
  PROVE  (IF u[p] # Folder!Clean THEN u[p] ELSE d[IF p = Link THEN g ELSE p]) \in Folder!Texts
BY FolderBounds

(* Steps of the user and of other programs: the call goes on as it was, on *)
(* what they did.                                                          *)
LEMMA CallGoesOn ==
  ASSUME FolderInv, UNCHANGED reading,
         target' \in Files \cup {Outside},
         disk' \in [Files \cup {Outside} -> Folder!Texts],
         unsaved' \in [Folder!Places -> Folder!Texts \cup {Folder!Clean}],
         seen' \in [Folder!Places -> SUBSET Folder!Texts], changes' \in Folder!Texts,
         \A p \in Folder!Places : seen[p] \subseteq seen'[p],
         reading.step # "idle" => \A p \in Folder!Places : Folder!Shows(p)' \in seen'[p],
         \A p \in Files : disk[p] \in seen[p] => disk'[p] \in seen'[p]
  PROVE  FolderInv'
<1>1. /\ reading \in FolderCalls
      /\ reading.hits \subseteq Folder!Places \X Folder!Texts
      /\ reading.buffers \subseteq Folder!Places \X Folder!Texts
      /\ reading.left \subseteq Files
  BY DEF FolderInv, FolderTypes, FolderCalls
<1>2. FolderTypes'
  BY <1>1 DEF FolderTypes, FolderCalls, Folder!Places, Folder!Texts, Folder!Clean
<1>3. NotedIsSeen'
  <2>1. \A h \in reading.hits \cup reading.buffers : h[1] \in Folder!Places /\ h[2] \in seen[h[1]]
    BY <1>1 DEF FolderInv, NotedIsSeen
  <2> QED
    BY <2>1 DEF NotedIsSeen, Folder!Places
<1>4. ToRead'
  BY <1>1 DEF FolderInv, ToRead
<1>5. Counted' /\ Searches'
  BY DEF FolderInv, Counted, Once, Searches, Folder!Walked, Folder!Blocked
<1>6. ReportsAreTrue'
  <2>1. \A h \in reading.hits : h[2] \in seen'[h[1]]
    BY <1>3 DEF NotedIsSeen
  <2> QED
    BY <2>1 DEF FolderInv, ReportsAreTrue, Folder!ReportsAreTrue, Folder!Walked, Folder!Blocked
<1> QED
  BY <1>2, <1>3, <1>4, <1>5, <1>6 DEF FolderInv

LEMMA FolderStays == FolderInv /\ UNCHANGED readVars => FolderInv'
<1> SUFFICES ASSUME FolderInv, UNCHANGED readVars PROVE FolderInv'
  OBVIOUS
<1>1. UNCHANGED <<target, disk, unsaved, seen, changes, reading>>
  BY DEF readVars
<1>2. /\ target \in Files \cup {Outside} /\ disk \in [Files \cup {Outside} -> Folder!Texts]
      /\ unsaved \in [Folder!Places -> Folder!Texts \cup {Folder!Clean}]
      /\ seen \in [Folder!Places -> SUBSET Folder!Texts] /\ changes \in Folder!Texts
      /\ reading.step # "idle" => \A p \in Folder!Places : Folder!Shows(p) \in seen[p]
  BY DEF FolderInv, FolderTypes, NotedIsSeen
<1>3. \A p : Folder!Shows(p)' = Folder!Shows(p)
  BY <1>1 DEF Folder!Shows, Folder!OnDisk, Folder!Real, Folder!Clean
<1> QED
  BY <1>1, <1>2, <1>3, CallGoesOn

(* What is typed, saved, undone, written and linked.                       *)
LEMMA EditInv ==
  ASSUME FolderInv, UNCHANGED reading, Folder!SeenAfter,
         target' \in Files \cup {Outside},
         disk' \in [Files \cup {Outside} -> Folder!Texts],
         unsaved' \in [Folder!Places -> Folder!Texts \cup {Folder!Clean}],
         changes' \in Folder!Texts
  PROVE  FolderInv'
<1>1. seen \in [Folder!Places -> SUBSET Folder!Texts]
  BY DEF FolderInv, FolderTypes
<1>2. \A p \in Folder!Places :
        seen'[p] = seen[p] \cup {Folder!Shows(p)'} \cup Folder!WrittenTo(p)
  BY DEF Folder!SeenAfter
<1>3. \A p : Folder!Shows(p)' = IF unsaved'[p] # Folder!Clean THEN unsaved'[p]
                               ELSE disk'[IF p = Link THEN target' ELSE p]
  BY DEF Folder!Shows, Folder!OnDisk, Folder!Real, Folder!Clean
<1>4. \A p \in Folder!Places :
        Folder!Shows(p)' \in Folder!Texts /\ Folder!WrittenTo(p) \subseteq Folder!Texts
  BY <1>3, ShownText DEF Folder!WrittenTo
<1>5. seen' \in [Folder!Places -> SUBSET Folder!Texts]
  <2>1. \A p \in Folder!Places :
          seen[p] \cup {Folder!Shows(p)'} \cup Folder!WrittenTo(p) \in SUBSET Folder!Texts
    BY <1>1, <1>4
  <2> QED
    BY <2>1 DEF Folder!SeenAfter
<1>6. ASSUME NEW p \in Files, disk[p] \in seen[p] PROVE disk'[p] \in seen'[p]
  <2>1. p \in Folder!Places
    BY FolderBounds
  <2>2. CASE disk'[p] = disk[p]
    BY <1>2, <1>6, <2>1, <2>2
  <2>3. CASE disk'[p] # disk[p]
    <3>1. disk'[p] \in Folder!WrittenTo(p)
      BY <2>3 DEF Folder!WrittenTo
    <3> QED
      BY <1>2, <2>1, <3>1
  <2> QED
    BY <2>2, <2>3
<1> QED
  BY <1>2, <1>5, <1>6, CallGoesOn

LEMMA EditsInv ==
  ASSUME FolderInv, NEW p \in Folder!Places,
         Folder!Type(p) \/ Folder!Save(p) \/ Folder!Revert(p)
  PROVE  FolderInv'
<1>1. /\ target \in Files \cup {Outside} /\ disk \in [Files \cup {Outside} -> Folder!Texts]
      /\ unsaved \in [Folder!Places -> Folder!Texts \cup {Folder!Clean}]
      /\ changes \in Folder!Texts
  BY DEF FolderInv, FolderTypes
<1>2. /\ Folder!Places = Files \cup {Link} /\ Folder!Texts = 0 .. MaxChanges
      /\ MaxChanges \in Nat
  BY FolderBounds
<1>3. CASE Folder!Type(p)
  <2>1. changes + 1 \in Folder!Texts
    BY <1>1, <1>2, <1>3 DEF Folder!Type
  <2>2. /\ UNCHANGED <<reading, target, disk>> /\ Folder!SeenAfter
        /\ unsaved' = [unsaved EXCEPT ![p] = changes + 1] /\ changes' = changes + 1
    BY <1>3 DEF Folder!Type
  <2> QED
    BY <1>1, <2>1, <2>2, EditInv
<1>4. CASE Folder!Revert(p)
  <2>1. /\ UNCHANGED <<reading, target, disk, changes>> /\ Folder!SeenAfter
        /\ unsaved' = [unsaved EXCEPT ![p] = Folder!Clean]
    BY <1>4 DEF Folder!Revert
  <2> QED
    BY <1>1, <2>1, EditInv
<1>5. CASE Folder!Save(p)
  <2>1. /\ UNCHANGED <<reading, target, changes>> /\ Folder!SeenAfter
        /\ disk' = [disk EXCEPT ![Folder!Real(p)] = unsaved[p]]
        /\ unsaved' = [unsaved EXCEPT ![p] = Folder!Clean] /\ p \in Folder!Dirty
    BY <1>5 DEF Folder!Save
  <2>2. unsaved[p] \in Folder!Texts
    BY <1>1, <2>1 DEF Folder!Dirty
  <2>3. disk' \in [Files \cup {Outside} -> Folder!Texts]
    BY <1>1, <2>1, <2>2
  <2>4. unsaved' \in [Folder!Places -> Folder!Texts \cup {Folder!Clean}]
    BY <1>1, <2>1
  <2> QED
    BY <1>1, <2>1, <2>3, <2>4, EditInv
<1> QED
  BY <1>3, <1>4, <1>5

LEMMA ElsewhereInv ==
  ASSUME FolderInv, \/ \E p \in Files : Folder!Rewrite(p)
                    \/ \E p \in Files \cup {Outside} : Folder!Relink(p)
  PROVE  FolderInv'
<1>1. /\ target \in Files \cup {Outside} /\ disk \in [Files \cup {Outside} -> Folder!Texts]
      /\ unsaved \in [Folder!Places -> Folder!Texts \cup {Folder!Clean}]
      /\ changes \in Folder!Texts
  BY DEF FolderInv, FolderTypes
<1>2. ASSUME NEW p \in Files, Folder!Rewrite(p) PROVE FolderInv'
  <2>1. /\ UNCHANGED <<reading, target, unsaved>> /\ Folder!SeenAfter
        /\ disk' = [disk EXCEPT ![p] = changes + 1] /\ changes' = changes + 1
        /\ changes < MaxChanges
    BY <1>2 DEF Folder!Rewrite
  <2>2. changes + 1 \in Folder!Texts
    BY <1>1, <2>1, FolderBounds
  <2> QED
    BY <1>1, <2>1, <2>2, EditInv
<1>3. ASSUME NEW p \in Files \cup {Outside}, Folder!Relink(p) PROVE FolderInv'
  <2>1. UNCHANGED <<reading, disk, unsaved, changes>> /\ Folder!SeenAfter /\ target' = p
    BY <1>3 DEF Folder!Relink
  <2> QED
    BY <1>1, <2>1, EditInv
<1> QED
  BY <1>2, <1>3

(* One file more is reported.                                              *)
LEMMA OneReportMore ==
  ASSUME NEW c \in FolderCalls, NEW p \in Folder!Places, NEW t \in Folder!Texts,
         Once(c.hits), c.count = Cardinality(c.hits), \A h \in c.hits : h[1] # p
  PROVE  /\ Folder!Report(c, p, t) \in FolderCalls
         /\ Folder!Report(c, p, t).hits = c.hits \cup {<<p, t>>}
         /\ Folder!Report(c, p, t).buffers = c.buffers
         /\ Folder!Report(c, p, t).left = c.left /\ Folder!Report(c, p, t).skip = c.skip
         /\ Folder!Report(c, p, t).step = c.step /\ Folder!Report(c, p, t).tool = c.tool
         /\ Once(c.hits \cup {<<p, t>>})
         /\ Folder!Report(c, p, t).count = Cardinality(c.hits \cup {<<p, t>>})
<1>1. c.count \in Nat /\ c.hits \subseteq Folder!Places \X Folder!Texts
  BY DEF FolderCalls
<1>2. <<p, t>> \notin c.hits
  OBVIOUS
<1>3. /\ IsFiniteSet(c.hits \cup {<<p, t>>})
      /\ Cardinality(c.hits \cup {<<p, t>>}) = c.count + 1
  BY <1>2, FS_AddElement DEF Once
<1>4. Once(c.hits \cup {<<p, t>>})
  BY <1>3 DEF Once
<1>5. c.hits \cup {<<p, t>>} \in SUBSET (Folder!Places \X Folder!Texts) /\ c.count + 1 \in Nat
  BY <1>1
<1>6. Folder!Report(c, p, t) \in FolderCalls
  <2>1. \A S \in SUBSET (Folder!Places \X Folder!Texts) : \A n \in Nat :
          [c EXCEPT !.hits = S, !.count = n] \in FolderCalls
    BY Zenon DEF FolderCalls
  <2>2. Folder!Report(c, p, t) = [c EXCEPT !.hits = c.hits \cup {<<p, t>>}, !.count = c.count + 1]
    BY DEF Folder!Report, FolderCalls
  <2> QED
    BY <1>5, <2>1, <2>2
<1>7. /\ Folder!Report(c, p, t).hits = c.hits \cup {<<p, t>>}
      /\ Folder!Report(c, p, t).buffers = c.buffers
      /\ Folder!Report(c, p, t).left = c.left /\ Folder!Report(c, p, t).skip = c.skip
      /\ Folder!Report(c, p, t).step = c.step /\ Folder!Report(c, p, t).tool = c.tool
      /\ Folder!Report(c, p, t).count = c.count + 1
  BY DEF Folder!Report, FolderCalls
<1> QED
  BY <1>3, <1>4, <1>6, <1>7

(* The first file is reported, by tools that report one.                   *)
LEMMA FirstReport ==
  ASSUME NEW c \in FolderCalls, NEW p \in Folder!Places, NEW t \in Folder!Texts,
         c.hits = {}, c.count = 0
  PROVE  /\ Folder!Report(c, p, t) \in FolderCalls
         /\ Folder!Report(c, p, t).hits = {<<p, t>>} /\ Folder!Report(c, p, t).count = 1
         /\ Folder!Report(c, p, t).buffers = c.buffers
         /\ Folder!Report(c, p, t).tool = c.tool
<1>1. /\ Folder!Report(c, p, t) = [c EXCEPT !.hits = {<<p, t>>}, !.count = 1]
      /\ {<<p, t>>} \in SUBSET (Folder!Places \X Folder!Texts)
  BY DEF Folder!Report, FolderCalls
<1>2. \A S \in SUBSET (Folder!Places \X Folder!Texts) : \A n \in Nat :
        [c EXCEPT !.hits = S, !.count = n] \in FolderCalls
  BY Zenon DEF FolderCalls
<1>3. Folder!Report(c, p, t) \in FolderCalls
  <2>1. 1 \in Nat
    OBVIOUS
  <2> QED
    BY <1>1, <1>2, <2>1, ZenonT(30)
<1>4. \A S, n : LET d == [c EXCEPT !.hits = S, !.count = n] IN
        d.hits = S /\ d.count = n /\ d.buffers = c.buffers /\ d.tool = c.tool
  BY DEF FolderCalls
<1> QED
  BY <1>1, <1>3, <1>4

LEMMA OneIsOnce == \A h : Once({h}) /\ Cardinality({h}) = 1
BY FS_Singleton DEF Once

(* What is noted when a call begins, and what the files show then.         *)
LEMMA NotedFacts ==
  ASSUME FolderInv, seen' = Folder!Noted, UNCHANGED <<target, disk, unsaved, changes>>
  PROVE  /\ seen' \in [Folder!Places -> SUBSET Folder!Texts]
         /\ \A p \in Folder!Places : /\ seen'[p] = {Folder!Shows(p)}
                                     /\ Folder!Shows(p)' = Folder!Shows(p)
                                     /\ Folder!Shows(p) \in Folder!Texts
<1>1. /\ target \in Files \cup {Outside} /\ disk \in [Files \cup {Outside} -> Folder!Texts]
      /\ unsaved \in [Folder!Places -> Folder!Texts \cup {Folder!Clean}]
  BY DEF FolderInv, FolderTypes
<1>2. \A p \in Folder!Places : Folder!Shows(p) \in Folder!Texts
  BY <1>1, ShownText DEF Folder!Shows, Folder!OnDisk, Folder!Real
<1>3. \A p : Folder!Shows(p)' = Folder!Shows(p)
  BY DEF Folder!Shows, Folder!OnDisk, Folder!Real, Folder!Clean
<1> QED
  BY <1>2, <1>3 DEF Folder!Noted

(* The variables a call does not write keep their types.                   *)
LEMMA TypesOfCall ==
  ASSUME FolderInv, UNCHANGED <<target, disk, unsaved, changes>>,
         seen' \in [Folder!Places -> SUBSET Folder!Texts], reading' \in FolderCalls
  PROVE  FolderTypes'
<1>1. /\ target' \in Files \cup {Outside} /\ disk' \in [Files \cup {Outside} -> Folder!Texts]
      /\ unsaved' \in [Folder!Places -> Folder!Texts \cup {Folder!Clean}]
      /\ changes' \in Folder!Texts
  BY DEF FolderInv, FolderTypes
<1> QED
  BY <1>1 DEF FolderTypes, FolderCalls, Folder!Places, Folder!Texts, Folder!Clean

(* What a path resolves to is a file.                                      *)
LEMMA ResolvedIsAFile ==
  ASSUME FolderInv, NEW path, NEW p \in Folder!Resolved(path) PROVE p \in Files
<1> DEFINE inside == {r \in Folder!Roots : /\ <<r, path>> \in Folder!Places
                                           /\ Folder!Real(<<r, path>>)[1] = r}
<1>1. PICK r \in inside : p = Folder!Real(<<r, path>>)
  BY DEF Folder!Resolved
<1>2. r \in {1, 2} /\ p[1] = r /\ <<r, path>> \in Files \cup {Link}
  BY <1>1 DEF Folder!Roots, Folder!Places
<1>3. p \in Files \cup {Outside}
  BY <1>1, <1>2 DEF Folder!Real, FolderInv, FolderTypes
<1> QED
  BY <1>2, <1>3, FolderBounds

LEMMA ReadFileInv ==
  ASSUME FolderInv, NEW path, Folder!ReadFile(path) PROVE FolderInv'
<1>1. PICK p \in Folder!Resolved(path) :
        reading' = [Folder!Idle EXCEPT !.tool = "read", !.step = "resolved", !.at = p]
  BY DEF Folder!ReadFile
<1>2. seen' = Folder!Noted /\ UNCHANGED <<target, disk, unsaved, changes>>
  BY DEF Folder!ReadFile
<1>3. p \in Files /\ p \in Folder!Places
  BY ResolvedIsAFile, FolderBounds
<1>4. reading' \in FolderCalls
  BY <1>1, <1>3 DEF Folder!Idle, FolderCalls
<1>5. /\ reading'.tool = "read" /\ reading'.step = "resolved" /\ reading'.at = p
      /\ reading'.hits = {} /\ reading'.buffers = {} /\ reading'.count = 0
  BY <1>1 DEF Folder!Idle
<1>6. FolderTypes'
  BY <1>2, <1>4, NotedFacts, TypesOfCall
<1>7. NotedIsSeen'
  BY <1>2, <1>5, NotedFacts DEF NotedIsSeen, Folder!Places
<1>8. Counted'
  BY <1>5, FS_EmptySet DEF Counted, Once
<1> QED
  BY <1>3, <1>5, <1>6, <1>7, <1>8
     DEF FolderInv, ToRead, Searches, ReportsAreTrue, Folder!ReportsAreTrue

LEMMA ActiveInv ==
  ASSUME FolderInv, NEW p \in Folder!Places, Folder!ActiveDocument(p) PROVE FolderInv'
<1> DEFINE t == Folder!Shows(p)
           c == Folder!Report(Folder!Idle, p, t)
<1>1. /\ reading' = [c EXCEPT !.tool = "active", !.step = "done"]
      /\ seen' = Folder!Noted /\ UNCHANGED <<target, disk, unsaved, changes>>
  BY DEF Folder!ActiveDocument
<1>2. t \in Folder!Texts /\ seen'[p] = {t}
  BY <1>1, NotedFacts
<1>3. Once({<<p, t>>}) /\ Cardinality({<<p, t>>}) = 1
  BY OneIsOnce
<1>4. c \in FolderCalls /\ c.hits = {<<p, t>>} /\ c.buffers = {} /\ c.count = 1
  BY <1>2, IdleCall, FirstReport
<1> HIDE DEF c
<1>5. reading' \in FolderCalls
  BY <1>1, <1>4 DEF FolderCalls
<1>6. /\ reading'.tool = "active" /\ reading'.step = "done" /\ reading'.hits = {<<p, t>>}
      /\ reading'.buffers = {} /\ reading'.count = 1
  BY <1>1, <1>4 DEF FolderCalls
<1>7. FolderTypes'
  BY <1>1, <1>5, NotedFacts, TypesOfCall
<1>8. NotedIsSeen'
  BY <1>1, <1>2, <1>6, NotedFacts DEF NotedIsSeen, Folder!Places
<1>9. Counted' /\ ReportsAreTrue'
  BY <1>2, <1>3, <1>6, FolderCounts
     DEF Counted, Once, ReportsAreTrue, Folder!ReportsAreTrue
<1> QED
  BY <1>6, <1>7, <1>8, <1>9 DEF FolderInv, ToRead, Searches

LEMMA LookInv == ASSUME FolderInv, Folder!Look PROVE FolderInv'
<1> DEFINE p == reading.at
           t == unsaved[reading.at]
           c == Folder!Report(reading, p, t)
<1>1. /\ reading.step = "resolved" /\ UNCHANGED <<target, disk, unsaved, seen, changes>>
      /\ IF t # Folder!Clean THEN reading' = [c EXCEPT !.step = "done"]
         ELSE reading' = [reading EXCEPT !.step = "loading"]
  BY DEF Folder!Look, Folder!LooksAtBuffer
<1>2. /\ reading \in FolderCalls /\ seen \in [Folder!Places -> SUBSET Folder!Texts]
      /\ unsaved \in [Folder!Places -> Folder!Texts \cup {Folder!Clean}]
      /\ p \in Files /\ p \in Folder!Places /\ p # Link
      /\ reading.hits = {} /\ reading.tool = "read" /\ Counted /\ reading.count = 0
      /\ \A b \in reading.buffers : b[2] \in seen[b[1]]
      /\ \A q \in Folder!Places : Folder!Shows(q) \in seen[q]
  BY <1>1, FolderBounds, FS_EmptySet
     DEF FolderInv, FolderTypes, ToRead, Searches, NotedIsSeen, Counted
<1>3. \A q : Folder!Shows(q)' = Folder!Shows(q)
  BY <1>1 DEF Folder!Shows, Folder!OnDisk, Folder!Real, Folder!Clean
<1>4. CASE t # Folder!Clean
  <2>1. t \in Folder!Texts /\ t \in seen[p]
    BY <1>2, <1>4 DEF Folder!Shows
  <2> DEFINE S == {<<p, t>>}
  <2>2. /\ c \in FolderCalls /\ c.hits = S /\ c.count = 1 /\ c.buffers = reading.buffers
        /\ c.tool = "read"
    BY <1>2, <2>1, FirstReport
  <2>3. Once(S) /\ Cardinality(S) = 1 /\ \A h \in S : h = <<p, t>>
    BY OneIsOnce
  <2>4. reading' = [c EXCEPT !.step = "done"]
    BY <1>1, <1>4
  <2> HIDE DEF c, S
  <2>5. /\ reading' \in FolderCalls /\ reading'.step = "done" /\ reading'.tool = "read"
        /\ reading'.hits = S /\ reading'.buffers = reading.buffers
        /\ reading'.count = 1
    BY <2>2, <2>4 DEF FolderCalls
  <2>6. FolderTypes'
    BY <1>1, <1>2, <2>5, TypesOfCall
  <2>7. NotedIsSeen'
    BY <1>1, <1>2, <1>3, <2>1, <2>3, <2>5 DEF NotedIsSeen, Folder!Places
  <2>8. Counted'
    BY <2>3, <2>5 DEF Counted, Once
  <2>9. ReportsAreTrue'
    BY <1>1, <2>1, <2>3, <2>5, FolderCounts DEF ReportsAreTrue, Folder!ReportsAreTrue, Once
  <2> QED
    BY <2>5, <2>6, <2>7, <2>8, <2>9 DEF FolderInv, ToRead, Searches
<1>5. CASE t = Folder!Clean
  <2>1. disk[p] \in seen[p]
    BY <1>2, <1>5 DEF Folder!Shows, Folder!OnDisk, Folder!Real
  <2>2. reading' = [reading EXCEPT !.step = "loading"]
    BY <1>1, <1>5
  <2>3. /\ reading' \in FolderCalls /\ reading'.step = "loading" /\ reading'.tool = "read"
        /\ reading'.at = p /\ reading'.hits = {} /\ reading'.buffers = reading.buffers
        /\ reading'.count = reading.count
    BY <1>2, <2>2 DEF FolderCalls
  <2>4. FolderTypes'
    BY <1>1, <1>2, <2>3, TypesOfCall
  <2>5. NotedIsSeen'
    BY <1>1, <1>2, <1>3, <2>3 DEF NotedIsSeen, Folder!Places
  <2>6. Counted'
    BY <1>2, <2>3 DEF Counted, Once
  <2> QED
    BY <1>1, <1>2, <2>1, <2>3, <2>4, <2>5, <2>6
       DEF FolderInv, ToRead, Searches, ReportsAreTrue, Folder!ReportsAreTrue
<1> QED
  BY <1>4, <1>5

LEMMA LoadInv == ASSUME FolderInv, Folder!Load PROVE FolderInv'
<1> DEFINE p == reading.at
           t == disk[reading.at]
           c == Folder!Report(reading, p, t)
           S == {<<p, t>>}
<1>1. /\ reading.step = "loading" /\ UNCHANGED <<target, disk, unsaved, seen, changes>>
      /\ reading' = [c EXCEPT !.step = "done"]
  BY DEF Folder!Load
<1>2. /\ reading \in FolderCalls /\ seen \in [Folder!Places -> SUBSET Folder!Texts]
      /\ disk \in [Files \cup {Outside} -> Folder!Texts]
      /\ p \in Files /\ p \in Folder!Places /\ t \in seen[p]
      /\ reading.hits = {} /\ reading.tool = "read" /\ Counted /\ reading.count = 0
      /\ \A b \in reading.buffers : b[2] \in seen[b[1]]
      /\ \A q \in Folder!Places : Folder!Shows(q) \in seen[q]
  BY <1>1, FolderBounds, FS_EmptySet
     DEF FolderInv, FolderTypes, ToRead, Searches, NotedIsSeen, Counted
<1>3. \A q : Folder!Shows(q)' = Folder!Shows(q)
  BY <1>1 DEF Folder!Shows, Folder!OnDisk, Folder!Real, Folder!Clean
<1>4. t \in Folder!Texts
  BY <1>2
<1>5. /\ c \in FolderCalls /\ c.hits = S /\ c.count = 1 /\ c.buffers = reading.buffers
      /\ c.tool = "read"
  BY <1>2, <1>4, FirstReport
<1>6. Once(S) /\ Cardinality(S) = 1 /\ \A h \in S : h = <<p, t>>
  BY OneIsOnce
<1> HIDE DEF c, S
<1>7. /\ reading' \in FolderCalls /\ reading'.step = "done" /\ reading'.tool = "read"
      /\ reading'.hits = S /\ reading'.buffers = reading.buffers
      /\ reading'.count = 1
  BY <1>1, <1>5 DEF FolderCalls
<1>8. FolderTypes'
  BY <1>1, <1>2, <1>7, TypesOfCall
<1>9. NotedIsSeen'
  BY <1>1, <1>2, <1>3, <1>6, <1>7 DEF NotedIsSeen, Folder!Places
<1>10. Counted'
  BY <1>6, <1>7 DEF Counted, Once
<1>11. ReportsAreTrue'
  BY <1>1, <1>2, <1>6, <1>7, FolderCounts DEF ReportsAreTrue, Folder!ReportsAreTrue, Once
<1> QED
  BY <1>7, <1>8, <1>9, <1>10, <1>11 DEF FolderInv, ToRead, Searches

LEMMA SearchInv == ASSUME FolderInv, Folder!Search PROVE FolderInv'
<1> DEFINE dirty == {p \in Folder!Dirty : ~Folder!Blocked(p)}
           B == {<<p, unsaved[p]>> : p \in dirty}
           paths == {p[2] : p \in dirty}
<1>1. /\ reading' = [Folder!Idle EXCEPT !.tool = "search", !.step = "walking",
                                        !.left = Folder!Walked, !.skip = paths, !.buffers = B]
      /\ seen' = Folder!Noted /\ UNCHANGED <<target, disk, unsaved, changes>>
  BY DEF Folder!Search
<1>2. unsaved \in [Folder!Places -> Folder!Texts \cup {Folder!Clean}]
  BY DEF FolderInv, FolderTypes
<1>3. /\ dirty \subseteq Folder!Places /\ Folder!Walked \subseteq Files
      /\ \A p \in dirty : unsaved[p] \in Folder!Texts /\ Folder!Shows(p) = unsaved[p]
  BY <1>2 DEF Folder!Dirty, Folder!Walked, Folder!Shows
<1>4. B \subseteq Folder!Places \X Folder!Texts /\ paths = {b[1][2] : b \in B}
  <2>1. B \subseteq Folder!Places \X Folder!Texts
    BY <1>3
  <2>2. \A p \in dirty : <<p, unsaved[p]>> \in B /\ p[2] \in {b[1][2] : b \in B}
    <3>1. \A p \in dirty : <<p, unsaved[p]>> \in B
      OBVIOUS
    <3> HIDE DEF B
    <3> QED
      BY <3>1
  <2>3. \A b \in B : b[1] \in dirty
    OBVIOUS
  <2> HIDE DEF B, dirty
  <2> QED
    BY <2>1, <2>2, <2>3
<1>5. Once(B)
  <2>1. IsFiniteSet(dirty)
    BY <1>3, FolderBounds, FS_Subset
  <2>2. [p \in dirty |-> <<p, unsaved[p]>>] \in Surjection(dirty, B)
    BY DEF Surjection
  <2>3. IsFiniteSet(B)
    BY <2>1, <2>2, FS_Surjection
  <2> QED
    BY <2>3 DEF Once
<1>6. \A p \in Folder!Walked : p[2] \notin paths => Folder!Shows(p) = disk[p]
  BY FolderBounds, <1>3
     DEF Folder!Walked, Folder!Dirty, Folder!Shows, Folder!OnDisk, Folder!Real
<1>7. \A b \in B : b[2] \in seen'[b[1]]
  BY <1>1, <1>3, NotedFacts
<1>8. paths \subseteq {p[2] : p \in Folder!Places}
  BY <1>3
<1>9. \A p \in Folder!Walked : p[2] \notin paths => disk[p] \in seen'[p]
  BY <1>1, <1>3, <1>6, NotedFacts, FolderBounds
<1> HIDE DEF B, paths
<1>10. reading' \in FolderCalls
  BY <1>1, <1>3, <1>4, <1>8 DEF Folder!Idle, FolderCalls
<1>11. /\ reading'.tool = "search" /\ reading'.step = "walking" /\ reading'.left = Folder!Walked
       /\ reading'.skip = paths /\ reading'.buffers = B
       /\ reading'.hits = {} /\ reading'.count = 0
  BY <1>1 DEF Folder!Idle
<1>12. FolderTypes'
  BY <1>1, <1>10, NotedFacts, TypesOfCall
<1>13. NotedIsSeen'
  BY <1>1, <1>7, <1>11, NotedFacts DEF NotedIsSeen, Folder!Places
<1>14. ToRead'
  BY <1>1, <1>9, <1>11 DEF ToRead
<1>15. Counted'
  BY <1>11, FS_EmptySet DEF Counted, Once
<1>16. Searches'
  BY <1>4, <1>5, <1>11 DEF Searches, Once, Folder!Walked, Folder!Blocked
<1> QED
  BY <1>11, <1>12, <1>13, <1>14, <1>15, <1>16 DEF FolderInv, ReportsAreTrue, Folder!ReportsAreTrue

LEMMA VisitInv == ASSUME FolderInv, NEW p \in Files, Folder!Visit(p) PROVE FolderInv'
<1> DEFINE t == disk[p]
           c == IF p[2] \in reading.skip THEN reading ELSE Folder!Report(reading, p, t)
           S == IF p[2] \in reading.skip THEN reading.hits ELSE reading.hits \cup {<<p, t>>}
<1>1. /\ reading.step = "walking" /\ p \in reading.left
      /\ UNCHANGED <<target, disk, unsaved, seen, changes>>
      /\ reading' = [c EXCEPT !.left = c.left \ {p}]
  BY DEF Folder!Visit, Folder!Skipped
<1>2. /\ reading \in FolderCalls /\ seen \in [Folder!Places -> SUBSET Folder!Texts]
      /\ p \in Folder!Places /\ t \in Folder!Texts
      /\ \A q \in Folder!Places : Folder!Shows(q) \in seen[q]
      /\ \A h \in reading.hits \cup reading.buffers : h[2] \in seen[h[1]]
      /\ \A f \in reading.left : f[2] \notin reading.skip => disk[f] \in seen[f]
  BY <1>1, FolderBounds DEF FolderInv, FolderTypes, ToRead, NotedIsSeen
<1>3. /\ reading.tool = "search" /\ Once(reading.buffers)
      /\ reading.skip = {b[1][2] : b \in reading.buffers}
      /\ \A h \in reading.hits : h[1] \notin reading.left /\ h[1][2] \notin reading.skip
      /\ \A f \in Folder!Walked \ reading.left :
           f[2] \in reading.skip \/ \E h \in reading.hits : h[1] = f
      /\ Once(reading.hits) /\ reading.count = Cardinality(reading.hits)
  BY <1>1 DEF FolderInv, Searches, Counted
<1>4. \A q : Folder!Shows(q)' = Folder!Shows(q)
  BY <1>1 DEF Folder!Shows, Folder!OnDisk, Folder!Real, Folder!Clean
<1>5. \A h \in reading.hits : h[1] # p
  BY <1>1, <1>3
<1>6. /\ c \in FolderCalls /\ c.hits = S /\ c.buffers = reading.buffers /\ c.left = reading.left
      /\ c.skip = reading.skip /\ c.step = "walking" /\ c.tool = "search"
      /\ Once(S) /\ c.count = Cardinality(S)
  <2>1. CASE p[2] \in reading.skip
    BY <1>1, <1>2, <1>3, <2>1
  <2>2. CASE p[2] \notin reading.skip
    <3> DEFINE d == Folder!Report(reading, p, t)
               T == reading.hits \cup {<<p, t>>}
    <3> HIDE DEF t
    <3>1. /\ d \in FolderCalls /\ d.hits = T /\ d.buffers = reading.buffers
          /\ d.left = reading.left /\ d.skip = reading.skip
          /\ d.step = reading.step /\ d.tool = reading.tool
          /\ Once(T) /\ d.count = Cardinality(T)
      <4>1. /\ reading \in FolderCalls /\ p \in Folder!Places /\ t \in Folder!Texts
            /\ Once(reading.hits) /\ reading.count = Cardinality(reading.hits)
            /\ \A h \in reading.hits : h[1] # p
        BY <1>2, <1>3, <1>5
      <4> QED
        BY <4>1, OneReportMore
    <3>2. c = d /\ S = T
      BY <2>2
    <3> HIDE DEF c, S, d, T
    <3> QED
      BY <1>1, <1>3, <3>1, <3>2
  <2> QED
    BY <2>1, <2>2
<1>7. /\ reading.hits \subseteq S
      /\ \A h \in S \ reading.hits : h = <<p, t>> /\ p[2] \notin reading.skip
      /\ p[2] \notin reading.skip => <<p, t>> \in S
  OBVIOUS
<1> HIDE DEF c, S
<1>8. /\ reading' \in FolderCalls /\ reading'.hits = S /\ reading'.buffers = reading.buffers
      /\ reading'.left = reading.left \ {p} /\ reading'.skip = reading.skip
      /\ reading'.step = "walking" /\ reading'.tool = "search"
      /\ reading'.count = Cardinality(S)
  BY <1>1, <1>6 DEF FolderCalls
<1>9. FolderTypes'
  BY <1>1, <1>2, <1>8, TypesOfCall
<1>10. NotedIsSeen'
  <2>1. \A h \in S \cup reading.buffers : h[2] \in seen[h[1]]
    BY <1>1, <1>2, <1>7
  <2> QED
    BY <1>1, <1>2, <1>4, <1>8, <2>1 DEF NotedIsSeen, Folder!Places
<1>11. ToRead'
  BY <1>1, <1>2, <1>8 DEF ToRead
<1>12. Counted'
  BY <1>6, <1>8 DEF Counted, Once
<1>13. Searches'
  <2>1. Once(reading'.buffers)
    BY <1>3, <1>8
  <2>2. \A h \in S : h[1] \notin reading'.left /\ h[1][2] \notin reading'.skip
    BY <1>3, <1>7, <1>8
  <2>3. \A f \in Folder!Walked \ reading'.left :
          f[2] \in reading'.skip \/ \E h \in S : h[1] = f
    BY <1>3, <1>7, <1>8
  <2> QED
    BY <1>3, <1>8, <2>1, <2>2, <2>3 DEF Searches, Once, Folder!Walked, Folder!Blocked
<1> QED
  BY <1>8, <1>9, <1>10, <1>11, <1>12, <1>13 DEF FolderInv, ReportsAreTrue, Folder!ReportsAreTrue

(* A search ends: the dirty documents it noted go with the files.          *)
LEMMA AddBuffersInv == ASSUME FolderInv, Folder!AddBuffers PROVE FolderInv'
<1> DEFINE H == reading.hits
           B == reading.buffers
<1>1. /\ reading.step = "walking" /\ reading.left = {}
      /\ UNCHANGED <<target, disk, unsaved, seen, changes>>
      /\ reading' = [reading EXCEPT !.step = "done", !.hits = H \cup B,
                                    !.count = reading.count + Cardinality(B)]
  BY FolderCounts DEF Folder!AddBuffers
<1>2. /\ reading \in FolderCalls /\ seen \in [Folder!Places -> SUBSET Folder!Texts]
      /\ H \cup B \in SUBSET (Folder!Places \X Folder!Texts)
      /\ \A q \in Folder!Places : Folder!Shows(q) \in seen[q]
      /\ \A h \in H \cup B : h[2] \in seen[h[1]]
  BY <1>1 DEF FolderInv, FolderTypes, NotedIsSeen, FolderCalls
<1>3. /\ reading.tool = "search" /\ Once(B)
      /\ reading.skip = {b[1][2] : b \in B}
      /\ \A h \in H : h[1][2] \notin reading.skip
      /\ \A f \in Folder!Walked : f[2] \in reading.skip \/ \E h \in H : h[1] = f
      /\ Once(H) /\ reading.count = Cardinality(H)
  BY <1>1 DEF FolderInv, Searches, Counted
<1>4. \A h \in H, b \in B : h[1] # b[1]
  BY <1>3
<1>5. /\ Once(H \cup B) /\ Cardinality(H \cup B) = Cardinality(H) + Cardinality(B)
      /\ Cardinality(H) \in Nat /\ Cardinality(B) \in Nat
  <2>1. IsFiniteSet(H) /\ IsFiniteSet(B) /\ H \cap B = {}
    BY <1>3, <1>4 DEF Once
  <2>2. /\ IsFiniteSet(H \cup B) /\ Cardinality(H) \in Nat /\ Cardinality(B) \in Nat
        /\ Cardinality(H \cup B) = Cardinality(H) + Cardinality(B) - Cardinality(H \cap B)
    BY <2>1, FS_Union, FS_CardinalityType
  <2>3. Cardinality(H \cap B) = 0
    BY <2>1, FS_EmptySet
  <2>4. Once(H \cup B)
    BY <1>3, <1>4, <2>2 DEF Once
  <2> QED
    BY <2>2, <2>3, <2>4
<1>6. \A f \in Folder!Walked : \/ \E h \in H \cup B : h[1] = f
                               \/ \E b \in B : b[1] # f /\ b[1][2] = f[2]
  <2> SUFFICES ASSUME NEW f \in Folder!Walked, ~ \E h \in H \cup B : h[1] = f
               PROVE  \E b \in B : b[1] # f /\ b[1][2] = f[2]
    OBVIOUS
  <2>1. f[2] \in reading.skip
    BY <1>3
  <2> QED
    BY <1>3, <2>1
<1> DEFINE n == reading.count + Cardinality(B)
<1>7. n \in Nat /\ n = Cardinality(H \cup B)
  BY <1>3, <1>5
<1>8. reading' \in FolderCalls
  <2>1. \A S \in SUBSET (Folder!Places \X Folder!Texts) : \A m \in Nat :
          [reading EXCEPT !.step = "done", !.hits = S, !.count = m] \in FolderCalls
    BY <1>2, Zenon DEF FolderCalls
  <2> HIDE DEF n
  <2> QED
    BY <1>1, <1>2, <1>7, <2>1 DEF n
<1>9. /\ reading'.step = "done" /\ reading'.tool = "search" /\ reading'.hits = H \cup B
      /\ reading'.buffers = B /\ reading'.count = Cardinality(H \cup B)
  BY <1>1, <1>2, <1>3, <1>7 DEF FolderCalls
<1>10. FolderTypes'
  BY <1>1, <1>2, <1>8, TypesOfCall
<1>11. \A q : Folder!Shows(q)' = Folder!Shows(q)
  BY <1>1 DEF Folder!Shows, Folder!OnDisk, Folder!Real, Folder!Clean
<1>12. NotedIsSeen'
  BY <1>1, <1>2, <1>9, <1>11 DEF NotedIsSeen, Folder!Places
<1>13. Counted'
  BY <1>5, <1>9 DEF Counted, Once
<1>14. ReportsAreTrue'
  BY <1>1, <1>2, <1>5, <1>6, <1>9, FolderCounts
     DEF ReportsAreTrue, Folder!ReportsAreTrue, Once, Folder!Walked, Folder!Blocked
<1> QED
  BY <1>9, <1>10, <1>12, <1>13, <1>14 DEF FolderInv, ToRead, Searches

LEMMA FolderNextInv == FolderInv /\ Folder!ReadsNext => FolderInv'
BY ReadFileInv, ActiveInv, LookInv, LoadInv, SearchInv, VisitInv, AddBuffersInv, EditsInv,
   ElsewhereInv
   DEF Folder!ReadsNext

LEMMA FolderTypeCorrect == FolderInv => Folder!ReadsTypeOK
BY DEF FolderInv, FolderTypes, FolderCalls, Folder!ReadsTypeOK

-----------------------------------------------------------------------------
(* ProjectTree.                                                            *)

(* A set has one size, whichever module counts.                            *)
LEMMA SameCounts ==
  \A S : Tree!Cardinality(S) = Cardinality(S) /\ Edits!Cardinality(S) = Cardinality(S)
BY DEF Tree!Cardinality, Edits!Cardinality, Cardinality

LEMMA SameSets ==
  \A s : (Tree!ToSet(s) = ToSet(s)) /\ (Tree!IsInjective(s) <=> IsInjective(s))
BY DEF Tree!ToSet, ToSet, Tree!IsInjective, IsInjective

(* What is defined of a node by what it is of the directory that holds it. *)
Below(N, p, base, comb) ==
  \E h \in [1 .. N -> Nat] :
    \A m \in 1 .. N : h[m] = IF p[m] = 0 THEN base[m] ELSE comb[<<m, h[p[m]]>>]

LEMMA Downward ==
  ASSUME NEW N \in Nat, NEW p \in [1 .. N -> Nat], \A m \in 1 .. N : p[m] < m,
         NEW base \in [1 .. N -> Nat], NEW comb \in [(1 .. N) \X Nat -> Nat]
  PROVE  Below(N, p, base, comb)
<1> DEFINE G(k) == \E h \in [1 .. k -> Nat] :
                     \A m \in 1 .. k : h[m] = IF p[m] = 0 THEN base[m] ELSE comb[<<m, h[p[m]]>>]
           B == {k \in 0 .. N : ~G(k)}
<1> SUFFICES ASSUME NEW n \in B PROVE FALSE
  <2>1. N \in 0 .. N
    OBVIOUS
  <2>2. G(N)
    BY <2>1
  <2> QED
    BY <2>2, Zenon DEF Below
<1>1. PICK k \in B : \A j \in B : k <= j
  <2>1. B \in SUBSET Nat
    OBVIOUS
  <2> HIDE DEF B
  <2> QED
    BY <2>1, Edits!Least
<1>2. k \in 0 .. N /\ ~G(k)
  OBVIOUS
<1>3. k # 0
  <2> SUFFICES ASSUME k = 0 PROVE G(k)
    BY <1>2
  <2>1. [m \in 1 .. k |-> 0] \in [1 .. k -> Nat] /\ 1 .. k = {}
    BY <1>2
  <2> QED
    BY <2>1
<1>4. k - 1 \in 0 .. N /\ k - 1 \notin B
  <2>1. k - 1 \in 0 .. N /\ ~ (k <= k - 1)
    BY <1>2, <1>3
  <2> HIDE DEF B
  <2> QED
    BY <1>1, <2>1
<1>5. G(k - 1)
  BY <1>4
<1>6. PICK g \in [1 .. k - 1 -> Nat] :
        \A m \in 1 .. k - 1 : g[m] = IF p[m] = 0 THEN base[m] ELSE comb[<<m, g[p[m]]>>]
  BY <1>5
<1> DEFINE v == IF p[k] = 0 THEN base[k] ELSE comb[<<k, g[p[k]]>>]
           h == [m \in 1 .. k |-> IF m = k THEN v ELSE g[m]]
<1>7. v \in Nat
  <2>1. k \in 1 .. N /\ p[k] \in Nat /\ p[k] < k
    BY <1>2, <1>3
  <2>2. CASE p[k] = 0
    BY <2>1, <2>2
  <2>3. CASE p[k] # 0
    <3>1. p[k] \in 1 .. k - 1
      BY <2>1, <2>3, <1>2
    <3>2. <<k, g[p[k]]>> \in (1 .. N) \X Nat
      BY <3>1, <2>1, <1>6
    <3> QED
      BY <3>2, <2>3
  <2> QED
    BY <2>2, <2>3
<1> HIDE DEF v
<1>8. h \in [1 .. k -> Nat]
  BY <1>7, <1>6, <1>2
<1>9. ASSUME NEW m \in 1 .. k
      PROVE  h[m] = IF p[m] = 0 THEN base[m] ELSE comb[<<m, h[p[m]]>>]
  <2>1. m \in 1 .. N /\ p[m] \in Nat /\ p[m] < m
    BY <1>2
  <2>2. p[m] # 0 => p[m] \in 1 .. k /\ p[m] # k /\ h[p[m]] = g[p[m]]
    BY <2>1, <1>2
  <2>3. CASE m = k
    <3>1. h[m] = v
      BY <2>3
    <3> QED
      BY <3>1, <2>2, <2>3 DEF v
  <2>4. CASE m # k
    <3>1. m \in 1 .. k - 1 /\ h[m] = g[m]
      BY <2>4, <1>2
    <3> QED
      BY <3>1, <2>2, <1>6
  <2> QED
    BY <2>3, <2>4
<1>10. G(k)
  <2> HIDE DEF h
  <2> QED
    BY <1>8, <1>9
<1> QED
  BY <1>2, <1>10

(* How deep a node is, from its directory's depth.                         *)
Tier(p) == CHOOSE depth : depth = [m \in DOMAIN p |-> IF p[m] = 0 THEN 1 ELSE 1 + depth[p[m]]]

LEMMA TierIs ==
  ASSUME NEW p \in Seq(Nat), \A m \in DOMAIN p : p[m] < m
  PROVE  \A m \in DOMAIN p : /\ Tier(p)[m] \in Nat
                             /\ Tier(p)[m] = IF p[m] = 0 THEN 1 ELSE 1 + Tier(p)[p[m]]
<1> DEFINE N == Len(p)
           comb == [x \in (1 .. N) \X Nat |-> 1 + x[2]]
           base == [m \in 1 .. N |-> 1]
<1>1. N \in Nat /\ DOMAIN p = 1 .. N /\ p \in [1 .. N -> Nat] /\ \A m \in 1 .. N : p[m] < m
  OBVIOUS
<1>2. comb \in [(1 .. N) \X Nat -> Nat] /\ base \in [1 .. N -> Nat]
  OBVIOUS
<1>3. \A m \in 1 .. N : \A v \in Nat : comb[<<m, v>>] = 1 + v /\ base[m] = 1
  OBVIOUS
<1> HIDE DEF comb, base, N
<1>4. PICK h \in [1 .. N -> Nat] :
        \A m \in 1 .. N : h[m] = IF p[m] = 0 THEN base[m] ELSE comb[<<m, h[p[m]]>>]
  <2>1. Below(N, p, base, comb)
    BY <1>1, <1>2, Downward
  <2> QED
    BY <2>1 DEF Below
<1>5. \A m \in 1 .. N : /\ h[m] \in Nat
                        /\ h[m] = IF p[m] = 0 THEN 1 ELSE 1 + h[p[m]]
  <2> SUFFICES ASSUME NEW m \in 1 .. N
               PROVE  h[m] \in Nat /\ h[m] = IF p[m] = 0 THEN 1 ELSE 1 + h[p[m]]
    OBVIOUS
  <2>1. p[m] # 0 => p[m] \in 1 .. N
    BY <1>1
  <2>2. p[m] # 0 => h[p[m]] \in Nat
    BY <2>1
  <2> QED
    BY <2>2, <1>3, <1>4
<1>6. h = [m \in DOMAIN p |-> IF p[m] = 0 THEN 1 ELSE 1 + h[p[m]]]
  BY <1>1, <1>5
<1> DEFINE d == Tier(p)
<1>7. d = [m \in DOMAIN p |-> IF p[m] = 0 THEN 1 ELSE 1 + d[p[m]]]
  BY <1>6, Zenon DEF Tier
<1> HIDE DEF d
<1>8. \A m \in 1 .. N : d[m] = IF p[m] = 0 THEN 1 ELSE 1 + d[p[m]]
  BY <1>1, <1>7
<1>9. \A m \in 1 .. N : d[m] = h[m]
  <2> DEFINE B == {m \in 1 .. N : d[m] # h[m]}
  <2> SUFFICES ASSUME NEW n \in B PROVE FALSE
    OBVIOUS
  <2>1. PICK k \in B : \A j \in B : k <= j
    <3>1. B \in SUBSET Nat
      BY <1>1
    <3> HIDE DEF B
    <3> QED
      BY <3>1, Edits!Least
  <2>2. k \in 1 .. N /\ d[k] # h[k] /\ p[k] \in Nat /\ p[k] < k
    BY <1>1
  <2>3. p[k] # 0 => p[k] \in 1 .. N /\ d[p[k]] = h[p[k]]
    BY <2>1, <2>2, <1>1
  <2> QED
    BY <2>2, <2>3, <1>5, <1>8
<1> QED
  BY <1>1, <1>5, <1>8, <1>9 DEF d

LEMMA DepthIs ==
  ASSUME Tree!IsTree(tree), NEW n \in Tree!Nodes
  PROVE  /\ Tree!Depth(n) \in Nat
         /\ Tree!Depth(n) = IF tree.parent[n] = 0 THEN 1 ELSE 1 + Tree!Depth(tree.parent[n])
<1> DEFINE p == tree.parent
<1>1. /\ p \in Seq(Nat) /\ \A m \in DOMAIN p : p[m] < m
      /\ n \in DOMAIN p
  BY DEF Tree!IsTree, Tree!Nodes
<1>2. \A m : Tree!Depth(m) = Tier(p)[m]
  BY Zenon DEF Tree!Depth, Tier, Tree!Nodes
<1> QED
  BY <1>1, <1>2, TierIs

LEMMA OpenIs ==
  ASSUME Tree!IsTree(tree), NEW n \in Tree!Nodes
  PROVE  Tree!Open(n) <=> /\ Tree!Listable(n)
                          /\ tree.parent[n] # 0 => /\ Tree!Open(tree.parent[n])
                                                   /\ tree.parent[n] \notin walk.missed
<1> DEFINE p == tree.parent
           N == Len(p)
           M == walk.missed
           comb == [x \in (1 .. N) \X Nat |->
                      IF Tree!Listable(x[1]) /\ p[x[1]] \notin M /\ x[2] = 1 THEN 1 ELSE 0]
           base == [m \in 1 .. N |-> IF Tree!Listable(m) THEN 1 ELSE 0]
<1>1. n \in DOMAIN p /\ Tree!Nodes = DOMAIN p /\ N \in Nat /\ DOMAIN p = 1 .. N /\ p \in [1 .. N -> Nat] /\ \A m \in 1 .. N : p[m] < m
  BY DEF Tree!IsTree, Tree!Nodes
<1>2. comb \in [(1 .. N) \X Nat -> Nat] /\ base \in [1 .. N -> Nat]
  OBVIOUS
<1>3. \A m \in 1 .. N : \A v \in Nat :
        /\ comb[<<m, v>>] = 1 <=> Tree!Listable(m) /\ p[m] \notin M /\ v = 1
        /\ base[m] = 1 <=> Tree!Listable(m)
  OBVIOUS
<1> HIDE DEF comb, base, N
<1>4. PICK h \in [1 .. N -> Nat] :
        \A m \in 1 .. N : h[m] = IF p[m] = 0 THEN base[m] ELSE comb[<<m, h[p[m]]>>]
  <2>1. Below(N, p, base, comb)
    BY <1>1, <1>2, Downward
  <2> QED
    BY <2>1 DEF Below
<1>5. \A m \in 1 .. N : h[m] = 1 <=> Tree!Listable(m) /\ (p[m] # 0 => h[p[m]] = 1 /\ p[m] \notin M)
  <2> SUFFICES ASSUME NEW m \in 1 .. N
               PROVE  h[m] = 1 <=> Tree!Listable(m) /\ (p[m] # 0 => h[p[m]] = 1 /\ p[m] \notin M)
    OBVIOUS
  <2>1. p[m] # 0 => p[m] \in 1 .. N
    BY <1>1
  <2>2. p[m] # 0 => h[p[m]] \in Nat
    BY <2>1
  <2> QED
    BY <2>2, <1>3, <1>4
<1> DEFINE o == [m \in DOMAIN p |-> h[m] = 1]
<1>6. o = [m \in DOMAIN p |-> Tree!Listable(m) /\ (p[m] # 0 => o[p[m]] /\ p[m] \notin M)]
  <2>1. ASSUME NEW m \in DOMAIN p
        PROVE  (h[m] = 1) = (Tree!Listable(m) /\ (p[m] # 0 => o[p[m]] /\ p[m] \notin M))
    <3>1. p[m] # 0 => p[m] \in DOMAIN p
      BY <1>1
    <3>2. p[m] # 0 => (o[p[m]] <=> h[p[m]] = 1)
      BY <3>1, Zenon
    <3>3. h[m] = 1 <=> Tree!Listable(m) /\ (p[m] # 0 => h[p[m]] = 1 /\ p[m] \notin M)
      BY <1>1, <1>5, Zenon
    <3> HIDE DEF o
    <3> QED
      BY <3>2, <3>3, Zenon
  <2> QED
    BY <2>1, Zenon
<1> DEFINE r == CHOOSE open :
                  open = [m \in Tree!Nodes |-> /\ Tree!Listable(m)
                                               /\ tree.parent[m] # 0 =>
                                                    /\ open[tree.parent[m]]
                                                    /\ tree.parent[m] \notin walk.missed]
<1>7. \A m : Tree!Open(m) = r[m]
  BY Zenon DEF Tree!Open
<1>8. r = [m \in Tree!Nodes |-> /\ Tree!Listable(m)
                                /\ tree.parent[m] # 0 =>
                                     /\ r[tree.parent[m]]
                                     /\ tree.parent[m] \notin walk.missed]
  <2>1. o = [m \in Tree!Nodes |-> /\ Tree!Listable(m)
                                  /\ tree.parent[m] # 0 =>
                                       /\ o[tree.parent[m]]
                                       /\ tree.parent[m] \notin walk.missed]
    BY <1>1, <1>6, Zenon
  <2> HIDE DEF o
  <2> QED
    BY <2>1, Zenon
<1> HIDE DEF r
<1>9. r[n] <=> /\ Tree!Listable(n)
               /\ tree.parent[n] # 0 => r[tree.parent[n]] /\ tree.parent[n] \notin walk.missed
  BY <1>8, Zenon
<1> QED
  BY <1>7, <1>9, Zenon

(* Nodes in the order of their names.                                      *)
LEMMA ByNameFacts ==
  ASSUME NEW N \in Nat, NEW S \in SUBSET (1 .. N)
  PROVE  /\ IsFiniteSet(S) /\ Cardinality(S) \in Nat
         /\ Tree!ByName(S) \in Seq(S) /\ Len(Tree!ByName(S)) = Cardinality(S)
         /\ IsInjective(Tree!ByName(S)) /\ ToSet(Tree!ByName(S)) = S
<1>0. /\ \A i, j \in 1 .. Cardinality(S) : i < j => Edits!Nth(S, i) < Edits!Nth(S, j)
      /\ \A s \in S : \E i \in 1 .. Cardinality(S) : s = Edits!Nth(S, i)
  BY Edits!NthInOrder, SameCounts
<1> DEFINE c == Cardinality(S)
           b == Tree!ByName(S)
<1>1. IsFiniteSet(S) /\ c \in Nat
  <2>1. 1 \in Int /\ N \in Int
    OBVIOUS
  <2>2. IsFiniteSet(1 .. N)
    BY <2>1, FS_Interval
  <2> QED
    BY <2>2, FS_Subset, FS_CardinalityType
<1>2. b = [i \in 1 .. c |-> Edits!Nth(S, i)]
  BY DEF Tree!ByName, Edits!Nth, Tree!Cardinality, Edits!Cardinality, Cardinality
<1> HIDE DEF b, c
<1>3. \A i \in 1 .. c : Edits!Nth(S, i) \in S
  BY <1>1, Edits!NthFacts, SameCounts DEF c
<1>4. b \in Seq(S) /\ Len(b) = c /\ DOMAIN b = 1 .. c /\ \A i \in 1 .. c : b[i] = Edits!Nth(S, i)
  BY <1>1, <1>2, <1>3
<1>5. IsInjective(b)
  <2>1. ASSUME NEW i \in 1 .. c, NEW j \in 1 .. c, b[i] = b[j] PROVE i = j
    <3>1. Edits!Nth(S, i) \in Nat /\ Edits!Nth(S, i) = Edits!Nth(S, j)
      <4>1. Edits!Nth(S, i) \in S /\ Edits!Nth(S, i) = Edits!Nth(S, j)
        BY <1>3, <1>4, <2>1
      <4>2. \A s \in S : s \in Nat
        OBVIOUS
      <4> QED
        BY <4>1, <4>2
    <3>2. ~(i < j) /\ ~(j < i)
      BY <3>1, <2>1, <1>0 DEF c
    <3> QED
      BY <3>2, <1>1
  <2> QED
    BY <2>1, <1>4 DEF IsInjective
<1>6. ToSet(b) = S
  <2>1. \A s \in S : \E i \in 1 .. c : s = b[i]
    BY <1>0, <1>4 DEF c
  <2>2. \A i \in 1 .. c : b[i] \in S
    BY <1>3, <1>4
  <2>3. ToSet(b) = {b[i] : i \in 1 .. c}
    BY <1>4, Zenon DEF ToSet
  <2> QED
    BY <2>1, <2>2, <2>3
<1> QED
  BY <1>1, <1>4, <1>5, <1>6 DEF b, c

(* One list behind another, cut lists, and lists without their first.      *)
LEMMA JoinFacts ==
  ASSUME NEW A, NEW s \in Seq(A), NEW t \in Seq(A)
  PROVE  /\ s \o t \in Seq(A) /\ Len(s \o t) = Len(s) + Len(t)
         /\ ToSet(s \o t) = ToSet(s) \cup ToSet(t)
         /\ IsInjective(s) /\ IsInjective(t) /\ ToSet(s) \cap ToSet(t) = {} => IsInjective(s \o t)
<1> DEFINE r == s \o t
<1>1. /\ r \in Seq(A) /\ Len(r) = Len(s) + Len(t) /\ Len(s) \in Nat /\ Len(t) \in Nat
      /\ DOMAIN s = 1 .. Len(s) /\ DOMAIN t = 1 .. Len(t) /\ DOMAIN r = 1 .. Len(s) + Len(t)
      /\ \A i \in 1 .. Len(s) : r[i] = s[i]
      /\ \A i \in Len(s) + 1 .. Len(s) + Len(t) : r[i] = t[i - Len(s)]
  OBVIOUS
<1> HIDE DEF r
<1>2. ASSUME NEW i \in DOMAIN r
      PROVE  \/ i \in DOMAIN s /\ r[i] = s[i]
             \/ i - Len(s) \in DOMAIN t /\ r[i] = t[i - Len(s)] /\ i \notin DOMAIN s
  BY <1>1
<1>3. ToSet(r) \subseteq ToSet(s) \cup ToSet(t)
  BY <1>2, Zenon DEF ToSet
<1>4. ToSet(s) \subseteq ToSet(r)
  <2>1. \A i \in DOMAIN s : i \in DOMAIN r /\ r[i] = s[i]
    BY <1>1
  <2> QED
    BY <2>1, Zenon DEF ToSet
<1>5. ToSet(t) \subseteq ToSet(r)
  <2>1. ASSUME NEW i \in DOMAIN t PROVE \E j \in DOMAIN r : r[j] = t[i]
    <3>1. i + Len(s) \in DOMAIN r /\ i + Len(s) \in Len(s) + 1 .. Len(s) + Len(t) /\ (i + Len(s)) - Len(s) = i
      BY <1>1
    <3> QED
      BY <3>1, <1>1
  <2> QED
    BY <2>1, Zenon DEF ToSet
<1>6. ASSUME IsInjective(s), IsInjective(t), ToSet(s) \cap ToSet(t) = {},
             NEW i \in DOMAIN r, NEW j \in DOMAIN r, r[i] = r[j]
      PROVE  i = j
  <2>1. \A x \in DOMAIN s, y \in DOMAIN t : s[x] # t[y]
    BY <1>6, Zenon DEF ToSet
  <2>2. CASE i \in DOMAIN s /\ j \in DOMAIN s
    BY <2>2, <1>6, <1>1 DEF IsInjective
  <2>3. CASE i \notin DOMAIN s /\ j \notin DOMAIN s
    <3>1. i - Len(s) \in DOMAIN t /\ j - Len(s) \in DOMAIN t /\ t[i - Len(s)] = t[j - Len(s)]
      BY <2>3, <1>2, <1>6
    <3>2. i - Len(s) = j - Len(s)
      BY <3>1, <1>6, Zenon DEF IsInjective
    <3> QED
      BY <3>2, <1>1
  <2>4. CASE i \in DOMAIN s /\ j \notin DOMAIN s
    BY <2>4, <2>1, <1>2, <1>6
  <2>5. CASE i \notin DOMAIN s /\ j \in DOMAIN s
    BY <2>5, <2>1, <1>2, <1>6
  <2> QED
    BY <2>2, <2>3, <2>4, <2>5
<1>7. IsInjective(s) /\ IsInjective(t) /\ ToSet(s) \cap ToSet(t) = {} => IsInjective(r)
  BY <1>6, Zenon DEF IsInjective
<1> QED
  BY <1>1, <1>3, <1>4, <1>5, <1>7 DEF r

LEMMA AtMostFacts ==
  ASSUME NEW A, NEW s \in Seq(A), NEW k \in Nat
  PROVE  /\ Tree!AtMost(s, k) \in Seq(A)
         /\ Len(Tree!AtMost(s, k)) = IF Len(s) > k THEN k ELSE Len(s)
         /\ DOMAIN Tree!AtMost(s, k) = 1 .. Len(Tree!AtMost(s, k))
         /\ \A i \in DOMAIN Tree!AtMost(s, k) : i \in DOMAIN s /\ Tree!AtMost(s, k)[i] = s[i]
         /\ IsInjective(s) => IsInjective(Tree!AtMost(s, k))
<1> DEFINE n == IF Len(s) > k THEN k ELSE Len(s)
           r == SubSeq(s, 1, n)
<1>1. n \in 0 .. Len(s) /\ Len(s) \in Nat
  OBVIOUS
<1>2. n \in Nat /\ n <= Len(s)
  BY <1>1
<1>3. Tree!AtMost(s, k) = r
  BY Zenon DEF Tree!AtMost
<1> HIDE DEF n
<1>4. /\ r \in Seq(A) /\ Len(r) = n /\ DOMAIN r = 1 .. n
      /\ \A i \in 1 .. n : i \in DOMAIN s /\ r[i] = s[i]
  BY <1>1, <1>2
<1> HIDE DEF r
<1>5. IsInjective(s) => IsInjective(r)
  BY <1>4, Zenon DEF IsInjective
<1> QED
  BY <1>3, <1>4, <1>5 DEF n

(* Directories first.                                                      *)
LEMMA SortedFacts ==
  ASSUME NEW N \in Nat, NEW S \in SUBSET (1 .. N)
  PROVE  /\ Tree!Sorted(S) \in Seq(S) /\ IsInjective(Tree!Sorted(S))
         /\ ToSet(Tree!Sorted(S)) = S /\ Len(Tree!Sorted(S)) = Cardinality(S)
<1> DEFINE D == Tree!Directories(S)
           R == S \ D
<1>1. D \subseteq S
  BY DEF Tree!Directories
<1>2. Tree!Sorted(S) = Tree!ByName(D) \o Tree!ByName(R)
  BY DEF Tree!Sorted
<1> HIDE DEF D
<1>3. D \in SUBSET (1 .. N) /\ R \in SUBSET (1 .. N)
  BY <1>1
<1> HIDE DEF R
<1> DEFINE s == Tree!ByName(D)
           t == Tree!ByName(R)
<1>4. /\ IsFiniteSet(D) /\ Cardinality(D) \in Nat
      /\ s \in Seq(D) /\ Len(s) = Cardinality(D) /\ IsInjective(s) /\ ToSet(s) = D
  BY <1>3, ByNameFacts
<1>5. /\ IsFiniteSet(R) /\ Cardinality(R) \in Nat
      /\ t \in Seq(R) /\ Len(t) = Cardinality(R) /\ IsInjective(t) /\ ToSet(t) = R
  BY <1>3, ByNameFacts
<1> HIDE DEF s, t
<1>6. D \cap R = {} /\ D \cup R = S
  BY <1>1 DEF R
<1>7. s \in Seq(S) /\ t \in Seq(S)
  BY <1>4, <1>5, <1>6
<1>8. /\ s \o t \in Seq(S) /\ Len(s \o t) = Len(s) + Len(t)
      /\ ToSet(s \o t) = ToSet(s) \cup ToSet(t) /\ IsInjective(s \o t)
  BY <1>4, <1>5, <1>6, <1>7, JoinFacts
<1>9. Cardinality(S) = Cardinality(D) + Cardinality(R)
  <2>1. IsFiniteSet(S) /\ Cardinality(S) \in Nat
    BY ByNameFacts
  <2>2. Cardinality(S \ D) = Cardinality(S) - Cardinality(S \cap D)
    BY <2>1, FS_Difference
  <2>3. S \cap D = D /\ S \ D = R
    BY <1>6
  <2>4. Cardinality(R) = Cardinality(S) - Cardinality(D)
    BY <2>2, <2>3, Zenon
  <2> QED
    BY <2>1, <2>4, <1>4, <1>5
<1> QED
  BY <1>2, <1>4, <1>5, <1>6, <1>8, <1>9 DEF s, t

(* What a walk shows of a directory, of which so much fits.                *)
Shows(S, k, shown, dirs) ==
  /\ shown \in Seq(S) /\ IsInjective(shown)
  /\ Len(shown) <= k /\ Len(shown) <= Cardinality(S)
  /\ Len(shown) < Cardinality(S) => Len(shown) = k /\ \E m \in S : m \notin ToSet(shown)
  /\ ~(Len(shown) < Cardinality(S)) => ToSet(shown) = S
  /\ dirs \in Seq(S) /\ IsInjective(dirs)
  /\ ToSet(dirs) = Tree!Directories(ToSet(shown))

LEMMA ShownFacts ==
  ASSUME NEW N \in Nat, NEW S \in SUBSET (1 .. N), NEW k \in Nat
  PROVE  Shows(S, k, Tree!AtMost(Tree!Sorted(S), k),
               Tree!AtMost(Tree!ByName(Tree!Directories(S)), k))
<1> DEFINE D == Tree!Directories(S)
           R == S \ D
           s == Tree!ByName(D)
           t == Tree!ByName(R)
           z == Tree!Sorted(S)
           shown == Tree!AtMost(z, k)
           dirs == Tree!AtMost(s, k)
<1>1. D = {n \in S : Tree!Kind(n) = "directory"}
  BY DEF Tree!Directories
<1>2. z = s \o t
  BY DEF Tree!Sorted
<1>3. /\ z \in Seq(S) /\ IsInjective(z) /\ ToSet(z) = S /\ Len(z) = Cardinality(S)
  BY SortedFacts
<1>4. /\ shown \in Seq(S) /\ Len(shown) = (IF Len(z) > k THEN k ELSE Len(z))
      /\ DOMAIN shown = 1 .. Len(shown)
      /\ \A i \in DOMAIN shown : i \in DOMAIN z /\ shown[i] = z[i]
      /\ IsInjective(shown)
  BY <1>3, AtMostFacts
<1> HIDE DEF D
<1>5. D \in SUBSET (1 .. N) /\ R \in SUBSET (1 .. N)
  BY <1>1
<1> HIDE DEF R
<1>6. s \in Seq(D) /\ IsInjective(s) /\ ToSet(s) = D
  BY <1>5, ByNameFacts
<1>7. t \in Seq(R) /\ ToSet(t) = R
  BY <1>5, ByNameFacts
<1>8. /\ dirs \in Seq(D) /\ Len(dirs) = (IF Len(s) > k THEN k ELSE Len(s))
      /\ DOMAIN dirs = 1 .. Len(dirs)
      /\ \A i \in DOMAIN dirs : i \in DOMAIN s /\ dirs[i] = s[i]
      /\ IsInjective(dirs)
  BY <1>6, AtMostFacts
<1> HIDE DEF s, t, z, shown, dirs
<1>9. /\ Len(z) \in Nat /\ Len(shown) \in Nat /\ Len(dirs) \in Nat /\ Len(s) \in Nat /\ Len(t) \in Nat
      /\ DOMAIN z = 1 .. Len(z) /\ DOMAIN s = 1 .. Len(s) /\ DOMAIN t = 1 .. Len(t)
      /\ Len(z) = Len(s) + Len(t)
      /\ \A i \in 1 .. Len(s) : z[i] = s[i]
      /\ \A i \in Len(s) + 1 .. Len(z) : z[i] = t[i - Len(s)]
  BY <1>2, <1>3, <1>4, <1>6, <1>7, <1>8
<1>10. ASSUME Len(shown) < Cardinality(S)
       PROVE  Len(shown) = k /\ \E m \in S : m \notin ToSet(shown)
  <2> DEFINE i == Len(shown) + 1
  <2>1. Len(shown) = k /\ i \in DOMAIN z /\ i \notin DOMAIN shown
    BY <1>10, <1>3, <1>4, <1>9
  <2> HIDE DEF i
  <2>2. z[i] \in S
    BY <2>1, <1>3
  <2>3. \A j \in DOMAIN shown : shown[j] # z[i]
    BY <2>1, <1>3, <1>4, Zenon DEF IsInjective
  <2>4. z[i] \notin ToSet(shown)
    BY <2>3, Zenon DEF ToSet
  <2> QED
    BY <2>1, <2>2, <2>4
<1>11. ASSUME ~(Len(shown) < Cardinality(S)) PROVE ToSet(shown) = S
  <2>1. DOMAIN shown = DOMAIN z
    BY <1>11, <1>3, <1>4, <1>9
  <2>2. ToSet(shown) = {z[i] : i \in DOMAIN z}
    BY <2>1, <1>4 DEF ToSet
  <2> QED
    BY <2>2, <1>3, Zenon DEF ToSet
<1>12. dirs \in Seq(S)
  BY <1>8, <1>1
<1>13. \A i \in DOMAIN dirs : i \in DOMAIN shown /\ shown[i] = dirs[i]
  BY <1>4, <1>8, <1>9
<1>14. ToSet(dirs) \subseteq Tree!Directories(ToSet(shown))
  <2>1. ASSUME NEW i \in DOMAIN dirs PROVE dirs[i] \in Tree!Directories(ToSet(shown))
    <3>1. dirs[i] \in D
      BY <1>8
    <3>2. dirs[i] \in ToSet(shown)
      BY <1>13, Zenon DEF ToSet
    <3> QED
      BY <3>1, <3>2, <1>1 DEF Tree!Directories
  <2> QED
    BY <2>1, Zenon DEF ToSet
<1>15. Tree!Directories(ToSet(shown)) \subseteq ToSet(dirs)
  <2>1. ASSUME NEW i \in DOMAIN shown, Tree!Kind(shown[i]) = "directory"
        PROVE  i \in DOMAIN dirs /\ dirs[i] = shown[i]
    <3>1. i \in DOMAIN z /\ shown[i] = z[i] /\ z[i] \in S
      BY <1>3, <1>4
    <3>2. z[i] \in D
      BY <3>1, <2>1, <1>1
    <3>3. i \in DOMAIN s
      <4> SUFFICES ASSUME i \notin DOMAIN s PROVE FALSE
        OBVIOUS
      <4>1. i - Len(s) \in DOMAIN t /\ z[i] = t[i - Len(s)]
        BY <3>1, <1>9
      <4>2. z[i] \in R
        BY <4>1, <1>7
      <4> QED
        BY <4>2, <3>2 DEF R
    <3> QED
      BY <3>1, <3>3, <1>4, <1>8, <1>9
  <2>2. \A x \in Tree!Directories(ToSet(shown)) :
          \E i \in DOMAIN shown : x = shown[i] /\ Tree!Kind(shown[i]) = "directory"
    BY DEF Tree!Directories, ToSet
  <2> QED
    BY <2>1, <2>2, Zenon DEF ToSet
<1>16. Len(shown) <= k /\ Len(shown) <= Cardinality(S)
  BY <1>3, <1>4, <1>9
<1>17. Shows(S, k, shown, dirs)
  BY <1>4, <1>8, <1>10, <1>11, <1>12, <1>14, <1>15, <1>16 DEF Shows
<1> QED
  BY <1>17 DEF shown, dirs, z, s, D

LEMMA TailFacts ==
  ASSUME NEW A, NEW s \in Seq(A), s # <<>>
  PROVE  /\ Tail(s) \in Seq(A) /\ Head(s) = s[1] /\ 1 \in DOMAIN s /\ Head(s) \in ToSet(s)
         /\ \A i \in DOMAIN Tail(s) : i + 1 \in DOMAIN s /\ Tail(s)[i] = s[i + 1]
         /\ IsInjective(s) => IsInjective(Tail(s)) /\ ToSet(Tail(s)) = ToSet(s) \ {Head(s)}
<1> DEFINE t == Tail(s)
<1>1. /\ t \in Seq(A) /\ Head(s) = s[1] /\ Len(s) \in Nat /\ Len(s) > 0
      /\ DOMAIN s = 1 .. Len(s) /\ DOMAIN t = 1 .. Len(s) - 1
      /\ \A i \in 1 .. Len(s) - 1 : t[i] = s[i + 1]
  OBVIOUS
<1> HIDE DEF t
<1>2. 1 \in DOMAIN s /\ \A i \in DOMAIN t : i \in Int /\ i + 1 \in DOMAIN s /\ i + 1 # 1 /\ t[i] = s[i + 1]
  BY <1>1
<1>3. Head(s) \in ToSet(s)
  BY <1>1, <1>2, Zenon DEF ToSet
<1>4. ASSUME IsInjective(s) PROVE IsInjective(t) /\ ToSet(t) = ToSet(s) \ {Head(s)}
  <2>1. \A i, j \in DOMAIN s : s[i] = s[j] => i = j
    BY <1>4, Zenon DEF IsInjective
  <2>2. ASSUME NEW i \in DOMAIN t, NEW j \in DOMAIN t, t[i] = t[j] PROVE i = j
    <3>1. i + 1 = j + 1 /\ i \in Int /\ j \in Int
      BY <1>2, <2>1, <2>2
    <3> QED
      BY <3>1
  <2>3. ASSUME NEW i \in DOMAIN t PROVE t[i] \in ToSet(s) /\ t[i] # Head(s)
    <3>1. s[i + 1] \in ToSet(s) /\ s[i + 1] # s[1]
      BY <1>2, <2>1, Zenon DEF ToSet
    <3> QED
      BY <3>1, <1>1, <1>2
  <2>4. ASSUME NEW j \in DOMAIN s, s[j] # Head(s) PROVE \E i \in DOMAIN t : t[i] = s[j]
    <3>1. j # 1
      BY <1>1, <2>4
    <3>2. j - 1 \in DOMAIN t /\ j - 1 \in 1 .. Len(s) - 1 /\ (j - 1) + 1 = j
      BY <3>1, <1>1
    <3> QED
      BY <3>2, <1>1
  <2>5. ToSet(t) = {t[i] : i \in DOMAIN t} /\ ToSet(s) = {s[i] : i \in DOMAIN s}
    BY Zenon DEF ToSet
  <2>6. ToSet(t) \subseteq ToSet(s) \ {Head(s)}
    BY <2>3, <2>5
  <2>7. ToSet(s) \ {Head(s)} \subseteq ToSet(t)
    BY <2>4, <2>5
  <2> QED
    BY <2>2, <2>6, <2>7, Zenon DEF IsInjective
<1> QED
  BY <1>1, <1>2, <1>3, <1>4 DEF t

Deep(n) == IF n = 0 THEN 0 ELSE Tree!Depth(n)

(* What a walk has left out although it read the directory that holds it.  *)
LeftOut(w, m) ==
  /\ m \in Tree!Nodes \ ToSet(w.entries) /\ Tree!Listable(m)
  /\ tree.parent[m] \in {0} \cup ToSet(w.entries)
  /\ tree.parent[m] \notin ToSet(w.queue) \cup w.missed

WalkTypes(w) ==
  w \in [step : {"idle", "walking", "done", "listed"},
         queue : Seq(Tree!Nodes \cup {0}), entries : Seq(Tree!Nodes), omitted : Nat,
         truncated : BOOLEAN, missed : SUBSET Tree!Nodes]

(* What is listed was found below what is listed, and its directory is     *)
(* read.                                                                   *)
ListedBelow(w, e) ==
  /\ Tree!Listable(e)
  /\ tree.parent[e] \in {0} \cup ToSet(w.entries)
  /\ tree.parent[e] \notin ToSet(w.queue) \cup w.missed

(* What waits is the root or a directory that is listed.                   *)
WaitsListed(w, q) ==
  q = 0 \/ (q \in ToSet(w.entries) /\ Tree!Kind(q) = "directory")

(* Directories wait in the order of their depths, with at most one level   *)
(* between what is listed and what waits: nothing is left out above what   *)
(* is listed.                                                              *)
Breadth(w) ==
  /\ Len(w.entries) <= limit /\ IsInjective(w.entries) /\ IsInjective(w.queue)
  /\ \A e \in ToSet(w.entries) : ListedBelow(w, e)
  /\ \A q \in ToSet(w.queue) : WaitsListed(w, q)
  /\ w.missed \subseteq ToSet(w.entries) /\ w.missed \cap ToSet(w.queue) = {}
  /\ \A i, j \in DOMAIN w.queue : i < j => Deep(w.queue[i]) <= Deep(w.queue[j])
  /\ \A e \in ToSet(w.entries), q \in ToSet(w.queue) : Deep(e) <= Deep(q) + 1
  /\ \A m \in Tree!Nodes :
       LeftOut(w, m) => w.truncated /\ \A e \in ToSet(w.entries) : Deep(e) <= Deep(m)
  /\ w.truncated => Len(w.entries) = limit /\ \E m \in Tree!Nodes : LeftOut(w, m)

TreeInv ==
  /\ Tree!IsTree(tree) /\ tree \in Trees
  /\ gone \subseteq Tree!Nodes /\ limit \in 1 .. MaxEntries
  /\ WalkTypes(walk)
  /\ walk.step \in {"walking", "done"} => Breadth(walk)
  /\ walk.step = "done" => walk.queue = <<>>

LEMMA DeepIs ==
  ASSUME Tree!IsTree(tree)
  PROVE  /\ 0 \notin Tree!Nodes /\ Tree!Nodes \subseteq Nat
         /\ \E N \in Nat : Tree!Nodes = 1 .. N
         /\ \A n \in Tree!Nodes \cup {0} : Deep(n) \in Nat
         /\ \A n \in Tree!Nodes : /\ tree.parent[n] \in Tree!Nodes \cup {0}
                                  /\ tree.parent[n] < n
                                  /\ Deep(n) = 1 + Deep(tree.parent[n])
                                  /\ tree.parent[n] # 0 => Tree!Kind(tree.parent[n]) = "directory"
<1>1. tree.parent \in Seq(Nat) /\ Tree!Nodes = DOMAIN tree.parent
  BY DEF Tree!IsTree, Tree!Nodes
<1>2. Len(tree.parent) \in Nat /\ Tree!Nodes = 1 .. Len(tree.parent)
  BY <1>1
<1>3. \A n \in Tree!Nodes : /\ tree.parent[n] \in Nat /\ tree.parent[n] < n
                            /\ tree.parent[n] # 0 => Tree!Kind(tree.parent[n]) = "directory"
  BY <1>1 DEF Tree!IsTree, Tree!Kind
<1>4. \A n \in Tree!Nodes : tree.parent[n] \in Tree!Nodes \cup {0}
  BY <1>2, <1>3
<1>5. ASSUME NEW n \in Tree!Nodes
      PROVE  Deep(n) \in Nat /\ Deep(n) = 1 + Deep(tree.parent[n])
  <2>1. n # 0
    BY <1>2
  <2>2. /\ Tree!Depth(n) \in Nat
        /\ Tree!Depth(n) = IF tree.parent[n] = 0 THEN 1 ELSE 1 + Tree!Depth(tree.parent[n])
    BY DepthIs
  <2> QED
    BY <2>1, <2>2 DEF Deep
<1>6. Deep(0) \in Nat
  BY DEF Deep
<1> QED
  BY <1>2, <1>3, <1>4, <1>5, <1>6

(* One directory that can be read.                                         *)
ReadTo(w, d, found, shown, dirs, r) ==
  /\ w.queue # <<>> /\ d = Head(w.queue)
  /\ found = {n \in Tree!Children(d) : Tree!Listable(n)}
  /\ Shows(found, limit - Len(w.entries), shown, dirs)
  /\ r.missed = w.missed
  /\ r.entries = w.entries \o shown
  /\ r.queue = Tail(w.queue) \o dirs
  /\ r.truncated <=> w.truncated \/ Len(shown) < Cardinality(found)

LEMMA ReadKeeps ==
  ASSUME Tree!IsTree(tree), limit \in Nat, NEW w, WalkTypes(w), Breadth(w), NEW d, NEW found,
         NEW shown, NEW dirs, NEW r, ReadTo(w, d, found, shown, dirs, r)
  PROVE  Breadth(r)
<1> DEFINE E == ToSet(w.entries)
           Q == ToSet(w.queue)
           P == ToSet(Tail(w.queue))
           S == ToSet(shown)
           D == ToSet(dirs)
<1>1. /\ 0 \notin Tree!Nodes /\ Tree!Nodes \subseteq Nat
      /\ \A n \in Tree!Nodes \cup {0} : Deep(n) \in Nat
      /\ \A n \in Tree!Nodes : /\ tree.parent[n] \in Tree!Nodes \cup {0}
                               /\ tree.parent[n] < n
                               /\ Deep(n) = 1 + Deep(tree.parent[n])
                               /\ tree.parent[n] # 0 => Tree!Kind(tree.parent[n]) = "directory"
  BY DeepIs
<1>2. /\ w.entries \in Seq(Tree!Nodes) /\ w.queue \in Seq(Tree!Nodes \cup {0})
      /\ w.truncated \in BOOLEAN /\ w.missed \subseteq Tree!Nodes
  BY DEF WalkTypes
<1>3. /\ d \in Q /\ P = Q \ {d} /\ Tail(w.queue) \in Seq(Tree!Nodes \cup {0})
      /\ IsInjective(Tail(w.queue)) /\ Head(w.queue) = w.queue[1] /\ 1 \in DOMAIN w.queue
      /\ \A i \in DOMAIN Tail(w.queue) :
           i + 1 \in DOMAIN w.queue /\ Tail(w.queue)[i] = w.queue[i + 1]
  BY <1>2, TailFacts DEF Breadth, ReadTo
<1>4. /\ S = {shown[i] : i \in DOMAIN shown} /\ D = {dirs[i] : i \in DOMAIN dirs}
      /\ Q = {w.queue[i] : i \in DOMAIN w.queue}
      /\ P = {Tail(w.queue)[i] : i \in DOMAIN Tail(w.queue)}
      /\ E = {w.entries[i] : i \in DOMAIN w.entries}
  BY Zenon DEF ToSet
<1>5. /\ shown \in Seq(found) /\ IsInjective(shown) /\ dirs \in Seq(found) /\ IsInjective(dirs)
      /\ S \subseteq found
      /\ D = {m \in S : Tree!Kind(m) = "directory"}
  <2>1. /\ shown \in Seq(found) /\ IsInjective(shown) /\ dirs \in Seq(found) /\ IsInjective(dirs)
        /\ D = Tree!Directories(S)
    BY DEF Shows, ReadTo
  <2> QED
    BY <2>1, <1>4 DEF Tree!Directories
<1>6. \A n \in found : /\ n \in Tree!Nodes /\ tree.parent[n] = d /\ Tree!Listable(n)
                       /\ Deep(n) = 1 + Deep(d) /\ n # d
  <2>1. \A n \in found : n \in Tree!Nodes /\ tree.parent[n] = d /\ Tree!Listable(n)
    BY DEF Tree!Children, ReadTo
  <2> SUFFICES ASSUME NEW n \in found
               PROVE  /\ n \in Tree!Nodes /\ tree.parent[n] = d /\ Tree!Listable(n)
                      /\ Deep(n) = 1 + Deep(d) /\ n # d
    OBVIOUS
  <2>2. n \in Tree!Nodes /\ tree.parent[n] = d /\ Tree!Listable(n)
    BY <2>1
  <2>3. Deep(n) = 1 + Deep(d) /\ d < n /\ n \in Nat
    BY <2>2, <1>1
  <2>4. d \in Nat
    <3>1. d \in Tree!Nodes \cup {0}
      BY <2>2, <1>1
    <3>2. Tree!Nodes \cup {0} \subseteq Nat
      BY <1>1
    <3> QED
      BY <3>1, <3>2
  <2> QED
    BY <2>2, <2>3, <2>4
<1>7. \A m \in Tree!Nodes : tree.parent[m] = d /\ Tree!Listable(m) => m \in found
  BY DEF Tree!Children, ReadTo
<1>8. /\ ToSet(r.entries) = E \cup S /\ Len(r.entries) = Len(w.entries) + Len(shown)
      /\ E \cap S = {} => IsInjective(r.entries)
  <2>1. shown \in Seq(Tree!Nodes) /\ IsInjective(w.entries)
    BY <1>5, <1>6 DEF Breadth
  <2> QED
    BY <2>1, <1>2, <1>5, JoinFacts DEF ReadTo
<1>9. /\ ToSet(r.queue) = P \cup D
      /\ P \cap D = {} => IsInjective(r.queue)
  <2>1. dirs \in Seq(Tree!Nodes \cup {0})
    BY <1>5, <1>6
  <2> DEFINE v == Tail(w.queue)
             A == Tree!Nodes \cup {0}
  <2>2. r.queue = v \o dirs
    BY DEF ReadTo
  <2>3. v \in Seq(A) /\ dirs \in Seq(A) /\ IsInjective(v) /\ IsInjective(dirs)
    BY <2>1, <1>3, <1>5
  <2> HIDE DEF v, A
  <2>4. /\ ToSet(v \o dirs) = ToSet(v) \cup ToSet(dirs)
        /\ ToSet(v) \cap ToSet(dirs) = {} => IsInjective(v \o dirs)
    BY <2>3, JoinFacts
  <2> QED
    BY <2>2, <2>4 DEF v
<1>10. /\ Len(w.entries) \in Nat /\ Len(shown) \in Nat /\ Len(w.entries) <= limit
       /\ Len(shown) <= limit - Len(w.entries)
       /\ Len(shown) < Cardinality(found) =>
            Len(shown) = limit - Len(w.entries) /\ \E m \in found : m \notin S
       /\ ~(Len(shown) < Cardinality(found)) => S = found
  BY <1>2, <1>5 DEF Shows, Breadth, ReadTo
<1> HIDE DEF S, D, P
<1>11. /\ \A e \in E : ListedBelow(w, e)
       /\ \A q \in Q : WaitsListed(w, q)
       /\ w.missed \subseteq E /\ w.missed \cap Q = {}
       /\ \A e \in E, q \in Q : Deep(e) <= Deep(q) + 1
       /\ \A m \in Tree!Nodes : LeftOut(w, m) => w.truncated /\ \A e \in E : Deep(e) <= Deep(m)
       /\ w.truncated => Len(w.entries) = limit /\ \E m \in Tree!Nodes : LeftOut(w, m)
       /\ \A i, j \in DOMAIN w.queue : i < j => Deep(w.queue[i]) <= Deep(w.queue[j])
  BY Zenon DEF Breadth
<1>12. E \subseteq Tree!Nodes /\ Q \subseteq Tree!Nodes \cup {0} /\ d \in {0} \cup E
  <2>1. E \subseteq Tree!Nodes /\ Q \subseteq Tree!Nodes \cup {0}
    BY <1>2, <1>4
  <2> QED
    BY <2>1, <1>3, <1>11 DEF WaitsListed
<1> HIDE DEF E, Q
<1>13. \A e \in E : /\ Tree!Listable(e) /\ tree.parent[e] \in {0} \cup E
                    /\ tree.parent[e] \notin Q /\ tree.parent[e] \notin w.missed
  BY <1>11 DEF ListedBelow, E, Q
<1>14. found \cap E = {} /\ D \subseteq S /\ S \cap E = {} /\ D \cap P = {} /\ 0 \notin found
  <2>1. found \cap E = {} /\ 0 \notin found
    BY <1>1, <1>3, <1>6, <1>13
  <2>2. D \subseteq S /\ S \cap E = {}
    BY <2>1, <1>5
  <2>3. \A q \in Q : q = 0 \/ q \in E
    BY <1>11 DEF WaitsListed, E
  <2> QED
    BY <2>1, <2>2, <2>3, <1>3, <1>5
<1>15. \A e \in E \cup S : ListedBelow(r, e)
  <2>1. r.missed = w.missed
    BY DEF ReadTo
  <2>2. ASSUME NEW e \in E
        PROVE  tree.parent[e] \notin P \cup D
    <3>1. tree.parent[e] \in {0} \cup E /\ tree.parent[e] \notin Q
      BY <1>13
    <3> QED
      BY <3>1, <1>3, <1>5, <1>14
  <2>3. ASSUME NEW e \in S
        PROVE  /\ Tree!Listable(e) /\ tree.parent[e] \in {0} \cup E
               /\ tree.parent[e] \notin P \cup D /\ tree.parent[e] \notin w.missed
    <3>1. tree.parent[e] = d /\ Tree!Listable(e) /\ d \notin found
      BY <1>5, <1>6
    <3>2. d \notin w.missed /\ d \notin P /\ d \notin D
      BY <3>1, <1>3, <1>5, <1>11
    <3> QED
      BY <3>1, <3>2, <1>12
  <2> QED
    BY <2>1, <2>2, <2>3, <1>8, <1>9, <1>13 DEF ListedBelow
<1>16. \A q \in P \cup D : WaitsListed(r, q)
  <2>1. \A q \in P : WaitsListed(w, q)
    BY <1>3, <1>11
  <2> QED
    BY <2>1, <1>5, <1>8 DEF WaitsListed, E
<1>17. r.missed \subseteq E \cup S /\ r.missed \cap (P \cup D) = {}
  <2>1. r.missed = w.missed
    BY DEF ReadTo
  <2> QED
    BY <2>1, <1>3, <1>5, <1>11, <1>14
<1>18. /\ Deep(d) \in Nat /\ \A q \in Q : Deep(q) \in Nat /\ Deep(d) <= Deep(q)
       /\ \A q \in Q : Deep(q) <= Deep(d) + 1
       /\ \A e \in E : Deep(e) \in Nat /\ Deep(e) <= Deep(d) + 1
       /\ \A e \in found : Deep(e) = Deep(d) + 1
  <2>1. Deep(d) \in Nat /\ \A q \in Q : Deep(q) \in Nat
    BY <1>1, <1>3, <1>12
  <2>2. \A e \in E : Deep(e) \in Nat /\ Deep(e) <= Deep(d) + 1
    BY <1>1, <1>3, <1>11, <1>12
  <2>3. ASSUME NEW q \in Q PROVE Deep(d) <= Deep(q)
    <3>1. PICK i \in DOMAIN w.queue : q = w.queue[i]
      BY <1>4
    <3>2. d = w.queue[1]
      BY <1>3 DEF ReadTo
    <3>3. i = 1 \/ 1 < i
      BY <1>2
    <3> QED
      BY <3>1, <3>2, <3>3, <2>1, <1>3, <1>11
  <2>4. ASSUME NEW q \in Q PROVE Deep(q) <= Deep(d) + 1
    <3>1. CASE q \in E
      BY <3>1, <2>2
    <3>2. CASE q = 0
      BY <3>2, <2>1 DEF Deep
    <3> QED
      BY <3>1, <3>2, <1>11 DEF WaitsListed, E
  <2>5. \A e \in found : Deep(e) = Deep(d) + 1
    BY <1>6, <2>1
  <2> QED
    BY <2>1, <2>2, <2>3, <2>4, <2>5
<1>19. \A e \in E \cup S, q \in P \cup D : Deep(e) <= Deep(q) + 1
  <2> SUFFICES ASSUME NEW e \in E \cup S, NEW q \in P \cup D PROVE Deep(e) <= Deep(q) + 1
    OBVIOUS
  <2>1. Deep(e) \in Nat /\ Deep(e) <= Deep(d) + 1
    BY <1>18, <1>5
  <2>2. Deep(q) \in Nat /\ Deep(d) <= Deep(q)
    BY <1>18, <1>3, <1>5
  <2> QED
    BY <2>1, <2>2, <1>18
<1>20. \A i, j \in DOMAIN r.queue : i < j => Deep(r.queue[i]) <= Deep(r.queue[j])
  <2> DEFINE v == Tail(w.queue)
  <2>1. r.queue = v \o dirs /\ v \in Seq(Tree!Nodes \cup {0}) /\ dirs \in Seq(found)
    BY <1>3, <1>5 DEF ReadTo
  <2>2. \A i \in DOMAIN v : i + 1 \in DOMAIN w.queue /\ v[i] = w.queue[i + 1] /\ v[i] \in Q
    BY <1>3, <1>4
  <2> HIDE DEF v
  <2>3. \A i \in DOMAIN r.queue :
          \/ i \in DOMAIN v /\ r.queue[i] = v[i]
          \/ i \in Nat /\ i > Len(v) /\ r.queue[i] \in found
    BY <2>1
  <2>4. DOMAIN v = 1 .. Len(v) /\ Len(v) \in Nat
    BY <2>1
  <2> SUFFICES ASSUME NEW i \in DOMAIN r.queue, NEW j \in DOMAIN r.queue, i < j
               PROVE  Deep(r.queue[i]) <= Deep(r.queue[j])
    OBVIOUS
  <2>5. CASE i \in DOMAIN v /\ j \in DOMAIN v
    <3>1. r.queue[i] = w.queue[i + 1] /\ r.queue[j] = w.queue[j + 1] /\ i + 1 < j + 1
      BY <2>2, <2>3, <2>4, <2>5
    <3> QED
      BY <3>1, <2>2, <2>5, <1>11
  <2>6. CASE i \in DOMAIN v /\ j \notin DOMAIN v
    <3>1. r.queue[i] \in Q /\ r.queue[j] \in found
      BY <2>2, <2>3, <2>4, <2>6
    <3> QED
      BY <3>1, <1>18
  <2>7. CASE i \notin DOMAIN v
    <3>1. r.queue[i] \in found /\ r.queue[j] \in found
      BY <2>3, <2>4, <2>7
    <3> QED
      BY <3>1, <1>18
  <2> QED
    BY <2>5, <2>6, <2>7
<1>21. ASSUME NEW m \in Tree!Nodes, LeftOut(r, m)
       PROVE  r.truncated /\ \A e \in E \cup S : Deep(e) <= Deep(m)
  <2>1. /\ m \notin E \cup S /\ Tree!Listable(m)
        /\ tree.parent[m] \in {0} \cup (E \cup S)
        /\ tree.parent[m] \notin P \cup D /\ tree.parent[m] \notin w.missed
    BY <1>8, <1>9, <1>21 DEF LeftOut, ReadTo
  <2>2. CASE tree.parent[m] = d
    <3>1. m \in found /\ m \notin S
      BY <2>1, <2>2, <1>7
    <3>2. r.truncated
      BY <3>1, <1>10 DEF ReadTo
    <3>3. \A e \in E \cup S : Deep(e) <= Deep(m)
      BY <3>1, <1>5, <1>18
    <3> QED
      BY <3>2, <3>3
  <2>3. CASE tree.parent[m] # d
    <3>1. tree.parent[m] \notin S
      <4> SUFFICES ASSUME tree.parent[m] \in S PROVE FALSE
        OBVIOUS
      <4>1. tree.parent[m] # 0
        BY <1>5, <1>14
      <4>2. Tree!Kind(tree.parent[m]) = "directory"
        BY <4>1, <1>1
      <4> QED
        BY <4>2, <2>1, <1>5
    <3>2. tree.parent[m] \in {0} \cup E /\ tree.parent[m] \notin Q
      BY <2>1, <2>3, <3>1, <1>3
    <3>3. LeftOut(w, m)
      BY <2>1, <3>2 DEF LeftOut, E, Q
    <3>4. w.truncated /\ (\A e \in E : Deep(e) <= Deep(m)) /\ Len(w.entries) = limit
      BY <3>3, <1>11
    <3>5. S = {}
      <4>1. Len(shown) = 0
        BY <3>4, <1>10
      <4> QED
        BY <4>1, <1>4, <1>5 DEF S
    <3>6. r.truncated
      BY <3>4 DEF ReadTo
    <3> QED
      BY <3>4, <3>5, <3>6
  <2> QED
    BY <2>2, <2>3
<1>22. ASSUME r.truncated
       PROVE  Len(r.entries) = limit /\ \E m \in Tree!Nodes : LeftOut(r, m)
  <2>1. CASE w.truncated
    <3>1. Len(w.entries) = limit
      BY <2>1, <1>11
    <3>2. PICK m \in Tree!Nodes : LeftOut(w, m)
      BY <2>1, <1>11
    <3>3. Len(shown) = 0
      BY <3>1, <1>10
    <3>4. S = {}
      BY <3>3, <1>4, <1>5 DEF S
    <3>5. /\ m \notin E /\ Tree!Listable(m) /\ tree.parent[m] \in {0} \cup E
          /\ tree.parent[m] \notin Q /\ tree.parent[m] \notin w.missed
      BY <3>2 DEF LeftOut, E, Q
    <3>6. /\ m \notin E \cup S /\ tree.parent[m] \in {0} \cup (E \cup S)
          /\ tree.parent[m] \notin P \cup D
      BY <3>4, <3>5, <1>3, <1>5
    <3>7. LeftOut(r, m)
      BY <3>5, <3>6, <1>8, <1>9 DEF LeftOut, ReadTo
    <3> QED
      BY <3>1, <3>3, <3>7, <1>8, <1>10
  <2>2. CASE ~w.truncated
    <3>1. Len(shown) < Cardinality(found)
      BY <2>2, <1>22 DEF ReadTo
    <3>2. PICK m \in found : m \notin S
      BY <3>1, <1>10
    <3>3. Len(shown) = limit - Len(w.entries)
      BY <3>1, <1>10
    <3>4. m \in Tree!Nodes /\ tree.parent[m] = d /\ Tree!Listable(m) /\ m \notin E
      BY <1>6, <1>14
    <3>5. d \notin P \cup D /\ d \notin w.missed /\ d \in {0} \cup E
      BY <1>3, <1>5, <1>6, <1>11, <1>12
    <3>6. LeftOut(r, m)
      BY <3>2, <3>4, <3>5, <1>8, <1>9 DEF LeftOut, ReadTo
    <3> QED
      BY <3>3, <3>4, <3>6, <1>8, <1>10
  <2> QED
    BY <2>1, <2>2
<1> QED
  <2>1. Len(r.entries) <= limit
    BY <1>8, <1>10
  <2>2. IsInjective(r.entries) /\ IsInjective(r.queue)
    BY <1>8, <1>9, <1>14
  <2> QED
    BY <2>1, <2>2, <1>8, <1>9, <1>15, <1>16, <1>17, <1>19, <1>20, <1>21, <1>22, Zenon DEF Breadth

(* One directory that cannot be read.                                      *)
LEMMA MissKeeps ==
  ASSUME Tree!IsTree(tree), NEW w, WalkTypes(w), Breadth(w), w.queue # <<>>,
         NEW d, d = Head(w.queue), d \in Tree!Nodes,
         NEW r, r.missed = w.missed \cup {d}, r.entries = w.entries, r.queue = Tail(w.queue),
         r.truncated = w.truncated
  PROVE  Breadth(r)
<1> DEFINE E == ToSet(w.entries)
           Q == ToSet(w.queue)
           P == ToSet(Tail(w.queue))
<1>1. 0 \notin Tree!Nodes
  BY DeepIs
<1>2. w.queue \in Seq(Tree!Nodes \cup {0})
  BY DEF WalkTypes
<1>3. /\ d \in Q /\ P = Q \ {d} /\ IsInjective(Tail(w.queue))
      /\ \A i \in DOMAIN Tail(w.queue) :
           i + 1 \in DOMAIN w.queue /\ Tail(w.queue)[i] = w.queue[i + 1]
      /\ Len(w.queue) \in Nat /\ DOMAIN w.queue = 1 .. Len(w.queue)
      /\ DOMAIN Tail(w.queue) = 1 .. Len(w.queue) - 1
  BY <1>2, TailFacts DEF Breadth
<1>4. /\ Len(w.entries) <= limit /\ IsInjective(w.entries)
      /\ \A e \in E : ListedBelow(w, e)
      /\ \A q \in Q : WaitsListed(w, q)
      /\ w.missed \subseteq E /\ w.missed \cap Q = {}
      /\ \A e \in E, q \in Q : Deep(e) <= Deep(q) + 1
      /\ \A m \in Tree!Nodes : LeftOut(w, m) => w.truncated /\ \A e \in E : Deep(e) <= Deep(m)
      /\ w.truncated => Len(w.entries) = limit /\ \E m \in Tree!Nodes : LeftOut(w, m)
      /\ \A i, j \in DOMAIN w.queue : i < j => Deep(w.queue[i]) <= Deep(w.queue[j])
  BY Zenon DEF Breadth
<1>5. ToSet(r.entries) = E /\ ToSet(r.queue) = P
  OBVIOUS
<1> HIDE DEF E, Q, P
<1>6. \A e \in E : ListedBelow(r, e)
  BY <1>3, <1>4, <1>5 DEF ListedBelow, E, Q
<1>7. \A q \in P : WaitsListed(r, q)
  BY <1>3, <1>4, <1>5 DEF WaitsListed, E
<1>8. r.missed \subseteq E /\ r.missed \cap P = {}
  <2>1. d \in E
    BY <1>1, <1>3, <1>4 DEF WaitsListed, E
  <2> QED
    BY <2>1, <1>3, <1>4
<1>9. \A i, j \in DOMAIN r.queue : i < j => Deep(r.queue[i]) <= Deep(r.queue[j])
  BY <1>3, <1>4
<1>10. \A m : LeftOut(r, m) <=> LeftOut(w, m)
  BY <1>3, <1>5 DEF LeftOut, E, Q
<1> QED
  BY <1>3, <1>4, <1>5, <1>6, <1>7, <1>8, <1>9, <1>10 DEF Breadth

LEMMA TreeInitInv == Tree!TreeInit => TreeInv
BY TreesAssumption DEF Tree!TreeInit, Tree!Idle, TreeInv, WalkTypes

(* The folder is the same before and after every step.                     *)
LEMMA SameTree ==
  ASSUME tree' = tree, limit' = limit
  PROVE  /\ Tree!Nodes' = Tree!Nodes
         /\ (Tree!IsTree(tree))' = Tree!IsTree(tree)
         /\ \A w : /\ WalkTypes(w)' = WalkTypes(w)
                   /\ Breadth(w)' = Breadth(w)
<1>1. Tree!Nodes' = Tree!Nodes
  BY DEF Tree!Nodes
<1>2. \A n : Deep(n)' = Deep(n)
  BY <1>1 DEF Deep, Tree!Depth
<1>3. \A w, m : /\ LeftOut(w, m)' = LeftOut(w, m)
                /\ ListedBelow(w, m)' = ListedBelow(w, m)
                /\ WaitsListed(w, m)' = WaitsListed(w, m)
  BY <1>1 DEF LeftOut, ListedBelow, WaitsListed, Tree!Listable, Tree!Hidden, Tree!Kind
<1> QED
  BY <1>1, <1>2, <1>3 DEF WalkTypes, Breadth, Tree!IsTree

LEMMA TreeStays ==
  ASSUME TreeInv, UNCHANGED treeVars PROVE TreeInv'
BY SameTree DEF TreeInv, treeVars

LEMMA ReadDirectoryInv == ASSUME TreeInv, Tree!ReadDirectory PROVE TreeInv'
<1> DEFINE d     == Head(walk.queue)
           found == {n \in Tree!Children(d) : Tree!Listable(n)}
           room  == limit - Len(walk.entries)
           shown == Tree!AtMost(Tree!Sorted(found), room)
           dirs  == Tree!AtMost(Tree!ByName(Tree!Directories(found)), room)
<1>1. /\ walk.step = "walking" /\ walk.queue # <<>>
      /\ tree' = tree /\ gone' = gone /\ limit' = limit
  BY DEF Tree!ReadDirectory
<1>2. /\ Tree!IsTree(tree) /\ limit \in Nat /\ gone \subseteq Tree!Nodes
      /\ WalkTypes(walk) /\ Breadth(walk)
  BY <1>1, TreesAssumption DEF TreeInv
<1>3. /\ walk.queue \in Seq(Tree!Nodes \cup {0}) /\ walk.entries \in Seq(Tree!Nodes)
      /\ walk.missed \subseteq Tree!Nodes /\ walk.omitted \in Nat /\ walk.truncated \in BOOLEAN
      /\ Len(walk.entries) \in Nat /\ Len(walk.entries) <= limit
  BY <1>2 DEF WalkTypes, Breadth
<1>4. d \in Tree!Nodes \cup {0} /\ Tail(walk.queue) \in Seq(Tree!Nodes \cup {0})
  BY <1>1, <1>3, TailFacts
<1>5. WalkTypes(walk') /\ Breadth(walk') /\ walk'.step = "walking"
  <2>1. CASE d \in gone
    <3>1. walk' = [[walk EXCEPT !.queue = Tail(@)] EXCEPT !.omitted = @ + 1, !.missed = @ \cup {d}]
      BY <2>1 DEF Tree!ReadDirectory
    <3> HIDE DEF d
    <3>2. /\ walk'.step = "walking" /\ walk'.queue = Tail(walk.queue) /\ walk'.entries = walk.entries
          /\ walk'.missed = walk.missed \cup {d} /\ walk'.truncated = walk.truncated
      BY <3>1, <1>1, <1>2 DEF WalkTypes
    <3>3. WalkTypes(walk')
      <4>1. walk.missed \cup {d} \subseteq Tree!Nodes /\ walk.omitted + 1 \in Nat
        BY <2>1, <1>2, <1>3
      <4>2. walk' = [walk EXCEPT !.queue = Tail(walk.queue), !.omitted = walk.omitted + 1,
                                 !.missed = walk.missed \cup {d}]
        BY <3>1, <1>2 DEF WalkTypes
      <4> QED
        BY <4>1, <4>2, <1>2, <1>4 DEF WalkTypes
    <3>4. d = Head(walk.queue) /\ d \in Tree!Nodes
      BY <2>1, <1>2 DEF d
    <3>5. Breadth(walk')
      BY <3>2, <3>4, <1>1, <1>2, MissKeeps
    <3> QED
      BY <3>2, <3>3, <3>5
  <2>2. CASE d \notin gone
    <3>1. walk' = [[walk EXCEPT !.queue = Tail(@)] EXCEPT
                     !.entries = @ \o shown,
                     !.queue = Tree!Queued(@, dirs),
                     !.truncated = @ \/ Len(shown) < Tree!Cardinality(found),
                     !.omitted = @ + Tree!Cardinality(Tree!Children(d)) - Len(shown)]
      BY <2>2 DEF Tree!ReadDirectory
    <3>2. PICK N \in Nat : Tree!Nodes = 1 .. N
      BY <1>2, DeepIs
    <3>3. found \subseteq Tree!Children(d) /\ Tree!Children(d) \subseteq Tree!Nodes
      BY DEF Tree!Children
    <3>4. room \in Nat
      BY <1>2, <1>3
    <3>5. Shows(found, room, shown, dirs)
      <4> HIDE DEF found, room
      <4> QED
        BY <3>2, <3>3, <3>4, ShownFacts
    <3> HIDE DEF shown, dirs
    <3>6. shown \in Seq(Tree!Nodes) /\ dirs \in Seq(Tree!Nodes \cup {0})
      BY <3>3, <3>5 DEF Shows
    <3>7. /\ Cardinality(found) \in Nat /\ Cardinality(Tree!Children(d)) \in Nat
          /\ Cardinality(found) <= Cardinality(Tree!Children(d))
          /\ Len(shown) \in Nat /\ Len(shown) <= Cardinality(found)
      <4>1. Tree!Children(d) \in SUBSET (1 .. N)
        BY <3>2, <3>3
      <4>2. IsFiniteSet(Tree!Children(d)) /\ Cardinality(Tree!Children(d)) \in Nat
        BY <4>1, ByNameFacts
      <4>3. Cardinality(found) \in Nat /\ Cardinality(found) <= Cardinality(Tree!Children(d))
        BY <4>2, <3>3, FS_Subset, FS_CardinalityType
      <4> QED
        BY <4>2, <4>3, <3>5, <3>6 DEF Shows
    <3> DEFINE children == Tree!Children(d)
               full == Len(shown) < Cardinality(found)
               left == Cardinality(children) - Len(shown)
    <3>8. walk' = [[walk EXCEPT !.queue = Tail(@)] EXCEPT
                     !.entries = @ \o shown,
                     !.queue = @ \o dirs,
                     !.truncated = @ \/ full,
                     !.omitted = @ + Cardinality(children) - Len(shown)]
      BY <3>1, SameCounts DEF Tree!Queued
    <3>9. full \in BOOLEAN /\ Len(shown) \in Nat /\ Cardinality(children) \in Nat
          /\ Len(shown) <= Cardinality(children)
      BY <3>7
    <3> HIDE DEF full, children
    <3>10. /\ walk'.step = "walking" /\ walk'.queue = Tail(walk.queue) \o dirs
           /\ walk'.entries = walk.entries \o shown
           /\ walk'.missed = walk.missed /\ walk'.truncated = (walk.truncated \/ full)
           /\ walk'.omitted = walk.omitted + Cardinality(children) - Len(shown)
      BY <3>8, <1>1, <1>2 DEF WalkTypes
    <3>11. WalkTypes(walk')
      <4> DEFINE omitted == walk.omitted + Cardinality(children) - Len(shown)
                 queue == Tail(walk.queue) \o dirs
                 entries == walk.entries \o shown
                 truncated == walk.truncated \/ full
      <4>1. omitted \in Nat
        BY <3>9, <1>3
      <4>2. queue \in Seq(Tree!Nodes \cup {0}) /\ entries \in Seq(Tree!Nodes)
        BY <3>6, <1>3, <1>4
      <4>3. truncated \in BOOLEAN
        BY <3>9, <1>3
      <4>4. walk' = [walk EXCEPT !.queue = queue, !.entries = entries,
                                 !.truncated = truncated, !.omitted = omitted]
        BY <3>8, <1>2 DEF WalkTypes
      <4> HIDE DEF omitted, queue, entries, truncated
      <4> QED
        BY <4>1, <4>2, <4>3, <4>4, <1>2 DEF WalkTypes
    <3>12. ReadTo(walk, d, found, shown, dirs, walk')
      BY <3>5, <3>10, <1>1 DEF ReadTo, full
    <3>13. Breadth(walk')
      <4> HIDE DEF d, found
      <4> QED
        BY <3>12, <1>2, ReadKeeps
    <3> QED
      BY <3>10, <3>11, <3>13
  <2> QED
    BY <2>1, <2>2
<1> QED
  BY <1>1, <1>2, <1>5, SameTree DEF TreeInv

LEMMA TreeNextInv == ASSUME TreeInv, Tree!TreeNext PROVE TreeInv'
<1>1. /\ Tree!IsTree(tree) /\ gone \subseteq Tree!Nodes /\ WalkTypes(walk)
      /\ tree \in Trees /\ limit \in 1 .. MaxEntries
  BY DEF TreeInv
<1>2. CASE Tree!projectTree
  <2>1. /\ walk' = [step |-> "walking", queue |-> <<0>>, entries |-> <<>>, omitted |-> 0,
                    truncated |-> FALSE, missed |-> {}]
        /\ tree' \in Trees /\ gone' = {} /\ limit' = limit
    BY <1>2 DEF Tree!projectTree, Tree!Idle
  <2>2. WalkTypes(walk)'
    <3>1. 0 \in Tree!Nodes' \cup {0} /\ FALSE \in BOOLEAN
      OBVIOUS
    <3>2. <<0>> \in Seq(Tree!Nodes' \cup {0}) /\ <<>> \in Seq(Tree!Nodes')
      BY <3>1
    <3> QED
      BY <2>1, <3>1, <3>2 DEF WalkTypes
  <2>3. Breadth(walk)'
    <3>1. ToSet(walk'.queue) = {0} /\ ToSet(walk'.entries) = {}
      BY <2>1 DEF ToSet
    <3>2. \A m : ~LeftOut(walk, m)'
      BY <3>1 DEF LeftOut
    <3>3. Len(walk'.entries) <= limit' /\ IsInjective(walk'.entries) /\ IsInjective(walk'.queue)
      BY <2>1, <1>1, TreesAssumption DEF IsInjective
    <3>4. \A i, j \in DOMAIN walk'.queue : ~(i < j)
      BY <2>1
    <3> QED
      BY <2>1, <3>1, <3>2, <3>3, <3>4 DEF Breadth, WaitsListed
  <2>4. Tree!IsTree(tree)'
    BY <2>1, TreesAssumption DEF Tree!IsTree
  <2> QED
    BY <1>1, <2>1, <2>2, <2>3, <2>4 DEF TreeInv
<1>3. CASE Tree!Walked
  <2>1. /\ walk.step = "walking" /\ walk.queue = <<>> /\ walk' = [walk EXCEPT !.step = "done"]
        /\ tree' = tree /\ gone' = gone /\ limit' = limit
    BY <1>3 DEF Tree!Walked
  <2>2. WalkTypes(walk') /\ walk'.queue = <<>>
    BY <1>1, <2>1 DEF WalkTypes
  <2>3. /\ walk'.entries = walk.entries /\ walk'.queue = walk.queue
        /\ walk'.missed = walk.missed /\ walk'.truncated = walk.truncated
    BY <1>1, <2>1 DEF WalkTypes
  <2>4. Breadth(walk)
    BY <2>1 DEF TreeInv
  <2>5. Breadth(walk')
    BY <2>3, <2>4 DEF Breadth, LeftOut, ListedBelow, WaitsListed
  <2> QED
    BY <1>1, <2>1, <2>2, <2>5, SameTree DEF TreeInv
<1>4. ASSUME NEW d, Tree!listDirectory(d) PROVE TreeInv'
  <2> DEFINE found == {n \in Tree!Children(d) : ~Tree!Hidden(n)}
             rest == Tree!Children(d) \ found
  <2>1. /\ tree' = tree /\ gone' = gone /\ limit' = limit
        /\ walk' = [Tree!Idle EXCEPT !.step = "listed",
                                     !.entries = Tree!AtMost(Tree!Sorted(found), limit),
                                     !.truncated = Cardinality(found) > limit,
                                     !.omitted = Cardinality(rest)]
    BY <1>4, SameCounts DEF Tree!listDirectory
  <2>2. PICK N \in Nat : Tree!Nodes = 1 .. N
    BY <1>1, DeepIs
  <2>3. found \in SUBSET (1 .. N) /\ rest \in SUBSET (1 .. N)
    BY <2>2 DEF Tree!Children
  <2> HIDE DEF found, rest
  <2>4. Tree!Sorted(found) \in Seq(Tree!Nodes)
    <3>1. Tree!Sorted(found) \in Seq(found)
      BY <2>3, SortedFacts
    <3>2. found \subseteq Tree!Nodes
      BY <2>2, <2>3
    <3> QED
      BY <3>1, <3>2
  <2>5. Tree!AtMost(Tree!Sorted(found), limit) \in Seq(Tree!Nodes)
    BY <1>1, <2>4, TreesAssumption, AtMostFacts
  <2>6. Cardinality(rest) \in Nat
    BY <2>3, ByNameFacts
  <2> DEFINE entries == Tree!AtMost(Tree!Sorted(found), limit)
             truncated == Cardinality(found) > limit
             omitted == Cardinality(rest)
  <2>7. truncated \in BOOLEAN
    OBVIOUS
  <2>8. walk' = [step |-> "listed", queue |-> <<>>, entries |-> entries, omitted |-> omitted,
                 truncated |-> truncated, missed |-> {}]
    BY <2>1 DEF Tree!Idle
  <2> HIDE DEF entries, truncated, omitted
  <2>9. WalkTypes(walk') /\ walk'.step = "listed"
    BY <2>5, <2>6, <2>7, <2>8 DEF WalkTypes, entries, omitted
  <2> QED
    BY <1>1, <2>1, <2>9, SameTree DEF TreeInv
<1>5. ASSUME NEW d \in Tree!Nodes, Tree!Vanishes(d) PROVE TreeInv'
  <2>1. tree' = tree /\ limit' = limit /\ walk' = walk /\ gone' \subseteq Tree!Nodes
    BY <1>1, <1>5 DEF Tree!Vanishes
  <2> QED
    BY <2>1, SameTree DEF TreeInv
<1> QED
  BY <1>2, <1>3, <1>4, <1>5, ReadDirectoryInv DEF Tree!TreeNext

(* A node that is left out has an ancestor that is left out first; the     *)
(* least one names what is wrong, if anything is.                          *)
LEMMA TreeTold == TreeInv => TreeIsTrue /\ Tree!TreeTypeOK
<1> SUFFICES ASSUME TreeInv PROVE TreeIsTrue /\ Tree!TreeTypeOK
  OBVIOUS
<1>1. Tree!TreeTypeOK
  BY DEF TreeInv, WalkTypes, Tree!TreeTypeOK
<1>2. ASSUME walk.step = "done"
      PROVE  LET listed == ToSet(walk.entries) IN
             /\ Len(walk.entries) <= limit /\ IsInjective(walk.entries)
             /\ \A n \in listed : Tree!Open(n)
             /\ \A n \in {m \in Tree!Nodes : Tree!Open(m)} \ listed :
                  \A e \in listed : Tree!Depth(e) <= Tree!Depth(n)
             /\ walk.truncated <=> \E n \in Tree!Nodes \ listed : Tree!Open(n)
  <2> DEFINE E == ToSet(walk.entries)
  <2>1. /\ Tree!IsTree(tree) /\ Breadth(walk) /\ walk.queue = <<>> /\ WalkTypes(walk)
    BY <1>2 DEF TreeInv
  <2>2. /\ 0 \notin Tree!Nodes /\ Tree!Nodes \subseteq Nat
        /\ \A n \in Tree!Nodes \cup {0} : Deep(n) \in Nat
        /\ \A n \in Tree!Nodes : /\ tree.parent[n] \in Tree!Nodes \cup {0}
                                 /\ tree.parent[n] < n
                                 /\ Deep(n) = 1 + Deep(tree.parent[n])
                                 /\ n \in Nat /\ tree.parent[n] \in Nat
    <3>1. /\ 0 \notin Tree!Nodes /\ Tree!Nodes \subseteq Nat
          /\ \A n \in Tree!Nodes \cup {0} : Deep(n) \in Nat
          /\ \A n \in Tree!Nodes : /\ tree.parent[n] \in Tree!Nodes \cup {0}
                                   /\ tree.parent[n] < n
                                   /\ Deep(n) = 1 + Deep(tree.parent[n])
      BY <2>1, DeepIs
    <3>2. Tree!Nodes \cup {0} \subseteq Nat
      BY <3>1
    <3> QED
      BY <3>1, <3>2
  <2>3. ToSet(walk.queue) = {}
    BY <2>1 DEF ToSet
  <2>4. E \subseteq Tree!Nodes
    <3>1. walk.entries \in Seq(Tree!Nodes)
      BY <2>1 DEF WalkTypes
    <3> QED
      BY <3>1 DEF ToSet
  <2>5. /\ Len(walk.entries) <= limit /\ IsInjective(walk.entries)
        /\ \A e \in E : ListedBelow(walk, e)
        /\ \A m \in Tree!Nodes :
             LeftOut(walk, m) => walk.truncated /\ \A e \in E : Deep(e) <= Deep(m)
        /\ walk.truncated => \E m \in Tree!Nodes : LeftOut(walk, m)
    BY <2>1, Zenon DEF Breadth
  <2> HIDE DEF E
  <2>6. \A e \in E : /\ Tree!Listable(e) /\ tree.parent[e] \in {0} \cup E
                     /\ tree.parent[e] \notin walk.missed
    BY <2>5 DEF ListedBelow, E
  <2>7. \A m : LeftOut(walk, m) <=> /\ m \in Tree!Nodes \ E /\ Tree!Listable(m)
                                    /\ tree.parent[m] \in {0} \cup E
                                    /\ tree.parent[m] \notin walk.missed
    BY <2>3 DEF LeftOut, E
  <2>8. \A n \in Tree!Nodes :
          Tree!Open(n) <=> /\ Tree!Listable(n)
                           /\ tree.parent[n] # 0 => /\ Tree!Open(tree.parent[n])
                                                    /\ tree.parent[n] \notin walk.missed
    BY <2>1, OpenIs
  <2>9. \A e \in E : Tree!Open(e)
    <3> DEFINE B == {e \in E : ~Tree!Open(e)}
    <3> SUFFICES ASSUME NEW x \in B PROVE FALSE
      OBVIOUS
    <3>1. PICK k \in B : \A j \in B : k <= j
      <4>1. B \in SUBSET Nat
        BY <2>2, <2>4
      <4> HIDE DEF B
      <4> QED
        BY <4>1, Edits!Least
    <3>2. k \in E /\ k \in Tree!Nodes /\ ~Tree!Open(k)
      BY <2>4
    <3>3. tree.parent[k] \in {0} \cup E /\ tree.parent[k] < k /\ k \in Nat
          /\ tree.parent[k] \in Nat
      BY <3>2, <2>2, <2>6
    <3>4. tree.parent[k] # 0 => tree.parent[k] \in E /\ Tree!Open(tree.parent[k])
      BY <3>1, <3>3
    <3> QED
      BY <3>2, <3>4, <2>6, <2>8
  <2>10. ASSUME NEW n \in Tree!Nodes \ E, Tree!Open(n)
         PROVE  \E m \in Tree!Nodes : LeftOut(walk, m) /\ Deep(m) <= Deep(n)
    <3> DEFINE B == {m \in Tree!Nodes \ E : Tree!Open(m) /\ Deep(m) <= Deep(n)}
    <3>1. n \in B
      BY <2>2, <2>10
    <3>2. PICK k \in B : \A j \in B : k <= j
      <4>1. B \in SUBSET Nat
        BY <2>2
      <4> HIDE DEF B
      <4> QED
        BY <3>1, <4>1, Edits!Least
    <3>3. k \in Tree!Nodes \ E /\ Tree!Open(k) /\ Deep(k) <= Deep(n)
      OBVIOUS
    <3> DEFINE p == tree.parent[k]
    <3>4. /\ Deep(k) \in Nat /\ Deep(n) \in Nat /\ Deep(p) \in Nat /\ Deep(k) = 1 + Deep(p)
          /\ p \in Tree!Nodes \cup {0} /\ p \in Nat /\ k \in Nat /\ p < k
      BY <3>3, <2>2
    <3>5. Tree!Listable(k) /\ (p # 0 => Tree!Open(p) /\ p \notin walk.missed)
      BY <3>3, <2>8
    <3> HIDE DEF p
    <3>6. p \notin B
      <4> HIDE DEF B
      <4> QED
        BY <3>2, <3>3, <3>4
    <3>7. p # 0 => p \in E
      BY <3>3, <3>4, <3>5, <3>6
    <3>8. 0 \notin walk.missed
      BY <2>1, <2>2 DEF WalkTypes
    <3> QED
      BY <3>3, <3>5, <3>7, <3>8, <2>7 DEF p
  <2>11. ASSUME NEW n \in Tree!Nodes \ E, Tree!Open(n)
         PROVE  walk.truncated /\ \A e \in E : Tree!Depth(e) <= Tree!Depth(n)
    <3>1. PICK m \in Tree!Nodes : LeftOut(walk, m) /\ Deep(m) <= Deep(n)
      BY <2>10, <2>11
    <3>2. walk.truncated /\ \A e \in E : Deep(e) <= Deep(m)
      BY <3>1, <2>5
    <3>3. ASSUME NEW e \in E PROVE Tree!Depth(e) <= Tree!Depth(n)
      <4>1. Deep(e) \in Nat /\ Deep(m) \in Nat /\ Deep(n) \in Nat /\ Deep(e) <= Deep(n)
        <5>1. Deep(e) \in Nat /\ Deep(m) \in Nat /\ Deep(n) \in Nat
          BY <2>2, <2>4
        <5>2. Deep(e) <= Deep(m) /\ Deep(m) <= Deep(n)
          BY <3>1, <3>2
        <5> QED
          BY <5>1, <5>2
      <4>2. e # 0 /\ n # 0
        BY <2>2, <2>4
      <4> QED
        BY <4>1, <4>2 DEF Deep
    <3> QED
      BY <3>2, <3>3
  <2>12. ASSUME walk.truncated PROVE \E n \in Tree!Nodes \ E : Tree!Open(n)
    <3>1. PICK m \in Tree!Nodes : LeftOut(walk, m)
      BY <2>5, <2>12
    <3> QED
      BY <3>1, <2>7, <2>8, <2>9
  <2>13. /\ Len(walk.entries) <= limit /\ IsInjective(walk.entries)
         /\ \A n \in E : Tree!Open(n)
         /\ \A n \in {m \in Tree!Nodes : Tree!Open(m)} \ E :
              \A e \in E : Tree!Depth(e) <= Tree!Depth(n)
         /\ walk.truncated <=> \E n \in Tree!Nodes \ E : Tree!Open(n)
    BY <2>5, <2>9, <2>11, <2>12
  <2> QED
    BY <2>13 DEF E
<1>3. TreeIsTrue
  BY <1>2, SameSets DEF TreeIsTrue, Tree!TreeIsTrue
<1> QED
  BY <1>1, <1>3

-----------------------------------------------------------------------------
(* The parts together.                                                     *)
IInv == CallsInv /\ LoopInv /\ LedgerInv /\ LedgerFlags /\ FolderInv /\ TreeInv

LEMMA InitInv == Init => IInv
BY CallsInitInv, LoopInit, LedgerInit, LedgerFlagsInit, FolderInit, TreeInitInv DEF IInv, Init

LEMMA CallsMove == [Next]_vars => [CallsNext]_toolVars
BY DEF Next, CallsStep, LedgerStep, LoopStep, ReadsStep, TreeStep, vars

LEMMA StepInv == IInv /\ [Next]_vars => IInv'
<1> SUFFICES ASSUME IInv, [Next]_vars PROVE IInv'
  OBVIOUS
<1>1. CallsInv'
  BY CallsMove, CallsStepInv DEF IInv
<1>2. CASE LoopStep
  BY <1>1, <1>2, LoopNextInv, LedgerStays, LedgerFlagsNext, FolderStays, TreeStays
     DEF LoopStep, IInv
<1>3. CASE LedgerStep
  BY <1>1, <1>3, LedgerNextInv, LedgerFlagsNext, LoopStays, FolderStays, TreeStays
     DEF LedgerStep, IInv
<1>4. CASE ReadsStep
  BY <1>1, <1>4, FolderNextInv, LoopStays, LedgerStays, LedgerFlagsNext, TreeStays
     DEF ReadsStep, IInv
<1>5. CASE TreeStep
  BY <1>1, <1>5, TreeNextInv, LoopStays, LedgerStays, LedgerFlagsNext, FolderStays
     DEF TreeStep, IInv
<1>6. CASE CallsStep \/ UNCHANGED vars
  BY <1>1, <1>6, LoopStays, LedgerStays, LedgerFlagsNext, FolderStays, TreeStays
     DEF CallsStep, vars, IInv
<1> QED
  BY <1>2, <1>3, <1>4, <1>5, <1>6 DEF Next

(* The parts' invariants hold in every reachable state.                    *)
THEOREM Invariant == Spec => []IInv
BY InitInv, StepInv, PTL DEF Spec

(* Every variable of the ledger and of the tools that read keeps its type. *)
THEOREM TypeCorrect == Spec => [](Ledger!LedgerTypeOK /\ Folder!ReadsTypeOK /\ Tree!TreeTypeOK)
<1>1. IInv => Ledger!LedgerTypeOK /\ Folder!ReadsTypeOK /\ Tree!TreeTypeOK
  BY LedgerTypeCorrect, FolderTypeCorrect, TreeTold DEF IInv
<1> QED
  BY <1>1, Invariant, PTL

(* However edits, lost messages, reconnects, new sessions, other chats and *)
(* reloads follow one another, a chat that was sent every message of its   *)
(* session was told the rules, and holds line for line what the ledger     *)
(* says it holds in full (ContextLedger.plan, ClipboardCoachProvider).     *)
THEOREM AlwaysInformed == Spec => []ChatIsInformed
<1>1. IInv => ChatIsInformed
  BY DEF IInv, LedgerInv
<1> QED
  BY <1>1, Invariant, PTL

(* Whichever replies are pasted, however late, whichever writes fail and   *)
(* in whatever order they arrive, an open request has a tool at work, a    *)
(* text on its way to the clipboard, or a panel that asks the user for the *)
(* next step (setAwaiting).                                                *)
THEOREM NeverStalls == Spec => []LoopNeverStalls
<1>1. IInv => LoopNeverStalls
  BY DEF IInv, LoopInv
<1> QED
  BY <1>1, Invariant, PTL

(* Whatever is typed, saved, undone, relinked, and written to the disk     *)
(* under unsaved text too, while a tool works, it reports of a name what   *)
(* that name showed or was written under it meanwhile, no name twice; and  *)
(* a search reports the unsaved text there was when it began and no file   *)
(* of the folder less (read_file, search, active_document).  Two names of  *)
(* one file count as two: CountedOnce and BufferWins are false of it.      *)
THEOREM ReportsByName == Spec => []ReportsAreTrue
<1>1. IInv => ReportsAreTrue
  BY DEF IInv, FolderInv
<1> QED
  BY <1>1, Invariant, PTL

(* Whatever the folder holds, whatever the limit and whichever directories *)
(* vanish during the walk, a tree that is cut is cut at its deepest and    *)
(* says so, and lists nothing hidden and nothing twice (projectTree).      *)
THEOREM CutAtItsDeepest == Spec => []TreeIsTrue
<1>1. IInv => TreeIsTrue
  BY TreeTold DEF IInv
<1> QED
  BY <1>1, Invariant, PTL

(* No result arrives at the clipboard by another id than the chat gave its *)
(* own call, or by none while its request is still the one asked           *)
(* (sendToolResult, callIds).                                              *)
THEOREM EveryResultIsNamed == Spec => ResultsNamed
<1>1. IInv /\ [Next]_vars =>
        [\A w \in writing \ writing' : w.for = "tool-result" =>
           \/ clip' = clip
           \/ clip'.blocks = <<Loop!Result(taken[w.number])>>
           \/ clip'.blocks = <<Loop!Result(Loop!Ours)>> /\ w.number \in cleared]_loopVars
  <2> SUFFICES ASSUME IInv, [Next]_vars, ~UNCHANGED loopVars,
                      NEW w \in writing \ writing', w.for = "tool-result"
               PROVE  \/ clip' = clip
                      \/ clip'.blocks = <<Loop!Result(taken[w.number])>>
                      \/ clip'.blocks = <<Loop!Result(Loop!Ours)>> /\ w.number \in cleared
    OBVIOUS
  <2>1. Loop!LoopNext
    BY DEF Next, CallsStep, LedgerStep, LoopStep, ReadsStep, TreeStep, vars
  <2> QED
    BY <2>1, LoopNextNames DEF IInv
<1> QED
  BY <1>1, Invariant, PTL DEF Spec, ResultsNamed, Loop!ResultsNamed, Loop!loopVars, loopVars

(* Side by side with the others, tool calls behave as they do alone.       *)
THEOREM CallsAsAlone == Spec => CallsSpec
<1>1. Init => CallsInit
  BY DEF Init
<1> QED
  BY <1>1, CallsMove, PTL DEF Spec, CallsSpec

(* Every variable of the tool calls keeps its type.                        *)
THEOREM CallsTypeCorrect == Spec => []CallsTypeOK
<1>1. IInv => CallsTypeOK
  BY DEF IInv, CallsInv
<1> QED
  BY <1>1, Invariant, PTL

(* A command runs twice for one id only if its packets overlapped or the   *)
(* first one's answer had fallen out (the duplicate check of execute).     *)
THEOREM OneRunForAnId == Spec => []RerunsOverlap
<1>1. IInv => RerunsOverlap
  <2> SUFFICES ASSUME IInv, NEW d \in Packets, NEW e \in Packets, d < e,
                      call[d].id = call[e].id, child[d] # "none", child[e] # "none"
               PROVE  e \in overlap \/ call[e].id \in evicted
    BY DEF RerunsOverlap
  <2>1. phase[e] # "new"
    BY DEF IInv, CallsInv, InTurn, InTurnAt
  <2> QED
    BY <2>1 DEF IInv, CallsInv, GivenAgain
<1> QED
  BY <1>1, Invariant, PTL

(* No process that could be told is outlived by the answer to its call     *)
(* (ToolRegistry's timeout, runCommand's listener).                        *)
THEOREM AlwaysKilledWithItsCall == Spec => []KilledWithItsCall
<1>1. IInv => KilledWithItsCall
  BY DEF IInv, CallsInv, KilledWithItsCall, Signalled, SignalledAt
<1> QED
  BY <1>1, Invariant, PTL

(* No command begins without the user's consent to it (resolve, GrantStore,*)
(* requestApproval).                                                       *)
THEOREM NothingEverRunsUnasked == Spec => NothingRunsUnasked
<1> DEFINE Consent ==
      \A e \in Packets :
        phase[e] # "running" /\ phase'[e] = "running" /\ call'[e].tool = "command" =>
          \/ said'[e] \in {"once", "always"}
          \/ \E d \in Packets \ forgotten : said[d] = "always" /\ call[d].shows = call'[e].shows
<1>1. IInv /\ [CallsNext]_toolVars => [Consent]_toolVars
  <2> SUFFICES ASSUME IInv, CallsNext, NEW e \in Packets,
                      phase[e] # "running", phase'[e] = "running", call'[e].tool = "command"
               PROVE  \/ said'[e] \in {"once", "always"}
                      \/ \E d \in Packets \ forgotten :
                           said[d] = "always" /\ call[d].shows = call'[e].shows
    OBVIOUS
  <2> USE DEF IInv, CallsInv
  <2>1. Steps(e)
    <3>1. ASSUME NEW x \in Packets, Steps(x), x # e PROVE FALSE
      BY <3>1, OthersStay
    <3>2. CASE Forget \/ Cancel
      BY <3>2 DEF Forget, Cancel
    <3> QED
      BY <3>1, <3>2 DEF CallsNext
  <2>2. ASSUME NEW c \in Calls, Receive(e, c)
        PROVE  \E d \in Packets \ forgotten : said[d] = "always" /\ call[d].shows = call'[e].shows
    <3>1. call'[e] = c /\ c.shows \in grants
      BY <2>2, Arrival
    <3> QED
      BY <3>1 DEF Backed
  <2>3. ASSUME NEW outcome \in {"deny", "once", "always"}, Answer(e, outcome)
        PROVE  said'[e] \in {"once", "always"}
    <3>1. said'[e] = outcome
      BY <2>3 DEF Answer, CallsTypeOK
    <3>2. outcome # "deny"
      BY <2>3 DEF Answer, Finish, CallsTypeOK
    <3> QED
      BY <3>1, <3>2
  <2>4. CASE Saved(e)
    BY <2>4 DEF Saved, InTurn, InTurnAt
  <2>5. CASE Refused(e) \/ (\E a \in {"ok", "failed"} : ReadDone(e, a)) \/ ChildCloses(e)
    <3>1. PICK a \in Answers : Settle(e, a) /\ work[e] # "none"
      BY <2>5, Ends
    <3> QED
      BY <3>1, Settling
  <2>6. CASE ReadBegins(e) \/ Spawn(e) \/ CommandTimer(e) \/ KillTimer(e) \/ ToolTimeout(e)
    BY <2>6 DEF ReadBegins, Spawn, CommandTimer, KillTimer, ToolTimeout
  <2> QED
    BY <2>1, <2>2, <2>3, <2>4, <2>5, <2>6 DEF Steps
<1>2. Spec => [][Consent]_toolVars
  BY <1>1, Invariant, CallsAsAlone, PTL DEF CallsSpec
<1> QED
  BY <1>2 DEF NothingRunsUnasked
===============================================================================
