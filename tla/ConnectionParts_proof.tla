------------------------- MODULE ConnectionParts_proof -------------------------
(***************************************************************************)
(* Proofs about the relay process, the editor's connection, the choice of  *)
(* a chat and the coding agent's server, for every number of windows,      *)
(* relays, providers, connections, opens, lines and upsets.                *)
(***************************************************************************)
EXTENDS ConnectionParts, FiniteSetsExt, SequenceTheorems, TLAPS

(* The bounds of the relay, one by one.                                    *)
LEMMA RelayBounds ==
  /\ 0 \in 0 .. MaxRelays /\ 1 \in Relay!Relays
  /\ \A r \in Relay!Relays : r \in 0 .. MaxRelays /\ r # 0
  /\ \A r \in 0 .. MaxRelays : r # 0 => r \in Relay!Relays
  /\ \A r \in Relay!Relays : r < MaxRelays => r + 1 \in Relay!Relays /\ r + 1 > r
  /\ \A n \in 0 .. MaxCrashes : n < MaxCrashes => n + 1 \in 0 .. MaxCrashes
<1>1. MaxRelays \in Nat /\ MaxRelays >= 1 /\ MaxCrashes \in Nat
  BY ConnectionAssumption
<1> QED
  BY <1>1 DEF Relay!Relays

-----------------------------------------------------------------------------
(* RelayProcess.                                                           *)

OneListens == \A r, s \in Relay!Listening : r = s

UnbornLast == \A r \in Relay!Relays : r > spawned => proc[r] = "unborn"

(* The file names the relay that serves, or has been removed under it.     *)
ServingFile == \A r \in Relay!Relays : proc[r] = "serving" => file \in {0, r}

Served(r) == r \in Relay!Relays /\ proc[r] \in {"serving", "closing", "gone"}

(* A window that refused the relay it heard has told it to end when it     *)
(* goes on, and starts or accepts one when that has ended, or when no file *)
(* says where it could be reached.                                         *)
Refused(w) == heard[w] # 0 /\ made[heard[w]] # build[w]
RefusedIsStopped ==
  \A w \in Windows : Refused(w) =>
    /\ win[w] = "pausing" =>
         proc[heard[w]] # "serving" \/ file = 0 \/ heard[w] \in told
    /\ win[w] \in {"spawning", "waiting", "answered"} =>
         proc[heard[w]] # "serving" \/ file = 0

HeardServed == \A w \in Windows : heard[w] # 0 => Served(heard[w])

RelayInv ==
  /\ Relay!RelayTypeOK /\ OneListens /\ UnbornLast /\ ServingFile /\ HeardServed
  /\ RefusedIsStopped /\ ReplacedNotReused

LEMMA RelayInit == Init => RelayInv
<1> SUFFICES ASSUME Init PROVE RelayInv
  OBVIOUS
<1> USE ConnectionAssumption DEF Init, Relay!RelayInit
<1>1. Relay!RelayTypeOK
  BY DEF Relay!RelayTypeOK, Relay!Relays
<1>2. OneListens /\ UnbornLast /\ ServingFile
  BY DEF OneListens, UnbornLast, ServingFile, Relay!Listening, Relay!Relays
<1>3. HeardServed /\ RefusedIsStopped
  BY DEF HeardServed, RefusedIsStopped, Refused
<1>4. ReplacedNotReused
  BY DEF ReplacedNotReused, Relay!ReplacedNotReused, Relay!HandedAnother, Relay!At
<1> QED
  BY <1>1, <1>2, <1>3, <1>4 DEF RelayInv

(* A window that takes a step leaves the relays alone.                     *)
LEMMA WindowMoves ==
  ASSUME RelayInv, NEW w \in Windows,
         UNCHANGED <<build, made, proc, file, spawned, crashes>>,
         told \subseteq told', told' \subseteq Relay!Relays,
         NEW s \in {"idle", "found", "checking", "stopping", "pausing", "spawning",
                    "waiting", "answered", "attached"},
         NEW r \in 0 .. MaxRelays, NEW h \in 0 .. MaxRelays,
         win' = [win EXCEPT ![w] = s], served' = [served EXCEPT ![w] = r],
         heard' = [heard EXCEPT ![w] = h],
         h # 0 => Served(h),
         h # 0 /\ made[h] # build[w] =>
           /\ s = "pausing" => proc[h] # "serving" \/ file = 0 \/ h \in told'
           /\ s \in {"spawning", "waiting", "answered"} => proc[h] # "serving" \/ file = 0
           /\ s = "attached" => r # h
  PROVE  RelayInv'
<1>1. Relay!RelayTypeOK'
  BY DEF RelayInv, Relay!RelayTypeOK
<1>2. OneListens' /\ UnbornLast' /\ ServingFile'
  BY DEF RelayInv, OneListens, UnbornLast, ServingFile, Relay!Listening
<1>3. \A v \in Windows :
        /\ win'[v] = IF v = w THEN s ELSE win[v]
        /\ served'[v] = IF v = w THEN r ELSE served[v]
        /\ heard'[v] = IF v = w THEN h ELSE heard[v]
  BY DEF RelayInv, Relay!RelayTypeOK
<1>4. HeardServed'
  BY <1>3 DEF RelayInv, HeardServed, Served
<1>5. RefusedIsStopped'
  BY <1>3 DEF RelayInv, RefusedIsStopped, Refused
<1>6. ReplacedNotReused'
  BY <1>3 DEF RelayInv, ReplacedNotReused, Relay!ReplacedNotReused, Relay!HandedAnother, Relay!At
<1> QED
  BY <1>1, <1>2, <1>4, <1>5, <1>6 DEF RelayInv

(* Kill tells the relay a window refused to end, if that still serves and  *)
(* has its file.                                                           *)
LEMMA KillFacts ==
  ASSUME RelayInv, Relay!Kill
  PROVE  /\ told \subseteq told' /\ told' \subseteq Relay!Relays
         /\ \A r \in Relay!Relays : proc[r] # "serving" \/ file = 0 \/ r \in told'
BY RelayBounds DEF RelayInv, Relay!Kill, Relay!RelayTypeOK, ServingFile

LEMMA WindowSteps ==
  ASSUME RelayInv, NEW w \in Windows,
         \/ Relay!Probe(w) \/ Relay!ReadHandshake(w) \/ Relay!CheckBuild(w) \/ Relay!Stop(w)
         \/ Relay!Pause(w) \/ Relay!WaitProbe(w) \/ Relay!WaitRead(w) \/ Relay!WaitOver(w)
  PROVE  RelayInv'
<1>0. /\ told \subseteq Relay!Relays /\ served[w] \in 0 .. MaxRelays /\ heard[w] \in 0 .. MaxRelays
      /\ [served EXCEPT ![w] = served[w]] = served
      /\ [heard EXCEPT ![w] = heard[w]] = heard
      /\ heard[w] # 0 => Served(heard[w])
      /\ \A r \in Relay!Listening : r \in Relay!Relays /\ proc[r] \in {"listening", "serving"}
      /\ Relay!Relays \subseteq 0 .. MaxRelays /\ 0 \in 0 .. MaxRelays
  BY RelayBounds DEF RelayInv, Relay!RelayTypeOK, HeardServed, Relay!Listening
<1> USE DEF Relay!Goto, Relay!At
<1>1. CASE Relay!Probe(w)
  <2>1. ASSUME NEW r \in Relay!Listening, win' = [win EXCEPT ![w] = "found"],
               heard' = [heard EXCEPT ![w] = IF proc[r] = "serving" THEN r ELSE 0]
        PROVE  RelayInv'
    <3>1. CASE proc[r] = "serving"
      BY <1>0, <1>1, <2>1, <3>1, WindowMoves DEF Relay!Probe, Served
    <3>2. CASE proc[r] # "serving"
      BY <1>0, <1>1, <2>1, <3>2, WindowMoves DEF Relay!Probe
    <3> QED
      BY <3>1, <3>2
  <2>2. CASE win' = [win EXCEPT ![w] = "spawning"] /\ heard' = [heard EXCEPT ![w] = 0]
    BY <1>0, <1>1, <2>2, WindowMoves DEF Relay!Probe
  <2> QED
    BY <1>1, <2>1, <2>2 DEF Relay!Probe
<1>2. CASE Relay!ReadHandshake(w)
  <2>1. CASE file = 0
    BY <1>0, <1>2, <2>1, WindowMoves DEF Relay!ReadHandshake, Relay!Throws
  <2>2. CASE file # 0
    BY <1>0, <1>2, <2>2, WindowMoves DEF Relay!ReadHandshake
  <2> QED
    BY <2>1, <2>2
<1>3. CASE Relay!CheckBuild(w)
  <2>1. ASSUME NEW r \in Relay!Listening, made[r] = build[w],
               win' = [win EXCEPT ![w] = "attached"], served' = [served EXCEPT ![w] = r]
        PROVE  RelayInv'
    <3>1. UNCHANGED <<build, made, proc, told, file, spawned, heard, crashes>>
      BY <1>3 DEF Relay!CheckBuild
    <3>2. r \in 0 .. MaxRelays
          /\ (heard[w] # 0 /\ made[heard[w]] # build[w] => r # heard[w])
      BY <1>0, <2>1
    <3>3. heard' = [heard EXCEPT ![w] = heard[w]] /\ told \subseteq told'
          /\ told' \subseteq Relay!Relays
      BY <1>0, <3>1
    <3>4. UNCHANGED <<build, made, proc, file, spawned, crashes>>
      BY <3>1
    <3>5. win' = [win EXCEPT ![w] = "attached"] /\ served' = [served EXCEPT ![w] = r]
      BY <2>1
    <3>6. heard[w] \in 0 .. MaxRelays /\ (heard[w] # 0 => Served(heard[w]))
      BY <1>0
    <3>7. "attached" \notin {"pausing", "spawning", "waiting", "answered"}
      OBVIOUS
    <3> HIDE DEF Relay!Goto, Relay!At
    <3> QED
      BY <3>2, <3>3, <3>4, <3>5, <3>6, <3>7, WindowMoves
  <2>2. CASE win' = [win EXCEPT ![w] = "stopping"] /\ UNCHANGED served
    BY <1>0, <1>3, <2>2, WindowMoves DEF Relay!CheckBuild
  <2> QED
    BY <1>3, <2>1, <2>2 DEF Relay!CheckBuild
<1>4. CASE Relay!Stop(w)
  <2>1. heard[w] # 0 => proc[heard[w]] # "serving" \/ file = 0 \/ heard[w] \in told'
    BY <1>0, <1>4, KillFacts DEF Relay!Stop, Served
  <2>2. told \subseteq told' /\ told' \subseteq Relay!Relays
    BY <1>4, KillFacts DEF Relay!Stop
  <2> QED
    BY <1>0, <1>4, <2>1, <2>2, WindowMoves DEF Relay!Stop
<1>5. CASE Relay!Pause(w)
  <2>1. Refused(w) => proc[heard[w]] # "serving" \/ file = 0
    BY <1>5 DEF Relay!Pause, Relay!Waited, RelayInv, RefusedIsStopped
  <2> QED
    BY <1>0, <1>5, <2>1, WindowMoves DEF Relay!Pause, Refused
<1>6. CASE Relay!WaitProbe(w)
  <2>1. Refused(w) => proc[heard[w]] # "serving" \/ file = 0
    BY <1>6 DEF Relay!WaitProbe, RelayInv, RefusedIsStopped
  <2> QED
    BY <1>0, <1>6, <2>1, WindowMoves DEF Relay!WaitProbe, Refused
<1>7. CASE Relay!WaitRead(w)
  <2>1. Refused(w) => proc[heard[w]] # "serving" \/ file = 0
    BY <1>7 DEF Relay!WaitRead, RelayInv, RefusedIsStopped
  <2>2. CASE file = 0
    <3>1. win' = [win EXCEPT ![w] = "waiting"] /\ served' = [served EXCEPT ![w] = 0]
          /\ UNCHANGED <<build, made, proc, told, file, spawned, heard, crashes>>
      BY <1>7, <2>2 DEF Relay!WaitRead
    <3>2. heard' = [heard EXCEPT ![w] = heard[w]]
      BY <1>0, <3>1
    <3> QED
      BY <1>0, <2>2, <3>1, <3>2, WindowMoves
  <2>3. CASE file # 0
    <3>1. PICK r \in 0 .. MaxRelays :
            served' = [served EXCEPT ![w] = r] /\ (r # 0 => r \in Relay!Listening)
      BY <1>0, <1>7, <2>3 DEF Relay!WaitRead
    <3>2. Refused(w) => r # heard[w]
      BY <1>0, <2>1, <2>3, <3>1 DEF Served, Refused
    <3>3. win' = [win EXCEPT ![w] = "attached"]
          /\ UNCHANGED <<build, made, proc, told, file, spawned, heard, crashes>>
      BY <1>7, <2>3 DEF Relay!WaitRead
    <3>4. UNCHANGED <<build, made, proc, file, spawned, crashes>>
      BY <3>3
    <3>5. heard' = [heard EXCEPT ![w] = heard[w]] /\ told \subseteq told'
          /\ told' \subseteq Relay!Relays
      BY <1>0, <3>3
    <3>6. heard[w] \in 0 .. MaxRelays /\ (heard[w] # 0 => Served(heard[w]))
          /\ (heard[w] # 0 /\ made[heard[w]] # build[w] => r # heard[w])
      BY <1>0, <3>2 DEF Refused
    <3>7. "attached" \notin {"pausing", "spawning", "waiting", "answered"}
      OBVIOUS
    <3>8. served' = [served EXCEPT ![w] = r] /\ win' = [win EXCEPT ![w] = "attached"]
      BY <3>1, <3>3
    <3>9. r \in 0 .. MaxRelays
      BY <3>1
    <3> HIDE DEF Relay!Goto, Relay!At
    <3> QED
      BY <3>4, <3>5, <3>6, <3>7, <3>8, <3>9, WindowMoves
  <2> QED
    BY <2>2, <2>3
<1>8. CASE Relay!WaitOver(w)
  BY <1>0, <1>8, WindowMoves DEF Relay!WaitOver, Relay!Throws
<1> QED
  BY <1>1, <1>2, <1>3, <1>4, <1>5, <1>6, <1>7, <1>8

(* A step of one relay.  It leaves the windows alone.                      *)
LEMMA RelayMoves ==
  ASSUME RelayInv, NEW r \in Relay!Relays,
         NEW s \in {"unborn", "starting", "listening", "serving", "closing", "gone"},
         proc' = [proc EXCEPT ![r] = s],
         UNCHANGED <<build, made, spawned, win, served, heard>>,
         told' \subseteq Relay!Relays, told \ {r} \subseteq told',
         file' \in {0, file} \/ (file' = r /\ s = "serving"),
         crashes' \in 0 .. MaxCrashes,
         s = "serving" => proc[r] = "listening" /\ file' = r,
         proc[r] = "unborn" => s = "unborn",
         Served(r) => s \in {"closing", "gone"},
         s \in {"listening", "serving"} => \A q \in Relay!Listening : q = r
  PROVE  RelayInv'
<1>1. Relay!RelayTypeOK'
  BY RelayBounds DEF RelayInv, Relay!RelayTypeOK
<1>2. \A q \in Relay!Relays : proc'[q] = IF q = r THEN s ELSE proc[q]
  BY DEF RelayInv, Relay!RelayTypeOK
<1>3. OneListens' /\ UnbornLast'
  BY <1>2 DEF RelayInv, OneListens, UnbornLast, Relay!Listening
<1>4. ServingFile'
  BY <1>2 DEF RelayInv, ServingFile, Relay!Listening
<1>5. HeardServed'
  BY <1>2 DEF RelayInv, HeardServed, Served
<1>6. RefusedIsStopped'
  <2>1. ASSUME NEW w \in Windows, heard[w] # 0, proc[heard[w]] # "serving" \/ file = 0
        PROVE  proc'[heard[w]] # "serving" \/ file' = 0
    <3>1. Served(heard[w])
      BY <2>1 DEF RelayInv, HeardServed
    <3>2. CASE s = "serving"
      BY <1>2, <2>1, <3>1, <3>2 DEF Served, Relay!Listening
    <3>3. CASE s # "serving"
      BY <1>2, <2>1, <3>1, <3>3 DEF Served
    <3> QED
      BY <3>2, <3>3
  <2>2. ASSUME NEW w \in Windows, heard[w] # 0, heard[w] \in told
        PROVE  proc'[heard[w]] # "serving" \/ heard[w] \in told'
    BY <1>2, <2>2 DEF RelayInv, HeardServed, Served
  <2> QED
    BY <2>1, <2>2 DEF RelayInv, RefusedIsStopped, Refused
<1>7. ReplacedNotReused'
  BY DEF RelayInv, ReplacedNotReused, Relay!ReplacedNotReused, Relay!HandedAnother, Relay!At
<1> QED
  BY <1>1, <1>3, <1>4, <1>5, <1>6, <1>7 DEF RelayInv

LEMMA RelaySteps ==
  ASSUME RelayInv, NEW r \in Relay!Relays,
         \/ Relay!Listen(r) \/ Relay!WriteHandshake(r) \/ Relay!ActOnSignal(r)
         \/ Relay!Closed(r) \/ Relay!Crash(r)
  PROVE  RelayInv'
<1>0. /\ told \subseteq Relay!Relays /\ file \in {0, file}
      /\ crashes \in 0 .. MaxCrashes
      /\ proc[r] \in {"unborn", "starting", "listening", "serving", "closing", "gone"}
      /\ \A q \in Relay!Listening : q \in Relay!Relays /\ proc[q] \in {"listening", "serving"}
  BY DEF RelayInv, Relay!RelayTypeOK, Relay!Listening
<1> USE DEF Relay!Becomes, Served
<1>2. CASE Relay!Listen(r)
  <2>1. CASE Relay!Listening = {}
    BY <1>0, <1>2, <2>1, RelayMoves DEF Relay!Listen
  <2>2. CASE Relay!Listening # {}
    BY <1>0, <1>2, <2>2, RelayMoves DEF Relay!Listen
  <2> QED
    BY <2>1, <2>2
<1>3. CASE Relay!WriteHandshake(r)
  <2>1. \A q \in Relay!Listening : q = r
    BY <1>3 DEF Relay!WriteHandshake, Relay!Listening, RelayInv, OneListens
  <2> QED
    BY <1>0, <1>3, <2>1, RelayMoves DEF Relay!WriteHandshake
<1>4. CASE Relay!ActOnSignal(r)
  <2>0. told' = told \ {r} /\ UNCHANGED <<build, made, file, spawned, win, served, heard, crashes>>
    BY <1>4 DEF Relay!ActOnSignal
  <2>1. CASE proc[r] = "serving"
    <3>1. proc' = [proc EXCEPT ![r] = "closing"]
      BY <1>4, <2>1 DEF Relay!ActOnSignal
    <3> QED
      BY <1>0, <2>0, <2>1, <3>1, RelayMoves
  <2>2. CASE proc[r] \in {"starting", "listening"}
    <3>1. proc' = [proc EXCEPT ![r] = "gone"]
      BY <1>4, <2>2 DEF Relay!ActOnSignal
    <3> QED
      BY <1>0, <2>0, <2>2, <3>1, RelayMoves
  <2>3. CASE proc[r] \in {"unborn", "closing", "gone"}
    <3>1. proc' = [proc EXCEPT ![r] = proc[r]]
      BY <1>4, <2>3 DEF Relay!ActOnSignal
    <3> QED
      BY <1>0, <2>0, <2>3, <3>1, RelayMoves
  <2> QED
    BY <1>0, <2>1, <2>2, <2>3
<1>5. CASE Relay!Closed(r)
  BY <1>0, <1>5, RelayMoves DEF Relay!Closed
<1>6. CASE Relay!Crash(r)
  BY <1>0, <1>6, RelayMoves, RelayBounds DEF Relay!Crash
<1> QED
  BY <1>2, <1>3, <1>4, <1>5, <1>6

(* A relay that is started has no number yet that a window could know.     *)
LEMMA SpawnInv == ASSUME RelayInv, NEW w \in Windows, Relay!SpawnRelay(w) PROVE RelayInv'
<1>1. spawned + 1 \in Relay!Relays /\ spawned + 1 > spawned /\ proc[spawned + 1] = "unborn"
  BY RelayBounds DEF Relay!SpawnRelay, RelayInv, Relay!RelayTypeOK, UnbornLast
<1>2. /\ proc' = [proc EXCEPT ![spawned + 1] = "starting"] /\ spawned' = spawned + 1
      /\ made' = [made EXCEPT ![spawned + 1] = build[w]] /\ win' = [win EXCEPT ![w] = "waiting"]
      /\ win[w] = "spawning" /\ UNCHANGED <<build, told, file, served, heard, crashes>>
  BY DEF Relay!SpawnRelay, Relay!Goto, Relay!At
<1>3. Relay!RelayTypeOK'
  BY <1>1, <1>2 DEF RelayInv, Relay!RelayTypeOK
<1>4. \A q \in Relay!Relays :
        /\ proc'[q] = IF q = spawned + 1 THEN "starting" ELSE proc[q]
        /\ q # spawned + 1 => made'[q] = made[q]
  BY <1>1, <1>2 DEF RelayInv, Relay!RelayTypeOK
<1>5. OneListens' /\ ServingFile'
  BY <1>2, <1>4 DEF RelayInv, OneListens, ServingFile, Relay!Listening
<1>6. UnbornLast'
  <2>1. ASSUME NEW r \in Relay!Relays, r > spawned + 1 PROVE r > spawned /\ r # spawned + 1
    BY <2>1, RelayBounds DEF RelayInv, Relay!RelayTypeOK, Relay!Relays
  <2> QED
    BY <1>2, <1>4, <2>1 DEF RelayInv, UnbornLast
<1>7. \A v \in Windows : heard[v] # 0 =>
        /\ heard[v] \in Relay!Relays /\ heard[v] # spawned + 1
        /\ proc'[heard[v]] = proc[heard[v]] /\ made'[heard[v]] = made[heard[v]]
  BY <1>1, <1>4 DEF RelayInv, HeardServed, Served
<1>8. \A v \in Windows : win'[v] = IF v = w THEN "waiting" ELSE win[v]
  BY <1>2 DEF RelayInv, Relay!RelayTypeOK
<1>9. HeardServed' /\ RefusedIsStopped'
  BY <1>2, <1>7, <1>8 DEF RelayInv, HeardServed, Served, RefusedIsStopped, Refused
<1>10. ReplacedNotReused'
  BY <1>2, <1>7, <1>8 DEF RelayInv, ReplacedNotReused, Relay!ReplacedNotReused,
                        Relay!HandedAnother, Relay!At
<1> QED
  BY <1>3, <1>5, <1>6, <1>9, <1>10 DEF RelayInv

LEMMA RelayNextInv == RelayInv /\ Relay!RelayNext => RelayInv'
<1> SUFFICES ASSUME RelayInv, Relay!RelayNext PROVE RelayInv'
  OBVIOUS
<1>1. ASSUME Relay!StopRelay PROVE RelayInv'
  <2>1. told \subseteq told' /\ told' \subseteq Relay!Relays
    BY <1>1, KillFacts DEF Relay!StopRelay
  <2>2. UNCHANGED <<build, made, proc, file, spawned, win, served, heard, crashes>>
    BY <1>1 DEF Relay!StopRelay
  <2>3. Relay!RelayTypeOK' /\ OneListens' /\ UnbornLast' /\ ServingFile' /\ HeardServed'
    BY <2>1, <2>2 DEF RelayInv, Relay!RelayTypeOK, OneListens, UnbornLast, ServingFile,
                    HeardServed, Served, Relay!Listening
  <2>4. RefusedIsStopped' /\ ReplacedNotReused'
    BY <2>1, <2>2 DEF RelayInv, RefusedIsStopped, Refused, ReplacedNotReused,
                    Relay!ReplacedNotReused, Relay!HandedAnother, Relay!At
  <2> QED
    BY <2>3, <2>4 DEF RelayInv
<1> QED
  BY <1>1, SpawnInv, WindowSteps, RelaySteps DEF Relay!RelayNext

-----------------------------------------------------------------------------
(* EditorLink.                                                             *)

(* Calls are numbered as they are made, for a provider each, and have a    *)
(* connection only when ensureRunning has returned.                        *)
CallsInOrder ==
  \A c \in Link!Conns :
    /\ c > connects => owner[c] = 0 /\ step[c] = "none"
    /\ c <= connects => owner[c] \in Link!Providers
    /\ step[c] \in {"none", "launching"} => conn[c] = "none"

(* A provider holds a connection of its own, that was made.                *)
HoldsOwn ==
  \A p \in Link!Providers : held[p] # 0 =>
    owner[held[p]] = p /\ step[held[p]] \notin {"none", "launching"}

LinkInv == Link!LinkTypeOK /\ CallsInOrder /\ HoldsOwn /\ OnlyHeldConnections

LEMMA LinkBounds ==
  /\ {MaxProviders, MaxConnects, MaxTries, MaxFlips} \subseteq Nat
  /\ Link!Conns = 1 .. MaxConnects /\ Link!Providers = 1 .. MaxProviders
BY ConnectionAssumption DEF Link!Conns, Link!Providers

LEMMA LinkInit == Init => LinkInv
<1> SUFFICES ASSUME Init PROVE LinkInv
  OBVIOUS
<1> USE LinkBounds DEF Init, Link!LinkInit
<1>1. Link!LinkTypeOK
  BY DEF Link!LinkTypeOK
<1>2. CallsInOrder /\ HoldsOwn
  BY DEF CallsInOrder, HoldsOwn
<1>3. OnlyHeldConnections
  BY DEF OnlyHeldConnections, Link!OnlyHeldConnections, Link!Alive
<1> QED
  BY <1>1, <1>2, <1>3 DEF LinkInv

(* What is alive after a provider closed its connection was alive before,  *)
(* and is not that connection.                                             *)
LEMMA CloseFacts ==
  ASSUME Link!LinkTypeOK, NEW p \in 0 .. MaxProviders
  PROVE  /\ Link!CloseHeld(p) \in
              [Link!Conns -> {"none", "opening", "open", "backoff", "closing", "closed", "gaveup"}]
         /\ \A c \in Link!Conns :
              /\ Link!CloseHeld(p)[c] \in {"opening", "open", "backoff"} =>
                   Link!Alive(c) /\ (p # 0 => c # held[p])
              /\ conn[c] = "none" /\ (p # 0 => c # held[p]) => Link!CloseHeld(p)[c] = "none"
BY DEF Link!LinkTypeOK, Link!CloseHeld, Link!Alive

LEMMA HeldIsMade ==
  ASSUME Link!LinkTypeOK, NEW p \in Link!Providers, held[p] # 0
  PROVE  held[p] \in Link!Conns
<1>1. held[p] \in 0 .. MaxConnects /\ MaxConnects \in Nat
  BY LinkBounds DEF Link!LinkTypeOK
<1> QED
  BY <1>1, LinkBounds

LEMMA AliveIsHeld ==
  ASSUME LinkInv, NEW c \in Link!Conns, Link!Alive(c)
  PROVE  owner[c] \in Link!Providers /\ held[owner[c]] = c /\ c <= connects
<1>1. c \in Nat /\ connects \in Nat
  BY LinkBounds DEF LinkInv, Link!LinkTypeOK
<1> QED
  BY <1>1 DEF LinkInv, CallsInOrder, Link!Alive, OnlyHeldConnections,
              Link!OnlyHeldConnections

(* The provider in use is disconnected: what is left alive is held.        *)
LEMMA DisconnectFacts ==
  ASSUME LinkInv, Link!Disconnects
  PROVE  /\ conn' \in
              [Link!Conns -> {"none", "opening", "open", "backoff", "closing", "closed", "gaveup"}]
         /\ beats' \subseteq Link!Conns /\ hub' \in 0 .. MaxConnects
         /\ held' \in [Link!Providers -> 0 .. MaxConnects]
         /\ \A p \in Link!Providers : held'[p] \in {0, held[p]}
         /\ \A c \in Link!Conns : step[c] \in {"none", "launching"} => conn'[c] = "none"
         /\ \A c \in Link!Conns :
              conn'[c] \in {"opening", "open", "backoff"} => held'[owner[c]] = c
<1> USE LinkBounds
<1>0. current \in 0 .. MaxProviders
  BY DEF LinkInv, Link!LinkTypeOK
<1>1. conn' = Link!CloseHeld(current)
      /\ held' = [p \in Link!Providers |-> IF p = current THEN 0 ELSE held[p]]
  BY DEF Link!Disconnects
<1>2. beats' \subseteq Link!Conns /\ hub' \in 0 .. MaxConnects
  <2>1. /\ beats \subseteq Link!Conns /\ hub \in 0 .. MaxConnects /\ 0 \in 0 .. MaxConnects
        /\ beats' = beats \ Link!HeldBy(current)
        /\ hub' = hub \/ hub' = 0
    BY DEF Link!Disconnects, LinkInv, Link!LinkTypeOK
  <2> QED
    BY <2>1
<1>3. held' \in [Link!Providers -> 0 .. MaxConnects]
      /\ \A p \in Link!Providers : held'[p] \in {0, held[p]}
  BY <1>1 DEF LinkInv, Link!LinkTypeOK
<1>4. ASSUME NEW c \in Link!Conns, step[c] \in {"none", "launching"}
      PROVE  conn'[c] = "none"
  <2>1. conn[c] = "none"
    BY <1>4 DEF LinkInv, CallsInOrder
  <2>2. current # 0 => c # held[current]
    BY <1>0, <1>4 DEF LinkInv, HoldsOwn
  <2> QED
    BY <1>0, <1>1, <2>1, <2>2, CloseFacts DEF LinkInv
<1>5. ASSUME NEW c \in Link!Conns, conn'[c] \in {"opening", "open", "backoff"}
      PROVE  held'[owner[c]] = c
  <2>1. Link!Alive(c) /\ (current # 0 => c # held[current])
    BY <1>0, <1>1, <1>5, CloseFacts DEF LinkInv
  <2>2. owner[c] \in Link!Providers /\ held[owner[c]] = c
    BY <2>1, AliveIsHeld
  <2> QED
    BY <1>1, <2>1, <2>2
<1> QED
  BY <1>0, <1>1, <1>2, <1>3, <1>4, <1>5, CloseFacts DEF LinkInv

(* A call begins: it is a new one, and has no connection.                  *)
LEMMA StartFacts ==
  ASSUME LinkInv, NEW p \in Link!Providers, Link!StartsConnect(p)
  PROVE  /\ connects' \in 0 .. MaxConnects /\ hop' = "connecting"
         /\ owner' \in [Link!Conns -> 0 .. MaxProviders]
         /\ step' \in [Link!Conns -> {"none", "launching", "linking", "done", "failed"}]
         /\ connects' = connects + 1
         /\ \A c \in Link!Conns : c # connects + 1 => owner'[c] = owner[c] /\ step'[c] = step[c]
         /\ \A c \in Link!Conns :
              c = connects + 1 => /\ owner'[c] = p /\ owner[c] = 0
                                  /\ step'[c] = "launching" /\ step[c] = "none"
<1> USE LinkBounds
<1>1. connects + 1 \in Link!Conns /\ connects + 1 > connects /\ p \in 0 .. MaxProviders
  BY DEF Link!StartsConnect, LinkInv, Link!LinkTypeOK
<1> QED
  BY <1>1 DEF Link!StartsConnect, LinkInv, Link!LinkTypeOK, CallsInOrder

LEMMA SwapToRelayInv == LinkInv /\ Link!SwapToRelay => LinkInv'
<1> SUFFICES ASSUME LinkInv, Link!SwapToRelay PROVE LinkInv'
  OBVIOUS
<1>1. Link!Disconnects /\ Link!StartsConnect(built + 1)
      /\ built + 1 \in Link!Providers /\ built' = built + 1 /\ current' = built + 1
      /\ UNCHANGED <<tries, relayUp, flips>>
  BY LinkBounds DEF Link!SwapToRelay, LinkInv, Link!LinkTypeOK
<1>2. connects \in Nat /\ \A c \in Link!Conns : c \in Nat
  BY LinkBounds DEF LinkInv, Link!LinkTypeOK
<1>3. Link!LinkTypeOK'
  <2>1. built' \in 0 .. MaxProviders /\ current' \in 0 .. MaxProviders
    BY <1>1, LinkBounds
  <2>2. /\ tries' \in [Link!Conns -> 0 .. MaxTries] /\ relayUp' \in BOOLEAN
        /\ flips' \in 0 .. MaxFlips
    BY <1>1 DEF LinkInv, Link!LinkTypeOK
  <2>3. /\ conn' \in
              [Link!Conns -> {"none", "opening", "open", "backoff", "closing", "closed", "gaveup"}]
        /\ beats' \subseteq Link!Conns /\ hub' \in 0 .. MaxConnects
        /\ held' \in [Link!Providers -> 0 .. MaxConnects]
    BY <1>1, DisconnectFacts
  <2>4. /\ connects' \in 0 .. MaxConnects /\ hop' = "connecting"
        /\ owner' \in [Link!Conns -> 0 .. MaxProviders]
        /\ step' \in [Link!Conns -> {"none", "launching", "linking", "done", "failed"}]
    BY <1>1, StartFacts
  <2> QED
    BY <2>1, <2>2, <2>3, <2>4 DEF Link!LinkTypeOK
<1>4. CallsInOrder'
  BY <1>1, <1>2, DisconnectFacts, StartFacts DEF LinkInv, CallsInOrder
<1>5. ASSUME NEW p \in Link!Providers, held'[p] # 0
      PROVE  owner'[held'[p]] = p /\ step'[held'[p]] \notin {"none", "launching"}
  <2>1. held'[p] = held[p] /\ p # 0
    BY <1>1, <1>5, DisconnectFacts, LinkBounds
  <2>2. held[p] \in 0 .. MaxConnects /\ held[p] # 0
    BY <1>5, <2>1 DEF LinkInv, Link!LinkTypeOK
  <2>3. held[p] \in Link!Conns
    BY <2>2, LinkBounds
  <2>4. owner[held[p]] = p /\ step[held[p]] \notin {"none", "launching"}
    BY <1>5, <2>1 DEF LinkInv, HoldsOwn
  <2> QED
    BY <1>1, <2>1, <2>3, <2>4, StartFacts
<1>6. ASSUME NEW c \in Link!Conns, conn'[c] \in {"opening", "open", "backoff"}
      PROVE  held'[owner'[c]] = c
  <2>1. step[c] # "none"
    BY <1>1, <1>6, DisconnectFacts
  <2>2. owner'[c] = owner[c]
    BY <1>1, <2>1, StartFacts
  <2> QED
    BY <1>1, <1>6, <2>2, DisconnectFacts
<1> QED
  BY <1>3, <1>4, <1>5, <1>6
  DEF LinkInv, HoldsOwn, OnlyHeldConnections, Link!OnlyHeldConnections, Link!Alive

LEMMA SwapAwayInv == LinkInv /\ Link!SwapAway => LinkInv'
<1> SUFFICES ASSUME LinkInv, Link!SwapAway PROVE LinkInv'
  OBVIOUS
<1>1. Link!Disconnects /\ current' = 0 /\ hop' = "disconnected"
      /\ UNCHANGED <<built, connects, owner, step, tries, relayUp, flips>>
  BY DEF Link!SwapAway
<1>2. Link!LinkTypeOK'
  BY <1>1, DisconnectFacts, LinkBounds DEF LinkInv, Link!LinkTypeOK
<1>3. CallsInOrder'
  BY <1>1, DisconnectFacts DEF LinkInv, CallsInOrder
<1>4. HoldsOwn'
  BY <1>1, DisconnectFacts DEF LinkInv, HoldsOwn
<1>5. OnlyHeldConnections'
  BY <1>1, DisconnectFacts DEF OnlyHeldConnections, Link!OnlyHeldConnections, Link!Alive
<1> QED
  BY <1>2, <1>3, <1>4, <1>5 DEF LinkInv

LEMMA ResetSessionInv == LinkInv /\ Link!ResetSession => LinkInv'
<1> SUFFICES ASSUME LinkInv, Link!ResetSession PROVE LinkInv'
  OBVIOUS
<1>1. Link!StartsConnect(current) /\ current \in Link!Providers
      /\ UNCHANGED <<current, built, held, conn, tries, beats, hub, relayUp, flips>>
  BY LinkBounds DEF Link!ResetSession, LinkInv, Link!LinkTypeOK
<1>2. connects \in Nat /\ \A c \in Link!Conns : c \in Nat
  BY LinkBounds DEF LinkInv, Link!LinkTypeOK
<1>3. Link!LinkTypeOK'
  BY <1>1, StartFacts DEF LinkInv, Link!LinkTypeOK
<1>4. CallsInOrder'
  BY <1>1, <1>2, StartFacts DEF LinkInv, CallsInOrder
<1>5. HoldsOwn'
  BY <1>1, HeldIsMade, StartFacts DEF LinkInv, HoldsOwn
<1>6. OnlyHeldConnections'
  <2>1. \A c \in Link!Conns : Link!Alive(c) => owner'[c] = owner[c]
    BY <1>1, StartFacts DEF LinkInv, CallsInOrder, Link!Alive
  <2> QED
    BY <1>1, <2>1 DEF LinkInv, OnlyHeldConnections, Link!OnlyHeldConnections, Link!Alive
<1> QED
  BY <1>3, <1>4, <1>5, <1>6 DEF LinkInv

LEMMA LaunchedInv == ASSUME LinkInv, NEW c \in Link!Conns, Link!Launched(c) PROVE LinkInv'
<1> DEFINE p == owner[c]
<1>1. p \in Link!Providers /\ p \in 0 .. MaxProviders /\ p # 0
  BY LinkBounds DEF Link!Launched, LinkInv, CallsInOrder, Link!LinkTypeOK
<1>2. /\ step' = [step EXCEPT ![c] = "linking"] /\ step[c] = "launching"
      /\ conn' = [Link!CloseHeld(p) EXCEPT ![c] = "opening"]
      /\ beats' = beats \ {held[p]}
      /\ held' = [held EXCEPT ![p] = c]
      /\ hub' = IF hub = held[p] THEN 0 ELSE hub
      /\ hop' = "connecting"
      /\ UNCHANGED <<current, built, connects, owner, tries, relayUp, flips>>
  BY DEF Link!Launched, Link!ClosesFirst
<1> HIDE DEF p
<1>3. Link!LinkTypeOK /\ CallsInOrder /\ HoldsOwn
  BY DEF LinkInv
<1>4. /\ \A d \in Link!Conns : step'[d] = IF d = c THEN "linking" ELSE step[d]
      /\ \A d \in Link!Conns : conn'[d] = IF d = c THEN "opening" ELSE Link!CloseHeld(p)[d]
      /\ \A q \in Link!Providers : held'[q] = IF q = p THEN c ELSE held[q]
  BY <1>1, <1>2, <1>3, CloseFacts DEF Link!LinkTypeOK
<1>5. Link!LinkTypeOK'
  <2>1. conn' \in
              [Link!Conns -> {"none", "opening", "open", "backoff", "closing", "closed", "gaveup"}]
    BY <1>1, <1>2, <1>3, CloseFacts
  <2>2. held' \in [Link!Providers -> 0 .. MaxConnects] /\ hub' \in 0 .. MaxConnects
    BY <1>1, <1>2, <1>3, LinkBounds DEF Link!LinkTypeOK
  <2>3. step' \in [Link!Conns -> {"none", "launching", "linking", "done", "failed"}]
        /\ beats' \subseteq Link!Conns /\ hop' = "connecting"
    BY <1>2, <1>3 DEF Link!LinkTypeOK
  <2> QED
    BY <1>2, <1>3, <2>1, <2>2, <2>3 DEF Link!LinkTypeOK
<1>6. CallsInOrder'
  <2>1. \A d \in Link!Conns : step[d] \in {"none", "launching"} => d # held[p]
    BY <1>1, <1>3, LinkBounds DEF HoldsOwn
  <2> QED
    BY <1>1, <1>2, <1>3, <1>4, <2>1, CloseFacts DEF CallsInOrder
<1>7. HoldsOwn'
  BY <1>1, <1>2, <1>3, <1>4, LinkBounds DEF HoldsOwn, Link!LinkTypeOK, p
<1>8. ASSUME NEW d \in Link!Conns, conn'[d] \in {"opening", "open", "backoff"}
      PROVE  held'[owner'[d]] = d
  <2>1. CASE d = c
    BY <1>1, <1>2, <1>4, <2>1 DEF p
  <2>2. CASE d # c
    <3>1. Link!Alive(d) /\ d # held[p]
      BY <1>1, <1>3, <1>4, <1>8, <2>2, CloseFacts
    <3>2. held[owner[d]] = d /\ owner[d] \in Link!Providers
      BY <3>1, AliveIsHeld
    <3> QED
      BY <1>2, <1>4, <3>1, <3>2
  <2> QED
    BY <2>1, <2>2
<1> QED
  BY <1>5, <1>6, <1>7, <1>8
  DEF LinkInv, OnlyHeldConnections, Link!OnlyHeldConnections, Link!Alive

(* One connection goes from one state to another, and does not come back   *)
(* to life.                                                                *)
LEMMA ConnectionMoves ==
  ASSUME LinkInv, NEW c \in Link!Conns, conn[c] # "none",
         UNCHANGED <<current, built, connects, owner, held>>,
         NEW s \in {"opening", "open", "backoff", "closed", "gaveup"},
         conn' = [conn EXCEPT ![c] = s], s \in {"closed", "gaveup"} \/ Link!Alive(c),
         NEW t \in {step[c], "done", "failed"}, step' = [step EXCEPT ![c] = t],
         tries' \in [Link!Conns -> 0 .. MaxTries], beats' \subseteq Link!Conns,
         hub' \in 0 .. MaxConnects, relayUp' \in BOOLEAN, flips' \in 0 .. MaxFlips,
         hop' \in {"connecting", "connected", "disconnected", "error"}
  PROVE  LinkInv'
<1>1. step[c] \notin {"none", "launching"} /\ c <= connects /\ c \in Nat /\ connects \in Nat
  BY LinkBounds DEF LinkInv, CallsInOrder, Link!LinkTypeOK
<1>2. Link!LinkTypeOK'
  BY DEF LinkInv, Link!LinkTypeOK
<1>3. \A d \in Link!Conns : /\ conn'[d] = IF d = c THEN s ELSE conn[d]
                            /\ step'[d] = IF d = c THEN t ELSE step[d]
  BY DEF LinkInv, Link!LinkTypeOK
<1>4. CallsInOrder'
  BY <1>1, <1>3 DEF LinkInv, CallsInOrder
<1>5. HoldsOwn'
  BY <1>1, <1>3, HeldIsMade DEF LinkInv, HoldsOwn
<1>6. OnlyHeldConnections'
  BY <1>3 DEF LinkInv, OnlyHeldConnections, Link!OnlyHeldConnections, Link!Alive
<1> QED
  BY <1>2, <1>4, <1>5, <1>6 DEF LinkInv

LEMMA EndsInv ==
  ASSUME LinkInv, NEW c \in Link!Conns, Link!Alive(c), Link!Ends(c) PROVE LinkInv'
<1>1. /\ tries \in [Link!Conns -> 0 .. MaxTries] /\ beats' \subseteq Link!Conns
      /\ hub' \in 0 .. MaxConnects /\ relayUp' \in BOOLEAN /\ flips' \in 0 .. MaxFlips
      /\ UNCHANGED <<current, built, connects, owner, held>>
      /\ [step EXCEPT ![c] = step[c]] = step
  BY LinkBounds DEF Link!Ends, LinkInv, Link!LinkTypeOK
<1>0. conn[c] # "none"
  BY DEF Link!Alive
<1>2. CASE tries[c] < MaxTries
  <2>1. /\ conn' = [conn EXCEPT ![c] = "backoff"] /\ tries' = [tries EXCEPT ![c] = @ + 1]
        /\ hop' = "disconnected" /\ step' = step
    BY <1>2 DEF Link!Ends
  <2>2. tries' \in [Link!Conns -> 0 .. MaxTries]
    <3>1. tries[c] \in 0 .. MaxTries /\ MaxTries \in Nat
      BY <1>1, LinkBounds
    <3>2. tries[c] + 1 \in 0 .. MaxTries
      BY <1>2, <3>1
    <3> QED
      BY <1>1, <2>1, <3>2
  <2> QED
    BY <1>0, <1>1, <2>1, <2>2, ConnectionMoves
<1>3. CASE ~ (tries[c] < MaxTries)
  <2>1. /\ conn' = [conn EXCEPT ![c] = "gaveup"] /\ tries' = tries /\ hop' = "error"
        /\ step' = [step EXCEPT ![c] = IF step[c] = "linking" THEN "failed" ELSE step[c]]
    BY <1>3 DEF Link!Ends
  <2>2. (IF step[c] = "linking" THEN "failed" ELSE step[c]) \in {step[c], "done", "failed"}
    OBVIOUS
  <2> QED
    BY <1>0, <1>1, <2>1, <2>2, ConnectionMoves
<1> QED
  BY <1>2, <1>3

LEMMA LinkNextInv == LinkInv /\ Link!LinkNext => LinkInv'
<1> SUFFICES ASSUME LinkInv, Link!LinkNext PROVE LinkInv'
  OBVIOUS
<1>0. Link!LinkTypeOK
  BY DEF LinkInv
<1>1. CASE Link!RelayFlips
  BY <1>1, LinkBounds DEF Link!RelayFlips, LinkInv, Link!LinkTypeOK, CallsInOrder, HoldsOwn,
       OnlyHeldConnections, Link!OnlyHeldConnections, Link!Alive
<1>2. ASSUME NEW c \in Link!Conns, Link!LaunchFails(c) PROVE LinkInv'
  <2>1. /\ step[c] = "launching" /\ step' = [step EXCEPT ![c] = "failed"]
        /\ UNCHANGED <<current, built, connects, owner, held, conn, tries, beats, hub,
                       relayUp, flips, hop>>
    BY <1>2 DEF Link!LaunchFails
  <2>2. \A d \in Link!Conns : step'[d] = IF d = c THEN "failed" ELSE step[d]
    BY <1>0, <2>1 DEF Link!LinkTypeOK
  <2>3. Link!LinkTypeOK'
    BY <1>0, <2>1 DEF Link!LinkTypeOK
  <2>4. CallsInOrder'
    BY <2>1, <2>2 DEF LinkInv, CallsInOrder
  <2>5. HoldsOwn'
    BY <1>0, <2>1, <2>2, HeldIsMade DEF LinkInv, HoldsOwn
  <2>6. OnlyHeldConnections'
    BY <2>1 DEF LinkInv, OnlyHeldConnections, Link!OnlyHeldConnections, Link!Alive
  <2> QED
    BY <2>3, <2>4, <2>5, <2>6 DEF LinkInv
<1>3. ASSUME NEW c \in Link!Conns, Link!Welcome(c) PROVE LinkInv'
  <2>1. /\ tries' \in [Link!Conns -> 0 .. MaxTries] /\ beats' \subseteq Link!Conns
        /\ hub' \in 0 .. MaxConnects /\ relayUp' \in BOOLEAN /\ flips' \in 0 .. MaxFlips
    BY <1>0, <1>3, LinkBounds DEF Link!Welcome, Link!BeatsAgain, Link!LinkTypeOK
  <2>2. (IF step[c] = "linking" THEN "done" ELSE step[c]) \in {step[c], "done", "failed"}
    OBVIOUS
  <2>3. /\ Link!Alive(c) /\ hop' = "connected" /\ conn' = [conn EXCEPT ![c] = "open"]
        /\ step' = [step EXCEPT ![c] = IF step[c] = "linking" THEN "done" ELSE step[c]]
        /\ UNCHANGED <<current, built, connects, owner, held>>
    BY <1>3 DEF Link!Welcome, Link!Alive
  <2> QED
    BY <2>1, <2>2, <2>3, ConnectionMoves DEF Link!Alive
<1>4. ASSUME NEW c \in Link!Conns, Link!Rejected(c) PROVE LinkInv'
  <2>1. /\ tries' \in [Link!Conns -> 0 .. MaxTries] /\ beats' \subseteq Link!Conns
        /\ hub' \in 0 .. MaxConnects /\ relayUp' \in BOOLEAN /\ flips' \in 0 .. MaxFlips
    BY <1>0, <1>4, LinkBounds DEF Link!Rejected, Link!LinkTypeOK
  <2>2. (IF step[c] = "linking" THEN "failed" ELSE step[c]) \in {step[c], "done", "failed"}
    OBVIOUS
  <2>3. /\ Link!Alive(c) /\ hop' = "error" /\ conn' = [conn EXCEPT ![c] = "gaveup"]
        /\ step' = [step EXCEPT ![c] = IF step[c] = "linking" THEN "failed" ELSE step[c]]
        /\ UNCHANGED <<current, built, connects, owner, held>>
    BY <1>4 DEF Link!Rejected, Link!Alive
  <2> QED
    BY <2>1, <2>2, <2>3, ConnectionMoves DEF Link!Alive
<1>5. ASSUME NEW c \in Link!Conns, Link!SocketCloses(c) \/ Link!HeartbeatStale(c) PROVE LinkInv'
  BY <1>5, EndsInv DEF Link!SocketCloses, Link!HeartbeatStale, Link!Alive
<1>6. ASSUME NEW c \in Link!Conns, Link!Reconnects(c) PROVE LinkInv'
  <2>1. /\ tries' \in [Link!Conns -> 0 .. MaxTries] /\ beats' \subseteq Link!Conns
        /\ hub' \in 0 .. MaxConnects /\ relayUp' \in BOOLEAN /\ flips' \in 0 .. MaxFlips
    BY <1>0, <1>6, LinkBounds DEF Link!Reconnects, Link!LinkTypeOK
  <2>2. /\ Link!Alive(c) /\ hop' = "connecting" /\ conn' = [conn EXCEPT ![c] = "opening"]
        /\ step' = [step EXCEPT ![c] = step[c]]
        /\ UNCHANGED <<current, built, connects, owner, held>>
    BY <1>0, <1>6 DEF Link!Reconnects, Link!Alive, Link!LinkTypeOK
  <2> QED
    BY <2>1, <2>2, ConnectionMoves DEF Link!Alive
<1>7. ASSUME NEW c \in Link!Conns, Link!AnsweredLate(c) PROVE LinkInv'
  <2>1. /\ tries' \in [Link!Conns -> 0 .. MaxTries] /\ beats' \subseteq Link!Conns
        /\ hub' \in 0 .. MaxConnects /\ relayUp' \in BOOLEAN /\ flips' \in 0 .. MaxFlips
    BY <1>0, <1>7, LinkBounds DEF Link!AnsweredLate, Link!LinkTypeOK
  <2>2. PICK t \in {step[c], "done", "failed"} : step' = [step EXCEPT ![c] = t]
    BY <1>7 DEF Link!AnsweredLate
  <2>3. /\ conn[c] # "none" /\ conn' = [conn EXCEPT ![c] = "closed"]
        /\ hop' \in {"connected", "error"}
        /\ UNCHANGED <<current, built, connects, owner, held>>
    BY <1>7 DEF Link!AnsweredLate
  <2> QED
    BY <2>1, <2>2, <2>3, ConnectionMoves
<1> QED
  BY <1>1, <1>2, <1>3, <1>4, <1>5, <1>6, <1>7, SwapToRelayInv, SwapAwayInv, ResetSessionInv,
     LaunchedInv DEF Link!LinkNext

-----------------------------------------------------------------------------
(* SurfacePicks.                                                           *)

Messages ==
  [type : {"opened"}, open : Picks!OpenIds, status : {"ready", "blocked", "failed"}]
    \cup [type : {"status"}, records : [Models -> Picks!Statuses]]

PicksFlags == linked \in BOOLEAN /\ browser \in BOOLEAN /\ lost \in BOOLEAN

PicksTypes ==
  /\ route \in {"relay", "other"}
  /\ opens \in 0 .. MaxOpens /\ latest \in 0 .. MaxOpens + 1
  /\ want \in [Picks!OpenIds -> Models \cup {NoModel}]
  /\ waiting \subseteq 1 .. opens /\ down \subseteq 1 .. opens
  /\ result \in [Picks!OpenIds -> {"none", "pending", "ready", "late", "blocked", "failed"}]
  /\ chosen \in Models \cup {NoModel}
  /\ listed \in [Models -> Picks!Statuses] /\ surf \in [Models -> Picks!Statuses]
  /\ job \in [Picks!OpenIds -> {"none", "working", "reported", "done"}]
  /\ upsets \in 0 .. MaxUpset /\ up \in Seq(Messages)

(* Opens are numbered as they are asked for, and only those asked for are  *)
(* on their way, worked on or waited for.                                  *)
OpensInOrder ==
  /\ latest <= opens \/ latest = MaxOpens + 1
  /\ \A r \in Picks!OpenIds :
       /\ r <= opens => want[r] \in Models
       /\ r > opens => result[r] = "none" /\ job[r] = "none"
       /\ r \in waiting => result[r] = "pending"
       /\ result[r] = "ready" => r <= latest
  /\ \A i \in DOMAIN up : up[i].type = "opened" => up[i].open <= opens

(* The chat selected is that of the last open that was answered in time.   *)
LastSelected ==
  chosen # NoModel =>
    \E q \in Picks!OpenIds :
      /\ result[q] = "ready" /\ chosen = want[q]
      /\ \A r \in Picks!OpenIds : result[r] = "ready" => r <= q

(* The last report in u, or the one heard last, says s.                    *)
SaysLast(u, s) ==
  \/ listed = s /\ \A i \in DOMAIN u : u[i].type # "status"
  \/ \E i \in DOMAIN u :
       /\ u[i].type = "status" /\ u[i].records = s
       /\ \A k \in DOMAIN u : k > i => u[k].type # "status"

(* Among the first n messages of u is the report that the chat of r is     *)
(* ready.                                                                  *)
ReadyReported(u, r, n) ==
  \E k \in DOMAIN u : k <= n /\ u[k].type = "status" /\ u[k].records[want[r]] = "ready"

(* That report comes before the answer that says so, and before the worker *)
(* gets to the answer.                                                     *)
ReportsFirst(u, j) ==
  /\ \A i \in DOMAIN u :
       u[i].type = "opened" /\ u[i].status = "ready" /\ u[i].open \in waiting =>
         ReadyReported(u, u[i].open, i)
  /\ \A r \in waiting : j[r] = "reported" => ReadyReported(u, r, Len(u))

SelectedIsListed == chosen # NoModel => listed[chosen] = "ready"

(* While nothing was lost, what the editor will have heard is true.        *)
Heard == SaysLast(up, surf) /\ ReportsFirst(up, job) /\ SelectedIsListed

PicksInv == PicksFlags /\ PicksTypes /\ OpensInOrder /\ LastSelected /\ (~lost => Heard)

LEMMA PicksBounds ==
  /\ MaxOpens \in Nat /\ MaxUpset \in Nat /\ NoModel \notin Models
  /\ Picks!OpenIds = 1 .. MaxOpens
BY ConnectionAssumption DEF Picks!OpenIds

LEMMA PicksTypeCorrect == PicksInv => Picks!PicksTypeOK
<1> SUFFICES ASSUME PicksInv PROVE Picks!PicksTypeOK
  OBVIOUS
<1>1. {linked, browser, lost} \subseteq BOOLEAN
  BY Zenon DEF PicksInv, PicksFlags
<1>2. waiting \cup down \subseteq 1 .. opens
  BY DEF PicksInv, PicksTypes
<1> QED
  BY <1>1, <1>2, Zenon DEF PicksInv, PicksTypes, Picks!PicksTypeOK

LEMMA PicksInit == Init => PicksInv
<1> SUFFICES ASSUME Picks!PicksInit PROVE PicksInv
  BY DEF Init
<1>1. up \in Seq(Messages) /\ DOMAIN up = {} /\ waiting = {}
  BY EmptySeq DEF Picks!PicksInit
<1>2. PicksFlags
  BY Zenon DEF Picks!PicksInit, PicksFlags
<1>3. /\ route \in {"relay", "other"}
      /\ opens \in 0 .. MaxOpens /\ latest \in 0 .. MaxOpens + 1
      /\ waiting \subseteq 1 .. opens /\ down \subseteq 1 .. opens
      /\ chosen \in Models \cup {NoModel} /\ upsets \in 0 .. MaxUpset
  BY PicksBounds DEF Picks!PicksInit
<1>4. /\ want \in [Picks!OpenIds -> Models \cup {NoModel}]
      /\ result \in [Picks!OpenIds -> {"none", "pending", "ready", "late", "blocked", "failed"}]
      /\ listed \in [Models -> Picks!Statuses] /\ surf \in [Models -> Picks!Statuses]
      /\ job \in [Picks!OpenIds -> {"none", "working", "reported", "done"}]
  BY DEF Picks!PicksInit, Picks!Statuses
<1>5. PicksTypes
  BY <1>1, <1>3, <1>4, Zenon DEF PicksTypes
<1>6. OpensInOrder /\ LastSelected /\ SelectedIsListed
  BY <1>1, PicksBounds DEF Picks!PicksInit, OpensInOrder, LastSelected, SelectedIsListed
<1>7. SaysLast(up, surf) /\ ReportsFirst(up, job)
  BY <1>1 DEF Picks!PicksInit, SaysLast, ReportsFirst
<1> QED
  BY <1>2, <1>5, <1>6, <1>7, Zenon DEF PicksInv, Heard

LEMMA GrowFacts ==
  ASSUME NEW u \in Seq(Messages), NEW m \in Messages
  PROVE  /\ Append(u, m) \in Seq(Messages) /\ Len(u) \in Nat
         /\ DOMAIN u = 1 .. Len(u) /\ DOMAIN Append(u, m) = 1 .. Len(u) + 1
         /\ Len(Append(u, m)) = Len(u) + 1
         /\ \A i \in 1 .. Len(u) : Append(u, m)[i] = u[i]
         /\ Append(u, m)[Len(u) + 1] = m
BY AppendProperties

LEMMA ToldIsAppended ==
  ASSUME NEW u \in Seq(Messages), NEW a \in Messages, NEW b \in Messages
  PROVE  u \o <<a>> = Append(u, a) /\ u \o <<a, b>> = Append(Append(u, a), b)
<1>1. u \o <<a>> = Append(u, a)
  OBVIOUS
<1>2. u \o <<a, b>> = Append(Append(u, a), b)
  OBVIOUS
<1> QED
  BY <1>1, <1>2

(* A report at the end is the last, and another message leaves the last    *)
(* report what it was.                                                     *)
LEMMA SaysLastGrows ==
  ASSUME NEW u \in Seq(Messages), NEW m \in Messages, NEW s, NEW t,
         m.type = "status" => m.records = t,
         m.type # "status" => s = t /\ SaysLast(u, s)
  PROVE  SaysLast(Append(u, m), t)
<1> DEFINE v == Append(u, m)
<1>1. /\ Len(u) \in Nat /\ DOMAIN u = 1 .. Len(u) /\ DOMAIN v = 1 .. Len(u) + 1
      /\ \A i \in 1 .. Len(u) : v[i] = u[i]
      /\ v[Len(u) + 1] = m
  BY GrowFacts
<1> HIDE DEF v
<1>2. CASE m.type = "status"
  BY <1>1, <1>2 DEF SaysLast, v
<1>3. CASE m.type # "status"
  <2>1. CASE listed = s /\ \A i \in DOMAIN u : u[i].type # "status"
    <3>1. \A i \in DOMAIN v : v[i].type # "status"
      BY <1>1, <1>3, <2>1
    <3> QED
      BY <1>3, <2>1, <3>1 DEF SaysLast, v
  <2>2. CASE \E i \in DOMAIN u :
               /\ u[i].type = "status" /\ u[i].records = s
               /\ \A k \in DOMAIN u : k > i => u[k].type # "status"
    <3>1. PICK i \in DOMAIN u : /\ u[i].type = "status" /\ u[i].records = s
                                /\ \A k \in DOMAIN u : k > i => u[k].type # "status"
      BY <2>2
    <3>2. i \in DOMAIN v /\ v[i].type = "status" /\ v[i].records = s
      BY <1>1, <3>1
    <3>3. \A k \in DOMAIN v : k > i => v[k].type # "status"
      BY <1>1, <1>3, <3>1
    <3> QED
      BY <1>3, <3>2, <3>3 DEF SaysLast, v
  <2> QED
    BY <1>3, <2>1, <2>2 DEF SaysLast
<1> QED
  BY <1>2, <1>3

LEMMA ReportsFirstGrows ==
  ASSUME NEW u \in Seq(Messages), NEW m \in Messages, NEW j, NEW j2,
         ReportsFirst(u, j),
         m.type = "opened" /\ m.status = "ready" /\ m.open \in waiting =>
           j[m.open] = "reported",
         \A r \in waiting : j2[r] = "reported" =>
           \/ j[r] = "reported"
           \/ m.type = "status" /\ m.records[want[r]] = "ready"
  PROVE  ReportsFirst(Append(u, m), j2)
<1> DEFINE v == Append(u, m)
<1>1. /\ Len(u) \in Nat /\ DOMAIN u = 1 .. Len(u) /\ DOMAIN v = 1 .. Len(u) + 1
      /\ Len(v) = Len(u) + 1
      /\ \A i \in 1 .. Len(u) : v[i] = u[i]
      /\ v[Len(u) + 1] = m
  BY GrowFacts
<1> HIDE DEF v
<1>2. ASSUME NEW r, NEW n \in Nat, NEW k \in Nat, ReadyReported(u, r, n), n <= k
      PROVE  ReadyReported(v, r, k)
  BY <1>1, <1>2 DEF ReadyReported
<1>3. ASSUME NEW i \in DOMAIN v,
             v[i].type = "opened" /\ v[i].status = "ready" /\ v[i].open \in waiting
      PROVE  ReadyReported(v, v[i].open, i)
  <2>1. CASE i \in DOMAIN u
    BY <1>1, <1>2, <1>3, <2>1 DEF ReportsFirst
  <2>2. CASE i \notin DOMAIN u
    <3>1. i = Len(u) + 1 /\ v[i] = m
      BY <1>1, <2>2
    <3>2. ReadyReported(u, m.open, Len(u))
      BY <1>3, <3>1 DEF ReportsFirst
    <3> QED
      BY <1>1, <1>2, <3>1, <3>2
  <2> QED
    BY <2>1, <2>2
<1>4. ASSUME NEW r \in waiting, j2[r] = "reported"
      PROVE  ReadyReported(v, r, Len(v))
  <2>1. CASE j[r] = "reported"
    BY <1>1, <1>2, <2>1 DEF ReportsFirst
  <2>2. CASE m.type = "status" /\ m.records[want[r]] = "ready"
    BY <1>1, <2>2 DEF ReadyReported
  <2> QED
    BY <1>4, <2>1, <2>2
<1> QED
  BY <1>3, <1>4 DEF ReportsFirst, v

(* What the editor knows does not change by itself.                        *)
LEMMA HeardKept ==
  ASSUME Heard, UNCHANGED <<up, listed, surf, want>>,
         waiting' \subseteq waiting, chosen' \in {chosen, NoModel},
         \A r \in waiting' : job'[r] = "reported" => job[r] = "reported"
  PROVE  Heard'
<1>1. SaysLast(up, surf)'
  BY DEF Heard, SaysLast
<1>2. ReportsFirst(up, job)'
  BY DEF Heard, ReportsFirst, ReadyReported
<1>3. SelectedIsListed'
  BY DEF Heard, SelectedIsListed
<1> QED
  BY <1>1, <1>2, <1>3 DEF Heard

(* Ending opens that were waited for: only the last pick is selected, and  *)
(* what was selected stays so, or nothing is.                              *)
LEMMA SelectFacts ==
  ASSUME PicksInv, NEW done, DOMAIN done \subseteq waiting,
         \A r \in DOMAIN done : done[r] \in {"ready", "blocked", "failed"},
         waiting' = waiting \ DOMAIN done,
         result' = [r \in Picks!OpenIds |->
                      IF r \in DOMAIN done THEN Picks!Selects(done).now[r] ELSE result[r]],
         chosen' \in {Picks!Selects(done).model, NoModel},
         UNCHANGED <<opens, latest, want, job>>,
         \A i \in DOMAIN up' : up'[i].type = "opened" => up'[i].open <= opens
  PROVE  /\ OpensInOrder' /\ LastSelected' /\ waiting' \subseteq 1 .. opens'
         /\ result' \in [Picks!OpenIds ->
                           {"none", "pending", "ready", "late", "blocked", "failed"}]
         /\ chosen' \in Models \cup {NoModel}
<1>1. /\ opens \in Nat /\ opens <= MaxOpens /\ MaxOpens \in Nat
      /\ waiting \subseteq 1 .. opens /\ DOMAIN done \subseteq Picks!OpenIds
      /\ Picks!OpenIds = 1 .. MaxOpens
      /\ result \in [Picks!OpenIds -> {"none", "pending", "ready", "late", "blocked", "failed"}]
      /\ want \in [Picks!OpenIds -> Models \cup {NoModel}] /\ chosen \in Models \cup {NoModel}
  <2>1. /\ opens \in 0 .. MaxOpens /\ waiting \subseteq 1 .. opens
        /\ result \in [Picks!OpenIds -> {"none", "pending", "ready", "late", "blocked", "failed"}]
        /\ want \in [Picks!OpenIds -> Models \cup {NoModel}] /\ chosen \in Models \cup {NoModel}
    BY DEF PicksInv, PicksTypes
  <2>2. opens \in Nat /\ opens <= MaxOpens /\ MaxOpens \in Nat /\ Picks!OpenIds = 1 .. MaxOpens
    BY <2>1, PicksBounds
  <2>3. 1 .. opens \subseteq 1 .. MaxOpens
    BY <2>2
  <2> QED
    BY <2>1, <2>2, <2>3
<1>2. /\ \A r \in DOMAIN done :
           result'[r] = IF done[r] = "ready" /\ r # latest THEN "late" ELSE done[r]
      /\ \A r \in Picks!OpenIds : r \notin DOMAIN done => result'[r] = result[r]
  BY <1>1 DEF Picks!Selects
<1>3. \A r \in Picks!OpenIds :
        result'[r] \in {"none", "pending", "ready", "late", "blocked", "failed"}
  BY <1>1, <1>2
<1>4. result' \in [Picks!OpenIds -> {"none", "pending", "ready", "late", "blocked", "failed"}]
  BY <1>3
<1>5. OpensInOrder'
  <2>1. ASSUME NEW r \in Picks!OpenIds
        PROVE  /\ r <= opens => want[r] \in Models
               /\ r > opens => result'[r] = "none" /\ job[r] = "none"
               /\ r \in waiting' => result'[r] = "pending"
               /\ result'[r] = "ready" => r <= latest
    <3>1. CASE r \in DOMAIN done
      <4>1. r <= opens /\ r \in Nat
        BY <1>1, <3>1
      <4> QED
        BY <1>2, <3>1, <4>1 DEF PicksInv, OpensInOrder
    <3>2. CASE r \notin DOMAIN done
      BY <1>2, <3>2 DEF PicksInv, OpensInOrder
    <3> QED
      BY <3>1, <3>2
  <2> QED
    BY <2>1 DEF PicksInv, OpensInOrder
<1>6. CASE latest \in DOMAIN done /\ done[latest] = "ready"
  <2>1. Picks!Selects(done).model = want[latest]
    BY <1>6 DEF Picks!Selects
  <2>2. latest \in Picks!OpenIds /\ result'[latest] = "ready"
    BY <1>1, <1>2, <1>6
  <2>3. LastSelected'
    BY <1>5, <2>1, <2>2 DEF OpensInOrder, LastSelected
  <2> QED
    BY <1>1, <1>4, <1>5, <2>1, <2>2, <2>3
<1>7. CASE ~ (latest \in DOMAIN done /\ done[latest] = "ready")
  <2>1. Picks!Selects(done).model = chosen
    BY <1>7 DEF Picks!Selects
  <2>2. \A r \in Picks!OpenIds : result'[r] = "ready" <=> result[r] = "ready"
    <3>1. \A r \in DOMAIN done : result[r] = "pending"
      BY <1>1 DEF PicksInv, OpensInOrder
    <3> QED
      BY <1>2, <1>7, <3>1
  <2>3. LastSelected'
    BY <2>1, <2>2 DEF PicksInv, LastSelected
  <2> QED
    BY <1>1, <1>4, <1>5, <2>1, <2>3
<1> QED
  BY <1>6, <1>7

(* Steps that leave the editor alone.                                      *)
LEMMA WorkerMoves ==
  ASSUME PicksInv, UNCHANGED <<route, opens, latest, want, waiting, result, chosen, listed>>,
         PicksFlags', down' \subseteq 1 .. opens,
         surf' \in [Models -> Picks!Statuses], upsets' \in 0 .. MaxUpset,
         job' \in [Picks!OpenIds -> {"none", "working", "reported", "done"}],
         \A r \in Picks!OpenIds : r > opens => job'[r] = "none",
         up' \in Seq(Messages),
         \A i \in DOMAIN up' : up'[i].type = "opened" => up'[i].open <= opens,
         ~lost' => ~lost /\ SaysLast(up', surf') /\ ReportsFirst(up', job')
  PROVE  PicksInv'
<1>1. PicksTypes'
  BY DEF PicksInv, PicksTypes
<1>2. OpensInOrder'
  BY DEF PicksInv, OpensInOrder
<1>3. LastSelected'
  BY DEF PicksInv, LastSelected
<1>4. ASSUME ~lost' PROVE Heard'
  <2>1. SaysLast(up, surf)'
    BY <1>4 DEF SaysLast
  <2>2. ReportsFirst(up, job)'
    BY <1>4 DEF ReportsFirst, ReadyReported
  <2>3. SelectedIsListed'
    BY <1>4 DEF PicksInv, Heard, SelectedIsListed
  <2> QED
    BY <2>1, <2>2, <2>3 DEF Heard
<1> QED
  BY <1>1, <1>2, <1>3, <1>4 DEF PicksInv

LEMMA OpensGrow ==
  ASSUME NEW u \in Seq(Messages), NEW m \in Messages,
         \A i \in DOMAIN u : u[i].type = "opened" => u[i].open <= opens,
         m.type = "opened" => m.open <= opens
  PROVE  \A i \in DOMAIN Append(u, m) :
           Append(u, m)[i].type = "opened" => Append(u, m)[i].open <= opens
BY GrowFacts

(* A message of the worker: it is sent after what was sent, or lost.       *)
LEMMA TellFacts ==
  ASSUME PicksInv, NEW m \in Messages, m.type = "opened" => m.open <= opens, Picks!Tell(<<m>>)
  PROVE  /\ up' \in Seq(Messages) /\ lost' \in BOOLEAN
         /\ \A i \in DOMAIN up' : up'[i].type = "opened" => up'[i].open <= opens
         /\ ~lost' => ~lost /\ up' = Append(up, m)
<1>1. up \in Seq(Messages) /\ lost \in BOOLEAN
      /\ \A i \in DOMAIN up : up[i].type = "opened" => up[i].open <= opens
  BY DEF PicksInv, PicksTypes, PicksFlags, OpensInOrder
<1>2. CASE linked /\ browser
  <2>1. up' = Append(up, m) /\ lost' = lost
    BY <1>1, <1>2, ToldIsAppended DEF Picks!Tell
  <2> QED
    BY <1>1, <2>1, GrowFacts, OpensGrow
<1>3. CASE ~ (linked /\ browser)
  BY <1>1, <1>3 DEF Picks!Tell
<1> QED
  BY <1>2, <1>3

LEMMA WorkerBusy ==
  ASSUME PicksInv, NEW r \in Picks!OpenIds, job[r] # "none"
  PROVE  r <= opens /\ r \in 1 .. opens /\ want[r] \in Models /\ r \in Nat
<1>1. r \in Nat /\ r >= 1 /\ opens \in Nat
  BY PicksBounds DEF PicksInv, PicksTypes
<1>2. r <= opens
  BY <1>1 DEF PicksInv, OpensInOrder
<1> QED
  BY <1>1, <1>2 DEF PicksInv, OpensInOrder

LEMMA WaitingIsOpen == PicksInv => waiting \subseteq Picks!OpenIds
<1> SUFFICES ASSUME PicksInv PROVE waiting \subseteq Picks!OpenIds
  OBVIOUS
<1>1. opens \in Nat /\ opens <= MaxOpens /\ waiting \subseteq 1 .. opens
  BY PicksBounds DEF PicksInv, PicksTypes
<1> QED
  BY <1>1, PicksBounds

LEMMA ReportReadyInv ==
  ASSUME PicksInv, NEW r \in Picks!OpenIds, Picks!ReportReady(r) PROVE PicksInv'
<1>1. /\ job[r] = "working" /\ job' = [job EXCEPT ![r] = "reported"]
      /\ surf' = [surf EXCEPT ![want[r]] = "ready"]
      /\ Picks!Tell(<<Picks!Report(surf')>>)
      /\ UNCHANGED <<route, opens, latest, want, waiting, result, chosen, listed>>
      /\ UNCHANGED <<linked, browser, down, upsets>>
  BY DEF Picks!ReportReady, Picks!editorVars
<1>2. r <= opens /\ want[r] \in Models
  BY <1>1, WorkerBusy
<1>3. surf' \in [Models -> Picks!Statuses] /\ surf'[want[r]] = "ready"
      /\ job' \in [Picks!OpenIds -> {"none", "working", "reported", "done"}]
      /\ \A q \in Picks!OpenIds : job'[q] = IF q = r THEN "reported" ELSE job[q]
  BY <1>1, <1>2 DEF PicksInv, PicksTypes, Picks!Statuses
<1> DEFINE m == Picks!Report(surf')
<1>4. m \in Messages /\ m.type = "status" /\ m.records = surf'
  BY <1>3 DEF Messages, Picks!Report
<1>5. Picks!Tell(<<m>>)
  BY <1>1
<1> HIDE DEF m
<1>6. /\ up' \in Seq(Messages) /\ lost' \in BOOLEAN
      /\ \A i \in DOMAIN up' : up'[i].type = "opened" => up'[i].open <= opens
      /\ ~lost' => ~lost /\ up' = Append(up, m)
  BY <1>4, <1>5, TellFacts
<1>7. ASSUME ~lost' PROVE SaysLast(up', surf') /\ ReportsFirst(up', job')
  <2>1. Heard /\ up \in Seq(Messages) /\ up' = Append(up, m)
    BY <1>6, <1>7 DEF PicksInv, PicksTypes
  <2>2. SaysLast(Append(up, m), surf')
    BY <1>4, <2>1, SaysLastGrows
  <2>3. \A q \in waiting : job'[q] = "reported" => job[q] = "reported" \/ m.records[want[q]] = "ready"
    BY <1>3, <1>4, WaitingIsOpen
  <2>4. ReportsFirst(Append(up, m), job')
    <3>1. /\ ReportsFirst(up, job)
          /\ m.type = "opened" /\ m.status = "ready" /\ m.open \in waiting =>
               job[m.open] = "reported"
      BY <1>4, <2>1 DEF Heard
    <3>2. \A q \in waiting : job'[q] = "reported" =>
            \/ job[q] = "reported"
            \/ m.type = "status" /\ m.records[want[q]] = "ready"
      BY <1>4, <2>3
    <3>3. m \in Messages /\ up \in Seq(Messages)
      BY <1>4, <2>1
    <3> QED
      BY <3>1, <3>2, <3>3, ReportsFirstGrows
  <2> QED
    BY <2>1, <2>2, <2>4
<1>8. \A q \in Picks!OpenIds : q > opens => job'[q] = "none"
  BY <1>2, <1>3, PicksBounds DEF PicksInv, OpensInOrder, PicksTypes
<1>9. PicksFlags'
  BY <1>1, <1>6, Zenon DEF PicksInv, PicksFlags
<1> QED
  BY <1>1, <1>3, <1>6, <1>7, <1>8, <1>9, WorkerMoves DEF PicksInv, PicksTypes

LEMMA AckReadyInv ==
  ASSUME PicksInv, NEW r \in Picks!OpenIds, Picks!AckReady(r) PROVE PicksInv'
<1>1. /\ job[r] = "reported" /\ job' = [job EXCEPT ![r] = "done"]
      /\ Picks!Tell(<<Picks!Opened(r, "ready")>>)
      /\ UNCHANGED <<route, opens, latest, want, waiting, result, chosen, listed>>
      /\ UNCHANGED <<linked, browser, down, surf, upsets>>
  BY DEF Picks!AckReady, Picks!editorVars
<1>2. r <= opens
  BY <1>1, WorkerBusy
<1>3. job' \in [Picks!OpenIds -> {"none", "working", "reported", "done"}]
      /\ \A q \in Picks!OpenIds : job'[q] = IF q = r THEN "done" ELSE job[q]
  BY <1>1 DEF PicksInv, PicksTypes
<1> DEFINE m == Picks!Opened(r, "ready")
<1>4. m \in Messages /\ m.type = "opened" /\ m.open = r
  BY DEF Messages, Picks!Opened
<1>5. Picks!Tell(<<m>>)
  BY <1>1
<1> HIDE DEF m
<1>6. /\ up' \in Seq(Messages) /\ lost' \in BOOLEAN
      /\ \A i \in DOMAIN up' : up'[i].type = "opened" => up'[i].open <= opens
      /\ ~lost' => ~lost /\ up' = Append(up, m)
  BY <1>2, <1>4, <1>5, TellFacts
<1>7. ASSUME ~lost' PROVE SaysLast(up', surf') /\ ReportsFirst(up', job')
  <2>1. Heard /\ up \in Seq(Messages) /\ up' = Append(up, m)
    BY <1>6, <1>7 DEF PicksInv, PicksTypes
  <2>2. SaysLast(Append(up, m), surf')
    BY <1>1, <1>4, <2>1, SaysLastGrows DEF Heard
  <2>3. \A q \in waiting : job'[q] = "reported" => job[q] = "reported"
    BY <1>3, WaitingIsOpen
  <2>4. ReportsFirst(Append(up, m), job')
    <3>1. ReportsFirst(up, job) /\ job[m.open] = "reported"
      BY <1>1, <1>4, <2>1 DEF Heard
    <3> QED
      BY <1>4, <2>1, <2>3, <3>1, ReportsFirstGrows
  <2> QED
    BY <2>1, <2>2, <2>4
<1>8. \A q \in Picks!OpenIds : q > opens => job'[q] = "none"
  BY <1>2, <1>3, PicksBounds DEF PicksInv, OpensInOrder, PicksTypes
<1>9. PicksFlags'
  BY <1>1, <1>6, Zenon DEF PicksInv, PicksFlags
<1> QED
  BY <1>1, <1>3, <1>6, <1>7, <1>8, <1>9, WorkerMoves DEF PicksInv, PicksTypes

(* Two messages, told together.                                            *)
LEMMA TellTwoFacts ==
  ASSUME PicksInv, NEW a \in Messages, NEW b \in Messages,
         a.type = "opened" => a.open <= opens, b.type = "opened" => b.open <= opens,
         Picks!Tell(<<a, b>>)
  PROVE  /\ up' \in Seq(Messages) /\ lost' \in BOOLEAN
         /\ \A i \in DOMAIN up' : up'[i].type = "opened" => up'[i].open <= opens
         /\ ~lost' => ~lost /\ up' = Append(Append(up, a), b)
<1>1. up \in Seq(Messages) /\ lost \in BOOLEAN
      /\ \A i \in DOMAIN up : up[i].type = "opened" => up[i].open <= opens
  BY DEF PicksInv, PicksTypes, PicksFlags, OpensInOrder
<1>2. CASE linked /\ browser
  <2>1. up' = Append(Append(up, a), b) /\ lost' = lost
    BY <1>1, <1>2, ToldIsAppended DEF Picks!Tell
  <2> DEFINE v == Append(up, a)
  <2>2. v \in Seq(Messages) /\ \A i \in DOMAIN v : v[i].type = "opened" => v[i].open <= opens
    BY <1>1, GrowFacts, OpensGrow
  <2>3. up' = Append(v, b)
    BY <2>1
  <2> HIDE DEF v
  <2>4. Append(v, b) \in Seq(Messages)
        /\ \A i \in DOMAIN Append(v, b) :
             Append(v, b)[i].type = "opened" => Append(v, b)[i].open <= opens
    BY <2>2, GrowFacts, OpensGrow
  <2> QED
    BY <1>1, <2>1, <2>3, <2>4
<1>3. CASE ~ (linked /\ browser)
  BY <1>1, <1>3 DEF Picks!Tell
<1> QED
  BY <1>2, <1>3

LEMMA AckBlockedInv ==
  ASSUME PicksInv, NEW r \in Picks!OpenIds, Picks!AckBlocked(r) PROVE PicksInv'
<1>1. /\ job[r] = "working" /\ job' = [job EXCEPT ![r] = "done"]
      /\ surf' = [surf EXCEPT ![want[r]] = "blocked"]
      /\ Picks!Tell(<<Picks!Report(surf'), Picks!Opened(r, "blocked")>>)
      /\ UNCHANGED <<route, opens, latest, want, waiting, result, chosen, listed>>
      /\ UNCHANGED <<linked, browser, down, upsets>>
  BY DEF Picks!AckBlocked, Picks!editorVars
<1>2. r <= opens /\ want[r] \in Models
  BY <1>1, WorkerBusy
<1>3. surf' \in [Models -> Picks!Statuses]
      /\ job' \in [Picks!OpenIds -> {"none", "working", "reported", "done"}]
      /\ \A q \in Picks!OpenIds : job'[q] = IF q = r THEN "done" ELSE job[q]
  BY <1>1, <1>2 DEF PicksInv, PicksTypes, Picks!Statuses
<1> DEFINE a == Picks!Report(surf')
<1> DEFINE b == Picks!Opened(r, "blocked")
<1>4. /\ a \in Messages /\ a.type = "status" /\ a.records = surf'
      /\ b \in Messages /\ b.type = "opened" /\ b.status = "blocked" /\ b.open = r
  BY <1>3 DEF Messages, Picks!Report, Picks!Opened
<1>5. Picks!Tell(<<a, b>>)
  BY <1>1
<1> HIDE DEF a, b
<1>6. /\ up' \in Seq(Messages) /\ lost' \in BOOLEAN
      /\ \A i \in DOMAIN up' : up'[i].type = "opened" => up'[i].open <= opens
      /\ ~lost' => ~lost /\ up' = Append(Append(up, a), b)
  BY <1>2, <1>4, <1>5, TellTwoFacts
<1>7. ASSUME ~lost' PROVE SaysLast(up', surf') /\ ReportsFirst(up', job')
  <2> DEFINE v == Append(up, a)
  <2>1. Heard /\ up \in Seq(Messages) /\ up' = Append(v, b)
    BY <1>6, <1>7 DEF PicksInv, PicksTypes
  <2>2. v \in Seq(Messages)
    BY <1>4, <2>1, GrowFacts
  <2>3. SaysLast(v, surf')
    BY <1>4, <2>1, SaysLastGrows
  <2>4. ReportsFirst(v, job)
    <3>1. /\ ReportsFirst(up, job)
          /\ a.type = "opened" /\ a.status = "ready" /\ a.open \in waiting =>
               job[a.open] = "reported"
      BY <1>4, <2>1 DEF Heard
    <3>2. \A q \in waiting : job[q] = "reported" =>
            \/ job[q] = "reported"
            \/ a.type = "status" /\ a.records[want[q]] = "ready"
      OBVIOUS
    <3>3. ReportsFirst(Append(up, a), job)
      BY <1>4, <2>1, <3>1, <3>2, ReportsFirstGrows, Zenon
    <3> QED
      BY <3>3
  <2> HIDE DEF v
  <2>5. SaysLast(Append(v, b), surf')
    BY <1>4, <2>2, <2>3, SaysLastGrows
  <2>6. ReportsFirst(Append(v, b), job')
    <3>1. b.status # "ready" /\ \A q \in waiting : job'[q] = "reported" => job[q] = "reported"
      BY <1>3, <1>4, WaitingIsOpen
    <3> QED
      BY <1>4, <2>2, <2>4, <3>1, ReportsFirstGrows
  <2> QED
    BY <2>1, <2>5, <2>6
<1>8. \A q \in Picks!OpenIds : q > opens => job'[q] = "none"
  BY <1>2, <1>3, PicksBounds DEF PicksInv, OpensInOrder, PicksTypes
<1>9. PicksFlags'
  BY <1>1, <1>6, Zenon DEF PicksInv, PicksFlags
<1> QED
  BY <1>1, <1>3, <1>6, <1>7, <1>8, <1>9, WorkerMoves DEF PicksInv, PicksTypes

LEMMA AckFailedInv ==
  ASSUME PicksInv, NEW r \in Picks!OpenIds, Picks!AckFailed(r) PROVE PicksInv'
<1>1. /\ job[r] = "working" /\ job' = [job EXCEPT ![r] = "done"]
      /\ Picks!Tell(<<Picks!Opened(r, "failed")>>)
      /\ UNCHANGED <<route, opens, latest, want, waiting, result, chosen, listed>>
      /\ UNCHANGED <<linked, browser, down, surf, upsets>>
  BY DEF Picks!AckFailed, Picks!editorVars
<1>2. r <= opens
  BY <1>1, WorkerBusy
<1>3. job' \in [Picks!OpenIds -> {"none", "working", "reported", "done"}]
      /\ \A q \in Picks!OpenIds : job'[q] = IF q = r THEN "done" ELSE job[q]
  BY <1>1 DEF PicksInv, PicksTypes
<1> DEFINE m == Picks!Opened(r, "failed")
<1>4. m \in Messages /\ m.type = "opened" /\ m.open = r /\ m.status # "ready"
  BY DEF Messages, Picks!Opened
<1>5. Picks!Tell(<<m>>)
  BY <1>1
<1> HIDE DEF m
<1>6. /\ up' \in Seq(Messages) /\ lost' \in BOOLEAN
      /\ \A i \in DOMAIN up' : up'[i].type = "opened" => up'[i].open <= opens
      /\ ~lost' => ~lost /\ up' = Append(up, m)
  BY <1>2, <1>4, <1>5, TellFacts
<1>7. ASSUME ~lost' PROVE SaysLast(up', surf') /\ ReportsFirst(up', job')
  <2>1. SaysLast(up, surf) /\ ReportsFirst(up, job) /\ up \in Seq(Messages)
        /\ up' = Append(up, m)
    BY <1>6, <1>7 DEF PicksInv, PicksTypes, Heard
  <2>2. SaysLast(Append(up, m), surf')
    BY <1>1, <1>4, <2>1, SaysLastGrows
  <2>3. \A q \in waiting : job'[q] = "reported" => job[q] = "reported"
    BY <1>3, WaitingIsOpen
  <2>4. ReportsFirst(Append(up, m), job')
    <3>1. m.type = "opened" /\ m.status = "ready" /\ m.open \in waiting =>
            job[m.open] = "reported"
      BY <1>4
    <3>2. \A q \in waiting : job'[q] = "reported" =>
            \/ job[q] = "reported"
            \/ m.type = "status" /\ m.records[want[q]] = "ready"
      BY <2>3
    <3> QED
      BY <1>4, <2>1, <3>1, <3>2, ReportsFirstGrows, Zenon
  <2> QED
    BY <2>1, <2>2, <2>4
<1>8. \A q \in Picks!OpenIds : q > opens => job'[q] = "none"
  BY <1>2, <1>3, PicksBounds DEF PicksInv, OpensInOrder, PicksTypes
<1>9. PicksFlags'
  BY <1>1, <1>6, Zenon DEF PicksInv, PicksFlags
<1> QED
  BY <1>1, <1>3, <1>6, <1>7, <1>8, <1>9, WorkerMoves DEF PicksInv, PicksTypes

LEMMA TabClosesInv ==
  ASSUME PicksInv, NEW c \in Models, Picks!TabCloses(c) PROVE PicksInv'
<1>1. /\ upsets < MaxUpset /\ upsets' = upsets + 1
      /\ surf' = [surf EXCEPT ![c] = "closed"]
      /\ Picks!Tell(<<Picks!Report(surf')>>)
      /\ UNCHANGED <<route, opens, latest, want, waiting, result, chosen, listed>>
      /\ UNCHANGED <<linked, browser, down, job>>
  BY DEF Picks!TabCloses, Picks!Upset, Picks!editorVars
<1>2. surf' \in [Models -> Picks!Statuses]
  BY <1>1 DEF PicksInv, PicksTypes, Picks!Statuses
<1>3. upsets' \in 0 .. MaxUpset
  BY <1>1, PicksBounds DEF PicksInv, PicksTypes
<1> DEFINE m == Picks!Report(surf')
<1>4. m \in Messages /\ m.type = "status" /\ m.records = surf'
  BY <1>2 DEF Messages, Picks!Report
<1>5. Picks!Tell(<<m>>)
  BY <1>1
<1> HIDE DEF m
<1>6. /\ up' \in Seq(Messages) /\ lost' \in BOOLEAN
      /\ \A i \in DOMAIN up' : up'[i].type = "opened" => up'[i].open <= opens
      /\ ~lost' => ~lost /\ up' = Append(up, m)
  BY <1>4, <1>5, TellFacts
<1>7. ASSUME ~lost' PROVE SaysLast(up', surf') /\ ReportsFirst(up', job')
  <2>1. ReportsFirst(up, job) /\ up \in Seq(Messages) /\ up' = Append(up, m)
    BY <1>6, <1>7 DEF PicksInv, PicksTypes, Heard
  <2>2. SaysLast(Append(up, m), surf')
    BY <1>4, <2>1, SaysLastGrows
  <2>3. /\ ~ (m.type = "opened")
        /\ \A q \in waiting : job'[q] = "reported" => job[q] = "reported"
    BY <1>1, <1>4
  <2>4. ReportsFirst(Append(up, m), job')
    BY <1>4, <2>1, <2>3, ReportsFirstGrows
  <2> QED
    BY <2>1, <2>2, <2>4
<1>8. \A q \in Picks!OpenIds : q > opens => job'[q] = "none"
  BY <1>1 DEF PicksInv, OpensInOrder
<1>9. PicksFlags'
  BY <1>1, <1>6, Zenon DEF PicksInv, PicksFlags
<1> QED
  BY <1>1, <1>2, <1>3, <1>6, <1>7, <1>8, <1>9, WorkerMoves DEF PicksInv, PicksTypes

LEMMA StartInv ==
  ASSUME PicksInv, NEW r \in Picks!OpenIds, Picks!Start(r) PROVE PicksInv'
<1>1. /\ r \in down /\ down' = down \ {r} /\ job' = [job EXCEPT ![r] = "working"]
      /\ UNCHANGED <<route, opens, latest, want, waiting, result, chosen, listed>>
      /\ UNCHANGED <<linked, browser, up, lost, surf, upsets>>
  BY DEF Picks!Start, Picks!editorVars
<1>2. r <= opens /\ opens \in Nat /\ r \in Nat /\ down' \subseteq 1 .. opens
  BY <1>1, PicksBounds DEF PicksInv, PicksTypes
<1>3. job' \in [Picks!OpenIds -> {"none", "working", "reported", "done"}]
      /\ \A q \in Picks!OpenIds : job'[q] = IF q = r THEN "working" ELSE job[q]
  BY <1>1 DEF PicksInv, PicksTypes
<1>4. \A q \in Picks!OpenIds : q > opens => job'[q] = "none"
  BY <1>2, <1>3, PicksBounds DEF PicksInv, OpensInOrder
<1>5. ASSUME ~lost' PROVE ~lost /\ SaysLast(up', surf') /\ ReportsFirst(up', job')
  <2>1. \A q \in waiting : job'[q] = "reported" => job[q] = "reported"
    BY <1>3, WaitingIsOpen
  <2> QED
    BY <1>1, <1>5, <2>1 DEF PicksInv, Heard, ReportsFirst, SaysLast
<1>6. PicksFlags'
  BY <1>1, Zenon DEF PicksInv, PicksFlags
<1> QED
  BY <1>1, <1>2, <1>3, <1>4, <1>5, <1>6, WorkerMoves DEF PicksInv, PicksTypes, OpensInOrder

LEMMA BrowserDropsInv ==
  ASSUME PicksInv, NEW killed \in BOOLEAN, Picks!BrowserDrops(killed) PROVE PicksInv'
<1>1. /\ upsets < MaxUpset /\ upsets' = upsets + 1 /\ browser' = FALSE
      /\ job' = IF killed
                THEN [r \in Picks!OpenIds |-> IF job[r] = "none" THEN "none" ELSE "done"]
                ELSE job
      /\ lost' = (lost \/ down # {}) /\ down' = {}
      /\ UNCHANGED <<route, opens, latest, want, waiting, result, chosen, listed>>
      /\ UNCHANGED <<linked, up, surf>>
  BY DEF Picks!BrowserDrops, Picks!Upset, Picks!editorVars
<1>2. upsets' \in 0 .. MaxUpset
  BY <1>1, PicksBounds DEF PicksInv, PicksTypes
<1>3. job' \in [Picks!OpenIds -> {"none", "working", "reported", "done"}]
      /\ \A q \in Picks!OpenIds : /\ job[q] = "none" => job'[q] = "none"
                                  /\ job'[q] = "reported" => job[q] = "reported"
  BY <1>1 DEF PicksInv, PicksTypes
<1>4. \A q \in Picks!OpenIds : q > opens => job'[q] = "none"
  BY <1>3 DEF PicksInv, OpensInOrder
<1>5. ASSUME ~lost' PROVE ~lost /\ SaysLast(up', surf') /\ ReportsFirst(up', job')
  <2>1. \A q \in waiting : job'[q] = "reported" => job[q] = "reported"
    BY <1>3, WaitingIsOpen
  <2>2. ~lost
    BY <1>1, <1>5
  <2>3. SaysLast(up, surf) /\ ReportsFirst(up, job)
    BY <2>2 DEF PicksInv, Heard
  <2>4. ReportsFirst(up, job')
    BY <2>1, <2>3 DEF ReportsFirst
  <2> QED
    BY <1>1, <2>2, <2>3, <2>4
<1>6. PicksFlags'
  BY <1>1, Zenon DEF PicksInv, PicksFlags
<1> QED
  BY <1>1, <1>2, <1>3, <1>4, <1>5, <1>6, WorkerMoves DEF PicksInv, PicksTypes, OpensInOrder

LEMMA BrowserReturnsInv == ASSUME PicksInv, Picks!BrowserReturns PROVE PicksInv'
<1>1. /\ browser' = TRUE
      /\ IF linked THEN up' = Append(up, Picks!Report(surf)) ELSE UNCHANGED up
      /\ lost' = (lost \/ ~linked)
      /\ UNCHANGED <<route, opens, latest, want, waiting, result, chosen, listed>>
      /\ UNCHANGED <<linked, down, job, surf, upsets>>
  BY DEF Picks!BrowserReturns, Picks!editorVars
<1> DEFINE m == Picks!Report(surf)
<1>2. m \in Messages /\ m.type = "status" /\ m.records = surf
  BY DEF Messages, Picks!Report, PicksInv, PicksTypes
<1>3. (linked => up' = Append(up, m)) /\ (~linked => up' = up)
  BY <1>1
<1> HIDE DEF m
<1>4. up \in Seq(Messages) /\ \A i \in DOMAIN up : up[i].type = "opened" => up[i].open <= opens
  BY DEF PicksInv, PicksTypes, OpensInOrder
<1>5. up' \in Seq(Messages)
      /\ \A i \in DOMAIN up' : up'[i].type = "opened" => up'[i].open <= opens
  <2>1. Append(up, m) \in Seq(Messages)
        /\ \A i \in DOMAIN Append(up, m) :
             Append(up, m)[i].type = "opened" => Append(up, m)[i].open <= opens
    BY <1>2, <1>4, GrowFacts, OpensGrow
  <2> QED
    BY <1>3, <1>4, <2>1
<1>6. ASSUME ~lost' PROVE ~lost /\ SaysLast(up', surf') /\ ReportsFirst(up', job')
  <2>1. ~lost /\ up' = Append(up, m)
    BY <1>1, <1>3, <1>6
  <2>2. ReportsFirst(up, job) /\ ~ (m.type = "opened")
    BY <1>2, <2>1 DEF PicksInv, Heard
  <2>3. SaysLast(Append(up, m), surf')
    BY <1>1, <1>2, <1>4, SaysLastGrows
  <2>4. \A q \in waiting : job[q] = "reported" => job[q] = "reported"
    OBVIOUS
  <2>5. ReportsFirst(Append(up, m), job)
    BY <1>2, <1>4, <2>2, <2>4, ReportsFirstGrows
  <2> QED
    BY <1>1, <2>1, <2>3, <2>5
<1>7. PicksFlags'
  BY <1>1, Zenon DEF PicksInv, PicksFlags
<1> QED
  BY <1>1, <1>5, <1>6, <1>7, WorkerMoves DEF PicksInv, PicksTypes, OpensInOrder

LEMMA EditorDropsInv == ASSUME PicksInv, Picks!EditorDrops PROVE PicksInv'
<1>1. /\ upsets < MaxUpset /\ upsets' = upsets + 1 /\ linked' = FALSE
      /\ up' = <<>> /\ lost' = (lost \/ up # <<>>)
      /\ UNCHANGED <<route, opens, latest, want, waiting, result, chosen, listed>>
      /\ UNCHANGED <<browser, down, job, surf>>
  BY DEF Picks!EditorDrops, Picks!Upset, Picks!editorVars
<1>2. upsets' \in 0 .. MaxUpset
  BY <1>1, PicksBounds DEF PicksInv, PicksTypes
<1>3. up' \in Seq(Messages) /\ DOMAIN up' = {}
  BY <1>1, EmptySeq
<1>4. ASSUME ~lost' PROVE ~lost /\ SaysLast(up', surf') /\ ReportsFirst(up', job')
  <2>1. ~lost /\ up' = up
    BY <1>1, <1>4
  <2> QED
    BY <1>1, <2>1 DEF PicksInv, Heard
<1>5. PicksFlags'
  BY <1>1, Zenon DEF PicksInv, PicksFlags
<1> QED
  BY <1>1, <1>2, <1>3, <1>4, <1>5, WorkerMoves DEF PicksInv, PicksTypes, OpensInOrder

LEMMA EditorReturnsInv == ASSUME PicksInv, Picks!EditorReturns PROVE PicksInv'
<1>1. /\ linked' = TRUE
      /\ UNCHANGED <<route, opens, latest, want, waiting, result, chosen, listed>>
      /\ UNCHANGED <<browser, down, up, lost, job, surf, upsets>>
  BY DEF Picks!EditorReturns, Picks!editorVars
<1>2. PicksFlags'
  BY <1>1, Zenon DEF PicksInv, PicksFlags
<1>3. ASSUME ~lost' PROVE ~lost /\ SaysLast(up', surf') /\ ReportsFirst(up', job')
  BY <1>1, <1>3 DEF PicksInv, Heard
<1> QED
  BY <1>1, <1>2, <1>3, WorkerMoves DEF PicksInv, PicksTypes, OpensInOrder

LEMMA DismissInv == ASSUME PicksInv, Picks!Dismiss PROVE PicksInv'
<1>1. /\ latest \in 1 .. MaxOpens /\ latest' = MaxOpens + 1
      /\ UNCHANGED <<route, opens, want, waiting, result, chosen, listed>>
      /\ UNCHANGED <<linked, browser, down, up, lost, job, surf, upsets>>
  BY DEF Picks!Dismiss, Picks!wireVars
<1>2. latest' \in 0 .. MaxOpens + 1
  BY <1>1, PicksBounds
<1>3. PicksFlags'
  BY <1>1, Zenon DEF PicksInv, PicksFlags
<1>4. PicksTypes'
  BY <1>1, <1>2 DEF PicksInv, PicksTypes
<1>5. OpensInOrder'
  <2>1. \A r \in Picks!OpenIds : r <= latest'
    BY <1>1, PicksBounds
  <2> QED
    BY <1>1, <2>1 DEF PicksInv, OpensInOrder
<1>6. LastSelected'
  BY <1>1 DEF PicksInv, LastSelected
<1>7. ~lost' => Heard'
  BY <1>1, HeardKept DEF PicksInv
<1> QED
  BY <1>3, <1>4, <1>5, <1>6, <1>7 DEF PicksInv

LEMMA ReturnToRelayInv == ASSUME PicksInv, Picks!ReturnToRelay PROVE PicksInv'
<1>1. /\ route' = "relay"
      /\ UNCHANGED <<opens, latest, want, waiting, result, chosen, listed>>
      /\ UNCHANGED <<linked, browser, down, up, lost, job, surf, upsets>>
  BY DEF Picks!ReturnToRelay, Picks!wireVars
<1>2. PicksFlags'
  BY <1>1, Zenon DEF PicksInv, PicksFlags
<1>3. PicksTypes'
  BY <1>1 DEF PicksInv, PicksTypes
<1>4. OpensInOrder'
  BY <1>1 DEF PicksInv, OpensInOrder
<1>5. LastSelected'
  BY <1>1 DEF PicksInv, LastSelected
<1>6. ~lost' => Heard'
  BY <1>1, HeardKept DEF PicksInv
<1> QED
  BY <1>2, <1>3, <1>4, <1>5, <1>6 DEF PicksInv

(* A new open takes the next number.                                       *)
LEMMA NextOpen ==
  ASSUME PicksInv, opens < MaxOpens
  PROVE  /\ opens \in Nat /\ opens + 1 \in Picks!OpenIds /\ opens + 1 \in 0 .. MaxOpens
         /\ opens + 1 \in 0 .. MaxOpens + 1
         /\ 1 .. opens \subseteq 1 .. opens + 1
         /\ job[opens + 1] = "none" /\ opens + 1 \notin waiting
BY PicksBounds DEF PicksInv, PicksTypes, OpensInOrder

LEMMA PickUnopenedInv ==
  ASSUME PicksInv, NEW m \in Models, Picks!PickUnopened(m) PROVE PicksInv'
<1> DEFINE r == opens + 1
<1>1. /\ opens < MaxOpens /\ opens' = r /\ want' = [want EXCEPT ![r] = m] /\ latest' = r
      /\ result' = [result EXCEPT ![r] = "ready"] /\ chosen' = m /\ lost' = TRUE
      /\ UNCHANGED <<route, waiting, listed, linked, browser, down, up, job, surf, upsets>>
  BY DEF Picks!PickUnopened
<1>2. /\ opens \in Nat /\ r \in Picks!OpenIds /\ r \in 0 .. MaxOpens /\ r \in 0 .. MaxOpens + 1
      /\ 1 .. opens \subseteq 1 .. r /\ job[r] = "none" /\ r \notin waiting
  BY <1>1, NextOpen
<1>3. r = opens + 1
  OBVIOUS
<1> HIDE DEF r
<1>4. /\ want' \in [Picks!OpenIds -> Models \cup {NoModel}] /\ want'[r] = m
      /\ result' \in [Picks!OpenIds -> {"none", "pending", "ready", "late", "blocked", "failed"}]
      /\ result'[r] = "ready"
      /\ \A q \in Picks!OpenIds : q # r => want'[q] = want[q] /\ result'[q] = result[q]
  BY <1>1, <1>2 DEF PicksInv, PicksTypes
<1>5. PicksTypes'
  <2>1. waiting' \subseteq 1 .. opens' /\ down' \subseteq 1 .. opens'
    BY <1>1, <1>2 DEF PicksInv, PicksTypes
  <2> QED
    BY <1>1, <1>2, <1>4, <2>1 DEF PicksInv, PicksTypes
<1>6. OpensInOrder'
  <2>1. ASSUME NEW q \in Picks!OpenIds
        PROVE  /\ q <= opens' => want'[q] \in Models
               /\ q > opens' => result'[q] = "none" /\ job'[q] = "none"
               /\ q \in waiting' => result'[q] = "pending"
               /\ result'[q] = "ready" => q <= latest'
    <3>1. CASE q = r
      BY <1>1, <1>2, <1>4, <3>1
    <3>2. CASE q # r
      <4>1. q \in Nat
        BY PicksBounds
      <4>2. result[q] = "ready" => q <= opens
        BY <1>2, <4>1 DEF PicksInv, OpensInOrder
      <4> QED
        BY <1>1, <1>2, <1>3, <1>4, <3>2, <4>1, <4>2 DEF PicksInv, OpensInOrder
    <3> QED
      BY <3>1, <3>2
  <2>2. ASSUME NEW i \in DOMAIN up, up[i].type = "opened" PROVE up[i].open <= r
    <3>1. up[i].open <= opens /\ up[i].open \in Nat
      <4>1. up[i] \in Messages
        BY DEF PicksInv, PicksTypes
      <4>2. up[i].open \in Picks!OpenIds
        BY <2>2, <4>1 DEF Messages
      <4> QED
        BY <2>2, <4>2, PicksBounds DEF PicksInv, OpensInOrder
    <3> QED
      BY <1>2, <1>3, <3>1
  <2>3. latest' <= opens' /\ \A i \in DOMAIN up' : up'[i].type = "opened" => up'[i].open <= opens'
    BY <1>1, <1>2, <2>2
  <2> QED
    BY <2>1, <2>3 DEF OpensInOrder
<1>7. LastSelected'
  <2>1. \A q \in Picks!OpenIds : result'[q] = "ready" => q <= r
    BY <1>1, <1>6 DEF OpensInOrder
  <2> QED
    BY <1>1, <1>2, <1>4, <2>1 DEF LastSelected
<1>8. PicksFlags' /\ lost'
  BY <1>1, Zenon DEF PicksInv, PicksFlags
<1> QED
  BY <1>5, <1>6, <1>7, <1>8 DEF PicksInv

LEMMA OpenInv ==
  ASSUME PicksInv, NEW m \in Models, NEW picks \in BOOLEAN, Picks!Open(m, picks)
  PROVE  PicksInv'
<1> DEFINE r == opens + 1
<1> DEFINE t == Picks!Opened(r, "failed")
<1>1. /\ opens < MaxOpens /\ opens' = r /\ want' = [want EXCEPT ![r] = m]
      /\ latest' = (IF picks THEN r ELSE latest)
      /\ result' = [result EXCEPT ![r] = IF linked THEN "pending" ELSE "failed"]
      /\ waiting' = (IF linked THEN waiting \cup {r} ELSE waiting)
      /\ down' = (IF linked /\ browser THEN down \cup {r} ELSE down)
      /\ up' = (IF linked /\ ~browser THEN Append(up, t) ELSE up)
      /\ UNCHANGED <<route, chosen, listed, linked, browser, lost, job, surf, upsets>>
  BY DEF Picks!Open
<1>2. /\ opens \in Nat /\ r \in Picks!OpenIds /\ r \in 0 .. MaxOpens /\ r \in 0 .. MaxOpens + 1
      /\ 1 .. opens \subseteq 1 .. r /\ job[r] = "none" /\ r \notin waiting /\ r \in 1 .. r
  BY <1>1, NextOpen
<1>3. r = opens + 1
  OBVIOUS
<1>4. t \in Messages /\ t.type = "opened" /\ t.open = r /\ t.status = "failed"
  BY <1>2 DEF Messages, Picks!Opened
<1> HIDE DEF r, t
<1>5. /\ want' \in [Picks!OpenIds -> Models \cup {NoModel}] /\ want'[r] = m
      /\ result' \in [Picks!OpenIds -> {"none", "pending", "ready", "late", "blocked", "failed"}]
      /\ \A q \in Picks!OpenIds : q # r => want'[q] = want[q] /\ result'[q] = result[q]
      /\ result'[r] \in {"pending", "failed"} /\ (r \in waiting' => result'[r] = "pending")
  BY <1>1, <1>2 DEF PicksInv, PicksTypes
<1>6. /\ up \in Seq(Messages) /\ \A i \in DOMAIN up : up[i].type = "opened" => up[i].open <= r
      /\ up' \in {up, Append(up, t)}
  <2>1. ASSUME NEW i \in DOMAIN up, up[i].type = "opened" PROVE up[i].open <= r
    <3>1. up[i] \in Messages
      BY DEF PicksInv, PicksTypes
    <3>2. up[i].open \in Picks!OpenIds
      BY <2>1, <3>1 DEF Messages
    <3>3. up[i].open <= opens /\ up[i].open \in Nat
      BY <2>1, <3>2, PicksBounds DEF PicksInv, OpensInOrder
    <3> QED
      BY <1>2, <1>3, <3>3
  <2> QED
    BY <1>1, <2>1 DEF PicksInv, PicksTypes
<1>7. /\ up' \in Seq(Messages)
      /\ \A i \in DOMAIN up' : up'[i].type = "opened" => up'[i].open <= r
  <2> DEFINE v == Append(up, t)
  <2>1. /\ DOMAIN v = 1 .. Len(up) + 1 /\ DOMAIN up = 1 .. Len(up) /\ v[Len(up) + 1] = t
        /\ \A i \in 1 .. Len(up) : v[i] = up[i]
        /\ v \in Seq(Messages) /\ Len(up) \in Nat
    BY <1>4, <1>6, GrowFacts
  <2>2. up' \in {up, v}
    BY <1>6
  <2> HIDE DEF v
  <2>3. \A i \in DOMAIN v : v[i].type = "opened" => v[i].open <= r
    BY <1>2, <1>4, <1>6, <2>1
  <2> QED
    BY <1>6, <2>1, <2>2, <2>3
<1>8. waiting' \subseteq 1 .. r /\ down' \subseteq 1 .. r /\ waiting' \subseteq waiting \cup {r}
  BY <1>1, <1>2 DEF PicksInv, PicksTypes
<1>9. PicksTypes'
  BY <1>1, <1>2, <1>5, <1>7, <1>8 DEF PicksInv, PicksTypes
<1>10. OpensInOrder'
  <2>1. ASSUME NEW q \in Picks!OpenIds
        PROVE  /\ q <= opens' => want'[q] \in Models
               /\ q > opens' => result'[q] = "none" /\ job'[q] = "none"
               /\ q \in waiting' => result'[q] = "pending"
               /\ result'[q] = "ready" => q <= latest'
    <3>1. CASE q = r
      BY <1>1, <1>2, <1>5, <3>1
    <3>2. CASE q # r
      <4>1. q \in Nat
        BY PicksBounds
      <4>2. result[q] = "ready" => q <= opens /\ q <= latest
        BY <1>2, <4>1 DEF PicksInv, OpensInOrder
      <4> QED
        BY <1>1, <1>2, <1>3, <1>5, <1>8, <3>2, <4>1, <4>2 DEF PicksInv, OpensInOrder
    <3> QED
      BY <3>1, <3>2
  <2>2. latest' <= opens' \/ latest' = MaxOpens + 1
    BY <1>1, <1>2, <1>3, PicksBounds DEF PicksInv, PicksTypes, OpensInOrder
  <2> QED
    BY <1>1, <1>7, <2>1, <2>2 DEF OpensInOrder
<1>11. LastSelected'
  <2>1. \A q \in Picks!OpenIds : result'[q] = "ready" => q # r /\ result[q] = "ready"
    BY <1>5
  <2>2. \A q \in Picks!OpenIds : result[q] = "ready" => q # r
    <3>1. \A q \in Picks!OpenIds : q > opens => result[q] = "none"
      BY DEF PicksInv, OpensInOrder
    <3> QED
      BY <1>2, <1>3, <3>1
  <2> QED
    BY <1>1, <1>5, <2>1, <2>2 DEF PicksInv, LastSelected
<1>12. ASSUME ~lost' PROVE Heard'
  <2>1. ~lost /\ SaysLast(up, surf) /\ ReportsFirst(up, job) /\ SelectedIsListed
    BY <1>1, <1>12 DEF PicksInv, Heard
  <2>2. SaysLast(up', surf)
    <3>1. SaysLast(Append(up, t), surf)
      BY <1>4, <1>6, <2>1, SaysLastGrows
    <3> QED
      BY <1>6, <2>1, <3>1
  <2>3. ReportsFirst(up', job)
    <3>1. t.status # "ready" /\ \A q \in waiting : job[q] = "reported" => job[q] = "reported"
      BY <1>4
    <3>2. ReportsFirst(Append(up, t), job)
      BY <1>4, <1>6, <2>1, <3>1, ReportsFirstGrows
    <3> QED
      BY <1>6, <2>1, <3>2
  <2>4. SaysLast(up, surf)'
    BY <1>1, <2>2 DEF SaysLast
  <2>5. ReportsFirst(up, job)'
    <3>1. \A i \in DOMAIN up' : up'[i].status = "ready" /\ up'[i].type = "opened" => up'[i].open # r
      <4>1. ASSUME NEW i \in DOMAIN up, up[i].type = "opened" PROVE up[i].open # r
        <5>1. up[i] \in Messages
          BY DEF PicksInv, PicksTypes
        <5>2. up[i].open \in Picks!OpenIds
          BY <4>1, <5>1 DEF Messages
        <5>3. up[i].open <= opens /\ up[i].open \in Nat
          BY <4>1, <5>2, PicksBounds DEF PicksInv, OpensInOrder
        <5> QED
          BY <1>2, <1>3, <5>3
      <4>2. DOMAIN Append(up, t) = 1 .. Len(up) + 1 /\ DOMAIN up = 1 .. Len(up)
            /\ Append(up, t)[Len(up) + 1] = t
            /\ \A i \in 1 .. Len(up) : Append(up, t)[i] = up[i]
            /\ Len(up) \in Nat
        BY <1>4, <1>6, GrowFacts
      <4>3. ASSUME NEW i \in DOMAIN Append(up, t),
                   Append(up, t)[i].status = "ready", Append(up, t)[i].type = "opened"
            PROVE  Append(up, t)[i].open # r
        <5>1. CASE i = Len(up) + 1
          BY <1>4, <4>2, <4>3, <5>1
        <5>2. CASE i # Len(up) + 1
          <6>1. i \in 1 .. Len(up)
            BY <4>2, <5>2
          <6> QED
            BY <4>1, <4>2, <4>3, <6>1
        <5> QED
          BY <5>1, <5>2
      <4> QED
        BY <1>6, <4>1, <4>3
    <3>2. \A q \in waiting : want'[q] = want[q]
      BY <1>2, <1>5, WaitingIsOpen
    <3>3. job'[r] # "reported"
      BY <1>1, <1>2
    <3>4. \A n : \A q \in waiting : ReadyReported(up', q, n) => ReadyReported(up, q, n)'
      BY <3>2 DEF ReadyReported
    <3>5. ASSUME NEW i \in DOMAIN up',
                 up'[i].type = "opened" /\ up'[i].status = "ready" /\ up'[i].open \in waiting'
          PROVE  ReadyReported(up, up[i].open, i)'
      <4>1. up'[i].open \in waiting
        BY <1>8, <3>1, <3>5
      <4>2. ReadyReported(up', up'[i].open, i)
        BY <2>3, <3>5, <4>1 DEF ReportsFirst
      <4> QED
        BY <3>4, <4>1, <4>2
    <3>6. ASSUME NEW q \in waiting', job'[q] = "reported"
          PROVE  ReadyReported(up, q, Len(up))'
      <4>1. q \in waiting /\ job[q] = "reported"
        BY <1>1, <1>8, <3>3, <3>6
      <4>2. ReadyReported(up', q, Len(up'))
        BY <2>3, <4>1 DEF ReportsFirst
      <4> QED
        BY <3>4, <4>1, <4>2
    <3> QED
      BY <3>5, <3>6 DEF ReportsFirst
  <2>6. SelectedIsListed'
    BY <1>1, <2>1 DEF SelectedIsListed
  <2> QED
    BY <2>4, <2>5, <2>6 DEF Heard
<1>13. PicksFlags'
  BY <1>1, Zenon DEF PicksInv, PicksFlags
<1> QED
  BY <1>9, <1>10, <1>11, <1>12, <1>13 DEF PicksInv

(* Opens that fail select nothing.                                         *)
LEMMA FailuresSelectNothing ==
  ASSUME NEW done, \A r \in DOMAIN done : done[r] = "failed"
  PROVE  Picks!Selects(done).model = chosen
BY DEF Picks!Selects

LEMMA OpenTimesOutInv ==
  ASSUME PicksInv, NEW r \in Picks!OpenIds, Picks!OpenTimesOut(r) PROVE PicksInv'
<1> DEFINE done == [q \in {r} |-> "failed"]
<1>1. /\ r \in waiting /\ Picks!Finish(done)
      /\ UNCHANGED <<route, opens, latest, want, listed, linked, browser, down, up, lost>>
      /\ UNCHANGED <<job, surf, upsets>>
  BY DEF Picks!OpenTimesOut, Picks!wireVars
<1>2. DOMAIN done = {r} /\ \A q \in DOMAIN done : done[q] = "failed"
  OBVIOUS
<1> HIDE DEF done
<1>3. /\ waiting' = waiting \ DOMAIN done
      /\ result' = [q \in Picks!OpenIds |->
                      IF q \in DOMAIN done THEN Picks!Selects(done).now[q] ELSE result[q]]
      /\ chosen' = Picks!Selects(done).model
  BY <1>1 DEF Picks!Finish
<1>4. \A i \in DOMAIN up' : up'[i].type = "opened" => up'[i].open <= opens
  BY <1>1 DEF PicksInv, OpensInOrder
<1>5. DOMAIN done \subseteq waiting /\ \A q \in DOMAIN done : done[q] \in {"ready", "blocked", "failed"}
  BY <1>1, <1>2
<1>6. /\ OpensInOrder' /\ LastSelected' /\ waiting' \subseteq 1 .. opens'
      /\ result' \in [Picks!OpenIds -> {"none", "pending", "ready", "late", "blocked", "failed"}]
      /\ chosen' \in Models \cup {NoModel}
  BY <1>1, <1>3, <1>4, <1>5, SelectFacts
<1>7. PicksTypes'
  BY <1>1, <1>6 DEF PicksInv, PicksTypes
<1>8. PicksFlags'
  BY <1>1, Zenon DEF PicksInv, PicksFlags
<1>9. chosen' = chosen /\ waiting' \subseteq waiting
  BY <1>2, <1>3, FailuresSelectNothing
<1>10. ~lost' => Heard'
  BY <1>1, <1>9, HeardKept DEF PicksInv
<1> QED
  BY <1>6, <1>7, <1>8, <1>10 DEF PicksInv

LEMMA LeaveRelayInv == ASSUME PicksInv, Picks!LeaveRelay PROVE PicksInv'
<1> DEFINE done == [q \in waiting |-> "failed"]
<1>1. /\ upsets < MaxUpset /\ upsets' = upsets + 1 /\ route' = "other" /\ Picks!Finish(done)
      /\ linked' = FALSE /\ up' = <<>> /\ lost' = (lost \/ up # <<>>)
      /\ UNCHANGED <<opens, latest, want, listed, browser, down, job, surf>>
  BY DEF Picks!LeaveRelay, Picks!FailsOpens, Picks!Upset
<1>2. DOMAIN done = waiting /\ \A q \in DOMAIN done : done[q] = "failed"
  OBVIOUS
<1> HIDE DEF done
<1>3. /\ waiting' = waiting \ DOMAIN done
      /\ result' = [q \in Picks!OpenIds |->
                      IF q \in DOMAIN done THEN Picks!Selects(done).now[q] ELSE result[q]]
      /\ chosen' = Picks!Selects(done).model
  BY <1>1 DEF Picks!Finish
<1>4. up' \in Seq(Messages) /\ DOMAIN up' = {} /\ upsets' \in 0 .. MaxUpset
  BY <1>1, EmptySeq, PicksBounds DEF PicksInv, PicksTypes
<1>5. DOMAIN done \subseteq waiting /\ \A q \in DOMAIN done : done[q] \in {"ready", "blocked", "failed"}
  BY <1>2
<1>6. /\ OpensInOrder' /\ LastSelected' /\ waiting' \subseteq 1 .. opens'
      /\ result' \in [Picks!OpenIds -> {"none", "pending", "ready", "late", "blocked", "failed"}]
      /\ chosen' \in Models \cup {NoModel}
  BY <1>1, <1>3, <1>4, <1>5, SelectFacts
<1>7. PicksTypes'
  BY <1>1, <1>4, <1>6 DEF PicksInv, PicksTypes
<1>8. PicksFlags'
  BY <1>1, Zenon DEF PicksInv, PicksFlags
<1>9. chosen' = chosen /\ waiting' = {}
  BY <1>2, <1>3, FailuresSelectNothing
<1>10. ASSUME ~lost' PROVE Heard'
  <2>1. ~lost /\ up' = up
    BY <1>1, <1>10
  <2> QED
    BY <1>1, <1>9, <2>1, HeardKept DEF PicksInv
<1> QED
  BY <1>6, <1>7, <1>8, <1>10 DEF PicksInv

LEMMA TailFacts ==
  ASSUME NEW u \in Seq(Messages), u # <<>>
  PROVE  /\ Head(u) \in Messages /\ Head(u) = u[1] /\ Tail(u) \in Seq(Messages)
         /\ Len(u) \in Nat /\ Len(u) >= 1 /\ Len(Tail(u)) = Len(u) - 1
         /\ DOMAIN u = 1 .. Len(u) /\ DOMAIN Tail(u) = 1 .. Len(u) - 1
         /\ \A i \in 1 .. Len(u) - 1 : Tail(u)[i] = u[i + 1]
BY HeadTailProperties

(* What is known of the messages that are left when one is heard.          *)
LEMMA HearLeaves ==
  ASSUME PicksInv, up # <<>>, up' = Tail(up), UNCHANGED <<opens, want, surf, job>>,
         waiting' \subseteq waiting, ~lost,
         Head(up).type \in {"opened", "status"},
         Head(up).type = "opened" => listed' = listed,
         Head(up).type = "status" =>
           /\ listed' = Head(up).records
           /\ \A r \in waiting' : Head(up).records[want[r]] # "ready"
  PROVE  SaysLast(up, surf)' /\ ReportsFirst(up, job)'
<1>1. /\ up \in Seq(Messages) /\ SaysLast(up, surf) /\ ReportsFirst(up, job)
  BY DEF PicksInv, PicksTypes, Heard
<1> DEFINE v == Tail(up)
<1>2. /\ Head(up) = up[1] /\ Len(up) \in Nat /\ Len(up) >= 1 /\ Len(v) = Len(up) - 1
      /\ DOMAIN up = 1 .. Len(up) /\ DOMAIN v = 1 .. Len(up) - 1
      /\ \A i \in 1 .. Len(up) - 1 : v[i] = up[i + 1]
  BY <1>1, TailFacts
<1>3. up' = v
  OBVIOUS
<1> HIDE DEF v
<1>4. \A i \in DOMAIN up : i # 1 => i - 1 \in DOMAIN v /\ v[i - 1] = up[i]
  <2>1. ASSUME NEW i \in DOMAIN up, i # 1 PROVE i - 1 \in 1 .. Len(up) - 1 /\ (i - 1) + 1 = i
    BY <1>2, <2>1
  <2> QED
    BY <1>2, <2>1
<1>5. \A i \in DOMAIN v : i \in Nat /\ i + 1 \in DOMAIN up /\ v[i] = up[i + 1]
  BY <1>2
<1>6. \A i \in DOMAIN up : i \in Nat
  BY <1>2
<1>7. SaysLast(up, surf)'
  <2>1. CASE listed = surf /\ \A i \in DOMAIN up : up[i].type # "status"
    <3>1. listed' = surf' /\ \A i \in DOMAIN v : v[i].type # "status"
      <4>1. 1 \in DOMAIN up
        BY <1>2
      <4> QED
        BY <1>2, <1>5, <2>1, <4>1
    <3> QED
      BY <1>3, <3>1 DEF SaysLast
  <2>2. CASE \E i \in DOMAIN up :
               /\ up[i].type = "status" /\ up[i].records = surf
               /\ \A k \in DOMAIN up : k > i => up[k].type # "status"
    <3>1. PICK i \in DOMAIN up : /\ up[i].type = "status" /\ up[i].records = surf
                                 /\ \A k \in DOMAIN up : k > i => up[k].type # "status"
      BY <2>2
    <3>2. CASE i = 1
      <4>1. listed' = surf'
        BY <1>2, <3>1, <3>2
      <4>2. \A k \in DOMAIN v : v[k].type # "status"
        <5>1. \A k \in DOMAIN v : k + 1 > i
          BY <1>2, <3>2
        <5> QED
          BY <1>5, <3>1, <5>1
      <4> QED
        BY <1>3, <4>1, <4>2 DEF SaysLast
    <3>3. CASE i # 1
      <4>1. i - 1 \in DOMAIN v /\ v[i - 1].type = "status" /\ v[i - 1].records = surf'
        BY <1>4, <3>1, <3>3
      <4>2. \A k \in DOMAIN v : k > i - 1 => v[k].type # "status"
        <5>1. \A k \in DOMAIN v : k > i - 1 => k + 1 > i
          BY <1>5, <1>6
        <5> QED
          BY <1>5, <3>1, <5>1
      <4> QED
        BY <1>3, <4>1, <4>2 DEF SaysLast
    <3> QED
      BY <3>2, <3>3
  <2> QED
    BY <1>1, <2>1, <2>2 DEF SaysLast
<1>8. ASSUME NEW r \in waiting', NEW n \in Nat, ReadyReported(up, r, n)
      PROVE  ReadyReported(up, r, n - 1)'
  <2>1. PICK k \in DOMAIN up : k <= n /\ up[k].type = "status" /\ up[k].records[want[r]] = "ready"
    BY <1>8 DEF ReadyReported
  <2>2. k # 1
    BY <1>2, <2>1
  <2>3. k - 1 \in DOMAIN v /\ v[k - 1] = up[k]
    BY <1>4, <2>2
  <2>4. k - 1 <= n - 1
    BY <1>6, <2>1
  <2> QED
    BY <1>3, <2>1, <2>3, <2>4 DEF ReadyReported
<1>9. ReportsFirst(up, job)'
  <2>1. ASSUME NEW i \in DOMAIN v, NEW r \in waiting',
               v[i].type = "opened" /\ v[i].status = "ready" /\ v[i].open = r
        PROVE  ReadyReported(up, r, i)'
    <3>1. i + 1 \in Nat /\ (i + 1) - 1 = i /\ i + 1 \in DOMAIN up /\ v[i] = up[i + 1]
      BY <1>5
    <3>2. ReadyReported(up, r, i + 1)
      BY <1>1, <2>1, <3>1 DEF ReportsFirst
    <3>3. ReadyReported(up, r, (i + 1) - 1)'
      BY <1>8, <3>1, <3>2
    <3> QED
      BY <3>1, <3>3
  <2>2. ASSUME NEW r \in waiting', job'[r] = "reported"
        PROVE  ReadyReported(up, r, Len(up))'
    <3>1. ReadyReported(up, r, Len(up))
      BY <1>1, <2>2 DEF ReportsFirst
    <3> QED
      BY <1>2, <1>3, <1>8, <3>1
  <2> QED
    BY <1>3, <2>1, <2>2 DEF ReportsFirst
<1> QED
  BY <1>7, <1>9

LEMMA HearOpenedInv ==
  ASSUME PicksInv, up # <<>>, up' = Tail(up), Head(up).type = "opened",
         Picks!HearOpened(Head(up)),
         UNCHANGED <<route, opens, latest, want, linked, browser, down, lost, job, surf, upsets>>
  PROVE  PicksInv'
<1> DEFINE m == Head(up)
<1> DEFINE done == IF m.open \in waiting THEN [r \in {m.open} |-> m.status] ELSE <<>>
<1>1. /\ up \in Seq(Messages) /\ m \in Messages /\ up' \in Seq(Messages) /\ m = up[1]
      /\ 1 \in DOMAIN up
      /\ \A i \in DOMAIN up' : i + 1 \in DOMAIN up /\ up'[i] = up[i + 1]
  <2>1. up \in Seq(Messages)
    BY DEF PicksInv, PicksTypes
  <2> QED
    BY <2>1, TailFacts
<1>2. /\ m.open \in Picks!OpenIds /\ m.status \in {"ready", "blocked", "failed"}
      /\ m.type = "opened"
  BY <1>1 DEF Messages
<1>3. IF m.open \in waiting
      THEN Picks!Finish([r \in {m.open} |-> m.status]) ELSE UNCHANGED <<waiting, result, chosen>>
  BY DEF Picks!HearOpened
<1>4. UNCHANGED listed
  BY DEF Picks!HearOpened
<1>5. \A i \in DOMAIN up' : up'[i].type = "opened" => up'[i].open <= opens
  BY <1>1 DEF PicksInv, OpensInOrder
<1>6. PicksFlags'
  BY Zenon DEF PicksInv, PicksFlags
<1>7. CASE m.open \in waiting
  <2> DEFINE over == [r \in {m.open} |-> m.status]
  <2>1. DOMAIN over = {m.open} /\ over[m.open] = m.status
    OBVIOUS
  <2>2. Picks!Finish(over)
    BY <1>3, <1>7
  <2> HIDE DEF over
  <2>3. /\ waiting' = waiting \ DOMAIN over
        /\ result' = [r \in Picks!OpenIds |->
                        IF r \in DOMAIN over THEN Picks!Selects(over).now[r] ELSE result[r]]
        /\ chosen' = Picks!Selects(over).model
    BY <2>2 DEF Picks!Finish
  <2>4. /\ OpensInOrder' /\ LastSelected' /\ waiting' \subseteq 1 .. opens'
        /\ result' \in [Picks!OpenIds ->
                          {"none", "pending", "ready", "late", "blocked", "failed"}]
        /\ chosen' \in Models \cup {NoModel}
    BY <1>2, <1>5, <1>7, <2>1, <2>3, SelectFacts
  <2>5. PicksTypes'
    BY <1>1, <1>4, <2>4 DEF PicksInv, PicksTypes
  <2>6. ASSUME ~lost' PROVE Heard'
    <3>1. ~lost /\ ReportsFirst(up, job) /\ SelectedIsListed
      BY <2>6 DEF PicksInv, Heard
    <3>2. m.status # "ready"
      <4>1. SUFFICES ASSUME m.status = "ready" PROVE FALSE
        OBVIOUS
      <4>2. ReadyReported(up, m.open, 1)
        BY <1>1, <1>2, <1>7, <3>1, <4>1 DEF ReportsFirst
      <4>3. PICK k \in DOMAIN up : k <= 1 /\ up[k].type = "status"
        BY <4>2 DEF ReadyReported
      <4>4. k = 1
        BY <1>1, <4>3, TailFacts
      <4> QED
        BY <1>1, <1>2, <4>3, <4>4
    <3>3. chosen' = chosen
      BY <2>1, <2>3, <3>2 DEF Picks!Selects
    <3>4. SaysLast(up, surf)' /\ ReportsFirst(up, job)'
      BY <1>2, <1>4, <2>3, <3>1, HearLeaves
    <3>5. SelectedIsListed'
      BY <1>4, <3>1, <3>3 DEF SelectedIsListed
    <3> QED
      BY <3>4, <3>5 DEF Heard
  <2> QED
    BY <1>6, <2>4, <2>5, <2>6 DEF PicksInv
<1>8. CASE m.open \notin waiting
  <2>1. UNCHANGED <<waiting, result, chosen>>
    BY <1>3, <1>8
  <2>2. PicksTypes'
    BY <1>1, <1>4, <2>1 DEF PicksInv, PicksTypes
  <2>3. OpensInOrder'
    BY <1>5, <2>1 DEF PicksInv, OpensInOrder
  <2>4. LastSelected'
    BY <2>1 DEF PicksInv, LastSelected
  <2>5. ASSUME ~lost' PROVE Heard'
    <3>1. ~lost /\ SelectedIsListed
      BY <2>5 DEF PicksInv, Heard
    <3>2. SaysLast(up, surf)' /\ ReportsFirst(up, job)'
      BY <1>2, <1>4, <2>1, <3>1, HearLeaves
    <3>3. SelectedIsListed'
      BY <1>4, <2>1, <3>1 DEF SelectedIsListed
    <3> QED
      BY <3>2, <3>3 DEF Heard
  <2> QED
    BY <1>6, <2>2, <2>3, <2>4, <2>5 DEF PicksInv
<1> QED
  BY <1>7, <1>8

LEMMA HearStatusInv ==
  ASSUME PicksInv, up # <<>>, up' = Tail(up), Head(up).type = "status",
         Picks!HearStatus(Head(up)),
         UNCHANGED <<route, opens, latest, want, linked, browser, down, lost, job, surf, upsets>>
  PROVE  PicksInv'
<1> DEFINE m == Head(up)
<1> DEFINE over == {r \in waiting : m.records[want[r]] \in {"ready", "blocked"}}
<1> DEFINE done == [r \in over |-> m.records[want[r]]]
<1>1. /\ up \in Seq(Messages) /\ m \in Messages /\ up' \in Seq(Messages)
      /\ \A i \in DOMAIN up' : i + 1 \in DOMAIN up /\ up'[i] = up[i + 1]
  <2>1. up \in Seq(Messages)
    BY DEF PicksInv, PicksTypes
  <2> QED
    BY <2>1, TailFacts
<1>2. m.records \in [Models -> Picks!Statuses] /\ m.type = "status"
  BY <1>1 DEF Messages
<1>3. /\ listed' = m.records /\ waiting' = waiting \ over
      /\ result' = [r \in Picks!OpenIds |->
                      IF r \in over THEN Picks!Selects(done).now[r] ELSE result[r]]
      /\ chosen' = (IF Picks!Selects(done).model # chosen THEN Picks!Selects(done).model
                    ELSE Picks!StillSelected(m.records))
  BY DEF Picks!HearStatus
<1>4. /\ DOMAIN done = over /\ over \subseteq waiting
      /\ \A r \in over : done[r] = m.records[want[r]] /\ done[r] \in {"ready", "blocked"}
      /\ \A r \in waiting' : m.records[want[r]] # "ready"
  BY <1>3
<1> HIDE DEF m, over, done
<1>5. \A i \in DOMAIN up' : up'[i].type = "opened" => up'[i].open <= opens
  BY <1>1 DEF PicksInv, OpensInOrder
<1>6. chosen' \in {Picks!Selects(done).model, NoModel}
  BY <1>3 DEF Picks!StillSelected
<1>7. /\ OpensInOrder' /\ LastSelected' /\ waiting' \subseteq 1 .. opens'
      /\ result' \in [Picks!OpenIds -> {"none", "pending", "ready", "late", "blocked", "failed"}]
      /\ chosen' \in Models \cup {NoModel}
  BY <1>3, <1>4, <1>5, <1>6, SelectFacts
<1>8. PicksTypes'
  BY <1>1, <1>2, <1>3, <1>7 DEF PicksInv, PicksTypes
<1>9. ASSUME ~lost' PROVE Heard'
  <2>1. ~lost
    BY <1>9
  <2>2. SaysLast(up, surf)' /\ ReportsFirst(up, job)'
    BY <1>2, <1>3, <1>4, <2>1, HearLeaves DEF m
  <2>3. SelectedIsListed'
    <3>1. CASE Picks!Selects(done).model # chosen
      <4>1. /\ latest \in DOMAIN done /\ done[latest] = "ready"
            /\ Picks!Selects(done).model = want[latest]
        BY <3>1 DEF Picks!Selects
      <4> QED
        BY <1>3, <1>4, <3>1, <4>1 DEF SelectedIsListed
    <3>2. CASE Picks!Selects(done).model = chosen
      <4>1. chosen' = Picks!StillSelected(m.records)
        BY <1>3, <3>2
      <4> QED
        BY <1>3, <4>1 DEF SelectedIsListed, Picks!StillSelected
    <3> QED
      BY <3>1, <3>2
  <2> QED
    BY <2>2, <2>3 DEF Heard
<1>10. PicksFlags'
  BY Zenon DEF PicksInv, PicksFlags
<1> QED
  BY <1>7, <1>8, <1>9, <1>10 DEF PicksInv

LEMMA HearInv == ASSUME PicksInv, Picks!Hear PROVE PicksInv'
<1>1. /\ up # <<>> /\ up' = Tail(up)
      /\ \/ Head(up).type = "opened" /\ Picks!HearOpened(Head(up))
         \/ Head(up).type = "status" /\ Picks!HearStatus(Head(up))
      /\ UNCHANGED <<route, opens, latest, want, linked, browser, down, lost, job, surf, upsets>>
  BY DEF Picks!Hear
<1>2. CASE Head(up).type = "opened" /\ Picks!HearOpened(Head(up))
  BY <1>1, <1>2, HearOpenedInv
<1>3. CASE Head(up).type = "status" /\ Picks!HearStatus(Head(up))
  BY <1>1, <1>3, HearStatusInv
<1> QED
  BY <1>1, <1>2, <1>3

LEMMA PicksNextInv == PicksInv /\ Picks!PicksNext => PicksInv'
<1> SUFFICES ASSUME PicksInv, Picks!PicksNext PROVE PicksInv'
  OBVIOUS
<1>1. CASE \E m \in Models : \/ Picks!PickUnopened(m) \/ Picks!TabCloses(m)
                             \/ \E p \in BOOLEAN : Picks!Open(m, p)
  BY <1>1, PickUnopenedInv, TabClosesInv, OpenInv
<1>2. CASE Picks!Dismiss \/ Picks!Hear
  BY <1>2, DismissInv, HearInv
<1>3. CASE \E r \in Picks!OpenIds :
             \/ Picks!OpenTimesOut(r) \/ Picks!Start(r) \/ Picks!ReportReady(r)
             \/ Picks!AckReady(r) \/ Picks!AckBlocked(r) \/ Picks!AckFailed(r)
  BY <1>3, OpenTimesOutInv, StartInv, ReportReadyInv, AckReadyInv, AckBlockedInv, AckFailedInv
<1>4. CASE \/ Picks!BrowserReturns \/ Picks!EditorDrops \/ Picks!EditorReturns
           \/ Picks!LeaveRelay \/ Picks!ReturnToRelay
  BY <1>4, BrowserReturnsInv, EditorDropsInv, EditorReturnsInv, LeaveRelayInv, ReturnToRelayInv
<1>5. CASE \E k \in BOOLEAN : Picks!BrowserDrops(k)
  BY <1>5, BrowserDropsInv
<1> QED
  BY <1>1, <1>2, <1>3, <1>4, <1>5 DEF Picks!PicksNext

(* The chat of the last open answered in time is ready, once everything    *)
(* was heard.                                                              *)
LEMMA PicksHold == PicksInv => Picks!SelectionHolds
<1> SUFFICES ASSUME PicksInv, chosen # NoModel
             PROVE  LET ready == {r \in Picks!OpenIds : result[r] = "ready"} IN
                    /\ ready # {} /\ chosen = want[Picks!Max(ready)]
                    /\ ~lost /\ up = <<>> => surf[chosen] = "ready"
  BY DEF Picks!SelectionHolds
<1> DEFINE ready == {r \in Picks!OpenIds : result[r] = "ready"}
<1>1. PICK q \in ready : chosen = want[q] /\ \A r \in ready : r <= q
  BY DEF PicksInv, LastSelected
<1>2. \A r \in ready : r \in Nat
  BY PicksBounds
<1>3. Picks!Max(ready) = q
  <2>1. \A r \in ready : (\A x \in ready : r >= x) => r = q
    BY <1>1, <1>2
  <2>2. \A x \in ready : q >= x
    BY <1>1, <1>2
  <2> QED
    BY <2>1, <2>2, <1>1 DEF Picks!Max
<1>4. ASSUME ~lost, up = <<>> PROVE surf[chosen] = "ready"
  <2>1. SaysLast(up, surf) /\ SelectedIsListed /\ DOMAIN up = {}
    BY <1>4 DEF PicksInv, Heard
  <2>2. listed = surf
    BY <2>1 DEF SaysLast
  <2> QED
    BY <2>1, <2>2 DEF SelectedIsListed
<1> QED
  BY <1>1, <1>3, <1>4

-----------------------------------------------------------------------------
(* AgentBridge.                                                            *)

AgentTypes ==
  /\ server \in {"starting", "up", "dead"} /\ link \in {"none", "open", "down"}
  /\ lines \in Seq(Agent!Kinds) /\ Len(lines) <= MaxLines /\ at \in 0 .. Len(lines)
  /\ drops \in 0 .. MaxDrops
  /\ pending \subseteq Agent!Lines /\ unheard \subseteq Agent!Lines
  /\ transit \subseteq Agent!Lines /\ results \subseteq Agent!Lines
  /\ answers \in Seq(Agent!Lines)

(* What was answered was read, and a call that is waited for was not.      *)
AnsweredSofar ==
  \A i \in DOMAIN answers : answers[i] <= at /\ (calling => answers[i] < at)

(* The call that is waited for is the line read last, and the only one     *)
(* whose answer is still written.                                          *)
OneCall ==
  /\ calling => at > 0 /\ lines[at] = "call"
  /\ \A n \in pending \ unheard : calling /\ n = at
  /\ \A n \in Agent!Lines : n \in unheard \/ n \in transit \/ n \in results => n <= at
  /\ \A n \in unheard : n \notin transit /\ n \notin results

AgentInv == calling \in BOOLEAN /\ AgentTypes /\ AnswersInOrder /\ AnsweredSofar /\ OneCall

LEMMA AgentBounds ==
  MaxLines \in Nat /\ MaxDrops \in Nat /\ Agent!Lines = 1 .. MaxLines
BY ConnectionAssumption DEF Agent!Lines

LEMMA AgentTypeCorrect == AgentInv => Agent!AgentTypeOK
<1> SUFFICES ASSUME AgentInv PROVE Agent!AgentTypeOK
  OBVIOUS
<1>1. Agent!ToSet(answers) \subseteq Agent!Lines
  BY DEF AgentInv, AgentTypes, Agent!ToSet
<1>2. UNION {pending, unheard, transit, results, Agent!ToSet(answers)} \subseteq Agent!Lines
  BY <1>1 DEF AgentInv, AgentTypes
<1> QED
  BY <1>2, Zenon DEF AgentInv, AgentTypes, Agent!AgentTypeOK

LEMMA AgentInit == Init => AgentInv
<1> SUFFICES ASSUME Agent!AgentInit PROVE AgentInv
  BY DEF Init
<1>1. /\ lines = <<>> /\ answers = <<>> /\ at = 0 /\ drops = 0 /\ Len(lines) = 0
      /\ lines \in Seq(Agent!Kinds) /\ answers \in Seq(Agent!Lines) /\ DOMAIN answers = {}
      /\ pending = {} /\ unheard = {} /\ transit = {} /\ results = {}
      /\ server \in {"starting", "up", "dead"} /\ link \in {"none", "open", "down"}
  BY EmptySeq DEF Agent!AgentInit
<1>2. AgentTypes
  BY <1>1, AgentBounds DEF AgentTypes
<1>3. calling = FALSE
  BY DEF Agent!AgentInit
<1>4. AnswersInOrder /\ AnsweredSofar /\ OneCall
  BY <1>1, <1>3 DEF AnswersInOrder, Agent!AnswersInOrder, AnsweredSofar, OneCall
<1> QED
  BY <1>2, <1>3, <1>4, Zenon DEF AgentInv

(* An answer to a line read after those answered before.                   *)
LEMMA AnswerGrows ==
  ASSUME AgentInv, NEW n \in Agent!Lines, Agent!write(n), UNCHANGED lines,
         \A i \in DOMAIN answers : answers[i] < n, lines[n] # "notification"
  PROVE  /\ answers' \in Seq(Agent!Lines) /\ AnswersInOrder'
         /\ \A i \in DOMAIN answers' : answers'[i] <= n
<1>1. answers \in Seq(Agent!Lines) /\ answers' = Append(answers, n) /\ n \in Nat
  BY AgentBounds DEF AgentInv, AgentTypes, Agent!write
<1>2. /\ answers' \in Seq(Agent!Lines) /\ Len(answers) \in Nat
      /\ DOMAIN answers = 1 .. Len(answers) /\ DOMAIN answers' = 1 .. Len(answers) + 1
      /\ answers'[Len(answers) + 1] = n
      /\ \A i \in 1 .. Len(answers) : answers'[i] = answers[i] /\ answers[i] \in Nat
  BY <1>1, AppendProperties, AgentBounds
<1>3. AnswersInOrder
  BY DEF AgentInv
<1>4. ASSUME NEW i \in DOMAIN answers', NEW j \in DOMAIN answers', i < j
      PROVE  answers'[i] < answers'[j]
  <2>1. i \in 1 .. Len(answers)
    BY <1>2, <1>4
  <2>2. CASE j = Len(answers) + 1
    BY <1>2, <2>1, <2>2
  <2>3. CASE j # Len(answers) + 1
    BY <1>2, <1>3, <1>4, <2>1, <2>3 DEF AnswersInOrder, Agent!AnswersInOrder
  <2> QED
    BY <2>2, <2>3
<1>5. ASSUME NEW i \in DOMAIN answers' PROVE lines[answers'[i]] # "notification"
  <2>1. CASE i = Len(answers) + 1
    BY <1>2, <2>1
  <2>2. CASE i # Len(answers) + 1
    BY <1>2, <1>3, <2>2 DEF AnswersInOrder, Agent!AnswersInOrder
  <2> QED
    BY <2>1, <2>2
<1>6. \A i \in DOMAIN answers' : answers'[i] <= n
  BY <1>1, <1>2
<1> QED
  BY <1>2, <1>4, <1>5, <1>6 DEF AnswersInOrder, Agent!AnswersInOrder

(* The line the loop reads.                                                *)
LEMMA NextLine ==
  ASSUME AgentInv, NEW kind, Agent!Reads(kind)
  PROVE  /\ ~calling /\ at \in Nat /\ at + 1 \in Agent!Lines /\ lines[at + 1] = kind
         /\ at' = at + 1 /\ at' \in 0 .. Len(lines) /\ at' > 0 /\ at' \in Nat
         /\ \A i \in DOMAIN answers :
              answers[i] <= at /\ answers[i] < at + 1 /\ answers[i] <= at'
         /\ pending \subseteq unheard
         /\ \A n \in Agent!Lines : n <= at => n <= at' /\ n # at + 1
<1>1. /\ ~calling /\ at < Len(lines) /\ lines[at + 1] = kind /\ at' = at + 1
  BY DEF Agent!Reads
<1>2. /\ lines \in Seq(Agent!Kinds) /\ Len(lines) <= MaxLines /\ at \in 0 .. Len(lines)
      /\ answers \in Seq(Agent!Lines)
  BY DEF AgentInv, AgentTypes
<1>3. Len(lines) \in Nat /\ MaxLines \in Nat /\ Agent!Lines = 1 .. MaxLines
  BY <1>2, AgentBounds
<1>4. at \in Nat /\ at + 1 \in Agent!Lines /\ at' \in 0 .. Len(lines) /\ at' > 0 /\ at' \in Nat
  BY <1>1, <1>2, <1>3
<1>5. ASSUME NEW i \in DOMAIN answers
      PROVE  answers[i] <= at /\ answers[i] < at + 1 /\ answers[i] <= at'
  <2>1. answers[i] \in Nat
    BY <1>2, <1>3
  <2> QED
    BY <1>1, <1>4, <2>1 DEF AgentInv, AnsweredSofar
<1>6. pending \subseteq unheard
  BY <1>1 DEF AgentInv, OneCall
<1> QED
  BY <1>1, <1>3, <1>4, <1>5, <1>6

LEMMA ReadNotificationInv == ASSUME AgentInv, Agent!ReadNotification PROVE AgentInv'
<1>1. /\ Agent!Reads("notification")
      /\ UNCHANGED <<server, link, lines, calling, pending, unheard, transit, results, answers>>
      /\ UNCHANGED drops
  BY DEF Agent!ReadNotification
<1>2. /\ ~calling /\ at' \in 0 .. Len(lines)
      /\ \A i \in DOMAIN answers : answers[i] <= at'
      /\ \A n \in Agent!Lines : n <= at => n <= at'
  BY <1>1, NextLine
<1>3. AgentTypes'
  BY <1>1, <1>2 DEF AgentInv, AgentTypes
<1>4. AnswersInOrder'
  BY <1>1 DEF AgentInv, AnswersInOrder, Agent!AnswersInOrder
<1>5. AnsweredSofar'
  BY <1>1, <1>2 DEF AnsweredSofar
<1>6. OneCall'
  <2>1. pending \subseteq unheard
    BY <1>1, NextLine
  <2> QED
    BY <1>1, <1>2, <2>1 DEF AgentInv, OneCall
<1>7. calling' \in BOOLEAN
  BY <1>1, Zenon DEF AgentInv
<1> QED
  BY <1>3, <1>4, <1>5, <1>6, <1>7, Zenon DEF AgentInv

(* A line answered when it is read.                                        *)
LEMMA AnsweredAtOnce ==
  ASSUME AgentInv, NEW kind, kind # "notification", Agent!Reads(kind), Agent!write(at + 1),
         UNCHANGED <<server, link, lines, calling, transit, results, drops>>,
         \/ UNCHANGED <<pending, unheard>>
         \/ pending' = pending \cup {at + 1} /\ unheard' = unheard \cup {at + 1}
  PROVE  AgentInv'
<1>1. /\ ~calling /\ at \in Nat /\ at + 1 \in Agent!Lines /\ lines[at + 1] = kind
      /\ at' = at + 1 /\ at' \in 0 .. Len(lines)
      /\ \A i \in DOMAIN answers : answers[i] <= at /\ answers[i] < at + 1
      /\ pending \subseteq unheard
      /\ \A n \in Agent!Lines : n <= at => n <= at' /\ n # at + 1
  BY NextLine
<1>2. /\ answers' \in Seq(Agent!Lines) /\ AnswersInOrder'
      /\ \A i \in DOMAIN answers' : answers'[i] <= at'
  BY <1>1, AnswerGrows
<1>3. pending' \subseteq Agent!Lines /\ unheard' \subseteq Agent!Lines /\ pending' \subseteq unheard'
      /\ unheard' \subseteq unheard \cup {at + 1}
  BY <1>1 DEF AgentInv, AgentTypes
<1>4. AgentTypes'
  BY <1>1, <1>2, <1>3 DEF AgentInv, AgentTypes
<1>5. AnsweredSofar'
  BY <1>1, <1>2 DEF AnsweredSofar
<1>6. OneCall'
  <2>1. ASSUME NEW n \in Agent!Lines, n \in unheard' \/ n \in transit' \/ n \in results'
        PROVE  n <= at'
    <3>1. CASE n = at + 1
      BY <1>1, <3>1
    <3>2. CASE n # at + 1
      BY <1>1, <1>3, <2>1, <3>2 DEF AgentInv, OneCall
    <3> QED
      BY <3>1, <3>2
  <2>2. \A n \in unheard' : n \notin transit' /\ n \notin results'
    BY <1>1, <1>3 DEF AgentInv, OneCall
  <2> QED
    BY <1>1, <1>3, <2>1, <2>2 DEF OneCall
<1>7. calling' \in BOOLEAN
  BY Zenon DEF AgentInv
<1> QED
  BY <1>2, <1>4, <1>5, <1>6, <1>7, Zenon DEF AgentInv

LEMMA ReadCallInv == ASSUME AgentInv, Agent!ReadCall PROVE AgentInv'
<1>1. /\ Agent!Reads("call") /\ calling' = TRUE
      /\ pending' = pending \cup {at + 1} /\ transit' = transit \cup {at + 1}
      /\ UNCHANGED <<server, link, lines, unheard, results, answers, drops>>
  BY DEF Agent!ReadCall
<1>2. /\ at \in Nat /\ at + 1 \in Agent!Lines /\ lines[at + 1] = "call"
      /\ at' = at + 1 /\ at' \in 0 .. Len(lines) /\ at' > 0
      /\ \A i \in DOMAIN answers : answers[i] <= at /\ answers[i] < at + 1
      /\ pending \subseteq unheard
      /\ \A n \in Agent!Lines : n <= at => n <= at' /\ n # at + 1
  BY <1>1, NextLine
<1>3. AgentTypes'
  <2>1. pending' \subseteq Agent!Lines /\ transit' \subseteq Agent!Lines
    BY <1>1, <1>2 DEF AgentInv, AgentTypes
  <2> QED
    BY <1>1, <1>2, <2>1 DEF AgentInv, AgentTypes
<1>4. AnswersInOrder'
  BY <1>1 DEF AgentInv, AnswersInOrder, Agent!AnswersInOrder
<1>5. AnsweredSofar'
  <2>1. \A i \in DOMAIN answers : answers[i] \in Nat
    BY AgentBounds DEF AgentInv, AgentTypes
  <2> QED
    BY <1>1, <1>2, <2>1 DEF AnsweredSofar
<1>6. OneCall'
  <2>1. ASSUME NEW n \in Agent!Lines, n \in unheard' \/ n \in transit' \/ n \in results'
        PROVE  n <= at'
    <3>1. CASE n = at + 1
      BY <1>2, <3>1
    <3>2. CASE n # at + 1
      BY <1>1, <1>2, <2>1, <3>2 DEF AgentInv, OneCall
    <3> QED
      BY <3>1, <3>2
  <2>2. ASSUME NEW n \in unheard' PROVE n \notin transit' /\ n \notin results'
    <3>1. n \in unheard /\ n \in Agent!Lines /\ n <= at
      BY <1>1, <2>2 DEF AgentInv, OneCall, AgentTypes
    <3> QED
      BY <1>1, <1>2, <3>1 DEF AgentInv, OneCall
  <2>3. \A n \in pending' \ unheard' : calling' /\ n = at'
    BY <1>1, <1>2
  <2> QED
    BY <1>1, <1>2, <2>1, <2>2, <2>3 DEF OneCall
<1>7. calling' \in BOOLEAN
  BY <1>1, Zenon
<1> QED
  BY <1>3, <1>4, <1>5, <1>6, <1>7, Zenon DEF AgentInv

(* The call that is waited for is answered.                                *)
LEMMA CallAnswered ==
  ASSUME AgentInv, NEW n \in Agent!Lines, n \in pending, n \notin unheard,
         Agent!write(n), calling' = FALSE, pending' = pending \ {n},
         results' \subseteq results, UNCHANGED <<server, link, lines, at, unheard, transit, drops>>
  PROVE  AgentInv'
<1>1. calling /\ n = at /\ lines[at] = "call" /\ at \in Nat
  BY AgentBounds DEF AgentInv, OneCall
<1>2. \A i \in DOMAIN answers : answers[i] < n
  BY <1>1 DEF AgentInv, AnsweredSofar
<1>3. /\ answers' \in Seq(Agent!Lines) /\ AnswersInOrder'
      /\ \A i \in DOMAIN answers' : answers'[i] <= at'
  BY <1>1, <1>2, AnswerGrows
<1>4. AgentTypes'
  BY <1>3 DEF AgentInv, AgentTypes
<1>5. AnsweredSofar'
  BY <1>3 DEF AnsweredSofar
<1>6. OneCall'
  BY <1>1 DEF AgentInv, OneCall
<1>7. calling' \in BOOLEAN
  BY Zenon
<1> QED
  BY <1>3, <1>4, <1>5, <1>6, <1>7, Zenon DEF AgentInv

(* Steps in which nothing is answered and no line is read.                 *)
LEMMA QuietStep ==
  ASSUME AgentInv, UNCHANGED <<at, calling, unheard, answers>>, AgentTypes',
         \A i \in 1 .. Len(lines) : lines'[i] = lines[i],
         pending' \ unheard' \subseteq pending \ unheard,
         transit' \cup results' \subseteq transit \cup results
  PROVE  AgentInv'
<1>1. /\ at \in 0 .. Len(lines) /\ Len(lines) \in Nat /\ answers \in Seq(Agent!Lines)
  BY DEF AgentInv, AgentTypes
<1>2. ASSUME NEW i \in DOMAIN answers PROVE lines'[answers[i]] = lines[answers[i]]
  <2>1. answers[i] \in Nat /\ answers[i] >= 1 /\ answers[i] <= at
    BY <1>1, AgentBounds DEF AgentInv, AnsweredSofar
  <2>2. answers[i] \in 1 .. Len(lines)
    BY <1>1, <2>1
  <2> QED
    BY <2>2
<1>3. AnswersInOrder'
  BY <1>2 DEF AgentInv, AnswersInOrder, Agent!AnswersInOrder
<1>4. AnsweredSofar'
  BY DEF AgentInv, AnsweredSofar
<1>5. OneCall'
  <2>1. calling => at > 0 /\ lines'[at] = "call"
    BY <1>1 DEF AgentInv, OneCall
  <2>2. \A n \in Agent!Lines : n \in transit' \/ n \in results' => n \in transit \/ n \in results
    OBVIOUS
  <2>3. \A n \in unheard : n \notin transit' /\ n \notin results'
    BY DEF AgentInv, OneCall
  <2> QED
    BY <2>1, <2>2, <2>3 DEF AgentInv, OneCall
<1>6. calling' \in BOOLEAN
  BY Zenon DEF AgentInv
<1> QED
  BY <1>3, <1>4, <1>5, <1>6, Zenon DEF AgentInv

LEMMA HearResultInv ==
  ASSUME AgentInv, NEW n \in Agent!Lines, Agent!HearResult(n) PROVE AgentInv'
<1>1. /\ n \in results /\ results' = results \ {n} /\ pending' = pending \ {n}
      /\ UNCHANGED <<server, link, lines, at, unheard, transit, drops>>
      /\ n \in pending => calling' = FALSE /\ Agent!write(n)
      /\ n \notin pending => UNCHANGED <<calling, answers>>
  BY DEF Agent!HearResult
<1>2. n \notin unheard
  BY <1>1 DEF AgentInv, OneCall
<1>3. CASE n \in pending
  BY <1>1, <1>2, <1>3, CallAnswered
<1>4. CASE n \notin pending
  <2>1. AgentTypes'
    BY <1>1, <1>4 DEF AgentInv, AgentTypes
  <2> QED
    BY <1>1, <1>4, <2>1, QuietStep
<1> QED
  BY <1>3, <1>4

LEMMA CallExpiresInv ==
  ASSUME AgentInv, NEW n \in Agent!Lines, Agent!CallExpires(n) PROVE AgentInv'
<1>1. /\ n \in pending /\ pending' = pending \ {n}
      /\ UNCHANGED <<link, lines, at, unheard, transit, results, drops>>
      /\ n \in unheard => server' = "dead" /\ UNCHANGED <<calling, answers>>
      /\ n \notin unheard => calling' = FALSE /\ Agent!write(n) /\ UNCHANGED server
  BY DEF Agent!CallExpires
<1>2. CASE n \in unheard
  <2>1. AgentTypes'
    BY <1>1, <1>2 DEF AgentInv, AgentTypes
  <2> QED
    BY <1>1, <1>2, <2>1, QuietStep
<1>3. CASE n \notin unheard
  BY <1>1, <1>3, CallAnswered
<1> QED
  BY <1>2, <1>3

LEMMA OthersInv ==
  ASSUME AgentInv,
         \/ Agent!Start \/ Agent!LinkDrops \/ Agent!LinkReturns
         \/ \E k \in Agent!Kinds : Agent!AgentWrites(k)
         \/ \E n \in Agent!Lines : Agent!EditorAnswers(n)
  PROVE  AgentInv'
<1>1. CASE Agent!Start
  <2>1. AgentTypes'
    BY <1>1 DEF Agent!Start, AgentInv, AgentTypes
  <2> QED
    BY <1>1, <2>1, QuietStep DEF Agent!Start
<1>2. CASE Agent!LinkDrops
  <2>1. drops' \in 0 .. MaxDrops
    BY <1>2, AgentBounds DEF Agent!LinkDrops, AgentInv, AgentTypes
  <2>2. AgentTypes'
    BY <1>2, <2>1 DEF Agent!LinkDrops, AgentInv, AgentTypes
  <2> QED
    BY <1>2, <2>2, QuietStep DEF Agent!LinkDrops
<1>3. CASE Agent!LinkReturns
  <2>1. AgentTypes'
    BY <1>3 DEF Agent!LinkReturns, AgentInv, AgentTypes
  <2> QED
    BY <1>3, <2>1, QuietStep DEF Agent!LinkReturns
<1>4. ASSUME NEW k \in Agent!Kinds, Agent!AgentWrites(k) PROVE AgentInv'
  <2>1. /\ Len(lines) < MaxLines /\ lines' = Append(lines, k) /\ lines \in Seq(Agent!Kinds)
        /\ UNCHANGED <<server, link, at, calling, pending, unheard, transit, results, answers>>
        /\ UNCHANGED drops
    BY <1>4 DEF Agent!AgentWrites, AgentInv, AgentTypes
  <2>2. /\ lines' \in Seq(Agent!Kinds) /\ Len(lines) \in Nat /\ Len(lines') = Len(lines) + 1
        /\ \A i \in 1 .. Len(lines) : lines'[i] = lines[i]
    BY <2>1, AppendProperties
  <2>3. Len(lines') <= MaxLines /\ at' \in 0 .. Len(lines')
    BY <2>1, <2>2, AgentBounds DEF AgentInv, AgentTypes
  <2>4. AgentTypes'
    BY <2>1, <2>2, <2>3 DEF AgentInv, AgentTypes
  <2> QED
    BY <2>1, <2>2, <2>4, QuietStep
<1>5. ASSUME NEW n \in Agent!Lines, Agent!EditorAnswers(n) PROVE AgentInv'
  <2>1. AgentTypes'
    BY <1>5 DEF Agent!EditorAnswers, AgentInv, AgentTypes
  <2> QED
    BY <1>5, <2>1, QuietStep DEF Agent!EditorAnswers
<1> QED
  BY <1>1, <1>2, <1>3, <1>4, <1>5

LEMMA AgentNextInv == AgentInv /\ Agent!AgentNext => AgentInv'
<1> SUFFICES ASSUME AgentInv, Agent!AgentNext PROVE AgentInv'
  OBVIOUS
<1>1. CASE Agent!LoopStep
  <2>1. CASE Agent!ReadNotification
    BY <2>1, ReadNotificationInv
  <2>2. CASE Agent!ReadPlain
    BY <2>2, AnsweredAtOnce DEF Agent!ReadPlain
  <2>3. CASE Agent!ReadCall
    BY <2>3, ReadCallInv
  <2>4. CASE Agent!ReadCallDown
    BY <2>4, AnsweredAtOnce DEF Agent!ReadCallDown
  <2>5. CASE Agent!ReadCallUnlinked
    BY <2>5, AnsweredAtOnce DEF Agent!ReadCallUnlinked
  <2> QED
    BY <1>1, <2>1, <2>2, <2>3, <2>4, <2>5 DEF Agent!LoopStep
<1>2. CASE \E n \in Agent!Lines : Agent!HearResult(n) \/ Agent!CallExpires(n)
  BY <1>2, HearResultInv, CallExpiresInv
<1>3. CASE \/ Agent!Start \/ Agent!LinkDrops \/ Agent!LinkReturns
           \/ \E k \in Agent!Kinds : Agent!AgentWrites(k)
           \/ \E n \in Agent!Lines : Agent!EditorAnswers(n)
  BY <1>3, OthersInv
<1> QED
  BY <1>1, <1>2, <1>3 DEF Agent!AgentNext

-----------------------------------------------------------------------------
(* The parts together.                                                     *)

IInv == RelayInv /\ LinkInv /\ PicksInv /\ AgentInv

LEMMA InitInv == Init => IInv
BY RelayInit, LinkInit, PicksInit, AgentInit DEF IInv

(* A part that stands still keeps its invariant.                           *)
LEMMA RelayStays == RelayInv /\ UNCHANGED relayVars => RelayInv'
<1> SUFFICES ASSUME RelayInv, UNCHANGED relayVars PROVE RelayInv'
  OBVIOUS
<1>1. UNCHANGED <<build, made, proc, told, file, spawned, win, served, heard, crashes>>
  BY DEF relayVars
<1>2. Relay!RelayTypeOK'
  BY <1>1 DEF RelayInv, Relay!RelayTypeOK
<1>3. OneListens' /\ UnbornLast' /\ ServingFile' /\ HeardServed'
  BY <1>1 DEF RelayInv, OneListens, UnbornLast, ServingFile, HeardServed, Served,
              Relay!Listening
<1>4. RefusedIsStopped' /\ ReplacedNotReused'
  BY <1>1 DEF RelayInv, RefusedIsStopped, Refused, ReplacedNotReused,
              Relay!ReplacedNotReused, Relay!HandedAnother, Relay!At
<1> QED
  BY <1>2, <1>3, <1>4 DEF RelayInv

LEMMA LinkStays == LinkInv /\ UNCHANGED linkVars => LinkInv'
<1> SUFFICES ASSUME LinkInv, UNCHANGED linkVars PROVE LinkInv'
  OBVIOUS
<1>1. /\ UNCHANGED <<current, built, connects, owner, step, held, conn, tries, beats, hub>>
      /\ UNCHANGED <<relayUp, flips, hop>>
  BY DEF linkVars
<1>2. Link!LinkTypeOK'
  BY <1>1, Zenon DEF LinkInv, Link!LinkTypeOK
<1>3. CallsInOrder' /\ HoldsOwn'
  BY <1>1 DEF LinkInv, CallsInOrder, HoldsOwn
<1>4. OnlyHeldConnections'
  BY <1>1 DEF LinkInv, OnlyHeldConnections, Link!OnlyHeldConnections, Link!Alive
<1> QED
  BY <1>2, <1>3, <1>4 DEF LinkInv

LEMMA PicksStay == PicksInv /\ UNCHANGED pickVars => PicksInv'
<1> SUFFICES ASSUME PicksInv, UNCHANGED pickVars PROVE PicksInv'
  OBVIOUS
<1>1. /\ UNCHANGED <<route, linked, browser, opens, latest, want, waiting, result, chosen>>
      /\ UNCHANGED <<listed, down, job, up, surf, lost, upsets>>
  BY DEF pickVars
<1>2. PicksFlags'
  BY <1>1, Zenon DEF PicksInv, PicksFlags
<1>3. PicksTypes' /\ OpensInOrder' /\ LastSelected'
  BY <1>1 DEF PicksInv, PicksTypes, OpensInOrder, LastSelected
<1>4. ~lost' => Heard'
  BY <1>1, HeardKept DEF PicksInv
<1> QED
  BY <1>2, <1>3, <1>4 DEF PicksInv

LEMMA AgentStays == AgentInv /\ UNCHANGED agentVars => AgentInv'
<1> SUFFICES ASSUME AgentInv, UNCHANGED agentVars PROVE AgentInv'
  OBVIOUS
<1>1. /\ UNCHANGED <<server, link, lines, at, calling, pending, unheard, transit, results>>
      /\ UNCHANGED <<answers, drops>>
  BY DEF agentVars
<1>2. AgentTypes'
  BY <1>1 DEF AgentInv, AgentTypes
<1> QED
  BY <1>1, <1>2, QuietStep

LEMMA StepInv == IInv /\ [Next]_vars => IInv'
<1> SUFFICES ASSUME IInv, [Next]_vars PROVE IInv'
  OBVIOUS
<1>1. CASE RelayStep
  BY <1>1, RelayNextInv, LinkStays, PicksStay, AgentStays DEF RelayStep, IInv
<1>2. CASE LinkStep
  BY <1>2, LinkNextInv, RelayStays, PicksStay, AgentStays DEF LinkStep, IInv
<1>3. CASE PicksStep
  BY <1>3, PicksNextInv, RelayStays, LinkStays, AgentStays DEF PicksStep, IInv
<1>4. CASE AgentStep
  BY <1>4, AgentNextInv, RelayStays, LinkStays, PicksStay DEF AgentStep, IInv
<1>5. CASE UNCHANGED vars
  BY <1>5, RelayStays, LinkStays, PicksStay, AgentStays DEF vars, IInv
<1> QED
  BY <1>1, <1>2, <1>3, <1>4, <1>5 DEF Next

(* The parts' invariants hold in every reachable state.                    *)
THEOREM Invariant == Spec => []IInv
BY InitInv, StepInv, PTL DEF Spec

(* Every variable of the four parts keeps its type.                        *)
THEOREM TypeCorrect ==
  Spec => [](Relay!RelayTypeOK /\ Link!LinkTypeOK /\ Picks!PicksTypeOK /\ Agent!AgentTypeOK)
<1>1. IInv => Relay!RelayTypeOK /\ Link!LinkTypeOK /\ Picks!PicksTypeOK /\ Agent!AgentTypeOK
  BY PicksTypeCorrect, AgentTypeCorrect DEF IInv, RelayInv, LinkInv
<1> QED
  BY <1>1, Invariant, PTL

(* A relay that served and answered a window's probe is not the one that   *)
(* window is handed in the end, unless it is of the window's own build,    *)
(* whatever windows of whatever builds, signals and crashes come between.  *)
(* A relay of another build that another window starts meanwhile may be    *)
(* handed to it (RelayLauncher.ensureRunning, src/packages/extension).     *)
THEOREM OthersAreReplaced == Spec => []ReplacedNotReused
<1>1. IInv => ReplacedNotReused
  BY DEF IInv, RelayInv
<1> QED
  BY <1>1, Invariant, PTL

(* However calls of connect, disconnect and swapProvider overlap, a        *)
(* provider has at most the connection it holds (RelayCoachProvider).      *)
THEOREM OnlyHeld == Spec => []OnlyHeldConnections
<1>1. IInv => OnlyHeldConnections
  BY DEF IInv, LinkInv
<1> QED
  BY <1>1, Invariant, PTL

(* The chat selected is that of the last pick answered in time, and it is  *)
(* ready when all the worker said was heard and nothing was lost           *)
(* (finishSurfaceOpen, setSurfaces).                                       *)
THEOREM SelectionIsKept == Spec => []SelectionHolds
<1>1. IInv => SelectionHolds
  BY PicksHold DEF IInv, SelectionHolds
<1> QED
  BY <1>1, Invariant, PTL

(* A coding agent's requests are answered in the order of its lines, once, *)
(* and its notifications are not (McpBridge.callTool, onRelayMessage).     *)
THEOREM AnsweredInOrder == Spec => []AnswersInOrder
<1>1. IInv => AnswersInOrder
  BY DEF IInv, AgentInv
<1> QED
  BY <1>1, Invariant, PTL
=============================================================================
