----------------------------- MODULE RelayProcess -----------------------------
(***************************************************************************)
(* How windows find, replace and start the relay: RelayLauncher in every   *)
(* window, the relay's main and startRelay, and the handshake file they    *)
(* share.  One port, one file for it; the processes are told apart by      *)
(* number.  Windows of different builds may be open at once: an editor     *)
(* that was updated reloads its windows one by one.                        *)
(***************************************************************************)
EXTENDS Naturals, FiniteSets

CONSTANTS
  Windows,    \* editor windows
  Builds,     \* the builds there are
  Old,        \* that of the relay that runs, or ran, at the start
  MaxRelays,  \* bound: relay processes
  MaxCrashes  \* bound: relays that die without closing

VARIABLES
  build,    \* the build of each window
  made,     \* the build of each relay process
  proc,     \* the state of each relay process
  told,     \* processes sent SIGTERM that have not acted on it
  file,     \* the process the handshake file names, 0 for no file
  spawned,  \* relay processes so far
  win,      \* how far ensureRunning has got in each window
  served,   \* the process each window's relay is, 0 for none
  heard,    \* the process that served and answered its probe, 0 for none
  crashes

relayVars == <<build, made, proc, told, file, spawned, win, served, heard, crashes>>

Relays == 1 .. MaxRelays
Listening == {r \in Relays : proc[r] \in {"listening", "serving"}}

RelayTypeOK ==
  /\ build \in [Windows -> Builds] /\ made \in [Relays -> Builds]
  /\ proc \in [Relays -> {"unborn", "starting", "listening", "serving", "closing", "gone"}]
  /\ told \subseteq Relays /\ file \in 0 .. MaxRelays /\ spawned \in Relays
  /\ win \in [Windows -> {"idle", "found", "checking", "stopping", "pausing", "spawning",
                          "waiting", "answered", "attached"}]
  /\ served \in [Windows -> 0 .. MaxRelays] /\ crashes \in 0 .. MaxCrashes
  /\ heard \in [Windows -> 0 .. MaxRelays]

(* A relay of some build serves, or one died and left its file.            *)
RelayInit ==
  /\ build \in [Windows -> Builds] /\ made = [r \in Relays |-> Old]
  /\ proc \in {[r \in Relays |-> IF r = 1 THEN s ELSE "unborn"] : s \in {"serving", "gone"}}
  /\ told = {} /\ file \in {0, 1} /\ spawned = 1
  /\ (proc[1] = "serving" => file = 1)
  /\ win = [w \in Windows |-> "idle"] /\ served = [w \in Windows |-> 0]
  /\ heard = [w \in Windows |-> 0]
  /\ crashes = 0

At(w, step) == win[w] = step
Goto(w, step) == win' = [win EXCEPT ![w] = step]
Throws(w) == Goto(w, "idle") /\ heard' = [heard EXCEPT ![w] = 0]

-----------------------------------------------------------------------------
(* ensureRunning.                                                          *)

(* probeRelay, as existingEndpoint uses it.  A relay that does not answer  *)
(* in 700 ms counts as none.                                               *)
Probe(w) ==
  /\ win[w] \in {"idle", "attached"}
  /\ served' = [served EXCEPT ![w] = 0]
  /\ \/ \E r \in Listening :
           /\ Goto(w, "found")
           /\ heard' = [heard EXCEPT ![w] = IF proc[r] = "serving" THEN r ELSE 0]
     \/ Goto(w, "spawning") /\ heard' = [heard EXCEPT ![w] = 0]
  /\ UNCHANGED <<build, made, proc, told, file, spawned, crashes>>

(* A relay that answers and has no file is refused.                        *)
ReadHandshake(w) ==
  /\ At(w, "found")
  /\ IF file = 0 THEN Throws(w) ELSE Goto(w, "checking") /\ UNCHANGED heard
  /\ UNCHANGED <<build, made, proc, told, file, spawned, served, crashes>>

(* runningBuild: whoever answers now; no answer, or none in time, counts   *)
(* as another build.                                                       *)
CheckBuild(w) ==
  /\ At(w, "checking")
  /\ \/ \E r \in Listening :
           /\ made[r] = build[w] /\ Goto(w, "attached")
           /\ served' = [served EXCEPT ![w] = r]
     \/ Goto(w, "stopping") /\ UNCHANGED served
  /\ UNCHANGED <<build, made, proc, told, file, spawned, heard, crashes>>

(* The signal goes to the process the file names, if it still runs.        *)
Kill == told' = IF file # 0 /\ proc[file] # "gone" THEN told \cup {file} ELSE told

Stop(w) ==
  /\ At(w, "stopping") /\ Goto(w, "pausing")
  /\ Kill
  /\ UNCHANGED <<build, made, proc, file, spawned, served, heard, crashes>>

(* Faulty: the relay is not given the time to act on the signal.           *)
NotWaited == TRUE

(* Bound: the 300 ms are enough for a signal to be acted on.               *)
Waited == told = {}

Pause(w) ==
  /\ At(w, "pausing") /\ Waited
  /\ Goto(w, "spawning")
  /\ UNCHANGED <<build, made, proc, told, file, spawned, served, heard, crashes>>

SpawnRelay(w) ==
  /\ At(w, "spawning") /\ spawned < MaxRelays
  /\ spawned' = spawned + 1
  /\ proc' = [proc EXCEPT ![spawned + 1] = "starting"]
  /\ made' = [made EXCEPT ![spawned + 1] = build[w]]
  /\ Goto(w, "waiting")
  /\ UNCHANGED <<build, told, file, served, heard, crashes>>

(* waitForRelay: any relay that answers will do, of whatever build, once   *)
(* there is a file.                                                        *)
WaitProbe(w) ==
  /\ At(w, "waiting") /\ Listening # {} /\ Goto(w, "answered")
  /\ UNCHANGED <<build, made, proc, told, file, spawned, served, heard, crashes>>

(* What it attaches to is whoever listens when it has read the file.       *)
WaitRead(w) ==
  /\ At(w, "answered")
  /\ Goto(w, IF file = 0 THEN "waiting" ELSE "attached")
  /\ \E r \in IF file = 0 \/ Listening = {} THEN {0} ELSE Listening :
       served' = [served EXCEPT ![w] = r]
  /\ UNCHANGED <<build, made, proc, told, file, spawned, heard, crashes>>

WaitOver(w) ==
  /\ At(w, "waiting") /\ Throws(w)
  /\ UNCHANGED <<build, made, proc, told, file, spawned, served, crashes>>

(* The stopRelay and stopStack commands.                                   *)
StopRelay ==
  /\ Kill /\ told' # told
  /\ UNCHANGED <<build, made, proc, file, spawned, win, served, heard, crashes>>

-----------------------------------------------------------------------------
(* The relay process.                                                      *)
Becomes(r, s) == proc' = [proc EXCEPT ![r] = s]

(* startRelay: listen, or exit if the port is taken.                       *)
Listen(r) ==
  /\ proc[r] = "starting"
  /\ Becomes(r, IF Listening = {} THEN "listening" ELSE "gone")
  /\ UNCHANGED <<build, made, told, file, spawned, win, served, heard, crashes>>

WriteHandshake(r) ==
  /\ proc[r] = "listening" /\ Becomes(r, "serving")
  /\ file' = r
  /\ UNCHANGED <<build, made, told, spawned, win, served, heard, crashes>>

(* SIGTERM: close stops listening at once.  The handler is set when        *)
(* startRelay is done; before that the signal is the end.                  *)
ActOnSignal(r) ==
  /\ r \in told /\ told' = told \ {r}
  /\ Becomes(r, CASE proc[r] = "serving" -> "closing"
                  [] proc[r] \in {"starting", "listening"} -> "gone"
                  [] OTHER -> proc[r])
  /\ UNCHANGED <<build, made, file, spawned, win, served, heard, crashes>>

(* Once its last connection has ended, it removes the file of the port.    *)
Closed(r) ==
  /\ proc[r] = "closing" /\ Becomes(r, "gone")
  /\ file' = 0
  /\ UNCHANGED <<build, made, told, spawned, win, served, heard, crashes>>

Crash(r) ==
  /\ r \in Listening /\ crashes < MaxCrashes
  /\ crashes' = crashes + 1
  /\ Becomes(r, "gone")
  /\ UNCHANGED <<build, made, told, file, spawned, win, served, heard>>

RelayNext ==
  \/ \E w \in Windows :
       \/ Probe(w) \/ ReadHandshake(w) \/ CheckBuild(w) \/ Stop(w) \/ Pause(w)
       \/ SpawnRelay(w) \/ WaitProbe(w) \/ WaitRead(w) \/ WaitOver(w)
  \/ StopRelay
  \/ \E r \in Relays :
       Listen(r) \/ WriteHandshake(r) \/ ActOnSignal(r) \/ Closed(r) \/ Crash(r)

RelaySpec == RelayInit /\ [][RelayNext]_relayVars

-----------------------------------------------------------------------------
HandedAnother(w) == At(w, "attached") /\ served[w] # 0 /\ made[served[w]] # build[w]

(* "A relay from a different build is replaced, not reused."               *)
AttachedToOwnBuild == \A w \in Windows : ~HandedAnother(w)

(* What holds of it: the relay of another build that a window is handed    *)
(* did not serve yet when the window's call began, or did not answer its   *)
(* probe; one that did is replaced, however windows, signals and crashes   *)
(* interleave.                                                             *)
ReplacedNotReused ==
  \A w \in Windows : HandedAnother(w) => served[w] # heard[w]
=============================================================================
