------------------------------ MODULE ToolCalls ------------------------------
(***************************************************************************)
(* Tool calls in the editor: ToolRegistry.execute, the approval of         *)
(* PermissionManager, the tools of definitions.ts, and the child processes *)
(* of CommandRunner.                                                       *)
(*                                                                         *)
(* The editor is single threaded.  A call gives way to other events while  *)
(* it waits for the user, for the grant to be stored, for its path to be   *)
(* resolved, and for its tool.  Calls are numbered as they arrive; two     *)
(* packets may carry the same id.                                          *)
(***************************************************************************)
EXTENDS Naturals, SequencesExt

CONSTANTS
  Ids,        \* call ids
  Commands,   \* what a prompt for a command shows: the command and its cwd
  LongOnes,   \* those whose own time limit is longer than the registry's
  MaxPackets, \* tool.call packets that arrive
  CacheSize   \* resultCacheSize

ASSUME ToolsAssumption ==
  MaxPackets \in Nat /\ CacheSize \in Nat /\ "none" \notin Ids \cup Commands

VARIABLES
  call,      \* what each packet asks for
  phase,     \* how far execute has got with it
  work,      \* the tool's own promise: it goes on when the race is lost
  answer,    \* what execute returned
  recent,    \* recentResults: the packets answered, oldest first, one per id
  grants,    \* GrantStore: commands the user always allows
  stopped,   \* packets whose request was cancelled
  cut,       \* packets whose own AbortController was aborted
  child,     \* the process of a command
  deaf,      \* processes started when cut already held: no abort reaches them
  said,      \* what the user answered to a packet's prompt
  forgotten, \* packets whose "always" was taken back
  evicted,   \* ids whose answer fell out of recent
  overlap    \* packets that came while another of their id was unanswered

toolVars == <<call, phase, work, answer, recent, grants, stopped, cut, child, deaf,
              said, forgotten, evicted, overlap>>

Packets == 1 .. MaxPackets
NoCall  == [id |-> "none", tool |-> "none", shows |-> "none"]

Calls ==
  [id : Ids, tool : {"unknown", "read"}, shows : {"none"}]
    \cup [id : Ids, tool : {"command"}, shows : Commands]

Answers == {"unknown", "denied", "invalid", "failed", "timeout", "ok", "cut short"}

CallsTypeOK ==
  /\ call \in [Packets -> Calls \cup {NoCall}]
  /\ phase \in [Packets -> {"new", "asking", "saving", "running", "answered"}]
  /\ work \in [Packets -> {"none", "resolving", "working"}]
  /\ answer \in [Packets -> Answers \cup {"none"}]
  /\ recent \in Seq(Packets)
  /\ grants \subseteq Commands
  /\ child \in [Packets -> {"none", "alive", "terminating", "killed", "gone"}]
  /\ said \in [Packets -> {"nothing", "deny", "once", "always"}]
  /\ evicted \subseteq Ids
  /\ {stopped, cut, deaf, forgotten, overlap} \subseteq SUBSET Packets

CallsInit ==
  /\ call = [e \in Packets |-> NoCall]
  /\ phase = [e \in Packets |-> "new"]
  /\ work = [e \in Packets |-> "none"]
  /\ answer = [e \in Packets |-> "none"]
  /\ recent = <<>> /\ grants = {}
  /\ stopped = {} /\ cut = {} /\ deaf = {}
  /\ child = [e \in Packets |-> "none"]
  /\ said = [e \in Packets |-> "nothing"]
  /\ forgotten = {} /\ evicted = {} /\ overlap = {}

-----------------------------------------------------------------------------
(* Faulty: only a success is remembered.                                   *)
KeepSuccess(e, c, a) ==
  /\ recent' = IF a = "ok" /\ \A d \in Range(recent) : call[d].id # c.id
               THEN Append(recent, e) ELSE recent
  /\ UNCHANGED evicted

(* finish: the answer is remembered.  An id that is there keeps its place, *)
(* and the oldest goes when there are too many.                            *)
Keep(e, c, a) ==
  LET kept == IF \E j \in DOMAIN recent : call[recent[j]].id = c.id
              THEN [j \in DOMAIN recent |->
                      IF call[recent[j]].id = c.id THEN e ELSE recent[j]]
              ELSE Append(recent, e)
      id(d) == IF d = e THEN c.id ELSE call[d].id
  IN  IF Len(kept) > CacheSize
      THEN recent' = Tail(kept) /\ evicted' = evicted \cup {id(Head(kept))}
      ELSE recent' = kept /\ UNCHANGED evicted

Finish(e, c, a) ==
  /\ answer' = [answer EXCEPT ![e] = a]
  /\ phase' = [phase EXCEPT ![e] = "answered"]
  /\ Keep(e, c, a)

(* The call is allowed.  Its arguments are validated, and its tool begins  *)
(* by resolving a path in the workspace.                                   *)
Begin(e, c) ==
  \/ Finish(e, c, "invalid") /\ UNCHANGED work
  \/ /\ phase' = [phase EXCEPT ![e] = "running"]
     /\ work' = [work EXCEPT ![e] = "resolving"]
     /\ UNCHANGED <<answer, recent, evicted>>

(* Faulty: a grant covers the tool, whatever it is asked to run.           *)
GrantedForTool(c) == grants # {}

(* grantKey: a grant covers the tool and exactly what the user was shown.  *)
Granted(c) == c.shows \in grants

(* A packet arrives.  Reading is allowed in every mode, and a command is   *)
(* asked for in every mode, unless it is remembered (MODE_POLICIES).       *)
Receive(e, c) ==
  /\ phase[e] = "new" /\ \A d \in Packets : d < e => phase[d] # "new"
  /\ call' = [call EXCEPT ![e] = c]
  /\ overlap' = IF \E d \in Packets : call[d].id = c.id /\ phase[d] # "answered"
                THEN overlap \cup {e} ELSE overlap
  /\ UNCHANGED <<grants, stopped, cut, child, deaf, said, forgotten>>
  /\ IF \E d \in Range(recent) : call[d].id = c.id
     THEN \E d \in Range(recent) :
            /\ call[d].id = c.id
            /\ answer' = [answer EXCEPT ![e] = answer[d]]
            /\ phase' = [phase EXCEPT ![e] = "answered"]
            /\ UNCHANGED <<work, recent, evicted>>
     ELSE CASE c.tool = "unknown" -> Finish(e, c, "unknown") /\ UNCHANGED work
            [] c.tool = "read" \/ (c.tool = "command" /\ Granted(c)) -> Begin(e, c)
            [] OTHER -> /\ phase' = [phase EXCEPT ![e] = "asking"]
                        /\ UNCHANGED <<work, answer, recent, evicted>>

-----------------------------------------------------------------------------
(* The user.                                                               *)

(* Dismissing a prompt, or a prompt that fails, denies.                    *)
Answer(e, outcome) ==
  /\ phase[e] = "asking"
  /\ said' = [said EXCEPT ![e] = outcome]
  /\ CASE outcome = "deny" -> Finish(e, call[e], "denied") /\ UNCHANGED <<work, grants>>
       [] outcome = "once" -> Begin(e, call[e]) /\ UNCHANGED grants
       [] outcome = "always" -> /\ grants' = grants \cup {call[e].shows}
                                /\ phase' = [phase EXCEPT ![e] = "saving"]
                                /\ UNCHANGED <<work, answer, recent, evicted>>
  /\ UNCHANGED <<call, stopped, cut, child, deaf, forgotten, overlap>>

(* The grant has been stored.                                              *)
Saved(e) ==
  /\ phase[e] = "saving"
  /\ Begin(e, call[e])
  /\ UNCHANGED <<call, grants, stopped, cut, child, deaf, said, forgotten, overlap>>

Forget ==
  /\ grants # {}
  /\ grants' = {}
  /\ forgotten' = {e \in Packets : said[e] = "always"}
  /\ UNCHANGED <<call, phase, work, answer, recent, stopped, cut, child, deaf, said,
                 evicted, overlap>>

(* The request is cancelled.  Only a call whose tool runs is listening: the*)
(* signal of one that is still being asked about is aborted by the time    *)
(* its listener is added, and never fires again.                           *)
Cancel ==
  LET now    == {e \in Packets : phase[e] # "new"} \ stopped
      heard  == {e \in now : phase[e] = "running"}
  IN  /\ now # {}
      /\ stopped' = stopped \cup now
      /\ cut' = cut \cup heard
      /\ child' = [e \in Packets |->
                     IF e \in heard /\ child[e] \in {"alive", "terminating"}
                     THEN "killed" ELSE child[e]]
      /\ UNCHANGED <<call, phase, work, answer, recent, grants, deaf, said, forgotten,
                     evicted, overlap>>

-----------------------------------------------------------------------------
(* Tools.                                                                  *)

(* The tool's promise settles; nobody looks when the registry's timeout    *)
(* was first.                                                              *)
Settle(e, a) ==
  /\ work' = [work EXCEPT ![e] = "none"]
  /\ cut' = cut \cup {e}
  /\ IF phase[e] = "running" THEN Finish(e, call[e], a)
     ELSE UNCHANGED <<answer, phase, recent, evicted>>

(* The path is outside the workspace, the command has shell syntax or is   *)
(* empty, or its executable does not exist.                                *)
Refused(e) ==
  /\ work[e] = "resolving"
  /\ Settle(e, "failed")
  /\ UNCHANGED <<call, grants, stopped, child, deaf, said, forgotten, overlap>>

ReadBegins(e) ==
  /\ work[e] = "resolving" /\ call[e].tool = "read"
  /\ work' = [work EXCEPT ![e] = "working"]
  /\ UNCHANGED <<call, phase, answer, recent, grants, stopped, cut, child, deaf, said,
                 forgotten, evicted, overlap>>

ReadDone(e, a) ==
  /\ work[e] = "working" /\ call[e].tool = "read"
  /\ Settle(e, a)
  /\ UNCHANGED <<call, grants, stopped, child, deaf, said, forgotten, overlap>>

(* runCommand: a process of its own group, killed on abort.                *)
Spawn(e) ==
  /\ work[e] = "resolving" /\ call[e].tool = "command"
  /\ work' = [work EXCEPT ![e] = "working"]
  /\ child' = [child EXCEPT ![e] = "alive"]
  /\ deaf' = IF e \in cut THEN deaf \cup {e} ELSE deaf
  /\ UNCHANGED <<call, phase, answer, recent, grants, stopped, cut, said, forgotten,
                 evicted, overlap>>

(* "close": the process, and whatever shares its pipes, is gone.           *)
ChildCloses(e) ==
  /\ child[e] \in {"alive", "terminating", "killed"}
  /\ child' = [child EXCEPT ![e] = "gone"]
  /\ Settle(e, IF child[e] = "alive" THEN "ok" ELSE "cut short")
  /\ UNCHANGED <<call, grants, stopped, deaf, said, forgotten, overlap>>

(* The command's own time limit: SIGTERM, and SIGKILL two seconds later.   *)
CommandTimer(e) ==
  /\ child[e] = "alive"
  /\ child' = [child EXCEPT ![e] = "terminating"]
  /\ UNCHANGED <<call, phase, work, answer, recent, grants, stopped, cut, deaf, said,
                 forgotten, evicted, overlap>>

(* Faulty: a process that ignores SIGTERM goes on.                         *)
TerminateAgain(e) ==
  /\ child[e] = "terminating"
  /\ UNCHANGED toolVars

KillTimer(e) ==
  /\ child[e] = "terminating"
  /\ child' = [child EXCEPT ![e] = "killed"]
  /\ UNCHANGED <<call, phase, work, answer, recent, grants, stopped, cut, deaf, said,
                 forgotten, evicted, overlap>>

(* The registry's time limit.  A process whose own limit is shorter has    *)
(* been terminated by then.  A signal that was aborted does not fire again.*)
ToolTimeout(e) ==
  /\ phase[e] = "running" /\ (child[e] = "alive" => call[e].shows \in LongOnes)
  /\ cut' = cut \cup {e}
  /\ child' = IF e \notin cut /\ child[e] \in {"alive", "terminating"}
              THEN [child EXCEPT ![e] = "killed"] ELSE child
  /\ Finish(e, call[e], "timeout")
  /\ UNCHANGED <<call, work, grants, stopped, deaf, said, forgotten, overlap>>

-----------------------------------------------------------------------------
Steps(e) ==
  \/ \E c \in Calls : Receive(e, c)
  \/ \E outcome \in {"deny", "once", "always"} : Answer(e, outcome)
  \/ Saved(e) \/ Refused(e) \/ ReadBegins(e) \/ Spawn(e)
  \/ \E a \in {"ok", "failed"} : ReadDone(e, a)
  \/ ChildCloses(e) \/ CommandTimer(e) \/ KillTimer(e) \/ ToolTimeout(e)

CallsNext == (\E e \in Packets : Steps(e)) \/ Forget \/ Cancel

(* Grants are stored, and timers fire.                                     *)
CallsFairness ==
  \A e \in Packets :
    /\ WF_toolVars(Saved(e)) /\ WF_toolVars(CommandTimer(e))
    /\ WF_toolVars(KillTimer(e)) /\ WF_toolVars(ToolTimeout(e))

CallsSpec == CallsInit /\ [][CallsNext]_toolVars
FairCallsSpec == CallsSpec /\ CallsFairness

-----------------------------------------------------------------------------
Ran(e) == work[e] # "none" \/ child[e] # "none" \/ answer[e] \in {"ok", "cut short"}

(* A tool runs twice for one call id only when the second packet came      *)
(* before the first was answered, or so late that the answer was gone,     *)
(* however the first run ended (the duplicate check of execute).           *)
RerunsOverlap ==
  \A d, e \in Packets :
    d < e /\ call[d].id = call[e].id /\ call[d].tool = "command" /\ child[d] # "none"
          /\ child[e] # "none" => {d, e} \cap overlap # {} \/ call[e].id \in evicted

(* A command begins only with the user's consent: to this packet, or an    *)
(* "always" to the same command that was not taken back since (resolve).   *)
NothingRunsUnasked ==
  [][\A e \in Packets :
       phase[e] # "running" /\ phase'[e] = "running" /\ call'[e].tool = "command" =>
         \/ said'[e] \in {"once", "always"}
         \/ \E d \in Packets \ forgotten : said[d] = "always" /\ call[d].shows = call'[e].shows
    ]_toolVars

(* A process that was told to die with its call is not outlived by it.     *)
KilledWithItsCall ==
  \A e \in Packets : phase[e] = "answered" /\ child[e] \in {"alive", "terminating"} => e \in deaf

(* Every process ends, whoever still waits for it and whatever signals it  *)
(* ignores ("Nothing runs unbounded"); and none outlives the answer to its *)
(* call but one started when its signal had been aborted (the listener of  *)
(* runCommand comes too late).                                             *)
ChildrenEnd ==
  /\ []KilledWithItsCall
  /\ \A e \in Packets : child[e] \in {"alive", "terminating"} ~> child[e] \in {"killed", "gone"}
=============================================================================
