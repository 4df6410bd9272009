------------------------------- MODULE ChatParts -------------------------------
(***************************************************************************)
(* What is done on the page of a chat: a message typed and its reply read  *)
(* (ChatPage), the model listed and switched (ModelMenu), and the          *)
(* transcripts of other harnesses shown to it (Completions).               *)
(*                                                                         *)
(* One part moves in a behaviour and the others stay where they start, so  *)
(* that the state spaces add up and do not multiply.                       *)
(***************************************************************************)
EXTENDS Naturals, Sequences, FiniteSets

CONSTANTS
  Parts,                                              \* those that may move
  Boxes, Composer, NoBox, Sites, MaxTurns, MaxTaken, MaxFaults, \* ChatPage
  MaxControls, Models, Levels, Named, NoName, Within, MaxJobs,                   \* ModelMenu
  Runs, Tabs, MaxLen, MaxCalls, MaxLosses                                \* Completions

ASSUME ChatAssumption ==
  /\ Parts \subseteq {"page", "menu", "harness"}
  /\ NoBox \notin Boxes
  /\ Sites \subseteq [order : Seq(Boxes), takes : SUBSET Boxes, reacts : SUBSET Boxes,
                     keeps : SUBSET Boxes, clears : BOOLEAN, shows : BOOLEAN,
                     echoes : BOOLEAN, table : BOOLEAN, stop : {"none", "live", "stale"},
                     moves : BOOLEAN, parts : Nat]
  /\ {MaxTurns, MaxTaken, MaxFaults} \subseteq Nat
  /\ IsFiniteSet(Models \cup Levels) /\ {MaxControls, MaxJobs} \subseteq Nat
  /\ Tabs # {} /\ MaxLen \in Nat \ {0} /\ {MaxCalls, MaxLosses} \subseteq Nat

VARIABLES
  part,                                                             \* the part that moves
  site, step, turn, next, spare, box, attempt, held, inbox, toClear, toShow, turns, replies,
  shownAt, before, atSend, owed, text, still, answer, faults,             \* ChatPage
  kind, offered, model, on, open, seen, was, job, wanted, at, menuStep, outcome,
  jobs,                                                             \* ModelMenu
  key, len, counts, calls, from, size, sent, stage, tab, into, shown,   \* Completions
  losses

Chat    == INSTANCE ChatPage
Menu    == INSTANCE ModelMenu WITH step <- menuStep
Harness == INSTANCE Completions

pageVars    == <<site, step, turn, next, spare, box, attempt, held, inbox, toClear, toShow,
                 turns, replies, shownAt, before, atSend, owed, text, still, answer, faults>>
menuVars    == <<kind, offered, model, on, open, seen, was, job, wanted, at, menuStep, outcome,
                 jobs>>
harnessVars == <<key, len, counts, calls, from, size, sent, stage, tab, into, shown,
                 losses>>
vars == <<part, pageVars, menuVars, harnessVars>>

Init ==
  /\ part \in Parts
  /\ Chat!PageInit /\ (part # "page" => site = CHOOSE s \in Sites : TRUE)
  /\ Menu!MenuInit
  /\ part # "menu" => /\ \A c \in DOMAIN kind : kind[c] = "models"
                      /\ offered = Models /\ model = CHOOSE m \in Models : TRUE
  /\ Harness!CompletionsInit /\ (part # "harness" => \A r \in Runs : key[r] = 1)

PageStep == part = "page" /\ Chat!PageNext /\ UNCHANGED <<part, menuVars, harnessVars>>
MenuStep == part = "menu" /\ Menu!MenuNext /\ UNCHANGED <<part, pageVars, harnessVars>>
HarnessStep ==
  part = "harness" /\ Harness!CompletionsNext /\ UNCHANGED <<part, pageVars, menuVars>>

Next == PageStep \/ MenuStep \/ HarnessStep

Spec == Init /\ [][Next]_vars /\ Chat!PageFairness

-----------------------------------------------------------------------------
(* A message reported as sent was taken by the chat                        *)
(* (ConfiguredChatSurface.deliver).                                        *)
SentIsTrue == Chat!SentIsTrue

(* Or the chat owed a reaction to an earlier one (deliver).                *)
SentUnlessOwed == Chat!SentUnlessOwed

(* No box but the one used is left with the message in it, unless it       *)
(* refuses to be cleared (deliver, clearText).                             *)
NothingLeftBehind == Chat!NothingLeftBehind

(* A reply found by difference was not there before (observe).             *)
FoundIsNew == Chat!FoundIsNew

(* Whatever the page does, observe comes to an end.                        *)
ObserveEnds == Chat!ObserveEnds

(* The model is switched to the one that was named, or that alone in view  *)
(* can be meant (setModel, chooseModelOption).                             *)
OnlyTheModelNamed == Menu!OnlyTheModelNamed

(* A switch that failed changed nothing (setModel).                        *)
FailureChangesNothing == Menu!FailureChangesNothing

(* A switch that is confirmed was made (setModel, switchConfirmed).        *)
SuccessMeansSwitched == Menu!SuccessMeansSwitched

(* A conversation that answers has been shown the whole transcript         *)
(* (serveCompletions, messagesToSend).                                     *)
ShownInFull == Harness!ShownInFull

(* It has, while one conversation answers the run (serveCompletions).      *)
ShownUnlessMoved == Harness!ShownUnlessMoved

(* What is left out of a call was shown in one of the same run             *)
(* (sessionKeyFor).                                                        *)
CountedIsOwn == Harness!CountedIsOwn

(* A reply is the reply to the message it is returned for (observe).       *)
AnswersTheMessage == Chat!AnswersTheMessage
=============================================================================
