----------------------------- MODULE EditorParts ------------------------------
(***************************************************************************)
(* Five parts of the extension side by side: tool calls and their approval,*)
(* what the ledger and the provider tell a chat, the clipboard transport,  *)
(* the tools that read and the tools that list.  They share no state; what *)
(* one does with the others' is in the modules themselves.                 *)
(*                                                                         *)
(* One part moves in a behaviour and the others stay where they start, so  *)
(* that the state spaces add up and do not multiply.  Parts says which of  *)
(* them do.                                                                *)
(***************************************************************************)
EXTENDS ToolCalls

CONSTANTS
  Parts,                                                          \* those that move
  ContextLines, FileTexts, MaxFile, PullThreshold, MaxSessions,   \* ContextLedger
  CoachIds, MaxRequests, MaxCalls,                                \* ClipboardLoop
  Files, Outside, Link, Secrets, MaxChanges,                      \* WorkspaceReads
  Trees, MaxEntries                                               \* ProjectTree

ASSUME EditorAssumption ==
  /\ ContextLines \in Nat /\ MaxFile \in Nat /\ MaxSessions \in Nat \ {0} /\ MaxChanges \in Nat
  /\ \A t \in FileTexts : t \in Seq(Range(t))
  /\ IsFiniteSet(Files) /\ Link \notin Files /\ Outside[1] \notin {1, 2}

VARIABLES
  part,                                                           \* the part that moves
  file, ledger, session, known, primerSent, copy, told, faithful, \* ContextLedger
  clip, pasted, sent, pending, mine, primed, awaiting, taken, callIds,
  running, writing, cleared,                                      \* ClipboardLoop
  target, disk, unsaved, seen, changes, reading,                  \* WorkspaceReads
  tree, gone, limit, walk                                         \* ProjectTree

Ledger == INSTANCE ContextLedger WITH Texts <- FileTexts, primed <- primerSent
Loop   == INSTANCE ClipboardLoop
Folder == INSTANCE WorkspaceReads WITH call <- reading
Tree   == INSTANCE ProjectTree

ASSUME TreesAssumption == MaxEntries \in Nat /\ \A t \in Trees : Tree!IsTree(t)

ledgerVars == <<file, ledger, session, known, primerSent, copy, told, faithful>>
loopVars == <<clip, pasted, sent, pending, mine, primed, awaiting, taken, callIds,
              running, writing, cleared>>
readVars == <<target, disk, unsaved, seen, changes, reading>>
treeVars == <<tree, gone, limit, walk>>
vars == <<part, toolVars, ledgerVars, loopVars, readVars, treeVars>>

Init ==
  /\ part \in Parts
  /\ CallsInit
  /\ Ledger!LedgerInit /\ (part # "ledger" => file = <<>>)
  /\ Loop!LoopInit
  /\ Folder!ReadsInit /\ (part # "reads" => target = Outside)
  /\ Tree!TreeInit
  /\ part # "tree" => tree = (CHOOSE t \in Trees : TRUE) /\ limit = 1

CallsStep ==
  /\ part = "calls" /\ CallsNext
  /\ UNCHANGED <<part, ledgerVars, loopVars, readVars, treeVars>>
LedgerStep ==
  /\ part = "ledger" /\ Ledger!LedgerNext
  /\ UNCHANGED <<part, toolVars, loopVars, readVars, treeVars>>
LoopStep ==
  /\ part = "loop" /\ Loop!LoopNext
  /\ UNCHANGED <<part, toolVars, ledgerVars, readVars, treeVars>>
ReadsStep ==
  /\ part = "reads" /\ Folder!ReadsNext
  /\ UNCHANGED <<part, toolVars, ledgerVars, loopVars, treeVars>>
TreeStep ==
  /\ part = "tree" /\ Tree!TreeNext
  /\ UNCHANGED <<part, toolVars, ledgerVars, loopVars, readVars>>

Next == CallsStep \/ LedgerStep \/ LoopStep \/ ReadsStep \/ TreeStep

Spec == Init /\ [][Next]_vars /\ CallsFairness

-----------------------------------------------------------------------------
(* A chat was told the rules in the session it is asked in, and holds what *)
(* the ledger says it holds, line for line (primerSent against reconnects, *)
(* new sessions and swapped providers; ledger.ts plan, diff.ts).           *)
ChatIsInformed == Ledger!ChatIsInformed

(* Whatever was lost on the way, the chat received in full what the ledger *)
(* says it "actually received" in full.                                    *)
ReceivedInFull == Ledger!ReceivedInFull

(* While a request is open, a tool works for it, a text is on its way to   *)
(* the clipboard or the panel asks the user for the next step              *)
(* (ClipboardCoachProvider setAwaiting).                                   *)
LoopNeverStalls == Loop!LoopNeverStalls

(* A tool's result goes back by the id the chat gave that very call        *)
(* (ClipboardCoachProvider callIds).                                       *)
ResultsNamed == Loop!ResultsNamed

(* A tool reports of a file, by its name, what it showed while the tool    *)
(* worked, or what was written under it meanwhile, and no name twice; and  *)
(* a search reports the unsaved text there was when it began, and leaves   *)
(* out no file of the folder because of an edit made while it runs         *)
(* (read_file, search, active_document, skipPaths).                        *)
ReportsAreTrue == Folder!ReportsAreTrue

(* Buffers are left out of the walk "so the same file is never counted     *)
(* twice": the same file, whatever it is named.                            *)
CountedOnce == Folder!CountedOnce

(* "Never silently substitute disk content for a dirty buffer": read_file  *)
(* goes to the disk only for a file no dirty document is of.               *)
BufferWins == Folder!BufferWins

(* A tree that is cut is cut at its deepest, and says so (project_tree).   *)
TreeIsTrue == Tree!TreeIsTrue
=============================================================================
