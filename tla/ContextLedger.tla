---------------------------- MODULE ContextLedger ----------------------------
(***************************************************************************)
(* What a chat is told about the file that is open: ContextEngine takes it *)
(* from the editor, ContextLedger leaves out what the conversation already *)
(* has, the provider puts the rules before the first message, and the      *)
(* chat, outside this program, keeps what it reads.                        *)
(*                                                                         *)
(* The ledger is one per window; what it stands for is kept by whichever   *)
(* chat the request goes to.                                               *)
(***************************************************************************)
EXTENDS LineDiff

CONSTANTS
  Texts,          \* what the file may contain
  MaxFile,        \* maxFileCharacters, in lines
  PullThreshold,  \* pullThreshold, in lines
  MaxSessions     \* bound: conversations begun

VARIABLES
  file,      \* the content of the buffer
  ledger,    \* ContextLedger.files: what is remembered of the file
  session,   \* SessionStore.current
  known,     \* ContextLedger.sessionId, 0 for none
  primed,    \* primerSent
  copy,      \* what the chat that answers holds of the file
  told,      \* that chat was told the rules in this session
  faithful   \* every message planned in this session reached that chat

ledgerVars == <<file, ledger, session, known, primed, copy, told, faithful>>

Nothing == [content |-> <<>>, coverage |-> "none"]

LedgerTypeOK ==
  /\ file \in Texts
  /\ ledger.coverage \in {"none", "full", "preview"} /\ Len(ledger.content) <= MaxFile
  /\ session \in 1 .. MaxSessions /\ known \in 0 .. MaxSessions
  /\ {primed, told, faithful} \subseteq BOOLEAN

LedgerInit ==
  /\ file \in Texts /\ copy = <<>>
  /\ ledger = Nothing /\ session = 1 /\ known = 0
  /\ primed = FALSE /\ told = FALSE /\ faithful = TRUE

-----------------------------------------------------------------------------
(* truncate: the head of the buffer.                                       *)
Trimmed(content) == SubSeq(content, 1, Min({Len(content), MaxFile}))

(* startSession: another session's ledger is forgotten.                    *)
Remembered == IF known = session THEN ledger ELSE Nothing

(* The three ways a file is planned: what is said, and what is remembered. *)
Unchanged == [says |-> "unchanged", hunks |-> <<>>, kept |-> Remembered]

AsEdit(content) ==
  [says |-> "edit", hunks |-> diffLines(Remembered.content, content),
   kept |-> [content |-> content, coverage |-> "full"]]

AsNew(content) ==
  IF Len(content) > PullThreshold
  THEN [says |-> "described", hunks |-> <<>>,
        kept |-> [content |-> content, coverage |-> "preview"]]
  ELSE [says |-> "whole", hunks |-> <<>>,
        kept |-> [content |-> content, coverage |-> "full"]]

(* Faulty: a file that was described counts as one the chat has.           *)
PlansFromPreview(content) ==
  IF Remembered.coverage = "none" THEN {AsNew(content)}
  ELSE IF Remembered.content = content THEN {Unchanged}
  ELSE {AsEdit(content), AsNew(content)}

(* plan.  Whether an edit is short enough to be worth sending depends on   *)
(* how long the lines are, which is left open.                             *)
Plans(content) ==
  IF Remembered.coverage # "none" /\ Remembered.content = content THEN {Unchanged}
  ELSE IF Remembered.coverage = "full" THEN {AsEdit(content), AsNew(content)}
  ELSE {AsNew(content)}

(* A chat reads what was said.  A description leaves it with what it had;  *)
(* what it makes of an edit once messages were lost is not followed.       *)
Read(p, content) ==
  copy' = CASE p.says = "whole" -> content
            [] p.says = "edit" /\ faithful -> Apply(copy, p.hunks)
            [] OTHER -> copy

(* send: the request is planned, and the rules go with the first one; then *)
(* it is delivered, or lost on the way.                                    *)
Send(delivered) ==
  /\ known' = session
  /\ primed' = TRUE
  /\ told' = (told \/ (delivered /\ ~primed))
  /\ faithful' = (faithful /\ delivered)
  /\ UNCHANGED <<file, session>>

Ask(delivered) ==
  /\ \E p \in Plans(Trimmed(file)) :
       /\ ledger' = p.kept
       /\ IF delivered THEN Read(p, Trimmed(file)) ELSE UNCHANGED copy
  /\ Send(delivered)

(* The file is not among the items: it is a secret, the request would be   *)
(* too large, or no editor is open.                                        *)
AskWithout(delivered) ==
  /\ ledger' = Remembered
  /\ Send(delivered)
  /\ UNCHANGED copy

Edit(t) ==
  /\ file' = t /\ t # file
  /\ UNCHANGED <<ledger, session, known, primed, copy, told, faithful>>

(* resetSession: the provider is connected to the new session.  The chat   *)
(* may be the one of before.                                               *)
NewSession ==
  /\ session < MaxSessions
  /\ session' = session + 1
  /\ primed' = FALSE /\ told' = FALSE /\ faithful' = TRUE
  /\ UNCHANGED <<file, ledger, known, copy>>

(* The provider is swapped for another one, and connected to the session.  *)
SwapProvider ==
  /\ primed' = FALSE
  /\ UNCHANGED <<file, ledger, session, known, copy, told, faithful>>

(* Requests go to another chat from now on: a fresh conversation is opened *)
(* (pickModel), or the one in use is gone and another is ready.            *)
OtherChat ==
  /\ copy' = <<>> /\ told' = FALSE
  /\ faithful' = (faithful /\ known # session)
  /\ UNCHANGED <<file, ledger, session, known, primed>>

(* The window is reloaded: the session is restored, the ledger is not.     *)
Reload ==
  /\ ledger' = Nothing /\ known' = 0 /\ primed' = FALSE
  /\ UNCHANGED <<file, session, copy, told, faithful>>

LedgerNext ==
  \/ \E d \in BOOLEAN : Ask(d) \/ AskWithout(d)
  \/ \E t \in Texts : Edit(t)
  \/ NewSession \/ SwapProvider \/ OtherChat \/ Reload

LedgerSpec == LedgerInit /\ [][LedgerNext]_ledgerVars

-----------------------------------------------------------------------------
(* An edit applied to the text it starts from yields the text it leads to, *)
(* for every two versions a file may have (diffLines).                     *)
EditsApply ==
  \A before, after \in {Trimmed(t) : t \in Texts} :
    Apply(before, diffLines(before, after)) = after

(* A chat that was asked something in a session, and was sent every        *)
(* message of it, was told the rules; and what the ledger says it holds in *)
(* full it holds, line for line, after any mix of edits, descriptions,     *)
(* notes and whole files ("names the bytes, and you can say 'the ones you  *)
(* already have'").                                                        *)
ChatIsInformed ==
  faithful /\ known = session =>
    told /\ (ledger.coverage = "full" => copy = ledger.content)

(* "How much of a file the chat actually received": what the ledger has in *)
(* full the chat was given.  The ledger is written before the message is   *)
(* sent, and keeps what is in it when the message is lost or another chat  *)
(* is asked.                                                               *)
ReceivedInFull == ledger.coverage = "full" => copy = ledger.content
=============================================================================
