---------------------------- MODULE ClipboardLoop ----------------------------
(***************************************************************************)
(* The clipboard transport: ClipboardCoachProvider, the part of            *)
(* CoachController it works for, and the user who carries text to a chat   *)
(* and back.  The clipboard is shared with the user; the chat, outside the *)
(* program, answers what was pasted into it.                               *)
(***************************************************************************)
EXTENDS Naturals, Sequences

CONSTANTS
  CoachIds,     \* ids a chat gives its tool calls; it may use one again
  MaxRequests,  \* bound: requests sent
  MaxCalls      \* bound: tool calls taken from replies

VARIABLES
  clip,      \* the text on the clipboard
  pasted,    \* the chat was given something of ours
  sent,      \* requests sent so far; the last is the one in flight, if any
  pending,   \* CoachController.pendingRequestId, 0 for none
  mine,      \* ClipboardCoachProvider.pendingRequestId, 0 for none
  primed,    \* primerSent
  awaiting,  \* what the panel asks the user to bring back
  taken,     \* the coach's id of each call taken, by our number for it
  callIds,   \* our numbers that can still be translated back
  running,   \* calls whose tool works
  writing,   \* texts on their way to the clipboard: for what, and the blocks
  cleared    \* calls whose request was replaced or cancelled

loopVars == <<clip, pasted, sent, pending, mine, primed, awaiting, taken, callIds,
              running, writing, cleared>>

(* A text says who wrote it and holds blocks: calls, results, and what     *)
(* validateBlock refuses (no JSON, another version, no id, no tool).       *)
Text(from, blocks) == [from |-> from, blocks |-> blocks]
Call(id)   == [type |-> "tool.call", id |-> id]
Result(id) == [type |-> "tool.result", id |-> id]
Unreadable == [type |-> "problem", id |-> "none"]

Blank == Text("nobody", <<>>)
Ours  == "ours"   \* the id of a call whose coach's id is not known any more

CallNumbers == 1 .. MaxCalls

(* clipboard.write, awaited: a text leaves, and what it will ask of the    *)
(* user is set when it has arrived.                                        *)
Writing(what, n, blocks) == [for |-> what, number |-> n, blocks |-> blocks]
Writes(what, n, blocks) == writing' = writing \cup {Writing(what, n, blocks)}

(* extractChatBlocks, and of the blocks it can read the calls.             *)
CallsIn(text) == SelectSeq(text.blocks, LAMBDA b : b.type = "tool.call")

(* buildChatPrimer: the rules, with an example of a call in a block.       *)
Primer == <<Call("example")>>

(* An answer, or one call and perhaps another after it, or one that is     *)
(* not well formed.                                                        *)
Replies ==
  {<<>>, <<Unreadable>>} \cup {<<Call(a)>> : a \in CoachIds}
    \cup {<<Unreadable, Call(a)>> : a \in CoachIds}
    \cup {<<Call(a), Call(b)>> : a, b \in CoachIds}

LoopTypeOK ==
  /\ clip.from \in {"nobody", "editor", "chat", "user"}
  /\ sent \in 0 .. MaxRequests /\ {pending, mine} \subseteq 0 .. sent
  /\ awaiting \in {"nothing", "request", "tool-result", "primer"}
  /\ taken \in Seq(CoachIds \cup {"example"}) /\ Len(taken) <= MaxCalls
  /\ callIds \cup running \cup cleared \subseteq DOMAIN taken
  /\ {pasted, primed} \subseteq BOOLEAN
  /\ \A w \in writing : w.for \in {"request", "tool-result", "primer"}

LoopInit ==
  /\ clip = Blank /\ pasted = FALSE
  /\ sent = 0 /\ pending = 0 /\ mine = 0
  /\ primed = FALSE /\ awaiting = "nothing"
  /\ taken = <<>> /\ callIds = {} /\ running = {} /\ writing = {} /\ cleared = {}

-----------------------------------------------------------------------------
(* The editor.                                                             *)

(* sendRequest: the primer, with its example of a tool call, goes before   *)
(* the first request.                                                      *)
Send ==
  /\ pending = 0 /\ sent < MaxRequests
  /\ sent' = sent + 1 /\ mine' = sent + 1 /\ pending' = sent + 1
  /\ callIds' = {} /\ cleared' = DOMAIN taken
  /\ primed' = TRUE
  /\ Writes("request", sent + 1, IF primed THEN <<>> ELSE Primer)
  /\ UNCHANGED <<clip, pasted, awaiting, taken, running>>

(* One at a time: a bound.                                                 *)
CopyPrimer ==
  /\ \A w \in writing : w.for # "primer"
  /\ Writes("primer", 0, Primer)
  /\ UNCHANGED <<clip, pasted, sent, pending, mine, primed, awaiting, taken, callIds, running,
                 cleared>>

(* sendToolResult: the result goes by the id the coach gave the call, as   *)
(* it is known when the write begins.                                      *)
ToolDone(n) ==
  /\ n \in running
  /\ running' = running \ {n}
  /\ Writes("tool-result", n, <<Result(IF n \in callIds THEN taken[n] ELSE Ours)>>)
  /\ UNCHANGED <<clip, pasted, sent, pending, mine, primed, awaiting, taken, callIds, cleared>>

(* Faulty: the panel is not told of a result.                              *)
WrittenQuietly(w) ==
  /\ clip' = Text("editor", w.blocks)
  /\ awaiting' = IF w.for = "tool-result" THEN awaiting ELSE w.for
  /\ writing' = writing \ {w}
  /\ UNCHANGED <<pasted, sent, pending, mine, primed, taken, callIds, running, cleared>>

(* Writes that overlap arrive in any order, and whatever became of their   *)
(* request meanwhile.                                                      *)
Written(w) ==
  /\ clip' = Text("editor", w.blocks)
  /\ awaiting' = w.for
  /\ writing' = writing \ {w}
  /\ UNCHANGED <<pasted, sent, pending, mine, primed, taken, callIds, running, cleared>>

(* send and deliverToolResult fail the request that is open then, theirs   *)
(* or a later one (finish); the command that copies the primer only fails. *)
WriteFails(w) ==
  /\ writing' = writing \ {w}
  /\ pending' = IF w.for = "primer" THEN pending ELSE 0
  /\ UNCHANGED <<clip, pasted, sent, mine, primed, awaiting, taken, callIds, running, cleared>>

(* Cancelling aborts the tool that runs; its result is still written.      *)
Cancel ==
  /\ pending # 0
  /\ pending' = 0 /\ mine' = 0
  /\ callIds' = {} /\ cleared' = DOMAIN taken
  /\ awaiting' = "nothing"
  /\ UNCHANGED <<clip, pasted, sent, primed, taken, running, writing>>

(* The request clock: the provider hears nothing of it.                    *)
TimesOut ==
  /\ pending # 0 /\ pending' = 0
  /\ UNCHANGED <<clip, pasted, sent, mine, primed, awaiting, taken, callIds, running,
                 writing, cleared>>

(* resetSession: the request is forgotten, the provider connects again.    *)
NewSession ==
  /\ primed \/ pending # 0
  /\ pending' = 0 /\ primed' = FALSE
  /\ UNCHANGED <<clip, pasted, sent, mine, awaiting, taken, callIds, running, writing,
                 cleared>>

-----------------------------------------------------------------------------
(* receiveReply: the user brings back what is on the clipboard.            *)

Answered ==
  /\ awaiting' = "nothing"
  /\ pending' = IF mine = pending THEN 0 ELSE pending
  /\ UNCHANGED <<taken, callIds, running, writing>>

(* Faulty: the id the chat chose is passed on, and a later call of that id *)
(* takes the place of an earlier one.                                      *)
FirstCallReplaces ==
  LET n == Len(taken) + 1  first == Head(CallsIn(clip)).id IN
  /\ n \in CallNumbers
  /\ taken' = Append(taken, first)
  /\ callIds' = {k \in callIds : taken[k] # first} \cup {n}
  /\ running' = running \cup {n}
  /\ awaiting' = "nothing"
  /\ UNCHANGED <<pending, writing>>

(* Only the first call of a reply is taken, under a number of our own.     *)
(* While nothing is asked the controller refuses it, and says so.          *)
FirstCall ==
  LET n == Len(taken) + 1  first == Head(CallsIn(clip)).id IN
  /\ n \in CallNumbers
  /\ taken' = Append(taken, first)
  /\ callIds' = callIds \cup {n}
  /\ awaiting' = "nothing"
  /\ IF pending # 0
     THEN running' = running \cup {n} /\ UNCHANGED writing
     ELSE Writes("tool-result", n, <<Result(first)>>) /\ UNCHANGED running
  /\ UNCHANGED pending

PasteReply ==
  /\ clip # Blank
  /\ IF CallsIn(clip) = <<>> THEN Answered ELSE FirstCall
  /\ UNCHANGED <<clip, pasted, sent, mine, primed, cleared>>

-----------------------------------------------------------------------------
(* The user and the chat.                                                  *)

GivesToChat ==
  /\ clip.from = "editor" /\ ~pasted /\ pasted' = TRUE
  /\ UNCHANGED <<clip, sent, pending, mine, primed, awaiting, taken, callIds, running,
                 writing, cleared>>

CopiesReply(blocks) ==
  /\ pasted
  /\ clip' = Text("chat", blocks) /\ clip' # clip
  /\ UNCHANGED <<pasted, sent, pending, mine, primed, awaiting, taken, callIds, running,
                 writing, cleared>>

CopiesElse ==
  /\ clip.from # "user" /\ clip' = Text("user", <<>>)
  /\ UNCHANGED <<pasted, sent, pending, mine, primed, awaiting, taken, callIds, running,
                 writing, cleared>>

LoopNext ==
  \/ Send \/ CopyPrimer \/ Cancel \/ TimesOut \/ NewSession
  \/ \E n \in CallNumbers : ToolDone(n)
  \/ \E w \in writing : Written(w) \/ WriteFails(w)
  \/ PasteReply \/ GivesToChat \/ CopiesElse
  \/ \E blocks \in Replies : CopiesReply(blocks)

LoopSpec == LoopInit /\ [][LoopNext]_loopVars

-----------------------------------------------------------------------------
(* While a request is open, a tool works for it, a text is on its way to   *)
(* the clipboard or the panel asks the user for what comes next: the loop  *)
(* never waits on nobody (setAwaiting).                                    *)
LoopNeverStalls ==
  pending # 0 => \/ running # {} \/ awaiting # "nothing"
                 \/ \E w \in writing : w.for # "primer"

(* A result that arrives goes by the id its own call was given, or by none *)
(* of the chat's, and by none only if its request was replaced or          *)
(* cancelled.                                                              *)
ResultsNamed ==
  [][\A w \in writing \ writing' : w.for = "tool-result" =>
       \/ clip' = clip
       \/ clip'.blocks = <<Result(taken[w.number])>>
       \/ clip'.blocks = <<Result(Ours)>> /\ w.number \in cleared]_loopVars
=============================================================================
