------------------------------- MODULE ChatPage -------------------------------
(***************************************************************************)
(* The content script on a chat page: ConfiguredChatSurface.deliver types  *)
(* a message and sends it, observe reads the reply, and content.ts keeps   *)
(* what the page looked like before.  The site decides what the page does  *)
(* of it; the same message is sent in every turn, the hardest case for a   *)
(* script that looks for it on the page.                                   *)
(*                                                                         *)
(* The worker asks for one thing at a time, and again when the page was    *)
(* lost meanwhile (askTab); overlapping turns are in BrowserTurns.         *)
(***************************************************************************)
EXTENDS Naturals, Sequences, FiniteSets

CONSTANTS
  Boxes,      \* places on the page one can type in
  Composer,   \* the chat's own
  NoBox,      \* none of them
  Sites,      \* what a site may do: records of
              \*   order   the boxes found, the table's first, then as rankComposers has them
              \*   takes   the boxes placeText succeeds with
              \*   reacts  those whose controls show that there is something to send
              \*   keeps   those that keep their text when clearText empties them
              \*   clears  the chat empties its box for a message it took, some time later
              \*   shows   a message it took can be recognised in the conversation, some time later
              \*   echoes  a part of it is not recognised as an echo
              \*   table   a selector matches the replies
              \*   stop    the stop control: "none", "live" or "stale"
              \*   moves   sending a message takes the page to another address
              \*   parts   a bound: the parts of a reply
  MaxTurns,   \* bound: messages the worker has to send
  MaxTaken,   \* bound: messages the chat takes, some of them twice
  MaxFaults   \* bound: navigations of the page and observations repeated

VARIABLES
  site,     \* what the site does, fixed
  step,     \* how far the script has got
  turn,     \* the turn
  next,     \* deliver's candidate, an index of site.order
  spare,    \* deliver's `writable`
  box,      \* the box it settled on
  attempt,  \* the rung of its ladder
  held,     \* the boxes that hold the message
  inbox,    \* the turns whose message the chat took, in order
  toClear,  \* messages taken for which the chat has yet to empty its box
  toShow,   \* messages taken that it has yet to show
  turns,    \* user's turns on the page
  replies,  \* replies on the page
  shownAt,  \* sentBefore: turns on the page before sending
  before,   \* beforeSend
  atSend,   \* the page as it was when the turn was asked for
  owed,     \* the box was settled on while the chat had yet to empty or to show something
  text,     \* observe's lastText
  still,    \* how long it has been that: 1 for 600 ms, 2 for 2200 ms
  answer,   \* what observe returned
  faults

typing   == <<next, spare, box, attempt>>
chatVars == <<inbox, toClear, toShow, turns, replies>>
reading  == <<text, still, answer>>
pageVars == <<site, step, turn, typing, held, chatVars, shownAt, before, atSend, owed, reading,
              faults>>

NoText    == <<"none">>
Nothing   == [taken |-> FALSE, turns |-> 0, sizes |-> <<>>]
Sizes     == [j \in DOMAIN replies |-> replies[j].size]
Page      == [taken |-> TRUE, turns |-> turns, sizes |-> Sizes]
Owing     == toClear > 0 \/ toShow > 0

PageTypeOK ==
  /\ step \in {"idle", "placing", "sending", "confirming", "sent",
               "unsent", "observing", "read", "unread"}
  /\ turn \in 0 .. MaxTurns /\ held \subseteq Boxes /\ attempt \in 0 .. 2
  /\ {spare, box} \subseteq Boxes \cup {NoBox}
  /\ toClear \in Nat /\ toShow \in Nat /\ owed \in BOOLEAN
  /\ still \in 0 .. 2 /\ faults \in 0 .. MaxFaults

PageInit ==
  /\ site \in Sites
  /\ step = "idle" /\ turn = 0
  /\ next = 1 /\ spare = NoBox /\ box = NoBox /\ attempt = 0 /\ held = {}
  /\ inbox = <<>> /\ toClear = 0 /\ toShow = 0 /\ turns = 0 /\ replies = <<>>
  /\ shownAt = 0 /\ before = Nothing /\ atSend = Nothing /\ owed = FALSE
  /\ text = NoText /\ still = 0 /\ answer = NoText
  /\ faults = 0

-----------------------------------------------------------------------------
(* deliver.                                                                *)

(* The table's composer and those of discoverComposers, best first.        *)
Candidates == site.order

(* placeText: one of its three ways of typing put the text in the box.     *)
Placed(b) == b \in site.takes

(* waitForSendEvidence: a control to send with appeared or became usable.  *)
Reacts(b) == b \in site.reacts

(* Faulty: the page of the first turn is the baseline for good.            *)
SnapshotOnce == IF turn = 0 THEN Page ELSE before

(* Taken before anything is typed, whatever becomes of the typing.         *)
Snapshot == Page

(* Starts the next turn, or types the same message again, whether the page *)
(* has caught up with the turn before or not.                              *)
Deliver(again) ==
  /\ \/ ~again /\ step \in {"idle", "unsent", "read", "unread"} /\ turn < MaxTurns
     \/ again /\ step = "idle" /\ turn > 0
  /\ turn' = IF again THEN turn ELSE turn + 1
  /\ before' = Snapshot
  /\ atSend' = IF again THEN atSend ELSE Page
  /\ step' = "placing" /\ box' = NoBox
  /\ answer' = NoText
  /\ UNCHANGED <<site, next, spare, attempt, held, chatVars, shownAt, owed, text, still, faults>>

Unsent == step' = "unsent" /\ box' = NoBox /\ attempt' = 0

(* The box is found, and sending begins.                                   *)
Settle(b) ==
  /\ box' = b /\ held' = held \cup {b}
  /\ step' = "sending" /\ shownAt' = turns /\ owed' = Owing
  /\ next' = 1 /\ spare' = NoBox

(* The text stays in the box, if it was put there.                         *)
LeavesText(b) == IF Placed(b) THEN held \cup {b} ELSE held

(* clearText, which a box may ignore.                                      *)
Clears(b) == IF b \in site.keeps THEN LeavesText(b) ELSE held \ {b}

(* The next candidate: typed in, kept if the page reacts, emptied if not.  *)
TryNext ==
  /\ step = "placing" /\ next \in DOMAIN Candidates
  /\ LET b == Candidates[next] IN
       IF Placed(b) /\ Reacts(b)
       THEN Settle(b)
       ELSE /\ held' = Clears(b) /\ next' = next + 1
            /\ spare' = IF Placed(b) /\ spare = NoBox THEN b ELSE spare
            /\ UNCHANGED <<box, step, shownAt, owed>>
  /\ UNCHANGED <<site, turn, attempt, chatVars, before, atSend, reading, faults>>

(* No candidate reacted: the best that took the text, if it does again.    *)
TrySpare ==
  /\ step = "placing" /\ next \notin DOMAIN Candidates
  /\ \/ spare # NoBox /\ Settle(spare) /\ UNCHANGED attempt
     \/ Unsent /\ next' = 1 /\ spare' = NoBox /\ UNCHANGED <<held, shownAt, owed>>
  /\ UNCHANGED <<site, turn, chatVars, before, atSend, reading, faults>>

Count(b) == IF b THEN 1 ELSE 0

(* A click or Enter.  The chat may not be ready for it; another box may    *)
(* swallow what it holds.                                                  *)
Click ==
  /\ step = "sending" /\ step' = "confirming"
  /\ \/ /\ box = Composer /\ Composer \in held /\ Len(inbox) < MaxTaken
        /\ inbox' = Append(inbox, turn)
        /\ toClear' = toClear + Count(site.clears) /\ toShow' = toShow + Count(site.shows)
        /\ UNCHANGED held
     \/ /\ box # Composer /\ held' = held \ {box}
        /\ UNCHANGED <<inbox, toClear, toShow>>
     \/ UNCHANGED <<held, inbox, toClear, toShow>>
  /\ UNCHANGED <<site, turn, typing, turns, replies, shownAt, before, atSend, owed, reading,
                 faults>>

(* Faulty: a turn of an earlier time counts.                               *)
ShownAnywhere == site.shows /\ turns > 0

(* conversationShows: the message is newly on the page.                    *)
ShownNewly == turns > shownAt

Confirm ==
  /\ step = "confirming" /\ step' = "sent" /\ attempt' = 0
  /\ box \notin held \/ ShownNewly
  /\ UNCHANGED <<site, turn, next, spare, box, held, chatVars, shownAt, before, atSend, owed,
                 reading, faults>>

(* SEND_CONFIRM_MS passes.                                                 *)
NotConfirmed ==
  /\ step = "confirming"
  /\ IF attempt < 2
     THEN attempt' = attempt + 1 /\ step' = "sending" /\ UNCHANGED box
     ELSE Unsent
  /\ UNCHANGED <<site, turn, next, spare, held, chatVars, shownAt, before, atSend, owed, reading,
                 faults>>

-----------------------------------------------------------------------------
(* observe.                                                                *)
Observe ==
  /\ step = "sent" /\ step' = "observing"
  /\ text' = NoText /\ still' = 0
  /\ UNCHANGED <<site, turn, typing, held, chatVars, shownAt, before, atSend, owed, answer,
                 faults>>

Reply(j)  == <<"reply", j, replies[j].size>>
LastReply == IF site.table /\ replies # <<>> /\ replies[Len(replies)].size > 0
             THEN Reply(Len(replies)) ELSE NoText

(* newestReply: what was not there, or was shorter; the last of it on the  *)
(* page, where the j-th reply is between the turns j and j + 1.  Nothing   *)
(* is looked for when the page before is not known.                        *)
Discovered ==
  LET grown == {j \in DOMAIN replies :
                  replies[j].size > IF j \in DOMAIN before.sizes THEN before.sizes[j] ELSE 0}
  IN  IF ~before.taken THEN NoText
      ELSE IF site.echoes /\ turns > before.turns /\ \A j \in grown : j < turns THEN <<"echo">>
      ELSE IF grown # {} THEN Reply(CHOOSE j \in grown : \A k \in grown : k <= j)
      ELSE NoText

Reads == IF LastReply # NoText THEN LastReply ELSE Discovered

Block(t) == IF t[1] = "reply" THEN replies[t[2]].block ELSE "none"

Writing    == \E j \in DOMAIN replies : ~replies[j].over
Generating == site.stop = "stale" \/ (site.stop = "live" /\ Writing)

(* judgeCompletion.                                                        *)
Verdict(t, quiet, late) ==
  IF Block(t) = "closed" /\ quiet >= 1 THEN "closed-block"
  ELSE IF late THEN "timeout"
  ELSE IF Block(t) # "open" /\ t # NoText /\ quiet = 2 THEN "idle"
  ELSE "still-changing"

(* Faulty: a visible stop control vetoes every verdict.                    *)
AcceptsIfStopped(v) == v # "still-changing" /\ ~Generating

(* shouldAcceptCompletion.                                                 *)
Accepts(v) == v \in {"closed-block", "timeout"} \/ (v = "idle" /\ ~Generating)

(* Some polls: the text has changed, or has stayed the same a while longer;*)
(* maxWaitMs has passed, or not.                                           *)
Poll(late) ==
  LET t     == Reads
      quiet == IF t # text THEN 0 ELSE IF still < 2 THEN still + 1 ELSE 2
      v     == Verdict(t, quiet, late)
  IN  /\ step = "observing"
      /\ IF Accepts(v)
         THEN /\ step' = IF v = "timeout" /\ t = NoText THEN "unread" ELSE "read"
              /\ answer' = t /\ text' = NoText
         ELSE text' = t /\ UNCHANGED <<step, answer>>
      /\ still' = IF v = "timeout" THEN 0 ELSE quiet
      /\ UNCHANGED <<site, turn, typing, held, chatVars, shownAt, before, atSend, owed, faults>>

(* askTab observes again after a failure.                                  *)
ObserveAgain ==
  /\ step = "unread" /\ faults < MaxFaults /\ faults' = faults + 1
  /\ step' = "sent"
  /\ UNCHANGED <<site, turn, typing, held, chatVars, shownAt, before, atSend, owed, reading>>

-----------------------------------------------------------------------------
(* The chat.                                                               *)
ChatClears ==
  /\ toClear > 0 /\ toClear' = toClear - 1 /\ held' = held \ {Composer}
  /\ UNCHANGED <<site, step, turn, typing, inbox, toShow, turns, replies, shownAt, before,
                 atSend, owed, reading, faults>>

ChatShows ==
  /\ toShow > 0 /\ toShow' = toShow - 1 /\ turns' = turns + 1
  /\ UNCHANGED <<site, step, turn, typing, held, inbox, toClear, replies, shownAt, before,
                 atSend, owed, reading, faults>>

ChatReplies ==
  /\ Len(replies) < Len(inbox) - toShow /\ ~Writing
  /\ replies' = Append(replies, [to |-> inbox[Len(replies) + 1], size |-> 0, block |-> "none",
                                 over |-> FALSE])
  /\ UNCHANGED <<site, step, turn, typing, held, inbox, toClear, toShow, turns, shownAt, before,
                 atSend, owed, reading, faults>>

(* A part of the reply: prose, the start of a block or its end.            *)
ChatWrites ==
  LET n == Len(replies) IN
  /\ Writing /\ replies[n].size < site.parts
  /\ \E b \in {"none", "open", "closed"} :
       /\ b = "none" => replies[n].block = "none"
       /\ b = "closed" => replies[n].block = "open"
       /\ replies' = [replies EXCEPT ![n].size = @ + 1, ![n].block = b]
  /\ UNCHANGED <<site, step, turn, typing, held, inbox, toClear, toShow, turns, shownAt, before,
                 atSend, owed, reading, faults>>

ChatStops ==
  LET n == Len(replies) IN
  /\ Writing /\ replies' = [replies EXCEPT ![n].over = TRUE]
  /\ UNCHANGED <<site, step, turn, typing, held, inbox, toClear, toShow, turns, shownAt, before,
                 atSend, owed, reading, faults>>

(* The page goes to another address, at any time.  The script is injected  *)
(* anew and does not know what the page was before; what was asked of the  *)
(* old one is asked again.                                                 *)
Navigates ==
  /\ site.moves /\ faults < MaxFaults /\ faults' = faults + 1
  /\ step' = IF step \in {"placing", "sending", "confirming"} THEN "idle"
             ELSE IF step = "observing" THEN "sent" ELSE step
  /\ held' = {} /\ toClear' = 0 /\ before' = Nothing
  /\ next' = 1 /\ spare' = NoBox /\ attempt' = 0
  /\ UNCHANGED <<site, turn, box, inbox, toShow, turns, replies, shownAt, atSend, owed, reading>>

ScriptNext ==
  \/ TryNext \/ TrySpare \/ Click \/ Confirm \/ NotConfirmed
  \/ Observe \/ \E late \in BOOLEAN : Poll(late)
ChatNext == ChatClears \/ ChatShows \/ ChatReplies \/ ChatWrites \/ ChatStops

(* Bound: what the page does after the last turn is of no interest.        *)
Watched == turn < MaxTurns \/ step \notin {"unsent", "read"}

PageNext ==
  \/ \E again \in BOOLEAN : Deliver(again)
  \/ ScriptNext \/ ObserveAgain \/ Navigates
  \/ Watched /\ ChatNext

(* The script's timers fire.                                               *)
PageFairness ==
  /\ WF_pageVars(TryNext \/ TrySpare \/ Click \/ NotConfirmed)
  /\ WF_pageVars(Poll(TRUE))

PageSpec == PageInit /\ [][PageNext]_pageVars /\ PageFairness

-----------------------------------------------------------------------------
Reported == step \in {"sent", "observing", "read", "unread"} /\ box = Composer

Taken == \E j \in DOMAIN inbox : inbox[j] = turn

(* A message reported as sent was taken by the chat, provided that it was  *)
(* typed in the chat's own box ("it must not be a guess about whether a    *)
(* click landed").  An earlier message emptied or shown late confirms the  *)
(* next one, which the chat never took.                                    *)
SentIsTrue == Reported => Taken

(* What holds: it was taken, or the chat had yet to react to an earlier    *)
(* message when the box was settled on.                                    *)
SentUnlessOwed == Reported => Taken \/ owed

(* "Text left in a feedback form is a visible action taken on the user's   *)
(* behalf in the wrong place": what was tried and not used is empty,       *)
(* unless the box refuses to be cleared.                                   *)
NothingLeftBehind ==
  step \in {"sending", "confirming", "sent", "observing", "read", "unread"} =>
    held \subseteq {box} \cup site.keeps

(* A reply found by difference was not on the page, as long as it is, when *)
(* the message was first asked to be sent.                                 *)
FoundIsNew ==
  ~site.table /\ answer[1] = "reply" =>
    \/ answer[2] > Len(atSend.sizes)
    \/ answer[3] > atSend.sizes[answer[2]]

(* Whatever the page does, observe comes to an end ("the backstop that     *)
(* keeps a stale site control from holding a request forever").            *)
ObserveEnds == step = "observing" ~> step # "observing"

(* "The reply is the large block of text that was not there before the     *)
(* message was sent": what is returned because it has come to rest, and not *)
(* because time is up, is the reply to this message.                       *)
AnswersTheMessage == answer[1] = "reply" /\ still > 0 => replies[answer[2]].to = turn
=============================================================================
