------------------------------ MODULE Completions ------------------------------
(***************************************************************************)
(* The relay as an OpenAI server: serveCompletions, the counts of messages *)
(* a chat was shown, and messagesToSend.  A harness run sends its whole    *)
(* transcript with every call and appends the answer and one message to    *)
(* it; it may call again before an earlier call has ended, and the relay   *)
(* does not learn that it gave up.  hub.ask, in RelayHub, goes to whatever *)
(* chat answers then.                                                      *)
(***************************************************************************)
EXTENDS Naturals, FiniteSets

CONSTANTS
  Runs,      \* runs of harnesses
  MaxLen,    \* bound: messages of a transcript
  Tabs,      \* the conversations a call may be typed into
  MaxCalls,  \* bound: calls
  MaxLosses  \* bound: restarts of the relay and changes of conversation

VARIABLES
  key,     \* sessionKeyFor each run: the same opening makes the same key
  len,     \* messages in each run's transcript
  counts,  \* sentCounts
  calls,   \* calls so far
  from,    \* the run of each call
  size,    \* the transcript's length in it
  sent,    \* the count it was served with
  stage,   \* how far it has got; "past": answered by a relay that is gone
  tab,     \* the conversation that answers now
  into,    \* the one each call was typed into
  shown,   \* <<conversation, run, i>>: it has been shown message i of the run
  losses

harnessVars == <<key, len, counts, calls, from, size, sent, stage, tab, into, shown, losses>>

CallIds == 1 .. MaxCalls
Keys    == 1 .. Cardinality(Runs)

CompletionsTypeOK ==
  /\ key \in [Runs -> Keys] /\ len \in [Runs -> 1 .. MaxLen]
  /\ counts \in [Keys -> 0 .. MaxLen] /\ calls \in 0 .. MaxCalls
  /\ size \in [CallIds -> 0 .. MaxLen] /\ sent \in [CallIds -> 0 .. MaxLen]
  /\ stage \in [CallIds -> {"none", "called", "asked", "typed", "answered", "failed", "past"}]
  /\ tab \in Tabs /\ into \in [CallIds -> Tabs]
  /\ shown \subseteq Tabs \X Runs \X (1 .. MaxLen) /\ losses \in 0 .. MaxLosses

CompletionsInit ==
  /\ key \in [Runs -> Keys] /\ len = [r \in Runs |-> 1]
  /\ counts = [k \in Keys |-> 0] /\ calls = 0
  /\ from = [c \in CallIds |-> CHOOSE r \in Runs : TRUE]
  /\ size = [c \in CallIds |-> 0] /\ sent = [c \in CallIds |-> 0]
  /\ stage = [c \in CallIds |-> "none"]
  /\ tab = (CHOOSE t \in Tabs : TRUE) /\ into = [c \in CallIds |-> tab]
  /\ shown = {} /\ losses = 0

Key(c) == key[from[c]]
Goto(c, s) == stage' = [stage EXCEPT ![c] = s]

Call(r) ==
  /\ calls < MaxCalls /\ calls' = calls + 1
  /\ from' = [from EXCEPT ![calls + 1] = r]
  /\ size' = [size EXCEPT ![calls + 1] = len[r]]
  /\ Goto(calls + 1, "called")
  /\ UNCHANGED <<key, len, counts, sent, tab, into, shown, losses>>

(* Faulty: the messages are counted when they are sent.                    *)
CountedAtOnce(c) == [counts EXCEPT ![Key(c)] = size[c]]

CountedLater(c) == counts

(* The body has been read: what is new is asked, or there is no chat.      *)
Serve(c) ==
  /\ stage[c] = "called" /\ Goto(c, "asked")
  /\ sent' = [sent EXCEPT ![c] = counts[Key(c)]]
  /\ counts' = CountedLater(c)
  /\ UNCHANGED <<key, len, calls, from, size, tab, into, shown, losses>>

(* messagesToSend.                                                         *)
Delta(c) ==
  IF sent[c] = 0 \/ sent[c] > size[c] THEN 1 .. size[c] ELSE sent[c] + 1 .. size[c]

(* The browser types it, sooner or later, into the conversation of then.   *)
(* What it types for a call that has failed only adds to what was shown,   *)
(* and is left out.                                                        *)
Typed(c) ==
  /\ stage[c] = "asked" /\ Goto(c, "typed")
  /\ into' = [into EXCEPT ![c] = tab]
  /\ shown' = shown \cup {tab} \X {from[c]} \X Delta(c)
  /\ UNCHANGED <<key, len, counts, calls, from, size, sent, tab, losses>>

(* The chat's answer; the harness goes on from it, if it still waits.      *)
Answered(c) ==
  /\ stage[c] = "typed" /\ Goto(c, "answered")
  /\ counts' = [counts EXCEPT ![Key(c)] = size[c]]
  /\ \E waits \in BOOLEAN :
       len' = IF waits /\ size[c] = len[from[c]] /\ len[from[c]] + 2 <= MaxLen
              THEN [len EXCEPT ![from[c]] = @ + 2] ELSE len
  /\ UNCHANGED <<key, calls, from, size, sent, tab, into, shown, losses>>

(* No chat, an error, or 180 s: 502.                                       *)
Failed(c) ==
  /\ stage[c] \in {"asked", "typed"} /\ Goto(c, "failed")
  /\ UNCHANGED <<key, len, counts, calls, from, size, sent, tab, into, shown, losses>>

(* A new relay process knows nothing of earlier calls.                     *)
RelayRestarts ==
  /\ losses < MaxLosses /\ losses' = losses + 1
  /\ counts' = [k \in Keys |-> 0]
  /\ stage' = [c \in CallIds |-> IF stage[c] = "none" THEN "none"
                                 ELSE IF stage[c] \in {"answered", "past"} THEN "past"
                                 ELSE "failed"]
  /\ UNCHANGED <<key, len, calls, from, size, sent, tab, into, shown>>

(* Another chat is chosen, another tab is paired, or the conversation in   *)
(* it is a new one; the relay does not count anew.                         *)
ConversationChanges ==
  /\ losses < MaxLosses /\ losses' = losses + 1
  /\ tab' \in Tabs \ {tab}
  /\ UNCHANGED <<key, len, counts, calls, from, size, sent, stage, into, shown>>

CompletionsNext ==
  \/ \E r \in Runs : Call(r)
  \/ \E c \in CallIds : Serve(c) \/ Typed(c) \/ Answered(c) \/ Failed(c)
  \/ RelayRestarts \/ ConversationChanges

CompletionsSpec == CompletionsInit /\ [][CompletionsNext]_harnessVars

-----------------------------------------------------------------------------
Alone(r) == \A q \in Runs : q # r => key[q] # key[r]

(* What this relay has an answer to for the run was all typed into t.      *)
AllIn(t, r) == \A c \in CallIds : from[c] = r /\ stage[c] = "answered" => into[c] = t

KnowsAll(c) == {into[c]} \X {from[c]} \X (1 .. size[c]) \subseteq shown

(* "Only ever called with the messages a given tab has not already been    *)
(* shown": a conversation that answered a call had been shown all of its   *)
(* transcript.  The count is the relay's, whatever conversation answered,  *)
(* so a new one is shown the rest of a transcript it has not seen.         *)
ShownInFull ==
  \A c \in CallIds : stage[c] = "answered" /\ Alone(from[c]) => KnowsAll(c)

(* What holds, however calls of the run overlap, fail and are repeated and *)
(* the relay restarts: so it is for a run that no other has the opening    *)
(* of, while one conversation answers it.                                  *)
ShownUnlessMoved ==
  \A c \in CallIds :
    stage[c] = "answered" /\ Alone(from[c]) /\ AllIn(into[c], from[c]) => KnowsAll(c)

(* "The key has to be stable across a run and different between runs": the *)
(* messages that are left out of a call were shown in an earlier one of    *)
(* the run.  Two runs that open with the same words are counted as one.    *)
CountedIsOwn ==
  \A c \in CallIds :
    stage[c] = "asked" /\ sent[c] <= size[c] =>
      \A i \in 1 .. sent[c] : \E t \in Tabs : <<t, from[c], i>> \in shown
=============================================================================
