# A verification project for Dumb Ways To Die

The repository connects a code editor to whatever can answer questions about the
code in it: a chat tab in the user's browser, a provider process, or a person
with a clipboard. The chat may call tools (read a file, search, run a command),
and the editor runs them after asking the user. This directory holds TLA+
modules that model that system, the TLC runs that check them, and proofs.

Paths below are relative to the repository; `extension/`, `relay/`,
`browser-adapter/`, `mcp-server/` and `protocol/` stand for `packages/<name>/src/`.

## 1. The system

| part | state it keeps | operations | what makes it correct |
| --- | --- | --- | --- |
| Coach controller (`extension/coach`) | the pending request, its clock and abort signal, the panel's request state, the conversation | send, cancel, new session, swap transport, replies, errors, tool calls, prompts, two timers | a request ends once, for a cause of its own, and always ends; late replies change nothing; cancel reaches the running tools; the panel tells the truth |
| Relay hub (`relay/hub.ts`) | connections, who is what, request correlations, HTTP waiters, tool callers, tool list, pairing window | accept, hello, replace, drop, sweep, route, ask, pair | one adapter of a kind, everyone knows who is attached and which tools exist, replies correlate until the final one, results go to their caller, nobody waits forever |
| Relay process and HTTP server (`relay/server.ts`, `completions.ts`, `auth.ts`) | the handshake file, how much of each harness conversation was shown | start, listen, stop, `/pair`, `/v1/chat/completions` | the file speaks of the relay that runs, a conversation that answers was shown the whole transcript, unless the run was moved |
| Relay client and launcher (`relay/client.ts`, `extension/relay`) | socket, attempts, timers; the relay process found or spawned | probe, stop, spawn, connect, beat, reconnect with backoff, close | a relay of another build that serves is replaced, one live socket per provider, a dead link is noticed |
| Browser worker (`browser-adapter/background.ts`) | paired tabs, operations, per-tab queues, tool batches, credentials | receive a request, type it, stream the reply, run tool batches, open a surface, connect, discover and pair, be killed and restarted | one operation at a time per tab, every request answered or refused, no tab opened twice for one pick, the link recovers by itself |
| Chat surfaces (`browser-adapter/surfaces`, `content.ts`) | what the page shows | type, send, confirm, judge completion, list and set the model | what is reported sent was sent unless the page still owed something, nothing is left in another box, a reply is new, no model is set but the one named |
| Tool registry, permissions, command runner (`extension/tools`, `permissions`, `shell`) | calls in flight, recent results, remembered grants, child processes | validate, ask, run, time out, abort | a command runs with consent, once for an id unless packets overlapped, and no process survives unseen |
| Workspace and search (`extension/workspace`, `editor`) | disk, buffers, directories | read, list, search while files change | what is reported of a name it showed, no name twice, a search leaves nothing out |
| Transports (`extension/transport`) | surfaces being opened, the selected chat, paste buffers | send, deliver, open a chat | the last pick answered is selected, every wait ends |
| Context engine and ledger (`extension/context`) | what the chat has been shown | plan, diff, confirm, forget | a chat that got every message holds what the ledger says it holds |
| MCP server (`mcp-server`) | calls awaiting the relay | call a tool for a coding agent | every line answered once and in order |

The editor extension is one single-threaded process, the relay another, the
browser worker a third that the browser may kill at any time; a coding agent's
MCP server and the content script in a page are two more. They exchange messages
over WebSockets through the relay; each process also has timers and promises. All
the hard behaviour is in the interleaving of messages, timers, user commands,
prompts, awaits and reconnections; `PROJECT.json` lists the hazards one by one, at
the lines where they bite, with the properties that watch them.

## 2. Modules

| module | models |
| --- | --- |
| `CoachController` | `CoachController.ts` and what it drives of `SessionStore`, `ExtensionState`, `PermissionManager` and the two transports' sends |
| `RequestLife` | abstract: what the user is promised of a request; `CoachController` implements it |
| `RelayHub`, `MCRelayHub` | `RelayHub` of `hub.ts`; symmetry for its runs |
| `BrowserTurns` | turns in the service worker: queues, typing, observing, tool batches |
| `BridgeLink` | the worker's connection: credentials, discovery, pairing windows, backoff |
| `BrowserParts` | composes the two |
| `BrowserPairing`, `MCBrowserPairing` | which chats the worker can reach: pairing, restoring, opening; symmetry |
| `RelayProcess` | windows finding, stopping and starting the relay; its process and its file |
| `EditorLink` | providers, their connections, backoff and heartbeat |
| `SurfacePicks` | picking the chat that answers, across editor, relay and worker |
| `AgentBridge` | the MCP server between a coding agent and the relay |
| `ConnectionParts` | composes these four |
| `ToolCalls` | `ToolRegistry.execute`, approvals, grants, child processes |
| `ContextLedger`, `LineDiff` | what a chat is told of the open file; the line diff as a pure function |
| `ClipboardLoop` | the transport of a user who copies and pastes |
| `WorkspaceReads`, `ProjectTree` | the tools that read and search; those that list |
| `EditorParts`, `MCEditorParts` | compose these five; texts, files and trees |
| `ChatPage`, `ModelMenu` | a message on a chat's page; its model menu |
| `Completions` | the OpenAI-compatible endpoint and what each chat was shown |
| `ChatParts`, `MCChatParts` | compose these three; sites and model names |
| `CoachController_proof`, `BrowserTurns_proof`, `BrowserPairing_proof`, `RelayHub_proof`, `ConnectionParts_proof`, `ChatParts_proof`, `EditorParts_proof`, `LineDiff_proof` | theorems |

A module that composes parts lets one of them move in a behaviour, chosen in the
initial state, while the others stay where they start: their state spaces add up
instead of multiplying. Where parts meet in the code, each models what the other
does to it (the turns see the link to the relay as up or down; the hub's callers
come and go freely), and the free choice covers every order the other can produce.

### CoachController

One action per event. An event runs until its first await that really waits:
over the relay `sendRequest` and `sendToolResult` are a synchronous socket write,
so `SendOverRelay` is the whole of `send`; over the clipboard they wait for the
clipboard, so `SendOverClipboard` stops at the await and `SendSettled` is the
rest, run whatever happened in between. `Deliver` is `deliverToolResult`, with
the same distinction (`ResultSettled`).

State: `pending`, `timer`, `paused`, `settling`, `abortCtl` are the controller's
fields; `reqState` is `ExtensionState`'s request state at the end of an event
(states passed through within an event are not observable by another event);
`session`, `active`, `transcript` are `SessionStore`'s; `jobs` holds one record
per call of `handleToolCall`. `ended`, `home` and `sends` are history: why each
request ended and in which session it was asked. Request ids are numbers in
order of sending, because `createId` never repeats one.

The far side is free: it may answer any request it was ever sent, partially,
finally or not at all, twice and late, fail it or the transport, and call tools
with any request id and session, or none. A tool's permission class decides
whether it runs at once (`RunTool`) or prompts (`OpenPrompt`).

`RequestLife` has no clock, transport, prompt or tool. `PromisesKept` maps its
variables to the controller's: `life` is `Lives` (the pending request is open, one
with an ending has that ending's reason, one that was sent and is neither was left
behind by a new conversation, a swap or a reload), `asked` is `home` and `reply`
is `transcript`. It fails as soon as a late reply touches an ended request, a
request ends twice, or one is opened beside another.

### RelayHub

One action per event of the relay's process: a connection accepted, a message
read from a socket, a close, a timer, an HTTP request. `members` is the
`connections` map, `socket` what the relay can see of each socket. A socket the
relay has closed (`closing`) still delivers what its peer had sent: the
WebSocket library emits messages until the peer's close arrives, and `onMessage`
does not look at the map. `leaving` is a socket whose peer sends nothing more;
`silent` one with nobody behind it, which only `sweep` notices. `registry` and
`toolList` are what each adapter was last told, reset when its socket closes.
`replies`, `asked`, `called`, `calledIn`, `owed` and `wentTo` are history.

Messages are sent by the kinds of adapter that send them; the relay's own checks
(editor only) are in the guards. `ToolResult` may come over another connection
than the call went out on, as it does when an editor reconnects while a tool
runs. `Restart` is a new relay process: the launcher restarts a relay of another
build, and everything in memory is gone.

### BrowserTurns

`op` is where a request is in `handleRequest`: queued behind its tab
(`queueForTab`), running (in `operations`), or over. `chain` is what its latest
`sendToChat` awaits, which is independent of `op`: a turn that was given up on
still has its `sendToChat` or its batch. `round` stands for the observation id,
renewed by every `finishBatch`. A batch is the number of calls it expects and the
set it got. `last` and `watching` are the page's: whose text was typed last, and
whom the content script observes for; a new `observe` aborts the old one, whose
`askTab` then asks again. `told`, `shown`, `missed` and `crossed` are history; `missed` are the turns whose
error or final response was dropped, and no other loss excuses silence.

The environment may answer every question badly, late or twice: a delivery fails
with the text typed or not, an observation finds nothing, frames of earlier
rounds straggle, results come after their batch is finished. `BatchDeadline`
requires that the ceiling has fired, because the batch's 200 s start after the
ceiling's 150 s and `Ceiling` always frees a turn that has a batch. When the
socket closes the relay forgets who is owed a result, and so `owed` is emptied.

### BrowserPairing

`pairings` and `order` are the map (insertion order matters: `loadState` takes
the first ready record), `stored` is `chrome.storage`, `preferred` the chat of
requests that name none. `LoadStart` and `Restore` are `loadState`, which empties
the map and fills it between awaits. `StartPairing` and `AutoPair` are the two
ends of `autoPair`, called for any tab by `onUpdated` or a sweep. `job` is where
an `openSurface` is; copies of its message wait for one job (`surfaceOpenJobs`) or
get its result (`surfaceOpenResults`, whose limit of 64 is not modelled).
`Opened` and `Switched` are cut at `applyVariant`, which is awaited between taking the
mark off the chat and answering. Two awaits of `openSurface` lie outside its `try`:
saving the pairing of a blocked tab, and its own sweep. If one rejects (`Throw`) the
job is gone, the mark stays and nobody is answered; `threw` has these opens. Storage
fails only where an open waits for it. `StartPairing` looks again at any tab whose
chat has no healthy pairing: `onUpdated` does so for every page that has loaded, a
blocked one too, and the sweep passes over some of these.
`Killed` drops everything but `stored` and the tabs.

### BridgeLink

`cred` is the worker's credentials and `stored` what storage has; each is the
number of the relay's `token` it was minted for, and a relay may start with a
new one. `ws` has every WebSocket object and `socket` the one the worker's variable
names; two may exist at a time, because an older one can close after a newer one
was made. `connect`, `discover`, `forgetCredentials` and `loadState` are cut at
their awaits. The environment kills the worker, stops and starts the relay, lets
the pairing window lapse and pastes old credentials; `MaxFaults` bounds these
together (`MaxBreaks` in `BrowserParts`). `attached` is the socket the relay has for
a browser. Assumed: a timer of the worker lasts longer than an answer of a relay
that is up, and one discovery runs at a time.

### RelayProcess, EditorLink, SurfacePicks, AgentBridge

`RelayProcess`: every window has a build (`build`), and every process the one of the
window that spawned it (`made`). A window probes the port, compares builds, tells a
relay of another build to end, pauses and spawns one; a probe may miss a relay that is
slow. `waitForRelay` takes whatever relay answers, so a window of another build may
be handed one that somebody else started: `HandedAnother` says when, and `heard` is
the relay that answered a call's first probe while it served. Processes listen or
fail, write the file, remove it on a signal, and may crash and leave it. The pause of
300 ms is taken to be enough for a signal to be acted on (`Waited`): without that, a
relay told to end could be the one that is handed on.

`EditorLink`: each call of `connect` makes a connection of its own, so calls and
connections share their numbers; `held[p]` is the connection provider `p` keeps.
`close` takes no handler off a socket, so a welcome on its way is heard by a
connection that is closed (`AnsweredLate`), which then says that it is connected.
`DeadLinkNoticed` is of the connections that are held.

`SurfacePicks` follows one pick from the command through the pending open, the
worker's tab and its answer to the selection; the two hops through the relay keep
order while both ends are attached and lose messages while one is not.
`AgentBridge`: the server's loop handles a line at a time, and awaits each call or
its timer.

### ToolCalls and the other parts of the editor

A packet goes through `Receive`, perhaps `Answer` and `Saved`, then a tool that
resolves a path and works, apart from the race that `execute` runs against its
timer: `work` may go on when `phase` is answered. `child` is the process of a
command. `deaf` marks a process whose abort listener was added when the signal had
already fired.

`ContextLedger` plans with `LineDiff` over whole texts. `faithful` says that every
message of the session reached the chat, which also stayed the same: `ChatIsInformed`
is of such chats. The ledger itself knows of no loss (`ReceivedInFull`, below).

In `WorkspaceReads` the disk and the buffers change between any two awaits: a file is
rewritten by another program while its document is clean or dirty, and documents are
opened, typed in, saved and undone under the name of a link as under the file's own.
The code compares documents and files by name, and so does `ReportsAreTrue`.

In `ProjectTree` a directory is read once, at one moment, so that what others change
in it before is as if it had been so from the start; left to the walk are directories
that are listed and gone when their turn comes. `listDirectory` reads one directory in
one step, and no property speaks of it alone.

`ClipboardLoop` has one clipboard that the user and the program both write. Every
write is awaited: `writing` are the texts on their way, which arrive in any order or
fail. A failure ends the request that is open then, whichever it is.

### ChatPage, ModelMenu, Completions

A site is a record of what its page does: which boxes it offers and in what order,
which take the text, react to a click, keep their text when they are emptied; whether
the chat empties its box for a message it took and shows the message, both some time
later or never; whether the message is echoed, whether a table of messages is known,
whether a stop button tells the truth, and into how many parts replies come. The
content script never learns this. `deliver` types whenever it is asked, also while the
page has an earlier message to clear or to show: `owed` says that it had when the box
was settled on. A page may be left at any step, and with it the snapshot that
`observe` needs. Echoes that are a page's own answers are not modelled.

`ModelMenu` has controls that open the model's menu, or another whose options may look
like models, or none, or are switches; `Listed` is what a menu holds and `seen` the part
of it that is in view 350 ms later, perhaps none. The page may ignore a click on an
option, or switch and be slow to say so.

`Completions` counts messages by run, as `sentCounts` does; `tab` is the conversation
that answers at the time, which the user, the browser and the hub may change between
any two calls. A harness sends its whole transcript with every call, and may call again
before an earlier call has ended. Runs may open with the same words (`key`).

## 3. Runs

| run | question | bounds |
| --- | --- | --- |
| `coach_safety` | does the request lifecycle keep its promises? | 2 requests, 2 sessions, 2 tool calls, 1 partial |
| `coach_live` | does the controller implement `RequestLife`; does every request end, is every tool answered? | 2 requests, 2 sessions, 1 call, 1 partial |
| `coach_clock` | ADR 0007's suspended clock (violated) | 1 request, 2 calls |
| `relay_safety` | who is attached, who knows, who gets results? | 4 connections, 1 call, 1 tool list, 1 restart |
| `relay_timers` | correlation, waiters, and what must end | 2 connections, 2 requests, 2 questions, 1 restart |
| `browser_turns` | do turns stay apart and end with an answer or an error; does the link recover? | 2 requests, 1 tab, 1 round of 2 calls, 1 retry, 1 fault; 2 sockets, 2 tokens, 2 breaks |
| `browser_typing` | only the turn that holds a tab types in it (violated) | 2 requests, 1 round of 1 call |
| `browser_pairing` | do records, tabs and opens agree? | 2 chats, 2 tabs, 1 open delivered twice, 1 kill |
| `editor_parts` | are tools asked for, bounded and reported truly; is the chat informed; does the clipboard loop go on? | 2 packets, 2 commands, a cache of 1; texts of up to 7 lines; 2 clipboard requests, 2 calls, an id the chat may use again beside the primer's; 4 files and a link, 2 changes; 3 trees |
| `editor_link` | is the editor attached where it says, and is whoever waits answered? | 2 windows, 2 builds, 2 relays, 1 crash; 2 providers, 3 connects; 2 picks, 1 upset; 3 agent lines, 2 drops |
| `browser_chat` | is what is sent, read, switched and shown what it is said to be? | 2 turns, 2 boxes, 1 navigation or repetition, 36 kinds of page; 3 models, 2 levels, 2 jobs; 2 harness runs, 3 calls, 2 conversations, 2 losses |
| `chat_answers` | a reply answers the message it is returned for (violated) | 2 turns on the pages that differ in what they show, no faults |

Two requests are enough for one to be late in the time of the other, two calls
for overlapping prompts, two sessions for a reply in the wrong conversation. Four
connections allow two rivals of one kind next to an editor and a chat, and an
agent, an editor, and both again after a restart. Two packets and a cache of one
answer are enough for a duplicate to come early, in time, and too late; two windows
and two builds for one to replace the other's relay, both to stop one, and one to be
handed what the other started (that more than two relays change nothing is proved);
three connects for two that overlap and a later one; two picks for the answer to the first to
arrive during the second. A text of seven lines is longer than the file limit of
six and the pull threshold of five, so that each way of telling a file happens. Two
turns are enough for the late effect of one to meet the other, and two conversations
for one to take over a transcript. Pages that differ in their boxes give replies of
no parts, those whose replies are judged by difference of one, and those whose
stop button stays of two, since a block opens and closes.
The constants named `Max...` cap counters the code does not cap, except
`MaxRetries` (the worker's three retries), `BrowserTurns`' `MaxCalls` (`MAX_BATCH`),
`CacheSize`, `MaxFile`, `PullThreshold`, `MaxEntries`, `StaleAfter` and `MaxTries`,
which stand for limits of the code made small. Deadlock is not checked: with its
bounds used up and its timers run, a model really stops.

Three runs are expected to be violated, and show where the program departs from
what its documents say:

- `coach_clock`: a prompt is open and the request clock runs, so a request may
  time out while the user decides (`ClockSuspendedWhileAsking`);
- `browser_typing`: a batch deadline that outlives its turn types into the next
  one's tab (`OnlyHolderTypes`); `CrossedOnlyIfGivenUp` is the part that holds;
- `chat_answers`: a chat slow to add its reply has the previous one returned
  (`AnswersTheMessage`); `FoundIsNew` is the part that holds, of replies found by
  difference.

`PROJECT.json` lists these under `findings` together with others that have no run of
their own; each quotes the line it departs from. Some of these are definitions beside
the properties that hold, and are false of the models: TLC finds a counterexample in
seconds when one takes the place of the properties in the cfg of the run named.

| false | run | the document says | what holds |
| --- | --- | --- | --- |
| `AlwaysAcknowledged` | `browser_pairing` | an open always sends one acknowledgement | `OpensAccounted` |
| `AttachedToOwnBuild` | `editor_link` | a relay of another build is replaced, not reused | `ReplacedNotReused` |
| `DotGoesOut` | `editor_link` | no green dot next to a dead connection | `DeadLinkNoticed`, in `EveryoneIsAnswered` |
| `ReceivedInFull` | `editor_parts` | coverage is what the chat received | `ChatIsInformed` |
| `CountedOnce`, `BufferWins` | `editor_parts` | no file is counted twice, none read from the disk while its document is dirty | `ReportsAreTrue`, of names |
| `SentIsTrue` | `browser_chat` | `sent: true` is no guess | `SentUnlessOwed` |
| `ShownInFull`, `CountedIsOwn` | `browser_chat` | only what a tab was shown is left out; keys differ between runs | `ShownUnlessMoved` |
| `FailureChangesNothing`, `SuccessMeansSwitched` | `browser_chat` | a model not confirmed is not changed; the control says the new name | `OnlyTheModelNamed` |

The other findings: the panel after a refused call, results after a relay restart, a
hello that crosses its own timeout, the restored choice of chat, an older socket's
close, a call written to a dead link, calls after the first of a pasted reply, the
order of prompt and validation, duplicates of a running call, replayed statuses, and
an empty question for a repeated transcript. The models include all of this behaviour,
and the properties that pass are stated so that they are true with it.

## 4. Fairness

Only what a process does by itself is fair: its timers, its awaited writes, its
own next step. Nothing is ever asked of the user, of a chat, or of the far side.

- `CoachController`: the two timers fire, an awaited clipboard write settles, and a
  started tool ends (`ToolRegistry.execute` races every tool against its own
  timeout). This is why `WorkEnds` allows a request to wait at an open prompt.
- `RelayHub`: handshake and question timers fire, the sweep runs, and a closing
  socket closes (the library destroys it after its own timeout).
- `BrowserTurns`: the worker's timers fire, a queued turn starts, and the page
  answers what it was asked: confirming a send and observing a reply are bounded in
  the page (`SEND_CONFIRM_MS`, `DEFAULT_MAX_WAIT_MS`). A tool result may never come.
- `BridgeLink`: sockets and storage answer, the retry timer and the alarm fire,
  windows start the relay, and the user of an editor without a browser opens the
  pairing window: without that, nothing in the code could pair again.
- `ToolCalls`: a grant is stored, and the timers of commands and of the registry
  fire. `EditorLink`: the heartbeat and the backoff timer fire. `SurfacePicks`: the
  timer of an open fires. `AgentBridge`: the server's process runs and its call
  timers fire. `ChatPage`: the script's own timers fire; `ObserveEnds` holds whatever
  the page does.

## 5. Proofs

`CoachController_proof` proves, for every number of requests, sessions, calls and
partials (`BoundsAssumption`: naturals, at least one request and one session), all
invariants of `coach_safety`, the type invariant, that late replies are dropped,
and that the controller implements `RequestLife` (`PromisesHeld`: initial states
map to initial states, and each kind of step to a step of `RequestLife` or to
none). The invariants are not inductive as they stand: `EndsOnce` needs to know
that the pending request has not ended, `CancelReachesTools` that a tool holds the
signal of its own request and that the controller's signal is the pending
request's, `RepliesOnlyWhileOpen` that the pending request was asked in the
current session and that a finished reply belongs to a request that has ended.
`IInv` adds `PendingIsLive`, `JobsHoldTheirSignal`, `CancelledIsAborted` and
`FinalHasEnded`. The argument runs over the fate of requests: `StepFate` shows
that each of the twenty kinds of step is quiet, abandons the pending request,
starts a new one or ends the pending one for a stated cause; the invariants about
endings are then preserved by four cases each. The clock, the panel and the tools'
signals are proved action by action. TLC checks `IInv` true on the bounds of
`coach_safety`.

`BrowserTurns_proof` proves, for every number of requests, tabs, rounds, calls,
retries and faults (`TurnsAssumption`: naturals, and `NoTab` is not a tab), the
invariants of `browser_turns` and `ShownNeverGoesBack`. `CrossedOnlyIfGivenUp` is
far from inductive: that a reply is read behind its own message needs an observed
turn to have the last word in its tab (`Apart`), hence that no second turn types
there, hence that a running turn has waited for every earlier one of its tab and
that requests join the queues in order (`InOrder`), and that whatever waits for a
page belongs to a running turn. `FinalIsLast` needs that a turn with a final
response waits for nothing (`DoneAfterFinal`), which rests on a turn waiting for
its page or for its tools but never for both (`OneThing`). `NoSilentEnd` needs
that a turn was reported when it was given up on (`Heard`), `ShownNeverGoesBack`
that no later round was shown (`ShownSofar`). There is one lemma for each action;
`FinishBatchKeeps` serves the last result and the deadline, and `TellFacts` says
once what a message to the relay changes. TLC checks this `IInv` true too, on the
bounds of `browser_turns`.

`RelayHub_proof` proves, for every number of connections, requests, questions,
calls, tool lists and restarts (`HubAssumption`: naturals, and `NoConn` is no
connection), every invariant of `relay_safety` and `relay_timers`. `OneOfEachKind`
needs that a socket not yet accepted, or closed, has no kind (`Present`): a
connection then joins with a kind only by a hello, which puts out whoever has it
(`HelloFacts`). `EveryoneIsTold` is preserved because an action either broadcasts
what it makes of the map, or leaves the set of attached adapters alone
(`SameSnapshot`, `StillTold`). `FinalIsLast` needs that what correlates is unfinished
(`StillOpen`), `ResultsGoHome` that an owed call with no remembered caller was made
before a restart (`Remembered`).

`EditorParts_proof` proves the invariants and action properties of the five parts of
the editor, for the specification of the composition (`EditorAssumption`,
`ToolsAssumption`, `TreesAssumption`: bounds are naturals, texts are sequences,
files are finitely many and a tree's parents are above its children). A step of the
composition is a step of one part and leaves the others alone, so `IInv` is a
conjunction, one invariant for each part:

- Tool calls (`CallsInv`): `RerunsOverlap`, `NothingRunsUnasked` and the safety part
  of `ChildrenEnd` (`KilledWithItsCall`). That a grant had an "always" not taken back
  since is `Backed`. `RerunsOverlap` needs that the cache loses no answer without its
  id being counted as evicted (`Found`), which is a fact about the sequence that
  `finish` keeps (`FinishKeepsFound`), and hence that a packet that came alone is given
  that answer and never works (`GivenAgain`). `KilledWithItsCall` needs that what
  works beyond its answer has had its signal (`Signalled`). `InTurn` orders a packet's
  way through `execute`. `CallsAsAlone` shows that in the composition tool calls
  behave as they do alone.
- The ledger (`LedgerInv`): `ChatIsInformed`, for any texts. A provider new to a
  session sends the rules with its next message because it counts as knowing the
  rules only of the session it sent them in; a plan with an edit informs because the
  edit is exact (`EditsAreExact`, from `LineDiff_proof`).
- The clipboard loop (`LoopInv`): `LoopNeverStalls` needs that the provider waits for
  the request the controller waits for, and `ResultsNamed` that a tool that works
  works for a call that can still be named or whose request is gone, and that a result
  on its way goes by its call's name (`Named`).
- Reading and searching (`FolderInv`): `ReportsAreTrue`, for any files and texts. A
  search reports each file once because every file of the folder is left to visit,
  reported, or left out for an unsaved document of its path that is reported in the
  end (`Searches`), and what is on the disk of a file still to be read has been noted
  (`ToRead`).
- Listing (`TreeInv`): `TreeIsTrue`, for any tree, any limit and whatever vanishes
  during the walk. `Breadth` says that directories wait in the order of their depths,
  that at most one level lies between what is listed and what waits, that no deeper
  entry is listed than one left out, and that a listing is called truncated just when
  it is full and something was left out whose directory was read. That nothing else
  is missing when the queue is empty is shown on the shallowest missing ancestor
  (`TreeTold`), which needs depth to be a function of the tree (`DepthIs`). A listing
  is sorted by name and cut to the limit: `SortedFacts` and `AtMostFacts`.

`LineDiff_proof` proves `EditIsExact`: for any two sequences of lines over any
set and any number of lines of context, applying the hunks `diffLines` finds to the
first text yields the second. The table of the longest common subsequence, the
script read off it and the application of hunks are recursive functions, and the
library's induction theorems take an operator no prover here can instantiate. In
their place stands that a set of naturals that is not empty has a least member
(`Least`, itself proved from cardinalities of intervals): each claim is shown by
looking at the least distance, place or step at which it fails. That a recursive
function satisfies its equation is shown the same way, by the existence of one
(`WalkExists`, `AppliedExists`). The argument: the operations lead from the one text
to the other (`OperationsLead`), a hunk's numbers count the lines before it
(`CountLines`, `LinesOfPart`), groups of changes are apart (`GroupFacts`), so applying
the first hunks yields a text that is new up to the last of them and old from there
on (`HunkJoins`, `ApplySteps`).

`ConnectionParts_proof` proves, for every set of windows and of builds and every number
of relays, crashes, providers, connects, flips, opens, agent lines and drops
(`ConnectionAssumption`: naturals, at least the one relay that runs at the start), the
four invariants of `editor_link`. `ReplacedNotReused` needs that a window that refused
the relay it heard has told it to end when it goes on, and spawns or accepts one only
when that has ended or no file says where it is (`RefusedIsStopped`), that the file
names the relay that serves or none (`ServingFile`) and that one process listens
(`OneListens`).
`OnlyHeldConnections` needs that calls of `connect` are numbered as made, with no
connection before `ensureRunning` returned (`CallsInOrder`), and that a provider holds
one of its own calls (`HoldsOwn`). `SelectionHolds` is the furthest from inductive:
the selection is of the last open answered in time (`LastSelected`), and, while no
message was lost, the last report on its way tells what the worker shows
(`SaysLast`), and before each answer that a chat is ready comes the report of it,
also for the answers the worker has yet to send (`ReportsFirst`). `AnswersInOrder`
needs that the call the server waits for is the line read last, and that the answers
of calls given up on have no reader (`OneCall`).

`ChatParts_proof` proves, for every set of sites with any boxes in any order, every
set of models and every number of turns, parts of replies, jobs, runs, conversations
and calls (`ChatAssumption`), the four invariants of `browser_chat` and
`OnlyTheModelNamed`. `SentUnlessOwed` needs that until a sign of this message is seen,
or a sign of an earlier one is owed, the text is in the box and no turn was added
(`SignsAreTrue`). `NothingLeftBehind` needs that the box settled on depends on the site
alone (`OneBoxIsUsed`): the first that takes the text and reacts, or else the first
that takes it; so no other box keeps text, but one that cannot be emptied.
`FoundIsNew` needs that
replies are added and grow, so that what was there before typing is no less than what
was there when the message was first asked to be sent (`RepliesGrow`).
`ShownUnlessMoved` needs that, while one conversation has given every answer the relay
has for a run, what is counted for the run, and what a call takes for shown, was shown
there (`CountedWasShown`, `RestWasShown`, `WholeWasShown`).

`BrowserPairing_proof` proves, for every set of chats and of opens and every
number of tabs, copies and kills (`PairingAssumption`), every invariant of
`browser_pairing`. `OneTabPerOpen` needs that an open that may still make a tab
has made none (`JobsOK`): one that waits before its tab is created, and one this
worker has not begun. `OpensAccounted` needs that an open under way, or
ended in an exception, knows its chat, and that one whose model is being switched has
taken its mark off (`Marks`). `ReadyIsOpen` is preserved because what puts a record in the map looks at
the tab in the same step (`MapPaired`, `MapRestored`), and what closes a tab
rewrites its records (`MapAfterClosing`). That the map lists each paired chat once
(`MapOK`) is a fact about the sequence that `Put` extends (`PutFacts`).

Type invariants are proved as part of each invariant, and are not properties of
runs. Of the clipboard loop's only what the proof needs is proved (`LoopTypes`); of
`BridgeLink`'s none is, since the runs ask nothing of it but `Recovers`.

Every invariant and every action property of a passing run is the statement of a
theorem. Those of `browser_turns` are proved of `BrowserTurns`, which `BrowserParts`
composes with `BridgeLink`.

Stays with TLC: liveness under fairness (`WorkEnds`, `WaitsEnd`, `TurnsEnd`, `Recovers`,
`ChildrenEnd`, `EveryoneIsAnswered`, `ObserveEnds`), which the proof system does not
reason about.

## 6. Not modelled

- The media registry: files are registered, served by id and forgotten, with no
  second actor that could disagree. The webview: it shows what it is posted, and
  its commands are free choices of the user in the models. The mock provider: a
  test double of the far side, which the models let do anything. The web site and
  the build scripts do not run in the system.
- Formatting, parsing and serialising of messages, receipts and prompts; which
  controls of a page look likeliest; cryptography (a hello is for the relay's token
  or for another); globs, regular expressions and ripgrep's output; environment
  and output bounds of commands; views, settings and installation.
- The limit of 64 outcomes of opens kept by the worker: a message delivered again after
  64 later opens would open its chat again. Pages that answer a message with an echo of
  it. Failures of storage outside the opens that wait for it.
- In the relay, the forwarding of surface and status messages, which keeps no
  state there. In the worker, the wait of a request for a chat that is being
  opened (`waitForSurface`). In the relay transport, the lists of models, which are
  asked for and shown. In the session store, the bound on saved messages and the
  throttle of writes.

## 7. What is left

1. `waitForSurface`, between `BrowserPairing` and `BrowserTurns`: a request whose
   chat is opened while it waits.
2. Model lists in `SurfacePicks`: a late list for another chat.
3. Proofs of what a liveness property says of safety, as `KilledWithItsCall` is of
   `ChildrenEnd`: that nothing waits without a timer or a message that will end it.
4. A composition in which the worker's link and its turns move together, so that
   the loss of a socket is the link's and no free choice.
