# A TLA+ model of cookiebot (nanobot)

This directory keeps TLA+ modules, TLC configurations and TLAPS proofs for the
Python program in `src/nanobot`: a chat agent that connects chat platforms to a
language model, runs tools on its behalf, remembers its conversations and runs
scheduled jobs. `PROJECT.json` lists the components, the runs, the mutants, the
source lines each definition stands for, the hazards and the theorems.

## 1. The system

One process, one asyncio event loop. Everything below is a coroutine or an
object that coroutines share; the interleaving happens at `await`, and that is
where the model puts its step boundaries.

| component | source | state | operations | neighbours |
|---|---|---|---|---|
| message bus | `bus/queue.py` | two bounded FIFO queues | publish, consume (a full queue blocks) | channels, agent loop, subagents, cron |
| agent loop | `agent/loop.py` | `_active_tasks`, `_session_locks`, turn tasks | `run`, `_dispatch`, `_process_message`, `process_direct`, `/stop` `/restart` `/new` `/help`, interrupt, recall | all |
| approval manager | `security/sandbox.py`, `agent/middleware.py` | bound key and chat, pending events and decisions | bind, check_and_request, respond, timeout | turns ask, the loop answers |
| subagents | `agent/subagent.py`, `agent/tools/spawn.py` | running tasks by session | spawn, announce, cancel_by_session | turns spawn, the bus carries the result back |
| sessions | `session/manager.py` | cache, Session objects, JSONL files | get_or_create, save, invalidate, clear, get_history, remove_message_by_id | turns, consolidator, recall |
| consolidator | `agent/memory.py` (`MemoryStore`, `MemoryConsolidator`) | per-session lock, failure counter, `HISTORY.md`, memory graph | maybe_consolidate_by_tokens, archive_messages, update_running_summary | sessions, provider |
| memory store and graph | `agent/memory.py` (`MemoryStore`, `MemoryGraph`) | `graph.json`, `MEMORY.md`, `MEMORY.secure.json`, `HISTORY.md`, project profiles; an ANN index in memory | consolidate, add_nodes, add_edges, expire, delete, correct, retrieve | consolidator, feedback tool, context builder |
| cron | `cron/service.py` | jobs in memory, `jobs.json`, one timer task | start, stop, add, remove, enable, list, tick | agent loop (direct turns), cron tool, a second process |
| heartbeat | `heartbeat/service.py` | one task | tick: decide, execute, notify | agent loop (direct turns), bus |
| agent graph | `agent/graph.py`, `agent/state.py` | messages and iterations of a turn | call model, run tools | providers, tools |
| tools | `agent/tools/*` | message tool flags, MCP connections, sandbox pipe | execute | agent graph |
| command sandbox | `sandbox/*` | one child process, one pipe, one lock | run, aclose | shell tool |
| providers | `providers/*` | circuit breaker | chat, chat_with_retry | agent graph, consolidator, heartbeat |
| channel manager and adapters | `channels/*` | dispatcher task; remembered ids, cursors, typing tasks, albums, frames and tokens of twelve platforms | receive, send, start, stop | bus |
| context builder, skills, config, CLI, evals, utils, bridge | | mostly none | | |

How they interact. A channel publishes an inbound message. `AgentLoop.run`
takes it: control messages are handled on the spot, an answer to a pending
approval goes to the approval manager, anything else becomes a task. The task
waits for the lock of its key, reads the session, runs the graph of model and
tool calls (which may ask for approval or spawn a subagent), appends the new
messages to the session, saves it and publishes the reply. Consolidation runs
inside the turn before the history is read, and again in the background after
the save. Cron and heartbeat call `process_direct`, which runs a turn without
task list or lock. A subagent ends by publishing a message of the channel
`system`.

What is hard here, and what makes each part correct:

- *agent loop*: turns of a session must not overlap or be reordered while they
  are cancelled at any await, time out, fail, or wait for a lock; `/stop` must
  reach everything; the dispatcher must not get stuck behind its own replies.
- *approvals*: an answer must not release a tool it was not given for, though
  answers, timeouts and cancellations race and all fields are shared.
- *sessions and consolidation*: several coroutines hold one session across
  model calls and save it afterwards; the offset of what is consolidated must
  stay in step with the archive, also when the process dies.
- *cron*: every change of a job cancels the timer task, even in the middle of a
  job; the file is shared with another process.
- *memory*: consolidations of several sessions write the same files one after
  the other, without a lock, after long waits; searches keep an index of a graph
  that others change. What was told must stay, be found, and be marked when it
  is replaced.
- *channels*: platforms deliver again or in two ways while the bus is full; sends
  of several parts fail, time out or are cancelled in the middle. A message must
  reach the agent once, a reply must stay in one piece, and what was begun (a
  typing notice, a buffer, a cursor) must be ended or kept.
- *providers, sandbox pipe, message tool*: shared flags, retries and one pipe
  used by several turns at once.

The hazards, each at its line, are in `PROJECT.json`; a hazard without a
property says why.

## 2. Modules and the code

| module | lines of the code | what it is |
|---|---|---|
| `ApprovalManager` | `security/sandbox.py` 105-199 | state and operations of the approval workflow, used by `AgentLoop` |
| `SubagentManager` | `agent/subagent.py` | the life of subagents, used by `AgentLoop` |
| `AgentLoop` | `agent/loop.py`, `bus/queue.py` | composition: bus, dispatcher, turns, locks, approvals, subagents, direct turns, restart |
| `SerialTurns` | (abstract) | what the session locks promise: one open turn per session, only the open turn commits, never behind a committed one |
| `AgentLoopProofs` | | theorems about `AgentLoop` |
| `MCAgentLoop` | | instances for TLC |
| `SessionStore`, `MCSessionStore` | `session/manager.py`, `agent/memory.py` 1715-1992, `agent/loop.py` 555-760 | one session: objects, cache, file, turns, consolidations, summary, `/new`, recall, restart |
| `AgentTurn`, `MCAgentTurn` | `agent/graph.py`, `agent/state.py`, `agent/loop.py` 555-829, `session/manager.py` 56-201, `agent/tools/message.py` | the inside of a turn: history, prompt, model and tool calls, what is saved, whether a reply is sent |
| `CircuitBreaker` | `providers/circuit_breaker.py` | the breaker as a record and its operators |
| `ModelCalls`, `MCModelCalls` | `providers/base.py` 224-290, `providers/litellm_provider.py` 238-337 | concurrent calls with retries that share one breaker |
| `ModelCallsProofs` | | theorems about `ModelCalls` |
| `SessionStoreProofs` | | theorems about `SessionStore`: its types, then its safety properties |
| `AgentTurnProofs` | | theorems about `AgentTurn` |
| `CronServiceProofs` | | theorems about `CronService` |
| `ChannelsProofs` | | theorems about `Channels`, for every adapter |
| `MemoryProofs` | | theorems about `MemoryStore` and the operators of `MemoryGraph` |
| `NatLemmas` | | facts about natural numbers, finite sets of them and recursive functions for the proofs |
| `CronService`, `MCCronService` | `cron/service.py`, `cron/types.py` | the scheduler, its timer task, its file and another process |
| `ChannelBase` | `channels/base.py`, `channels/manager.py`, `bus/*` | what every adapter stands on: `_handle_message`, the queues, the dispatcher with its timeout, the agent loop as a channel sees it |
| `AccessToken` | `channels/dingtalk.py` 248-274, `channels/wecom_selfbuilt.py` 320-348 | the access token of two platforms, against time and the send timeout |
| `TelegramChannel`, `DiscordChannel`, `MatrixChannel`, `FeishuChannel`, `DingTalkChannel`, `EmailChannel`, `SlackChannel`, `QQChannel`, `WhatsAppChannel`, `WecomChannel`, `WecomSelfbuiltChannel`, `MochatChannel` | the file of that name in `channels/` | one adapter each |
| `Channels`, `MCChannels` | `channels/manager.py` | any one of the adapters against the host; the properties |
| `MemoryGraph` | `agent/memory.py` 173-1225 | the graph as operators: preparing, adding, merging, expiring, protecting, indexing, showing |
| `MemoryStore`, `MCMemoryStore` | `agent/memory.py` 1364-1791, `agent/tools/memory_feedback.py` | consolidations over the graph and the files, corrections, deletions, searches, crashes |

### AgentLoop

A message is known by its index in `sent`; the task it starts has the same
number. `pc[i]` is where the task stands: `wait` (at `async with lock`),
`prepare` (consolidation, attachments), `context` (the history is read, the
embedding of the message is awaited), `graph`, `asking` (waiting for approval),
`reply`, `notice`, `done`. `loop` is where `run` stands: at the queue, inside
`_handle_stop` (awaiting the cancelled tasks, then the subagents) or publishing
a reply. `cancel` is the set of tasks with a cancellation requested: it lands at
the task's next step (`CancelledTask`) or, if the turn is at its end, may come
too late. `saved` and `read` are what is needed to speak of serialization: the
turns saved into each session, and how many of them a turn found in its history.

Each branch of `run` is an action (`HandleRecall` ... `Dispatch`) with the
branch conditions in the order of the code: a message is looked at only by the
branches that the earlier ones let through. Keys are as in the code: the lock
and the task list use `InboundMessage.session_key`, which for a subagent's
announcement starts with `system:`, while the session is looked up by the
original chat.

Abstractions: a turn's tool calls run one after another (`graph.py` 135-160),
and only those that spawn or ask for approval change anything here. The prompt
of an approval is published and its event stored in one step; the code reads
the chat before a blocked publish and the key after it. Which commands need
approval is a free choice. Subagents are a finite set of identities. Long-lived
waits (turn timeout, approval timeout) may fire at any time.

### SessionStore

`heap` holds every Session object ever created, `cache` points at one of them,
`disk` is the file: this is what is needed to see a coroutine save an object
that is no longer the cached one. A turn adds two messages, a user message and
an answer (a subagent's result has the assistant role). `lock` is two locks, as
in `AgentLoop`: one for the turns of chat messages, one for those of subagents'
results, so turns of the two kinds overlap in one session. Token counts are not
modelled: consolidation may stop at any time and picks any boundary that
`pick_consolidation_boundary` can return. `archived` counts how often each
message was archived. `expected` is a history variable: what users have put
into the session and left in it.

### CronService

`mem` and `file` are the jobs in memory and in `jobs.json`, `dirty` says that
the file's mtime is not the one remembered. The timer is asleep, running or
absent; a running one remembers the due times of the jobs it still has to run
and the one whose turn it awaits. `Arm` replaces the timer whatever it is doing,
as `_arm_timer` cancels its task. A job is absent or has a flag, a time and a
next run. Cron expressions and time zones are abstracted to a period.

### AgentTurn

`AgentLoop` takes the graph of a turn as one place, `SessionStore` a turn as two
messages. This module opens both: a turn is at the model, at a tool call or at
its end; `new` is what it has added to its prompt, `cut` how many messages of
the history the prompt left out. A message is its role, its turn, the iteration
of the model call and a number: how many calls an assistant message makes, or
which of them a result answers; together they stand for the ids of the calls.

One chat, because the message tool's record of a chat and the session of a chat
are independent of other chats. Three kinds of turns: `user` (serialized by the
session's lock), `system` (a subagent's result, which does not call
`start_turn`) and `direct` (cron and heartbeat write to the chat but keep their
history elsewhere; only their part in the message tool is followed). The module
has a single `Session` object: stale objects are the subject of `SessionStore`.
`Filtered` keeps any of the older units, since their score depends on the text.
The record `_sent_in_turn_var` of the message tool is set inside the graph,
whose nodes run in copied contexts, so the turn that asks at its end sees only
`_sent_targets`: this is the variable `sent`. `told` is a history variable.

### ModelCalls

A caller is `ready` to make an attempt, in a `request`, in `backoff`, or `idle`
between calls. The breaker is asked when a request is sent and told when it
ends, in whatever state it is by then. The service is healthy or not; a request
can fail only if the service was not healthy when it was sent or is not when it
ends. Time is a coarse clock: the breaker's time since its last failure and the
remaining delay of each caller. `streak` is a history variable: how many of the
latest outcomes, of any call, were of one kind.

### ChannelBase, the adapters and Channels

An event is what the platform has for the bot: its chat, whether the sender is
allowed, whether the chat is direct, whether it names the bot, carries a file,
belongs to an album or is a command. `pending` counts the deliveries the
platform has left: `Traffic` lists the combinations, and only the platforms in
`Again` (those whose adapters remember ids, and Email) get a second one.
`self` is the record of the channel object's attributes; a handler that stands
at an await is a record in `tasks`. `snd` is the one call of `channel.send` the
dispatcher awaits, with what is left of it to do; a part that the user sees is
added to `shown`, and `cut` holds the sends that an exception or the timeout
ended. The agent loop is reduced to what a channel can tell: it takes a message,
may report progress, answers with up to two files, with or without text, or
drops the message for a newer one of its chat.

The variables are those of `ChannelBase` for all adapters, so `Channels` is a
disjunction of twelve INSTANCEs, guarded by the name of the enabled one. One
channel is enabled at a time: adapters share nothing but the bus.

What the modules keep of each adapter is the order of its awaits: when an id is
remembered, when a typing notice, a buffer or a cursor is set and who ends it,
which failures of a send are swallowed, which end it, and which leave a thread
behind. Formatting and the content of media are left out; a download succeeds
or fails.

### MemoryGraph and MemoryStore

`MemoryGraph` has no variables: a graph is a sequence of nodes (their positions
matter to the index) and a set of edges, and the methods are operators. A text
is the number of the telling it comes from, 0 for the fixed text of a container,
`Hidden` for a placeholder of a secret. A node has the three texts that the
code keeps apart: `summary`, `shown` (`expanded_context_text`) and `cipher`;
`embedding` says which text was embedded. A long text becomes two chunks that
replace the node. `versions` keeps of a replaced text its summary and its
ciphertext, as the code does. The ANN index is a function from positions (the
labels given to hnswlib) to the ids of the nodes that were there (`_index_ids`);
`AnnSearch` is what those positions give later. The search by words, the
expansion through the hierarchy and the ranking only read the graph and are left
out.

`MemoryStore` keeps the files in one record. Every operation on the graph reads
`graph.json` first and saves before it returns, without an await, so the file
stands for the copies in memory; what is kept in memory only is the ANN index
of the store that searches, which the stores that consolidate never mark dirty.
A consolidation reads `MEMORY.md`, waits for the model, waits for the
embeddings, then writes graph, edges, profile, archive and `MEMORY.md` without
an await: `Stores`. `StoresInPart` is the exception in `add_edges`,
`CrashInside` the end of the process between two of the files. The model's
`memory_update` is the whole text of `MEMORY.md` as it would have it, so
`WriteLongTerm` writes any part of what the consolidation read, with the new fact
or without (`Updates`). `written`, `amended` and `shrunk` are history variables:
when a node was last told, its last correction, and whether a node was removed
since the index was built.

## 3. Runs

Bounds are in the `.cfg` files and are constants of the modules.

| run | states | shows |
|---|---|---|
| `AgentLoopTurns` | 2.58 million | `LockMatchesTurn`, `NoOrphanTask`, `UserTurnsSerialized`, `StopEndsTurns`, `TypeOK`, `OneYesOneGrant` and the refinement `SerialTurnsSpec` |
| `AgentLoopLive` | 47 thousand | `LoopComesBack`, `TasksEnd` under fairness |
| `SessionTurns` | 3.34 million | `TypeOK`, `SessionHoldsTurns`, `HiddenIsArchived`, `ArchivedOnce`, `HistoryStartsWithUser`, `NothingReturns`, `CacheMatchesDisk` |
| `CronJobs` | 1.57 million | `TimerCoversJobs`, `CompletedNotRepeated`, `SavedBetweenTicks`, `SaveKeepsOtherJobs` and, under fairness, `DueJobRuns`, with a second process on the file |
| `AgentTurns` | 1.65 million | `HistoryLegal`, `SavedCallsAnswered`, `SilentOnlyIfTold` |
| `ModelCalls` | 48 thousand | `TypeOK`, `BreakerJustified` and, under fairness, `BreakerRecovers`, `CallsReturn` |
| `Channels` | 2.90 million | `TypeOK`, `PublishedOnce`, `TypingOwed`, `PartsTogether`, `FailureShown`, `TokenValid`, `KeptOrPublished`, `CursorAdvances` |
| `Memory` | 1.62 million | `KeptWhileFresh`, `IndexedIsFound`, `ReplacedIsKept` |
| `SameSessionSerialized`, `SavedTurnsWhole`, `OneTimeRunsOnce`, `CorrectionShown` | | each finds the violation described in section 6 |

Conditions in the properties are part of what they say. `SessionHoldsTurns`,
`HiddenIsArchived`, `ArchivedOnce` and `HistoryStartsWithUser` speak of a session
in which no message was recalled and no `/new` was given (`Edited` is the
opposite), crashes included: a recall or `/new` renumbers what the offset of a
consolidation that is under way points into. `SessionHoldsTurns` also excepts the
messages that `_save_turn` skips next to a running summary (`Skipped`, section 6).
`NothingReturns` speaks of runs with at most one `/new` (section 6 says what a
second one does); `CacheMatchesDisk` has no condition.
`TimerCoversJobs`, `CompletedNotRepeated` and `DueJobRuns` speak of histories in
which no other process has changed the file (`outside`). `TypingOwed` excepts a
stranger in Telegram, where the notice is never ended, and `KeptOrPublished` what
a cancelled Mochat worker had in hand: these are faults of the code (section 6).
`IndexedIsFound` speaks of the time until a node is removed, and `ReplacedIsKept`
excepts a secret told over a secret: beyond these the code does not hold them
(section 6).
The type invariants of `AgentTurn`, `CronService` and `MemoryStore` are not run:
they are proved, and TLC found no error with them on the same instances.

*Why the bounds are enough to be interesting.* Three messages in two chats give
one turn that runs, one that waits for its lock and one control message, or a
chat turn, a direct turn and a subagent's announcement; the inbound queue of two
and the outbound queue of one are full in many states, so every publish is seen
blocking. In `SessionTurns` three turns give one boundary inside the history for
each of two consolidations that compete for the lock; running summaries are
asked for and the history is shortened from a length of 1 on (the code has 20 and
12), so that a turn next to a summary happens within three;
`/new`, one recall or one crash (`MaxUpsets`, one of either), three turns and
failing consolidations give stale objects of every kind. `CronJobs` has one job of each kind, a second
process, a stop and four changes, and a clock that allows a recurring job to be
due again; histories without the second process are among its behaviours. In `AgentTurns` a response makes two calls, so that a session
can be cut between their results; with two iterations a turn can end at the
bound, and the constants of the history (3, 3, 7 and 5 where the code has 12, 20,
20 and 6) let it be shortened, summarized and filtered within three turns.
`HistoryLegal` is evaluated while no turn is open, which loses nothing because
every turn can be aborted without touching the session. `ModelCalls` has two
callers, a threshold and a half-open quota of two, and two delays instead of
three, so requests end in every state of the breaker. In
`Channels` both queues hold one message, so every handler is seen waiting for room
and every turn waiting to answer; the six traffics pair a repeated message with an
album, an album of two parts, a command beside a text, a mention beside a message
that is not for the bot, and a stranger. Three ids are remembered where the
adapters have hundreds, more than the messages of one traffic: the window itself
never forces a repetition here, the order of remembering and publishing can. Two
messages may be notified by Mochat as well as pushed (`Noticed`). The token lives
four ticks with a margin of two and a send timeout of one, the code's order of
these times (7200 s, 60 s, 30 s). In `Memory` two consolidations, one correction
and two upsets (deletions, corrections, restarts) meet on one source of one
project and one category; the index is built from two nodes on (50 in the code),
one replaced text is kept (5), and two days are enough to become stale and to be
deleted (30 and 90). The store may begin with up to two failures counted, so the
dump of the third is reached. The chats of `AgentLoop` are symmetric and are declared so,
except in the liveness run, which has one chat.

*Deadlock* is checked in `ModelCalls`, which never rests. Elsewhere it is not: these runs are bounded (messages, turns, clock), and the
program itself rests when nothing arrives. That nobody waits for ever is what
`LoopComesBack`, `TasksEnd`, `DueJobRuns` and `CallsReturn` say.

*Fairness.* One event loop runs every coroutine that can go on, so `run`, each
turn, each subagent and the timer task get weak fairness. A turn ends because
`turn_timeout_s` cancels it (`loop.py` 475-484, 842-848), hence weak fairness
of `TurnAborts`. The channel manager's dispatcher bounds every send with
`send_timeout_s`, hence weak fairness of `ConsumeOutbound`; it is started only
if a channel is enabled (`channels/manager.py` 77-79), which liveness assumes.
For cron, time passes and a stopped service is started again. In `ModelCalls`
time passes, a request ends because it has a timeout, and callers keep calling:
the heartbeat makes a call in every period, so an open breaker is looked at
again. Nothing a user or
a model decides is fair.

Each property of a passing run has a mutant: a definition changed the way a
plausible bug would change the code, under which TLC finds the property violated
in the same run. The changed forms stand next to the definitions, marked
`Mutant:`.

## 4. Proofs

`AgentLoopProofs` proves, for any chats, queue sizes, numbers of messages and
subagents allowed by the assumptions `LoopAssumption`:

| theorem | property | argument |
|---|---|---|
| `TypeCorrect` | `TypeOK` | `TypeInv`, which adds to the types: only known messages are queued (`TasksKnown`), the loop's message is a sent one (`LoopKnown`), and a turn in the graph implies that `bind` has run (`BoundKnown`), without which the shared fields could be unset when a turn asks |
| `LocksAreHeldByTurns` | `LockMatchesTurn` | inductive together with `TypeInv` |
| `TurnsAreSerialized` | `UserTurnsSerialized` | `TurnsInv`: a saved turn has nothing left to do (`SavedAreOver`), a turn that waits is later than all saved ones of its key (`WaitersAreLater`), a turn that holds the lock and has read its history has read all of it (`UnsavedHaveRead`); rests on the queue being in order (`QueueInOrder`) and on `LockMatchesTurn` |
| `ImplementsSerialTurns` | `SerialTurnsSpec` | step by step: `StartTurn` is `Begin`, `SaveTurn` of the lock's holder is `Commit`, the ends of a task are `End`, `Exec` is `Restart`, everything else stutters |
| `GrantsNeedYes` | `OneYesOneGrant` | `GrantsCovered`: per key, the grants so far and the yes that is stored are covered by the yeses given |
| `NoTaskIsOrphaned` | `NoOrphanTask` | `ListedIsLive` and `LiveIsListed` are inductive with `CoreInv` |
| `StopEndsTheTurns` | `StopEndsTurns` | `StopInv`: while `_handle_stop` waits, the dispatcher starts nothing, so what was live under the key stays cancelled or awaited |

`ModelCallsProofs` proves, for any callers, delays and thresholds
(`BreakerAssumption`, `CallsAssumption`):

| theorem | property | argument |
|---|---|---|
| `BreakerIsJustified` | `BreakerJustified` | `CountsCovered`: the breaker's counts of failures (while it is closed) and of probes (while it is half-open) never exceed the streak of outcomes of that kind |
| `CallsTypeCorrect` | `TypeOK` | inductive; an attempt is only added to while it is below the last |

None of the properties is inductive by itself: `UserTurnsSerialized`, for one,
speaks of saved turns only and says nothing of a turn that waits and will be
saved next. The shape is the usual one: `Init => Inv`,
`Inv /\ [Next]_vars => Inv'`, and the property from `Inv`, the temporal step by
`PTL`. `StepOfNext` reduces `Next` to the actions once, so that each lemma
treats only the actions that disturb its conjunct.

`SessionStoreProofs` proves, for any number and kinds of
turns, recalls, failures and restarts (`StoreAssumption`):

| theorem | property | argument |
|---|---|---|
| `StoreTypeCorrect` | `TypeOK` | `TypeInv` adds what coroutines hold: an object that exists (`TurnOK`, `JobOK`), and the lock while they are inside |
| `CacheFollowsFile` | `CacheMatchesDisk` | `CacheInv`: a cached object equals the file, also after a coroutine has saved an object that it got before |
| `WhatIsTakenOutStaysOut` | `NothingReturns` | `ReturnsInv`: objects which one `/new` has separated share no message, and what each holds is among the messages the user has left in; `MessagesInv` keeps the messages of a turn that is still open out of all of them |
| `SavedTurnsStay` | `SessionHoldsTurns` | `SingleInv`: until a `/new` there is one object, and it is the file; then `KeptInv`, save by save |
| `OffsetAtUserMessage` | `HistoryStartsWithUser` | `OffsetInv`: the chunk of the one consolidation that is inside its model call still lies right behind the offset, and a user message follows it |
| `NothingFallsBetween`, `ArchivesDoNotRepeat` | `HiddenIsArchived`, `ArchivedOnce` | `ArchivedInv`: a message under the offset has been archived at least once and at most once per restart more, any other at most once per restart |

`AgentTurnProofs` proves, for any turns, iterations, numbers of calls and lengths
of the history (`TurnAssumption`):

| theorem | property | argument |
|---|---|---|
| `TurnTypeCorrect` | `TypeOK` | inductive with the rest |
| `HistoriesAreLegal` | `HistoryLegal` | `get_history` looks for a legal start by going through the messages once (`LegalStart`). Invariant is `Contiguous`: while the results of a call come, nothing else does. With it the scan leaves no result whose call it has cut off (`LegalStartDeclares`), and the filter, which keeps or drops whole units, keeps this so (`UnitStartsStep`, `ResultsInUnit`, `PartDeclares`) |
| `CallsAreAnswered` | `SavedCallsAnswered` | `NewInv` says for each place of a turn which calls of `new` are still open: only the last, only among the tools; `SaveOK` and `RecallOK` carry it into the session (`SessionInv`) |
| `SilenceIsTold` | `SilentOnlyIfTold` | `ToldInv`: when the message tool's record names the chat, every open turn that it would silence saw the tool write |

`CronServiceProofs` proves, for any jobs, kinds, period and bounds
(`CronAssumption`):

| theorem | property | argument |
|---|---|---|
| `TypesAlways` | (`TypeInv`) | a tick awaits at most one of its jobs |
| `NoJobForgotten` | `TimerCoversJobs` | after every change `Arm` sets the timer by the jobs as they then are; a tick ends by arming |
| `AllSavedBetweenTicks` | `SavedBetweenTicks` | every change outside a tick ends with a save |
| `NoRunRepeated` | `CompletedNotRepeated` | `AloneInv`: a due time of a running tick or of a scheduled job is not among the completed ones; `CompletedIsPast`, because a new time lies after now |
| `SavesAreNarrow` | `SaveKeepsOtherJobs` | each command reads the file before it changes its one job |

`ChannelsProofs` proves, for any messages, deliveries and sizes of queues and
windows (`EventsNamed`, `TrafficBounded`, `AlbumsInOneChat`, `QueuesBounded`,
`WindowPositive`, `PollLimitPositive`, `TokenTimes`), with any one of the twelve
adapters enabled:

| theorem | property | argument |
|---|---|---|
| `TypesAlways` | `TypeOK` | `ChannelInv` = `HostOK` and the invariant of the adapter that is enabled. A step of any adapter is one of four steps of the host (`HostStep`: the agent's side, a message published, a send going on or ending, a restart), so `HostOK` is shown once (`HostTypes`) and each adapter only has to fit (`TelegramFits` ... `MochatFits`) |
| `TokenAlwaysValid` | `TokenValid` | `Fresh` and `Holding`: what a send holds was good for `TokenMargin` when it began, and has aged no more than the send has spent. Hypotheses: `SendTimeout <= TokenMargin` (30 s and 60 s in the code) and `SendTimeout < TokenLife` |
| `SeenIsKept` | `KeptOrPublished` | `MochatKept`: an id is noted as seen in the same step that puts it in the hands of a coroutine, and each later step passes it on, to the buffer, to another coroutine or to the bus |
| `CursorNeverBack` | `CursorAdvances` | `MarkCursor` takes a larger number only; the file is at most the cursor |
| `FilesAreTold` | `FailureShown` | `FilesInv`: what is left to do has, in one block, as many files and notes as are neither told of nor failed |
| `TypingAlwaysOwed` | `TypingOwed` | `TypingInv`: what will end the typing of a chat is passed on from handler to queue, turn, reply and send; inside a send, the steps that lead to the end are still ahead; a buffered part belongs to the album whose flush task has it (`AlbumsKept`), and an album to one chat, whose id is part of its key (`AlbumsInOneChat`) |
| `EachPublishedOnce` | `PublishedOnce` | `OnceInv`: what the handlers have in hand is noted, distinct and not published yet (`Single`), for Mochat what is published, in the buffer and in the hands of each coroutine are disjoint (`MochatOnce`), for Slack a mention counts in one of its two events. Hypothesis: no more different messages come than a window has room for, so that none is forgotten (`AllRemembered`); an older one that came again would be published again |
| `PartsStayTogether` | `PartsTogether` | `InOrder`: what is sent is the latest that is shown (`SendLast`), the replies in the queue differ from each other and from all that was taken, progress first (`Queued`), a turn has not answered and a waiting message has no turn (`Answering`, `Waiting`); a part that appears late is of a send that ended early (`SendStep`). Proved once for the host, since every adapter fits it |

`MemoryProofs` proves, for any sources, projects, categories and answers, any
ages, versions and number of consolidations (`GraphAssumption`, `StoreAssumption`;
`NamesAssumption`: sources, projects, categories and scopes have different ids, as
the prefixes of the ids in the code make them):

| theorem | property | argument |
|---|---|---|
| `TypesAlways` | (`TypeOK`) | `MemoryInv`. A graph is a sequence of nodes with ids of their own (`Graphs`); `Told` says what one telling makes of it: `add_nodes` only appends or merges (`AddNodes` is a recursive function, taken step by step with `NatLemmas`), chunks replace their node by two of its source, expiry and the noise filter only leave nodes out (`SelectedOnes`) |
| `FreshAlwaysKept` | `KeptWhileFresh` | `TellingsDated`: the day a node was last seen is the day of its last telling, and memories are about sources, so what expires is old; a container is never expired, filtered or cut |
| `ReplacedAlwaysKept` | `ReplacedIsKept` | a merge or a correction puts the replaced text at the end of `versions`, and shortening that list leaves the end; a new text that is not plain is `Sealed` (only a placeholder has a ciphertext beside it), so what a merge takes away is seen by `_has_conflict` unless both are placeholders; expiry changes only marks (`Alike`) |
| `IndexAlwaysRight` | `IndexedIsFound` | `add_nodes` and corrections leave every node at its position (`InPlace`), so does an expiry in which no node is old enough; a removal is what `shrunk` notes |

`NatLemmas` has what the library states for predicates only, as facts about sets:
the least number of a set, induction from one number to another, that a function
with a first value and a step exists, the greatest number of a finite set and
that its members can be listed in order. With them the proofs speak of the
recursive functions of the model (`LegalStart`, `UnitStarts`, `AddNodes`) at every length.

The strengthened invariants were checked by TLC on the instances of the runs
before they were proved, where TLC can evaluate them.

`StopEndsTurns` is proved for `/stop`, interrupts and subagents; the run
`AgentLoopTurns` has no subagents and no interrupts, `AgentLoopLive` has both.

Only model-checked: liveness (`LoopComesBack`, `TasksEnd`, `DueJobRuns`,
`BreakerRecovers`, `CallsReturn`), since fairness and ENABLED are outside the
prover. Every other property of a passing run is proved. No module that is run has a RECURSIVE
operator. Folds and `SelectSeq` of the libraries take operators and are opaque to
the prover, so the graph is written with recursive functions and with `Selected`,
which rests on `FlattenSeq`.

## 5. Plan

In this order, the most important behaviour first:

1. `AgentLoop` with `ApprovalManager`, `SubagentManager`, `SerialTurns`: done, proved.
2. `SessionStore`: done, proved.
3. `CronService`: done, proved (its liveness is model-checked).
4. The inside of a turn and the model calls, `AgentTurn` and `ModelCalls`: done,
   proved (the liveness of `ModelCalls` is model-checked).
5. The channel adapters against bus and dispatcher: done, proved.
6. The memory: done, proved.
7. The command sandbox's pipe (`sandbox/client.py`) against an abstract
   request/answer specification.
8. Cron delivery and the heartbeat with the target they pick, over two chats.
9. The context budget and the compression of tool results, against reference
   definitions over bounded inputs.

## 6. Where the code differs from what is said of it

- README: "Same-session work is serialized." A subagent's result is a turn of
  the chat's session under another lock, so the two overlap
  (`SameSessionSerialized`). For the turns that chat messages start it holds
  (`UserTurnsSerialized`, proved).
- `_save_turn`: "Save new-turn messages into session". With a running summary the
  prompt holds the last 12 messages of the history, but the turn skips
  `1 + len(history)` messages (`agent/loop.py` 718), so as many new messages are
  lost as the prompt left out (`SavedTurnsWhole`). What is saved of such a turn
  still leaves no call open and gives no illegal history (`CallsAreAnswered`,
  `HistoriesAreLegal`).
- Cron skill: a one-time job runs once. A change of any job while it runs
  cancels the tick, and the job is started again (`OneTimeRunsOnce`).
- Feedback tool: "Use 'correct' when the user provides the correct information to
  replace a memory." A correction replaces the summary; prompts show
  `expanded_context_text`, which keeps the old text (`CorrectionShown`).

Seen while modelling, part of the model, without a run of their own:

- README: approval routing is task-local. The manager prefers fields that the
  last `bind` of any turn has set (`security/sandbox.py` 169), so a turn's
  request can be stored under another session's key.
- `Session`: consolidation does not modify the messages list. A consolidation
  that was waiting for the model when `/new` came saves the object it holds and
  so replaces what the reloaded session has written since
  (`agent/memory.py` 1926). What it brings back is nothing that `/new` removed
  (`NothingReturns`) unless a second `/new` is given: that one empties only one of
  the two objects then in use.
- `archive_messages` promises persistence: the failure counter is shared by all
  sessions, so three attempts can fail without a dump when another session's
  success resets it.
- Memory skill: "Auto-expires non-structural nodes after 30 days."
  (`skills/memory/SKILL.md` 16). The code marks such a node stale after 30 days and
  deletes it after 90 (`agent/memory.py` 970-988). `KeptWhileFresh` speaks of the
  90 days of the code (`HardDelete`), and `stale` is set from `MaxAge` on.
- A secret told over a secret: both summaries are the same placeholder (589), so
  `_has_conflict` sees nothing (547-551), and the merge overwrites the ciphertext
  (910). The older secret is lost without a version and without a mark.
- `MEMORY.md` is replaced by the text the model returns for the file it was shown
  (1755-1762). A fact the model leaves out, or one that another session's
  consolidation wrote during the call, is gone. No property promises otherwise.
- README: retrieval by similarity. With an index there is no threshold, whatever
  is nearest comes back. `add_nodes` says "force ANN index rebuild on next search"
  (901), but marks the store of the consolidator, not the one that searches;
  deletion, correction and expiry mark none. So what is told later is missing from
  the index until a restart, and after a removal its positions give other nodes.
  Until then they are right (`IndexedIsFound`).
- A secret told again in plain words keeps its old ciphertext, and retrieval
  restores the old text over the new one. The conflict mark stays after a
  correction. A node that is corrected, or told again by a consolidation that stops
  half way, keeps its `stale` mark until the next whole consolidation.
  `MEMORY.secure.json` is replaced each time and read by nobody.
- The model's summary of a project is overwritten by the fixed text of the project
  node when a later telling brings the container again.
- Telegram starts the typing notice before it asks whether the sender is allowed,
  and nothing ends it. A Mochat worker that is cancelled while the bus is full
  loses a message whose cursor is already saved. Slack without its own id forwards
  a mention twice. Discord tells of failed files only in a reply without anything
  else; Matrix ignores a refused message, Feishu and Slack a failed file.

## 7. Not modelled, and why

- The text of prompts, replies, logs and archives; token counts; embeddings and
  retrieval scores: no property speaks of them.
- Crashes inside a write of a file: writes are atomic in the model.
- Of the adapters: `stop`, the discovery of new Mochat sessions and panels, recalls
  and deletions, the formatting of markdown and cards, the content of media, their
  decryption and transcription. Of the channel manager: the start and stop of
  several channels; without an enabled one nothing empties the outbound queue
  (`channels/manager.py` 77), which the runs assume does not happen.
- Of the memory: the search by words (it drops words of one character), the
  expansion of a result through the hierarchy, ranking, boosts and the limits of what
  is found and shown (`top_k`, `max_entries`), access counts, the audit file,
  embeddings as numbers.
- Smaller steps than the model's: `EndTask` takes a task off `/stop`'s list as it
  ends, the callback does so one turn of the event loop later. An empty answer to a
  Mochat subscription or watch does nothing in the model; the code may end the cold
  start of its sessions with it (`mochat.py` 694-703). Only sends use DingTalk's
  token, the download of a file (`_download_dingtalk_file`) does not. A consolidation
  of `SessionStore` fails before or after its archive, which is `HISTORY.md`; the
  half stored graph is `MemoryStore`'s.
- The sandbox pipe and the heartbeat: in the plan above. Tools other than message,
  cron and memory feedback: I/O. The context builder: text and sizes. The providers
  without the circuit breaker keep no state between calls.
- Known to be fragile, in the model but without a property: a message dropped for a
  newer one of another session (`loop.py` 408), approvals of direct turns that no
  chat message can answer (338), the running summary that survives `/new`
  (`session/manager.py` 203), one-time jobs missed while the process was down
  (`cron/service.py` 197), half-open requests without a limit
  (`providers/circuit_breaker.py` 95). Not in the model: the older text a turn
  answers with after an error (`loop.py` 274), the target the heartbeat picks twice
  (`cli/commands.py` 891).
- What `get_history` promises is checked; that the prompt is legal is not, since
  next to a running summary the code cuts it without a repair.
- `CronService.run_job` and `MemoryConsolidator.consolidate_recent_turn`: no
  caller in the program.
- `config`, `cli` beyond the start of the services, `evals`, `skills`,
  `templates`, `bridge`: read-once data, user interface, offline scoring,
  documents, or a separate program.
