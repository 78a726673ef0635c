----------------------------- MODULE AgentLoop -----------------------------
(***************************************************************************)
(* The dispatcher of src/nanobot/agent/loop.py: one coroutine (run) takes  *)
(* messages off the inbound queue, handles control messages itself, and    *)
(* starts a task per ordinary message.  A task waits for the lock of its   *)
(* key, runs one turn (history, model and tool calls, approvals, save) and *)
(* publishes the reply.  Subagents post their result back to the inbound   *)
(* queue; process_direct (cron, heartbeat, CLI) runs turns of its own.     *)
(*                                                                         *)
(* A step is what runs between two awaits of the code; where an await may  *)
(* return at once the model still allows other steps in between.           *)
(***************************************************************************)
EXTENDS Naturals, Sequences, ApprovalManager, SubagentManager

CONSTANTS
  Kinds,      \* the kinds of message the chats send
  MaxMsgs,    \* bound: messages, announcements and direct turns of a run
  InMax,      \* maxsize of the inbound queue
  OutMax,     \* maxsize of the outbound queue
  MayAsk,     \* the sandbox policy answers NEEDS_APPROVAL for some tool
  MayDirect   \* process_direct is used (cron, heartbeat)

ChatKinds == {"text", "command", "yes", "no", "interrupt", "stop", "recall", "restart"}
AllKinds == ChatKinds \cup {"system", "direct"}

ASSUME LoopAssumption ==
  /\ MaxMsgs \in Nat /\ Tasks = 1 .. MaxMsgs
  /\ NoTask \notin Tasks
  /\ InMax \in Nat \ {0} /\ OutMax \in Nat \ {0}
  /\ Origins = Chats /\ NoKey \notin SessionKeys /\ CronKey \notin Chats
  /\ Kinds \subseteq ChatKinds
  /\ {MayAsk, MayDirect} \subseteq BOOLEAN

VARIABLES
  sent,      \* the messages so far; a message is known by its index
  inbound,   \* bus.inbound
  outbound,  \* bus.outbound, each message as its chat
  loop,      \* where run() stands, for which message, awaiting which tasks
  pc,        \* where each turn's task stands
  cancel,    \* the tasks whose cancellation has been requested
  active,    \* _active_tasks
  lock,      \* the holder of each _session_locks entry
  read,      \* how much of its session's log a turn found in its history
  saved,     \* the turns saved into each session, in order
  skipped,   \* the messages dropped by _has_queued_for_session
  restarting \* _do_restart has been scheduled

busVars == <<sent, inbound, outbound>>
turnVars == <<pc, cancel, active, lock, read, saved>>
vars == <<busVars, loop, turnVars, skipped, restarting, approvalVars, subVars>>

-----------------------------------------------------------------------------
(* Keys.  A session is looked up by SessionKey; the lock and the active    *)
(* list by InboundMessage.session_key, which for a system message starts   *)
(* with "system:".                                                         *)

LockKeys == [source : {"user", "system"}, chat : Chats]

MsgKey(i) == [source |-> IF sent[i].kind = "system" THEN "system" ELSE "user",
              chat |-> sent[i].chat]

SessionKey(i) == IF sent[i].kind = "direct" THEN CronKey ELSE sent[i].chat

Locks(i) == sent[i].kind # "direct"

Live(i) == pc[i] \notin {"none", "done"}
InTurn == {"prepare", "context", "graph", "asking", "reply", "notice"}

\* Mutant: the lock wakes any waiter.
AnyWaiter(i) == pc[i] = "wait"

\* The task that asyncio.Lock wakes next: waiters queue in task order.
NextWaiter(i) ==
  /\ pc[i] = "wait"
  /\ \A j \in Tasks : pc[j] = "wait" /\ MsgKey(j) = MsgKey(i) => i <= j

LoopTypeOK ==
  /\ sent \in Seq([kind : AllKinds, chat : Chats]) /\ Len(sent) <= MaxMsgs
  /\ inbound \in Seq(Tasks) /\ outbound \in Seq(Chats)
  /\ loop \in [pc : {"get", "tasks", "cancelSubs", "subs", "publish"},
               msg : Tasks \cup {NoTask},
               tasks : SUBSET Tasks, subs : SUBSET Subagents]
  /\ pc \in [Tasks -> InTurn \cup {"none", "wait", "done"}]
  /\ cancel \subseteq Tasks
  /\ active \in [LockKeys -> SUBSET Tasks]
  /\ lock \in [LockKeys -> Tasks \cup {NoTask}]
  /\ read \in [Tasks -> Nat]
  /\ saved \in [SessionKeys -> Seq(Tasks)]
  /\ skipped \subseteq Tasks
  /\ restarting \in BOOLEAN

TypeOK == LoopTypeOK /\ ApprovalTypeOK /\ SubTypeOK

AtGet == [pc |-> "get", msg |-> NoTask, tasks |-> {}, subs |-> {}]

Init ==
  /\ sent = <<>> /\ inbound = <<>> /\ outbound = <<>>
  /\ loop = AtGet
  /\ pc = [i \in Tasks |-> "none"]
  /\ cancel = {}
  /\ active = [k \in LockKeys |-> {}]
  /\ lock = [k \in LockKeys |-> NoTask]
  /\ read = [i \in Tasks |-> 0]
  /\ saved = [k \in SessionKeys |-> <<>>]
  /\ skipped = {}
  /\ restarting = FALSE
  /\ ApprovalInit
  /\ SubInit

-----------------------------------------------------------------------------
(* The bus and the channels.                                               *)

PublishInbound(kind, chat) ==
  /\ Len(sent) < MaxMsgs
  /\ Len(inbound) < InMax
  /\ sent' = Append(sent, [kind |-> kind, chat |-> chat])
  /\ inbound' = Append(inbound, Len(sent) + 1)

PublishOutbound(chat) ==
  /\ Len(outbound) < OutMax
  /\ outbound' = Append(outbound, chat)

ChatSends(kind, chat) ==
  /\ PublishInbound(kind, chat)
  /\ UNCHANGED <<outbound, loop, turnVars, skipped, restarting, approvalVars, subVars>>

\* ChannelManager's dispatcher takes the next outbound message.
ConsumeOutbound ==
  /\ outbound # <<>>
  /\ outbound' = Tail(outbound)
  /\ UNCHANGED <<sent, inbound, loop, turnVars, skipped, restarting, approvalVars, subVars>>

-----------------------------------------------------------------------------
(* run(): one branch per kind of message, in the order of the code.        *)

Take(i) == loop = AtGet /\ inbound # <<>> /\ i = Head(inbound) /\ inbound' = Tail(inbound)

\* Mutant: the list is popped, the tasks are not cancelled.
ForgetActive(key) ==
  /\ active' = [active EXCEPT ![key] = {}]
  /\ UNCHANGED <<pc, cancel, lock, read, saved>>

\* _active_tasks.pop(key) and task.cancel() on each.
CancelActive(key) ==
  /\ cancel' = cancel \cup active[key]
  /\ active' = [active EXCEPT ![key] = {}]
  /\ UNCHANGED <<pc, lock, read, saved>>

LoopAt(step, i) == loop' = [AtGet EXCEPT !.pc = step, !.msg = i]

HandleRecall(i) ==
  /\ Take(i) /\ sent[i].kind = "recall"
  /\ CancelActive(MsgKey(i))
  /\ LoopAt("cancelSubs", i)
  /\ UNCHANGED <<sent, outbound, skipped, restarting, approvalVars, subVars>>

HandleStop(i) ==
  /\ Take(i) /\ sent[i].kind = "stop"
  /\ CancelActive(MsgKey(i))
  /\ loop' = [AtGet EXCEPT !.pc = "tasks", !.msg = i, !.tasks = active[MsgKey(i)]]
  /\ UNCHANGED <<sent, outbound, skipped, restarting, approvalVars, subVars>>

HandleRestart(i) ==
  /\ Take(i) /\ sent[i].kind = "restart"
  /\ LoopAt("publish", i)
  /\ UNCHANGED <<sent, outbound, turnVars, skipped, restarting, approvalVars, subVars>>

\* The branches below see only what the ones above let through.
Ordinary(i) == Take(i) /\ sent[i].kind \notin {"recall", "stop", "restart"}

Pending(i) == MsgKey(i).source = "user" /\ HasPending(sent[i].chat)

HandleApprovalReply(i) ==
  /\ Ordinary(i) /\ Pending(i) /\ sent[i].kind \in {"yes", "no"}
  /\ Respond(sent[i].chat, sent[i].kind)
  /\ UNCHANGED <<sent, outbound, loop, turnVars, skipped, restarting, subVars>>

RemindPending(i) ==
  /\ Ordinary(i) /\ Pending(i) /\ sent[i].kind \notin {"yes", "no"}
  /\ LoopAt("publish", i)
  /\ UNCHANGED <<sent, outbound, turnVars, skipped, restarting, approvalVars, subVars>>

HandleInterrupt(i) ==
  /\ Ordinary(i) /\ ~Pending(i) /\ sent[i].kind = "interrupt"
  /\ CancelActive(MsgKey(i))
  /\ LoopAt("publish", i)
  /\ UNCHANGED <<sent, outbound, skipped, restarting, approvalVars, subVars>>

\* inbound_size counts the messages of every session.
HasQueuedForSession(i) == Len(inbound) > 1 /\ active[MsgKey(i)] # {}

SkipQueued(i) ==
  /\ Ordinary(i) /\ ~Pending(i) /\ sent[i].kind # "interrupt"
  /\ HasQueuedForSession(i)
  /\ skipped' = skipped \cup {i}
  /\ UNCHANGED <<sent, outbound, loop, turnVars, restarting, approvalVars, subVars>>

Dispatch(i) ==
  /\ Ordinary(i) /\ ~Pending(i) /\ sent[i].kind # "interrupt"
  /\ ~HasQueuedForSession(i)
  /\ pc' = [pc EXCEPT ![i] = "wait"]
  /\ active' = [active EXCEPT ![MsgKey(i)] = @ \cup {i}]
  /\ UNCHANGED <<sent, outbound, loop, cancel, lock, read, saved,
                 skipped, restarting, approvalVars, subVars>>

\* Mutant: the cancelled tasks are not awaited.
StopNotAwaited ==
  /\ loop.pc = "tasks"
  /\ loop' = [loop EXCEPT !.pc = "cancelSubs"]
  /\ UNCHANGED <<busVars, turnVars, skipped, restarting, approvalVars, subVars>>

\* _handle_stop has awaited every task it cancelled.
StopAwaited ==
  /\ loop.pc = "tasks"
  /\ \A t \in loop.tasks : ~Live(t)
  /\ loop' = [loop EXCEPT !.pc = "cancelSubs"]
  /\ UNCHANGED <<busVars, turnVars, skipped, restarting, approvalVars, subVars>>

CancelSubagents ==
  /\ loop.pc = "cancelSubs"
  /\ CancelBySession(sent[loop.msg].chat)
  /\ loop' = [loop EXCEPT !.pc = "subs", !.subs = SessionTasks(sent[loop.msg].chat)]
  /\ UNCHANGED <<busVars, turnVars, skipped, restarting, approvalVars>>

\* The gather returns; a recall is silent, /stop is acknowledged.
SubagentsAwaited ==
  /\ loop.pc = "subs"
  /\ \A s \in loop.subs : ~SubLive(s)
  /\ loop' = IF sent[loop.msg].kind = "stop" THEN [loop EXCEPT !.pc = "publish"] ELSE AtGet
  /\ UNCHANGED <<busVars, turnVars, skipped, restarting, approvalVars, subVars>>

\* The reply of a control message: stop, restart, interrupt or reminder.
Acknowledge ==
  /\ loop.pc = "publish"
  /\ PublishOutbound(sent[loop.msg].chat)
  /\ loop' = AtGet
  /\ restarting' = (restarting \/ sent[loop.msg].kind = "restart")
  /\ UNCHANGED <<sent, inbound, turnVars, skipped, approvalVars, subVars>>

\* os.execv, one second after /restart: queues, tasks and locks are gone,
\* sessions are on disk.
Exec ==
  /\ restarting
  /\ restarting' = FALSE
  /\ inbound' = <<>> /\ outbound' = <<>> /\ loop' = AtGet
  /\ pc' = [i \in Tasks |-> IF Live(i) THEN "done" ELSE pc[i]]
  /\ cancel' = {}
  /\ active' = [k \in LockKeys |-> {}]
  /\ lock' = [k \in LockKeys |-> NoTask]
  /\ ApprovalsLost
  /\ SubsLost
  /\ UNCHANGED <<sent, read, saved, skipped>>

-----------------------------------------------------------------------------
(* _dispatch and _process_message, for the task of message i.              *)

Goto(i, step) == pc' = [pc EXCEPT ![i] = step]
Runs(i, step) == pc[i] = step /\ i \notin cancel

\* Mutant: the turn does not wait for the lock to be free.
StartTurnUnlocked(i) ==
  /\ NextWaiter(i) /\ i \notin cancel
  /\ lock' = [lock EXCEPT ![MsgKey(i)] = i]
  /\ Goto(i, "prepare")
  /\ UNCHANGED <<busVars, loop, cancel, active, read, saved,
                 skipped, restarting, approvalVars, subVars>>

\* The lock is acquired; consolidation and attachments come next.
StartTurn(i) ==
  /\ NextWaiter(i) /\ i \notin cancel
  /\ lock[MsgKey(i)] = NoTask
  /\ lock' = [lock EXCEPT ![MsgKey(i)] = i]
  /\ Goto(i, "prepare")
  /\ UNCHANGED <<busVars, loop, cancel, active, read, saved,
                 skipped, restarting, approvalVars, subVars>>

\* process_direct: no lock, no entry in _active_tasks.
StartDirect(chat) ==
  /\ MayDirect /\ Len(sent) < MaxMsgs
  /\ sent' = Append(sent, [kind |-> "direct", chat |-> chat])
  /\ Goto(Len(sent) + 1, "prepare")
  /\ UNCHANGED <<inbound, outbound, loop, cancel, active, lock, read, saved,
                 skipped, restarting, approvalVars, subVars>>

\* /new, /help and an unsupported attachment return before the graph.
AnswerCommand(i) ==
  /\ Runs(i, "prepare") /\ sent[i].kind = "command"
  /\ Goto(i, "reply")
  /\ UNCHANGED <<busVars, loop, cancel, active, lock, read, saved,
                 skipped, restarting, approvalVars, subVars>>

\* get_history, and then the embedding of the message is awaited.
ReadHistory(i) ==
  /\ Runs(i, "prepare") /\ sent[i].kind \notin {"command", "system"}
  /\ read' = [read EXCEPT ![i] = Len(saved[SessionKey(i)])]
  /\ Goto(i, "context")
  /\ UNCHANGED <<busVars, loop, cancel, active, lock, saved,
                 skipped, restarting, approvalVars, subVars>>

\* Mutant: the approval context is not bound for the turn.
EnterGraphUnbound(i) ==
  /\ Runs(i, "context")
  /\ Goto(i, "graph")
  /\ UNCHANGED <<busVars, loop, cancel, active, lock, read, saved,
                 skipped, restarting, approvalVars, subVars>>

EnterGraph(i) ==
  /\ Runs(i, "context")
  /\ Bind(SessionKey(i), sent[i].chat)
  /\ Goto(i, "graph")
  /\ UNCHANGED <<busVars, loop, cancel, active, lock, read, saved,
                 skipped, restarting, subVars>>

\* A system message embeds nothing: history and bind without an await.
EnterSystemGraph(i) ==
  /\ Runs(i, "prepare") /\ sent[i].kind = "system"
  /\ read' = [read EXCEPT ![i] = Len(saved[SessionKey(i)])]
  /\ Bind(SessionKey(i), sent[i].chat)
  /\ Goto(i, "graph")
  /\ UNCHANGED <<busVars, loop, cancel, active, lock, saved,
                 skipped, restarting, subVars>>

\* The spawn tool: its ContextVars hold the turn's channel and chat.
SpawnSubagent(i, s) ==
  /\ Runs(i, "graph")
  /\ Spawn(s, sent[i].chat)
  /\ UNCHANGED <<busVars, loop, turnVars, skipped, restarting, approvalVars>>

\* The prompt goes to the bound chat, the wait under the bound key.
AskApproval(i) ==
  /\ MayAsk /\ Runs(i, "graph")
  /\ PublishOutbound(bound.chat)
  /\ Request(i)
  /\ Goto(i, "asking")
  /\ UNCHANGED <<sent, inbound, loop, cancel, active, lock, read, saved,
                 skipped, restarting, subVars>>

\* Approved or not, the graph goes on with a tool result.
ApprovalReturns(i) ==
  /\ Runs(i, "asking")
  /\ Answered(i) \/ Expired(i)
  /\ Goto(i, "graph")
  /\ UNCHANGED <<busVars, loop, cancel, active, lock, read, saved,
                 skipped, restarting, subVars>>

\* _save_turn and sessions.save, in one step.
SaveTurn(i) ==
  /\ Runs(i, "graph")
  /\ saved' = [saved EXCEPT ![SessionKey(i)] = Append(@, i)]
  /\ Goto(i, "reply")
  /\ UNCHANGED <<busVars, loop, cancel, active, lock, read,
                 skipped, restarting, approvalVars, subVars>>

\* asyncio.wait_for cancels the turn; a failed turn is reported the same way.
TurnAborts(i) ==
  /\ pc[i] \in {"prepare", "context", "graph", "asking"} /\ i \notin cancel
  /\ Goto(i, "notice")
  /\ Abandoned(i)
  /\ UNCHANGED <<busVars, loop, cancel, active, lock, read, saved,
                 skipped, restarting, subVars>>

\* Mutant: the lock is released only by a turn that was not cancelled.
EndTaskLeaks(i) ==
  /\ Goto(i, "done")
  /\ lock' = IF Locks(i) /\ lock[MsgKey(i)] = i /\ i \notin cancel
               THEN [lock EXCEPT ![MsgKey(i)] = NoTask] ELSE lock
  /\ active' = IF Locks(i) THEN [active EXCEPT ![MsgKey(i)] = @ \ {i}] ELSE active
  /\ UNCHANGED <<sent, inbound, loop, cancel, read, saved, skipped, restarting, subVars>>

\* The task is over: the lock is released, the done callback unlists it.
EndTask(i) ==
  /\ Goto(i, "done")
  /\ lock' = IF Locks(i) /\ lock[MsgKey(i)] = i
               THEN [lock EXCEPT ![MsgKey(i)] = NoTask] ELSE lock
  /\ active' = IF Locks(i) THEN [active EXCEPT ![MsgKey(i)] = @ \ {i}] ELSE active
  /\ UNCHANGED <<sent, inbound, loop, cancel, read, saved, skipped, restarting, subVars>>

\* A direct turn returns to its caller; a user turn that has used the message
\* tool returns None.
MaySayNothing(i) ==
  ~Locks(i) \/ (pc[i] = "reply" /\ sent[i].kind \notin {"system", "command"})

\* The reply or the error notice is published, or there is none.  A
\* cancellation that arrives with the finished turn may come too late.
FinishTask(i) ==
  /\ pc[i] = "reply" \/ Runs(i, "notice")
  /\ \/ Locks(i) /\ PublishOutbound(sent[i].chat)
     \/ MaySayNothing(i) /\ UNCHANGED outbound
  /\ EndTask(i)
  /\ UNCHANGED approvalVars

\* Mutant: a cancellation does not reach a task that waits for its lock.
CancelledInTurn(i) ==
  /\ pc[i] \in InTurn /\ i \in cancel
  /\ EndTask(i)
  /\ Abandoned(i)
  /\ UNCHANGED outbound

\* CancelledError reaches the task, at its lock or inside the turn.
CancelledTask(i) ==
  /\ Live(i) /\ i \in cancel
  /\ EndTask(i)
  /\ Abandoned(i)
  /\ UNCHANGED outbound

-----------------------------------------------------------------------------

SubagentEnds(s) ==
  /\ RunEnds(s) \/ CancelLands(s)
  /\ UNCHANGED <<busVars, loop, turnVars, skipped, restarting, approvalVars>>

SubagentAnnounces(s) ==
  /\ Announced(s)
  /\ PublishInbound("system", origin[s])
  /\ UNCHANGED <<outbound, loop, turnVars, skipped, restarting, approvalVars>>

RunLoop ==
  \/ \E i \in Tasks :
       \/ HandleRecall(i) \/ HandleStop(i) \/ HandleRestart(i)
       \/ HandleApprovalReply(i) \/ RemindPending(i) \/ HandleInterrupt(i)
       \/ SkipQueued(i) \/ Dispatch(i)
  \/ StopAwaited \/ CancelSubagents \/ SubagentsAwaited \/ Acknowledge

TurnStep(i) ==
  \/ StartTurn(i) \/ AnswerCommand(i)
  \/ ReadHistory(i) \/ EnterGraph(i) \/ EnterSystemGraph(i)
  \/ AskApproval(i) \/ ApprovalReturns(i) \/ SaveTurn(i)
  \/ FinishTask(i) \/ CancelledTask(i)

Next ==
  \/ \E kind \in Kinds, chat \in Chats : ChatSends(kind, chat)
  \/ \E chat \in Chats : StartDirect(chat)
  \/ ConsumeOutbound
  \/ RunLoop
  \/ Exec
  \/ \E i \in Tasks : TurnStep(i) \/ TurnAborts(i)
  \/ \E i \in Tasks, s \in Subagents : SpawnSubagent(i, s)
  \/ \E s \in Subagents : SubagentEnds(s) \/ SubagentAnnounces(s)

Spec == Init /\ [][Next]_vars

\* Every coroutine that can go on does (one event loop runs them all); the
\* turn timeout fires; the dispatcher keeps taking outbound messages.
Fairness ==
  /\ WF_vars(RunLoop) /\ WF_vars(ConsumeOutbound)
  /\ \A i \in Tasks : WF_vars(TurnStep(i)) /\ WF_vars(TurnAborts(i))
  /\ \A s \in Subagents : WF_vars(SubagentEnds(s))

FairSpec == Spec /\ Fairness

-----------------------------------------------------------------------------
(* Properties.                                                             *)

UserTurn(i) == sent[i].kind \notin {"system", "direct"}

\* A session lock is held exactly by the turn that runs under it: no path out
\* of _dispatch (reply, error, timeout, cancellation at any await) leaks it,
\* and two turns of one key never overlap.
LockMatchesTurn ==
  \A k \in LockKeys, i \in Tasks :
    lock[k] = i <=> (pc[i] \in InTurn /\ Locks(i) /\ MsgKey(i) = k)

\* Every task that runs or waits and has not been cancelled is listed under
\* its key, so /stop, an interrupt or a recall can reach it; what is listed
\* has not ended.
NoOrphanTask ==
  /\ \A i \in Tasks : Live(i) /\ Locks(i) /\ i \notin cancel => i \in active[MsgKey(i)]
  /\ \A k \in LockKeys : \A i \in active[k] : Live(i) /\ MsgKey(i) = k

\* The turns of one chat's messages are saved in the order of the messages,
\* and each was computed on a history that holds every one saved before it,
\* whatever was cancelled, skipped or timed out in between.
UserTurnsSerialized ==
  \A c \in Chats : \A p, q \in 1 .. Len(saved[c]) :
    (p < q /\ UserTurn(saved[c][p]) /\ UserTurn(saved[c][q]))
      => (saved[c][p] < saved[c][q] /\ p <= read[saved[c][q]])

\* The same promise as a specification: see SerialTurns.
Serial == INSTANCE SerialTurns WITH
  Sessions <- Chats, Turns <- Tasks, NoTurn <- NoTask,
  open <- [c \in Chats |-> lock[[source |-> "user", chat |-> c]]],
  committed <- [c \in Chats |->
                  {i \in Tasks : (\E p \in DOMAIN saved[c] : saved[c][p] = i) /\ UserTurn(i)}]

SerialTurnsSpec == Serial!Spec

\* When _handle_stop goes on to its acknowledgement, the tasks it cancelled
\* have ended, no turn under the chat's key is left but what an earlier
\* interrupt cancelled and that still unwinds, and none can start.
StopEndsTurns ==
  (loop.pc \in {"cancelSubs", "subs", "publish"} /\ sent[loop.msg].kind = "stop")
    => /\ \A i \in loop.tasks : ~Live(i)
       /\ \A i \in Tasks :
            (Live(i) /\ Locks(i) /\ MsgKey(i) = MsgKey(loop.msg)) => i \in cancel

\* The dispatcher always comes back to the queue, also from /stop, which
\* awaits the tasks it has cancelled.
LoopComesBack == []<>(loop.pc = "get")

\* Every task that waits for a session lock ends.
TasksEnd == \A i \in Tasks : pc[i] = "wait" ~> pc[i] = "done"

-----------------------------------------------------------------------------
(* What the documentation says and the code does not do.                   *)

\* README: same-session work is serialized.  Each turn saved into a session
\* was computed on a history that holds the ones saved before it.
SameSessionSerialized ==
  \A c \in Chats : \A p, q \in 1 .. Len(saved[c]) :
    p < q => p <= read[saved[c][q]]
=============================================================================
