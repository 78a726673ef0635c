-------------------------- MODULE AgentLoopProofs --------------------------
(***************************************************************************)
(* Theorems about AgentLoop, for every value of its constants.             *)
(*                                                                         *)
(* The properties of turns and locks speak of six variables.  Step says    *)
(* what the actions do to these, action by action; the invariants below    *)
(* are preserved by Step, and so by Next.                                  *)
(***************************************************************************)
EXTENDS AgentLoop, SequenceTheorems, TLAPS

core == <<sent, inbound, pc, lock, read, saved>>

Arrives ==
  \E kind \in ChatKinds \cup {"system"}, chat \in Chats :
    /\ PublishInbound(kind, chat)
    /\ UNCHANGED <<pc, lock, read, saved>>

TakenOff ==
  /\ inbound # <<>> /\ inbound' = Tail(inbound)
  /\ UNCHANGED <<sent, pc, lock, read, saved>>

Dispatched(i) ==
  /\ inbound # <<>> /\ i = Head(inbound) /\ inbound' = Tail(inbound)
  /\ Goto(i, "wait")
  /\ UNCHANGED <<sent, lock, read, saved>>

DirectStarts ==
  \E chat \in Chats :
    /\ Len(sent) < MaxMsgs
    /\ sent' = Append(sent, [kind |-> "direct", chat |-> chat])
    /\ Goto(Len(sent) + 1, "prepare")
    /\ UNCHANGED <<inbound, lock, read, saved>>

Starts(i) ==
  /\ NextWaiter(i)
  /\ lock[MsgKey(i)] = NoTask
  /\ lock' = [lock EXCEPT ![MsgKey(i)] = i]
  /\ Goto(i, "prepare")
  /\ UNCHANGED <<sent, inbound, read, saved>>

Informed == {"context", "graph", "asking"}
Unsaved == {"prepare"} \cup Informed

Reads(i) ==
  /\ pc[i] = "prepare"
  /\ read' = [read EXCEPT ![i] = Len(saved[SessionKey(i)])]
  /\ \E step \in Informed : Goto(i, step)
  /\ UNCHANGED <<sent, inbound, lock, saved>>

Saves(i) ==
  /\ pc[i] = "graph"
  /\ saved' = [saved EXCEPT ![SessionKey(i)] = Append(@, i)]
  /\ Goto(i, "reply")
  /\ UNCHANGED <<sent, inbound, lock, read>>

Moves(i) ==
  /\ pc[i] \in Unsaved
  /\ \E step \in InTurn \ {"prepare"} :
       /\ Goto(i, step)
       /\ step \in Informed => pc[i] \in Informed
  /\ UNCHANGED <<sent, inbound, lock, read, saved>>

Ends(i) ==
  /\ Live(i)
  /\ Goto(i, "done")
  /\ lock' = IF Locks(i) /\ lock[MsgKey(i)] = i
               THEN [lock EXCEPT ![MsgKey(i)] = NoTask] ELSE lock
  /\ UNCHANGED <<sent, inbound, read, saved>>

Restarts ==
  /\ inbound' = <<>>
  /\ pc' = [i \in Tasks |-> IF Live(i) THEN "done" ELSE pc[i]]
  /\ lock' = [k \in LockKeys |-> NoTask]
  /\ UNCHANGED <<sent, read, saved>>

Step ==
  \/ Arrives \/ TakenOff \/ DirectStarts \/ Restarts
  \/ \E i \in Tasks :
       Dispatched(i) \/ Starts(i) \/ Reads(i) \/ Saves(i) \/ Moves(i) \/ Ends(i)
  \/ UNCHANGED core

\* Every step of the agent loop is one of these, seen at the six variables.
LEMMA StepOfNext ==
  ASSUME SubTypeOK, [Next]_vars
  PROVE  Step
<1> USE LoopAssumption
<1>1. ASSUME NEW kind \in Kinds, NEW chat \in Chats, ChatSends(kind, chat) PROVE Step
  BY <1>1 DEF ChatSends, turnVars, Step, Arrives
<1>2. ASSUME NEW chat \in Chats, StartDirect(chat) PROVE Step
  BY <1>2 DEF StartDirect, Step, DirectStarts
<1>3. CASE ConsumeOutbound
  BY <1>3 DEF ConsumeOutbound, turnVars, Step, core
<1>4. CASE RunLoop
  <2>1. ASSUME NEW i \in Tasks,
               HandleRecall(i) \/ HandleStop(i) \/ HandleRestart(i) \/ HandleApprovalReply(i)
                 \/ RemindPending(i) \/ HandleInterrupt(i) \/ SkipQueued(i)
        PROVE  TakenOff
    BY <2>1 DEF HandleRecall, HandleStop, HandleRestart, HandleApprovalReply, RemindPending,
                HandleInterrupt, SkipQueued, Ordinary, Take, CancelActive, turnVars, TakenOff
  <2>2. ASSUME NEW i \in Tasks, Dispatch(i) PROVE Dispatched(i)
    BY <2>2 DEF Dispatch, Ordinary, Take, Goto, Dispatched
  <2>3. CASE StopAwaited \/ CancelSubagents \/ SubagentsAwaited \/ Acknowledge
    BY <2>3 DEF StopAwaited, CancelSubagents, SubagentsAwaited, Acknowledge, busVars, turnVars,
                Step, core
  <2> QED BY <1>4, <2>1, <2>2, <2>3 DEF RunLoop, Step
<1>5. CASE Exec
  BY <1>5 DEF Exec, Step, Restarts
<1>6. ASSUME NEW i \in Tasks, TurnStep(i) \/ TurnAborts(i) PROVE Step
  <2>1. CASE StartTurn(i)
    BY <2>1 DEF StartTurn, busVars, Step, Starts
  <2>2. CASE AnswerCommand(i) \/ EnterGraph(i) \/ AskApproval(i) \/ ApprovalReturns(i) \/ TurnAborts(i)
    <3>1. Moves(i)
      BY <2>2 DEF AnswerCommand, EnterGraph, AskApproval, ApprovalReturns, TurnAborts, Runs,
                  busVars, Moves, Informed, Unsaved, InTurn
    <3> QED BY <3>1 DEF Step
  <2>5. CASE ReadHistory(i) \/ EnterSystemGraph(i)
    <3>1. Reads(i)
      BY <2>5 DEF ReadHistory, EnterSystemGraph, Runs, busVars, Reads, Informed
    <3> QED BY <3>1 DEF Step
  <2>3. CASE SaveTurn(i)
    BY <2>3 DEF SaveTurn, Runs, busVars, Step, Saves
  <2>4. CASE FinishTask(i) \/ CancelledTask(i)
    <3>1. Ends(i)
      BY <2>4 DEF FinishTask, CancelledTask, EndTask, Runs, Live, Ends
    <3> QED BY <3>1 DEF Step
  <2> QED BY <1>6, <2>1, <2>2, <2>3, <2>4, <2>5 DEF TurnStep
<1>7. ASSUME NEW i \in Tasks, NEW s \in Subagents, SpawnSubagent(i, s) PROVE Step
  BY <1>7 DEF SpawnSubagent, busVars, turnVars, Step, core
<1>8. ASSUME NEW s \in Subagents, SubagentEnds(s) PROVE Step
  BY <1>8 DEF SubagentEnds, busVars, turnVars, Step, core
<1>9. ASSUME NEW s \in Subagents, SubagentAnnounces(s) PROVE Step
  <2>1. origin[s] \in Chats
    BY DEF SubTypeOK
  <2> QED BY <1>9, <2>1 DEF SubagentAnnounces, turnVars, Step, Arrives
<1>10. CASE UNCHANGED vars
  BY <1>10 DEF vars, busVars, turnVars, Step, core
<1> QED BY <1>1, <1>2, <1>3, <1>4, <1>5, <1>6, <1>7, <1>8, <1>9, <1>10 DEF Next

-----------------------------------------------------------------------------
(* Messages and tasks.                                                     *)

Message == [kind : AllKinds, chat : Chats]

CoreTypeOK ==
  /\ sent \in Seq(Message) /\ Len(sent) <= MaxMsgs
  /\ inbound \in Seq(Tasks)
  /\ pc \in [Tasks -> InTurn \cup {"none", "wait", "done"}]
  /\ lock \in [LockKeys -> Tasks \cup {NoTask}]
  /\ read \in [Tasks -> Nat]
  /\ saved \in [SessionKeys -> Seq(Tasks)]

\* A task is for a message that has been sent; only a message that may wait
\* for a lock does.
TasksKnown ==
  \A i \in Tasks : /\ pc[i] # "none" => i <= Len(sent)
                   /\ pc[i] = "wait" => Locks(i)

\* A queued message is later than every message that has a task ...
QueueIsLater ==
  \A n \in 1 .. Len(inbound) :
    /\ inbound[n] <= Len(sent) /\ Locks(inbound[n])
    /\ \A i \in Tasks : pc[i] # "none" /\ Locks(i) => i < inbound[n]

\* ... and than those queued before it.
QueueInOrder == \A m, n \in 1 .. Len(inbound) : m < n => inbound[m] < inbound[n]

CoreInv == CoreTypeOK /\ TasksKnown /\ QueueIsLater /\ QueueInOrder

\* Messages are only appended.
LEMMA SentGrows ==
  ASSUME CoreTypeOK, Step
  PROVE  /\ sent' \in Seq(Message) /\ Len(sent') <= MaxMsgs
         /\ Len(sent) <= Len(sent')
         /\ \A i \in 1 .. Len(sent) : sent'[i] = sent[i]
<1> USE LoopAssumption
<1>1. \/ sent' = sent
      \/ Len(sent) < MaxMsgs /\ \E m \in Message : sent' = Append(sent, m)
  BY DEF Step, Arrives, PublishInbound, TakenOff, Dispatched, DirectStarts, Starts,
         Reads, Saves, Moves, Ends, Restarts, core, Message, AllKinds
<1>2. ASSUME Len(sent) < MaxMsgs, NEW m \in Message, sent' = Append(sent, m)
      PROVE  /\ sent' \in Seq(Message) /\ Len(sent') = Len(sent) + 1
             /\ \A i \in 1 .. Len(sent) : sent'[i] = sent[i]
  BY <1>2, AppendProperties DEF CoreTypeOK
<1> QED BY <1>1, <1>2, LenProperties DEF CoreTypeOK

LEMMA SentIsTyped ==
  ASSUME CoreTypeOK, NEW i \in Tasks, i <= Len(sent)
  PROVE  /\ i \in 1 .. Len(sent) /\ sent[i] \in Message
         /\ MsgKey(i) \in LockKeys /\ SessionKey(i) \in SessionKeys
<1>1. i \in 1 .. Len(sent)
  BY LenProperties, LoopAssumption DEF CoreTypeOK
<1>2. sent[i] \in Message
  BY <1>1, ElementOfSeq DEF CoreTypeOK
<1> QED BY <1>1, <1>2 DEF MsgKey, LockKeys, SessionKey, SessionKeys, Message

\* What is said of a message stays true.
LEMMA SentIsKept ==
  ASSUME CoreTypeOK, Step, NEW i \in Tasks, i <= Len(sent)
  PROVE  /\ sent'[i] = sent[i] /\ i <= Len(sent')
         /\ sent[i] \in Message
         /\ MsgKey(i)' = MsgKey(i) /\ SessionKey(i)' = SessionKey(i)
         /\ Locks(i)' = Locks(i) /\ UserTurn(i)' = UserTurn(i)
         /\ MsgKey(i) \in LockKeys /\ SessionKey(i) \in SessionKeys
<1> USE LoopAssumption
<1>1. /\ Len(sent) \in Nat /\ Len(sent') \in Nat
      /\ i \in 1 .. Len(sent)
  BY SentIsTyped, SentGrows, LenProperties DEF CoreTypeOK
<1>2. sent'[i] = sent[i] /\ i <= Len(sent')
  BY <1>1, SentGrows
<1> QED BY <1>2, SentIsTyped DEF MsgKey, SessionKey, Locks, UserTurn

LEMMA CoreInit == Init => CoreInv
<1> USE LoopAssumption DEF Init
<1>1. Init => CoreTypeOK
  BY DEF CoreTypeOK
<1>2. Init => TasksKnown /\ QueueIsLater /\ QueueInOrder
  BY DEF TasksKnown, QueueIsLater, QueueInOrder
<1> QED BY <1>1, <1>2 DEF CoreInv

LEMMA CoreStep ==
  ASSUME CoreInv, Step
  PROVE  CoreInv'
<1> USE LoopAssumption DEF CoreInv
<1>k. \A i \in Tasks : i <= Len(sent) =>
        /\ i <= Len(sent') /\ Locks(i)' = Locks(i)
        /\ SessionKey(i) \in SessionKeys
  BY SentIsKept
<1>s. sent' \in Seq(Message) /\ Len(sent') <= MaxMsgs /\ Len(sent) \in Nat /\ Len(inbound) \in Nat
  BY SentGrows, LenProperties DEF CoreTypeOK
<1>1. CASE Arrives
  <2> DEFINE new == Len(sent) + 1
  <2>1. PICK kind \in ChatKinds \cup {"system"}, chat \in Chats : PublishInbound(kind, chat)
    BY <1>1 DEF Arrives
  <2>2. new \in Tasks
    BY <2>1, <1>s DEF PublishInbound
  <2>3. /\ inbound' \in Seq(Tasks) /\ Len(inbound') = Len(inbound) + 1
        /\ \A n \in 1 .. Len(inbound) : inbound'[n] = inbound[n]
        /\ inbound'[Len(inbound) + 1] = new
    BY <2>1, <2>2, AppendProperties DEF PublishInbound, CoreTypeOK
  <2>4. Len(sent') = new /\ sent'[new].kind = kind
    BY <2>1, AppendProperties DEF PublishInbound, CoreTypeOK, Message, AllKinds
  <2>5. sent'[new].kind # "direct"
    BY <2>4 DEF ChatKinds
  <2>6. CoreTypeOK'
    BY <1>1, <1>s, <2>3 DEF Arrives, CoreTypeOK
  <2>7. TasksKnown'
    BY <1>1, <1>k DEF Arrives, TasksKnown
  <2>8. \A n \in 1 .. Len(inbound) : inbound[n] \in Tasks /\ inbound[n] <= Len(sent)
    BY ElementOfSeq DEF QueueIsLater, CoreTypeOK
  <2>9. QueueIsLater'
    <3> SUFFICES ASSUME NEW n \in 1 .. Len(inbound')
                 PROVE  /\ inbound'[n] <= Len(sent') /\ sent'[inbound'[n]].kind # "direct"
                        /\ \A i \in Tasks : pc'[i] # "none" /\ Locks(i)' => i < inbound'[n]
      BY DEF QueueIsLater, Locks
    <3>1. CASE n \in 1 .. Len(inbound)
      BY <1>1, <1>k, <1>s, <2>3, <2>8, <3>1 DEF Arrives, QueueIsLater, TasksKnown, Locks
    <3>2. CASE n = Len(inbound) + 1
      BY <1>1, <1>s, <2>3, <2>4, <2>5, <3>2 DEF Arrives, TasksKnown
    <3> QED BY <1>s, <2>3, <3>1, <3>2
  <2>10. QueueInOrder'
    <3> SUFFICES ASSUME NEW m \in 1 .. Len(inbound'), NEW n \in 1 .. Len(inbound'), m < n
                 PROVE  inbound'[m] < inbound'[n]
      BY DEF QueueInOrder
    <3>1. m \in 1 .. Len(inbound) /\ inbound'[m] = inbound[m]
      BY <1>s, <2>3
    <3>2. CASE n \in 1 .. Len(inbound)
      BY <2>3, <3>1, <3>2 DEF QueueInOrder
    <3>3. CASE n = Len(inbound) + 1
      BY <1>s, <2>3, <2>8, <3>1, <3>3
    <3> QED BY <1>s, <2>3, <3>2, <3>3
  <2> QED BY <2>6, <2>7, <2>9, <2>10
<1>t. inbound # <<>> =>
        /\ inbound[1] \in Tasks /\ Head(inbound) = inbound[1]
        /\ Tail(inbound) \in Seq(Tasks) /\ Len(Tail(inbound)) = Len(inbound) - 1
        /\ \A n \in 1 .. Len(Tail(inbound)) : Tail(inbound)[n] = inbound[n + 1]
  BY HeadTailProperties, ElementOfSeq, LenProperties DEF CoreTypeOK
<1>2. CASE TakenOff
  <2>1. CoreTypeOK' /\ TasksKnown'
    BY <1>2, <1>s, <1>t DEF TakenOff, CoreTypeOK, TasksKnown, Locks
  <2>2. QueueIsLater' /\ QueueInOrder'
    BY <1>2, <1>s, <1>t DEF TakenOff, QueueIsLater, QueueInOrder, Locks
  <2> QED BY <2>1, <2>2
<1>3. CASE DirectStarts
  <2> DEFINE new == Len(sent) + 1
  <2>1. PICK chat \in Chats :
          /\ Len(sent) < MaxMsgs
          /\ sent' = Append(sent, [kind |-> "direct", chat |-> chat])
          /\ pc' = [pc EXCEPT ![new] = "prepare"]
          /\ read' = read
    BY <1>3 DEF DirectStarts, Goto
  <2>2. new \in Tasks
    BY <1>s, <2>1, LenProperties DEF CoreTypeOK
  <2>3. Len(sent') = new /\ sent'[new].kind = "direct"
    BY <2>1, AppendProperties DEF CoreTypeOK, Message, AllKinds
  <2>4. CoreTypeOK'
    BY <1>3, <1>s, <2>1, <2>2 DEF DirectStarts, CoreTypeOK, InTurn
  <2>5. TasksKnown'
    BY <1>k, <1>s, <2>1, <2>2, <2>3 DEF TasksKnown, CoreTypeOK
  <2>6. \A i \in Tasks : pc'[i] # "none" /\ Locks(i)' => pc[i] # "none" /\ Locks(i)
    BY <1>k, <1>s, <2>1, <2>2, <2>3 DEF Locks, TasksKnown, CoreTypeOK
  <2>7. QueueIsLater' /\ QueueInOrder'
    <3>1. \A n \in 1 .. Len(inbound) : inbound[n] \in Tasks /\ inbound[n] <= Len(sent)
      BY ElementOfSeq DEF CoreTypeOK, QueueIsLater
    <3>2. inbound' = inbound
      BY <1>3 DEF DirectStarts
    <3>3. \A n \in 1 .. Len(inbound) : inbound[n] <= Len(sent') /\ Locks(inbound[n])'
      BY <1>k, <1>s, <2>3, <3>1, <3>2 DEF QueueIsLater, Locks
    <3>4. QueueIsLater'
      BY <2>6, <3>2, <3>3 DEF QueueIsLater
    <3> QED BY <3>2, <3>4 DEF QueueInOrder
  <2> QED BY <2>4, <2>5, <2>7
<1>4. CASE Restarts
  <2>1. CoreTypeOK'
    BY <1>4 DEF Restarts, CoreTypeOK, Live
  <2>2. TasksKnown' /\ QueueIsLater' /\ QueueInOrder'
    BY <1>4, <1>k DEF Restarts, TasksKnown, QueueIsLater, QueueInOrder, Live
  <2> QED BY <2>1, <2>2
<1>5. ASSUME NEW i \in Tasks, Dispatched(i) PROVE CoreInv'
  <2>1. i = inbound[1] /\ Locks(i) /\ i <= Len(sent)
    BY <1>5, <1>s, <1>t, LenProperties DEF Dispatched, QueueIsLater, CoreTypeOK
  <2>2. CoreTypeOK'
    BY <1>5, <1>s, <1>t DEF Dispatched, Goto, CoreTypeOK
  <2>3. TasksKnown'
    BY <1>5, <2>1 DEF Dispatched, Goto, TasksKnown, CoreTypeOK, Locks
  <2>4. /\ Len(inbound') = Len(inbound) - 1
        /\ \A n \in 1 .. Len(inbound') :
             inbound'[n] = inbound[n + 1] /\ n + 1 \in 1 .. Len(inbound)
    BY <1>5, <1>s, <1>t DEF Dispatched
  <2>5. \A j \in Tasks : pc'[j] # "none" => j = i \/ pc[j] # "none"
    BY <1>5 DEF Dispatched, Goto, CoreTypeOK
  <2>6. \A n \in 1 .. Len(inbound') : i < inbound'[n]
    BY <1>s, <2>1, <2>4 DEF QueueInOrder
  <2>7. QueueIsLater'
    BY <1>5, <2>4, <2>5, <2>6 DEF Dispatched, QueueIsLater, Locks
  <2>8. QueueInOrder'
    BY <1>s, <2>4 DEF QueueInOrder
  <2> QED BY <2>2, <2>3, <2>7, <2>8
<1>6. ASSUME NEW i \in Tasks, Starts(i) \/ Reads(i) \/ Saves(i) \/ Moves(i) \/ Ends(i) PROVE CoreInv'
  <2>1. pc[i] # "none" /\ i <= Len(sent) /\ SessionKey(i) \in SessionKeys
    BY <1>6, <1>k DEF Starts, NextWaiter, Reads, Saves, Moves, Informed, Unsaved, Ends, Live, TasksKnown
  <2>2. saved[SessionKey(i)] \in Seq(Tasks) /\ Len(saved[SessionKey(i)]) \in Nat
    BY <2>1, LenProperties DEF CoreTypeOK
  <2>3. CoreTypeOK'
    <3>1. saved' \in [SessionKeys -> Seq(Tasks)]
      <4>1. Append(saved[SessionKey(i)], i) \in Seq(Tasks)
        BY <2>2, AppendProperties
      <4> QED BY <1>6, <4>1 DEF Starts, Reads, Saves, Moves, Ends, CoreTypeOK
    <3>2. pc' \in [Tasks -> InTurn \cup {"none", "wait", "done"}]
      BY <1>6 DEF Starts, Reads, Saves, Moves, Ends, Goto, Informed, CoreTypeOK, InTurn
    <3>3. lock' \in [LockKeys -> Tasks \cup {NoTask}] /\ read' \in [Tasks -> Nat]
      BY <1>6, <2>1, <2>2 DEF Starts, Reads, Saves, Moves, Ends, CoreTypeOK
    <3> QED BY <1>6, <1>s, <3>1, <3>2, <3>3 DEF Starts, Reads, Saves, Moves, Ends, CoreTypeOK
  <2>4. TasksKnown'
    BY <1>6, <2>1 DEF Starts, Reads, Saves, Moves, Ends, Goto, Informed, InTurn, CoreTypeOK, TasksKnown, Locks
  <2>5. QueueIsLater' /\ QueueInOrder'
    BY <1>6, <2>1 DEF Starts, Reads, Saves, Moves, Ends, Goto, Informed, CoreTypeOK, QueueIsLater, QueueInOrder,
                      Locks
  <2> QED BY <2>3, <2>4, <2>5
<1>7. CASE UNCHANGED core
  BY <1>7 DEF core, CoreTypeOK, TasksKnown, QueueIsLater, QueueInOrder, Locks
<1> QED BY <1>1, <1>2, <1>3, <1>4, <1>5, <1>6, <1>7 DEF Step

-----------------------------------------------------------------------------
(* The session locks.                                                      *)

\* What a step may assume of the tasks it does not create.
LEMMA KnownIsKept ==
  ASSUME CoreInv, Step
  PROVE  \A i \in Tasks : pc[i] # "none" =>
           /\ i \in 1 .. Len(sent) /\ sent'[i] = sent[i] /\ sent[i] \in Message
           /\ MsgKey(i)' = MsgKey(i) /\ SessionKey(i)' = SessionKey(i)
           /\ Locks(i)' = Locks(i) /\ UserTurn(i)' = UserTurn(i)
           /\ MsgKey(i) \in LockKeys /\ SessionKey(i) \in SessionKeys
  BY SentIsKept, LenProperties, LoopAssumption DEF CoreInv, CoreTypeOK, TasksKnown

LEMMA HeadIsNew ==
  ASSUME CoreInv, inbound # <<>>
  PROVE  /\ Head(inbound) \in Tasks /\ Head(inbound) <= Len(sent) /\ pc[Head(inbound)] = "none"
         /\ Locks(Head(inbound))
         /\ \A j \in Tasks : pc[j] # "none" /\ Locks(j) => j < Head(inbound)
<1>1. 1 \in 1 .. Len(inbound) /\ Head(inbound) = inbound[1] /\ inbound[1] \in Tasks
  BY HeadTailProperties, ElementOfSeq, LenProperties, EmptySeq DEF CoreInv, CoreTypeOK
<1> QED BY <1>1, LoopAssumption DEF CoreInv, QueueIsLater

LEMMA LockStep ==
  ASSUME CoreInv, LockMatchesTurn, Step
  PROVE  LockMatchesTurn'
<1> USE LoopAssumption
<1> DEFINE Held(i, k) == pc[i] \in InTurn /\ Locks(i) /\ MsgKey(i) = k
<1> SUFFICES ASSUME NEW k \in LockKeys, NEW i \in Tasks
             PROVE  (lock[k] = i <=> Held(i, k))'
  BY DEF LockMatchesTurn
<1>a. \A m \in LockKeys, j \in Tasks : lock[m] = j <=> Held(j, m)
  BY DEF LockMatchesTurn
<1>b. /\ pc \in [Tasks -> InTurn \cup {"none", "wait", "done"}]
      /\ lock \in [LockKeys -> Tasks \cup {NoTask}]
  BY DEF CoreInv, CoreTypeOK
<1>c. \A j \in Tasks : pc[j] # "none" =>
        MsgKey(j)' = MsgKey(j) /\ Locks(j)' = Locks(j) /\ MsgKey(j) \in LockKeys
  BY KnownIsKept
<1>d. {"none", "wait", "done"} \cap InTurn = {}
  BY DEF InTurn
\* Whoever keeps its place in or out of a turn keeps the lock.
<1>e. ASSUME lock'[k] = lock[k], pc'[i] = pc[i] \/ {pc[i], pc'[i]} \cap InTurn = {}
             \/ {pc[i], pc'[i]} \subseteq InTurn
      PROVE  (lock[k] = i <=> Held(i, k))'
  <2>1. CASE pc[i] = "none" /\ pc'[i] \notin InTurn
    BY <1>a, <1>d, <1>e, <2>1
  <2>2. CASE pc[i] # "none"
    BY <1>a, <1>c, <1>e, <2>2
  <2> QED BY <1>d, <1>e, <2>1, <2>2
<1>1. CASE Arrives \/ TakenOff \/ UNCHANGED core
  BY <1>1, <1>e DEF Arrives, TakenOff, core
<1>2. CASE DirectStarts
  <2>1. PICK chat \in Chats :
          /\ Len(sent) < MaxMsgs
          /\ sent' = Append(sent, [kind |-> "direct", chat |-> chat])
          /\ pc' = [pc EXCEPT ![Len(sent) + 1] = "prepare"]
          /\ lock' = lock
    BY <1>2 DEF DirectStarts, Goto
  <2>2. CASE i = Len(sent) + 1
    <3>1. sent'[i].kind = "direct" /\ pc[i] = "none"
      BY <2>1, <2>2, AppendProperties, LenProperties
         DEF CoreInv, CoreTypeOK, TasksKnown, Message, AllKinds
    <3> QED BY <1>a, <1>d, <2>1, <3>1 DEF Locks
  <2>3. CASE i # Len(sent) + 1
    BY <1>b, <1>e, <2>1, <2>3
  <2> QED BY <2>2, <2>3
<1>3. CASE Restarts
  BY <1>3, <1>b, <1>d DEF Restarts, Live
<1>4. ASSUME NEW j \in Tasks, Dispatched(j) PROVE (lock[k] = i <=> Held(i, k))'
  BY <1>4, <1>b, <1>d, <1>e, HeadIsNew DEF Dispatched, Goto
<1>5. ASSUME NEW j \in Tasks, Starts(j) PROVE (lock[k] = i <=> Held(i, k))'
  <2>1. Locks(j) /\ MsgKey(j) \in LockKeys /\ MsgKey(j)' = MsgKey(j) /\ Locks(j)' = Locks(j)
    BY <1>5, <1>c DEF Starts, NextWaiter, CoreInv, TasksKnown
  <2>2. CASE i = j
    BY <1>5, <1>a, <1>b, <1>d, <2>1, <2>2 DEF Starts, NextWaiter, Goto, InTurn
  <2>3. CASE i # j /\ k # MsgKey(j)
    BY <1>5, <1>b, <1>e, <2>3 DEF Starts, Goto
  <2>4. CASE i # j /\ k = MsgKey(j)
    <3>1. ~Held(i, k) /\ lock'[k] = j /\ pc'[i] = pc[i]
      BY <1>5, <1>a, <1>b, <2>1, <2>4 DEF Starts, Goto
    <3> QED BY <1>c, <1>d, <2>4, <3>1
  <2> QED BY <2>2, <2>3, <2>4
<1>6. ASSUME NEW j \in Tasks, Reads(j) \/ Saves(j) \/ Moves(j) PROVE (lock[k] = i <=> Held(i, k))'
  BY <1>6, <1>b, <1>e DEF Reads, Saves, Moves, Informed, Unsaved, Goto, InTurn
<1>7. ASSUME NEW j \in Tasks, Ends(j) PROVE (lock[k] = i <=> Held(i, k))'
  <2>1. pc[j] # "none" /\ pc' = [pc EXCEPT ![j] = "done"]
    BY <1>7 DEF Ends, Live, Goto
  <2>2. CASE lock[k] # j
    BY <1>7, <1>a, <1>b, <1>c, <1>d, <1>e, <2>1, <2>2 DEF Ends
  <2>3. CASE lock[k] = j
    <3>1. Locks(j) /\ MsgKey(j) = k
      BY <1>a, <2>3
    <3>2. lock'[k] = NoTask
      BY <1>7, <1>b, <2>3, <3>1 DEF Ends
    <3> QED BY <1>a, <1>b, <1>c, <1>d, <2>1, <2>3, <3>2
  <2> QED BY <2>2, <2>3
<1> QED BY <1>1, <1>2, <1>3, <1>4, <1>5, <1>6, <1>7 DEF Step

-----------------------------------------------------------------------------
(* The order of a chat's turns.                                            *)

\* What a session holds are turns of that session that have been saved.
SavedAreOver ==
  \A k \in SessionKeys : \A p \in 1 .. Len(saved[k]) :
    pc[saved[k][p]] \in {"reply", "done"} /\ SessionKey(saved[k][p]) = k

SavedBefore(j) ==
  \A p \in 1 .. Len(saved[SessionKey(j)]) :
    UserTurn(saved[SessionKey(j)][p]) => saved[SessionKey(j)][p] < j

\* Who waits for a session's lock is later than whoever has had it.
WaitersAreLater ==
  \A j \in Tasks : pc[j] = "wait" /\ UserTurn(j) =>
    /\ SavedBefore(j)
    /\ \A i \in Tasks : pc[i] \in InTurn /\ UserTurn(i) /\ SessionKey(i) = SessionKey(j) => i < j

HasRead(j) ==
  \A p \in 1 .. Len(saved[SessionKey(j)]) :
    UserTurn(saved[SessionKey(j)][p]) => p <= read[j]

\* A turn that may still be saved has found every turn saved before it in its
\* history, from the moment it reads that.
UnsavedHaveRead ==
  \A j \in Tasks : pc[j] \in Unsaved /\ UserTurn(j) =>
    /\ SavedBefore(j)
    /\ pc[j] \in Informed => HasRead(j)

TurnsInv == SavedAreOver /\ WaitersAreLater /\ UnsavedHaveRead /\ UserTurnsSerialized

LEMMA UserKeys ==
  \A i : UserTurn(i) => /\ Locks(i) /\ SessionKey(i) = sent[i].chat
                       /\ MsgKey(i) = [source |-> "user", chat |-> SessionKey(i)]
  BY DEF UserTurn, Locks, SessionKey, MsgKey

\* Two user turns of one session are never in their turn together.
LEMMA OneUserTurn ==
  ASSUME CoreInv, LockMatchesTurn, NEW i \in Tasks, NEW j \in Tasks,
         pc[i] \in InTurn, pc[j] \in InTurn, UserTurn(i), UserTurn(j),
         SessionKey(i) = SessionKey(j)
  PROVE  i = j
<1>1. MsgKey(i) \in LockKeys
  BY SentIsTyped DEF CoreInv, TasksKnown, InTurn
<1> QED BY <1>1, UserKeys DEF LockMatchesTurn

LEMMA SavedAreTasks ==
  ASSUME CoreInv, SavedAreOver, NEW k \in SessionKeys
  PROVE  /\ saved[k] \in Seq(Tasks) /\ Len(saved[k]) \in Nat
         /\ \A p \in 1 .. Len(saved[k]) : saved[k][p] \in Tasks /\ pc[saved[k][p]] # "none"
  BY ElementOfSeq, LenProperties DEF CoreInv, CoreTypeOK, SavedAreOver

\* Steps that save nothing.
LEMMA TurnsStepUnsaved ==
  ASSUME CoreInv, LockMatchesTurn, TurnsInv, Step, saved' = saved,
         \A i \in Tasks : ~Saves(i)
  PROVE  TurnsInv'
<1> USE LoopAssumption
<1>a. /\ pc \in [Tasks -> InTurn \cup {"none", "wait", "done"}] /\ read \in [Tasks -> Nat]
      /\ SavedAreOver /\ WaitersAreLater /\ UnsavedHaveRead /\ UserTurnsSerialized
  BY DEF CoreInv, CoreTypeOK, TurnsInv
<1>k. \A i \in Tasks : pc[i] # "none" =>
        /\ SessionKey(i)' = SessionKey(i) /\ SessionKey(i) \in SessionKeys
        /\ UserTurn(i)' = UserTurn(i)
  BY KnownIsKept
<1>s. \A k \in SessionKeys : \A p \in 1 .. Len(saved[k]) :
        /\ saved[k][p] \in Tasks /\ pc[saved[k][p]] \in {"reply", "done"}
        /\ SessionKey(saved[k][p]) = k /\ SessionKey(saved[k][p])' = k
        /\ UserTurn(saved[k][p])' = UserTurn(saved[k][p])
  BY <1>a, <1>k, SavedAreTasks DEF SavedAreOver
\* How a task's place can change.
<1>1. \A i \in Tasks :
        /\ pc[i] = "reply" => pc'[i] \in {"reply", "done"}
        /\ pc[i] = "done" => pc'[i] = "done"
        /\ pc'[i] = "wait" => pc[i] = "wait" \/ Dispatched(i)
        /\ pc'[i] \in Unsaved => pc[i] \in Unsaved \/ Starts(i) \/ ~Locks(i)'
        /\ pc'[i] \in InTurn => pc[i] \in InTurn \/ Starts(i) \/ ~Locks(i)'
        /\ pc[i] # "none" /\ ~Reads(i) => read'[i] = read[i]
        /\ pc'[i] \in Informed => pc[i] \in Informed \/ Reads(i)
  <2>1. CASE DirectStarts
    <3>1. PICK chat \in Chats :
            /\ Len(sent) < MaxMsgs
            /\ sent' = Append(sent, [kind |-> "direct", chat |-> chat])
            /\ pc' = [pc EXCEPT ![Len(sent) + 1] = "prepare"]
            /\ read' = read
      BY <2>1 DEF DirectStarts, Goto
    <3>2. Len(sent) + 1 \in Tasks /\ sent'[Len(sent) + 1].kind = "direct" /\ pc[Len(sent) + 1] = "none"
      BY <3>1, AppendProperties, LenProperties
         DEF CoreInv, CoreTypeOK, TasksKnown, Message, AllKinds
    <3> QED BY <1>a, <3>1, <3>2 DEF Locks, InTurn, Informed, Unsaved
  <2>2. CASE Arrives \/ TakenOff \/ Restarts \/ UNCHANGED core
    BY <1>a, <2>2 DEF Arrives, TakenOff, Restarts, core, Live, InTurn, Informed, Unsaved
  <2>3. ASSUME NEW j \in Tasks, Dispatched(j) \/ Starts(j) \/ Reads(j) \/ Moves(j) \/ Ends(j)
        PROVE  \A i \in Tasks :
                 /\ pc[i] = "reply" => pc'[i] \in {"reply", "done"}
                 /\ pc[i] = "done" => pc'[i] = "done"
                 /\ pc'[i] = "wait" => pc[i] = "wait" \/ Dispatched(i)
                 /\ pc'[i] \in Unsaved => pc[i] \in Unsaved \/ Starts(i)
                 /\ pc'[i] \in InTurn => pc[i] \in InTurn \/ Starts(i)
                 /\ pc[i] # "none" /\ ~Reads(i) => read'[i] = read[i]
                 /\ pc'[i] \in Informed => pc[i] \in Informed \/ Reads(i)
    <3>1. CASE Dispatched(j)
      BY <1>a, <3>1, HeadIsNew DEF Dispatched, Goto, InTurn, Informed, Unsaved
    <3>2. CASE Starts(j)
      BY <1>a, <3>2 DEF Starts, NextWaiter, Goto, InTurn, Informed, Unsaved
    <3>3. CASE Moves(j)
      BY <1>a, <3>3 DEF Moves, Goto, InTurn, Informed, Unsaved
    <3>4. CASE Ends(j)
      BY <1>a, <3>4 DEF Ends, Live, Goto, InTurn, Informed, Unsaved
    <3>5. CASE Reads(j)
      BY <1>a, <3>5 DEF Reads, Goto, InTurn, Informed, Unsaved
    <3> QED BY <2>3, <3>1, <3>2, <3>3, <3>4, <3>5
  <2> QED BY <2>1, <2>2, <2>3 DEF Step
<1>2. SavedAreOver'
  BY <1>1, <1>s DEF SavedAreOver, InTurn, Unsaved
<1>3. UserTurnsSerialized'
  <2>1. Chats \subseteq SessionKeys
    BY DEF SessionKeys
  <2>2. \A k \in SessionKeys : \A p \in 1 .. Len(saved[k]) : read'[saved[k][p]] = read[saved[k][p]]
    BY <1>1, <1>s DEF Reads
  <2> QED BY <1>a, <1>s, <2>1, <2>2 DEF UserTurnsSerialized
<1>4. WaitersAreLater'
  <2> SUFFICES ASSUME NEW j \in Tasks, pc'[j] = "wait", UserTurn(j)'
               PROVE  /\ SavedBefore(j)'
                      /\ \A i \in Tasks :
                           pc'[i] \in InTurn /\ UserTurn(i)' /\ SessionKey(i)' = SessionKey(j)' => i < j
    BY DEF WaitersAreLater
  <2>1. CASE pc[j] = "wait"
    <3>1. /\ SessionKey(j)' = SessionKey(j) /\ SessionKey(j) \in SessionKeys
          /\ UserTurn(j) /\ SavedBefore(j)
      BY <1>a, <1>k, <2>1 DEF WaitersAreLater
    <3>2. SavedBefore(j)'
      BY <1>s, <3>1 DEF SavedBefore
    <3>3. ASSUME NEW i \in Tasks, pc'[i] \in InTurn, UserTurn(i)', SessionKey(i)' = SessionKey(j)'
          PROVE  i < j
      <4>1. Locks(i)'
        BY <3>3 DEF UserTurn, Locks
      <4>2. CASE pc[i] \in InTurn
        <5>1. UserTurn(i) /\ SessionKey(i) = SessionKey(j)
          BY <1>k, <3>1, <3>3, <4>2 DEF InTurn
        <5> QED BY <1>a, <2>1, <3>1, <4>2, <5>1 DEF WaitersAreLater
      <4>3. CASE Starts(i)
        <5>1. pc[i] = "wait" /\ UserTurn(i) /\ SessionKey(i) = SessionKey(j)
          BY <1>k, <3>1, <3>3, <4>3 DEF Starts, NextWaiter
        <5>2. MsgKey(i) = MsgKey(j)
          BY <3>1, <5>1, UserKeys
        <5>3. i # j
          BY <1>a, <2>1, <4>3 DEF Starts, Goto
        <5> QED BY <2>1, <4>3, <5>2, <5>3 DEF Starts, NextWaiter
      <4> QED BY <1>1, <3>3, <4>1, <4>2, <4>3
    <3> QED BY <3>2, <3>3
  <2>2. CASE Dispatched(j)
    <3>1. /\ UserTurn(j) /\ SessionKey(j)' = SessionKey(j) /\ sent' = sent
          /\ \A i \in Tasks : pc[i] # "none" /\ Locks(i) => i < j
          /\ \A i \in Tasks : pc'[i] \in InTurn => pc[i] # "none"
      BY <1>a, <2>2, HeadIsNew DEF Dispatched, Goto, UserTurn, SessionKey, InTurn
    <3>2. SessionKey(j) \in SessionKeys
      BY <2>2, HeadIsNew, SentIsTyped DEF Dispatched, CoreInv
    <3>3. SavedBefore(j)'
      BY <1>s, <3>1, <3>2, UserKeys DEF SavedBefore
    <3>4. ASSUME NEW i \in Tasks, pc'[i] \in InTurn, UserTurn(i)' PROVE i < j
      BY <3>1, <3>4 DEF UserTurn, Locks
    <3> QED BY <3>3, <3>4
  <2> QED BY <1>1, <2>1, <2>2
<1>5. UnsavedHaveRead'
  <2> SUFFICES ASSUME NEW j \in Tasks, pc'[j] \in Unsaved, UserTurn(j)'
               PROVE  SavedBefore(j)' /\ (pc'[j] \in Informed => HasRead(j)')
    BY DEF UnsavedHaveRead
  <2>0. Locks(j)'
    BY DEF UserTurn, Locks
  <2>1. pc[j] \in Unsaved \/ Starts(j)
    BY <1>1, <2>0
  <2>2. pc[j] # "none" /\ (Starts(j) => pc[j] = "wait")
    BY <2>1 DEF Informed, Unsaved, Starts, NextWaiter
  <2>3. /\ SessionKey(j)' = SessionKey(j) /\ SessionKey(j) \in SessionKeys /\ UserTurn(j)
    BY <1>k, <2>2
  <2>4. SavedBefore(j)
    BY <1>a, <2>1, <2>2, <2>3 DEF WaitersAreLater, UnsavedHaveRead
  <2>5. SavedBefore(j)'
    BY <1>s, <2>3, <2>4 DEF SavedBefore
  <2>6. ASSUME pc'[j] \in Informed, ~Reads(j) PROVE HasRead(j)'
    <3>1. pc[j] \in Informed /\ read'[j] = read[j]
      BY <1>1, <2>2, <2>6
    <3>2. HasRead(j)
      BY <1>a, <2>3, <3>1 DEF UnsavedHaveRead, Unsaved
    <3> QED BY <1>s, <2>3, <3>1, <3>2 DEF HasRead
  <2>7. ASSUME Reads(j) PROVE HasRead(j)'
    <3>1. read'[j] = Len(saved[SessionKey(j)])
      BY <1>a, <2>7 DEF Reads
    <3> QED BY <2>3, <3>1, SavedAreTasks, <1>a DEF HasRead
  <2> QED BY <2>5, <2>6, <2>7
<1> QED BY <1>2, <1>3, <1>4, <1>5 DEF TurnsInv

\* What the save of a turn does to the logs.
LEMMA SavedIsAppended ==
  ASSUME CoreInv, NEW i \in Tasks, Saves(i)
  PROVE  LET k == SessionKey(i)
         IN /\ k \in SessionKeys /\ Len(saved[k]) \in Nat
            /\ Len(saved'[k]) = Len(saved[k]) + 1
            /\ \A p \in 1 .. Len(saved[k]) : saved'[k][p] = saved[k][p]
            /\ saved'[k][Len(saved[k]) + 1] = i
            /\ \A m \in SessionKeys : m # k => saved'[m] = saved[m]
            /\ sent' = sent /\ read' = read /\ pc' = [pc EXCEPT ![i] = "reply"]
<1> DEFINE k == SessionKey(i)
<1>1. k \in SessionKeys
  BY SentIsTyped DEF Saves, CoreInv, TasksKnown
<1>2. saved[k] \in Seq(Tasks) /\ Len(saved[k]) \in Nat
  BY <1>1, LenProperties DEF CoreInv, CoreTypeOK
<1>3. saved'[k] = Append(saved[k], i)
  BY <1>1 DEF Saves, CoreInv, CoreTypeOK
<1>4. \A m \in SessionKeys : m # k => saved'[m] = saved[m]
  BY DEF Saves, CoreInv, CoreTypeOK
<1> QED BY <1>1, <1>2, <1>3, <1>4, AppendProperties DEF Saves, Goto

LEMMA TurnsStepSaves ==
  ASSUME CoreInv, LockMatchesTurn, TurnsInv, NEW i \in Tasks, Saves(i)
  PROVE  TurnsInv'
<1> DEFINE k == SessionKey(i)
           L == Len(saved[k])
<1>a. /\ SavedAreOver /\ WaitersAreLater /\ UnsavedHaveRead /\ UserTurnsSerialized
      /\ pc \in [Tasks -> InTurn \cup {"none", "wait", "done"}]
  BY DEF CoreInv, CoreTypeOK, TurnsInv
<1>b. /\ pc[i] = "graph" /\ pc[i] \in InTurn /\ pc[i] \in Informed /\ pc[i] \in Unsaved
      /\ pc'[i] = "reply" /\ \A j \in Tasks : j # i => pc'[j] = pc[j]
  BY <1>a DEF Saves, Goto, InTurn, Informed, Unsaved
<1>c. /\ k \in SessionKeys /\ L \in Nat /\ Len(saved'[k]) = L + 1
      /\ \A p \in 1 .. L : saved'[k][p] = saved[k][p]
      /\ saved'[k][L + 1] = i
      /\ \A m \in SessionKeys : m # k => saved'[m] = saved[m]
      /\ read' = read /\ sent' = sent
  BY SavedIsAppended
<1>d. \A j \in Tasks : SessionKey(j)' = SessionKey(j) /\ UserTurn(j)' = UserTurn(j)
  BY <1>c DEF SessionKey, UserTurn
<1>e. \A m \in SessionKeys : /\ Len(saved[m]) \in Nat
        /\ \A p \in 1 .. Len(saved[m]) : saved[m][p] \in Tasks
  BY <1>a, SavedAreTasks
\* An entry of a log is the saved turn or was there before.
<1>f. ASSUME NEW m \in SessionKeys, NEW p \in 1 .. Len(saved'[m])
      PROVE  /\ saved'[m][p] \in Tasks
             /\ \/ p \in 1 .. Len(saved[m]) /\ saved'[m][p] = saved[m][p]
                \/ m = k /\ p = L + 1 /\ saved'[m][p] = i
  <2>1. CASE m = k
    BY <1>c, <1>e, <2>1
  <2>2. CASE m # k
    BY <1>c, <1>e, <2>2
  <2> QED BY <2>1, <2>2
<1>1. SavedAreOver'
  <2> SUFFICES ASSUME NEW m \in SessionKeys, NEW p \in 1 .. Len(saved'[m])
               PROVE  pc'[saved'[m][p]] \in {"reply", "done"} /\ SessionKey(saved[m][p])' = m
    BY <1>c DEF SavedAreOver
  <2>1. CASE p \in 1 .. Len(saved[m]) /\ saved'[m][p] = saved[m][p]
    BY <1>a, <1>b, <1>d, <1>e, <2>1 DEF SavedAreOver
  <2>2. CASE m = k /\ saved'[m][p] = i
    BY <1>b, <1>d, <2>2
  <2> QED BY <1>f, <2>1, <2>2
<1>2. ASSUME NEW j \in Tasks, SavedBefore(j), SessionKey(j) \in SessionKeys,
             UserTurn(i) /\ SessionKey(j) = k => i < j
      PROVE  SavedBefore(j)'
  BY <1>2, <1>c, <1>d, <1>e, <1>f DEF SavedBefore
<1>k. \A j \in Tasks : pc[j] # "none" => SessionKey(j) \in SessionKeys
  BY SentIsTyped DEF CoreInv, TasksKnown
<1>3. WaitersAreLater'
  <2> SUFFICES ASSUME NEW j \in Tasks, pc'[j] = "wait", UserTurn(j)'
               PROVE  /\ SavedBefore(j)'
                      /\ \A n \in Tasks :
                           pc'[n] \in InTurn /\ UserTurn(n)' /\ SessionKey(n)' = SessionKey(j)' => n < j
    BY DEF WaitersAreLater
  <2>1. pc[j] = "wait" /\ UserTurn(j)
    BY <1>b, <1>d
  <2>2. SavedBefore(j)'
    BY <1>2, <1>a, <1>b, <1>k, <2>1 DEF WaitersAreLater
  <2>3. \A n \in Tasks : pc'[n] \in InTurn => pc[n] \in InTurn
    BY <1>b
  <2> QED BY <1>a, <1>d, <2>1, <2>2, <2>3 DEF WaitersAreLater
<1>4. UnsavedHaveRead'
  <2> SUFFICES ASSUME NEW j \in Tasks, pc'[j] \in Unsaved, UserTurn(j)'
               PROVE  SavedBefore(j)' /\ (pc'[j] \in Informed => HasRead(j)')
    BY DEF UnsavedHaveRead
  <2>1. j # i /\ pc'[j] = pc[j] /\ pc[j] \in Unsaved /\ pc[j] \in InTurn /\ pc[j] # "none" /\ UserTurn(j)
    BY <1>b, <1>d DEF Informed, Unsaved, InTurn
  <2>2. ~(UserTurn(i) /\ SessionKey(j) = k)
    BY <1>b, <2>1, OneUserTurn
  <2>3. SavedBefore(j)'
    BY <1>2, <1>a, <1>k, <2>1, <2>2 DEF UnsavedHaveRead
  <2>4. ASSUME pc'[j] \in Informed, NEW p \in 1 .. Len(saved[SessionKey(j)])',
               UserTurn(saved[SessionKey(j)][p])'
        PROVE  p <= read'[j]
    <3>1. HasRead(j)
      BY <1>a, <2>1, <2>4 DEF UnsavedHaveRead
    <3> QED BY <1>c, <1>d, <1>e, <1>f, <1>k, <2>1, <2>2, <2>4, <3>1 DEF HasRead
  <2> QED BY <2>3, <2>4 DEF HasRead
<1>5. UserTurnsSerialized'
  <2> SUFFICES ASSUME NEW c \in Chats, NEW p \in 1 .. Len(saved'[c]), NEW q \in 1 .. Len(saved'[c]),
                      p < q, UserTurn(saved[c][p])', UserTurn(saved[c][q])'
               PROVE  saved'[c][p] < saved'[c][q] /\ p <= read'[saved'[c][q]]
    BY DEF UserTurnsSerialized
  <2>0. c \in SessionKeys
    BY DEF SessionKeys
  <2>1. CASE q \in 1 .. Len(saved[c]) /\ saved'[c][q] = saved[c][q]
    BY <1>a, <1>c, <1>d, <1>e, <1>f, <2>0, <2>1 DEF UserTurnsSerialized
  <2>2. CASE c = k /\ q = L + 1 /\ saved'[c][q] = i
    <3>1. p \in 1 .. L /\ saved'[c][p] = saved[k][p]
      BY <1>c, <1>f, <2>0, <2>2
    <3>2. UserTurn(saved[k][p]) /\ UserTurn(i)
      BY <1>d, <1>e, <2>2, <3>1, <1>c
    <3> QED BY <1>a, <1>b, <1>c, <2>2, <3>1, <3>2 DEF UnsavedHaveRead, HasRead, SavedBefore
  <2> QED BY <1>f, <2>0, <2>1, <2>2
<1> QED BY <1>1, <1>3, <1>4, <1>5 DEF TurnsInv

-----------------------------------------------------------------------------
(* Types.  The message the loop handles has been sent, and while a turn    *)
(* runs the graph the approval context is bound to a chat.                 *)

SideTypeOK ==
  /\ outbound \in Seq(Chats)
  /\ loop \in [pc : {"get", "tasks", "cancelSubs", "subs", "publish"},
               msg : Tasks \cup {NoTask},
               tasks : SUBSET Tasks, subs : SUBSET Subagents]
  /\ cancel \subseteq Tasks
  /\ active \in [LockKeys -> SUBSET Tasks]
  /\ skipped \subseteq Tasks
  /\ restarting \in BOOLEAN

LoopKnown == loop.pc # "get" => loop.msg \in Tasks /\ loop.msg <= Len(sent)

BoundKnown ==
  (\E i \in Tasks : pc[i] \in {"graph", "asking"}) => bound.key \in SessionKeys /\ bound.chat \in Chats

TypeInv ==
  /\ CoreInv /\ SideTypeOK /\ LoopKnown /\ BoundKnown
  /\ ApprovalTypeOK /\ SubTypeOK

LEMMA TypeInvInit == Init => TypeInv
<1> SUFFICES ASSUME Init PROVE TypeInv
  OBVIOUS
<1>1. SideTypeOK
  <2>1. outbound \in Seq(Chats) /\ cancel \subseteq Tasks /\ skipped \subseteq Tasks
        /\ restarting \in BOOLEAN /\ active \in [LockKeys -> SUBSET Tasks]
    BY EmptySeq DEF Init
  <2>2. loop = [pc |-> "get", msg |-> NoTask, tasks |-> {}, subs |-> {}]
    BY DEF Init, AtGet
  <2> QED BY <2>1, <2>2 DEF SideTypeOK
<1>4. LoopKnown /\ BoundKnown
  BY DEF Init, LoopKnown, BoundKnown, AtGet
<1>2. ApprovalTypeOK
  BY DEF Init, ApprovalInit, ApprovalTypeOK
<1>3. SubTypeOK
  BY DEF Init, SubInit, SubTypeOK
<1> QED BY <1>1, <1>2, <1>3, <1>4, CoreInit DEF TypeInv

\* The message of a task, of the loop and at the head of the queue.
LEMMA ChatOf ==
  ASSUME TypeInv
  PROVE  /\ \A i \in Tasks : pc[i] # "none" => sent[i].chat \in Chats /\ SessionKey(i) \in SessionKeys
         /\ loop.pc # "get" => sent[loop.msg].chat \in Chats
         /\ \A i \in Tasks : Take(i) => i <= Len(sent) /\ sent[i].chat \in Chats
  BY SentIsTyped, HeadIsNew DEF TypeInv, CoreInv, TasksKnown, LoopKnown, Take, Message

LEMMA SubTypeStep ==
  ASSUME TypeInv, [Next]_vars
  PROVE  SubTypeOK'
<1> USE LoopAssumption DEF TypeInv
<1>1. CASE UNCHANGED subVars
  BY <1>1 DEF subVars, SubTypeOK
<1>2. ASSUME NEW i \in Tasks, NEW s \in Subagents, SpawnSubagent(i, s) PROVE SubTypeOK'
  BY <1>2, ChatOf DEF SpawnSubagent, Runs, Spawn, SubTypeOK
<1>3. ASSUME NEW s \in Subagents, SubagentEnds(s) \/ SubagentAnnounces(s) PROVE SubTypeOK'
  BY <1>3 DEF SubagentEnds, SubagentAnnounces, RunEnds, CancelLands, Announced, SubTypeOK
<1>4. CASE CancelSubagents
  BY <1>4 DEF CancelSubagents, CancelBySession, SessionTasks, SubTypeOK
<1>5. CASE Exec
  BY <1>5 DEF Exec, SubsLost, SubTypeOK
<1>6. ASSUME NEW i \in Tasks, TurnStep(i) \/ TurnAborts(i) PROVE UNCHANGED subVars
  BY <1>6 DEF TurnStep, TurnAborts, StartTurn, AnswerCommand, ReadHistory, EnterGraph,
              EnterSystemGraph, AskApproval, ApprovalReturns, SaveTurn, FinishTask, CancelledTask, EndTask
<1>7. ASSUME NEW i \in Tasks,
             HandleRecall(i) \/ HandleStop(i) \/ HandleRestart(i) \/ HandleApprovalReply(i)
               \/ RemindPending(i) \/ HandleInterrupt(i) \/ SkipQueued(i) \/ Dispatch(i)
      PROVE  UNCHANGED subVars
  BY <1>7 DEF HandleRecall, HandleStop, HandleRestart, HandleApprovalReply, RemindPending,
              HandleInterrupt, SkipQueued, Dispatch
<1>8. CASE StopAwaited \/ SubagentsAwaited \/ Acknowledge
  BY <1>1, <1>8 DEF StopAwaited, SubagentsAwaited, Acknowledge
<1>9. ASSUME NEW chat \in Chats, StartDirect(chat) \/ \E kind \in Kinds : ChatSends(kind, chat)
      PROVE  UNCHANGED subVars
  BY <1>9 DEF StartDirect, ChatSends
<1>10. CASE ConsumeOutbound \/ UNCHANGED vars
  BY <1>1, <1>10 DEF ConsumeOutbound, vars
<1> QED BY <1>1, <1>2, <1>3, <1>4, <1>5, <1>6, <1>7, <1>8, <1>9, <1>10 DEF Next, RunLoop

\* What a step of the agent loop does to the approvals.
ApprovalStep ==
  \/ \E key \in SessionKeys, chat \in Chats : Bind(key, chat)
  \/ \E key \in SessionKeys, decision \in {"yes", "no"} : Respond(key, decision)
  \/ \E i \in Tasks : \/ bound.key \in SessionKeys /\ Request(i)
                      \/ Answered(i) \/ Expired(i) \/ Abandoned(i)
  \/ ApprovalsLost
  \/ UNCHANGED approvalVars

LEMMA ApprovalStepOfNext ==
  ASSUME TypeInv, [Next]_vars
  PROVE  ApprovalStep
<1> USE LoopAssumption DEF TypeInv
<1>2. ASSUME NEW i \in Tasks, TurnStep(i) \/ TurnAborts(i) PROVE ApprovalStep
  <2>1. CASE EnterGraph(i) \/ EnterSystemGraph(i)
    BY <2>1, ChatOf DEF EnterGraph, EnterSystemGraph, Runs, ApprovalStep
  <2>2. CASE AskApproval(i)
    BY <2>2 DEF AskApproval, Runs, BoundKnown, ApprovalStep
  <2>3. CASE ApprovalReturns(i)
    BY <2>3 DEF ApprovalReturns, ApprovalStep
  <2>4. CASE TurnAborts(i) \/ CancelledTask(i)
    BY <2>4 DEF TurnAborts, CancelledTask, ApprovalStep
  <2>5. CASE StartTurn(i) \/ AnswerCommand(i) \/ ReadHistory(i) \/ SaveTurn(i) \/ FinishTask(i)
    BY <2>5 DEF StartTurn, AnswerCommand, ReadHistory, SaveTurn, FinishTask, ApprovalStep
  <2> QED BY <1>2, <2>1, <2>2, <2>3, <2>4, <2>5 DEF TurnStep
<1>3. ASSUME NEW i \in Tasks, HandleApprovalReply(i) PROVE ApprovalStep
  <2>1. sent[i].chat \in SessionKeys /\ sent[i].kind \in {"yes", "no"}
    BY <1>3, ChatOf DEF HandleApprovalReply, Ordinary, SessionKeys
  <2>2. Respond(sent[i].chat, sent[i].kind)
    BY <1>3 DEF HandleApprovalReply
  <2> QED BY <2>1, <2>2 DEF ApprovalStep
<1>4. CASE Exec
  BY <1>4 DEF Exec, ApprovalStep
<1>5. ASSUME NEW i \in Tasks,
             HandleRecall(i) \/ HandleStop(i) \/ HandleRestart(i)
               \/ RemindPending(i) \/ HandleInterrupt(i) \/ SkipQueued(i) \/ Dispatch(i)
      PROVE  UNCHANGED approvalVars
  BY <1>5 DEF HandleRecall, HandleStop, HandleRestart, RemindPending,
              HandleInterrupt, SkipQueued, Dispatch
<1>6. CASE StopAwaited \/ CancelSubagents \/ SubagentsAwaited \/ Acknowledge
  BY <1>6 DEF StopAwaited, CancelSubagents, SubagentsAwaited, Acknowledge, ApprovalStep
<1>7. ASSUME NEW chat \in Chats, StartDirect(chat) \/ \E kind \in Kinds : ChatSends(kind, chat)
      PROVE  UNCHANGED approvalVars
  BY <1>7 DEF StartDirect, ChatSends
<1>8. CASE ConsumeOutbound \/ UNCHANGED vars
  BY <1>8 DEF ConsumeOutbound, vars, ApprovalStep
<1>9. ASSUME NEW s \in Subagents,
             SubagentEnds(s) \/ SubagentAnnounces(s) \/ \E i \in Tasks : SpawnSubagent(i, s)
      PROVE  UNCHANGED approvalVars
  BY <1>9 DEF SubagentEnds, SubagentAnnounces, SpawnSubagent
<1>10. UNCHANGED approvalVars => ApprovalStep
  BY DEF ApprovalStep
<1> QED BY <1>2, <1>3, <1>4, <1>5, <1>6, <1>7, <1>8, <1>9, <1>10 DEF Next, RunLoop

LEMMA ApprovalTypeStep ==
  ASSUME TypeInv, [Next]_vars
  PROVE  ApprovalTypeOK'
<1> USE LoopAssumption
<1>1. ApprovalTypeOK /\ ApprovalStep
  BY ApprovalStepOfNext DEF TypeInv
<1>2. ASSUME NEW key \in SessionKeys, NEW chat \in Chats, Bind(key, chat) PROVE ApprovalTypeOK'
  BY <1>1, <1>2 DEF Bind, ApprovalTypeOK
<1>3. ASSUME NEW key \in SessionKeys, NEW decision \in {"yes", "no"}, Respond(key, decision)
      PROVE  ApprovalTypeOK'
  <2>1. HasPending(key) => events[key] \in Tasks
    BY <1>1 DEF HasPending, ApprovalTypeOK
  <2>2. yeses' \in [SessionKeys -> Nat]
    BY <1>1, <1>3 DEF Respond, ApprovalTypeOK
  <2> QED BY <1>1, <1>3, <2>1, <2>2 DEF Respond, ApprovalTypeOK
<1>4. ASSUME NEW i \in Tasks, bound.key \in SessionKeys, Request(i) PROVE ApprovalTypeOK'
  BY <1>1, <1>4 DEF Request, ApprovalTypeOK
<1>5. ASSUME NEW i \in Tasks, Answered(i) PROVE ApprovalTypeOK'
  <2>1. grants \in [SessionKeys -> Nat]
    BY <1>1 DEF ApprovalTypeOK
  <2>2. [grants EXCEPT ![asked[i]] = @ + 1] \in [SessionKeys -> Nat]
    <3>1. CASE asked[i] \in SessionKeys
      BY <2>1, <3>1
    <3>2. CASE asked[i] \notin SessionKeys
      BY <2>1, <3>2, Zenon
    <3> QED BY <3>1, <3>2
  <2>3. decisions' \in [SessionKeys -> {"none", "yes", "no"}]
    BY <1>1, <1>5 DEF Answered, ApprovalTypeOK
  <2>4. asked' \in [Tasks -> SessionKeys \cup {NoKey}]
    BY <1>1, <1>5 DEF Answered, ApprovalTypeOK
  <2> QED BY <1>1, <1>5, <2>1, <2>2, <2>3, <2>4 DEF Answered, ApprovalTypeOK
<1>6. ASSUME NEW i \in Tasks, Expired(i) \/ Abandoned(i) PROVE ApprovalTypeOK'
  BY <1>1, <1>6 DEF Expired, Abandoned, ApprovalTypeOK
<1>7. CASE ApprovalsLost
  BY <1>1, <1>7 DEF ApprovalsLost, ApprovalTypeOK
<1>8. CASE UNCHANGED approvalVars
  BY <1>1, <1>8 DEF approvalVars, ApprovalTypeOK
<1> QED BY <1>1, <1>2, <1>3, <1>4, <1>5, <1>6, <1>7, <1>8 DEF ApprovalStep

LEMMA LoopTypeStep ==
  ASSUME TypeInv, [Next]_vars
  PROVE  SideTypeOK' /\ LoopKnown' /\ BoundKnown'
<1> USE LoopAssumption DEF TypeInv
<1>s. Step /\ Len(sent) \in Nat /\ Len(sent') \in Nat /\ Len(sent) <= Len(sent')
  BY StepOfNext, SentGrows, LenProperties DEF CoreInv, CoreTypeOK
<1>a. \A chat \in Chats : PublishOutbound(chat) => outbound' \in Seq(Chats)
  BY AppendProperties DEF PublishOutbound, SideTypeOK
<1>k. \A i \in Tasks : pc[i] # "none" => MsgKey(i) \in LockKeys
  BY SentIsTyped DEF CoreInv, TasksKnown
<1>h. \A i \in Tasks : Take(i) => i <= Len(sent) /\ MsgKey(i) \in LockKeys
  BY HeadIsNew, SentIsTyped DEF Take, CoreInv
<1>e. \A i \in Tasks : pc[i] \in {"graph", "asking"} => bound.key \in SessionKeys /\ bound.chat \in Chats
  BY DEF BoundKnown
\* Steps that leave the loop and the binding alone.
<1>1. ASSUME SideTypeOK', loop' = loop, bound' = bound,
             \A i \in Tasks : pc'[i] \in {"graph", "asking"} => pc[i] \in {"graph", "asking"}
      PROVE  SideTypeOK' /\ LoopKnown' /\ BoundKnown'
  BY <1>1, <1>s, <1>e DEF LoopKnown, BoundKnown
<1>2. ASSUME NEW chat \in Chats, StartDirect(chat) \/ \E kind \in Kinds : ChatSends(kind, chat)
      PROVE  SideTypeOK' /\ LoopKnown' /\ BoundKnown'
  <2>1. SideTypeOK' /\ loop' = loop /\ bound' = bound
    BY <1>2 DEF StartDirect, ChatSends, turnVars, approvalVars, SideTypeOK
  <2>2. \A i \in Tasks : pc'[i] \in {"graph", "asking"} => pc[i] \in {"graph", "asking"}
    BY <1>2 DEF StartDirect, ChatSends, turnVars, Goto, CoreInv, CoreTypeOK
  <2> QED BY <1>1, <2>1, <2>2
<1>3. CASE ConsumeOutbound
  <2>1. outbound' \in Seq(Chats)
    BY <1>3, HeadTailProperties DEF ConsumeOutbound, SideTypeOK
  <2> QED BY <1>1, <1>3, <2>1 DEF ConsumeOutbound, turnVars, approvalVars, SideTypeOK
<1>4. CASE UNCHANGED vars
  BY <1>1, <1>4 DEF vars, busVars, turnVars, approvalVars, SideTypeOK
<1>5. CASE Exec
  <2>1. SideTypeOK' /\ LoopKnown'
    BY <1>5, EmptySeq DEF Exec, SideTypeOK, LoopKnown, AtGet
  <2>2. BoundKnown'
    BY <1>5 DEF Exec, BoundKnown, Live, CoreInv, CoreTypeOK
  <2> QED BY <2>1, <2>2
<1>6. ASSUME NEW s \in Subagents,
             SubagentEnds(s) \/ SubagentAnnounces(s) \/ \E i \in Tasks : SpawnSubagent(i, s)
      PROVE  SideTypeOK' /\ LoopKnown' /\ BoundKnown'
  BY <1>1, <1>6 DEF SubagentEnds, SubagentAnnounces, SpawnSubagent, busVars, turnVars,
                    approvalVars, SideTypeOK
<1>7. CASE RunLoop
  <2>1. ASSUME NEW i \in Tasks,
               HandleRecall(i) \/ HandleStop(i) \/ HandleRestart(i) \/ HandleApprovalReply(i)
                 \/ RemindPending(i) \/ HandleInterrupt(i) \/ SkipQueued(i) \/ Dispatch(i)
        PROVE  SideTypeOK' /\ LoopKnown' /\ BoundKnown'
    <3>1. i <= Len(sent) /\ MsgKey(i) \in LockKeys
      BY <1>h, <2>1 DEF HandleRecall, HandleStop, HandleRestart, HandleApprovalReply, RemindPending,
                        HandleInterrupt, SkipQueued, Dispatch, Ordinary
    <3>2. \/ loop' = loop
          \/ \E step \in {"cancelSubs", "publish"} :
               loop' = [pc |-> step, msg |-> i, tasks |-> {}, subs |-> {}]
          \/ loop' = [pc |-> "tasks", msg |-> i, tasks |-> active[MsgKey(i)], subs |-> {}]
      BY <2>1 DEF HandleRecall, HandleStop, HandleRestart, HandleApprovalReply, RemindPending,
                  HandleInterrupt, SkipQueued, Dispatch, LoopAt, AtGet
    <3>3. /\ cancel' \subseteq Tasks /\ active' \in [LockKeys -> SUBSET Tasks]
          /\ skipped' \subseteq Tasks /\ outbound' = outbound /\ restarting' = restarting
      BY <2>1, <3>1
         DEF HandleRecall, HandleStop, HandleRestart, HandleApprovalReply, RemindPending, turnVars,
             HandleInterrupt, SkipQueued, Dispatch, CancelActive, SideTypeOK
    <3>4. SideTypeOK' /\ LoopKnown'
      BY <1>s, <3>1, <3>2, <3>3 DEF SideTypeOK, LoopKnown
    <3>5. bound' = bound
      BY <2>1 DEF HandleRecall, HandleStop, HandleRestart, HandleApprovalReply, RemindPending,
                  HandleInterrupt, SkipQueued, Dispatch, Respond, approvalVars
    <3>6. \A j \in Tasks : pc'[j] \in {"graph", "asking"} => pc[j] \in {"graph", "asking"}
      BY <2>1
         DEF HandleRecall, HandleStop, HandleRestart, HandleApprovalReply, RemindPending, turnVars,
             HandleInterrupt, SkipQueued, Dispatch, CancelActive, CoreInv, CoreTypeOK
    <3> QED BY <1>e, <3>4, <3>5, <3>6 DEF BoundKnown
  <2>2. ASSUME StopAwaited \/ CancelSubagents \/ SubagentsAwaited \/ Acknowledge
        PROVE  SideTypeOK' /\ LoopKnown' /\ BoundKnown'
    <3>1. \/ loop' = AtGet
          \/ /\ loop.pc # "get"
             /\ \E step \in {"cancelSubs", "subs", "publish"}, subs \in SUBSET Subagents :
                  loop' = [pc |-> step, msg |-> loop.msg, tasks |-> loop.tasks, subs |-> subs]
      BY <2>2 DEF StopAwaited, CancelSubagents, SubagentsAwaited, Acknowledge, SessionTasks, SideTypeOK
    <3>2. outbound' \in Seq(Chats) /\ restarting' \in BOOLEAN
      BY <1>a, <2>2, ChatOf
         DEF StopAwaited, CancelSubagents, SubagentsAwaited, Acknowledge, busVars, SideTypeOK
    <3>3. UNCHANGED <<sent, turnVars, skipped, bound>>
      BY <2>2 DEF StopAwaited, CancelSubagents, SubagentsAwaited, Acknowledge, busVars, approvalVars
    <3>4. SideTypeOK' /\ LoopKnown'
      BY <3>1, <3>2, <3>3 DEF SideTypeOK, LoopKnown, AtGet, turnVars
    <3> QED BY <1>e, <3>3, <3>4 DEF BoundKnown, turnVars
  <2> QED BY <1>7, <2>1, <2>2 DEF RunLoop
<1>8. ASSUME NEW i \in Tasks, TurnStep(i) \/ TurnAborts(i)
      PROVE  SideTypeOK' /\ LoopKnown' /\ BoundKnown'
  <2>1. CASE EnterGraph(i) \/ EnterSystemGraph(i)
    <3>1. SideTypeOK' /\ LoopKnown'
      BY <2>1 DEF EnterGraph, EnterSystemGraph, busVars, SideTypeOK, LoopKnown
    <3>2. bound' = [key |-> SessionKey(i), chat |-> sent[i].chat]
      BY <2>1 DEF EnterGraph, EnterSystemGraph, Bind
    <3>3. SessionKey(i) \in SessionKeys /\ sent[i].chat \in Chats
      BY <2>1, ChatOf DEF EnterGraph, EnterSystemGraph, Runs
    <3> QED BY <3>1, <3>2, <3>3 DEF BoundKnown
  <2>2. ASSUME pc[i] # "none", pc'[i] \notin {"graph", "asking"} \/ pc[i] \in {"graph", "asking"},
               \E step : Goto(i, step), UNCHANGED <<sent, loop, skipped, restarting, cancel, bound>>,
               active' = active \/ active' = [active EXCEPT ![MsgKey(i)] = @ \ {i}],
               outbound' \in Seq(Chats)
        PROVE  SideTypeOK' /\ LoopKnown' /\ BoundKnown'
    <3>1. SideTypeOK'
      BY <1>k, <2>2 DEF SideTypeOK
    <3>2. \A j \in Tasks : pc'[j] \in {"graph", "asking"} => pc[j] \in {"graph", "asking"}
      BY <2>2 DEF Goto, CoreInv, CoreTypeOK
    <3> QED BY <1>1, <2>2, <3>1, <3>2
  <2>3. CASE StartTurn(i) \/ AnswerCommand(i) \/ ReadHistory(i) \/ SaveTurn(i) \/ TurnAborts(i)
    BY <2>2, <2>3 DEF StartTurn, NextWaiter, AnswerCommand, ReadHistory, SaveTurn, TurnAborts, Abandoned, Runs, Goto,
                      busVars, approvalVars, SideTypeOK, CoreInv, CoreTypeOK
  <2>4. CASE AskApproval(i)
    BY <1>a, <1>e, <2>2, <2>4 DEF AskApproval, Request, Runs, Goto, CoreInv, CoreTypeOK
  <2>5. CASE ApprovalReturns(i)
    BY <2>2, <2>5 DEF ApprovalReturns, Answered, Expired, Runs, Goto, busVars, SideTypeOK
  <2>6. CASE FinishTask(i) \/ CancelledTask(i)
    <3>1. pc[i] # "none" /\ pc' = [pc EXCEPT ![i] = "done"] /\ pc'[i] = "done"
      BY <2>6 DEF FinishTask, CancelledTask, EndTask, Runs, Live, Goto, CoreInv, CoreTypeOK
    <3>2. outbound' \in Seq(Chats)
      BY <1>a, <2>6, <3>1, ChatOf DEF FinishTask, CancelledTask, SideTypeOK
    <3>3. UNCHANGED <<sent, loop, skipped, restarting, cancel, bound>>
      BY <2>6 DEF FinishTask, CancelledTask, EndTask, Abandoned, approvalVars
    <3>4. active' = active \/ active' = [active EXCEPT ![MsgKey(i)] = @ \ {i}]
      BY <2>6 DEF FinishTask, CancelledTask, EndTask
    <3> QED BY <2>2, <3>1, <3>2, <3>3, <3>4 DEF Goto
  <2> QED BY <1>8, <2>1, <2>3, <2>4, <2>5, <2>6 DEF TurnStep
<1> QED BY <1>2, <1>3, <1>4, <1>5, <1>6, <1>7, <1>8 DEF Next

LEMMA TypeInvStep ==
  ASSUME TypeInv, [Next]_vars
  PROVE  TypeInv'
  BY StepOfNext, CoreStep, LoopTypeStep, ApprovalTypeStep, SubTypeStep DEF TypeInv

\* Every variable of the loop keeps its type: the loop, its tasks, the
\* approvals and the subagents never reach a state the code has no name for.
THEOREM TypeCorrect == Spec => []TypeOK
<1>1. Init => TypeInv
  BY TypeInvInit
<1>2. TypeInv /\ [Next]_vars => TypeInv'
  BY TypeInvStep
<1>3. TypeInv => TypeOK
  BY DEF TypeInv, CoreInv, CoreTypeOK, SideTypeOK, TypeOK, LoopTypeOK, Message
<1> QED BY <1>1, <1>2, <1>3, PTL DEF Spec

-----------------------------------------------------------------------------
(* The theorems about turns.                                               *)

LoopInv == TypeInv /\ LockMatchesTurn /\ TurnsInv

LEMMA LoopInvInit == Init => LoopInv
<1> SUFFICES ASSUME Init PROVE LoopInv
  OBVIOUS
<1>1. \A k \in SessionKeys : saved[k] = <<>> /\ Len(saved[k]) = 0
  BY EmptySeq DEF Init
<1>2. Chats \subseteq SessionKeys
  BY DEF SessionKeys
<1>3. SavedAreOver /\ UserTurnsSerialized
  BY <1>1, <1>2 DEF SavedAreOver, UserTurnsSerialized
<1>4. \A j \in Tasks : pc[j] = "none"
  BY DEF Init
<1>5. WaitersAreLater /\ UnsavedHaveRead
  BY <1>4 DEF WaitersAreLater, UnsavedHaveRead, Informed, Unsaved
<1>6. LockMatchesTurn
  BY <1>4, LoopAssumption DEF Init, LockMatchesTurn, InTurn
<1> QED BY <1>3, <1>5, <1>6, TypeInvInit DEF LoopInv, TurnsInv

LEMMA LoopInvStep ==
  ASSUME LoopInv, [Next]_vars
  PROVE  LoopInv' /\ Step
<1>1. TypeInv' /\ Step
  BY TypeInvStep, StepOfNext DEF LoopInv, TypeInv
<1>2. LockMatchesTurn'
  BY <1>1, LockStep DEF LoopInv, TypeInv
<1>3. TurnsInv'
  <2>1. CASE \E i \in Tasks : Saves(i)
    BY <2>1, TurnsStepSaves DEF LoopInv, TypeInv
  <2>2. CASE \A i \in Tasks : ~Saves(i)
    <3>1. saved' = saved
      BY <1>1, <2>2 DEF Step, Arrives, TakenOff, DirectStarts, Restarts, Dispatched, Starts, Reads,
                        Moves, Ends, core
    <3> QED BY <1>1, <2>2, <3>1, TurnsStepUnsaved DEF LoopInv, TypeInv
  <2> QED BY <2>1, <2>2
<1> QED BY <1>1, <1>2, <1>3 DEF LoopInv

\* _dispatch: at every await a session lock is held by the turn that runs
\* under it and by no other, and by nobody when none runs.
THEOREM LocksAreHeldByTurns == Spec => []LockMatchesTurn
<1>1. LoopInv => LockMatchesTurn
  BY DEF LoopInv
<1> QED BY <1>1, LoopInvInit, LoopInvStep, PTL DEF Spec

\* The turns of a chat's messages are saved in the order of the messages, each
\* computed on a history with all those saved before it.
THEOREM TurnsAreSerialized == Spec => []UserTurnsSerialized
<1>1. LoopInv => UserTurnsSerialized
  BY DEF LoopInv, TurnsInv
<1> QED BY <1>1, LoopInvInit, LoopInvStep, PTL DEF Spec

-----------------------------------------------------------------------------
(* AgentLoop implements SerialTurns.                                       *)

LockOf(c) == [source |-> "user", chat |-> c]

Committed(c) == {i \in Tasks : (\E p \in DOMAIN saved[c] : saved[c][p] = i) /\ UserTurn(i)}

openBar == [c \in Chats |-> lock[LockOf(c)]]
committedBar == [c \in Chats |-> Committed(c)]

LEMMA CommittedIsKept ==
  ASSUME LoopInv, Step, saved' = saved
  PROVE  committedBar' = committedBar
<1>1. ASSUME NEW c \in Chats, NEW i \in Tasks, \E p \in DOMAIN saved[c] : saved[c][p] = i
      PROVE  UserTurn(i)' = UserTurn(i)
  <2>1. c \in SessionKeys
    BY DEF SessionKeys
  <2>2. pc[i] # "none"
    BY <1>1, <2>1, SavedAreTasks, LenProperties DEF LoopInv, TypeInv, TurnsInv
  <2> QED BY <2>2, KnownIsKept DEF LoopInv, TypeInv
<1>2. \A c \in Chats : Committed(c)' = Committed(c)
  BY <1>1 DEF Committed
<1> QED BY <1>2 DEF committedBar

LEMMA CommittedGrows ==
  ASSUME LoopInv, NEW i \in Tasks, Saves(i)
  PROVE  \A c \in Chats :
           Committed(c)' = IF UserTurn(i) /\ c = SessionKey(i) THEN Committed(c) \cup {i}
                                                              ELSE Committed(c)
<1> DEFINE k == SessionKey(i)
<1> SUFFICES ASSUME NEW c \in Chats
             PROVE  Committed(c)' = IF UserTurn(i) /\ c = k THEN Committed(c) \cup {i}
                                                           ELSE Committed(c)
  OBVIOUS
<1>1. /\ k \in SessionKeys /\ Len(saved[k]) \in Nat /\ Len(saved'[k]) = Len(saved[k]) + 1
      /\ \A p \in 1 .. Len(saved[k]) : saved'[k][p] = saved[k][p]
      /\ saved'[k][Len(saved[k]) + 1] = i
      /\ \A m \in SessionKeys : m # k => saved'[m] = saved[m]
      /\ sent' = sent
  BY SavedIsAppended DEF LoopInv, TypeInv
<1>2. c \in SessionKeys
  BY DEF SessionKeys
<1>3. \A j \in Tasks : UserTurn(j)' = UserTurn(j)
  BY <1>1 DEF UserTurn
<1>4. saved \in [SessionKeys -> Seq(Tasks)] /\ saved' \in [SessionKeys -> Seq(Tasks)]
  BY CoreStep DEF LoopInv, TypeInv, CoreInv, CoreTypeOK, Step
<1>5. DOMAIN saved[c] = 1 .. Len(saved[c]) /\ DOMAIN saved'[c] = 1 .. Len(saved'[c])
  BY <1>2, <1>4, LenProperties
<1>6. CASE c # k
  BY <1>1, <1>2, <1>3, <1>6 DEF Committed
<1>7. CASE c = k
  <2>1. \A j \in Tasks : (\E p \in DOMAIN saved'[c] : saved'[c][p] = j)
                          <=> (\E p \in DOMAIN saved[c] : saved[c][p] = j) \/ j = i
    BY <1>1, <1>5, <1>7
  <2> QED BY <1>3, <1>7, <2>1 DEF Committed
<1> QED BY <1>6, <1>7

LEMMA SerialStep ==
  ASSUME LoopInv, [Next]_vars
  PROVE  Serial!Next \/ (openBar' = openBar /\ committedBar' = committedBar)
<1>a. Step /\ LoopInv'
  BY LoopInvStep
<1>b. /\ TypeInv /\ CoreInv /\ LockMatchesTurn /\ WaitersAreLater /\ UnsavedHaveRead
      /\ lock \in [LockKeys -> Tasks \cup {NoTask}] /\ NoTask \notin Tasks
      /\ \A c \in Chats : LockOf(c) \in LockKeys
  BY LoopAssumption DEF LoopInv, TypeInv, TurnsInv, CoreInv, CoreTypeOK, LockOf, LockKeys
\* A task that locks is a user turn, under its chat's lock, or a system turn,
\* under none of these locks.
<1>k. ASSUME NEW i \in Tasks, pc[i] # "none", Locks(i)
      PROVE  /\ UserTurn(i) => SessionKey(i) \in Chats /\ MsgKey(i) = LockOf(SessionKey(i))
             /\ ~UserTurn(i) => \A c \in Chats : MsgKey(i) # LockOf(c)
  BY <1>b, <1>k, ChatOf, UserKeys DEF UserTurn, Locks, MsgKey, LockOf
<1>l. ASSUME NEW c \in Chats, NEW v, lock' = [lock EXCEPT ![LockOf(c)] = v]
      PROVE  openBar' = [openBar EXCEPT ![c] = v]
  <2>1. \A d \in Chats : lock'[LockOf(d)] = IF d = c THEN v ELSE lock[LockOf(d)]
    BY <1>b, <1>l DEF LockOf
  <2>2. \A d \in Chats : LockOf(d)' = LockOf(d)
    BY DEF LockOf
  <2>3. openBar' = [d \in Chats |-> IF d = c THEN v ELSE openBar[d]]
    BY <2>1, <2>2 DEF openBar
  <2>4. openBar = [d \in Chats |-> openBar[d]]
    BY DEF openBar
  <2> QED BY <2>3, <2>4
<1>n. \A d \in Chats : Serial!Commit(d) \/ Serial!End(d) => Serial!Next
  BY DEF Serial!Next
<1>1. CASE Arrives \/ TakenOff \/ DirectStarts \/ UNCHANGED core
  <2>1. lock' = lock /\ saved' = saved
    BY <1>1 DEF Arrives, TakenOff, DirectStarts, core
  <2> QED BY <1>a, <2>1, CommittedIsKept DEF openBar
<1>2. ASSUME NEW i \in Tasks, Dispatched(i) \/ Reads(i) \/ Moves(i)
      PROVE  openBar' = openBar /\ committedBar' = committedBar
  <2>1. lock' = lock /\ saved' = saved
    BY <1>2 DEF Dispatched, Reads, Moves
  <2> QED BY <1>a, <2>1, CommittedIsKept DEF openBar
<1>3. CASE Restarts
  <2>1. openBar' = [c \in Chats |-> NoTask] /\ saved' = saved
    BY <1>3, <1>b DEF Restarts, openBar
  <2>2. committedBar' = committedBar
    BY <1>a, <2>1, CommittedIsKept
  <2> QED BY <2>1, <2>2 DEF Serial!Next, Serial!Restart, openBar, committedBar, Committed, LockOf
<1>4. ASSUME NEW i \in Tasks, Starts(i)
      PROVE  Serial!Next \/ (openBar' = openBar /\ committedBar' = committedBar)
  <2>1. /\ pc[i] = "wait" /\ Locks(i) /\ lock[MsgKey(i)] = NoTask
        /\ lock' = [lock EXCEPT ![MsgKey(i)] = i] /\ saved' = saved
    BY <1>4, <1>b DEF Starts, NextWaiter, CoreInv, TasksKnown
  <2>2. committedBar' = committedBar
    BY <1>a, <2>1, CommittedIsKept
  <2>3. CASE UserTurn(i)
    <3> DEFINE c == SessionKey(i)
    <3>1. c \in Chats /\ MsgKey(i) = LockOf(c)
      BY <1>k, <2>1, <2>3
    <3>2. openBar' = [openBar EXCEPT ![c] = i]
      BY <1>l, <2>1, <3>1
    <3>3. openBar[c] = NoTask
      BY <2>1, <3>1 DEF openBar
    <3>4. \A u \in committedBar[c] : u < i
      <4>1. SavedBefore(i)
        BY <1>b, <2>1, <2>3 DEF WaitersAreLater
      <4>2. DOMAIN saved[c] = 1 .. Len(saved[c])
        BY <1>b, <3>1, LenProperties DEF CoreInv, CoreTypeOK, SessionKeys
      <4> QED BY <3>1, <4>1, <4>2 DEF committedBar, Committed, SavedBefore
    <3>5. Serial!Begin(c, i)
      BY <2>2, <3>2, <3>3, <3>4 DEF Serial!Begin, openBar, committedBar, Committed, LockOf
    <3> QED BY <3>1, <3>5 DEF Serial!Next
  <2>4. CASE ~UserTurn(i)
    <3>1. \A c \in Chats : lock'[LockOf(c)] = lock[LockOf(c)]
      BY <1>b, <1>k, <2>1, <2>4
    <3>2. \A c \in Chats : LockOf(c)' = LockOf(c)
      BY DEF LockOf
    <3> QED BY <2>2, <3>1, <3>2 DEF openBar
  <2> QED BY <2>3, <2>4
<1>5. ASSUME NEW i \in Tasks, Saves(i)
      PROVE  Serial!Next \/ (openBar' = openBar /\ committedBar' = committedBar)
  <2>1. pc[i] # "none" /\ pc[i] \in InTurn /\ pc[i] \in Unsaved /\ lock' = lock
    BY <1>5 DEF Saves, InTurn, Informed, Unsaved
  <2>2. openBar' = openBar
    BY <2>1 DEF openBar, LockOf
  <2>3. CASE UserTurn(i)
    <3>0. PICK c \in Chats : c = SessionKey(i)
      BY <1>k, <2>1, <2>3, UserKeys
    <3>1. MsgKey(i) = LockOf(c) /\ Locks(i)
      BY <1>k, <2>1, <2>3, <3>0, UserKeys
    <3>2. openBar[c] = i
      BY <1>b, <2>1, <3>1 DEF openBar, LockMatchesTurn
    <3>3. i \notin committedBar[c] /\ i # NoTask
      <4>1. SavedBefore(i)
        BY <1>b, <2>1, <2>3 DEF UnsavedHaveRead
      <4>2. DOMAIN saved[c] = 1 .. Len(saved[c])
        BY <1>b, <3>1, LenProperties DEF CoreInv, CoreTypeOK, SessionKeys
      <4> QED BY <1>b, <2>3, <3>0, <3>1, <4>1, <4>2, LoopAssumption DEF committedBar, Committed, SavedBefore
    <3>4. committedBar' = [committedBar EXCEPT ![c] = @ \cup {i}]
      BY <1>5, <2>3, <3>0, <3>1, CommittedGrows DEF committedBar
    <3>5. /\ openBar[c] \notin committedBar[c] \cup {NoTask}
          /\ committedBar' = [committedBar EXCEPT ![c] = @ \cup {openBar[c]}]
      BY <3>2, <3>3, <3>4
    <3>6. Serial!Commit(c)
      BY <2>2, <3>5 DEF Serial!Commit, openBar, committedBar, Committed, LockOf
    <3> QED BY <1>n, <3>6
  <2>4. CASE ~UserTurn(i)
    <3>1. committedBar' = committedBar
      BY <1>5, <2>4, CommittedGrows DEF committedBar
    <3> QED BY <2>2, <3>1
  <2> QED BY <2>3, <2>4
<1>6. ASSUME NEW i \in Tasks, Ends(i)
      PROVE  Serial!Next \/ (openBar' = openBar /\ committedBar' = committedBar)
  <2>1. pc[i] # "none" /\ saved' = saved
    BY <1>6 DEF Ends, Live
  <2>2. committedBar' = committedBar
    BY <1>a, <2>1, CommittedIsKept
  <2>3. CASE lock' = lock
    BY <2>2, <2>3 DEF openBar, LockOf
  <2>4. CASE Locks(i) /\ lock[MsgKey(i)] = i /\ lock' = [lock EXCEPT ![MsgKey(i)] = NoTask]
    <3>1. CASE UserTurn(i)
      <4>0. PICK c \in Chats : c = SessionKey(i)
        BY <1>k, <2>1, <2>4, <3>1
      <4>1. MsgKey(i) = LockOf(c)
        BY <1>k, <2>1, <2>4, <3>1, <4>0
      <4>2. openBar' = [openBar EXCEPT ![c] = NoTask]
        BY <1>l, <2>4, <4>1
      <4>3. openBar[c] # NoTask
        BY <1>b, <2>4, <4>1 DEF openBar
      <4>4. Serial!End(c)
        BY <2>2, <4>2, <4>3 DEF Serial!End, openBar, committedBar, Committed, LockOf
      <4> QED BY <1>n, <4>4
    <3>2. CASE ~UserTurn(i)
      <4>1. \A c \in Chats : lock'[LockOf(c)] = lock[LockOf(c)]
        BY <1>b, <1>k, <2>1, <2>4, <3>2
      <4>2. \A c \in Chats : LockOf(c)' = LockOf(c)
        BY DEF LockOf
      <4> QED BY <2>2, <4>1, <4>2 DEF openBar
    <3> QED BY <3>1, <3>2
  <2> QED BY <1>6, <2>3, <2>4 DEF Ends
<1> QED BY <1>a, <1>1, <1>2, <1>3, <1>4, <1>5, <1>6 DEF Step

\* In each chat one turn at a time is open, only the open turn is committed,
\* and no turn opens behind a committed one.
THEOREM ImplementsSerialTurns == Spec => SerialTurnsSpec
<1>1. Init => Serial!Init
  <2> SUFFICES ASSUME Init PROVE Serial!Init
    OBVIOUS
  <2>1. \A c \in Chats : LockOf(c) \in LockKeys /\ c \in SessionKeys
    BY DEF LockOf, LockKeys, SessionKeys
  <2>2. openBar = [c \in Chats |-> NoTask]
    BY <2>1 DEF Init, openBar
  <2>3. committedBar = [c \in Chats |-> {}]
    BY <2>1 DEF Init, committedBar, Committed
  <2> QED BY <2>2, <2>3 DEF Serial!Init, openBar, committedBar, Committed, LockOf
<1>2. LoopInv /\ [Next]_vars => [Serial!Next]_<<openBar, committedBar>>
  BY SerialStep
<1>3. /\ openBar = [c \in Chats |-> lock[[source |-> "user", chat |-> c]]]
      /\ committedBar = [c \in Chats |->
                  {i \in Tasks : (\E p \in DOMAIN saved[c] : saved[c][p] = i) /\ UserTurn(i)}]
  BY DEF openBar, committedBar, Committed, LockOf
<1> QED BY <1>1, <1>2, LoopInvInit, LoopInvStep, PTL
        DEF Spec, SerialTurnsSpec, Serial!Spec, openBar, committedBar, Committed, LockOf

-----------------------------------------------------------------------------
(* Approvals.  A yes that has been used up shows in grants; one that waits *)
(* to be popped is the decision of its key, and no key holds two.          *)

GrantsCovered ==
  \A k \in SessionKeys :
    IF decisions[k] = "yes" THEN grants[k] < yeses[k] ELSE grants[k] <= yeses[k]

LEMMA GrantsCoveredStep ==
  ASSUME ApprovalTypeOK, ApprovalStep, GrantsCovered
  PROVE  GrantsCovered'
<1> SUFFICES ASSUME NEW k \in SessionKeys
             PROVE  IF decisions'[k] = "yes" THEN grants'[k] < yeses'[k] ELSE grants'[k] <= yeses'[k]
  BY DEF GrantsCovered
<1>t. /\ grants[k] \in Nat /\ yeses[k] \in Nat
      /\ decisions \in [SessionKeys -> {"none", "yes", "no"}]
      /\ grants \in [SessionKeys -> Nat] /\ yeses \in [SessionKeys -> Nat]
      /\ IF decisions[k] = "yes" THEN grants[k] < yeses[k] ELSE grants[k] <= yeses[k]
  BY DEF ApprovalTypeOK, GrantsCovered
<1>1. ASSUME NEW key \in SessionKeys, NEW decision \in {"yes", "no"}, Respond(key, decision)
      PROVE  IF decisions'[k] = "yes" THEN grants'[k] < yeses'[k] ELSE grants'[k] <= yeses'[k]
  BY <1>t, <1>1 DEF Respond
<1>2. ASSUME NEW i \in Tasks, Answered(i)
      PROVE  IF decisions'[k] = "yes" THEN grants'[k] < yeses'[k] ELSE grants'[k] <= yeses'[k]
  <2>1. CASE asked[i] = k
    BY <1>t, <1>2, <2>1 DEF Answered, Approved
  <2>2. CASE asked[i] # k
    <3>1. decisions'[k] = decisions[k] /\ grants'[k] = grants[k] /\ yeses' = yeses
      BY <1>t, <1>2, <2>2, Zenon DEF Answered
    <3> QED BY <1>t, <3>1
  <2> QED BY <2>1, <2>2
<1>3. ASSUME NEW i \in Tasks, Expired(i)
      PROVE  IF decisions'[k] = "yes" THEN grants'[k] < yeses'[k] ELSE grants'[k] <= yeses'[k]
  BY <1>t, <1>3 DEF Expired
<1>4. CASE \/ ApprovalsLost \/ UNCHANGED approvalVars
           \/ \E i \in Tasks : Request(i) \/ Abandoned(i)
           \/ \E key \in SessionKeys, chat \in Chats : Bind(key, chat)
  BY <1>t, <1>4 DEF ApprovalsLost, approvalVars, Request, Abandoned, Bind
<1> QED BY <1>1, <1>2, <1>3, <1>4 DEF ApprovalStep

\* A guarded tool runs at most once for each yes the user has given under its
\* key, however requests, replies, timeouts and cancellations interleave.
THEOREM GrantsNeedYes == Spec => []OneYesOneGrant
<1>1. Init => GrantsCovered
  BY DEF Init, ApprovalInit, GrantsCovered
<1>2. TypeInv /\ GrantsCovered /\ [Next]_vars => GrantsCovered'
  BY ApprovalStepOfNext, GrantsCoveredStep DEF TypeInv
<1>3. TypeInv /\ GrantsCovered => OneYesOneGrant
  BY DEF TypeInv, ApprovalTypeOK, GrantsCovered, OneYesOneGrant
<1> QED BY <1>1, <1>2, <1>3, TypeInvInit, TypeInvStep, PTL DEF Spec

-----------------------------------------------------------------------------
(* The active lists.  Only a task that locks is listed: for one that does  *)
(* not, EndTask would leave the entry behind.                              *)

ListedIsLive ==
  \A k \in LockKeys : \A i \in active[k] : Live(i) /\ Locks(i) /\ MsgKey(i) = k

LiveIsListed ==
  \A i \in Tasks : Live(i) /\ Locks(i) /\ i \notin cancel => i \in active[MsgKey(i)]

OrphanInv == ListedIsLive /\ LiveIsListed

LEMMA OrphanStep ==
  ASSUME TypeInv, OrphanInv, [Next]_vars
  PROVE  OrphanInv'
<1> USE LoopAssumption DEF TypeInv, OrphanInv
<1>s. Step
  BY StepOfNext
<1>k. \A i \in Tasks : pc[i] # "none" =>
        /\ MsgKey(i)' = MsgKey(i) /\ Locks(i)' = Locks(i) /\ MsgKey(i) \in LockKeys
  BY <1>s, KnownIsKept
<1>t. /\ pc \in [Tasks -> InTurn \cup {"none", "wait", "done"}]
      /\ active \in [LockKeys -> SUBSET Tasks] /\ cancel \subseteq Tasks
  BY DEF SideTypeOK, CoreInv, CoreTypeOK
\* A step that starts and ends no listed task.
<1>1. ASSUME \A i \in Tasks : Live(i)' /\ Locks(i)' <=> Live(i) /\ Locks(i)
      PROVE  /\ active' = active => ListedIsLive'
             /\ active' = active /\ cancel' = cancel => LiveIsListed'
  BY <1>1, <1>k, <1>t DEF ListedIsLive, LiveIsListed, Live
<1>2. ASSUME pc' = pc
      PROVE  \A i \in Tasks : Live(i)' /\ Locks(i)' <=> Live(i) /\ Locks(i)
  BY <1>2, <1>k DEF Live
<1>3. ASSUME NEW i \in Tasks, HandleRecall(i) \/ HandleStop(i) \/ HandleInterrupt(i)
      PROVE  OrphanInv'
  <2>1. /\ pc' = pc /\ cancel' = cancel \cup active[MsgKey(i)]
        /\ active' = [active EXCEPT ![MsgKey(i)] = {}]
    BY <1>3 DEF HandleRecall, HandleStop, HandleInterrupt, CancelActive
  <2> QED BY <1>2, <1>k, <1>t, <2>1 DEF ListedIsLive, LiveIsListed, Live
<1>4. ASSUME NEW i \in Tasks, Dispatch(i) PROVE OrphanInv'
  <2>1. /\ pc' = [pc EXCEPT ![i] = "wait"] /\ cancel' = cancel /\ sent' = sent
        /\ active' = [active EXCEPT ![MsgKey(i)] = @ \cup {i}]
    BY <1>4 DEF Dispatch
  <2>2. pc[i] = "none" /\ Locks(i) /\ MsgKey(i) \in LockKeys
    BY <1>4, HeadIsNew, SentIsTyped DEF Dispatch, Ordinary, Take, CoreInv
  <2>3. \A j \in Tasks : MsgKey(j)' = MsgKey(j) /\ Locks(j)' = Locks(j)
    BY <2>1 DEF MsgKey, Locks
  <2>4. \A j \in Tasks : Live(j)' <=> j = i \/ Live(j)
    BY <1>t, <2>1 DEF Live
  <2>5. \A k \in LockKeys : active'[k] = IF k = MsgKey(i) THEN active[k] \cup {i} ELSE active[k]
    BY <1>t, <2>1
  <2>6. ListedIsLive'
    <3> SUFFICES ASSUME NEW k \in LockKeys, NEW j \in active'[k]
                 PROVE  Live(j)' /\ Locks(j)' /\ MsgKey(j)' = k
      BY DEF ListedIsLive
    <3>1. j \in Tasks /\ (j \in active[k] \/ (j = i /\ k = MsgKey(i)))
      BY <1>t, <2>5
    <3> QED BY <2>2, <2>3, <2>4, <3>1 DEF ListedIsLive
  <2>7. LiveIsListed'
    BY <1>k, <1>t, <2>1, <2>2, <2>3, <2>4, <2>5 DEF LiveIsListed, Live
  <2> QED BY <2>6, <2>7
<1>5. ASSUME NEW i \in Tasks, FinishTask(i) \/ CancelledTask(i) PROVE OrphanInv'
  <2>1. /\ pc' = [pc EXCEPT ![i] = "done"] /\ cancel' = cancel /\ pc[i] # "none"
        /\ active' = IF Locks(i) THEN [active EXCEPT ![MsgKey(i)] = @ \ {i}] ELSE active
    BY <1>5 DEF FinishTask, CancelledTask, EndTask, Goto, Runs, Live
  <2>2. \A j \in Tasks : Live(j)' <=> j # i /\ Live(j)
    BY <1>t, <2>1 DEF Live
  <2>3. \A k \in LockKeys : active'[k] = active[k] \ {i}
    BY <1>k, <1>t, <2>1 DEF ListedIsLive
  <2>4. ListedIsLive'
    BY <1>k, <1>t, <2>2, <2>3 DEF ListedIsLive, Live
  <2>5. LiveIsListed'
    BY <1>k, <1>t, <2>1, <2>2, <2>3 DEF LiveIsListed, Live
  <2> QED BY <2>4, <2>5
<1>6. CASE Exec
  BY <1>6 DEF Exec, ListedIsLive, LiveIsListed, Live
<1>7. ASSUME NEW chat \in Chats, StartDirect(chat) PROVE OrphanInv'
  <2>0. PICK new \in Tasks : new = Len(sent) + 1
    BY <1>7, LenProperties DEF StartDirect, CoreInv, CoreTypeOK
  <2>1. /\ sent' = Append(sent, [kind |-> "direct", chat |-> chat])
        /\ pc' = [pc EXCEPT ![new] = "prepare"] /\ active' = active /\ cancel' = cancel
    BY <1>7, <2>0 DEF StartDirect, Goto
  <2>2. Len(sent) \in Nat /\ sent'[new].kind = "direct"
    BY <2>0, <2>1, AppendProperties, LenProperties DEF CoreInv, CoreTypeOK, Message, AllKinds
  <2>3. ~Locks(new)' /\ pc[new] = "none"
    BY <2>0, <2>2 DEF Locks, CoreInv, TasksKnown
  <2>4. \A i \in Tasks : i # new => (Live(i)' <=> Live(i))
    BY <1>t, <2>1 DEF Live
  <2>5. \A i \in Tasks : Live(i)' /\ Locks(i)' <=> Live(i) /\ Locks(i)
    BY <1>k, <2>3, <2>4 DEF Live
  <2> QED BY <1>1, <2>1, <2>5
<1>8. ASSUME NEW i \in Tasks,
             StartTurn(i) \/ AnswerCommand(i) \/ ReadHistory(i) \/ EnterGraph(i)
               \/ EnterSystemGraph(i) \/ AskApproval(i) \/ ApprovalReturns(i) \/ SaveTurn(i) \/ TurnAborts(i)
      PROVE  OrphanInv'
  <2>1. active' = active /\ cancel' = cancel /\ Live(i) /\ \E step \in InTurn : pc' = [pc EXCEPT ![i] = step]
    BY <1>8 DEF StartTurn, NextWaiter, AnswerCommand, ReadHistory, EnterGraph, EnterSystemGraph,
                AskApproval, ApprovalReturns, SaveTurn, TurnAborts, Runs, Goto, Live, InTurn
  <2>2. \A j \in Tasks : Live(j)' <=> Live(j)
    BY <1>t, <2>1 DEF Live, InTurn
  <2>3. \A j \in Tasks : Live(j)' /\ Locks(j)' <=> Live(j) /\ Locks(j)
    BY <1>k, <2>2 DEF Live
  <2> QED BY <1>1, <2>1, <2>3
<1>9. ASSUME pc' = pc, active' = active, cancel' = cancel PROVE OrphanInv'
  BY <1>1, <1>2, <1>9
<1>10. ASSUME NEW i \in Tasks,
              HandleRestart(i) \/ HandleApprovalReply(i) \/ RemindPending(i) \/ SkipQueued(i)
       PROVE  OrphanInv'
  BY <1>9, <1>10 DEF HandleRestart, HandleApprovalReply, RemindPending, SkipQueued, turnVars
<1>11. CASE StopAwaited \/ CancelSubagents \/ SubagentsAwaited \/ Acknowledge
  BY <1>9, <1>11 DEF StopAwaited, CancelSubagents, SubagentsAwaited, Acknowledge, turnVars
<1>12. ASSUME NEW kind \in Kinds, NEW chat \in Chats, ChatSends(kind, chat) PROVE OrphanInv'
  BY <1>9, <1>12 DEF ChatSends, turnVars
<1>13. ASSUME NEW s \in Subagents,
              SubagentEnds(s) \/ SubagentAnnounces(s) \/ \E i \in Tasks : SpawnSubagent(i, s)
       PROVE  OrphanInv'
  BY <1>9, <1>13 DEF SubagentEnds, SubagentAnnounces, SpawnSubagent, turnVars
<1>14. CASE ConsumeOutbound \/ UNCHANGED vars
  BY <1>9, <1>14 DEF ConsumeOutbound, vars, turnVars
<1> QED BY <1>3, <1>4, <1>5, <1>6, <1>7, <1>8, <1>10, <1>11, <1>12, <1>13, <1>14
        DEF Next, RunLoop, TurnStep

\* A task that runs or waits and is not cancelled can be reached through the
\* active list of its key, and a listed task has not ended.
THEOREM NoTaskIsOrphaned == Spec => []NoOrphanTask
<1>1. Init => OrphanInv
  BY DEF Init, OrphanInv, ListedIsLive, LiveIsListed, Live
<1>2. OrphanInv => NoOrphanTask
  BY DEF OrphanInv, ListedIsLive, LiveIsListed, NoOrphanTask
<1> QED BY <1>1, <1>2, OrphanStep, TypeInvInit, TypeInvStep, PTL DEF Spec

-----------------------------------------------------------------------------
(* /stop.  From the moment its tasks are cancelled the loop takes nothing  *)
(* off the queue, so no task of the key can appear; what is cancelled      *)
(* stays so, and what has ended too.                                       *)

StopInv ==
  (loop.pc # "get" /\ sent[loop.msg].kind = "stop") =>
    /\ \A i \in loop.tasks : pc[i] # "none" /\ (loop.pc # "tasks" => pc[i] = "done")
    /\ \A i \in Tasks : (Live(i) /\ Locks(i) /\ MsgKey(i) = MsgKey(loop.msg)) => i \in cancel

\* A step that dispatches no task starts none that locks and revives none.
LEMMA NothingStarts ==
  ASSUME CoreInv, Step, \A i \in Tasks : pc'[i] = "wait" => pc[i] = "wait"
  PROVE  \A i \in Tasks : /\ pc[i] # "none" => pc'[i] # "none"
                          /\ pc[i] = "done" => pc'[i] = "done"
                          /\ Live(i)' /\ Locks(i)' => Live(i) /\ Locks(i)
<1> USE LoopAssumption
<1>t. pc \in [Tasks -> InTurn \cup {"none", "wait", "done"}]
  BY DEF CoreInv, CoreTypeOK
<1>k. \A i \in Tasks : pc[i] # "none" => Locks(i)' = Locks(i)
  BY KnownIsKept
<1>1. CASE DirectStarts
  <2>1. PICK chat \in Chats :
          /\ Len(sent) < MaxMsgs
          /\ sent' = Append(sent, [kind |-> "direct", chat |-> chat])
          /\ pc' = [pc EXCEPT ![Len(sent) + 1] = "prepare"]
    BY <1>1 DEF DirectStarts, Goto
  <2>2. PICK new \in Tasks : new = Len(sent) + 1
    BY <2>1, LenProperties DEF CoreInv, CoreTypeOK
  <2>3. Len(sent) \in Nat /\ sent'[new].kind = "direct"
    BY <2>1, <2>2, AppendProperties, LenProperties DEF CoreInv, CoreTypeOK, Message, AllKinds
  <2>4. ~Locks(new)' /\ pc[new] = "none"
    BY <2>2, <2>3 DEF Locks, CoreInv, TasksKnown
  <2>5. pc' = [pc EXCEPT ![new] = "prepare"]
    BY <2>1, <2>2
  <2> QED BY <1>t, <1>k, <2>4, <2>5 DEF Live
<1>2. ASSUME NEW i \in Tasks, Starts(i) \/ Reads(i) \/ Saves(i) \/ Moves(i) \/ Ends(i)
      PROVE  /\ pc[i] \notin {"none", "done"}
             /\ \E step \in InTurn \cup {"done"} : pc' = [pc EXCEPT ![i] = step]
  <2>1. CASE Starts(i) \/ Saves(i)
    BY <2>1 DEF Starts, NextWaiter, Saves, InTurn, Goto
  <2>2. CASE Reads(i) \/ Moves(i)
    BY <2>2 DEF Reads, Moves, Informed, Unsaved, InTurn, Goto
  <2>3. CASE Ends(i)
    BY <2>3 DEF Ends, Live, Goto
  <2> QED BY <1>2, <2>1, <2>2, <2>3
<1>3. CASE \E i \in Tasks : Starts(i) \/ Reads(i) \/ Saves(i) \/ Moves(i) \/ Ends(i)
  BY <1>t, <1>k, <1>2, <1>3 DEF Live, InTurn
<1>4. CASE Restarts
  BY <1>t, <1>k, <1>4 DEF Restarts, Live
<1>5. CASE Arrives \/ TakenOff \/ UNCHANGED core
  <2>1. pc' = pc
    BY <1>5 DEF Arrives, TakenOff, core
  <2> QED BY <1>k, <2>1 DEF Live
<1>6. ASSUME NEW i \in Tasks, Dispatched(i) PROVE FALSE
  BY <1>t, <1>6, HeadIsNew DEF Dispatched, Goto
<1> QED BY <1>1, <1>3, <1>4, <1>5, <1>6 DEF Step

\* The other coroutines leave the loop where it stands, unless the process
\* restarts; they cancel nothing back and dispatch nothing.
LEMMA NotRunLoop ==
  ASSUME TypeInv, [Next]_vars, ~RunLoop
  PROVE  \/ loop' = AtGet
         \/ /\ loop' = loop /\ cancel' = cancel
            /\ \A i \in Tasks : pc'[i] = "wait" => pc[i] = "wait"
<1>t. pc \in [Tasks -> InTurn \cup {"none", "wait", "done"}]
  BY DEF TypeInv, CoreInv, CoreTypeOK
<1>1. CASE Exec
  BY <1>1 DEF Exec
<1>2. CASE ConsumeOutbound \/ UNCHANGED vars
  BY <1>2 DEF ConsumeOutbound, vars, turnVars
<1>3. ASSUME NEW chat \in Chats, NEW kind \in Kinds, ChatSends(kind, chat)
      PROVE  UNCHANGED <<loop, turnVars>>
  BY <1>3 DEF ChatSends
<1>4. ASSUME NEW s \in Subagents,
             SubagentEnds(s) \/ SubagentAnnounces(s) \/ \E i \in Tasks : SpawnSubagent(i, s)
      PROVE  UNCHANGED <<loop, turnVars>>
  BY <1>4 DEF SubagentEnds, SubagentAnnounces, SpawnSubagent
<1>5. ASSUME NEW chat \in Chats, StartDirect(chat)
      PROVE  /\ loop' = loop /\ cancel' = cancel
             /\ \A i \in Tasks : pc'[i] = "wait" => pc[i] = "wait"
  BY <1>t, <1>5 DEF StartDirect, Goto
<1>6. ASSUME NEW i \in Tasks, TurnStep(i) \/ TurnAborts(i)
      PROVE  /\ loop' = loop /\ cancel' = cancel
             /\ \A j \in Tasks : pc'[j] = "wait" => pc[j] = "wait"
  <2>1. /\ loop' = loop /\ cancel' = cancel
        /\ \E step \in InTurn \cup {"done"} : pc' = [pc EXCEPT ![i] = step]
    <3>1. CASE StartTurn(i) \/ AnswerCommand(i) \/ ReadHistory(i) \/ EnterGraph(i)
                 \/ EnterSystemGraph(i) \/ AskApproval(i) \/ ApprovalReturns(i) \/ SaveTurn(i) \/ TurnAborts(i)
      BY <3>1 DEF StartTurn, AnswerCommand, ReadHistory, EnterGraph, EnterSystemGraph,
                  AskApproval, ApprovalReturns, SaveTurn, TurnAborts, Goto, InTurn
    <3>2. CASE FinishTask(i) \/ CancelledTask(i)
      BY <3>2 DEF FinishTask, CancelledTask, EndTask, Goto
    <3> QED BY <1>6, <3>1, <3>2 DEF TurnStep
  <2> QED BY <1>t, <2>1 DEF InTurn
<1> QED BY <1>1, <1>2, <1>3, <1>4, <1>5, <1>6 DEF Next, turnVars

LEMMA StopStep ==
  ASSUME TypeInv, OrphanInv, StopInv, [Next]_vars
  PROVE  StopInv'
<1> USE LoopAssumption DEF TypeInv
<1>s. Step
  BY StepOfNext
<1>k. \A i \in Tasks : pc[i] # "none" =>
        /\ MsgKey(i)' = MsgKey(i) /\ Locks(i)' = Locks(i) /\ MsgKey(i) \in LockKeys
  BY <1>s, KnownIsKept
<1>1. CASE loop'.pc = "get"
  BY <1>1 DEF StopInv
<1>2. CASE loop.pc = "get" /\ loop'.pc # "get"
  <2>1. ASSUME NEW i \in Tasks, HandleStop(i) PROVE StopInv'
    <3>1. /\ pc' = pc /\ sent' = sent /\ cancel' = cancel \cup active[MsgKey(i)]
          /\ loop' = [pc |-> "tasks", msg |-> i, tasks |-> active[MsgKey(i)], subs |-> {}]
      BY <2>1 DEF HandleStop, CancelActive, AtGet
    <3>2. MsgKey(i) \in LockKeys
      BY <2>1, HeadIsNew, SentIsTyped DEF HandleStop, Take, CoreInv
    <3>3. \A j \in active[MsgKey(i)] : pc'[j] # "none"
      BY <3>1, <3>2 DEF OrphanInv, ListedIsLive, Live
    <3>4. \A j \in Tasks : (Live(j)' /\ Locks(j)' /\ MsgKey(j)' = MsgKey(i)') => j \in cancel'
      BY <3>1 DEF OrphanInv, LiveIsListed, Live, Locks, MsgKey
    <3> QED BY <3>1, <3>3, <3>4 DEF StopInv, MsgKey
  <2>2. ASSUME NEW i \in Tasks,
               HandleRecall(i) \/ HandleRestart(i) \/ HandleInterrupt(i) \/ RemindPending(i)
        PROVE  StopInv'
    <3>1. sent' = sent /\ sent[i].kind # "stop" /\ loop'.msg = i
      BY <2>2 DEF HandleRecall, HandleRestart, HandleInterrupt, RemindPending, Ordinary, LoopAt, AtGet
    <3> QED BY <3>1 DEF StopInv
  <2>3. ASSUME loop' = loop PROVE FALSE
    BY <1>2, <2>3
  <2>4. ASSUME NEW i \in Tasks, HandleApprovalReply(i) \/ SkipQueued(i) \/ Dispatch(i) PROVE FALSE
    BY <2>3, <2>4 DEF HandleApprovalReply, SkipQueued, Dispatch
  <2>5. ASSUME StopAwaited \/ CancelSubagents \/ SubagentsAwaited \/ Acknowledge PROVE FALSE
    BY <1>2, <2>5 DEF StopAwaited, CancelSubagents, SubagentsAwaited, Acknowledge
  <2>6. ~RunLoop => FALSE
    BY <1>2, NotRunLoop DEF AtGet
  <2> QED BY <2>1, <2>2, <2>4, <2>5, <2>6 DEF RunLoop
<1>3. CASE loop.pc # "get" /\ loop'.pc # "get"
  <2>1. /\ loop'.msg = loop.msg /\ loop'.tasks = loop.tasks /\ cancel \subseteq cancel'
        /\ \A i \in Tasks : pc'[i] = "wait" => pc[i] = "wait"
        /\ loop.pc = "tasks" /\ loop'.pc # "tasks" => \A t \in loop.tasks : ~Live(t)
    <3>1. CASE RunLoop
      <4>1. ASSUME NEW i \in Tasks, Take(i) PROVE FALSE
        BY <1>3, <4>1 DEF Take, AtGet
      <4>2. StopAwaited \/ CancelSubagents \/ SubagentsAwaited \/ Acknowledge
        BY <3>1, <4>1 DEF RunLoop, HandleRecall, HandleStop, HandleRestart, HandleApprovalReply,
                          RemindPending, HandleInterrupt, SkipQueued, Dispatch, Ordinary
      <4>3. UNCHANGED turnVars
        BY <4>2 DEF StopAwaited, CancelSubagents, SubagentsAwaited, Acknowledge
      <4>4. \/ loop' = AtGet
            \/ \E step \in {"cancelSubs", "subs", "publish"}, subs \in SUBSET Subagents :
                 loop' = [pc |-> step, msg |-> loop.msg, tasks |-> loop.tasks, subs |-> subs]
        BY <4>2 DEF StopAwaited, CancelSubagents, SubagentsAwaited, Acknowledge, SessionTasks,
                    SideTypeOK
      <4>5. loop.pc = "tasks" => \A t \in loop.tasks : ~Live(t)
        BY <4>2 DEF StopAwaited, CancelSubagents, SubagentsAwaited, Acknowledge
      <4> QED BY <1>3, <4>3, <4>4, <4>5 DEF turnVars, AtGet
    <3>2. CASE ~RunLoop
      BY <1>3, <3>2, NotRunLoop DEF AtGet
    <3> QED BY <3>1, <3>2
  <2>2. PICK m \in Tasks : m = loop.msg /\ m <= Len(sent)
    BY <1>3 DEF LoopKnown
  <2>3. sent'[m] = sent[m] /\ MsgKey(m)' = MsgKey(m) /\ loop'.msg = m
    BY <1>s, <2>1, <2>2, SentIsKept DEF CoreInv
  <2>4. \A i \in Tasks : /\ pc[i] # "none" => pc'[i] # "none"
                         /\ pc[i] = "done" => pc'[i] = "done"
                         /\ Live(i)' /\ Locks(i)' => Live(i) /\ Locks(i)
    BY <1>s, <2>1, NothingStarts
  <2>5. loop.tasks \subseteq Tasks
    BY DEF SideTypeOK
  <2> SUFFICES ASSUME sent[m].kind = "stop" PROVE StopInv'
    BY <2>3 DEF StopInv
  <2>6. \A i \in loop'.tasks : pc'[i] # "none" /\ (loop'.pc # "tasks" => pc'[i] = "done")
    BY <1>3, <2>1, <2>2, <2>4, <2>5 DEF StopInv, Live
  <2>7. \A i \in Tasks : (Live(i)' /\ Locks(i)' /\ MsgKey(i)' = MsgKey(m)') => i \in cancel'
    BY <1>3, <1>k, <2>1, <2>2, <2>3, <2>4 DEF StopInv, Live
  <2> QED BY <2>3, <2>6, <2>7 DEF StopInv, MsgKey
<1> QED BY <1>1, <1>2, <1>3

\* When /stop goes on to its acknowledgement the tasks it cancelled have
\* ended, and whatever is left under the chat's key is being cancelled.
THEOREM StopEndsTheTurns == Spec => []StopEndsTurns
<1>1. Init => StopInv
  BY DEF Init, AtGet, StopInv
<1>2. StopInv => StopEndsTurns
  BY DEF StopInv, StopEndsTurns, Live
<1>3. Init => OrphanInv
  BY DEF Init, OrphanInv, ListedIsLive, LiveIsListed, Live
<1> QED BY <1>1, <1>2, <1>3, StopStep, OrphanStep, TypeInvInit, TypeInvStep, PTL DEF Spec
=============================================================================
