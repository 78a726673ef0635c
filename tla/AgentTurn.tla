----------------------------- MODULE AgentTurn -----------------------------
(***************************************************************************)
(* What one turn does between reading its history and saving: the graph of *)
(* model and tool calls (src/nanobot/agent/graph.py, state.py), the prompt *)
(* and the reply (agent/loop.py), get_history with the tool calls of       *)
(* earlier turns (session/manager.py) and the flag of the message tool     *)
(* (agent/tools/message.py).                                               *)
(*                                                                         *)
(* All turns here reply to one chat.  Turns of its messages and subagent   *)
(* results work on the chat's session; scheduled (direct) turns have one   *)
(* of their own, which is not followed.  What the model answers is a       *)
(* choice; a message is known by its turn and the iteration of the model   *)
(* call that made it.                                                      *)
(***************************************************************************)
EXTENDS Naturals, Sequences, FiniteSets, SequencesExt

CONSTANTS
  MaxTurns,      \* bound: turns of a run
  Kinds,         \* "user", "system" (a subagent's result), "direct"
  MaxIterations, \* max_iterations
  CallCounts,    \* bound: numbers of tool calls a response with calls has
  ShortHistory,  \* history kept next to a running summary (12)
  SummaryAfter,  \* history length that asks for a running summary (20)
  FilterFrom,    \* history length from which get_history filters (20)
  KeepRecent,    \* messages the filter always keeps (_SHORT_TERM_KEEP_RAW, 6)
  MaxRecalls     \* bound: messages the user takes back

Turns == 1 .. MaxTurns

ASSUME TurnAssumption ==
  /\ Kinds \subseteq {"user", "system", "direct"}
  /\ {MaxTurns, ShortHistory, SummaryAfter, KeepRecent, MaxRecalls} \subseteq Nat
  /\ {MaxIterations, FilterFrom} \subseteq Nat \ {0}
  /\ CallCounts \subseteq Nat \ {0} /\ IsFiniteSet(CallCounts)

VARIABLES
  session,  \* the chat's session: messages, last_consolidated, running summary
  turn,     \* each turn
  sent,     \* MessageTool._sent_targets holds the chat
  told,     \* history: the running turns since whose start the message tool
            \* has written to the chat
  recalled  \* history: the turns of which a message was recalled

vars == <<session, turn, sent, told, recalled>>

-----------------------------------------------------------------------------
(* Messages.  n is the number of calls of an assistant message and the     *)
(* position of its call for a tool result; together with turn and          *)
(* iteration it stands for the id of a call.                               *)

Message == [role : {"user", "assistant", "tool"}, turn : Turns,
            iter : 0 .. MaxIterations, n : Nat]

IsCall(m) == m.role = "assistant" /\ m.n > 0
Ids(m) == IF m.role = "assistant" THEN {<<m.turn, m.iter, k>> : k \in 1 .. m.n} ELSE {}
Id(m) == <<m.turn, m.iter, m.n>>

\* The history starts with the first user message, if there is one.
FromUser(h) ==
  LET users == {p \in DOMAIN h : h[p].role = "user"}
  IN IF users = {} THEN h
     ELSE SubSeq(h, CHOOSE p \in users : \A q \in users : p <= q, Len(h))

\* Mutant: the history is taken as it is.
LegalStartNone(h) == 0

\* _find_legal_start: how many messages to drop; an undeclared result drops
\* everything up to it, the calls declared so far included.
LegalStart(h) ==
  LET seen[k \in 0 .. Len(h)] ==
        IF k = 0 THEN [start |-> 0, declared |-> {}]
        ELSE LET before == seen[k - 1]
             IN IF h[k].role = "tool" /\ Id(h[k]) \notin before.declared
                THEN [start |-> k, declared |-> {}]
                ELSE [before EXCEPT !.declared = @ \cup Ids(h[k])]
  IN seen[Len(h)].start

\* _iter_context_units: where the unit of each message starts; a result joins
\* the unit of its call while only results of that call have come.
UnitStarts(h) ==
  LET start[p \in 1 .. Len(h)] ==
        IF p = 1 THEN 1
        ELSE IF h[p].role = "tool" /\ Id(h[p]) \in Ids(h[start[p - 1]]) THEN start[p - 1] ELSE p
  IN start

\* The messages of the units that start at kept, in their order.
Part(h, starts, kept) ==
  LET part[p \in 0 .. Len(h)] ==
        IF p = 0 THEN <<>>
        ELSE IF starts[p] \in kept THEN Append(part[p - 1], h[p]) ELSE part[p - 1]
  IN part[Len(h)]

\* filter_short_term_context: the last units, and of those before them the
\* ones whose text is worth it.
Filtered(h) ==
  LET starts == UnitStarts(h)
      recent == {q \in Range(starts) :
                   Cardinality({p \in q + 1 .. Len(h) : starts[p] # q}) < KeepRecent}
  IN {Part(h, starts, recent \cup older) : older \in SUBSET (Range(starts) \ recent)}

\* get_history: the histories a prompt may be built from.
Histories(s) ==
  LET user == FromUser(SubSeq(s.msgs, s.lc + 1, Len(s.msgs)))
      legal == SubSeq(user, LegalStart(user) + 1, Len(user))
  IN IF Len(legal) >= FilterFrom THEN Filtered(legal) ELSE {legal}

-----------------------------------------------------------------------------

EmptySession == [msgs |-> <<>>, lc |-> 0, summary |-> "none"]

\* cut: how many messages of the history are not in the prompt; new: the
\* current message and what follows it; ran: the tool calls of the last
\* response that have run; silent: the turn has ended without a reply.
IdleTurn == [pc |-> "idle", kind |-> "user", cut |-> 0, new |-> <<>>,
             iter |-> 0, ran |-> 0, silent |-> FALSE]

TypeOK ==
  /\ session \in [msgs : Seq(Message), lc : Nat, summary : {"none", "asked", "ready"}]
  /\ turn \in [Turns -> [pc : {"idle", "llm", "tools", "end", "done"},
                         kind : {"user", "system", "direct"}, cut : Nat, new : Seq(Message),
                         iter : 0 .. MaxIterations, ran : Nat, silent : BOOLEAN]]
  /\ sent \in BOOLEAN /\ told \subseteq Turns /\ recalled \subseteq Turns

Init ==
  /\ session = EmptySession
  /\ turn = [t \in Turns |-> IdleTurn]
  /\ sent = FALSE /\ told = {} /\ recalled = {}

Open(t) == turn[t].pc \in {"llm", "tools", "end"}

-----------------------------------------------------------------------------

\* The lock of the chat's session serializes the turns of its messages.
MayBegin(t, kind) ==
  /\ turn[t].pc = "idle" /\ \A u \in 1 .. t - 1 : turn[u].pc # "idle"
  /\ kind = "user" => ~\E u \in Turns : Open(u) /\ turn[u].kind = "user"

\* Mutant: start_turn does not forget the chat.
ForgetNothing(kind) == sent

\* start_turn; a subagent's result does not reset the message tool.
ForgetSent(kind) == sent /\ kind = "system"

\* _run_graph: the graph is entered with the prompt, at iteration 0.
RunGraph(kind, current, cut) ==
  [IdleTurn EXCEPT !.pc = "llm", !.kind = kind, !.new = <<current>>, !.cut = cut]

\* The prompt: the history, or its end next to a running summary; a long
\* history asks for a summary.
Begin(t, kind) ==
  /\ MayBegin(t, kind)
  /\ sent' = ForgetSent(kind)
  /\ \E h \in IF kind = "direct" THEN {<<>>} ELSE Histories(session) :
       LET short == kind = "user" /\ session.summary = "ready" /\ Len(h) > ShortHistory
           ask == kind = "user" /\ ~short /\ Len(h) > SummaryAfter
           current == [role |-> IF kind = "system" THEN "assistant" ELSE "user",
                       turn |-> t, iter |-> 0, n |-> 0]
       IN /\ turn' = [turn EXCEPT ![t] =
                        RunGraph(kind, current, IF short THEN Len(h) - ShortHistory ELSE 0)]
          /\ session' = IF ask /\ session.summary = "none"
                        THEN [session EXCEPT !.summary = "asked"] ELSE session
  /\ UNCHANGED <<told, recalled>>

\* Mutant: the bound stops one call early, before the tools of that call.
NextNodeEarly(calls, iter) == IF calls > 0 /\ iter + 1 < MaxIterations THEN "tools" ELSE "end"

\* Mutant: no bound.
NextNodeUnbounded(calls, iter) == IF calls > 0 THEN "tools" ELSE "end"

\* should_continue.
NextNode(calls, iter) == IF calls > 0 /\ iter < MaxIterations THEN "tools" ELSE "end"

Iteration(t) == turn[t].iter + 1

\* llm_node: a response with tool calls, or an answer.
Respond(t, calls) ==
  /\ turn[t].pc = "llm"
  /\ turn' = [turn EXCEPT ![t] =
       [@ EXCEPT !.iter = Iteration(t), !.ran = 0, !.pc = NextNode(calls, Iteration(t)),
                 !.new = Append(turn[t].new, [role |-> "assistant", turn |-> t,
                                              iter |-> Iteration(t), n |-> calls])]]
  /\ UNCHANGED <<session, sent, told, recalled>>

\* An error is not added to the messages; an answer without content is, but
\* is not saved.
RespondNothing(t) ==
  /\ turn[t].pc = "llm"
  /\ turn' = [turn EXCEPT ![t] = [@ EXCEPT !.iter = Iteration(t), !.pc = "end"]]
  /\ UNCHANGED <<session, sent, told, recalled>>

\* MessageTool.execute: what counts is a message that went out, and to the
\* chat of its own turn.
Execute(writes) ==
  /\ sent' = (sent \/ writes)
  /\ told' = IF writes THEN told \cup {u \in Turns : Open(u)} ELSE told

\* One tool call of tool_node; the message tool may write to the chat.  The
\* results are added when the last call is over.
RunTool(t, writes) ==
  LET new == turn[t].new
      call == new[Len(new)]
      results == [k \in 1 .. call.n |-> [call EXCEPT !.role = "tool", !.n = k]]
      last == turn[t].ran + 1 = call.n
  IN /\ turn[t].pc = "tools"
     /\ turn' = [turn EXCEPT ![t] =
          IF last THEN [@ EXCEPT !.new = new \o results, !.ran = 0, !.pc = "llm"]
          ELSE [@ EXCEPT !.ran = turn[t].ran + 1]]
     /\ Execute(writes)
     /\ UNCHANGED <<session, recalled>>

\* The end of _process_message, without an await: _save_turn skips as many
\* messages as the whole history had, and a chat that the message tool has
\* written to gets no reply.
Finish(t) ==
  /\ turn[t].pc = "end"
  /\ session' = IF turn[t].kind = "direct" THEN session
                ELSE [session EXCEPT !.msgs =
                        @ \o SubSeq(turn[t].new, turn[t].cut + 1, Len(turn[t].new))]
  /\ turn' = [turn EXCEPT ![t] = [IdleTurn EXCEPT !.pc = "done",
                                   !.silent = sent /\ turn[t].kind # "system"]]
  /\ told' = told \ {t}
  /\ UNCHANGED <<sent, recalled>>

\* Cancelled or timed out: nothing is saved.
Abort(t) ==
  /\ Open(t)
  /\ turn' = [turn EXCEPT ![t] = [IdleTurn EXCEPT !.pc = "done"]]
  /\ told' = told \ {t}
  /\ UNCHANGED <<session, sent, recalled>>

\* update_running_summary, in the background.
Summarized ==
  /\ session.summary = "asked"
  /\ session' = [session EXCEPT !.summary = "ready"]
  /\ UNCHANGED <<turn, sent, told, recalled>>

\* maybe_consolidate_by_tokens moves the offset to a user message.
Consolidate(e) ==
  /\ e \in session.lc + 1 .. Len(session.msgs) - 1
  /\ session.msgs[e + 1].role = "user"
  /\ session' = [session EXCEPT !.lc = e]
  /\ UNCHANGED <<turn, sent, told, recalled>>

\* _handle_recall_control removes what matches, after it has cancelled the
\* turns of the chat's messages; the offset stays, so it may now lie past the
\* end.
Recall(p) ==
  /\ ~\E t \in Turns : Open(t) /\ turn[t].kind = "user"
  /\ Cardinality(recalled) < MaxRecalls
  /\ session' = [session EXCEPT !.msgs = RemoveAt(@, p)]
  /\ recalled' = recalled \cup {session.msgs[p].turn}
  /\ UNCHANGED <<turn, sent, told>>

TurnStep(t) ==
  \/ \E calls \in {0} \cup CallCounts : Respond(t, calls)
  \/ RespondNothing(t)
  \/ \E writes \in BOOLEAN : RunTool(t, writes)
  \/ Finish(t)

Next ==
  \/ \E t \in Turns : TurnStep(t) \/ Abort(t) \/ \E kind \in Kinds : Begin(t, kind)
  \/ Summarized
  \/ \E p \in DOMAIN session.msgs : Consolidate(p) \/ Recall(p)

Spec == Init /\ [][Next]_vars

-----------------------------------------------------------------------------

Declared(h, p) == \E q \in 1 .. p - 1 : Id(h[p]) \in Ids(h[q])

\* get_history never returns a tool result without the call it answers in
\* front of it, wherever consolidation, recalls, the filter and turns saved
\* in part have cut the session (manager.py:57-77, 186-190).  It is enough to
\* look at sessions while no turn is open: Abort keeps the session.
HistoryLegal ==
  ~(\E t \in Turns : Open(t)) =>
    \A h \in Histories(session) : \A p \in DOMAIN h : h[p].role = "tool" => Declared(h, p)

\* A saved tool call has its results right behind it, unless it is the call
\* at which the turn met the iteration bound or the user took something of
\* that turn back: errors, empty answers, message filters and aborted turns
\* leave no call open in the session.
SavedCallsAnswered ==
  LET msgs == session.msgs
  IN \A p \in DOMAIN msgs :
       IsCall(msgs[p]) /\ msgs[p].iter < MaxIterations /\ msgs[p].turn \notin recalled =>
         /\ p + msgs[p].n <= Len(msgs)
         /\ \A k \in 1 .. msgs[p].n :
              msgs[p + k].role = "tool" /\ Id(msgs[p + k]) = <<msgs[p].turn, msgs[p].iter, k>>

\* A turn whose reply was left out did see the message tool write to its
\* chat while it ran, though the flag is shared with the other turns and
\* survives the ones that are aborted (message.py:38-47).
SilentOnlyIfTold ==
  [][\A t \in Turns : turn'[t].silent /\ ~turn[t].silent => t \in told]_vars
=============================================================================
