--------------------------- MODULE MochatChannel ---------------------------
(* The Mochat adapter: a session (events with sequence numbers and a cursor,   *)
(* persisted) and a panel (messages that are pushed or polled). The websocket  *)
(* pushes; while it is not subscribed, fallback workers poll. The same message *)
(* can come on both ways. Panel messages without a mention wait in a buffer    *)
(* for a timer or a mention.                                                   *)
EXTENDS ChannelBase, SequencesExt

CONSTANTS
  PollLimit,  \* messages in the answer to a panel poll
  Noticed     \* bound: ids of the messages that may be notified, too

Session(e) == e.direct
SessionIds == {e.id : e \in {f \in Events : f.direct}}
ById(id) == CHOOSE e \in Events : e.id = id
InOrder(ids) ==
  CHOOSE s \in [1 .. Cardinality(ids) -> ids] : \A i, j \in DOMAIN s : i < j => s[i] < s[j]
Top(ids) == IF ids = {} THEN 0 ELSE CHOOSE n \in ids : \A k \in ids : k <= n

(* A coroutine that handles a payload: by, who runs it; todo, the messages     *)
(* before it; out, what it is publishing.                                      *)
Handler(by, kind, ids, pc) == [by |-> by, kind |-> kind, todo |-> InOrder(ids), out |-> <<>>, pc |-> pc]

Started(cursor) ==
  [name |-> "mochat",
   posted |-> {},             \* what the users have posted
   ws |-> "down",             \* the connection: down, subscribing, ready
   fallback |-> TRUE,         \* _fallback_mode
   asked |-> {},              \* cursors in requests that the session worker waits on
   cursor |-> cursor,         \* _session_cursor
   file |-> cursor,           \* the cursor file
   saving |-> FALSE,          \* _cursor_save_task runs
   cold |-> cursor = 0,       \* the session is in _cold_sessions
   seen |-> [k \in {"session", "panel"} |-> <<>>],
   buffer |-> <<>>,           \* DelayState.entries
   timer |-> FALSE,           \* DelayState.timer sleeps
   dropped |-> {}]            \* history: in the hands of a cancelled worker

Init == HostInit /\ self = Started(0)

(* What a subscription pushes.                                                 *)
Pushed(e) ==
  IF self.ws # "ready" THEN {}
  ELSE {IF Session(e) THEN Handler("socket", "session", {e.id}, "lock")
        ELSE Handler("socket", "panel", {e.id}, "work")}

(* Any connection may carry notifications of the same messages; they know no   *)
(* cursor, take no lock and pass a cold session: _handle_notify_inbox_append   *)
(* for the session, _handle_notify_chat_message for the panel.                 *)
InboxAppend(e) == Handler("notify", "session", {e.id}, "work")
ChatMessage(e) == Handler("notify", "panel", {e.id}, "work")

Notified(e) ==
  IF self.ws = "down" \/ e.id \notin Noticed THEN {{}}
  ELSE {{}, {IF Session(e) THEN InboxAppend(e) ELSE ChatMessage(e)}}

Post(e) ==
  /\ Arrives(e)
  /\ self' = [self EXCEPT !.posted = @ \cup {e.id}]
  /\ \E told \in Notified(e) : tasks' = tasks \cup Pushed(e) \cup told
  /\ UNCHANGED host

-----------------------------------------------------------------------------
(* The handler of connect: the sessions are subscribed from the cursor on, the *)
(* answer is handled, and the fallback workers are cancelled.                  *)
Connect ==
  /\ self.ws = "down"
  /\ self' = [self EXCEPT !.ws = "subscribing"]
  /\ UNCHANGED <<tasks, pending, host>>

Since(cursor) == {id \in self.posted \cap SessionIds : id > cursor}

InHand(t) == ToSet(t.todo) \cup ToSet(t.out)

Subscribed ==
  /\ self.ws = "subscribing"
  /\ LET workers == {t \in tasks : t.by = "worker"}
         answer == Handler("socket", "session", Since(self.cursor), "lock")
     IN /\ tasks' = (tasks \ workers) \cup (IF answer.todo = <<>> THEN {} ELSE {answer})
        /\ self' = [self EXCEPT !.ws = "ready", !.fallback = FALSE, !.asked = {},
                                !.dropped = @ \cup UNION {InHand(t) : t \in workers}]
  /\ UNCHANGED <<pending, host>>

(* disconnect, or a subscription that failed: _ensure_fallback_workers.        *)
Disconnect ==
  /\ self.ws # "down"
  /\ self' = [self EXCEPT !.ws = "down", !.fallback = TRUE]
  /\ UNCHANGED <<tasks, pending, host>>

-----------------------------------------------------------------------------
(* _session_watch_worker: it asks with the cursor of the moment and handles    *)
(* what comes back, which a push may have overtaken.                           *)
WatchAsks ==
  /\ self.fallback /\ self.asked = {}
  /\ ~ \E t \in tasks : t.by = "worker" /\ t.kind = "session"
  /\ self' = [self EXCEPT !.asked = {self.cursor}]
  /\ UNCHANGED <<tasks, pending, host>>

WatchAnswered(cursor) ==
  /\ cursor \in self.asked
  /\ self' = [self EXCEPT !.asked = {}]
  /\ tasks' = IF Since(cursor) = {} THEN tasks
              ELSE tasks \cup {Handler("worker", "session", Since(cursor), "lock")}
  /\ UNCHANGED <<pending, host>>

(* _panel_poll_worker: the last messages of the panel, oldest first.           *)
PanelPolled ==
  /\ self.fallback
  /\ ~ \E t \in tasks : t.by = "worker" /\ t.kind = "panel"
  /\ LET all == InOrder(self.posted \ SessionIds)
         last == SubSeq(all, IF Len(all) > PollLimit THEN Len(all) - PollLimit + 1 ELSE 1, Len(all))
     IN /\ \E id \in ToSet(last) : ~Knows(self.seen["panel"], id)
        /\ tasks' = tasks \cup {Handler("worker", "panel", ToSet(last), "work")}
  /\ UNCHANGED <<self, pending, host>>

-----------------------------------------------------------------------------
(* Mutant: the cursor of the payload is taken as it is. *)
MarkCursorAnyway(s, cursor) == [s EXCEPT !.cursor = cursor, !.saving = TRUE]

(* _mark_session_cursor: never backwards; the save task is started.            *)
MarkCursor(s, cursor) ==
  IF cursor < s.cursor THEN s ELSE [s EXCEPT !.cursor = cursor, !.saving = TRUE]

(* _handle_watch_payload, with the lock of the session: the cursor of the      *)
(* payload is marked first; a cold session only takes the cursor.              *)
LockFree == ~ \E t \in tasks : t.kind = "session" /\ t.by # "notify" /\ t.pc # "lock"

TakesLock(t) ==
  /\ t.pc = "lock" /\ LockFree
  /\ LET s == MarkCursor(self, Top(ToSet(t.todo)))
     IN IF s.cold
        THEN self' = [s EXCEPT !.cold = FALSE] /\ Ends(t)
        ELSE self' = s /\ Await(t, "work")
  /\ UNCHANGED <<pending, host>>

(* _flush_delayed_entries: the entries leave the buffer, the timer is cancelled. *)
Flushed(s) == [s EXCEPT !.buffer = <<>>, !.timer = FALSE]

(* _process_inbound_event for the next message: not from strangers, not twice; *)
(* a panel message without a mention waits, a mention takes the waiting ones   *)
(* with it.                                                                    *)
ProcessInboundEvent(t) ==
  /\ t.pc = "work" /\ t.out = <<>> /\ t.todo # <<>>
  /\ LET id == Head(t.todo)
         e == ById(id)
         rest == [t EXCEPT !.todo = Tail(@)]
         noted == [self EXCEPT !.seen[t.kind] = Remember(@, id)]
         goes(h) == (tasks \ {t}) \cup (IF h.todo = <<>> /\ h.out = <<>> THEN {} ELSE {h})
     IN IF ~IsAllowed(e) \/ Knows(self.seen[t.kind], id)
        THEN tasks' = goes(rest) /\ UNCHANGED self
        ELSE IF t.kind = "panel" /\ ~e.addressed
        THEN /\ self' = [noted EXCEPT !.buffer = Append(@, id), !.timer = TRUE]
             /\ tasks' = goes(rest)
        ELSE IF t.kind = "panel"
        THEN /\ self' = Flushed(noted)
             /\ tasks' = goes([rest EXCEPT !.out = Append(self.buffer, id)])
        ELSE self' = noted /\ tasks' = goes([rest EXCEPT !.out = <<id>>])
  /\ UNCHANGED <<pending, host>>

(* Mutant: the flush cancels the timer task that runs it. *)
TimerCancelsItself ==
  /\ self.timer
  /\ self' = Flushed(self)
  /\ UNCHANGED <<tasks, pending, host>>

(* _delay_flush_after: the timer task takes the entries, itself not cancelled. *)
TimerFires ==
  /\ self.timer
  /\ self' = Flushed(self)
  /\ tasks' = tasks \cup {[by |-> "timer", kind |-> "panel", todo |-> <<>>, out |-> self.buffer, pc |-> "work"]}
  /\ UNCHANGED <<pending, host>>

(* _dispatch_entries: one message to the bus for all the entries.              *)
DispatchEntries(t) ==
  /\ t.out # <<>>
  /\ HandleMessage(ById(Last(t.out)), t.out)
  /\ tasks' = (tasks \ {t}) \cup (IF t.todo = <<>> THEN {} ELSE {[t EXCEPT !.out = <<>>]})
  /\ UNCHANGED <<self, pending, turns, outbound, snd, shown, cut>>

(* _save_cursor_debounced *)
SaveCursors ==
  /\ self.saving
  /\ self' = [self EXCEPT !.file = self.cursor, !.saving = FALSE]
  /\ UNCHANGED <<tasks, pending, host>>

(* The process ends at any point and is started again: only the file is left.  *)
Restart ==
  /\ cut = {}
  /\ cut' = {<<0, FALSE>>}
  /\ self' = [Started(self.file) EXCEPT !.posted = self.posted]
  /\ tasks' = {} /\ inbound' = <<>> /\ turns' = {} /\ outbound' = <<>> /\ snd' = NoSend
  /\ published' = <<>>
  /\ UNCHANGED <<pending, shown>>

(* send: one post to the session or the panel; an error is logged. What comes  *)
(* of it is not recorded, no reply has more than one part.                     *)
Send ==
  /\ Doing("begin")
  /\ GoesOn(<<>>)
  /\ UNCHANGED <<self, tasks, pending, inbound, turns, outbound, published, shown, cut>>

Next ==
  \/ Host
  \/ \E e \in Events : Post(e)
  \/ Connect \/ Subscribed \/ Disconnect
  \/ WatchAsks \/ PanelPolled \/ \E c \in self.asked : WatchAnswered(c)
  \/ \E t \in tasks : TakesLock(t) \/ ProcessInboundEvent(t) \/ DispatchEntries(t)
  \/ TimerFires \/ SaveCursors \/ Restart \/ Send
=============================================================================
