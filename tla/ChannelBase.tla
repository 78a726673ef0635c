---------------------------- MODULE ChannelBase ----------------------------
(* What every chat channel is built on: BaseChannel, the two queues of the  *)
(* message bus, the outbound dispatcher of the ChannelManager, and the      *)
(* agent loop as a channel sees it. One channel is enabled; the attributes  *)
(* of its object are the record self, its running coroutines are in tasks.  *)
(* The platform is outside: it has the messages Events for the bot and may  *)
(* deliver one of them more than once.                                      *)
EXTENDS Naturals, Sequences, FiniteSets

CONSTANTS
  Events,    \* messages on the platform: [id, chat, friend, direct, addressed,
             \*   file, album, command]
  Traffic,   \* the deliveries that a platform may make: functions from ids to their number
  InMax,     \* maxsize of the inbound queue
  OutMax,    \* maxsize of the outbound queue
  Window,    \* message ids a channel remembers
  Progress   \* ids of the events whose turn sends a progress message first

VARIABLES
  self,       \* the attributes of the channel object
  tasks,      \* its handlers that are suspended at an await
  pending,    \* per event: deliveries the platform has left
  inbound,    \* bus.inbound
  turns,      \* messages the agent loop works on
  outbound,   \* bus.outbound
  snd,        \* channel.send: the message, what is left to do, how many files failed,
              \* and of how many the user has the file or a note
  published,  \* history: ids handed to the bus, in order
  shown,      \* history: the messages that the platform shows parts of, in order
  cut         \* history: numbers of the messages whose send ended early

vars == <<self, tasks, pending, inbound, turns, outbound, snd, published, shown, cut>>
host == <<inbound, turns, outbound, snd, published, shown, cut>>

ASSUME QueuesBounded == InMax \in Nat \ {0} /\ OutMax \in Nat \ {0}
ASSUME WindowPositive == Window \in Nat \ {0}
ASSUME EventsNamed ==
  /\ IsFiniteSet(Events)
  /\ \A e \in Events : e.id \in Nat \ {0}
  /\ \A e, f \in Events : e.id = f.id => e = f
ASSUME AlbumsInOneChat == \A e, f \in Events : e.album = f.album /\ e.album # "none" => e.chat = f.chat
ASSUME TrafficBounded == Traffic \subseteq [{e.id : e \in Events} -> 0 .. 2]

NoSend == [todo |-> <<>>]

(* BaseChannel.is_allowed *)
IsAllowed(e) == e.friend

(* An id enters the window of remembered ids, the oldest ones leave. *)
Remember(seen, id) ==
  LET s == Append(seen, id)
  IN IF Len(s) > Window THEN SubSeq(s, Len(s) - Window + 1, Len(s)) ELSE s

Knows(seen, id) == \E i \in DOMAIN seen : seen[i] = id

(* Mutant: the bus takes a message also when its queue is full. *)
HandleMessageUnbounded(e, ids) ==
  IF ~IsAllowed(e)
  THEN UNCHANGED <<inbound, published>>
  ELSE inbound' = Append(inbound, e) /\ published' = published \o ids

(* BaseChannel._handle_message, for a message made of the events with these *)
(* ids: nothing for a sender who is not allowed, else bus.publish_inbound,   *)
(* which waits while the queue is full.                                      *)
HandleMessage(e, ids) ==
  IF ~IsAllowed(e)
  THEN UNCHANGED <<inbound, published>>
  ELSE /\ Len(inbound) < InMax
       /\ inbound' = Append(inbound, e)
       /\ published' = published \o ids

(* The platform calls the channel with an event. *)
Arrives(e) ==
  /\ pending[e.id] > 0
  /\ pending' = [pending EXCEPT ![e.id] = @ - 1]

(* The handler t goes on to its next await, or ends. *)
Await(t, pc) == tasks' = (tasks \ {t}) \cup {[t EXCEPT !.pc = pc]}
Ends(t) == tasks' = tasks \ {t}

HostInit ==
  /\ tasks = {}
  /\ pending \in Traffic
  /\ inbound = <<>> /\ turns = {} /\ outbound = <<>>
  /\ snd = NoSend
  /\ published = <<>> /\ shown = <<>> /\ cut = {}

-----------------------------------------------------------------------------
(* The agent loop: it takes a message, may publish progress, and publishes   *)
(* one final reply, with or without files. A message may be dropped for        *)
(* another one of its chat.                                                    *)
Take ==
  /\ inbound # <<>>
  /\ inbound' = Tail(inbound)
  /\ turns' = turns \cup {[ev |-> Head(inbound), told |-> FALSE]}
  /\ UNCHANGED <<self, tasks, pending, outbound, snd, published, shown, cut>>

Superseded(t) ==
  /\ \E u \in turns \ {t} : u.ev.chat = t.ev.chat
  /\ turns' = turns \ {t}
  /\ UNCHANGED <<self, tasks, pending, inbound, outbound, snd, published, shown, cut>>

Reply(t, final, files, text) ==
  [re |-> t.ev.id, to |-> t.ev.chat, final |-> final, files |-> files, text |-> text]

Reports(t) ==
  /\ t \in turns /\ ~t.told /\ t.ev.id \in Progress
  /\ Len(outbound) < OutMax
  /\ outbound' = Append(outbound, Reply(t, FALSE, 0, TRUE))
  /\ turns' = (turns \ {t}) \cup {[t EXCEPT !.told = TRUE]}
  /\ UNCHANGED <<self, tasks, pending, inbound, snd, published, shown, cut>>

Answers(t) ==
  /\ t \in turns
  /\ t.ev.id \in Progress => t.told
  /\ Len(outbound) < OutMax
  /\ \E files \in IF t.ev.file THEN {1, 2} ELSE {0}, text \in BOOLEAN :
       /\ files > 0 \/ text
       /\ outbound' = Append(outbound, Reply(t, TRUE, files, text))
  /\ turns' = turns \ {t}
  /\ UNCHANGED <<self, tasks, pending, inbound, snd, published, shown, cut>>

-----------------------------------------------------------------------------
(* ChannelManager._dispatch_outbound: one message at a time is awaited in    *)
(* channel.send. A progress message is skipped when send_progress is off.    *)
Dispatch ==
  /\ snd = NoSend /\ outbound # <<>>
  /\ outbound' = Tail(outbound)
  /\ \/ snd' = [msg |-> Head(outbound), todo |-> <<"begin">>, failed |-> 0, told |-> 0]
     \/ ~Head(outbound).final /\ snd' = NoSend
  /\ UNCHANGED <<self, tasks, pending, inbound, turns, published, shown, cut>>

Sending == snd.todo # <<>>
Doing(step) == Sending /\ Head(snd.todo) = step
Left == Tail(snd.todo)

(* The send goes on with the steps todo; the same after a file that the user   *)
(* has, or has a note about, and after a file that failed.                     *)
GoesOn(todo) == snd' = [snd EXCEPT !.todo = todo]
Told(todo) == snd' = [snd EXCEPT !.todo = todo, !.told = @ + 1]
Failed(todo) == snd' = [snd EXCEPT !.todo = todo, !.failed = @ + 1]

Returns ==
  /\ snd # NoSend /\ ~Sending
  /\ snd' = NoSend
  /\ UNCHANGED <<self, tasks, pending, inbound, turns, outbound, published, shown, cut>>

(* The platform shows a part of the message key. *)
Message == <<snd.msg.re, snd.msg.final>>
Joined(key) == IF shown # <<>> /\ shown[Len(shown)] = key THEN shown ELSE Append(shown, key)
Shows == shown' = Joined(Message)
Lost == UNCHANGED shown

(* It returns early, by an exception that the dispatcher logs or by the      *)
(* timeout of wait_for.                                                      *)
BreaksOff ==
  /\ Sending
  /\ snd' = NoSend
  /\ cut' = cut \cup {Message}

Files == [i \in 1 .. snd.msg.files |-> "file"]

Host == Take \/ Dispatch \/ Returns \/ \E t \in turns : Superseded(t) \/ Reports(t) \/ Answers(t)
=============================================================================
