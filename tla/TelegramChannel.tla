-------------------------- MODULE TelegramChannel --------------------------
(* The Telegram adapter: updates are handled one after the other, the parts *)
(* of an album are buffered and forwarded by a task of their own, a typing   *)
(* loop runs per chat from the arrival of a message to the final reply.      *)
EXTENDS ChannelBase

Albums == {e.album : e \in Events} \ {"none"}

Init ==
  /\ HostInit
  /\ self = [name |-> "telegram",
             typing |-> {},                          \* _typing_tasks
             buffers |-> [a \in Albums |-> <<>>],    \* _media_group_buffers; <<>>: none
             flushers |-> {}]                        \* _media_group_tasks

(* _is_group_message_for_bot, under the policy "mention" *)
ForBot(e) == e.direct \/ e.addressed

(* _start_typing, _stop_typing *)
StartTyping(c) == self' = [self EXCEPT !.typing = @ \cup {c}]
StopTyping(c) == self' = [self EXCEPT !.typing = @ \ {c}]

ForwardCommand(e) ==
  /\ e.command
  /\ tasks = {} /\ Arrives(e)
  /\ tasks' = {[ev |-> e, pc |-> "publish"]}
  /\ UNCHANGED <<self, host>>

OnMessage(e) ==
  /\ ~e.command
  /\ tasks = {} /\ Arrives(e)
  /\ tasks' = IF ForBot(e) THEN {[ev |-> e, pc |-> "download"]} ELSE {}
  /\ UNCHANGED <<self, host>>

(* The media are there: the handler starts typing and goes on to publish, or *)
(* it adds the part of an album to its buffer. The album is given a flush    *)
(* task when it has none.                                                    *)
Downloaded(t) ==
  /\ t.pc = "download"
  /\ LET e == t.ev
     IN IF e.album = "none"
        THEN StartTyping(e.chat) /\ Await(t, "publish")
        ELSE /\ self' =
                [self EXCEPT
                   !.buffers[e.album] = Append(@, e.id),
                   !.typing = IF self.buffers[e.album] = <<>> THEN @ \cup {e.chat} ELSE @,
                   !.flushers = IF \E f \in @ : f.album = e.album THEN @
                                ELSE @ \cup {[album |-> e.album, ids |-> <<>>]}]
             /\ Ends(t)
  /\ UNCHANGED <<pending, host>>

Publishes(t) ==
  /\ t.pc = "publish"
  /\ HandleMessage(t.ev, <<t.ev.id>>)
  /\ Ends(t)
  /\ UNCHANGED <<self, pending, turns, outbound, snd, shown, cut>>

(* _flush_media_group: after its sleep the task takes the buffer and         *)
(* publishes it; only then it leaves _media_group_tasks.                     *)
FlushTakes(f) ==
  /\ f \in self.flushers /\ f.ids = <<>>
  /\ self' = [self EXCEPT !.buffers[f.album] = <<>>,
                          !.flushers = (@ \ {f}) \cup {[f EXCEPT !.ids = self.buffers[f.album]]}]
  /\ UNCHANGED <<tasks, pending, host>>

FlushPublishes(f) ==
  /\ f \in self.flushers /\ f.ids # <<>>
  /\ HandleMessage(CHOOSE e \in Events : e.id = Head(f.ids), f.ids)
  /\ self' = [self EXCEPT !.flushers = @ \ {f}]
  /\ UNCHANGED <<tasks, pending, turns, outbound, snd, shown, cut>>

(* Mutant: typing ends with progress messages only. *)
SendBeginsTyping ==
  /\ Doing("begin")
  /\ IF ~snd.msg.final THEN StopTyping(snd.msg.to) ELSE UNCHANGED self
  /\ GoesOn(Files \o IF snd.msg.text THEN <<"html">> ELSE <<>>)
  /\ UNCHANGED <<tasks, pending, inbound, turns, outbound, published, shown, cut>>

(* send: typing ends with a final message; then the media, then the text.    *)
SendBegins ==
  /\ Doing("begin")
  /\ IF snd.msg.final THEN StopTyping(snd.msg.to) ELSE UNCHANGED self
  /\ GoesOn(Files \o IF snd.msg.text THEN <<"html">> ELSE <<>>)
  /\ UNCHANGED <<tasks, pending, inbound, turns, outbound, published, shown, cut>>

(* Mutant: a file that failed is only logged. *)
SendFileSilent ==
  /\ Doing("file")
  /\ \/ Shows /\ Told(Left)
     \/ Lost /\ GoesOn(Left)
  /\ UNCHANGED <<self, tasks, pending, inbound, turns, outbound, published, cut>>

SendFile ==
  /\ Doing("file")
  /\ \/ Shows /\ Told(Left)
     \/ Lost /\ GoesOn(<<"note">> \o Left)
  /\ UNCHANGED <<self, tasks, pending, inbound, turns, outbound, published, cut>>

SendNote ==
  /\ Doing("note")
  /\ Shows /\ Told(Left)
  /\ UNCHANGED <<self, tasks, pending, inbound, turns, outbound, published, cut>>

(* _send_text: HTML, and after an error plain text; the error may be that    *)
(* only the answer of the platform was lost.                                 *)
SendText ==
  /\ \/ Doing("html") /\ Shows /\ GoesOn(Left)
     \/ Doing("html") /\ (Shows \/ Lost) /\ GoesOn(<<"plain">> \o Left)
     \/ Doing("plain") /\ (Shows \/ Lost) /\ GoesOn(Left)
  /\ UNCHANGED <<self, tasks, pending, inbound, turns, outbound, published, cut>>

(* The timeout of the dispatcher, or an error in sending a note. *)
SendBroken ==
  /\ BreaksOff
  /\ ~Doing("begin")
  /\ UNCHANGED <<self, tasks, pending, inbound, turns, outbound, published, shown>>

Next ==
  \/ Host
  \/ \E e \in Events : ForwardCommand(e) \/ OnMessage(e)
  \/ \E t \in tasks : Downloaded(t) \/ Publishes(t)
  \/ \E f \in self.flushers : FlushTakes(f) \/ FlushPublishes(f)
  \/ SendBegins \/ SendFile \/ SendNote \/ SendText \/ SendBroken
=============================================================================
