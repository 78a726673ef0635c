--------------------------- MODULE MatrixChannel ---------------------------
(* The Matrix adapter: the sync loop calls the handlers one after the other;  *)
(* a typing task per room is started before the message is published and      *)
(* ended by the final reply, with an await between the two halves of both.    *)
EXTENDS ChannelBase

Init ==
  /\ HostInit
  /\ self = [name |-> "matrix",
             typing |-> {},      \* _typing_tasks
             notice |-> {}]      \* rooms in which the platform shows the typing notice

(* _should_process_message, under the policy "mention" *)
ShouldProcess(e) == IsAllowed(e) /\ (e.direct \/ e.addressed)

(* The first half of _start_typing_keepalive: the task of the room is popped  *)
(* and cancelled, and the notice is sent.                                     *)
StartTyping(c) == self' = [self EXCEPT !.typing = @ \ {c}, !.notice = @ \cup {c}]

OnMessage(e) ==
  /\ ~e.file
  /\ tasks = {} /\ Arrives(e)
  /\ IF ShouldProcess(e)
     THEN tasks' = {[ev |-> e, pc |-> "typing"]} /\ StartTyping(e.chat)
     ELSE UNCHANGED <<self, tasks>>
  /\ UNCHANGED host

OnMediaMessage(e) ==
  /\ e.file
  /\ tasks = {} /\ Arrives(e)
  /\ tasks' = IF ShouldProcess(e) THEN {[ev |-> e, pc |-> "download"]} ELSE {}
  /\ UNCHANGED <<self, host>>

(* _fetch_media_attachment has returned the file or a mark of the failure.    *)
Downloaded(t) ==
  /\ t.pc = "download"
  /\ StartTyping(t.ev.chat)
  /\ Await(t, "typing")
  /\ UNCHANGED <<pending, host>>

(* The second half: the task that repeats the notice.                         *)
KeepsTyping(t) ==
  /\ t.pc = "typing"
  /\ self' = [self EXCEPT !.typing = @ \cup {t.ev.chat}]
  /\ Await(t, "publish")
  /\ UNCHANGED <<pending, host>>

Publishes(t) ==
  /\ t.pc = "publish"
  /\ HandleMessage(t.ev, <<t.ev.id>>)
  /\ Ends(t)
  /\ UNCHANGED <<self, pending, turns, outbound, snd, shown, cut>>

(* send: the attachments, each once; then the text with the marks of those    *)
(* that failed; in the end typing stops, unless the message is progress.      *)
SendBegins ==
  /\ Doing("begin")
  /\ GoesOn(Files \o <<"text">>)
  /\ UNCHANGED <<self, tasks, pending, inbound, turns, outbound, published, shown, cut>>

(* _upload_and_send_attachment: missing, too large for the local or the       *)
(* server's limit, refused, sent, or answered with an error that is not seen. *)
SendFile ==
  /\ Doing("file")
  /\ \/ (Shows \/ Lost) /\ GoesOn(Left)
     \/ Lost /\ Failed(Left)
  /\ UNCHANGED <<self, tasks, pending, inbound, turns, outbound, published, cut>>

Ending == IF snd.msg.final THEN <<"stop">> ELSE <<>>

SendText ==
  /\ Doing("text")
  /\ IF snd.msg.text \/ snd.failed > 0
     THEN Shows \/ Lost
     ELSE Lost
  /\ GoesOn(Ending)
  /\ UNCHANGED <<self, tasks, pending, inbound, turns, outbound, published, cut>>

(* _stop_typing_keepalive: the task is popped, then the notice is withdrawn.  *)
StopTyping ==
  /\ Doing("stop")
  /\ self' = [self EXCEPT !.typing = @ \ {snd.msg.to}]
  /\ GoesOn(<<"withdraw">>)
  /\ UNCHANGED <<tasks, pending, inbound, turns, outbound, published, shown, cut>>

Withdraw ==
  /\ Doing("withdraw")
  /\ self' = [self EXCEPT !.notice = @ \ {snd.msg.to}]
  /\ GoesOn(Left)
  /\ UNCHANGED <<tasks, pending, inbound, turns, outbound, published, shown, cut>>

(* The timeout of the dispatcher while an upload or a post is awaited, and the *)
(* finally still runs; or while the notice is being withdrawn, which   *)
(* then stays until the platform lets it expire.                               *)
SendTimesOut ==
  /\ \/ (Doing("file") \/ Doing("text")) /\ GoesOn(Ending)
     \/ Doing("withdraw") /\ GoesOn(<<>>)
  /\ cut' = cut \cup {Message}
  /\ UNCHANGED <<self, tasks, pending, inbound, turns, outbound, published, shown>>

Next ==
  \/ Host
  \/ \E e \in Events : OnMessage(e) \/ OnMediaMessage(e)
  \/ \E t \in tasks : Downloaded(t) \/ KeepsTyping(t) \/ Publishes(t)
  \/ SendBegins \/ SendFile \/ SendText \/ StopTyping \/ Withdraw \/ SendTimesOut
=============================================================================
