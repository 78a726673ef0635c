-------------------------- MODULE DiscordChannel ---------------------------
(* The Discord adapter: a gateway connection that is read by one loop, which *)
(* handles the messages itself, a heartbeat task, a typing loop per chat, and *)
(* posts with retries. A new connection does not resume the old one.          *)
EXTENDS ChannelBase

Init ==
  /\ HostInit
  /\ self = [name |-> "discord",
             typing |-> {},      \* _typing_tasks
             ws |-> "closed",    \* the connection: closed, open, ready
             beats |-> 0,        \* live heartbeat tasks
             botId |-> FALSE]    \* _bot_user_id is known

(* start: the connection is made, and made again whenever the loop ended.     *)
Connect ==
  /\ self.ws = "closed"
  /\ self' = [self EXCEPT !.ws = "open"]
  /\ UNCHANGED <<tasks, pending, host>>

(* HELLO: _start_heartbeat cancels the task of an earlier connection, then    *)
(* identify.                                                                  *)
Hello ==
  /\ self.ws = "open" /\ tasks = {}
  /\ self' = [self EXCEPT !.ws = "ready", !.beats = 1, !.botId = TRUE]
  /\ UNCHANGED <<tasks, pending, host>>

HeartbeatFails ==
  /\ self.beats > 0
  /\ self' = [self EXCEPT !.beats = @ - 1]
  /\ UNCHANGED <<tasks, pending, host>>

(* RECONNECT, INVALID_SESSION or the end of the connection, seen between two  *)
(* messages. What is sent meanwhile never arrives.                            *)
GatewayEnds ==
  /\ self.ws # "closed" /\ tasks = {}
  /\ self' = [self EXCEPT !.ws = "closed"]
  /\ UNCHANGED <<tasks, pending, host>>

Missed(e) ==
  /\ self.ws # "ready" /\ Arrives(e)
  /\ UNCHANGED <<self, tasks, host>>

(* _should_respond_in_group, under the policy "mention" *)
ShouldRespond(e) == e.direct \/ (self.botId /\ e.addressed)

HandleMessageCreate(e) ==
  /\ self.ws = "ready" /\ tasks = {} /\ Arrives(e)
  /\ tasks' = IF IsAllowed(e) /\ ShouldRespond(e) THEN {[ev |-> e, pc |-> "download"]} ELSE {}
  /\ UNCHANGED <<self, host>>

(* The attachments are there, or noted as failed: _start_typing.              *)
Downloaded(t) ==
  /\ t.pc = "download"
  /\ self' = [self EXCEPT !.typing = @ \cup {t.ev.chat}]
  /\ Await(t, "publish")
  /\ UNCHANGED <<pending, host>>

Publishes(t) ==
  /\ t.pc = "publish"
  /\ HandleMessage(t.ev, <<t.ev.id>>)
  /\ Ends(t)
  /\ UNCHANGED <<self, pending, turns, outbound, snd, shown, cut>>

(* send: the files; then the text in chunks, or, when there is no text and no *)
(* file went through, a note.                                                 *)
SendBegins ==
  /\ Doing("begin")
  /\ GoesOn(Files \o <<"text">>)
  /\ UNCHANGED <<self, tasks, pending, inbound, turns, outbound, published, shown, cut>>

(* _send_file with its attempts; a file that is gone or too large fails. A    *)
(* failed attempt may have reached the platform.                              *)
SendFile ==
  /\ Doing("file")
  /\ \/ Shows /\ Told(Left)
     \/ (Shows \/ Lost) /\ Failed(Left)
  /\ UNCHANGED <<self, tasks, pending, inbound, turns, outbound, published, cut>>

SendText ==
  /\ Doing("text")
  /\ LET noted == snd.failed > 0 /\ snd.failed = snd.msg.files
         what == IF snd.msg.text THEN <<"chunk1", "chunk2">>
                 ELSE IF noted THEN <<"note">> ELSE <<>>
     IN GoesOn(what \o <<"stop">>)
  /\ UNCHANGED <<self, tasks, pending, inbound, turns, outbound, published, shown, cut>>

(* _send_payload with its attempts; after a failure the rest is left out.     *)
SendPayload ==
  /\ \E what \in {"chunk1", "chunk2", "note"} :
       /\ Doing(what)
       /\ \/ Shows /\ GoesOn(Left)
          \/ (Shows \/ Lost) /\ GoesOn(<<"stop">>)
  /\ UNCHANGED <<self, tasks, pending, inbound, turns, outbound, published, cut>>

(* The finally of send: also a progress message ends typing.                  *)
StopTyping ==
  /\ Doing("stop")
  /\ self' = [self EXCEPT !.typing = @ \ {snd.msg.to}]
  /\ GoesOn(Left)
  /\ UNCHANGED <<tasks, pending, inbound, turns, outbound, published, shown, cut>>

(* The timeout of the dispatcher cancels the post that is awaited.            *)
SendTimesOut ==
  /\ Sending /\ ~Doing("begin") /\ ~Doing("stop")
  /\ GoesOn(<<"stop">>)
  /\ cut' = cut \cup {Message}
  /\ UNCHANGED <<self, tasks, pending, inbound, turns, outbound, published, shown>>

Next ==
  \/ Host
  \/ Connect \/ Hello \/ HeartbeatFails \/ GatewayEnds
  \/ \E e \in Events : Missed(e) \/ HandleMessageCreate(e)
  \/ \E t \in tasks : Downloaded(t) \/ Publishes(t)
  \/ SendBegins \/ SendFile \/ SendText \/ SendPayload \/ StopTyping \/ SendTimesOut
=============================================================================
