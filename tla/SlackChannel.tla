---------------------------- MODULE SlackChannel ---------------------------
(* The Slack adapter: a mention in a channel comes as two events, message and  *)
(* app_mention, of which one is to be forwarded; the id of the bot, which      *)
(* tells them apart, is asked for once at the start.                           *)
EXTENDS ChannelBase

Types == {"message", "app_mention"}

Init ==
  /\ HostInit
  /\ \E known, open \in BOOLEAN :
       self = [name |-> "slack",
               botId |-> known,     \* auth_test succeeded: _bot_user_id is set
               open |-> open,       \* group_policy is "open", else "mention"
               came |-> {},         \* events that the platform has sent
               working |-> {}]      \* messages that carry the working reaction

Mentions(e) == e.addressed /\ ~e.direct

(* _on_socket_request: first the acknowledgement.                              *)
OnSocketRequest(e, type) ==
  /\ tasks = {}
  /\ pending[e.id] > 0 /\ <<e.id, type>> \notin self.came
  /\ type = "app_mention" => Mentions(e)
  /\ self' = [self EXCEPT !.came = @ \cup {<<e.id, type>>}]
  /\ tasks' = {[ev |-> e, type |-> type, pc |-> "ack"]}
  /\ UNCHANGED <<pending, host>>

(* The message event of a mention is left to app_mention.                      *)
Twin(t) == t.type = "message" /\ self.botId /\ Mentions(t.ev)

(* _should_respond_in_channel *)
ShouldRespond(t) ==
  t.ev.direct \/ self.open \/ t.type = "app_mention" \/ (self.botId /\ t.ev.addressed)

(* A direct message whose text names the bot is left out too, though Slack      *)
(* sends no app_mention for it.                                                *)
Acknowledged(t) ==
  /\ t.pc = "ack"
  /\ IF Twin(t) \/ ~ShouldRespond(t) THEN Ends(t)
     ELSE Await(t, "react") \/ (t.ev.direct /\ self.botId /\ Ends(t))
  /\ UNCHANGED <<self, pending, host>>

AddReaction(t) ==
  /\ t.pc = "react"
  /\ \E done \in BOOLEAN :
       self' = [self EXCEPT !.working = IF done THEN @ \cup {t.ev.id} ELSE @]
  /\ Await(t, "publish")
  /\ UNCHANGED <<pending, host>>

Publishes(t) ==
  /\ t.pc = "publish"
  /\ HandleMessage(t.ev, <<t.ev.id>>)
  /\ Ends(t)
  /\ UNCHANGED <<self, pending, turns, outbound, snd, shown, cut>>

(* send: the text, the files, each of which may fail for itself, and at a      *)
(* final message the reactions. An error in posting the text ends it.          *)
SendBegins ==
  /\ Doing("begin")
  /\ GoesOn((IF snd.msg.text \/ snd.msg.files = 0 THEN <<"text">> ELSE <<>>)
            \o Files \o IF snd.msg.final THEN <<"react">> ELSE <<>>)
  /\ UNCHANGED <<self, tasks, pending, inbound, turns, outbound, published, shown, cut>>

SendText ==
  /\ Doing("text")
  /\ Shows
  /\ GoesOn(Left)
  /\ UNCHANGED <<self, tasks, pending, inbound, turns, outbound, published, cut>>

SendFile ==
  /\ Doing("file")
  /\ Shows \/ Lost
  /\ GoesOn(Left)
  /\ UNCHANGED <<self, tasks, pending, inbound, turns, outbound, published, cut>>

UpdateReactEmoji ==
  /\ Doing("react")
  /\ \E done \in BOOLEAN :
       self' = [self EXCEPT !.working = IF done THEN @ \ {snd.msg.re} ELSE @]
  /\ GoesOn(Left)
  /\ UNCHANGED <<tasks, pending, inbound, turns, outbound, published, shown, cut>>

SendBroken ==
  /\ BreaksOff
  /\ ~Doing("begin")
  /\ UNCHANGED <<self, tasks, pending, inbound, turns, outbound, published, shown>>

Next ==
  \/ Host
  \/ \E e \in Events, type \in Types : OnSocketRequest(e, type)
  \/ \E t \in tasks : Acknowledged(t) \/ AddReaction(t) \/ Publishes(t)
  \/ SendBegins \/ SendText \/ SendFile \/ UpdateReactEmoji \/ SendBroken
=============================================================================
