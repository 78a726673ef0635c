--------------------------- MODULE FeishuChannel ---------------------------
(* The Feishu adapter: events come from a thread of the SDK and each gets a   *)
(* coroutine of its own on the main loop; calls of the platform run in        *)
(* executor threads, which a cancelled send does not stop.                    *)
EXTENDS ChannelBase

Init ==
  /\ HostInit
  /\ self = [name |-> "feishu",
             seen |-> <<>>,      \* _processed_message_ids
             threads |-> {}]     \* posts under way in the executor

(* _is_group_message_for_bot, under the policy "mention" *)
ForBot(e) == e.direct \/ e.addressed

(* Mutant: the id is not entered before the first await. *)
OnMessageUnnoted(e) ==
  /\ Arrives(e)
  /\ tasks' = IF ForBot(e) THEN tasks \cup {[ev |-> e, pc |-> "react", n |-> pending[e.id]]} ELSE tasks
  /\ UNCHANGED <<self, host>>

(* Up to its first await the handler checks and enters the id and leaves out  *)
(* what is not for the bot.                                                   *)
OnMessage(e) ==
  /\ Arrives(e)
  /\ IF Knows(self.seen, e.id)
     THEN UNCHANGED <<self, tasks>>
     ELSE /\ self' = [self EXCEPT !.seen = Remember(@, e.id)]
          /\ tasks' = IF ForBot(e) THEN tasks \cup {[ev |-> e, pc |-> "react"]} ELSE tasks
  /\ UNCHANGED host

AddReaction(t) ==
  /\ t.pc = "react"
  /\ Await(t, IF t.ev.file THEN "download" ELSE "quote")
  /\ UNCHANGED <<self, pending, host>>

(* _download_and_save_media and the transcription; a failure is a line of the *)
(* content.                                                                   *)
Downloaded(t) ==
  /\ t.pc = "download"
  /\ Await(t, "quote")
  /\ UNCHANGED <<self, pending, host>>

(* The quoted message is there; without content the handler ends.             *)
Quoted(t) ==
  /\ t.pc = "quote"
  /\ Await(t, "publish") \/ (~t.ev.file /\ Ends(t))
  /\ UNCHANGED <<self, pending, host>>

Publishes(t) ==
  /\ t.pc = "publish"
  /\ HandleMessage(t.ev, <<t.ev.id>>)
  /\ Ends(t)
  /\ UNCHANGED <<self, pending, turns, outbound, snd, shown, cut>>

(* send: a tool hint is one card; else the files, then the text.              *)
SendBegins ==
  /\ Doing("begin")
  /\ \/ GoesOn(Files \o IF snd.msg.text THEN <<"text">> ELSE <<>>)
     \/ ~snd.msg.final /\ GoesOn(<<"hint">>)
  /\ UNCHANGED <<self, tasks, pending, inbound, turns, outbound, published, shown, cut>>

(* A file that is missing or was not uploaded is passed over.                 *)
PassOver ==
  /\ Doing("file")
  /\ GoesOn(Left)
  /\ UNCHANGED <<self, tasks, pending, inbound, turns, outbound, published, shown, cut>>

(* Mutant: _do_send is given to the executor and not awaited. *)
DoSendUnawaited ==
  /\ \E what \in {"file", "text", "hint"} :
       /\ Doing(what)
       /\ self' = [self EXCEPT !.threads = @ \cup {Message}]
       /\ GoesOn(Left)
  /\ UNCHANGED <<tasks, pending, inbound, turns, outbound, published, shown, cut>>

(* _do_send is given to the executor and awaited.                             *)
DoSend ==
  /\ \E what \in {"file", "text", "hint"} :
       /\ Doing(what)
       /\ self' = [self EXCEPT !.threads = @ \cup {Message}]
       /\ GoesOn(<<"wait">> \o Left)
  /\ UNCHANGED <<tasks, pending, inbound, turns, outbound, published, shown, cut>>

(* The thread is through: reply or create was accepted, or was not.           *)
ThreadDone(th) ==
  /\ th \in self.threads
  /\ self' = [self EXCEPT !.threads = @ \ {th}]
  /\ shown' = Joined(th) \/ Lost
  /\ IF Doing("wait") /\ th = Message
     THEN GoesOn(Left) ELSE UNCHANGED snd
  /\ UNCHANGED <<tasks, pending, inbound, turns, outbound, published, cut>>

SendTimesOut ==
  /\ BreaksOff
  /\ ~Doing("begin")
  /\ UNCHANGED <<self, tasks, pending, inbound, turns, outbound, published, shown>>

Next ==
  \/ Host
  \/ \E e \in Events : OnMessage(e)
  \/ \E t \in tasks : AddReaction(t) \/ Downloaded(t) \/ Quoted(t) \/ Publishes(t)
  \/ SendBegins \/ PassOver \/ DoSend \/ SendTimesOut
  \/ \E th \in self.threads : ThreadDone(th)
=============================================================================
