----------------------------- MODULE QQChannel -----------------------------
(* The QQ adapter: ids are remembered before anything else is done with a      *)
(* message; the kind of a chat, which decides how a reply is posted, is known  *)
(* only from the messages of this process.                                     *)
EXTENDS ChannelBase

Init ==
  /\ HostInit
  /\ self = [name |-> "qq",
             seen |-> <<>>,      \* _processed_ids
             groups |-> {},      \* _chat_type_cache: the chats known as groups
             msgSeq |-> 1]       \* _msg_seq

(* _on_message has one await, at the publishing.                               *)
OnMessage(e) ==
  /\ Arrives(e)
  /\ IF Knows(self.seen, e.id)
     THEN UNCHANGED <<self, tasks>>
     ELSE /\ \/ /\ self' = [self EXCEPT !.seen = Remember(@, e.id),
                                        !.groups = IF e.direct THEN @ \ {e.chat} ELSE @ \cup {e.chat}]
                /\ tasks' = tasks \cup {[ev |-> e, pc |-> "publish"]}
             \/ /\ e.file      \* no text besides the attachment: left out
                /\ self' = [self EXCEPT !.seen = Remember(@, e.id)]
                /\ UNCHANGED tasks
  /\ UNCHANGED host

Publishes(t) ==
  /\ HandleMessage(t.ev, <<t.ev.id>>)
  /\ Ends(t)
  /\ UNCHANGED <<self, pending, turns, outbound, snd, shown, cut>>

(* send: the sequence number advances, the post goes to the group or to the    *)
(* user; errors are logged.                                                    *)
SendBegins ==
  /\ Doing("begin")
  /\ self' = [self EXCEPT !.msgSeq = @ + 1]
  /\ GoesOn(<<IF snd.msg.to \in self.groups THEN "group" ELSE "c2c">>)
  /\ UNCHANGED <<tasks, pending, inbound, turns, outbound, published, shown, cut>>

PostMessage ==
  /\ Doing("group") \/ Doing("c2c")
  /\ Shows \/ Lost
  /\ GoesOn(Left)
  /\ UNCHANGED <<self, tasks, pending, inbound, turns, outbound, published, cut>>

Next ==
  \/ Host
  \/ \E e \in Events : OnMessage(e)
  \/ \E t \in tasks : Publishes(t)
  \/ SendBegins \/ PostMessage
=============================================================================
