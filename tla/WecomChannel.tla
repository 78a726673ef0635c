---------------------------- MODULE WecomChannel ---------------------------
(* The WeCom adapter: a reply needs the frame of a message of the same chat,   *)
(* and only the last one is kept.                                              *)
EXTENDS ChannelBase

Chats == {e.chat : e \in Events}

Init ==
  /\ HostInit
  /\ self = [name |-> "wecom",
             seen |-> <<>>,                        \* _processed_message_ids
             frames |-> [c \in Chats |-> 0]]       \* _chat_frames, by the id of the message; 0: none

(* _process_message: the id is entered before the media are fetched.           *)
ProcessMessage(e) ==
  /\ Arrives(e)
  /\ IF Knows(self.seen, e.id)
     THEN UNCHANGED <<self, tasks>>
     ELSE /\ self' = [self EXCEPT !.seen = Remember(@, e.id)]
          /\ tasks' = tasks \cup {[ev |-> e, pc |-> "download"]}
  /\ UNCHANGED host

(* The content is complete: an empty one is left out, else the frame is kept.  *)
Downloaded(t) ==
  /\ t.pc = "download"
  /\ \/ /\ self' = [self EXCEPT !.frames[t.ev.chat] = t.ev.id]
        /\ Await(t, "publish")
     \/ ~t.ev.file /\ Ends(t) /\ UNCHANGED self
  /\ UNCHANGED <<pending, host>>

Publishes(t) ==
  /\ t.pc = "publish"
  /\ HandleMessage(t.ev, <<t.ev.id>>)
  /\ Ends(t)
  /\ UNCHANGED <<self, pending, turns, outbound, snd, shown, cut>>

(* send: without text or without a frame nothing; else one reply to the frame, *)
(* whose failure is logged.                                                    *)
Send ==
  /\ Doing("begin")
  /\ \/ snd.msg.text /\ self.frames[snd.msg.to] # 0 /\ Shows
     \/ Lost
  /\ GoesOn(<<>>)
  /\ UNCHANGED <<self, tasks, pending, inbound, turns, outbound, published, cut>>

Next ==
  \/ Host
  \/ \E e \in Events : ProcessMessage(e)
  \/ \E t \in tasks : Downloaded(t) \/ Publishes(t)
  \/ Send
=============================================================================
