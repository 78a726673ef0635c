----------------------- MODULE WecomSelfbuiltChannel -----------------------
(* The adapter of a self-built WeCom application: callbacks by HTTP, each      *)
(* answered only when the message is in the queue, so that the platform        *)
(* repeats a callback while the queue is full; replies with an access token.   *)
EXTENDS AccessToken

Init ==
  /\ HostInit
  /\ self = [name |-> "wecom_selfbuilt",
             seen |-> <<>>,      \* _processed_ids
             age |-> TokenLife, held |-> 0, spent |-> 0]

(* _handle_message: a known id is answered at once. A command stands for the   *)
(* event enter_agent, which has no id; a file for a type that is not handled.  *)
HandleCallback(e) ==
  /\ Arrives(e)
  /\ \/ /\ ~e.command /\ Knows(self.seen, e.id)
        /\ UNCHANGED <<self, tasks>>
     \/ /\ ~e.command /\ ~Knows(self.seen, e.id)
        /\ self' = [self EXCEPT !.seen = Remember(@, e.id)]
        /\ tasks' = IF e.file THEN tasks ELSE tasks \cup {[ev |-> e, pc |-> "publish"]}
     \/ /\ e.command
        /\ tasks' = tasks \cup {[ev |-> e, pc |-> "publish"]}
        /\ UNCHANGED self
  /\ UNCHANGED host

(* The message, or for enter_agent a ping in the name of the system channel,   *)
(* goes to the bus directly.                                                   *)
Publishes(t) ==
  /\ t.pc = "publish"
  /\ Len(inbound) < InMax
  /\ inbound' = Append(inbound, t.ev)
  /\ published' = Append(published, t.ev.id)
  /\ IF t.ev.command THEN Await(t, "welcome") ELSE Ends(t)
  /\ UNCHANGED <<self, pending, turns, outbound, snd, shown, cut>>

(* The welcome message is sent by the handler itself.                          *)
Welcomes(t) ==
  /\ t.pc = "welcome"
  /\ Ends(t)
  /\ self' = [self EXCEPT !.age = IF Usable THEN @ ELSE 0] \/ UNCHANGED self
  /\ UNCHANGED <<pending, host>>

(* send: nothing without text; else the token, then one post.                  *)
SendBegins ==
  /\ Doing("begin")
  /\ IF snd.msg.text
     THEN GetAccessToken(<<"text">>)
     ELSE GoesOn(<<>>) /\ UNCHANGED <<self, cut>>
  /\ UNCHANGED <<tasks, pending, inbound, turns, outbound, published, shown>>

PostMessage ==
  /\ Doing("text")
  /\ Shows \/ Lost
  /\ GoesOn(Left)
  /\ UNCHANGED <<self, tasks, pending, inbound, turns, outbound, published, cut>>

SendTimesOut ==
  /\ BreaksOff
  /\ ~Doing("begin")
  /\ UNCHANGED <<self, tasks, pending, inbound, turns, outbound, published, shown>>

Next ==
  \/ Host \/ Tick
  \/ \E e \in Events : HandleCallback(e)
  \/ \E t \in tasks : Publishes(t) \/ Welcomes(t)
  \/ SendBegins \/ PostMessage \/ SendTimesOut
=============================================================================
