---------------------------- MODULE EmailChannel ---------------------------
(* The email adapter: a poll reads the unseen mails of one account after the   *)
(* other in a thread, marks them seen, and hands them on only when all         *)
(* accounts are read. Replies are sent by SMTP in a thread.                    *)
EXTENDS ChannelBase

Accounts == 1 .. 2
Account(e) == IF e.direct THEN 1 ELSE 2

Init ==
  /\ HostInit
  /\ self = [name |-> "email",
             processed |-> {},    \* _processed_uids, of all accounts together
             account |-> 0,       \* the account that the poll reads; 0: no poll
             got |-> <<>>,        \* messages, fetched or not handed on yet
             lastOf |-> {},       \* _last_subject_by_chat: chats that wrote
             smtp |-> {}]         \* mails under way to the SMTP server

(* start: after its sleep the poll begins with the first account.             *)
Poll ==
  /\ self.account = 0 /\ self.got = <<>>
  /\ \E e \in Events : pending[e.id] > 0
  /\ self' = [self EXCEPT !.account = 1]
  /\ UNCHANGED <<tasks, pending, host>>

(* _fetch_messages, one unseen mail: a known uid is passed over, else the      *)
(* message is kept, its uid entered and the mail marked seen.                  *)
FetchMessage(e) ==
  /\ Account(e) = self.account
  /\ e.uid \notin self.processed
  /\ Arrives(e)
  /\ self' = [self EXCEPT !.got = Append(@, e), !.processed = @ \cup {e.uid}]
  /\ UNCHANGED <<tasks, host>>

AccountRead ==
  /\ self.account > 0
  /\ self' = [self EXCEPT !.account = IF @ \in Accounts /\ @ + 1 \in Accounts THEN @ + 1 ELSE 0]
  /\ UNCHANGED <<tasks, pending, host>>

(* The connection breaks: the exception leaves _fetch_new_messages and takes   *)
(* the messages of this and of the earlier accounts with it.                   *)
FetchFails ==
  /\ self.account > 0
  /\ self' = [self EXCEPT !.account = 0, !.got = <<>>]
  /\ UNCHANGED <<tasks, pending, host>>

(* The items of a finished poll are handed on, one after the other.            *)
HandsOn ==
  /\ self.account = 0 /\ self.got # <<>>
  /\ HandleMessage(Head(self.got), <<Head(self.got).id>>)
  /\ self' = [self EXCEPT !.got = Tail(@), !.lastOf = @ \cup {Head(self.got).chat}]
  /\ UNCHANGED <<tasks, pending, turns, outbound, snd, shown, cut>>

(* send: answers go out only with auto_reply_enabled.                          *)
SendBegins(autoReply) ==
  /\ Doing("begin")
  /\ IF snd.msg.to \in self.lastOf /\ ~autoReply
     THEN GoesOn(<<>>) /\ UNCHANGED self
     ELSE /\ self' = [self EXCEPT !.smtp = @ \cup {Message}]
          /\ GoesOn(<<"wait">>)
  /\ UNCHANGED <<tasks, pending, inbound, turns, outbound, published, shown, cut>>

(* _smtp_send has ended: the mail is out or not, and a failure is raised.      *)
SmtpDone(m) ==
  /\ m \in self.smtp
  /\ self' = [self EXCEPT !.smtp = @ \ {m}]
  /\ shown' = Joined(m) \/ Lost
  /\ IF Doing("wait") /\ m = Message
     THEN GoesOn(Left) ELSE UNCHANGED snd
  /\ UNCHANGED <<tasks, pending, inbound, turns, outbound, published, cut>>

SendTimesOut ==
  /\ BreaksOff
  /\ Doing("wait")
  /\ UNCHANGED <<self, tasks, pending, inbound, turns, outbound, published, shown>>

Next ==
  \/ Host
  \/ Poll \/ AccountRead \/ FetchFails \/ HandsOn
  \/ \E e \in Events : FetchMessage(e)
  \/ \E autoReply \in BOOLEAN : SendBegins(autoReply)
  \/ \E m \in self.smtp : SmtpDone(m)
  \/ SendTimesOut
=============================================================================
