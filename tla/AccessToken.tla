---------------------------- MODULE AccessToken ----------------------------
(* The access token of DingTalk and of a self-built WeCom application: it is   *)
(* fetched when needed, kept until a margin before its end, and held by a     *)
(* send from its start. Time passes in ticks; the dispatcher ends a send that  *)
(* takes SendTimeout of them.                                                  *)
EXTENDS ChannelBase

CONSTANTS
  TokenLife,    \* the platform accepts a token for so long
  TokenMargin,  \* how long before its end the channel stops using it
  SendTimeout   \* send_timeout_s

ASSUME TokenTimes ==
  TokenLife \in Nat /\ TokenMargin \in 0 .. TokenLife /\ SendTimeout \in Nat

(* Attributes: age, of the cached token (TokenLife: none or over); held, the   *)
(* age of the token that the current send holds; spent, by the current send.   *)

Older(n) == IF n < TokenLife THEN n + 1 ELSE n

Tick ==
  /\ self.age < TokenLife \/ Sending
  /\ Sending => self.spent < SendTimeout
  /\ self' = [self EXCEPT !.age = Older(@), !.held = IF Sending THEN Older(@) ELSE 0,
                          !.spent = IF Sending THEN @ + 1 ELSE 0]
  /\ UNCHANGED <<tasks, pending, host>>

(* Mutant: a token is used until its very end. *)
UsableToTheEnd == self.age < TokenLife

Usable == self.age < TokenLife - TokenMargin

(* A new token is fetched, or the platform gives none.                         *)
FetchToken(todo) ==
  \/ /\ self' = [self EXCEPT !.age = 0, !.held = 0, !.spent = 0]
     /\ GoesOn(todo) /\ UNCHANGED cut
  \/ BreaksOff /\ UNCHANGED self

(* _get_access_token at the start of a send: the cached token, a new one, or   *)
(* none, and then nothing is sent.                                             *)
GetAccessToken(todo) ==
  \/ /\ Usable
     /\ self' = [self EXCEPT !.held = self.age, !.spent = 0]
     /\ GoesOn(todo) /\ UNCHANGED cut
  \/ ~Usable /\ FetchToken(todo)
=============================================================================
