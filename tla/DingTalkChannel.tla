-------------------------- MODULE DingTalkChannel --------------------------
(* The DingTalk adapter: the SDK runs a handler per message, which fetches the *)
(* files and leaves publishing to a background task; replies go out by HTTP    *)
(* with an access token.                                                       *)
EXTENDS AccessToken

Init ==
  /\ HostInit
  /\ self = [name |-> "dingtalk", age |-> TokenLife, held |-> 0, spent |-> 0]

(* CookiebotDingTalkHandler.process, up to the files of the message.          *)
Process(e) ==
  /\ Arrives(e)
  /\ tasks' = tasks \cup {[ev |-> e, pc |-> "download", n |-> pending[e.id]]}
  /\ UNCHANGED <<self, host>>

(* A task in _background_tasks publishes the message, the SDK gets its OK.     *)
LeavesToTask(t) == Await(t, "publish")

(* The files are there or failed; without any content the message is left out. *)
Downloaded(t) ==
  /\ t.pc = "download"
  /\ LeavesToTask(t) \/ (t.ev.file /\ Ends(t))
  /\ UNCHANGED <<self, pending, host>>

OnMessage(t) ==
  /\ t.pc = "publish"
  /\ HandleMessage(t.ev, <<t.ev.id>>)
  /\ Ends(t)
  /\ UNCHANGED <<self, pending, turns, outbound, snd, shown, cut>>

(* send: the text, whose failure is only logged, then the files.               *)
SendBegins ==
  /\ Doing("begin")
  /\ GetAccessToken((IF snd.msg.text THEN <<"text">> ELSE <<>>) \o Files)
  /\ UNCHANGED <<tasks, pending, inbound, turns, outbound, published, shown>>

SendMarkdownText ==
  /\ Doing("text")
  /\ Shows \/ Lost
  /\ GoesOn(Left)
  /\ UNCHANGED <<self, tasks, pending, inbound, turns, outbound, published, cut>>

(* _read_media_bytes: there is no such file, or no download of it.             *)
Unreadable == Lost /\ GoesOn(<<"note">> \o Left)

(* _send_media_ref: by URL, by media id, as a file; what failed may still have *)
(* arrived. A note follows the last failure.                                   *)
SendMediaRef ==
  /\ Doing("file")
  /\ \/ Shows /\ Told(Left)
     \/ Unreadable
     \/ (Shows \/ Lost) /\ GoesOn(<<"note">> \o Left)
  /\ UNCHANGED <<self, tasks, pending, inbound, turns, outbound, published, cut>>

SendNote ==
  /\ Doing("note")
  /\ \/ Shows /\ Told(Left)
     \/ Lost /\ Failed(Left)
  /\ UNCHANGED <<self, tasks, pending, inbound, turns, outbound, published, cut>>

(* The dispatcher's timeout ends the send.                                     *)
SendTimesOut ==
  /\ BreaksOff
  /\ ~Doing("begin")
  /\ UNCHANGED <<self, tasks, pending, inbound, turns, outbound, published, shown>>

Next ==
  \/ Host \/ Tick
  \/ \E e \in Events : Process(e)
  \/ \E t \in tasks : Downloaded(t) \/ OnMessage(t)
  \/ SendBegins \/ SendMarkdownText \/ SendMediaRef \/ SendNote \/ SendTimesOut
=============================================================================
