------------------------------ MODULE Channels -------------------------------
(* The chat channels between the platforms and the message bus: one of the      *)
(* adapters is enabled, and runs against the bus, the dispatcher and the agent  *)
(* loop of ChannelBase.                                                         *)
EXTENDS AccessToken, SequencesExt

CONSTANTS
  PollLimit,  \* messages in the answer to a panel poll of Mochat
  Noticed     \* bound: ids of the messages that Mochat may notify, too

ASSUME PollLimitPositive == PollLimit \in Nat \ {0}

Telegram == INSTANCE TelegramChannel
Discord == INSTANCE DiscordChannel
Matrix == INSTANCE MatrixChannel
Feishu == INSTANCE FeishuChannel
DingTalk == INSTANCE DingTalkChannel
Email == INSTANCE EmailChannel
Slack == INSTANCE SlackChannel
QQ == INSTANCE QQChannel
WhatsApp == INSTANCE WhatsAppChannel
Wecom == INSTANCE WecomChannel
WecomSelfbuilt == INSTANCE WecomSelfbuiltChannel
Mochat == INSTANCE MochatChannel

(* The platforms that may deliver a message a second time. *)
Again == {"feishu", "qq", "whatsapp", "wecom", "wecom_selfbuilt", "email"}

Init ==
  /\ \/ Telegram!Init \/ Discord!Init \/ Matrix!Init \/ Feishu!Init
     \/ DingTalk!Init \/ Email!Init \/ Slack!Init \/ QQ!Init
     \/ WhatsApp!Init \/ Wecom!Init \/ WecomSelfbuilt!Init \/ Mochat!Init
  /\ self.name \notin Again => \A i \in DOMAIN pending : pending[i] < 2

Next ==
  \/ self.name = "telegram" /\ Telegram!Next
  \/ self.name = "discord" /\ Discord!Next
  \/ self.name = "matrix" /\ Matrix!Next
  \/ self.name = "feishu" /\ Feishu!Next
  \/ self.name = "dingtalk" /\ DingTalk!Next
  \/ self.name = "email" /\ Email!Next
  \/ self.name = "slack" /\ Slack!Next
  \/ self.name = "qq" /\ QQ!Next
  \/ self.name = "whatsapp" /\ WhatsApp!Next
  \/ self.name = "wecom" /\ Wecom!Next
  \/ self.name = "wecom_selfbuilt" /\ WecomSelfbuilt!Next
  \/ self.name = "mochat" /\ Mochat!Next

Spec == Init /\ [][Next]_vars

-----------------------------------------------------------------------------
Is(names) == self.name \in names

(* What the channel puts between the platform and the bus keeps its shape: the *)
(* queues stay within their bounds and a send that is under way has a message. *)
TypeOK ==
  /\ Len(inbound) <= InMax /\ Len(outbound) <= OutMax
  /\ \A t \in turns : t.ev \in Events
  /\ pending \in [{e.id : e \in Events} -> 0 .. 2]
  /\ Sending => snd.msg.re \in DOMAIN pending

(* A message that the platform delivers again, or reports in two ways, is given *)
(* to the agent once: in Feishu, QQ, WhatsApp, both WeComs, Email and Mochat by *)
(* the remembered ids, in Slack, where a mention comes as two events, as long   *)
(* as the bot knows its own id. The event enter_agent of a self-built WeCom     *)
(* application has no id to remember.                                           *)
Unnumbered(id) == Is({"wecom_selfbuilt"}) /\ \E e \in Events : e.id = id /\ e.command

PublishedOnce ==
  \/ Is(Again \cup {"mochat"})
  \/ Is({"slack"}) /\ self.botId
  => \A i, j \in DOMAIN published :
       published[i] = published[j] => i = j \/ Unnumbered(published[i])

(* While a chat sees the bot typing there is something that will end it: a      *)
(* handler that still has to publish, a message on its way to the agent or a    *)
(* turn, or a final reply that is still to be sent. Telegram starts typing      *)
(* before it asks whether the sender is allowed: for a stranger it never ends.  *)
Owed(c) ==
  \/ \E t \in tasks : t.ev.chat = c
  \/ \E i \in DOMAIN inbound : inbound[i].chat = c
  \/ \E t \in turns : t.ev.chat = c
  \/ \E i \in DOMAIN outbound : outbound[i].to = c /\ outbound[i].final
  \/ Sending /\ snd.msg.to = c /\ (snd.msg.final \/ Is({"discord"}))

InAlbum(c) ==
  \E f \in self.flushers, e \in Events : f.album = e.album /\ e.chat = c

Stranger(c) == \E e \in Events : e.chat = c /\ ~e.friend

TypingOwed ==
  Is({"telegram", "discord", "matrix"}) =>
    \A c \in self.typing :
      Owed(c) \/ (Is({"telegram"}) /\ (InAlbum(c) \/ Stranger(c)))

(* The parts of one reply, its files and chunks of text, stay together, and a   *)
(* final reply never comes before the progress of the same message. Only a send *)
(* that was ended early may leave a part in a thread that shows it later.       *)
PartsTogether ==
  Is({"telegram", "discord", "matrix", "feishu", "dingtalk", "slack"}) /\ IsInjective(published) =>
  LET whole == {i \in DOMAIN shown : shown[i] \notin cut}
  IN \A i, j \in whole :
       i < j => /\ shown[i] = shown[j] => \A k \in whole : k \in i .. j => shown[k] = shown[i]
                /\ shown[i][1] = shown[j][1] => ~(shown[i][2] /\ ~shown[j][2])

(* When a send of Telegram or DingTalk is through, every file of the reply has  *)
(* been shown or the user was told that it failed; in DingTalk the note itself  *)
(* may be refused.                                                              *)
FailureShown ==
  Is({"telegram", "dingtalk"}) /\ snd # NoSend /\ ~Sending =>
    snd.told + snd.failed >= snd.msg.files

(* No post goes out with a token that is over, however long the send took up    *)
(* to it: the margin covers the timeout of the dispatcher.                      *)
TokenValid ==
  Is({"dingtalk", "wecom_selfbuilt"}) /\ Sending /\ ~Doing("begin") =>
    self.held < TokenLife

(* Mochat loses no message that it has noted as seen: it was published, or it   *)
(* waits in the buffer with a timer set, or a coroutine has it in hand; what a  *)
(* cancelled fallback worker had in hand is the exception.                      *)
KeptOrPublished ==
  Is({"mochat"}) =>
    \A kind \in {"session", "panel"} : \A id \in ToSet(self.seen[kind]) :
      \/ id \in ToSet(published) \cup self.dropped
      \/ id \in ToSet(self.buffer) /\ self.timer
      \/ \E t \in tasks : id \in Mochat!InHand(t)

(* The cursor of a Mochat session and its file never go backwards while the     *)
(* process runs, whichever of push, subscription and a late poll comes last;    *)
(* a restart takes the file as it is.                                           *)
CursorAdvances ==
  [][Is({"mochat"}) => \/ self'.cursor = self.file /\ cut' # cut
                       \/ self'.cursor >= self.cursor /\ self'.file >= self.file]_vars
=============================================================================
