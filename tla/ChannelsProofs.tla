---------------------------- MODULE ChannelsProofs ----------------------------
(***************************************************************************)
(* Theorems about Channels, for any messages, traffic and queue sizes.     *)
(***************************************************************************)
EXTENDS Channels, SequenceTheorems, FiniteSetTheorems, NatLemmas

Ids == {e.id : e \in Events}
Rooms == {e.chat : e \in Events}
Keys == Ids \X BOOLEAN

Steps == {"begin", "text", "html", "plain", "file", "note", "group", "c2c", "wait", "hint",
          "react", "chunk1", "chunk2", "stop", "withdraw"}
Out == [re : Ids, to : Rooms, final : BOOLEAN, files : 0 .. 2, text : BOOLEAN]
Snd == [msg : Out, todo : Seq(Steps), failed : Nat, told : Nat]

\* The types of the host: queues, turns, the send under way, histories.
HostOK ==
  /\ pending \in [Ids -> 0 .. 2]
  /\ inbound \in Seq(Events) /\ Len(inbound) <= InMax
  /\ turns \subseteq [ev : Events, told : BOOLEAN]
  /\ outbound \in Seq(Out) /\ Len(outbound) <= OutMax
  /\ snd = NoSend \/ snd \in Snd
  /\ published \in Seq(Ids)
  /\ shown \in Seq(Keys)

-----------------------------------------------------------------------------
(* What the step of any adapter is for the host.                           *)

Receives ==
  \E e \in Events, ids \in Seq(Ids) :
    /\ e.id \in ToSet(ids)
    /\ Len(inbound) < InMax
    /\ inbound' = Append(inbound, e) /\ published' = published \o ids
    /\ UNCHANGED <<turns, outbound, snd, shown, cut>>

\* The send goes on, or it is ended early; a part of its message may appear,
\* or one of a message whose send was ended early.
SendStep ==
  /\ UNCHANGED <<inbound, turns, outbound, published>>
  /\ \/ snd' = snd
     \/ Sending /\ snd' \in Snd /\ snd'.msg = snd.msg
     \/ Sending /\ snd' = NoSend /\ Message \in cut'
  /\ \/ shown' = shown
     \/ \E k \in Keys : /\ shown' = Joined(k)
                        /\ k \in cut \/ (Sending /\ k = Message) \/ Is({"email"})
  /\ cut \subseteq cut' /\ \A k \in cut' : k \in cut \/ (Sending /\ k = Message)

\* The process was started again.
Restarts ==
  /\ Is({"mochat"})
  /\ inbound' = <<>> /\ turns' = {} /\ outbound' = <<>> /\ snd' = NoSend /\ published' = <<>>
  /\ shown' = shown

HostStep == Host \/ Receives \/ SendStep \/ Restarts

LEMMA EventIds == \A e \in Events : e.id \in Ids /\ e.chat \in Rooms
BY DEF Ids, Rooms

LEMMA OneElement ==
  ASSUME NEW S, NEW x \in S
  PROVE  <<x>> \in Seq(S) /\ Len(<<x>>) = 1 /\ ToSet(<<x>>) = {x}
<1>1. <<x>> \in [1 .. 1 -> S]
  OBVIOUS
<1>2. <<x>> \in Seq(S)
  BY <1>1, SeqDef
<1> QED BY <1>2 DEF ToSet

LEMMA SetOfConcat ==
  ASSUME NEW S, NEW a \in Seq(S), NEW b \in Seq(S)
  PROVE  /\ a \o b \in Seq(S) /\ Len(a \o b) = Len(a) + Len(b)
         /\ ToSet(a \o b) = ToSet(a) \cup ToSet(b)
<1>1. /\ a \o b \in Seq(S) /\ Len(a \o b) = Len(a) + Len(b)
      /\ \A i \in 1 .. Len(a) + Len(b) : (a \o b)[i] = IF i <= Len(a) THEN a[i] ELSE b[i - Len(a)]
  BY ConcatProperties
<1>2. /\ Len(a) \in Nat /\ Len(b) \in Nat
      /\ DOMAIN a = 1 .. Len(a) /\ DOMAIN b = 1 .. Len(b) /\ DOMAIN (a \o b) = 1 .. Len(a) + Len(b)
  BY <1>1, LenProperties
<1>3. ASSUME NEW x \in ToSet(a) PROVE x \in ToSet(a \o b)
  BY <1>1, <1>2, <1>3 DEF ToSet
<1>4. ASSUME NEW x \in ToSet(b) PROVE x \in ToSet(a \o b)
  <2>1. PICK i \in 1 .. Len(b) : x = b[i]
    BY <1>2, <1>4 DEF ToSet
  <2>2. Len(a) + i \in 1 .. Len(a) + Len(b) /\ ~(Len(a) + i <= Len(a)) /\ Len(a) + i - Len(a) = i
    BY <1>2
  <2>3. (a \o b)[Len(a) + i] = x
    BY <1>1, <2>1, <2>2
  <2> QED BY <1>2, <2>2, <2>3 DEF ToSet
<1>5. ASSUME NEW x \in ToSet(a \o b) PROVE x \in ToSet(a) \cup ToSet(b)
  <2>1. PICK i \in 1 .. Len(a) + Len(b) : x = (a \o b)[i]
    BY <1>2, <1>5 DEF ToSet
  <2>2. CASE i <= Len(a)
    BY <1>1, <1>2, <2>1, <2>2 DEF ToSet
  <2>3. CASE ~(i <= Len(a))
    <3>1. i - Len(a) \in 1 .. Len(b)
      BY <1>2, <2>3
    <3> QED BY <1>1, <1>2, <2>1, <2>3, <3>1 DEF ToSet
  <2> QED BY <2>2, <2>3
<1> QED BY <1>1, <1>3, <1>4, <1>5

LEMMA StepBefore ==
  ASSUME NEW S, NEW x \in S, NEW q \in Seq(S)
  PROVE  <<x>> \o q \in Seq(S) /\ <<x>> \o q # <<>> /\ Head(<<x>> \o q) = x /\ Tail(<<x>> \o q) = q
<1>1. <<x>> \in Seq(S) /\ Len(<<x>>) = 1 /\ <<x>>[1] = x /\ Len(q) \in Nat
  BY OneElement, LenProperties
<1>2. /\ <<x>> \o q \in Seq(S) /\ Len(<<x>> \o q) = 1 + Len(q)
      /\ \A i \in 1 .. 1 + Len(q) : (<<x>> \o q)[i] = IF i <= 1 THEN x ELSE q[i - 1]
  BY <1>1, ConcatProperties
<1>3. <<x>> \o q # <<>>
  BY <1>1, <1>2, EmptySeq
<1>4. Head(<<x>> \o q) = (<<x>> \o q)[1]
  BY <1>2, <1>3 DEF Head
<1>5. Tail(<<x>> \o q) \in Seq(S) /\ Len(Tail(<<x>> \o q)) = Len(q)
      /\ \A i \in 1 .. Len(q) : Tail(<<x>> \o q)[i] = (<<x>> \o q)[i + 1]
  BY <1>1, <1>2, <1>3, HeadTailProperties
<1>6. \A i \in 1 .. Len(q) : Tail(<<x>> \o q)[i] = q[i]
  BY <1>1, <1>2, <1>5
<1> QED BY <1>1, <1>2, <1>3, <1>4, <1>5, <1>6, SeqEqual

LEMMA QueueTypes ==
  ASSUME NEW S, NEW q \in Seq(S), NEW x \in S
  PROVE  /\ Append(q, x) \in Seq(S) /\ Len(Append(q, x)) = Len(q) + 1
         /\ q # <<>> => Head(q) \in S /\ Tail(q) \in Seq(S) /\ Len(Tail(q)) = Len(q) - 1
         /\ Len(q) \in Nat
<1>1. Append(q, x) \in Seq(S) /\ Len(Append(q, x)) = Len(q) + 1 /\ Len(q) \in Nat
  BY AppendProperties, LenProperties
<1>2. q # <<>> => Head(q) \in S /\ Tail(q) \in Seq(S) /\ Len(Tail(q)) = Len(q) - 1
  BY HeadTailProperties
<1> QED BY <1>1, <1>2

LEMMA SendTypes ==
  ASSUME HostOK, Sending
  PROVE  snd \in Snd /\ Message \in Keys /\ snd.todo \in Seq(Steps)
         /\ Left \in Seq(Steps) /\ Head(snd.todo) \in Steps
<1>1. snd \in Snd
  BY DEF HostOK, Sending, NoSend
<1>2. snd.todo \in Seq(Steps) /\ Left \in Seq(Steps) /\ Head(snd.todo) \in Steps
  BY <1>1, HeadTailProperties DEF Snd, Sending, Left
<1>3. Message \in Keys
  BY <1>1 DEF Snd, Out, Message, Keys
<1> QED BY <1>1, <1>2, <1>3

LEMMA JoinedTypes ==
  ASSUME shown \in Seq(Keys), NEW k \in Keys
  PROVE  Joined(k) \in Seq(Keys)
BY AppendProperties DEF Joined

LEMMA HostTypes ==
  ASSUME HostOK, HostStep, pending' \in [Ids -> 0 .. 2]
  PROVE  HostOK'
<1> USE QueuesBounded
<1>1. CASE Take
  <2>1. Head(inbound) \in Events /\ Tail(inbound) \in Seq(Events) /\ Len(Tail(inbound)) = Len(inbound) - 1 /\ Len(inbound) \in Nat
    BY <1>1, HeadTailProperties, LenProperties DEF Take, HostOK
  <2>2. [ev |-> Head(inbound), told |-> FALSE] \in [ev : Events, told : BOOLEAN]
    BY <2>1
  <2>3. turns' \subseteq [ev : Events, told : BOOLEAN]
    BY <1>1, <2>2, Zenon DEF Take, HostOK
  <2>4. Len(Tail(inbound)) <= InMax
    BY <2>1 DEF HostOK
  <2> QED BY <1>1, <2>1, <2>3, <2>4 DEF Take, HostOK
<1>2. CASE Dispatch
  <2>1. Head(outbound) \in Out /\ Tail(outbound) \in Seq(Out) /\ Len(Tail(outbound)) = Len(outbound) - 1 /\ Len(outbound) \in Nat
    BY <1>2, HeadTailProperties, LenProperties DEF Dispatch, HostOK
  <2>2. <<"begin">> \in Seq(Steps)
    BY OneElement DEF Steps
  <2>3. [msg |-> Head(outbound), todo |-> <<"begin">>, failed |-> 0, told |-> 0] \in Snd
    BY <2>1, <2>2 DEF Snd
  <2>4. snd' = NoSend \/ snd' \in Snd
    BY <1>2, <2>3 DEF Dispatch
  <2> QED BY <1>2, <2>1, <2>4 DEF Dispatch, HostOK
<1>3. CASE Returns
  BY <1>3 DEF Returns, HostOK
<1>4. ASSUME NEW t \in turns, Superseded(t) PROVE HostOK'
  BY <1>4 DEF Superseded, HostOK
<1>5. ASSUME NEW t \in turns, NEW m \in Out, Len(outbound) < OutMax, outbound' = Append(outbound, m),
             turns' \subseteq [ev : Events, told : BOOLEAN],
             UNCHANGED <<inbound, snd, published, shown>>
      PROVE  HostOK'
  <2>1. Append(outbound, m) \in Seq(Out) /\ Len(Append(outbound, m)) = Len(outbound) + 1 /\ Len(outbound) \in Nat
    BY QueueTypes DEF HostOK
  <2> QED BY <1>5, <2>1 DEF HostOK
<1>6. ASSUME NEW t \in turns, NEW final \in BOOLEAN, NEW files \in 0 .. 2, NEW text \in BOOLEAN
      PROVE  Reply(t, final, files, text) \in Out /\ [t EXCEPT !.told = TRUE] \in [ev : Events, told : BOOLEAN]
  BY EventIds, Zenon DEF Reply, Out, HostOK
<1>7. ASSUME NEW t \in turns, Reports(t) PROVE HostOK'
  <2>0. FALSE \in BOOLEAN /\ TRUE \in BOOLEAN /\ 0 \in 0 .. 2
    OBVIOUS
  <2>1. Reply(t, FALSE, 0, TRUE) \in Out /\ [t EXCEPT !.told = TRUE] \in [ev : Events, told : BOOLEAN]
    BY <1>6, <2>0, Zenon
  <2> QED BY <1>5, <1>7, <2>1, Zenon DEF Reports, HostOK
<1>8. ASSUME NEW t \in turns, Answers(t) PROVE HostOK'
  <2>1. PICK files \in IF t.ev.file THEN {1, 2} ELSE {0}, text \in BOOLEAN :
          outbound' = Append(outbound, Reply(t, TRUE, files, text))
    BY <1>8, Zenon DEF Answers
  <2>0. files \in 0 .. 2 /\ TRUE \in BOOLEAN
    OBVIOUS
  <2>2. Reply(t, TRUE, files, text) \in Out
    BY <1>6, <2>0, Zenon
  <2> QED BY <1>5, <1>8, <2>1, <2>2, Zenon DEF Answers, HostOK
<1>9. CASE Receives
  <2>1. PICK e \in Events, ids \in Seq(Ids) :
          /\ Len(inbound) < InMax
          /\ inbound' = Append(inbound, e) /\ published' = published \o ids
          /\ UNCHANGED <<turns, outbound, snd, shown, cut>>
    BY <1>9, Zenon DEF Receives
  <2>2. Append(inbound, e) \in Seq(Events) /\ Len(Append(inbound, e)) = Len(inbound) + 1 /\ Len(inbound) \in Nat
    BY QueueTypes DEF HostOK
  <2>3. published \o ids \in Seq(Ids)
    BY ConcatProperties DEF HostOK
  <2> QED BY <2>1, <2>2, <2>3 DEF HostOK
<1>10. CASE SendStep
  <2>1. snd' = NoSend \/ snd' \in Snd
    BY <1>10 DEF SendStep, HostOK
  <2>2. shown' \in Seq(Keys)
    BY <1>10, JoinedTypes DEF SendStep, HostOK
  <2> QED BY <1>10, <2>1, <2>2 DEF SendStep, HostOK
<1>11. CASE Restarts
  <2>1. Len(<<>>) = 0 /\ 0 <= InMax /\ 0 <= OutMax
    OBVIOUS
  <2> QED BY <1>11, <2>1, EmptySeq DEF Restarts, HostOK
<1> QED BY <1>1, <1>2, <1>3, <1>4, <1>7, <1>8, <1>9, <1>10, <1>11 DEF HostStep, Host

LEMMA SendMoves ==
  ASSUME HostOK, Sending, NEW todo \in Seq(Steps), GoesOn(todo) \/ Told(todo) \/ Failed(todo),
         Shows \/ Lost, UNCHANGED <<inbound, turns, outbound, published>>,
         cut' = cut \/ cut' = cut \cup {Message}
  PROVE  SendStep
<1>1. snd \in Snd /\ Message \in Keys
  BY SendTypes
<1>2. snd' \in Snd /\ snd'.msg = snd.msg
  <2>1. CASE GoesOn(todo)
    BY <1>1, <2>1 DEF GoesOn, Snd
  <2>0. PICK y : y = [snd EXCEPT !.todo = todo]
    BY Zenon
  <2>4. y \in Snd /\ y.msg = snd.msg /\ y.told = snd.told /\ y.failed = snd.failed
    BY <1>1, <2>0 DEF Snd
  <2>5. y.told + 1 \in Nat /\ y.failed + 1 \in Nat
    BY <2>4 DEF Snd
  <2>2. CASE Told(todo)
    <3>1. snd' = [y EXCEPT !.told = y.told + 1]
      BY <1>1, <2>0, <2>2, <2>4 DEF Told, Snd
    <3> QED BY <2>4, <2>5, <3>1, Zenon DEF Snd
  <2>3. CASE Failed(todo)
    <3>1. snd' = [y EXCEPT !.failed = y.failed + 1]
      BY <1>1, <2>0, <2>3, <2>4 DEF Failed, Snd
    <3> QED BY <2>4, <2>5, <3>1 DEF Snd
  <2> QED BY <2>1, <2>2, <2>3
<1>3. \/ shown' = shown
      \/ \E k \in Keys : /\ shown' = Joined(k)
                         /\ k \in cut \/ (Sending /\ k = Message) \/ Is({"email"})
  BY <1>1 DEF Shows, Lost
<1>4. cut \subseteq cut' /\ \A k \in cut' : k \in cut \/ (Sending /\ k = Message)
  OBVIOUS
<1> QED BY <1>2, <1>3, <1>4 DEF SendStep

LEMMA SendBroken ==
  ASSUME HostOK, BreaksOff, UNCHANGED <<inbound, turns, outbound, published, shown>>
  PROVE  SendStep
BY DEF BreaksOff, SendStep

\* What HandleMessage does, whoever calls it.
LEMMA Handled ==
  ASSUME HostOK, NEW e \in Events, NEW ids \in Seq(Ids), e.id \in ToSet(ids), HandleMessage(e, ids),
         UNCHANGED <<turns, outbound, snd, shown, cut>>
  PROVE  HostStep
BY DEF HandleMessage, HostStep, Receives, SendStep

LEMMA Unmoved ==
  ASSUME UNCHANGED host
  PROVE  HostStep
BY DEF host, HostStep, SendStep

LEMMA Arrived ==
  ASSUME HostOK, NEW e \in Events, Arrives(e)
  PROVE  pending' \in [Ids -> 0 .. 2]
BY EventIds DEF HostOK, Arrives

\* What is left to do, and what a message has.
LEMMA TodoTypes ==
  ASSUME HostOK, Sending
  PROVE  /\ Left \in Seq(Steps) /\ Files \in Seq(Steps) /\ <<>> \in Seq(Steps)
         /\ \A w \in Steps : <<w>> \in Seq(Steps)
         /\ \A a, b \in Seq(Steps) : a \o b \in Seq(Steps)
<1>1. Left \in Seq(Steps) /\ snd.msg.files \in Nat
  BY SendTypes DEF Snd, Out
<1>2. Files \in [1 .. snd.msg.files -> Steps]
  BY <1>1 DEF Files, Steps
<1>3. Files \in Seq(Steps)
  BY <1>1, <1>2, SeqDef
<1> QED BY <1>1, <1>3, EmptySeq, OneElement, ConcatProperties

-----------------------------------------------------------------------------
(* The adapters: their types, and that each of their steps is one of those.*)

Places == {"ack", "react", "download", "quote", "typing", "publish", "welcome"}
Handlers == [ev : Events, pc : Places]

LEMMA HandlerMoves ==
  ASSUME tasks \subseteq Handlers, NEW t \in tasks
  PROVE  /\ t.ev \in Events /\ t.ev.id \in Ids /\ t.ev.chat \in Rooms /\ <<t.ev.id>> \in Seq(Ids)
         /\ t.ev.id \in ToSet(<<t.ev.id>>)
         /\ Ends(t) => tasks' \subseteq Handlers
         /\ \A pc \in Places : Await(t, pc) => tasks' \subseteq Handlers
<1>1. t.ev \in Events /\ t.ev.id \in Ids /\ t.ev.chat \in Rooms
  BY EventIds DEF Handlers
<1>2. \A pc \in Places : [t EXCEPT !.pc = pc] \in Handlers
  BY DEF Handlers
<1> QED BY <1>1, <1>2, OneElement DEF Ends, Await

\* What a step of an adapter is for the host.
Fits == HostStep /\ pending' \in [Ids -> 0 .. 2]

LEMMA FitsUnmoved ==
  ASSUME HostOK, UNCHANGED <<pending, host>>
  PROVE  Fits
BY Unmoved DEF Fits, HostOK

LEMMA FitsArrived ==
  ASSUME HostOK, NEW e \in Events, Arrives(e), UNCHANGED host
  PROVE  Fits
BY Unmoved, Arrived DEF Fits

LEMMA FitsPublished ==
  ASSUME HostOK, NEW e \in Events, HandleMessage(e, <<e.id>>),
         UNCHANGED <<pending, turns, outbound, snd, shown, cut>>
  PROVE  Fits
<1>1. e.id \in Ids
  BY EventIds
<1>2. <<e.id>> \in Seq(Ids) /\ e.id \in ToSet(<<e.id>>)
  BY <1>1, OneElement
<1> QED BY <1>2, Handled, Zenon DEF Fits, HostOK

LEMMA FitsHost ==
  ASSUME HostOK, Host
  PROVE  Fits /\ UNCHANGED <<self, tasks>>
BY Zenon DEF Fits, HostStep, HostOK, Host, Take, Dispatch, Returns, Superseded, Reports, Answers

LEMMA HostSends ==
  ASSUME Host
  PROVE  UNCHANGED cut /\ (UNCHANGED snd \/ ~Sending)
<1>1. CASE Dispatch \/ Returns
  BY <1>1 DEF Dispatch, Returns, Sending, NoSend
<1>2. CASE Take \/ \E t \in turns : Superseded(t) \/ Reports(t) \/ Answers(t)
  BY <1>2, Zenon DEF Take, Superseded, Reports, Answers
<1> QED BY <1>1, <1>2 DEF Host

-----------------------------------------------------------------------------
(* Telegram.                                                               *)

TelegramSelf == [name : {"telegram"}, typing : SUBSET Rooms,
                 buffers : [Telegram!Albums -> Seq(Ids)],
                 flushers : SUBSET [album : Telegram!Albums, ids : Seq(Ids)]]
TelegramOK == self \in TelegramSelf /\ tasks \subseteq Handlers

LEMMA TelegramHost ==
  /\ Telegram!Host <=> Host
  /\ UNCHANGED Telegram!host <=> UNCHANGED host
  /\ \A e : Telegram!Arrives(e) <=> Arrives(e)
  /\ \A t, pc : Telegram!Await(t, pc) <=> Await(t, pc)
  /\ \A t : Telegram!Ends(t) <=> Ends(t)
  /\ \A e, ids : Telegram!HandleMessage(e, ids) <=> HandleMessage(e, ids)
BY Zenon DEF Telegram!Host, Host, Telegram!Take, Take, Telegram!Dispatch, Dispatch,
   Telegram!Returns, Returns, Telegram!Superseded, Superseded, Telegram!Reports, Reports,
   Telegram!Answers, Answers, Telegram!Reply, Reply, Telegram!NoSend, NoSend, Telegram!Sending,
   Sending, Telegram!host, host, Telegram!Arrives, Arrives, Telegram!Await, Await, Telegram!Ends,
   Ends, Telegram!HandleMessage, HandleMessage, Telegram!IsAllowed, IsAllowed


LEMMA TelegramSend ==
  /\ Telegram!Sending <=> Sending
  /\ \A step : Telegram!Doing(step) <=> Doing(step)
  /\ \A todo : Telegram!GoesOn(todo) <=> GoesOn(todo)
  /\ \A todo : Telegram!Told(todo) <=> Told(todo)
  /\ Telegram!Left = Left
  /\ Telegram!Files = Files
  /\ Telegram!Shows <=> Shows
  /\ Telegram!Lost <=> Lost
  /\ Telegram!BreaksOff <=> BreaksOff
BY Zenon DEF Telegram!Sending, Sending, Telegram!Doing, Doing, Telegram!GoesOn, GoesOn,
   Telegram!Told, Told, Telegram!Left, Left, Telegram!Files, Files, Telegram!Shows, Shows,
   Telegram!Lost, Lost, Telegram!BreaksOff, BreaksOff, Telegram!Joined, Joined, Telegram!Message,
   Message, Telegram!NoSend, NoSend


LEMMA TelegramMessages ==
  ASSUME HostOK, TelegramOK,
         \/ \E e \in Events : Telegram!ForwardCommand(e) \/ Telegram!OnMessage(e)
         \/ \E t \in tasks : Telegram!Downloaded(t) \/ Telegram!Publishes(t)
  PROVE  Fits /\ TelegramOK'
<1>1. ASSUME NEW e \in Events, Telegram!ForwardCommand(e) \/ Telegram!OnMessage(e)
      PROVE  Fits /\ TelegramOK'
  <2>1. UNCHANGED host /\ self' = self /\ Arrives(e)
    BY <1>1, TelegramHost DEF Telegram!ForwardCommand, Telegram!OnMessage
  <2>2. tasks' \subseteq Handlers
    BY <1>1 DEF Telegram!ForwardCommand, Telegram!OnMessage, Handlers, Places, TelegramOK
  <2> QED BY <2>1, <2>2, FitsArrived DEF TelegramOK
<1>2. ASSUME NEW t \in tasks, Telegram!Downloaded(t)
      PROVE  Fits /\ TelegramOK'
  <2>1. t.ev.id \in Ids /\ t.ev.chat \in Rooms /\ (t.ev.album # "none" => t.ev.album \in Telegram!Albums)
    BY HandlerMoves, Zenon DEF TelegramOK, Telegram!Albums
  <2>2. tasks' \subseteq Handlers
    BY <1>2, HandlerMoves, TelegramHost, Zenon DEF Telegram!Downloaded, TelegramOK, Places
  <2>3. CASE t.ev.album = "none"
    <3>1. self' = [self EXCEPT !.typing = self.typing \cup {t.ev.chat}]
      BY <1>2, <2>3, Zenon DEF Telegram!Downloaded, Telegram!StartTyping
    <3>2. self' \in TelegramSelf
      BY <2>1, <3>1, Zenon DEF TelegramOK, TelegramSelf
    <3> QED BY <1>2, <2>2, <3>2, TelegramHost, FitsUnmoved, Zenon DEF Telegram!Downloaded, TelegramOK
  <2>4. CASE t.ev.album # "none"
    <3> DEFINE a == t.ev.album
    <3>1. PICK buffers, typing, flushers :
            /\ self' = [self EXCEPT !.buffers = buffers, !.typing = typing, !.flushers = flushers]
            /\ buffers = [self.buffers EXCEPT ![a] = Append(self.buffers[a], t.ev.id)]
            /\ typing \in {self.typing, self.typing \cup {t.ev.chat}}
            /\ flushers \in {self.flushers, self.flushers \cup {[album |-> a, ids |-> <<>>]}}
      BY <1>2, <2>4, Zenon DEF Telegram!Downloaded, TelegramOK, TelegramSelf
    <3>2. buffers \in [Telegram!Albums -> Seq(Ids)]
      <4>1. Append(self.buffers[a], t.ev.id) \in Seq(Ids)
        BY <2>1, <2>4, AppendProperties DEF TelegramOK, TelegramSelf
      <4> QED BY <3>1, <4>1, Zenon DEF TelegramOK, TelegramSelf
    <3>3. typing \in SUBSET Rooms
      BY <2>1, <3>1 DEF TelegramOK, TelegramSelf
    <3>4. flushers \in SUBSET [album : Telegram!Albums, ids : Seq(Ids)]
      <4>1. [album |-> a, ids |-> <<>>] \in [album : Telegram!Albums, ids : Seq(Ids)]
        BY <2>1, <2>4, EmptySeq
      <4>2. self.flushers \in SUBSET [album : Telegram!Albums, ids : Seq(Ids)]
        BY DEF TelegramOK, TelegramSelf
      <4> QED BY <3>1, <4>1, <4>2, Zenon
    <3>5. self' \in TelegramSelf
      BY <3>1, <3>2, <3>3, <3>4, Zenon DEF TelegramOK, TelegramSelf
    <3> QED BY <1>2, <2>2, <3>5, TelegramHost, FitsUnmoved, Zenon DEF Telegram!Downloaded, TelegramOK
  <2> QED BY <2>3, <2>4
<1>3. ASSUME NEW t \in tasks, Telegram!Publishes(t)
      PROVE  Fits /\ TelegramOK'
  BY <1>3, TelegramHost, HandlerMoves, FitsPublished DEF Telegram!Publishes, TelegramOK
<1> QED BY <1>1, <1>2, <1>3

LEMMA TelegramFlushes ==
  ASSUME HostOK, TelegramOK, NEW f \in self.flushers, Telegram!FlushTakes(f) \/ Telegram!FlushPublishes(f)
  PROVE  Fits /\ TelegramOK'
<1>0. f \in [album : Telegram!Albums, ids : Seq(Ids)]
  BY DEF TelegramOK, TelegramSelf
<1>1. CASE Telegram!FlushTakes(f)
  <2>1. PICK buffers, flushers :
          /\ self' = [self EXCEPT !.buffers = buffers, !.flushers = flushers]
          /\ buffers = [self.buffers EXCEPT ![f.album] = <<>>]
          /\ flushers = (self.flushers \ {f}) \cup {[f EXCEPT !.ids = self.buffers[f.album]]}
    BY <1>1, Zenon DEF Telegram!FlushTakes
  <2>2. buffers \in [Telegram!Albums -> Seq(Ids)]
    BY <1>0, <2>1, EmptySeq DEF TelegramOK, TelegramSelf
  <2>3. [f EXCEPT !.ids = self.buffers[f.album]] \in [album : Telegram!Albums, ids : Seq(Ids)]
    BY <1>0 DEF TelegramOK, TelegramSelf
  <2>4. flushers \in SUBSET [album : Telegram!Albums, ids : Seq(Ids)]
    BY <2>1, <2>3 DEF TelegramOK, TelegramSelf
  <2>5. self' \in TelegramSelf
    BY <2>1, <2>2, <2>4, Zenon DEF TelegramOK, TelegramSelf
  <2> QED BY <1>1, <2>5, TelegramHost, FitsUnmoved DEF Telegram!FlushTakes, TelegramOK
<1>2. CASE Telegram!FlushPublishes(f)
  <2>1. f.ids \in Seq(Ids) /\ f.ids # <<>>
    BY <1>0, <1>2 DEF Telegram!FlushPublishes
  <2>2. Head(f.ids) \in Ids /\ Head(f.ids) \in ToSet(f.ids)
    BY <2>1, HeadTailProperties, LenProperties DEF ToSet
  <2> DEFINE e == CHOOSE e \in Events : e.id = Head(f.ids)
  <2>3. e \in Events /\ e.id = Head(f.ids)
    BY <2>2 DEF Ids
  <2>4. HandleMessage(e, f.ids) /\ UNCHANGED <<tasks, pending, turns, outbound, snd, shown, cut>>
    BY <1>2, TelegramHost DEF Telegram!FlushPublishes
  <2> HIDE DEF e
  <2>5. self' \in TelegramSelf
    BY <1>2, Zenon DEF Telegram!FlushPublishes, TelegramOK, TelegramSelf
  <2> QED BY <2>1, <2>2, <2>3, <2>4, <2>5, Handled DEF Fits, TelegramOK, HostOK
<1> QED BY <1>1, <1>2

LEMMA TelegramSends ==
  ASSUME HostOK, TelegramOK,
         \/ Telegram!SendBegins \/ Telegram!SendFile \/ Telegram!SendNote
         \/ Telegram!SendText \/ Telegram!SendBroken
  PROVE  Fits /\ TelegramOK'
<1>1. CASE Telegram!SendBegins
  <2>1. Sending /\ GoesOn(Files \o IF snd.msg.text THEN <<"html">> ELSE <<>>)
    BY <1>1, TelegramSend DEF Telegram!SendBegins, Doing
  <2>2. (Files \o IF snd.msg.text THEN <<"html">> ELSE <<>>) \in Seq(Steps)
    BY <2>1, TodoTypes, Zenon DEF Steps
  <2>3. SendStep
    BY <1>1, <2>1, <2>2, SendMoves, Zenon DEF Telegram!SendBegins, Lost
  <2>4. self' \in TelegramSelf
    BY <1>1 DEF Telegram!SendBegins, Telegram!StopTyping, TelegramOK, TelegramSelf
  <2> QED BY <1>1, <2>3, <2>4 DEF Telegram!SendBegins, TelegramOK, Fits, HostStep, HostOK
<1>2. CASE Telegram!SendFile \/ Telegram!SendNote \/ Telegram!SendText
  <2>1. /\ Sending /\ cut' = cut /\ (Shows \/ Lost)
        /\ UNCHANGED <<self, tasks, pending, inbound, turns, outbound, published>>
    BY <1>2, TelegramSend DEF Telegram!SendFile, Telegram!SendNote, Telegram!SendText, Doing
  <2>2. \E todo \in Seq(Steps) : GoesOn(todo) \/ Told(todo)
    BY <1>2, <2>1, TelegramSend, TodoTypes, Zenon
       DEF Telegram!SendFile, Telegram!SendNote, Telegram!SendText, Steps
  <2> QED BY <2>1, <2>2, SendMoves DEF TelegramOK, Fits, HostStep, HostOK
<1>3. CASE Telegram!SendBroken
  BY <1>3, TelegramSend, SendBroken DEF Telegram!SendBroken, TelegramOK, Fits, HostStep, HostOK
<1> QED BY <1>1, <1>2, <1>3

LEMMA TelegramFits ==
  ASSUME HostOK, TelegramOK, Telegram!Next
  PROVE  Fits /\ TelegramOK'
BY TelegramHost, FitsHost, TelegramMessages, TelegramFlushes, TelegramSends DEF Telegram!Next, TelegramOK

-----------------------------------------------------------------------------
(* Discord and Matrix.                                                     *)

DiscordSelf == [name : {"discord"}, typing : SUBSET Rooms, ws : {"closed", "open", "ready"},
                beats : Int, botId : BOOLEAN]
DiscordOK == self \in DiscordSelf /\ tasks \subseteq Handlers

LEMMA DiscordHost ==
  /\ Discord!Host <=> Host
  /\ UNCHANGED Discord!host <=> UNCHANGED host
  /\ \A e : Discord!Arrives(e) <=> Arrives(e)
  /\ \A t, pc : Discord!Await(t, pc) <=> Await(t, pc)
  /\ \A t : Discord!Ends(t) <=> Ends(t)
  /\ \A e, ids : Discord!HandleMessage(e, ids) <=> HandleMessage(e, ids)
BY Zenon DEF Discord!Host, Host, Discord!Take, Take, Discord!Dispatch, Dispatch, Discord!Returns,
   Returns, Discord!Superseded, Superseded, Discord!Reports, Reports, Discord!Answers, Answers,
   Discord!Reply, Reply, Discord!NoSend, NoSend, Discord!Sending, Sending, Discord!host, host,
   Discord!Arrives, Arrives, Discord!Await, Await, Discord!Ends, Ends, Discord!HandleMessage,
   HandleMessage, Discord!IsAllowed, IsAllowed


LEMMA DiscordSend ==
  /\ Discord!Sending <=> Sending
  /\ \A step : Discord!Doing(step) <=> Doing(step)
  /\ \A todo : Discord!GoesOn(todo) <=> GoesOn(todo)
  /\ \A todo : Discord!Told(todo) <=> Told(todo)
  /\ \A todo : Discord!Failed(todo) <=> Failed(todo)
  /\ Discord!Left = Left
  /\ Discord!Files = Files
  /\ Discord!Shows <=> Shows
  /\ Discord!Lost <=> Lost
BY Zenon DEF Discord!Sending, Sending, Discord!Doing, Doing, Discord!GoesOn, GoesOn, Discord!Told,
   Told, Discord!Failed, Failed, Discord!Left, Left, Discord!Files, Files, Discord!Shows, Shows,
   Discord!Lost, Lost, Discord!Joined, Joined, Discord!Message, Message


LEMMA DiscordMessages ==
  ASSUME HostOK, DiscordOK,
         \/ Discord!Connect \/ Discord!Hello \/ Discord!HeartbeatFails \/ Discord!GatewayEnds
         \/ \E e \in Events : Discord!Missed(e) \/ Discord!HandleMessageCreate(e)
         \/ \E t \in tasks : Discord!Downloaded(t) \/ Discord!Publishes(t)
  PROVE  Fits /\ DiscordOK'
<1>1. CASE Discord!Connect \/ Discord!Hello \/ Discord!HeartbeatFails \/ Discord!GatewayEnds
  <2>1. self' \in DiscordSelf
    <3>1. CASE Discord!Connect \/ Discord!GatewayEnds
      BY <3>1 DEF Discord!Connect, Discord!GatewayEnds, DiscordOK, DiscordSelf
    <3>2. CASE Discord!Hello
      <4>1. PICK ws, beats, botId : /\ self' = [self EXCEPT !.ws = ws, !.beats = beats, !.botId = botId]
                                    /\ ws = "ready" /\ beats = 1 /\ botId = TRUE
        BY <3>2, Zenon DEF Discord!Hello
      <4>2. ws \in {"closed", "open", "ready"} /\ beats \in Int /\ botId \in BOOLEAN
        BY <4>1
      <4>3. self \in DiscordSelf
        BY DEF DiscordOK
      <4>4. self' = [self EXCEPT !.ws = ws, !.beats = beats, !.botId = botId]
        BY <4>1
      <4> HIDE <4>1
      <4> QED BY <4>2, <4>3, <4>4, Zenon DEF DiscordSelf
    <3>3. CASE Discord!HeartbeatFails
      <4>1. PICK beats : self' = [self EXCEPT !.beats = beats] /\ beats \in Int
        BY <3>3 DEF Discord!HeartbeatFails, DiscordOK, DiscordSelf
      <4> QED BY <4>1 DEF DiscordOK, DiscordSelf
    <3> QED BY <1>1, <3>1, <3>2, <3>3
  <2> QED BY <1>1, <2>1, DiscordHost, FitsUnmoved
          DEF Discord!Connect, Discord!Hello, Discord!HeartbeatFails, Discord!GatewayEnds, DiscordOK
<1>2. ASSUME NEW e \in Events, Discord!Missed(e) \/ Discord!HandleMessageCreate(e)
      PROVE  Fits /\ DiscordOK'
  <2>1. UNCHANGED host /\ self' = self /\ Arrives(e)
    BY <1>2, DiscordHost DEF Discord!Missed, Discord!HandleMessageCreate
  <2>2. tasks' \subseteq Handlers
    BY <1>2 DEF Discord!Missed, Discord!HandleMessageCreate, Handlers, Places, DiscordOK
  <2> QED BY <2>1, <2>2, FitsArrived DEF DiscordOK
<1>3. ASSUME NEW t \in tasks, Discord!Downloaded(t)
      PROVE  Fits /\ DiscordOK'
  <2>1. self' \in DiscordSelf
    BY <1>3, HandlerMoves, Zenon DEF Discord!Downloaded, DiscordOK, DiscordSelf
  <2>2. tasks' \subseteq Handlers
    BY <1>3, DiscordHost, HandlerMoves, Zenon DEF Discord!Downloaded, DiscordOK, Places
  <2> QED BY <1>3, <2>1, <2>2, DiscordHost, FitsUnmoved DEF Discord!Downloaded, DiscordOK
<1>4. ASSUME NEW t \in tasks, Discord!Publishes(t)
      PROVE  Fits /\ DiscordOK'
  BY <1>4, DiscordHost, HandlerMoves, FitsPublished DEF Discord!Publishes, DiscordOK
<1> QED BY <1>1, <1>2, <1>3, <1>4

LEMMA DiscordSends ==
  ASSUME HostOK, DiscordOK,
         \/ Discord!SendBegins \/ Discord!SendFile \/ Discord!SendText
         \/ Discord!SendPayload \/ Discord!StopTyping \/ Discord!SendTimesOut
  PROVE  Fits /\ DiscordOK'
<1>1. CASE Discord!SendBegins \/ Discord!SendFile \/ Discord!SendText \/ Discord!SendPayload \/ Discord!SendTimesOut
  <2>1. /\ Sending /\ (cut' = cut \/ cut' = cut \cup {Message}) /\ (Shows \/ Lost)
        /\ UNCHANGED <<self, tasks, pending, inbound, turns, outbound, published>>
    BY <1>1, DiscordSend DEF Discord!SendBegins, Discord!SendFile, Discord!SendText, Discord!SendPayload,
       Discord!SendTimesOut, Doing, Lost, Discord!Message, Message
  <2>2. \E todo \in Seq(Steps) : GoesOn(todo) \/ Told(todo) \/ Failed(todo)
    <3>1. CASE Discord!SendBegins
      BY <2>1, <3>1, DiscordSend, TodoTypes, Zenon DEF Discord!SendBegins, Steps
    <3>2. CASE Discord!SendFile
      BY <2>1, <3>2, DiscordSend, TodoTypes DEF Discord!SendFile
    <3>3. CASE Discord!SendText
      <4>1. \E what \in {<<"chunk1", "chunk2">>, <<"note">>, <<>>} : GoesOn(what \o <<"stop">>)
        BY <3>3, DiscordSend, Zenon DEF Discord!SendText
      <4>2. <<"chunk1", "chunk2">> \in Seq(Steps)
        <5>1. <<"chunk1", "chunk2">> \in [1 .. 2 -> Steps]
          BY DEF Steps
        <5> QED BY <5>1, SeqDef
      <4>3. <<"note">> \in Seq(Steps) /\ <<"stop">> \in Seq(Steps)
        BY <2>1, TodoTypes DEF Steps
      <4> QED BY <2>1, <4>1, <4>2, <4>3, TodoTypes, Zenon
    <3>4. CASE Discord!SendPayload
      BY <2>1, <3>4, DiscordSend, TodoTypes, Zenon DEF Discord!SendPayload, Steps
    <3>5. CASE Discord!SendTimesOut
      BY <2>1, <3>5, DiscordSend, TodoTypes, Zenon DEF Discord!SendTimesOut, Steps
    <3> QED BY <1>1, <3>1, <3>2, <3>3, <3>4, <3>5
  <2> QED BY <2>1, <2>2, SendMoves DEF DiscordOK, Fits, HostStep, HostOK
<1>2. CASE Discord!StopTyping
  <2>1. /\ Sending /\ GoesOn(Left) /\ self' \in DiscordSelf
        /\ UNCHANGED <<tasks, pending, inbound, turns, outbound, published, shown, cut>>
    BY <1>2, DiscordSend DEF Discord!StopTyping, Doing, DiscordOK, DiscordSelf
  <2> QED BY <2>1, TodoTypes, SendMoves DEF Lost, DiscordOK, Fits, HostStep, HostOK
<1> QED BY <1>1, <1>2

LEMMA DiscordFits ==
  ASSUME HostOK, DiscordOK, Discord!Next
  PROVE  Fits /\ DiscordOK'
BY DiscordHost, FitsHost, DiscordMessages, DiscordSends DEF Discord!Next, DiscordOK

MatrixSelf == [name : {"matrix"}, typing : SUBSET Rooms, notice : SUBSET Rooms]
MatrixOK == self \in MatrixSelf /\ tasks \subseteq Handlers

LEMMA MatrixHost ==
  /\ Matrix!Host <=> Host
  /\ UNCHANGED Matrix!host <=> UNCHANGED host
  /\ \A e : Matrix!Arrives(e) <=> Arrives(e)
  /\ \A t, pc : Matrix!Await(t, pc) <=> Await(t, pc)
  /\ \A t : Matrix!Ends(t) <=> Ends(t)
  /\ \A e, ids : Matrix!HandleMessage(e, ids) <=> HandleMessage(e, ids)
BY Zenon DEF Matrix!Host, Host, Matrix!Take, Take, Matrix!Dispatch, Dispatch, Matrix!Returns,
   Returns, Matrix!Superseded, Superseded, Matrix!Reports, Reports, Matrix!Answers, Answers,
   Matrix!Reply, Reply, Matrix!NoSend, NoSend, Matrix!Sending, Sending, Matrix!host, host,
   Matrix!Arrives, Arrives, Matrix!Await, Await, Matrix!Ends, Ends, Matrix!HandleMessage,
   HandleMessage, Matrix!IsAllowed, IsAllowed


LEMMA MatrixSend ==
  /\ Matrix!Sending <=> Sending
  /\ \A step : Matrix!Doing(step) <=> Doing(step)
  /\ \A todo : Matrix!GoesOn(todo) <=> GoesOn(todo)
  /\ \A todo : Matrix!Failed(todo) <=> Failed(todo)
  /\ Matrix!Left = Left
  /\ Matrix!Files = Files
  /\ Matrix!Shows <=> Shows
  /\ Matrix!Lost <=> Lost
BY Zenon DEF Matrix!Sending, Sending, Matrix!Doing, Doing, Matrix!GoesOn, GoesOn, Matrix!Failed,
   Failed, Matrix!Left, Left, Matrix!Files, Files, Matrix!Shows, Shows, Matrix!Lost, Lost,
   Matrix!Joined, Joined, Matrix!Message, Message


LEMMA MatrixStarts ==
  ASSUME self \in MatrixSelf, NEW c \in Rooms, Matrix!StartTyping(c)
  PROVE  self' \in MatrixSelf
<1>1. PICK typing, notice : /\ self' = [self EXCEPT !.typing = typing, !.notice = notice]
                            /\ typing = self.typing \ {c} /\ notice = self.notice \cup {c}
  BY Zenon DEF Matrix!StartTyping
<1>2. typing \in SUBSET Rooms /\ notice \in SUBSET Rooms
  BY <1>1 DEF MatrixSelf
<1> QED BY <1>1, <1>2, Zenon DEF MatrixSelf

LEMMA MatrixMessages ==
  ASSUME HostOK, MatrixOK,
         \/ \E e \in Events : Matrix!OnMessage(e) \/ Matrix!OnMediaMessage(e)
         \/ \E t \in tasks : Matrix!Downloaded(t) \/ Matrix!KeepsTyping(t) \/ Matrix!Publishes(t)
  PROVE  Fits /\ MatrixOK'
<1>1. ASSUME NEW e \in Events, Matrix!OnMessage(e) \/ Matrix!OnMediaMessage(e)
      PROVE  Fits /\ MatrixOK'
  <2>1. UNCHANGED host /\ Arrives(e)
    BY <1>1, MatrixHost DEF Matrix!OnMessage, Matrix!OnMediaMessage
  <2>2. tasks' \subseteq Handlers
    BY <1>1 DEF Matrix!OnMessage, Matrix!OnMediaMessage, Handlers, Places, MatrixOK
  <2>3. self' \in MatrixSelf
    BY <1>1, EventIds, MatrixStarts DEF Matrix!OnMessage, Matrix!OnMediaMessage, MatrixOK
  <2> QED BY <2>1, <2>2, <2>3, FitsArrived DEF MatrixOK
<1>2. ASSUME NEW t \in tasks, Matrix!Downloaded(t) \/ Matrix!KeepsTyping(t)
      PROVE  Fits /\ MatrixOK'
  <2>0. t.ev.chat \in Rooms
    BY HandlerMoves, Zenon DEF MatrixOK
  <2>1. self' \in MatrixSelf
    <3>1. CASE Matrix!Downloaded(t)
      BY <2>0, <3>1, MatrixStarts DEF Matrix!Downloaded, MatrixOK
    <3>2. CASE Matrix!KeepsTyping(t)
      BY <2>0, <3>2 DEF Matrix!KeepsTyping, MatrixOK, MatrixSelf
    <3> QED BY <1>2, <3>1, <3>2
  <2>2. tasks' \subseteq Handlers
    BY <1>2, MatrixHost, HandlerMoves, Zenon DEF Matrix!Downloaded, Matrix!KeepsTyping, MatrixOK, Places
  <2> QED BY <1>2, <2>1, <2>2, MatrixHost, FitsUnmoved DEF Matrix!Downloaded, Matrix!KeepsTyping, MatrixOK
<1>3. ASSUME NEW t \in tasks, Matrix!Publishes(t)
      PROVE  Fits /\ MatrixOK'
  BY <1>3, MatrixHost, HandlerMoves, FitsPublished DEF Matrix!Publishes, MatrixOK
<1> QED BY <1>1, <1>2, <1>3

LEMMA MatrixSends ==
  ASSUME HostOK, MatrixOK,
         \/ Matrix!SendBegins \/ Matrix!SendFile \/ Matrix!SendText
         \/ Matrix!StopTyping \/ Matrix!Withdraw \/ Matrix!SendTimesOut
  PROVE  Fits /\ MatrixOK'
<1>1. /\ Sending /\ (cut' = cut \/ cut' = cut \cup {Message}) /\ (Shows \/ Lost)
      /\ UNCHANGED <<tasks, pending, inbound, turns, outbound, published>>
  BY MatrixSend DEF Matrix!SendBegins, Matrix!SendFile, Matrix!SendText, Matrix!StopTyping, Matrix!Withdraw,
     Matrix!SendTimesOut, Doing, Lost, Matrix!Message, Message
<1>2. \E todo \in Seq(Steps) : GoesOn(todo) \/ Failed(todo)
  <2>1. Matrix!Ending \in Seq(Steps)
    BY <1>1, TodoTypes, Zenon DEF Matrix!Ending, Steps
  <2>2. CASE Matrix!SendBegins
    BY <1>1, <2>2, MatrixSend, TodoTypes, Zenon DEF Matrix!SendBegins, Steps
  <2>3. CASE Matrix!SendFile \/ Matrix!Withdraw
    BY <1>1, <2>3, MatrixSend, TodoTypes DEF Matrix!SendFile, Matrix!Withdraw
  <2>4. CASE Matrix!SendText \/ Matrix!StopTyping \/ Matrix!SendTimesOut
    BY <1>1, <2>1, <2>4, MatrixSend, TodoTypes, Zenon DEF Matrix!SendText, Matrix!StopTyping, Matrix!SendTimesOut, Steps
  <2> QED BY <2>2, <2>3, <2>4
<1>3. self' \in MatrixSelf
  BY DEF Matrix!SendBegins, Matrix!SendFile, Matrix!SendText, Matrix!StopTyping, Matrix!Withdraw,
     Matrix!SendTimesOut, MatrixOK, MatrixSelf
<1> QED BY <1>1, <1>2, <1>3, SendMoves DEF MatrixOK, Fits, HostStep, HostOK

LEMMA MatrixFits ==
  ASSUME HostOK, MatrixOK, Matrix!Next
  PROVE  Fits /\ MatrixOK'
BY MatrixHost, FitsHost, MatrixMessages, MatrixSends DEF Matrix!Next, MatrixOK

-----------------------------------------------------------------------------
(* Feishu, and the adapters that remember ids and send in one step.        *)

LEMMA RememberTypes ==
  ASSUME NEW seen \in Seq(Ids), NEW id \in Ids
  PROVE  Remember(seen, id) \in Seq(Ids)
<1> DEFINE s == Append(seen, id)
<1>1. s \in Seq(Ids) /\ Len(s) \in Nat /\ \A i \in 1 .. Len(s) : s[i] \in Ids
  BY AppendProperties, LenProperties, ElementOfSeq
<1>2. Window \in Nat \ {0}
  BY WindowPositive
<1> HIDE DEF s
<1>3. ASSUME Len(s) > Window PROVE SubSeq(s, Len(s) - Window + 1, Len(s)) \in Seq(Ids)
  <2>1. Len(s) - Window + 1 \in Int /\ Len(s) \in Int
        /\ \A i \in Len(s) - Window + 1 .. Len(s) : i \in 1 .. Len(s)
    BY <1>1, <1>2, <1>3
  <2>2. \A i \in Len(s) - Window + 1 .. Len(s) : s[i] \in Ids
    BY <1>1, <2>1
  <2> QED BY <2>1, <2>2, SubSeqProperties, Zenon
<1>4. Remember(seen, id) = IF Len(s) > Window THEN SubSeq(s, Len(s) - Window + 1, Len(s)) ELSE s
  BY DEF Remember, s
<1> QED BY <1>1, <1>3, <1>4

\* A new handler.
LEMMA HandlerStarts ==
  ASSUME NEW e \in Events, NEW pc \in Places
  PROVE  [ev |-> e, pc |-> pc] \in Handlers
BY DEF Handlers

FeishuSelf == [name : {"feishu"}, seen : Seq(Ids), threads : SUBSET Keys]

\* A post that is under way is the one that the send waits for, or one of a
\* send that was ended early.
Feishu_Threads == \A th \in self.threads : th \in cut \/ (Doing("wait") /\ th = Message)
FeishuOK == self \in FeishuSelf /\ tasks \subseteq Handlers /\ Feishu_Threads

LEMMA FeishuHost ==
  /\ Feishu!Host <=> Host
  /\ UNCHANGED Feishu!host <=> UNCHANGED host
  /\ \A e : Feishu!Arrives(e) <=> Arrives(e)
  /\ \A t, pc : Feishu!Await(t, pc) <=> Await(t, pc)
  /\ \A t : Feishu!Ends(t) <=> Ends(t)
  /\ \A e, ids : Feishu!HandleMessage(e, ids) <=> HandleMessage(e, ids)
  /\ \A seen, id : Feishu!Knows(seen, id) <=> Knows(seen, id)
  /\ \A seen, id : Feishu!Remember(seen, id) = Remember(seen, id)
BY Zenon DEF Feishu!Host, Host, Feishu!Take, Take, Feishu!Dispatch, Dispatch, Feishu!Returns,
   Returns, Feishu!Superseded, Superseded, Feishu!Reports, Reports, Feishu!Answers, Answers,
   Feishu!Reply, Reply, Feishu!NoSend, NoSend, Feishu!Sending, Sending, Feishu!host, host,
   Feishu!Arrives, Arrives, Feishu!Await, Await, Feishu!Ends, Ends, Feishu!HandleMessage,
   HandleMessage, Feishu!Knows, Knows, Feishu!Remember, Remember, Feishu!IsAllowed, IsAllowed


LEMMA FeishuSend ==
  /\ Feishu!Sending <=> Sending
  /\ \A step : Feishu!Doing(step) <=> Doing(step)
  /\ \A todo : Feishu!GoesOn(todo) <=> GoesOn(todo)
  /\ Feishu!Left = Left
  /\ Feishu!Files = Files
  /\ Feishu!Shows <=> Shows
  /\ Feishu!Lost <=> Lost
  /\ Feishu!BreaksOff <=> BreaksOff
BY Zenon DEF Feishu!Sending, Sending, Feishu!Doing, Doing, Feishu!GoesOn, GoesOn, Feishu!Left,
   Left, Feishu!Files, Files, Feishu!Shows, Shows, Feishu!Lost, Lost, Feishu!BreaksOff, BreaksOff,
   Feishu!Joined, Joined, Feishu!Message, Message, Feishu!NoSend, NoSend


LEMMA FeishuMessages ==
  ASSUME HostOK, FeishuOK,
         \/ \E e \in Events : Feishu!OnMessage(e)
         \/ \E t \in tasks : Feishu!AddReaction(t) \/ Feishu!Downloaded(t) \/ Feishu!Quoted(t) \/ Feishu!Publishes(t)
  PROVE  Fits /\ FeishuOK'
<1>0. FALSE \in BOOLEAN /\ "react" \in Places /\ "download" \in Places /\ "quote" \in Places /\ "publish" \in Places
  BY DEF Places
<1>1. ASSUME NEW e \in Events, Feishu!OnMessage(e)
      PROVE  Fits /\ FeishuOK'
  <2>1. UNCHANGED host /\ Arrives(e)
    BY <1>1, FeishuHost DEF Feishu!OnMessage
  <2>2. tasks' \subseteq Handlers
    BY <1>0, <1>1, HandlerStarts DEF Feishu!OnMessage, FeishuOK
  <2>3. self' = self \/ self' = [self EXCEPT !.seen = Remember(self.seen, e.id)]
    BY <1>1, FeishuHost DEF Feishu!OnMessage
  <2>4. self' \in FeishuSelf /\ self'.threads = self.threads
    <3>1. Remember(self.seen, e.id) \in Seq(Ids)
      BY RememberTypes, EventIds DEF FeishuOK, FeishuSelf
    <3> QED BY <2>3, <3>1 DEF FeishuOK, FeishuSelf
  <2>5. Feishu_Threads'
    BY <2>1, <2>4 DEF FeishuOK, Feishu_Threads, host, Doing, Sending, Message
  <2> QED BY <2>1, <2>2, <2>4, <2>5, FitsArrived DEF FeishuOK
<1>2. ASSUME NEW t \in tasks, Feishu!AddReaction(t) \/ Feishu!Downloaded(t) \/ Feishu!Quoted(t)
      PROVE  Fits /\ FeishuOK'
  <2>1. UNCHANGED <<self, pending, host>>
    BY <1>2, FeishuHost DEF Feishu!AddReaction, Feishu!Downloaded, Feishu!Quoted
  <2>2. tasks' \subseteq Handlers
    BY <1>0, <1>2, FeishuHost, HandlerMoves, Zenon DEF Feishu!AddReaction, Feishu!Downloaded, Feishu!Quoted, FeishuOK
  <2> QED BY <2>1, <2>2, FitsUnmoved DEF FeishuOK, Feishu_Threads, host, Doing, Sending, Message
<1>3. ASSUME NEW t \in tasks, Feishu!Publishes(t)
      PROVE  Fits /\ FeishuOK'
  <2>1. /\ HandleMessage(t.ev, <<t.ev.id>>)
        /\ UNCHANGED <<self, pending, turns, outbound, snd, shown, cut>> /\ Ends(t)
    BY <1>3, FeishuHost DEF Feishu!Publishes
  <2> QED BY <2>1, HandlerMoves, FitsPublished DEF FeishuOK, Feishu_Threads, Doing, Sending, Message
<1> QED BY <1>1, <1>2, <1>3

LEMMA FeishuSends ==
  ASSUME HostOK, FeishuOK,
         \/ Feishu!SendBegins \/ Feishu!PassOver \/ Feishu!DoSend \/ Feishu!SendTimesOut
         \/ \E th \in self.threads : Feishu!ThreadDone(th)
  PROVE  Fits /\ FeishuOK'
<1>1. CASE Feishu!SendBegins \/ Feishu!PassOver
  <2>1. /\ Sending /\ ~Doing("wait")
        /\ UNCHANGED <<self, tasks, pending, inbound, turns, outbound, published, shown, cut>>
    BY <1>1, FeishuSend DEF Feishu!SendBegins, Feishu!PassOver, Doing
  <2>2. \E todo \in Seq(Steps) : GoesOn(todo)
    BY <1>1, <2>1, FeishuSend, TodoTypes, Zenon DEF Feishu!SendBegins, Feishu!PassOver, Steps
  <2>3. Feishu_Threads'
    BY <2>1 DEF FeishuOK, Feishu_Threads
  <2> QED BY <2>1, <2>2, <2>3, SendMoves DEF Lost, FeishuOK, Fits, HostStep, HostOK
<1>2. CASE Feishu!DoSend
  <2>1. /\ Sending /\ ~Doing("wait")
        /\ UNCHANGED <<tasks, pending, inbound, turns, outbound, published, shown, cut>>
        /\ self' = [self EXCEPT !.threads = self.threads \cup {Message}]
        /\ GoesOn(<<"wait">> \o Left)
    BY <1>2, FeishuSend DEF Feishu!DoSend, Doing, Feishu!Message, Message
  <2>2. <<"wait">> \in Seq(Steps) /\ <<"wait">> \o Left \in Seq(Steps) /\ Message \in Keys /\ snd \in Snd
    BY <2>1, TodoTypes, SendTypes DEF Steps
  <2>3. self' \in FeishuSelf /\ self'.threads = self.threads \cup {Message}
    BY <2>1, <2>2 DEF FeishuOK, FeishuSelf
  <2>4. Doing("wait")' /\ Message' = Message
    <3>1. <<"wait">> \o Left # <<>> /\ Head(<<"wait">> \o Left) = "wait"
      BY <2>1, TodoTypes, StepBefore
    <3>2. snd' = [snd EXCEPT !.todo = <<"wait">> \o Left]
      BY <2>1 DEF GoesOn
    <3>3. snd'.todo = <<"wait">> \o Left /\ snd'.msg = snd.msg
      BY <2>2, <3>2 DEF Snd
    <3> QED BY <3>1, <3>3 DEF Doing, Sending, Message
  <2>5. Feishu_Threads'
    BY <2>1, <2>3, <2>4 DEF FeishuOK, Feishu_Threads
  <2> QED BY <2>1, <2>2, <2>3, <2>5, SendMoves, Zenon DEF Lost, FeishuOK, Fits, HostStep, HostOK
<1>3. CASE Feishu!SendTimesOut
  <2>1. BreaksOff /\ UNCHANGED <<self, tasks, pending, inbound, turns, outbound, published, shown>>
    BY <1>3, FeishuSend DEF Feishu!SendTimesOut
  <2>2. Feishu_Threads'
    BY <2>1 DEF BreaksOff, FeishuOK, Feishu_Threads
  <2> QED BY <2>1, <2>2, SendBroken DEF FeishuOK, Fits, HostStep, HostOK
<1>4. ASSUME NEW th \in self.threads, Feishu!ThreadDone(th)
      PROVE  Fits /\ FeishuOK'
  <2>1. /\ self' = [self EXCEPT !.threads = self.threads \ {th}]
        /\ shown' = Joined(th) \/ shown' = shown
        /\ IF Doing("wait") /\ th = Message THEN GoesOn(Left) ELSE UNCHANGED snd
        /\ UNCHANGED <<tasks, pending, inbound, turns, outbound, published, cut>>
    <3>1. Feishu!Joined(th) = Joined(th) /\ Feishu!Message = Message
      BY Zenon DEF Feishu!Joined, Joined, Feishu!Message, Message
    <3> QED BY <1>4, <3>1, FeishuSend DEF Feishu!ThreadDone, Feishu!Lost
  <2>2. self' \in FeishuSelf /\ self'.threads = self.threads \ {th}
    BY <2>1 DEF FeishuOK, FeishuSelf
  <2>3. th \in Keys /\ (th \in cut \/ (Doing("wait") /\ th = Message))
    BY DEF FeishuOK, FeishuSelf, Feishu_Threads
  <2>4. CASE Doing("wait") /\ th = Message
    <3>1. Sending /\ GoesOn(Left) /\ Left \in Seq(Steps) /\ (Shows \/ Lost)
      BY <2>1, <2>4, SendTypes DEF Doing, Shows, Lost
    <3>2. Feishu_Threads'
      BY <2>1, <2>2, <2>4 DEF FeishuOK, Feishu_Threads
    <3> QED BY <2>1, <2>2, <3>1, <3>2, SendMoves DEF FeishuOK, Fits, HostStep, HostOK
  <2>5. CASE ~(Doing("wait") /\ th = Message)
    <3>1. SendStep
      BY <2>1, <2>3, <2>5 DEF SendStep
    <3>2. Feishu_Threads'
      BY <2>1, <2>2, <2>5 DEF FeishuOK, Feishu_Threads, Doing, Sending, Message
    <3> QED BY <2>1, <2>2, <3>1, <3>2 DEF FeishuOK, Fits, HostStep, HostOK
  <2> QED BY <2>4, <2>5
<1> QED BY <1>1, <1>2, <1>3, <1>4

LEMMA FeishuFits ==
  ASSUME HostOK, FeishuOK, Feishu!Next
  PROVE  Fits /\ FeishuOK'
<1>1. ASSUME Host PROVE Fits /\ FeishuOK'
  <2>1. Fits /\ UNCHANGED <<self, tasks>>
    BY <1>1, FitsHost
  <2>2. UNCHANGED <<snd, cut>> \/ (UNCHANGED cut /\ ~Sending)
    BY <1>1, HostSends
  <2> QED BY <2>1, <2>2 DEF FeishuOK, Feishu_Threads, Doing, Sending, Message
<1> QED BY <1>1, FeishuHost, FeishuMessages, FeishuSends DEF Feishu!Next

-----------------------------------------------------------------------------
(* Email, Slack, QQ, WhatsApp and WeCom.                                   *)

EmailSelf == [name : {"email"}, processed : SUBSET {e.uid : e \in Events}, account : 0 .. 2,
              got : Seq(Events), lastOf : SUBSET Rooms, smtp : SUBSET Keys]
EmailOK == self \in EmailSelf

LEMMA EmailHost ==
  /\ Email!Host <=> Host
  /\ UNCHANGED Email!host <=> UNCHANGED host
  /\ \A e : Email!Arrives(e) <=> Arrives(e)
  /\ \A e, ids : Email!HandleMessage(e, ids) <=> HandleMessage(e, ids)
BY Zenon DEF Email!Host, Host, Email!Take, Take, Email!Dispatch, Dispatch, Email!Returns, Returns,
   Email!Superseded, Superseded, Email!Reports, Reports, Email!Answers, Answers, Email!Reply,
   Reply, Email!NoSend, NoSend, Email!Sending, Sending, Email!host, host, Email!Arrives, Arrives,
   Email!HandleMessage, HandleMessage, Email!IsAllowed, IsAllowed


LEMMA EmailSend ==
  /\ Email!Sending <=> Sending
  /\ \A step : Email!Doing(step) <=> Doing(step)
  /\ \A todo : Email!GoesOn(todo) <=> GoesOn(todo)
  /\ Email!Left = Left
  /\ Email!BreaksOff <=> BreaksOff
  /\ Email!Lost <=> Lost
BY Zenon DEF Email!Sending, Sending, Email!Doing, Doing, Email!GoesOn, GoesOn, Email!Left, Left,
   Email!BreaksOff, BreaksOff, Email!Lost, Lost, Email!Message, Message, Email!NoSend, NoSend


LEMMA EmailPolls ==
  ASSUME HostOK, EmailOK,
         \/ Email!Poll \/ Email!AccountRead \/ Email!FetchFails \/ Email!HandsOn
         \/ \E e \in Events : Email!FetchMessage(e)
  PROVE  Fits /\ EmailOK'
<1>0. self \in EmailSelf /\ self.got \in Seq(Events) /\ self.account \in 0 .. 2
  BY DEF EmailOK, EmailSelf
<1>1. CASE Email!Poll \/ Email!AccountRead \/ Email!FetchFails
  <2>1. UNCHANGED <<pending, host>>
    BY <1>1, EmailHost DEF Email!Poll, Email!AccountRead, Email!FetchFails
  <2>2. \E account \in 0 .. 2, got \in Seq(Events) : self' = [self EXCEPT !.account = account, !.got = got]
    <3>1. CASE Email!Poll
      <4>1. self' = [self EXCEPT !.account = 1, !.got = self.got]
        BY <1>0, <3>1, Zenon DEF Email!Poll, EmailSelf
      <4>2. 1 \in 0 .. 2
        OBVIOUS
      <4> QED BY <1>0, <4>1, <4>2, Zenon
    <3>2. CASE Email!AccountRead
      <4> DEFINE n == IF self.account \in Email!Accounts /\ self.account + 1 \in Email!Accounts
                      THEN self.account + 1 ELSE 0
      <4>1. self' = [self EXCEPT !.account = n, !.got = self.got]
        BY <1>0, <3>2, Zenon DEF Email!AccountRead, EmailSelf
      <4>2. n \in 0 .. 2
        BY <1>0 DEF Email!Accounts
      <4> QED BY <1>0, <4>1, <4>2, Zenon
    <3>3. CASE Email!FetchFails
      <4>1. self' = [self EXCEPT !.account = 0, !.got = <<>>] /\ 0 \in 0 .. 2
        BY <3>3 DEF Email!FetchFails
      <4> QED BY <1>0, <4>1, EmptySeq, Zenon
    <3> QED BY <1>1, <3>1, <3>2, <3>3, Zenon
  <2>3. self' \in EmailSelf
    BY <1>0, <2>2, Zenon DEF EmailSelf
  <2> QED BY <2>1, <2>3, FitsUnmoved DEF EmailOK
<1>2. CASE Email!HandsOn
  <2> DEFINE e == Head(self.got)
  <2>1. e \in Events /\ Tail(self.got) \in Seq(Events) /\ e.chat \in Rooms
    BY <1>0, <1>2, HeadTailProperties, EventIds DEF Email!HandsOn
  <2>2. HandleMessage(e, <<e.id>>) /\ UNCHANGED <<pending, turns, outbound, snd, shown, cut>>
    BY <1>2, EmailHost DEF Email!HandsOn
  <2>3. self' = [self EXCEPT !.got = Tail(self.got), !.lastOf = self.lastOf \cup {e.chat}]
    BY <1>2 DEF Email!HandsOn
  <2> HIDE DEF e
  <2>4. self' \in EmailSelf
    <3>1. PICK got, lastOf : /\ self' = [self EXCEPT !.got = got, !.lastOf = lastOf]
                             /\ got = Tail(self.got) /\ lastOf = self.lastOf \cup {e.chat}
      BY <2>3, Zenon
    <3>2. got \in Seq(Events) /\ lastOf \in SUBSET Rooms
      BY <1>0, <2>1, <3>1 DEF EmailSelf
    <3> QED BY <1>0, <3>1, <3>2, Zenon DEF EmailSelf
  <2> QED BY <2>1, <2>2, <2>4, FitsPublished DEF EmailOK
<1>3. ASSUME NEW e \in Events, Email!FetchMessage(e)
      PROVE  Fits /\ EmailOK'
  <2>1. Arrives(e) /\ UNCHANGED host
    BY <1>3, EmailHost, Zenon DEF Email!FetchMessage
  <2>2. self' = [self EXCEPT !.got = Append(self.got, e), !.processed = self.processed \cup {e.uid}]
    BY <1>3, Zenon DEF Email!FetchMessage
  <2>3. self' \in EmailSelf
    <3>1. PICK got, processed : /\ self' = [self EXCEPT !.got = got, !.processed = processed]
                                /\ got = Append(self.got, e) /\ processed = self.processed \cup {e.uid}
      BY <2>2, Zenon
    <3>2. got \in Seq(Events)
      BY <1>0, <3>1, QueueTypes
    <3>3. processed \in SUBSET {f.uid : f \in Events}
      BY <1>0, <3>1 DEF EmailSelf
    <3> QED BY <1>0, <3>1, <3>2, <3>3, Zenon DEF EmailSelf
  <2> QED BY <2>1, <2>3, FitsArrived DEF EmailOK
<1> QED BY <1>1, <1>2, <1>3

LEMMA EmailSends ==
  ASSUME HostOK, EmailOK,
         \/ \E autoReply \in BOOLEAN : Email!SendBegins(autoReply)
         \/ \E m \in self.smtp : Email!SmtpDone(m)
         \/ Email!SendTimesOut
  PROVE  Fits /\ EmailOK'
<1>1. ASSUME NEW autoReply \in BOOLEAN, Email!SendBegins(autoReply)
      PROVE  Fits /\ EmailOK'
  <2>1. /\ Sending
        /\ GoesOn(<<>>) \/ GoesOn(<<"wait">>)
        /\ self' = self \/ self' = [self EXCEPT !.smtp = self.smtp \cup {Message}]
        /\ UNCHANGED <<tasks, pending, inbound, turns, outbound, published, shown, cut>>
    BY <1>1, EmailSend DEF Email!SendBegins, Doing, Email!Message, Message
  <2>2. Message \in Keys /\ <<"wait">> \in Seq(Steps) /\ <<>> \in Seq(Steps)
    BY <2>1, SendTypes, TodoTypes DEF Steps
  <2>3. self' \in EmailSelf
    BY <2>1, <2>2 DEF EmailOK, EmailSelf
  <2>4. \E todo \in Seq(Steps) : GoesOn(todo)
    BY <2>1, <2>2, Zenon
  <2> QED BY <2>1, <2>3, <2>4, SendMoves DEF Lost, EmailOK, Fits, HostStep, HostOK
<1>2. ASSUME NEW m \in self.smtp, Email!SmtpDone(m)
      PROVE  Fits /\ EmailOK'
  <2>0. Email!Joined(m) = Joined(m) /\ Email!Message = Message
    BY Zenon DEF Email!Joined, Joined, Email!Message, Message
  <2>1. /\ self' = [self EXCEPT !.smtp = self.smtp \ {m}]
        /\ shown' = Joined(m) \/ shown' = shown
        /\ IF Doing("wait") /\ m = Message THEN GoesOn(Left) ELSE UNCHANGED snd
        /\ UNCHANGED <<tasks, pending, inbound, turns, outbound, published, cut>>
    BY <1>2, <2>0, EmailSend DEF Email!SmtpDone, Email!Lost
  <2>2. self' \in EmailSelf /\ m \in Keys
    BY <2>1 DEF EmailOK, EmailSelf
  <2>3. CASE Doing("wait") /\ m = Message
    <3>1. Sending /\ GoesOn(Left) /\ Left \in Seq(Steps) /\ (Shows \/ Lost)
      BY <2>1, <2>3, SendTypes DEF Doing, Shows, Lost
    <3> QED BY <2>1, <2>2, <3>1, SendMoves DEF EmailOK, Fits, HostStep, HostOK
  <2>4. CASE ~(Doing("wait") /\ m = Message)
    <3>1. Is({"email"})
      BY DEF Is, EmailOK, EmailSelf
    <3>2. SendStep
      BY <2>1, <2>2, <2>4, <3>1 DEF SendStep
    <3> QED BY <2>1, <2>2, <3>2 DEF EmailOK, Fits, HostStep, HostOK
  <2> QED BY <2>3, <2>4
<1>3. CASE Email!SendTimesOut
  <2>1. BreaksOff /\ UNCHANGED <<self, tasks, pending, inbound, turns, outbound, published, shown>>
    BY <1>3, EmailSend DEF Email!SendTimesOut
  <2> QED BY <2>1, SendBroken DEF EmailOK, Fits, HostStep, HostOK
<1> QED BY <1>1, <1>2, <1>3

LEMMA EmailFits ==
  ASSUME HostOK, EmailOK, Email!Next
  PROVE  Fits /\ EmailOK'
BY EmailHost, FitsHost, EmailPolls, EmailSends DEF Email!Next, EmailOK

SlackSelf == [name : {"slack"}, botId : BOOLEAN, open : BOOLEAN,
              came : SUBSET (Ids \X Slack!Types), working : SUBSET Ids]
SlackHandlers == [ev : Events, type : Slack!Types, pc : Places]
SlackOK == self \in SlackSelf /\ tasks \subseteq SlackHandlers

LEMMA SlackHost ==
  /\ Slack!Host <=> Host
  /\ UNCHANGED Slack!host <=> UNCHANGED host
  /\ \A t, pc : Slack!Await(t, pc) <=> Await(t, pc)
  /\ \A t : Slack!Ends(t) <=> Ends(t)
  /\ \A e, ids : Slack!HandleMessage(e, ids) <=> HandleMessage(e, ids)
BY Zenon DEF Slack!Host, Host, Slack!Take, Take, Slack!Dispatch, Dispatch, Slack!Returns, Returns,
   Slack!Superseded, Superseded, Slack!Reports, Reports, Slack!Answers, Answers, Slack!Reply,
   Reply, Slack!NoSend, NoSend, Slack!Sending, Sending, Slack!host, host, Slack!Await, Await,
   Slack!Ends, Ends, Slack!HandleMessage, HandleMessage, Slack!IsAllowed, IsAllowed


LEMMA SlackSend ==
  /\ Slack!Sending <=> Sending
  /\ \A step : Slack!Doing(step) <=> Doing(step)
  /\ \A todo : Slack!GoesOn(todo) <=> GoesOn(todo)
  /\ Slack!Left = Left
  /\ Slack!Files = Files
  /\ Slack!Shows <=> Shows
  /\ Slack!Lost <=> Lost
  /\ Slack!BreaksOff <=> BreaksOff
BY Zenon DEF Slack!Sending, Sending, Slack!Doing, Doing, Slack!GoesOn, GoesOn, Slack!Left, Left,
   Slack!Files, Files, Slack!Shows, Shows, Slack!Lost, Lost, Slack!BreaksOff, BreaksOff,
   Slack!Joined, Joined, Slack!Message, Message, Slack!NoSend, NoSend


LEMMA SlackMessages ==
  ASSUME HostOK, SlackOK,
         \/ \E e \in Events, type \in Slack!Types : Slack!OnSocketRequest(e, type)
         \/ \E t \in tasks : Slack!Acknowledged(t) \/ Slack!AddReaction(t) \/ Slack!Publishes(t)
  PROVE  Fits /\ SlackOK'
<1>0. "ack" \in Places /\ "react" \in Places /\ "publish" \in Places
  BY DEF Places
<1>1. ASSUME NEW e \in Events, NEW type \in Slack!Types, Slack!OnSocketRequest(e, type)
      PROVE  Fits /\ SlackOK'
  <2>1. /\ self' = [self EXCEPT !.came = self.came \cup {<<e.id, type>>}]
        /\ tasks' = {[ev |-> e, type |-> type, pc |-> "ack"]}
        /\ UNCHANGED <<pending, host>>
    BY <1>1, SlackHost DEF Slack!OnSocketRequest
  <2>2. self' \in SlackSelf
    BY <2>1, EventIds DEF SlackOK, SlackSelf
  <2>3. tasks' \subseteq SlackHandlers
    BY <1>0, <2>1 DEF SlackHandlers
  <2> QED BY <2>1, <2>2, <2>3, FitsUnmoved DEF SlackOK
<1>2. ASSUME NEW t \in tasks
      PROVE  /\ t.ev \in Events /\ t.ev.id \in Ids
             /\ \A pc \in Places : [t EXCEPT !.pc = pc] \in SlackHandlers
             /\ Ends(t) => tasks' \subseteq SlackHandlers
             /\ \A pc \in Places : Await(t, pc) => tasks' \subseteq SlackHandlers
  <2>1. t \in SlackHandlers
    BY DEF SlackOK
  <2>2. t.ev \in Events /\ \A pc \in Places : [t EXCEPT !.pc = pc] \in SlackHandlers
    BY <2>1 DEF SlackHandlers
  <2> QED BY <2>1, <2>2, EventIds DEF Ends, Await, SlackOK
<1>3. ASSUME NEW t \in tasks, Slack!Acknowledged(t)
      PROVE  Fits /\ SlackOK'
  <2>1. (Ends(t) \/ Await(t, "react")) /\ UNCHANGED <<self, pending, host>>
    BY <1>3, SlackHost DEF Slack!Acknowledged
  <2> QED BY <1>0, <1>2, <2>1, FitsUnmoved DEF SlackOK
<1>4. ASSUME NEW t \in tasks, Slack!AddReaction(t)
      PROVE  Fits /\ SlackOK'
  <2>1. /\ Await(t, "publish") /\ UNCHANGED <<pending, host>>
        /\ \E done \in BOOLEAN :
             self' = [self EXCEPT !.working = IF done THEN self.working \cup {t.ev.id} ELSE self.working]
    BY <1>4, SlackHost DEF Slack!AddReaction
  <2>2. PICK done \in BOOLEAN :
          self' = [self EXCEPT !.working = IF done THEN self.working \cup {t.ev.id} ELSE self.working]
    BY <2>1, Zenon
  <2>3. self' \in SlackSelf
    BY <1>2, <2>2 DEF SlackOK, SlackSelf
  <2> QED BY <1>0, <1>2, <2>1, <2>3, FitsUnmoved DEF SlackOK
<1>5. ASSUME NEW t \in tasks, Slack!Publishes(t)
      PROVE  Fits /\ SlackOK'
  <2>1. /\ HandleMessage(t.ev, <<t.ev.id>>) /\ Ends(t)
        /\ UNCHANGED <<self, pending, turns, outbound, snd, shown, cut>>
    BY <1>5, SlackHost DEF Slack!Publishes
  <2> QED BY <1>2, <2>1, FitsPublished DEF SlackOK
<1> QED BY <1>1, <1>3, <1>4, <1>5

LEMMA SlackSends ==
  ASSUME HostOK, SlackOK,
         \/ Slack!SendBegins \/ Slack!SendText \/ Slack!SendFile
         \/ Slack!UpdateReactEmoji \/ Slack!SendBroken
  PROVE  Fits /\ SlackOK'
<1>1. CASE Slack!SendBegins
  <2> DEFINE first == IF snd.msg.text \/ snd.msg.files = 0 THEN <<"text">> ELSE <<>>
             last == IF snd.msg.final THEN <<"react">> ELSE <<>>
  <2>1. /\ Sending /\ GoesOn(first \o Files \o last)
        /\ UNCHANGED <<self, tasks, pending, inbound, turns, outbound, published, shown, cut>>
    BY <1>1, SlackSend DEF Slack!SendBegins, Doing
  <2>2. first \in Seq(Steps) /\ last \in Seq(Steps)
    BY <2>1, TodoTypes, Zenon DEF Steps
  <2> HIDE DEF first, last
  <2>3. first \o Files \in Seq(Steps)
    BY <2>1, <2>2, TodoTypes
  <2>4. first \o Files \o last \in Seq(Steps)
    BY <2>1, <2>2, <2>3, TodoTypes
  <2> QED BY <2>1, <2>4, SendMoves, Zenon DEF Lost, SlackOK, Fits, HostStep, HostOK
<1>2. CASE Slack!SendText \/ Slack!SendFile
  <2>1. /\ Sending /\ GoesOn(Left) /\ (Shows \/ Lost)
        /\ UNCHANGED <<self, tasks, pending, inbound, turns, outbound, published, cut>>
    BY <1>2, SlackSend DEF Slack!SendText, Slack!SendFile, Doing
  <2> QED BY <2>1, TodoTypes, SendMoves DEF SlackOK, Fits, HostStep, HostOK
<1>3. CASE Slack!UpdateReactEmoji
  <2>1. /\ Sending /\ GoesOn(Left)
        /\ \E done \in BOOLEAN :
             self' = [self EXCEPT !.working = IF done THEN self.working \ {snd.msg.re} ELSE self.working]
        /\ UNCHANGED <<tasks, pending, inbound, turns, outbound, published, shown, cut>>
    BY <1>3, SlackSend, Zenon DEF Slack!UpdateReactEmoji, Doing
  <2>2. PICK working : self' = [self EXCEPT !.working = working] /\ working \in SUBSET Ids
    BY <2>1, Zenon DEF SlackOK, SlackSelf
  <2>3. self' \in SlackSelf
    BY <2>2 DEF SlackOK, SlackSelf
  <2> QED BY <2>1, <2>3, TodoTypes, SendMoves DEF Lost, SlackOK, Fits, HostStep, HostOK
<1>4. CASE Slack!SendBroken
  <2>1. BreaksOff /\ UNCHANGED <<self, tasks, pending, inbound, turns, outbound, published, shown>>
    BY <1>4, SlackSend DEF Slack!SendBroken
  <2> QED BY <2>1, SendBroken DEF SlackOK, Fits, HostStep, HostOK
<1> QED BY <1>1, <1>2, <1>3, <1>4

LEMMA SlackFits ==
  ASSUME HostOK, SlackOK, Slack!Next
  PROVE  Fits /\ SlackOK'
BY SlackHost, FitsHost, SlackMessages, SlackSends DEF Slack!Next, SlackOK

QQSelf == [name : {"qq"}, seen : Seq(Ids), groups : SUBSET Rooms, msgSeq : Nat]
QQOK == self \in QQSelf /\ tasks \subseteq Handlers

LEMMA QQHost ==
  /\ QQ!Host <=> Host
  /\ UNCHANGED QQ!host <=> UNCHANGED host
  /\ \A e : QQ!Arrives(e) <=> Arrives(e)
  /\ \A t : QQ!Ends(t) <=> Ends(t)
  /\ \A e, ids : QQ!HandleMessage(e, ids) <=> HandleMessage(e, ids)
  /\ \A seen, id : QQ!Knows(seen, id) <=> Knows(seen, id)
  /\ \A seen, id : QQ!Remember(seen, id) = Remember(seen, id)
BY Zenon DEF QQ!Host, Host, QQ!Take, Take, QQ!Dispatch, Dispatch, QQ!Returns, Returns,
   QQ!Superseded, Superseded, QQ!Reports, Reports, QQ!Answers, Answers, QQ!Reply, Reply,
   QQ!NoSend, NoSend, QQ!Sending, Sending, QQ!host, host, QQ!Arrives, Arrives, QQ!Ends, Ends,
   QQ!HandleMessage, HandleMessage, QQ!Knows, Knows, QQ!Remember, Remember, QQ!IsAllowed,
   IsAllowed


LEMMA QQSend ==
  /\ QQ!Sending <=> Sending
  /\ \A step : QQ!Doing(step) <=> Doing(step)
  /\ \A todo : QQ!GoesOn(todo) <=> GoesOn(todo)
  /\ QQ!Left = Left
  /\ QQ!Shows <=> Shows
  /\ QQ!Lost <=> Lost
BY Zenon DEF QQ!Sending, Sending, QQ!Doing, Doing, QQ!GoesOn, GoesOn, QQ!Left, Left, QQ!Shows,
   Shows, QQ!Lost, Lost, QQ!Joined, Joined, QQ!Message, Message


LEMMA QQFits ==
  ASSUME HostOK, QQOK, QQ!Next
  PROVE  Fits /\ QQOK'
<1>1. ASSUME NEW e \in Events, QQ!OnMessage(e)
      PROVE  Fits /\ QQOK'
  <2>1. Arrives(e) /\ UNCHANGED host
    BY <1>1, QQHost DEF QQ!OnMessage
  <2>2. tasks' \subseteq Handlers
    <3>1. [ev |-> e, pc |-> "publish"] \in Handlers
      BY HandlerStarts, Zenon DEF Places
    <3> QED BY <1>1, <3>1 DEF QQ!OnMessage, QQOK
  <2>3. \/ self' = self
        \/ self' = [self EXCEPT !.seen = Remember(self.seen, e.id),
                                !.groups = IF e.direct THEN self.groups \ {e.chat} ELSE self.groups \cup {e.chat}]
        \/ self' = [self EXCEPT !.seen = Remember(self.seen, e.id)]
    BY <1>1, QQHost, Zenon DEF QQ!OnMessage
  <2>4. Remember(self.seen, e.id) \in Seq(Ids) /\ e.chat \in Rooms /\ self \in QQSelf
    BY EventIds, RememberTypes DEF QQOK, QQSelf
  <2>5. self' \in QQSelf
    <3>1. CASE self' = [self EXCEPT !.seen = Remember(self.seen, e.id),
                          !.groups = IF e.direct THEN self.groups \ {e.chat} ELSE self.groups \cup {e.chat}]
      <4>1. PICK seen, groups : /\ self' = [self EXCEPT !.seen = seen, !.groups = groups]
                                /\ seen = Remember(self.seen, e.id)
                                /\ groups = IF e.direct THEN self.groups \ {e.chat} ELSE self.groups \cup {e.chat}
        BY <3>1, Zenon
      <4>2. seen \in Seq(Ids) /\ groups \in SUBSET Rooms
        BY <2>4, <4>1 DEF QQSelf
      <4> QED BY <2>4, <4>1, <4>2, Zenon DEF QQSelf
    <3>2. CASE self' = self \/ self' = [self EXCEPT !.seen = Remember(self.seen, e.id)]
      BY <2>4, <3>2 DEF QQSelf
    <3> QED BY <2>3, <3>1, <3>2
  <2> QED BY <2>1, <2>2, <2>5, FitsArrived DEF QQOK
<1>2. ASSUME NEW t \in tasks, QQ!Publishes(t)
      PROVE  Fits /\ QQOK'
  <2>1. /\ HandleMessage(t.ev, <<t.ev.id>>) /\ Ends(t)
        /\ UNCHANGED <<self, pending, turns, outbound, snd, shown, cut>>
    BY <1>2, QQHost DEF QQ!Publishes
  <2> QED BY <2>1, HandlerMoves, FitsPublished DEF QQOK
<1>3. CASE QQ!SendBegins
  <2>1. /\ Sending
        /\ GoesOn(<<"group">>) \/ GoesOn(<<"c2c">>)
        /\ self' = [self EXCEPT !.msgSeq = self.msgSeq + 1]
        /\ UNCHANGED <<tasks, pending, inbound, turns, outbound, published, shown, cut>>
    BY <1>3, QQSend DEF QQ!SendBegins, Doing
  <2>2. self' \in QQSelf
    BY <2>1 DEF QQOK, QQSelf
  <2>3. \E todo \in Seq(Steps) : GoesOn(todo)
    BY <2>1, TodoTypes, Zenon DEF Steps
  <2> QED BY <2>1, <2>2, <2>3, SendMoves DEF Lost, QQOK, Fits, HostStep, HostOK
<1>4. CASE QQ!PostMessage
  <2>1. /\ Sending /\ GoesOn(Left) /\ (Shows \/ Lost)
        /\ UNCHANGED <<self, tasks, pending, inbound, turns, outbound, published, cut>>
    BY <1>4, QQSend DEF QQ!PostMessage, Doing
  <2> QED BY <2>1, TodoTypes, SendMoves DEF QQOK, Fits, HostStep, HostOK
<1> QED BY <1>1, <1>2, <1>3, <1>4, QQHost, FitsHost DEF QQ!Next, QQOK

WhatsAppSelf == [name : {"whatsapp"}, seen : Seq(Ids), ws : {"none", "open", "closed"}, connected : BOOLEAN]
WhatsAppOK == self \in WhatsAppSelf /\ tasks \subseteq Handlers

LEMMA WhatsAppHost ==
  /\ WhatsApp!Host <=> Host
  /\ UNCHANGED WhatsApp!host <=> UNCHANGED host
  /\ \A e : WhatsApp!Arrives(e) <=> Arrives(e)
  /\ \A t : WhatsApp!Ends(t) <=> Ends(t)
  /\ \A e, ids : WhatsApp!HandleMessage(e, ids) <=> HandleMessage(e, ids)
  /\ \A seen, id : WhatsApp!Knows(seen, id) <=> Knows(seen, id)
  /\ \A seen, id : WhatsApp!Remember(seen, id) = Remember(seen, id)
BY Zenon DEF WhatsApp!Host, Host, WhatsApp!Take, Take, WhatsApp!Dispatch, Dispatch,
   WhatsApp!Returns, Returns, WhatsApp!Superseded, Superseded, WhatsApp!Reports, Reports,
   WhatsApp!Answers, Answers, WhatsApp!Reply, Reply, WhatsApp!NoSend, NoSend, WhatsApp!Sending,
   Sending, WhatsApp!host, host, WhatsApp!Arrives, Arrives, WhatsApp!Ends, Ends,
   WhatsApp!HandleMessage, HandleMessage, WhatsApp!Knows, Knows, WhatsApp!Remember, Remember,
   WhatsApp!IsAllowed, IsAllowed


LEMMA WhatsAppSend ==
  /\ WhatsApp!Sending <=> Sending
  /\ \A step : WhatsApp!Doing(step) <=> Doing(step)
  /\ \A todo : WhatsApp!GoesOn(todo) <=> GoesOn(todo)
  /\ WhatsApp!Shows <=> Shows
  /\ WhatsApp!Lost <=> Lost
BY Zenon DEF WhatsApp!Sending, Sending, WhatsApp!Doing, Doing, WhatsApp!GoesOn, GoesOn,
   WhatsApp!Shows, Shows, WhatsApp!Lost, Lost, WhatsApp!Joined, Joined, WhatsApp!Message, Message


LEMMA WhatsAppFits ==
  ASSUME HostOK, WhatsAppOK, WhatsApp!Next
  PROVE  Fits /\ WhatsAppOK'
<1>1. ASSUME NEW e \in Events, WhatsApp!HandleBridgeMessage(e)
      PROVE  Fits /\ WhatsAppOK'
  <2>1. Arrives(e) /\ UNCHANGED host
    BY <1>1, WhatsAppHost DEF WhatsApp!HandleBridgeMessage
  <2>2. tasks' \subseteq Handlers
    <3>1. [ev |-> e, pc |-> "publish"] \in Handlers
      BY HandlerStarts, Zenon DEF Places
    <3> QED BY <1>1, <3>1 DEF WhatsApp!HandleBridgeMessage, WhatsAppOK
  <2>3. self' = self \/ self' = [self EXCEPT !.seen = Remember(self.seen, e.id)]
    BY <1>1, WhatsAppHost DEF WhatsApp!HandleBridgeMessage
  <2>4. Remember(self.seen, e.id) \in Seq(Ids)
    BY EventIds, RememberTypes DEF WhatsAppOK, WhatsAppSelf
  <2>5. self' \in WhatsAppSelf
    BY <2>3, <2>4 DEF WhatsAppOK, WhatsAppSelf
  <2> QED BY <2>1, <2>2, <2>5, FitsArrived DEF WhatsAppOK
<1>2. ASSUME NEW t \in tasks, WhatsApp!Publishes(t)
      PROVE  Fits /\ WhatsAppOK'
  <2>1. /\ HandleMessage(t.ev, <<t.ev.id>>) /\ Ends(t)
        /\ UNCHANGED <<self, pending, turns, outbound, snd, shown, cut>>
    BY <1>2, WhatsAppHost DEF WhatsApp!Publishes
  <2> QED BY <2>1, HandlerMoves, FitsPublished DEF WhatsAppOK
<1>3. ASSUME WhatsApp!Connect \/ WhatsApp!BridgeCloses \/ \E up \in BOOLEAN : WhatsApp!BridgeStatus(up)
      PROVE  Fits /\ WhatsAppOK'
  <2>1. UNCHANGED <<tasks, pending, host>>
    BY <1>3, WhatsAppHost DEF WhatsApp!Connect, WhatsApp!BridgeCloses, WhatsApp!BridgeStatus
  <2>2. self' \in WhatsAppSelf
    <3>1. CASE WhatsApp!Connect \/ WhatsApp!BridgeCloses
      <4>1. \/ self' = [self EXCEPT !.ws = "closed"]
            \/ \E up \in BOOLEAN, ws \in {"none", "open", "closed"} : self' = [self EXCEPT !.ws = ws, !.connected = up]
        BY <3>1, Zenon DEF WhatsApp!Connect, WhatsApp!BridgeCloses
      <4> QED BY <4>1, Zenon DEF WhatsAppOK, WhatsAppSelf
    <3>2. CASE \E up \in BOOLEAN : WhatsApp!BridgeStatus(up)
      BY <3>2 DEF WhatsApp!BridgeStatus, WhatsAppOK, WhatsAppSelf
    <3> QED BY <1>3, <3>1, <3>2
  <2> QED BY <2>1, <2>2, FitsUnmoved DEF WhatsAppOK
<1>4. CASE WhatsApp!Send
  <2>1. /\ Sending /\ GoesOn(<<>>) /\ (Shows \/ Lost)
        /\ UNCHANGED <<self, tasks, pending, inbound, turns, outbound, published, cut>>
    BY <1>4, WhatsAppSend DEF WhatsApp!Send, Doing
  <2> QED BY <2>1, TodoTypes, SendMoves, Zenon DEF WhatsAppOK, Fits, HostStep, HostOK
<1> QED BY <1>1, <1>2, <1>3, <1>4, WhatsAppHost, FitsHost DEF WhatsApp!Next, WhatsAppOK

WecomSelf == [name : {"wecom"}, seen : Seq(Ids), frames : [Rooms -> Ids \cup {0}]]
WecomOK == self \in WecomSelf /\ tasks \subseteq Handlers

LEMMA WecomHost ==
  /\ Wecom!Host <=> Host
  /\ UNCHANGED Wecom!host <=> UNCHANGED host
  /\ \A e : Wecom!Arrives(e) <=> Arrives(e)
  /\ \A t, pc : Wecom!Await(t, pc) <=> Await(t, pc)
  /\ \A t : Wecom!Ends(t) <=> Ends(t)
  /\ \A e, ids : Wecom!HandleMessage(e, ids) <=> HandleMessage(e, ids)
  /\ \A seen, id : Wecom!Knows(seen, id) <=> Knows(seen, id)
  /\ \A seen, id : Wecom!Remember(seen, id) = Remember(seen, id)
BY Zenon DEF Wecom!Host, Host, Wecom!Take, Take, Wecom!Dispatch, Dispatch, Wecom!Returns, Returns,
   Wecom!Superseded, Superseded, Wecom!Reports, Reports, Wecom!Answers, Answers, Wecom!Reply,
   Reply, Wecom!NoSend, NoSend, Wecom!Sending, Sending, Wecom!host, host, Wecom!Arrives, Arrives,
   Wecom!Await, Await, Wecom!Ends, Ends, Wecom!HandleMessage, HandleMessage, Wecom!Knows, Knows,
   Wecom!Remember, Remember, Wecom!IsAllowed, IsAllowed


LEMMA WecomSend ==
  /\ Wecom!Sending <=> Sending
  /\ \A step : Wecom!Doing(step) <=> Doing(step)
  /\ \A todo : Wecom!GoesOn(todo) <=> GoesOn(todo)
  /\ Wecom!Shows <=> Shows
  /\ Wecom!Lost <=> Lost
BY Zenon DEF Wecom!Sending, Sending, Wecom!Doing, Doing, Wecom!GoesOn, GoesOn, Wecom!Shows, Shows,
   Wecom!Lost, Lost, Wecom!Joined, Joined, Wecom!Message, Message


LEMMA WecomFits ==
  ASSUME HostOK, WecomOK, Wecom!Next
  PROVE  Fits /\ WecomOK'
<1>1. ASSUME NEW e \in Events, Wecom!ProcessMessage(e)
      PROVE  Fits /\ WecomOK'
  <2>1. Arrives(e) /\ UNCHANGED host
    BY <1>1, WecomHost DEF Wecom!ProcessMessage
  <2>2. tasks' \subseteq Handlers
    <3>1. [ev |-> e, pc |-> "download"] \in Handlers
      BY HandlerStarts, Zenon DEF Places
    <3> QED BY <1>1, <3>1 DEF Wecom!ProcessMessage, WecomOK
  <2>3. self' = self \/ self' = [self EXCEPT !.seen = Remember(self.seen, e.id)]
    BY <1>1, WecomHost DEF Wecom!ProcessMessage
  <2>4. Remember(self.seen, e.id) \in Seq(Ids)
    BY EventIds, RememberTypes DEF WecomOK, WecomSelf
  <2>5. self' \in WecomSelf
    BY <2>3, <2>4 DEF WecomOK, WecomSelf
  <2> QED BY <2>1, <2>2, <2>5, FitsArrived DEF WecomOK
<1>2. ASSUME NEW t \in tasks, Wecom!Downloaded(t)
      PROVE  Fits /\ WecomOK'
  <2>1. UNCHANGED <<pending, host>> /\ (Await(t, "publish") \/ Ends(t))
        /\ (self' = self \/ self' = [self EXCEPT !.frames = [self.frames EXCEPT ![t.ev.chat] = t.ev.id]])
    BY <1>2, WecomHost DEF Wecom!Downloaded
  <2>2. t.ev.id \in Ids /\ t.ev.chat \in Rooms /\ tasks' \subseteq Handlers
    BY <2>1, HandlerMoves, Zenon DEF WecomOK, Places
  <2>3. [self.frames EXCEPT ![t.ev.chat] = t.ev.id] \in [Rooms -> Ids \cup {0}]
    BY <2>2 DEF WecomOK, WecomSelf
  <2>4. self' \in WecomSelf
    BY <2>1, <2>3 DEF WecomOK, WecomSelf
  <2> QED BY <2>1, <2>2, <2>4, FitsUnmoved DEF WecomOK
<1>3. ASSUME NEW t \in tasks, Wecom!Publishes(t)
      PROVE  Fits /\ WecomOK'
  <2>1. /\ HandleMessage(t.ev, <<t.ev.id>>) /\ Ends(t)
        /\ UNCHANGED <<self, pending, turns, outbound, snd, shown, cut>>
    BY <1>3, WecomHost DEF Wecom!Publishes
  <2> QED BY <2>1, HandlerMoves, FitsPublished DEF WecomOK
<1>4. CASE Wecom!Send
  <2>1. /\ Sending /\ GoesOn(<<>>) /\ (Shows \/ Lost)
        /\ UNCHANGED <<self, tasks, pending, inbound, turns, outbound, published, cut>>
    BY <1>4, WecomSend DEF Wecom!Send, Doing
  <2> QED BY <2>1, TodoTypes, SendMoves, Zenon DEF WecomOK, Fits, HostStep, HostOK
<1> QED BY <1>1, <1>2, <1>3, <1>4, WecomHost, FitsHost DEF Wecom!Next, WecomOK

-----------------------------------------------------------------------------
(* DingTalk and the self-built WeCom application. The token that a send holds *)
(* was usable, or new, when the send began, and has aged by the time spent.    *)

Holding == Sending /\ ~Doing("begin")

Fresh ==
  /\ self.spent <= SendTimeout
  /\ Holding => self.held <= self.spent \/ self.held < self.spent + TokenLife - TokenMargin

LEMMA FreshStays ==
  ASSUME Fresh, self'.held = self.held, self'.spent = self.spent, Holding' => Holding
  PROVE  Fresh'
BY DEF Fresh

LEMMA HostHolds ==
  ASSUME Host
  PROVE  Holding' => Holding
<1>1. CASE Dispatch \/ Returns
  <2>1. CASE snd' = NoSend
    BY <2>1 DEF Holding, Sending, NoSend
  <2>2. ASSUME NEW m, snd' = [msg |-> m, todo |-> <<"begin">>, failed |-> 0, told |-> 0]
        PROVE  ~Holding'
    <3>1. snd'.todo = <<"begin">>
      BY <2>2
    <3>2. Head(<<"begin">>) = "begin"
      OBVIOUS
    <3> QED BY <3>1, <3>2 DEF Holding, Doing, Sending
  <2> QED BY <1>1, <2>1, <2>2 DEF Dispatch, Returns
<1>2. CASE Take \/ \E t \in turns : Superseded(t) \/ Reports(t) \/ Answers(t)
  <2>1. snd' = snd
    BY <1>2, Zenon DEF Take, Superseded, Reports, Answers
  <2> QED BY <2>1 DEF Holding, Doing, Sending
<1> QED BY <1>1, <1>2 DEF Host

\* What a tick and the start of a send make of the three times.
LEMMA TokenTimesAfter ==
  ASSUME Fresh, self.age \in 0 .. TokenLife, self.held \in 0 .. TokenLife, self.spent \in Nat,
         NEW age, NEW held, NEW spent
  PROVE  /\ /\ Sending => self.spent < SendTimeout
            /\ age = Older(self.age) /\ held = (IF Sending THEN Older(self.held) ELSE 0)
            /\ spent = (IF Sending THEN self.spent + 1 ELSE 0)
            => /\ age \in 0 .. TokenLife /\ held \in 0 .. TokenLife /\ spent \in Nat
               /\ spent <= SendTimeout
               /\ Holding => held <= spent \/ held < spent + TokenLife - TokenMargin
         /\ \/ age = 0 /\ held = 0 /\ spent = 0
            \/ Usable /\ age = self.age /\ held = self.age /\ spent = 0
            => /\ age \in 0 .. TokenLife /\ held \in 0 .. TokenLife /\ spent \in Nat
               /\ spent <= SendTimeout
               /\ held <= spent \/ held < spent + TokenLife - TokenMargin
<1>1. TokenLife \in Nat /\ TokenMargin \in 0 .. TokenLife /\ SendTimeout \in Nat
  BY TokenTimes
<1>2. Holding => Sending
  BY DEF Holding
<1>3. ASSUME Sending => self.spent < SendTimeout,
             age = Older(self.age), held = (IF Sending THEN Older(self.held) ELSE 0),
             spent = (IF Sending THEN self.spent + 1 ELSE 0)
      PROVE  /\ age \in 0 .. TokenLife /\ held \in 0 .. TokenLife /\ spent \in Nat
             /\ spent <= SendTimeout
             /\ Holding => held <= spent \/ held < spent + TokenLife - TokenMargin
  BY <1>1, <1>2, <1>3 DEF Older, Fresh
<1>4. ASSUME \/ age = 0 /\ held = 0 /\ spent = 0
             \/ Usable /\ age = self.age /\ held = self.age /\ spent = 0
      PROVE  /\ age \in 0 .. TokenLife /\ held \in 0 .. TokenLife /\ spent \in Nat
             /\ spent <= SendTimeout
             /\ held <= spent \/ held < spent + TokenLife - TokenMargin
  BY <1>1, <1>4 DEF Usable
<1> QED BY <1>3, <1>4

\* They change together, and nothing else of the adapter does.
Retimed(age, held, spent) == self' = [self EXCEPT !.age = age, !.held = held, !.spent = spent]

LEMMA TickTimes ==
  ASSUME Tick
  PROVE  /\ Sending => self.spent < SendTimeout
         /\ Retimed(Older(self.age), IF Sending THEN Older(self.held) ELSE 0, IF Sending THEN self.spent + 1 ELSE 0)
         /\ UNCHANGED <<tasks, pending, host>>
BY Zenon DEF Tick, Retimed

LEMMA TokenGot ==
  ASSUME NEW todo, GetAccessToken(todo), self = [self EXCEPT !.age = self.age]
  PROVE  \/ /\ \/ Retimed(0, 0, 0)
               \/ Usable /\ Retimed(self.age, self.age, 0)
            /\ GoesOn(todo) /\ UNCHANGED cut
         \/ BreaksOff /\ UNCHANGED self
<1>1. CASE /\ Usable
           /\ self' = [self EXCEPT !.held = self.age, !.spent = 0]
           /\ GoesOn(todo) /\ UNCHANGED cut
  BY <1>1, Zenon DEF Retimed
<1>2. CASE ~Usable /\ FetchToken(todo)
  BY <1>2, Zenon DEF FetchToken, Retimed
<1> QED BY <1>1, <1>2 DEF GetAccessToken

DingTalkSelf == [name : {"dingtalk"}, age : 0 .. TokenLife, held : 0 .. TokenLife, spent : Nat]
DingTalkHandlers == [ev : Events, pc : Places, n : Nat]
DingTalkOK == self \in DingTalkSelf /\ tasks \subseteq DingTalkHandlers /\ Fresh

LEMMA DingTalkHost ==
  /\ DingTalk!Host <=> Host
  /\ UNCHANGED DingTalk!host <=> UNCHANGED host
  /\ \A e : DingTalk!Arrives(e) <=> Arrives(e)
  /\ \A t, pc : DingTalk!Await(t, pc) <=> Await(t, pc)
  /\ \A t : DingTalk!Ends(t) <=> Ends(t)
  /\ \A e, ids : DingTalk!HandleMessage(e, ids) <=> HandleMessage(e, ids)
BY Zenon DEF DingTalk!Host, Host, DingTalk!Take, Take, DingTalk!Dispatch, Dispatch,
   DingTalk!Returns, Returns, DingTalk!Superseded, Superseded, DingTalk!Reports, Reports,
   DingTalk!Answers, Answers, DingTalk!Reply, Reply, DingTalk!NoSend, NoSend, DingTalk!Sending,
   Sending, DingTalk!host, host, DingTalk!Arrives, Arrives, DingTalk!Await, Await, DingTalk!Ends,
   Ends, DingTalk!HandleMessage, HandleMessage, DingTalk!IsAllowed, IsAllowed


LEMMA DingTalkSend ==
  /\ DingTalk!Sending <=> Sending
  /\ \A step : DingTalk!Doing(step) <=> Doing(step)
  /\ \A todo : DingTalk!GoesOn(todo) <=> GoesOn(todo)
  /\ \A todo : DingTalk!Told(todo) <=> Told(todo)
  /\ \A todo : DingTalk!Failed(todo) <=> Failed(todo)
  /\ DingTalk!Left = Left
  /\ DingTalk!Files = Files
  /\ DingTalk!Shows <=> Shows
  /\ DingTalk!Lost <=> Lost
  /\ DingTalk!BreaksOff <=> BreaksOff
BY Zenon DEF DingTalk!Sending, Sending, DingTalk!Doing, Doing, DingTalk!GoesOn, GoesOn,
   DingTalk!Told, Told, DingTalk!Failed, Failed, DingTalk!Left, Left, DingTalk!Files, Files,
   DingTalk!Shows, Shows, DingTalk!Lost, Lost, DingTalk!BreaksOff, BreaksOff, DingTalk!Joined,
   Joined, DingTalk!Message, Message, DingTalk!NoSend, NoSend


LEMMA DingTalkToken ==
  /\ DingTalk!Tick <=> Tick
  /\ \A todo : DingTalk!GetAccessToken(todo) <=> GetAccessToken(todo)
<1>1. DingTalk!Tick <=> Tick
  BY Zenon DEF DingTalk!Tick, Tick, DingTalk!Older, Older, DingTalk!Sending, Sending, DingTalk!host, host
<1>2. ASSUME NEW todo
      PROVE  DingTalk!GetAccessToken(todo) <=> GetAccessToken(todo)
  BY Zenon DEF DingTalk!GetAccessToken, GetAccessToken, DingTalk!FetchToken, FetchToken, DingTalk!Usable, Usable,
     DingTalk!GoesOn, GoesOn, DingTalk!BreaksOff, BreaksOff, DingTalk!Sending, Sending, DingTalk!NoSend, NoSend,
     DingTalk!Message, Message
<1> QED BY <1>1, <1>2

LEMMA DingTalkRetimed ==
  ASSUME self \in DingTalkSelf, NEW age \in 0 .. TokenLife, NEW held \in 0 .. TokenLife, NEW spent \in Nat,
         Retimed(age, held, spent)
  PROVE  self' \in DingTalkSelf /\ self'.age = age /\ self'.held = held /\ self'.spent = spent
BY Zenon DEF DingTalkSelf, Retimed

LEMMA DingTalkTimes ==
  ASSUME HostOK, DingTalkOK, DingTalk!Tick \/ DingTalk!SendBegins
  PROVE  Fits /\ DingTalkOK'
<1>0. self \in DingTalkSelf /\ Fresh /\ self = [self EXCEPT !.age = self.age]
      /\ self.age \in 0 .. TokenLife /\ self.held \in 0 .. TokenLife /\ self.spent \in Nat
  BY DEF DingTalkOK, DingTalkSelf
<1>1. CASE DingTalk!Tick
  <2>1. PICK age, held, spent :
          /\ age = Older(self.age) /\ held = (IF Sending THEN Older(self.held) ELSE 0)
          /\ spent = (IF Sending THEN self.spent + 1 ELSE 0)
          /\ Retimed(age, held, spent) /\ (Sending => self.spent < SendTimeout)
          /\ UNCHANGED <<tasks, pending, host>>
    BY <1>1, DingTalkToken, TickTimes, Zenon
  <2>2. /\ age \in 0 .. TokenLife /\ held \in 0 .. TokenLife /\ spent \in Nat /\ spent <= SendTimeout
        /\ Holding => held <= spent \/ held < spent + TokenLife - TokenMargin
    BY <1>0, <2>1, TokenTimesAfter, Zenon
  <2>3. self' \in DingTalkSelf /\ self'.held = held /\ self'.spent = spent
    BY <1>0, <2>1, <2>2, DingTalkRetimed
  <2>4. Fresh'
    BY <2>1, <2>2, <2>3 DEF Fresh, Holding, Sending, Doing, host
  <2> QED BY <2>1, <2>3, <2>4, FitsUnmoved DEF DingTalkOK
<1>2. CASE DingTalk!SendBegins
  <2> DEFINE text == IF snd.msg.text THEN <<"text">> ELSE <<>>
             todo == text \o Files
  <2>1. /\ Sending /\ Doing("begin") /\ GetAccessToken(todo)
        /\ UNCHANGED <<tasks, pending, inbound, turns, outbound, published, shown>>
    BY <1>2, DingTalkSend, DingTalkToken DEF DingTalk!SendBegins, Doing
  <2>2. text \in Seq(Steps)
    BY <2>1, TodoTypes, Zenon DEF Steps
  <2> HIDE DEF text
  <2>3. todo \in Seq(Steps)
    BY <2>1, <2>2, TodoTypes
  <2> HIDE DEF todo
  <2>4. \/ /\ \/ Retimed(0, 0, 0)
              \/ Usable /\ Retimed(self.age, self.age, 0)
           /\ GoesOn(todo) /\ UNCHANGED cut
        \/ BreaksOff /\ UNCHANGED self
    BY <1>0, <2>1, TokenGot
  <2>5. CASE BreaksOff /\ UNCHANGED self
    <3>1. ~Holding'
      BY <2>5 DEF BreaksOff, Holding, Sending, NoSend
    <3> QED BY <1>0, <2>1, <2>5, <3>1, SendBroken, FreshStays DEF DingTalkOK, Fits, HostStep, HostOK
  <2>6. ASSUME NEW age, NEW held, NEW spent, Retimed(age, held, spent), GoesOn(todo), UNCHANGED cut,
               \/ age = 0 /\ held = 0 /\ spent = 0
               \/ Usable /\ age = self.age /\ held = self.age /\ spent = 0
        PROVE  Fits /\ DingTalkOK'
    <3>1. /\ age \in 0 .. TokenLife /\ held \in 0 .. TokenLife /\ spent \in Nat /\ spent <= SendTimeout
          /\ held <= spent \/ held < spent + TokenLife - TokenMargin
      BY <1>0, <2>6, TokenTimesAfter, Zenon
    <3>2. self' \in DingTalkSelf /\ self'.held = held /\ self'.spent = spent
      BY <1>0, <2>6, <3>1, DingTalkRetimed
    <3>3. Fresh'
      BY <3>1, <3>2 DEF Fresh
    <3>4. SendStep
      BY <2>1, <2>3, <2>6, SendMoves DEF Lost
    <3> QED BY <2>1, <3>2, <3>3, <3>4 DEF DingTalkOK, Fits, HostStep, HostOK
  <2> QED BY <2>4, <2>5, <2>6
<1> QED BY <1>1, <1>2

LEMMA DingTalkMessages ==
  ASSUME HostOK, DingTalkOK,
         \/ \E e \in Events : DingTalk!Process(e)
         \/ \E t \in tasks : DingTalk!Downloaded(t) \/ DingTalk!OnMessage(t)
  PROVE  Fits /\ DingTalkOK'
<1>0. "download" \in Places /\ "publish" \in Places
  BY DEF Places
<1>1. ASSUME NEW e \in Events, DingTalk!Process(e)
      PROVE  Fits /\ DingTalkOK'
  <2>1. /\ Arrives(e) /\ UNCHANGED <<self, host>>
        /\ tasks' = tasks \cup {[ev |-> e, pc |-> "download", n |-> pending[e.id]]}
    BY <1>1, DingTalkHost DEF DingTalk!Process
  <2>2. pending[e.id] \in Nat
    BY EventIds DEF HostOK
  <2>3. [ev |-> e, pc |-> "download", n |-> pending[e.id]] \in DingTalkHandlers
    BY <1>0, <2>2 DEF DingTalkHandlers
  <2>4. Holding' => Holding
    BY <2>1 DEF Holding, Sending, Doing, host
  <2> QED BY <2>1, <2>3, <2>4, FitsArrived, FreshStays DEF DingTalkOK
<1>2. ASSUME NEW t \in tasks, Ends(t) \/ Await(t, "publish")
      PROVE  tasks' \subseteq DingTalkHandlers
  <2>1. [t EXCEPT !.pc = "publish"] \in DingTalkHandlers
    BY <1>0 DEF DingTalkOK, DingTalkHandlers
  <2> QED BY <1>2, <2>1 DEF Ends, Await, DingTalkOK
<1>3. ASSUME NEW t \in tasks, DingTalk!Downloaded(t)
      PROVE  Fits /\ DingTalkOK'
  <2>1. (Ends(t) \/ Await(t, "publish")) /\ UNCHANGED <<self, pending, host>>
    BY <1>3, DingTalkHost DEF DingTalk!Downloaded, DingTalk!LeavesToTask
  <2>2. Holding' => Holding
    BY <2>1 DEF Holding, Sending, Doing, host
  <2> QED BY <1>2, <2>1, <2>2, FitsUnmoved, FreshStays DEF DingTalkOK
<1>4. ASSUME NEW t \in tasks, DingTalk!OnMessage(t)
      PROVE  Fits /\ DingTalkOK'
  <2>1. /\ HandleMessage(t.ev, <<t.ev.id>>) /\ Ends(t)
        /\ UNCHANGED <<self, pending, turns, outbound, snd, shown, cut>>
    BY <1>4, DingTalkHost DEF DingTalk!OnMessage
  <2>2. Holding' => Holding
    BY <2>1 DEF Holding, Sending, Doing
  <2>3. t.ev \in Events
    BY DEF DingTalkOK, DingTalkHandlers
  <2> QED BY <1>2, <2>1, <2>2, <2>3, FitsPublished, FreshStays DEF DingTalkOK
<1> QED BY <1>1, <1>3, <1>4

LEMMA DingTalkSends ==
  ASSUME HostOK, DingTalkOK,
         DingTalk!SendMarkdownText \/ DingTalk!SendMediaRef \/ DingTalk!SendNote \/ DingTalk!SendTimesOut
  PROVE  Fits /\ DingTalkOK'
<1>1. CASE DingTalk!SendMarkdownText \/ DingTalk!SendMediaRef \/ DingTalk!SendNote
  <2>1. /\ Sending /\ cut' = cut /\ (Shows \/ Lost)
        /\ UNCHANGED <<self, tasks, pending, inbound, turns, outbound, published>>
    BY <1>1, DingTalkSend DEF DingTalk!SendMarkdownText, DingTalk!SendMediaRef, DingTalk!SendNote,
       DingTalk!Unreadable, Doing
  <2>2. \E todo \in Seq(Steps) : GoesOn(todo) \/ Told(todo) \/ Failed(todo)
    <3>1. Left \in Seq(Steps) /\ <<"note">> \o Left \in Seq(Steps)
      BY <2>1, TodoTypes DEF Steps
    <3> QED BY <1>1, <3>1, DingTalkSend, Zenon
            DEF DingTalk!SendMarkdownText, DingTalk!SendMediaRef, DingTalk!SendNote, DingTalk!Unreadable
  <2>3. Holding
    BY <1>1, <2>1, DingTalkSend DEF DingTalk!SendMarkdownText, DingTalk!SendMediaRef, DingTalk!SendNote, Doing, Holding
  <2>4. SendStep
    BY <2>1, <2>2, SendMoves
  <2> QED BY <2>1, <2>3, <2>4, FreshStays DEF DingTalkOK, Fits, HostStep, HostOK
<1>2. CASE DingTalk!SendTimesOut
  <2>1. BreaksOff /\ UNCHANGED <<self, tasks, pending, inbound, turns, outbound, published, shown>>
    BY <1>2, DingTalkSend DEF DingTalk!SendTimesOut
  <2>2. ~Holding'
    BY <2>1 DEF BreaksOff, Holding, Sending, NoSend
  <2> QED BY <2>1, <2>2, SendBroken, FreshStays DEF DingTalkOK, Fits, HostStep, HostOK
<1> QED BY <1>1, <1>2

LEMMA DingTalkFits ==
  ASSUME HostOK, DingTalkOK, DingTalk!Next
  PROVE  Fits /\ DingTalkOK'
<1>1. ASSUME Host PROVE Fits /\ DingTalkOK'
  BY <1>1, FitsHost, HostHolds, FreshStays DEF DingTalkOK
<1> QED BY <1>1, DingTalkHost, DingTalkTimes, DingTalkMessages, DingTalkSends DEF DingTalk!Next

WecomSelfbuiltSelf ==
  [name : {"wecom_selfbuilt"}, seen : Seq(Ids), age : 0 .. TokenLife, held : 0 .. TokenLife, spent : Nat]
WecomSelfbuiltOK == self \in WecomSelfbuiltSelf /\ tasks \subseteq Handlers /\ Fresh

LEMMA WecomSelfbuiltHost ==
  /\ WecomSelfbuilt!Host <=> Host
  /\ UNCHANGED WecomSelfbuilt!host <=> UNCHANGED host
  /\ \A e : WecomSelfbuilt!Arrives(e) <=> Arrives(e)
  /\ \A t, pc : WecomSelfbuilt!Await(t, pc) <=> Await(t, pc)
  /\ \A t : WecomSelfbuilt!Ends(t) <=> Ends(t)
  /\ \A seen, id : WecomSelfbuilt!Knows(seen, id) <=> Knows(seen, id)
  /\ \A seen, id : WecomSelfbuilt!Remember(seen, id) = Remember(seen, id)
BY Zenon DEF WecomSelfbuilt!Host, Host, WecomSelfbuilt!Take, Take, WecomSelfbuilt!Dispatch,
   Dispatch, WecomSelfbuilt!Returns, Returns, WecomSelfbuilt!Superseded, Superseded,
   WecomSelfbuilt!Reports, Reports, WecomSelfbuilt!Answers, Answers, WecomSelfbuilt!Reply, Reply,
   WecomSelfbuilt!NoSend, NoSend, WecomSelfbuilt!Sending, Sending, WecomSelfbuilt!host, host,
   WecomSelfbuilt!Arrives, Arrives, WecomSelfbuilt!Await, Await, WecomSelfbuilt!Ends, Ends,
   WecomSelfbuilt!Knows, Knows, WecomSelfbuilt!Remember, Remember


LEMMA WecomSelfbuiltSend ==
  /\ WecomSelfbuilt!Sending <=> Sending
  /\ \A step : WecomSelfbuilt!Doing(step) <=> Doing(step)
  /\ \A todo : WecomSelfbuilt!GoesOn(todo) <=> GoesOn(todo)
  /\ WecomSelfbuilt!Left = Left
  /\ WecomSelfbuilt!Shows <=> Shows
  /\ WecomSelfbuilt!Lost <=> Lost
  /\ WecomSelfbuilt!BreaksOff <=> BreaksOff
BY Zenon DEF WecomSelfbuilt!Sending, Sending, WecomSelfbuilt!Doing, Doing, WecomSelfbuilt!GoesOn,
   GoesOn, WecomSelfbuilt!Left, Left, WecomSelfbuilt!Shows, Shows, WecomSelfbuilt!Lost, Lost,
   WecomSelfbuilt!BreaksOff, BreaksOff, WecomSelfbuilt!Joined, Joined, WecomSelfbuilt!Message,
   Message, WecomSelfbuilt!NoSend, NoSend


LEMMA WecomSelfbuiltToken ==
  /\ WecomSelfbuilt!Tick <=> Tick
  /\ \A todo : WecomSelfbuilt!GetAccessToken(todo) <=> GetAccessToken(todo)
<1>1. WecomSelfbuilt!Tick <=> Tick
  BY Zenon DEF WecomSelfbuilt!Tick, Tick, WecomSelfbuilt!Older, Older, WecomSelfbuilt!Sending, Sending,
     WecomSelfbuilt!host, host
<1>2. ASSUME NEW todo
      PROVE  WecomSelfbuilt!GetAccessToken(todo) <=> GetAccessToken(todo)
  BY Zenon DEF WecomSelfbuilt!GetAccessToken, GetAccessToken, WecomSelfbuilt!FetchToken, FetchToken,
     WecomSelfbuilt!Usable, Usable, WecomSelfbuilt!GoesOn, GoesOn, WecomSelfbuilt!BreaksOff, BreaksOff,
     WecomSelfbuilt!Sending, Sending, WecomSelfbuilt!NoSend, NoSend, WecomSelfbuilt!Message, Message
<1> QED BY <1>1, <1>2

LEMMA WecomSelfbuiltRetimed ==
  ASSUME self \in WecomSelfbuiltSelf, NEW age \in 0 .. TokenLife, NEW held \in 0 .. TokenLife, NEW spent \in Nat,
         Retimed(age, held, spent)
  PROVE  self' \in WecomSelfbuiltSelf /\ self'.age = age /\ self'.held = held /\ self'.spent = spent
BY Zenon DEF WecomSelfbuiltSelf, Retimed

LEMMA WecomSelfbuiltTimes ==
  ASSUME HostOK, WecomSelfbuiltOK, WecomSelfbuilt!Tick \/ WecomSelfbuilt!SendBegins
  PROVE  Fits /\ WecomSelfbuiltOK'
<1>0. self \in WecomSelfbuiltSelf /\ Fresh /\ self = [self EXCEPT !.age = self.age]
      /\ self.age \in 0 .. TokenLife /\ self.held \in 0 .. TokenLife /\ self.spent \in Nat
  BY DEF WecomSelfbuiltOK, WecomSelfbuiltSelf
<1>1. CASE WecomSelfbuilt!Tick
  <2>1. PICK age, held, spent :
          /\ age = Older(self.age) /\ held = (IF Sending THEN Older(self.held) ELSE 0)
          /\ spent = (IF Sending THEN self.spent + 1 ELSE 0)
          /\ Retimed(age, held, spent) /\ (Sending => self.spent < SendTimeout)
          /\ UNCHANGED <<tasks, pending, host>>
    BY <1>1, WecomSelfbuiltToken, TickTimes, Zenon
  <2>2. /\ age \in 0 .. TokenLife /\ held \in 0 .. TokenLife /\ spent \in Nat /\ spent <= SendTimeout
        /\ Holding => held <= spent \/ held < spent + TokenLife - TokenMargin
    BY <1>0, <2>1, TokenTimesAfter, Zenon
  <2>3. self' \in WecomSelfbuiltSelf /\ self'.held = held /\ self'.spent = spent
    BY <1>0, <2>1, <2>2, WecomSelfbuiltRetimed
  <2>4. Fresh'
    BY <2>1, <2>2, <2>3 DEF Fresh, Holding, Sending, Doing, host
  <2> QED BY <2>1, <2>3, <2>4, FitsUnmoved DEF WecomSelfbuiltOK
<1>2. CASE WecomSelfbuilt!SendBegins
  <2>1. /\ Sending /\ Doing("begin") /\ (GetAccessToken(<<"text">>) \/ (GoesOn(<<>>) /\ UNCHANGED <<self, cut>>))
        /\ UNCHANGED <<tasks, pending, inbound, turns, outbound, published, shown>>
    BY <1>2, WecomSelfbuiltSend, WecomSelfbuiltToken DEF WecomSelfbuilt!SendBegins, Doing
  <2>2. <<"text">> \in Seq(Steps) /\ <<>> \in Seq(Steps) /\ snd \in Snd
    BY <2>1, TodoTypes, SendTypes DEF Steps
  <2>3. CASE GoesOn(<<>>) /\ UNCHANGED <<self, cut>>
    <3>1. ~Holding'
      BY <2>2, <2>3 DEF GoesOn, Holding, Sending, Snd
    <3>2. SendStep
      BY <2>1, <2>2, <2>3, SendMoves, Zenon DEF Lost
    <3> QED BY <1>0, <2>1, <2>3, <3>1, <3>2, FreshStays DEF WecomSelfbuiltOK, Fits, HostStep, HostOK
  <2>4. ASSUME GetAccessToken(<<"text">>)
        PROVE  \/ /\ \/ Retimed(0, 0, 0)
                     \/ Usable /\ Retimed(self.age, self.age, 0)
                  /\ GoesOn(<<"text">>) /\ UNCHANGED cut
               \/ BreaksOff /\ UNCHANGED self
    BY <1>0, <2>4, TokenGot
  <2>5. CASE BreaksOff /\ UNCHANGED self
    <3>1. ~Holding'
      BY <2>5 DEF BreaksOff, Holding, Sending, NoSend
    <3> QED BY <1>0, <2>1, <2>5, <3>1, SendBroken, FreshStays DEF WecomSelfbuiltOK, Fits, HostStep, HostOK
  <2>6. ASSUME NEW age, NEW held, NEW spent, Retimed(age, held, spent), GoesOn(<<"text">>), UNCHANGED cut,
               \/ age = 0 /\ held = 0 /\ spent = 0
               \/ Usable /\ age = self.age /\ held = self.age /\ spent = 0
        PROVE  Fits /\ WecomSelfbuiltOK'
    <3>1. /\ age \in 0 .. TokenLife /\ held \in 0 .. TokenLife /\ spent \in Nat /\ spent <= SendTimeout
          /\ held <= spent \/ held < spent + TokenLife - TokenMargin
      BY <1>0, <2>6, TokenTimesAfter, Zenon
    <3>2. self' \in WecomSelfbuiltSelf /\ self'.held = held /\ self'.spent = spent
      BY <1>0, <2>6, <3>1, WecomSelfbuiltRetimed
    <3>3. Fresh'
      BY <3>1, <3>2 DEF Fresh
    <3>4. SendStep
      BY <2>1, <2>2, <2>6, SendMoves DEF Lost
    <3> QED BY <2>1, <3>2, <3>3, <3>4 DEF WecomSelfbuiltOK, Fits, HostStep, HostOK
  <2> QED BY <2>1, <2>3, <2>4, <2>5, <2>6
<1> QED BY <1>1, <1>2

LEMMA WecomSelfbuiltMessages ==
  ASSUME HostOK, WecomSelfbuiltOK,
         \/ \E e \in Events : WecomSelfbuilt!HandleCallback(e)
         \/ \E t \in tasks : WecomSelfbuilt!Publishes(t) \/ WecomSelfbuilt!Welcomes(t)
  PROVE  Fits /\ WecomSelfbuiltOK'
<1>0. "publish" \in Places /\ "welcome" \in Places
  BY DEF Places
<1>1. ASSUME NEW e \in Events, WecomSelfbuilt!HandleCallback(e)
      PROVE  Fits /\ WecomSelfbuiltOK'
  <2>1. /\ Arrives(e) /\ UNCHANGED host
        /\ self' = self \/ self' = [self EXCEPT !.seen = Remember(self.seen, e.id)]
        /\ tasks' = tasks \/ tasks' = tasks \cup {[ev |-> e, pc |-> "publish"]}
    BY <1>1, WecomSelfbuiltHost DEF WecomSelfbuilt!HandleCallback
  <2>2. tasks' \subseteq Handlers
    BY <1>0, <2>1, HandlerStarts DEF WecomSelfbuiltOK
  <2>3. Remember(self.seen, e.id) \in Seq(Ids)
    BY EventIds, RememberTypes DEF WecomSelfbuiltOK, WecomSelfbuiltSelf
  <2>4. self' \in WecomSelfbuiltSelf /\ self'.held = self.held /\ self'.spent = self.spent
    BY <2>1, <2>3 DEF WecomSelfbuiltOK, WecomSelfbuiltSelf
  <2>5. Holding' => Holding
    BY <2>1 DEF Holding, Sending, Doing, host
  <2> QED BY <2>1, <2>2, <2>4, <2>5, FitsArrived, FreshStays DEF WecomSelfbuiltOK
<1>2. ASSUME NEW t \in tasks, WecomSelfbuilt!Publishes(t)
      PROVE  Fits /\ WecomSelfbuiltOK'
  <2>1. /\ Len(inbound) < InMax /\ inbound' = Append(inbound, t.ev)
        /\ published' = Append(published, t.ev.id)
        /\ Await(t, "welcome") \/ Ends(t)
        /\ UNCHANGED <<self, pending, turns, outbound, snd, shown, cut>>
    BY <1>2, WecomSelfbuiltHost DEF WecomSelfbuilt!Publishes
  <2>2. /\ t.ev \in Events /\ t.ev.id \in Ids /\ <<t.ev.id>> \in Seq(Ids) /\ t.ev.id \in ToSet(<<t.ev.id>>)
        /\ tasks' \subseteq Handlers
    BY <1>0, <2>1, HandlerMoves, Zenon DEF WecomSelfbuiltOK
  <2>3. published' = published \o <<t.ev.id>>
    BY <2>1, <2>2, AppendIsConcat DEF HostOK
  <2>4. Receives
    BY <2>1, <2>2, <2>3, Zenon DEF Receives
  <2>5. Holding' => Holding
    BY <2>1 DEF Holding, Sending, Doing
  <2> QED BY <2>1, <2>2, <2>4, <2>5, FreshStays DEF WecomSelfbuiltOK, Fits, HostStep, HostOK
<1>3. ASSUME NEW t \in tasks, WecomSelfbuilt!Welcomes(t)
      PROVE  Fits /\ WecomSelfbuiltOK'
  <2>1. /\ Ends(t) /\ UNCHANGED <<pending, host>>
        /\ self' = [self EXCEPT !.age = IF Usable THEN self.age ELSE 0] \/ self' = self
    BY <1>3, WecomSelfbuiltHost, Zenon DEF WecomSelfbuilt!Welcomes, WecomSelfbuilt!Usable, Usable
  <2>2. (IF Usable THEN self.age ELSE 0) \in 0 .. TokenLife
    BY TokenTimes DEF WecomSelfbuiltOK, WecomSelfbuiltSelf
  <2>3. self' \in WecomSelfbuiltSelf /\ self'.held = self.held /\ self'.spent = self.spent
    BY <2>1, <2>2 DEF WecomSelfbuiltOK, WecomSelfbuiltSelf
  <2>4. Holding' => Holding
    BY <2>1 DEF Holding, Sending, Doing, host
  <2> QED BY <2>1, <2>3, <2>4, HandlerMoves, FitsUnmoved, FreshStays, Zenon DEF WecomSelfbuiltOK
<1> QED BY <1>1, <1>2, <1>3

LEMMA WecomSelfbuiltFits ==
  ASSUME HostOK, WecomSelfbuiltOK, WecomSelfbuilt!Next
  PROVE  Fits /\ WecomSelfbuiltOK'
<1>1. ASSUME Host PROVE Fits /\ WecomSelfbuiltOK'
  BY <1>1, FitsHost, HostHolds, FreshStays DEF WecomSelfbuiltOK
<1>2. CASE WecomSelfbuilt!PostMessage
  <2>1. /\ Sending /\ Holding /\ GoesOn(Left) /\ (Shows \/ Lost)
        /\ UNCHANGED <<self, tasks, pending, inbound, turns, outbound, published, cut>>
    BY <1>2, WecomSelfbuiltSend DEF WecomSelfbuilt!PostMessage, Doing, Holding
  <2>2. SendStep
    BY <2>1, TodoTypes, SendMoves
  <2> QED BY <2>1, <2>2, FreshStays DEF WecomSelfbuiltOK, Fits, HostStep, HostOK
<1>3. CASE WecomSelfbuilt!SendTimesOut
  <2>1. BreaksOff /\ UNCHANGED <<self, tasks, pending, inbound, turns, outbound, published, shown>>
    BY <1>3, WecomSelfbuiltSend DEF WecomSelfbuilt!SendTimesOut
  <2>2. ~Holding'
    BY <2>1 DEF BreaksOff, Holding, Sending, NoSend
  <2> QED BY <2>1, <2>2, SendBroken, FreshStays DEF WecomSelfbuiltOK, Fits, HostStep, HostOK
<1> QED BY <1>1, <1>2, <1>3, WecomSelfbuiltHost, WecomSelfbuiltTimes, WecomSelfbuiltMessages DEF WecomSelfbuilt!Next

-----------------------------------------------------------------------------
(* Mochat. What has been noted as seen stays in a safe place: published, in    *)
(* the buffer with a timer set, or in what a coroutine is publishing.          *)

Kinds == {"session", "panel"}
MochatSelf == [name : {"mochat"}, posted : SUBSET Ids, ws : {"down", "subscribing", "ready"}, fallback : BOOLEAN,
               asked : SUBSET Nat, cursor : Nat, file : Nat, saving : BOOLEAN, cold : BOOLEAN,
               seen : [Kinds -> Seq(Ids)], buffer : Seq(Ids), timer : BOOLEAN, dropped : SUBSET Ids]
MochatHandlers == [by : {"socket", "notify", "worker", "timer"}, kind : Kinds, todo : Seq(Ids), out : Seq(Ids),
                   pc : {"lock", "work"}]

OutOf(handlers) == UNION {ToSet(t.out) : t \in handlers}
Safe == ToSet(published) \cup self.dropped \cup ToSet(self.buffer) \cup OutOf(tasks)

MochatKept ==
  /\ \A kind \in Kinds : ToSet(self.seen[kind]) \subseteq Safe
  /\ self.buffer # <<>> => self.timer
  /\ \A id \in ToSet(self.buffer) \cup OutOf(tasks) : IsAllowed(Mochat!ById(id))
  /\ \A t \in tasks : t.pc = "lock" => t.out = <<>>
  /\ self.file <= self.cursor

MochatOK == self \in MochatSelf /\ tasks \subseteq MochatHandlers /\ MochatKept

LEMMA MochatHost ==
  /\ Mochat!Host <=> Host
  /\ UNCHANGED Mochat!host <=> UNCHANGED host
  /\ \A e : Mochat!Arrives(e) <=> Arrives(e)
  /\ \A t, pc : Mochat!Await(t, pc) <=> Await(t, pc)
  /\ \A t : Mochat!Ends(t) <=> Ends(t)
  /\ \A e, ids : Mochat!HandleMessage(e, ids) <=> HandleMessage(e, ids)
  /\ \A seen, id : Mochat!Knows(seen, id) <=> Knows(seen, id)
  /\ \A seen, id : Mochat!Remember(seen, id) = Remember(seen, id)
BY Zenon DEF Mochat!Host, Host, Mochat!Take, Take, Mochat!Dispatch, Dispatch, Mochat!Returns,
   Returns, Mochat!Superseded, Superseded, Mochat!Reports, Reports, Mochat!Answers, Answers,
   Mochat!Reply, Reply, Mochat!NoSend, NoSend, Mochat!Sending, Sending, Mochat!host, host,
   Mochat!Arrives, Arrives, Mochat!Await, Await, Mochat!Ends, Ends, Mochat!HandleMessage,
   HandleMessage, Mochat!Knows, Knows, Mochat!Remember, Remember, Mochat!IsAllowed, IsAllowed


LEMMA MochatSets ==
  /\ \A S : Mochat!Cardinality(S) = Cardinality(S)
  /\ \A q : Mochat!ToSet(q) = ToSet(q) /\ Mochat!Last(q) = Last(q)
<1>1. ASSUME NEW S PROVE Mochat!Cardinality(S) = Cardinality(S)
  BY Zenon DEF Mochat!Cardinality, Cardinality
<1>2. ASSUME NEW q PROVE Mochat!ToSet(q) = ToSet(q) /\ Mochat!Last(q) = Last(q)
  BY Zenon DEF Mochat!ToSet, ToSet, Mochat!Last, Last
<1> QED BY <1>1, <1>2

LEMMA EventOf ==
  ASSUME NEW id \in Ids
  PROVE  Mochat!ById(id) \in Events /\ Mochat!ById(id).id = id
BY DEF Ids, Mochat!ById

LEMMA IdsFinite == Ids \in SUBSET Nat /\ IsFiniteSet(Ids) /\ \A ids \in SUBSET Ids : IsFiniteSet(ids)
<1>1. Ids \in SUBSET Nat
  BY EventsNamed DEF Ids
<1>2. IsFiniteSet({e.id : e \in Events})
  <2> DEFINE f == [e \in Events |-> e.id]
  <2>1. f \in Surjection(Events, {e.id : e \in Events})
    BY DEF Surjection
  <2> QED BY <2>1, EventsNamed, FS_Surjection
<1> QED BY <1>1, <1>2, FS_Subset DEF Ids

LEMMA InOrderTypes ==
  ASSUME NEW ids \in SUBSET Ids
  PROVE  Mochat!InOrder(ids) \in Seq(Ids)
<1>1. ids \in SUBSET Nat /\ IsFiniteSet(ids)
  BY IdsFinite
<1>2. \E s \in [1 .. Cardinality(ids) -> ids] : \A i, j \in DOMAIN s : i < j => s[i] < s[j]
  BY <1>1, InIncreasingOrder
<1>3. Mochat!InOrder(ids) \in [1 .. Cardinality(ids) -> ids]
  BY <1>2, MochatSets, Zenon DEF Mochat!InOrder
<1>4. Cardinality(ids) \in Nat
  BY <1>1, FS_CardinalityType
<1>5. Mochat!InOrder(ids) \in [1 .. Cardinality(ids) -> Ids]
  BY <1>3
<1> QED BY <1>4, <1>5, SeqDef

LEMMA TopType ==
  ASSUME NEW ids \in SUBSET Ids
  PROVE  Mochat!Top(ids) \in Nat
<1>1. CASE ids = {}
  BY <1>1 DEF Mochat!Top
<1>2. CASE ids # {}
  <2>1. \E m \in ids : \A k \in ids : k <= m
    BY <1>2, IdsFinite, GreatestNumber
  <2>2. Mochat!Top(ids) \in ids
    BY <1>2, <2>1 DEF Mochat!Top
  <2> QED BY <2>2, IdsFinite, Zenon
<1> QED BY <1>1, <1>2

LEMMA ElementsAre ==
  ASSUME NEW q \in Seq(Ids)
  PROVE  ToSet(q) \in SUBSET Ids
BY ElementOfSeq, LenProperties DEF ToSet

LEMMA ElementsAppended ==
  ASSUME NEW S, NEW q \in Seq(S), NEW x \in S
  PROVE  Append(q, x) \in Seq(S) /\ Append(q, x) # <<>> /\ ToSet(Append(q, x)) = ToSet(q) \cup {x}
         /\ Last(Append(q, x)) = x
<1>1. <<x>> \in Seq(S) /\ ToSet(<<x>>) = {x} /\ Append(q, x) = q \o <<x>>
  BY OneElement, AppendIsConcat
<1>2. ToSet(q \o <<x>>) = ToSet(q) \cup {x}
  <2>1. PICK b : b = <<x>>
    BY Zenon
  <2>2. ToSet(q \o b) = ToSet(q) \cup ToSet(b)
    BY <1>1, <2>1, SetOfConcat, Zenon
  <2> QED BY <1>1, <2>1, <2>2
<1>3. /\ Append(q, x) \in Seq(S) /\ Append(q, x) # <<>> /\ Len(Append(q, x)) = Len(q) + 1
      /\ Append(q, x)[Len(q) + 1] = x
  BY AppendProperties
<1> QED BY <1>1, <1>2, <1>3 DEF Last

LEMMA RememberSet ==
  ASSUME NEW seen \in Seq(Ids), NEW id \in Ids
  PROVE  ToSet(Remember(seen, id)) \subseteq ToSet(seen) \cup {id}
<1> DEFINE s == Append(seen, id)
<1>1. s \in Seq(Ids) /\ Len(s) \in Nat /\ (\A i \in 1 .. Len(s) : s[i] \in Ids) /\ ToSet(s) = ToSet(seen) \cup {id}
  BY ElementsAppended, LenProperties, ElementOfSeq
<1>2. Remember(seen, id) = IF Len(s) > Window THEN SubSeq(s, Len(s) - Window + 1, Len(s)) ELSE s
  BY DEF Remember
<1> HIDE DEF s
<1>3. CASE Len(s) > Window
  <2> DEFINE m == Len(s) - Window + 1
             r == SubSeq(s, m, Len(s))
  <2>1. m \in Int /\ Len(s) \in Int /\ m <= Len(s) /\ Len(s) - m + 1 = Window /\ \A i \in m .. Len(s) : i \in 1 .. Len(s)
    BY <1>1, <1>3, WindowPositive
  <2> HIDE DEF m
  <2>2. \A i \in m .. Len(s) : s[i] \in Ids
    BY <1>1, <2>1
  <2>3. r \in Seq(Ids) /\ Len(r) = Window /\ \A i \in 1 .. Len(s) - m + 1 : r[i] = s[m + i - 1]
    BY <2>1, <2>2, SubSeqProperties
  <2>4. Remember(seen, id) = r
    BY <1>2, <1>3, Zenon DEF m
  <2> HIDE DEF r
  <2>5. ASSUME NEW i \in 1 .. Window PROVE r[i] \in ToSet(s)
    <3>1. m + i - 1 \in 1 .. Len(s) /\ i \in 1 .. Len(s) - m + 1
      BY <1>1, <2>1, WindowPositive
    <3>2. DOMAIN s = 1 .. Len(s)
      BY <1>1, LenProperties
    <3> QED BY <2>3, <3>1, <3>2 DEF ToSet
  <2>6. DOMAIN r = 1 .. Window
    BY <2>3, LenProperties
  <2> QED BY <1>1, <2>4, <2>5, <2>6, Zenon DEF ToSet
<1>4. CASE ~(Len(s) > Window)
  BY <1>1, <1>2, <1>4
<1> QED BY <1>3, <1>4

LEMMA MochatHandler ==
  ASSUME NEW by \in {"socket", "notify", "worker", "timer"}, NEW kind \in Kinds, NEW ids \in SUBSET Ids,
         NEW pc \in {"lock", "work"}
  PROVE  Mochat!Handler(by, kind, ids, pc) \in MochatHandlers /\ Mochat!Handler(by, kind, ids, pc).out = <<>>
<1>1. Mochat!InOrder(ids) \in Seq(Ids) /\ <<>> \in Seq(Ids)
  BY InOrderTypes, EmptySeq
<1> QED BY <1>1 DEF Mochat!Handler, MochatHandlers

\* Handlers that publish nothing yet may start.
LEMMA MochatAdds ==
  ASSUME MochatOK, NEW more, more \subseteq MochatHandlers, \A t \in more : t.out = <<>>,
         tasks' = tasks \cup more, self' \in MochatSelf, published' = published,
         self'.seen = self.seen, self'.buffer = self.buffer, self'.timer = self.timer,
         self'.dropped = self.dropped, self'.file <= self'.cursor
  PROVE  MochatOK'
<1>1. OutOf(tasks') = OutOf(tasks)
  <2>1. ToSet(<<>>) = {}
    BY DEF ToSet
  <2> QED BY <2>1 DEF OutOf
<1>2. Safe' = Safe
  BY <1>1 DEF Safe
<1>3. MochatKept'
  BY <1>1, <1>2 DEF MochatOK, MochatKept
<1> QED BY <1>3 DEF MochatOK

LEMMA MochatSend ==
  /\ Mochat!Sending <=> Sending
  /\ \A step : Mochat!Doing(step) <=> Doing(step)
  /\ \A todo : Mochat!GoesOn(todo) <=> GoesOn(todo)
  /\ Mochat!Lost <=> Lost
BY Zenon DEF Mochat!Sending, Sending, Mochat!Doing, Doing, Mochat!GoesOn, GoesOn, Mochat!Lost,
   Lost


LEMMA MochatPlain ==
  ASSUME HostOK, MochatOK,
         \/ \E e \in Events : Mochat!Post(e)
         \/ Mochat!Connect \/ Mochat!Disconnect \/ Mochat!WatchAsks \/ Mochat!PanelPolled \/ Mochat!SaveCursors
         \/ \E c \in self.asked : Mochat!WatchAnswered(c)
  PROVE  Fits /\ MochatOK'
<1>0. self \in MochatSelf /\ self.file <= self.cursor /\ tasks = tasks \cup {} /\ {} \in SUBSET Ids
  BY DEF MochatOK, MochatKept
<1>1. ASSUME NEW e \in Events, Mochat!Post(e)
      PROVE  Fits /\ MochatOK'
  <2>1. /\ Arrives(e) /\ UNCHANGED host
        /\ self' = [self EXCEPT !.posted = self.posted \cup {e.id}]
        /\ \E told \in Mochat!Notified(e) : tasks' = tasks \cup Mochat!Pushed(e) \cup told
    BY <1>1, MochatHost DEF Mochat!Post
  <2>2. PICK told \in Mochat!Notified(e) : tasks' = tasks \cup (Mochat!Pushed(e) \cup told)
    BY <2>1
  <2>3. {e.id} \in SUBSET Ids
    BY EventIds
  <2>4. \A t \in Mochat!Pushed(e) \cup told : t \in MochatHandlers /\ t.out = <<>>
    <3>1. \A t \in Mochat!Pushed(e) : t \in MochatHandlers /\ t.out = <<>>
      <4>1. /\ Mochat!Handler("socket", "session", {e.id}, "lock") \in MochatHandlers
            /\ Mochat!Handler("socket", "session", {e.id}, "lock").out = <<>>
        BY <2>3, MochatHandler DEF Kinds
      <4>2. /\ Mochat!Handler("socket", "panel", {e.id}, "work") \in MochatHandlers
            /\ Mochat!Handler("socket", "panel", {e.id}, "work").out = <<>>
        BY <2>3, MochatHandler DEF Kinds
      <4> QED BY <4>1, <4>2 DEF Mochat!Pushed
    <3>2. \A t \in told : t \in MochatHandlers /\ t.out = <<>>
      <4>1. /\ Mochat!Handler("notify", "session", {e.id}, "work") \in MochatHandlers
            /\ Mochat!Handler("notify", "session", {e.id}, "work").out = <<>>
        BY <2>3, MochatHandler DEF Kinds
      <4>2. /\ Mochat!Handler("notify", "panel", {e.id}, "work") \in MochatHandlers
            /\ Mochat!Handler("notify", "panel", {e.id}, "work").out = <<>>
        BY <2>3, MochatHandler DEF Kinds
      <4> QED BY <4>1, <4>2 DEF Mochat!Notified, Mochat!InboxAppend, Mochat!ChatMessage
    <3> QED BY <3>1, <3>2
  <2>5. /\ self' \in MochatSelf /\ self'.seen = self.seen /\ self'.buffer = self.buffer /\ self'.timer = self.timer
        /\ self'.dropped = self.dropped /\ self'.file <= self'.cursor
    BY <1>0, <2>1, <2>3, Zenon DEF MochatSelf
  <2>6. published' = published
    BY <2>1 DEF host
  <2> QED BY <2>1, <2>2, <2>4, <2>5, <2>6, MochatAdds, FitsArrived, Zenon
<1>2. ASSUME NEW more, more \subseteq MochatHandlers, \A t \in more : t.out = <<>>, tasks' = tasks \cup more,
             self' = self, UNCHANGED <<pending, host>>
      PROVE  Fits /\ MochatOK'
  <2>1. published' = published
    BY <1>2 DEF host
  <2> QED BY <1>0, <1>2, <2>1, MochatAdds, FitsUnmoved, Zenon
<1>3. CASE Mochat!Connect \/ Mochat!Disconnect \/ Mochat!WatchAsks \/ Mochat!SaveCursors
  <2>1. UNCHANGED <<tasks, pending, host>> /\ published' = published
    BY <1>3, MochatHost DEF Mochat!Connect, Mochat!Disconnect, Mochat!WatchAsks, Mochat!SaveCursors, host
  <2>2. /\ self' \in MochatSelf /\ self'.seen = self.seen /\ self'.buffer = self.buffer /\ self'.timer = self.timer
        /\ self'.dropped = self.dropped /\ self'.file <= self'.cursor
    <3>1. CASE Mochat!Connect
      BY <1>0, <3>1, Zenon DEF Mochat!Connect, MochatSelf
    <3>2. CASE Mochat!Disconnect
      <4>1. PICK ws, fallback : /\ self' = [self EXCEPT !.ws = ws, !.fallback = fallback]
                                /\ ws = "down" /\ fallback = TRUE
        BY <3>2, Zenon DEF Mochat!Disconnect
      <4>2. ws \in {"down", "subscribing", "ready"} /\ fallback \in BOOLEAN
        BY <4>1
      <4>3. self' = [self EXCEPT !.ws = ws, !.fallback = fallback]
        BY <4>1
      <4> HIDE <4>1
      <4> QED BY <1>0, <4>2, <4>3, Zenon DEF MochatSelf
    <3>3. CASE Mochat!WatchAsks
      BY <1>0, <3>3, Zenon DEF Mochat!WatchAsks, MochatSelf
    <3>4. CASE Mochat!SaveCursors
      <4>1. PICK file, saving : /\ self' = [self EXCEPT !.file = file, !.saving = saving]
                                /\ file = self.cursor /\ saving = FALSE
        BY <3>4, Zenon DEF Mochat!SaveCursors
      <4>2. file \in Nat /\ file = self.cursor /\ saving \in BOOLEAN
        BY <1>0, <4>1, Zenon DEF MochatSelf
      <4>3. self' = [self EXCEPT !.file = file, !.saving = saving]
        BY <4>1
      <4>4. self' \in MochatSelf /\ self'.seen = self.seen /\ self'.buffer = self.buffer /\ self'.timer = self.timer
            /\ self'.dropped = self.dropped /\ self'.file = file /\ self'.cursor = self.cursor
        BY <1>0, <4>2, <4>3, Zenon DEF MochatSelf
      <4>5. self'.file <= self'.cursor
        BY <4>2, <4>4
      <4> QED BY <4>4, <4>5
    <3> QED BY <1>3, <3>1, <3>2, <3>3, <3>4
  <2>3. PICK more : more = {}
    BY Zenon
  <2>4. tasks' = tasks \cup more /\ more \subseteq MochatHandlers /\ \A t \in more : t.out = <<>>
    BY <2>1, <2>3
  <2> QED BY <2>1, <2>2, <2>4, MochatAdds, FitsUnmoved, Zenon
<1>4. CASE Mochat!PanelPolled
  <2> DEFINE all == Mochat!InOrder(self.posted \ Mochat!SessionIds)
             first == IF Len(all) > PollLimit THEN Len(all) - PollLimit + 1 ELSE 1
             last == SubSeq(all, first, Len(all))
             more == {Mochat!Handler("worker", "panel", ToSet(last), "work")}
  <2>1. tasks' = tasks \cup more /\ self' = self /\ UNCHANGED <<pending, host>>
    BY <1>4, MochatHost, MochatSets DEF Mochat!PanelPolled
  <2>2. all \in Seq(Ids)
    <3>1. self.posted \ Mochat!SessionIds \in SUBSET Ids
      BY <1>0 DEF MochatSelf
    <3> QED BY <3>1, InOrderTypes
  <2> HIDE DEF all
  <2>3. last \in Seq(Ids)
    <3>1. Len(all) \in Nat /\ \A i \in 1 .. Len(all) : all[i] \in Ids
      BY <2>2, LenProperties, ElementOfSeq
    <3>2. PollLimit \in Nat \ {0}
      BY PollLimitPositive
    <3>3. first \in Int /\ Len(all) \in Int /\ \A i \in first .. Len(all) : i \in 1 .. Len(all)
      BY <3>1, <3>2
    <3> HIDE DEF first
    <3>4. \A i \in first .. Len(all) : all[i] \in Ids
      BY <3>1, <3>3
    <3> QED BY <3>3, <3>4, SubSeqProperties, Zenon
  <2> HIDE DEF last
  <2>4. more \subseteq MochatHandlers /\ \A t \in more : t.out = <<>>
    BY <2>3, ElementsAre, MochatHandler DEF Kinds
  <2> HIDE DEF more
  <2> QED BY <1>2, <2>1, <2>4, Zenon
<1>5. ASSUME NEW c \in self.asked, Mochat!WatchAnswered(c)
      PROVE  Fits /\ MochatOK'
  <2>1. /\ self' = [self EXCEPT !.asked = {}] /\ UNCHANGED <<pending, host>>
        /\ \/ tasks' = tasks \cup {}
           \/ tasks' = tasks \cup {Mochat!Handler("worker", "session", Mochat!Since(c), "lock")}
    BY <1>5, MochatHost DEF Mochat!WatchAnswered
  <2>2. Mochat!Since(c) \in SUBSET Ids
    BY <1>0 DEF Mochat!Since, MochatSelf
  <2>3. PICK more : /\ tasks' = tasks \cup more
                    /\ more = {} \/ more = {Mochat!Handler("worker", "session", Mochat!Since(c), "lock")}
    BY <2>1, Zenon
  <2>4. more \subseteq MochatHandlers /\ \A t \in more : t.out = <<>>
    BY <2>2, <2>3, MochatHandler DEF Kinds
  <2>5. /\ self' \in MochatSelf /\ self'.seen = self.seen /\ self'.buffer = self.buffer /\ self'.timer = self.timer
        /\ self'.dropped = self.dropped /\ self'.file <= self'.cursor
    BY <1>0, <2>1, Zenon DEF MochatSelf
  <2>6. published' = published
    BY <2>1 DEF host
  <2> QED BY <2>1, <2>3, <2>4, <2>5, <2>6, MochatAdds, FitsUnmoved, Zenon
<1> QED BY <1>1, <1>3, <1>4, <1>5

LEMMA MochatSubscribes ==
  ASSUME HostOK, MochatOK, Mochat!Subscribed
  PROVE  Fits /\ MochatOK'
<1> DEFINE workers == {t \in tasks : t.by = "worker"}
           answer == Mochat!Handler("socket", "session", Mochat!Since(self.cursor), "lock")
           lost == UNION {Mochat!InHand(t) : t \in workers}
<1>0. self \in MochatSelf /\ MochatKept /\ tasks \subseteq MochatHandlers
  BY DEF MochatOK
<1>1. /\ tasks' = (tasks \ workers) \cup (IF answer.todo = <<>> THEN {} ELSE {answer})
      /\ self' = [self EXCEPT !.ws = "ready", !.fallback = FALSE, !.asked = {}, !.dropped = self.dropped \cup lost]
      /\ UNCHANGED <<pending, host>>
  BY MochatHost DEF Mochat!Subscribed
<1>2. answer \in MochatHandlers /\ answer.out = <<>>
  <2>1. Mochat!Since(self.cursor) \in SUBSET Ids
    BY <1>0 DEF Mochat!Since, MochatSelf
  <2> QED BY <2>1, MochatHandler DEF Kinds
<1>3. lost \in SUBSET Ids /\ OutOf(workers) \subseteq lost
  <2>1. \A t \in workers : ToSet(t.todo) \in SUBSET Ids /\ ToSet(t.out) \in SUBSET Ids
    BY <1>0, ElementsAre DEF MochatHandlers
  <2>2. \A t \in workers : Mochat!InHand(t) = ToSet(t.todo) \cup ToSet(t.out)
    BY MochatSets DEF Mochat!InHand
  <2> QED BY <2>1, <2>2 DEF OutOf
<1> HIDE DEF answer, lost
<1>4. /\ self' \in MochatSelf /\ self'.seen = self.seen /\ self'.buffer = self.buffer /\ self'.timer = self.timer
      /\ self'.dropped = self.dropped \cup lost /\ self'.file = self.file /\ self'.cursor = self.cursor
  <2>1. PICK ws, fallback, asked, dropped :
          /\ self' = [self EXCEPT !.ws = ws, !.fallback = fallback, !.asked = asked, !.dropped = dropped]
          /\ ws = "ready" /\ fallback = FALSE /\ asked = {} /\ dropped = self.dropped \cup lost
    BY <1>1, Zenon
  <2>2. /\ ws \in {"down", "subscribing", "ready"} /\ fallback \in BOOLEAN /\ asked \in SUBSET Nat
        /\ dropped \in SUBSET Ids /\ dropped = self.dropped \cup lost
    BY <1>0, <1>3, <2>1, Zenon DEF MochatSelf
  <2>3. self' = [self EXCEPT !.ws = ws, !.fallback = fallback, !.asked = asked, !.dropped = dropped]
    BY <2>1
  <2> HIDE <2>1
  <2> QED BY <1>0, <2>2, <2>3, Zenon DEF MochatSelf
<1>5. tasks' \subseteq MochatHandlers
  BY <1>0, <1>1, <1>2
<1>6. ToSet(<<>>) = {}
  BY DEF ToSet
<1>7. OutOf(tasks') \subseteq OutOf(tasks) /\ OutOf(tasks) \subseteq OutOf(tasks') \cup lost
  BY <1>1, <1>2, <1>3, <1>6 DEF OutOf
<1>8. published' = published
  BY <1>1 DEF host
<1>9. Safe \subseteq Safe'
  BY <1>4, <1>7, <1>8 DEF Safe
<1>10. MochatKept'
  <2>1. \A kind \in Kinds : ToSet(self'.seen[kind]) \subseteq Safe'
    BY <1>0, <1>4, <1>9 DEF MochatKept
  <2>2. \A id \in ToSet(self'.buffer) \cup OutOf(tasks') : IsAllowed(Mochat!ById(id))
    BY <1>0, <1>4, <1>7 DEF MochatKept
  <2>3. \A t \in tasks' : t.pc = "lock" => t.out = <<>>
    BY <1>0, <1>1, <1>2 DEF MochatKept
  <2> QED BY <1>0, <1>4, <2>1, <2>2, <2>3 DEF MochatKept
<1> QED BY <1>1, <1>4, <1>5, <1>10, FitsUnmoved DEF MochatOK

LEMMA MochatMarks ==
  ASSUME self \in MochatSelf, NEW t \in MochatHandlers
  PROVE  \A s : s = Mochat!MarkCursor(self, Mochat!Top(ToSet(t.todo)))
           => /\ s \in MochatSelf /\ s.seen = self.seen /\ s.buffer = self.buffer /\ s.timer = self.timer
              /\ s.dropped = self.dropped /\ s.file = self.file /\ s.cursor >= self.cursor
<1> SUFFICES ASSUME NEW s, s = Mochat!MarkCursor(self, Mochat!Top(ToSet(t.todo)))
             PROVE  /\ s \in MochatSelf /\ s.seen = self.seen /\ s.buffer = self.buffer /\ s.timer = self.timer
                    /\ s.dropped = self.dropped /\ s.file = self.file /\ s.cursor >= self.cursor
  OBVIOUS
<1>1. PICK top : top = Mochat!Top(ToSet(t.todo)) /\ top \in Nat
  BY ElementsAre, TopType DEF MochatHandlers
<1>2. CASE top < self.cursor
  BY <1>1, <1>2 DEF Mochat!MarkCursor, MochatSelf
<1>3. CASE ~(top < self.cursor)
  <2>1. PICK saving : s = [self EXCEPT !.cursor = top, !.saving = saving] /\ saving = TRUE
    BY <1>1, <1>3, Zenon DEF Mochat!MarkCursor
  <2>2. saving \in BOOLEAN /\ s = [self EXCEPT !.cursor = top, !.saving = saving]
    BY <2>1
  <2> HIDE <2>1
  <2>3. top >= self.cursor
    BY <1>1, <1>3 DEF MochatSelf
  <2> QED BY <1>1, <2>2, <2>3, Zenon DEF MochatSelf
<1> QED BY <1>2, <1>3

LEMMA MochatTakesLock ==
  ASSUME HostOK, MochatOK, NEW t \in tasks, Mochat!TakesLock(t)
  PROVE  Fits /\ MochatOK'
<1>0. self \in MochatSelf /\ MochatKept /\ t \in MochatHandlers /\ tasks \subseteq MochatHandlers /\ t.out = <<>>
  BY DEF MochatOK, MochatKept, Mochat!TakesLock
<1> DEFINE s == Mochat!MarkCursor(self, Mochat!Top(ToSet(t.todo)))
<1>1. /\ self' = s \/ self' = [s EXCEPT !.cold = FALSE]
      /\ Ends(t) \/ Await(t, "work")
      /\ UNCHANGED <<pending, host>>
  BY MochatHost, MochatSets DEF Mochat!TakesLock
<1>2. /\ s \in MochatSelf /\ s.seen = self.seen /\ s.buffer = self.buffer /\ s.timer = self.timer
      /\ s.dropped = self.dropped /\ s.file = self.file /\ s.cursor >= self.cursor
  BY <1>0, MochatMarks
<1> HIDE DEF s
<1>3. /\ self' \in MochatSelf /\ self'.seen = self.seen /\ self'.buffer = self.buffer /\ self'.timer = self.timer
      /\ self'.dropped = self.dropped /\ self'.file = self.file /\ self'.cursor >= self.cursor
  BY <1>1, <1>2, Zenon DEF MochatSelf
<1>4. tasks' \subseteq MochatHandlers /\ (\A u \in tasks' : u.pc = "lock" => u.out = <<>>)
      /\ OutOf(tasks') = OutOf(tasks)
  <2>1. PICK u : u = [t EXCEPT !.pc = "work"]
    BY Zenon
  <2>2. u \in MochatHandlers /\ u.out = <<>>
    BY <1>0, <2>1 DEF MochatHandlers
  <2>3. tasks' = tasks \ {t} \/ tasks' = (tasks \ {t}) \cup {u}
    BY <1>1, <2>1 DEF Ends, Await
  <2>4. ToSet(<<>>) = {}
    BY DEF ToSet
  <2>5. OutOf(tasks') = OutOf(tasks)
    BY <1>0, <2>2, <2>3, <2>4 DEF OutOf
  <2> QED BY <1>0, <2>2, <2>3, <2>5 DEF MochatKept
<1>5. Safe' = Safe
  BY <1>1, <1>3, <1>4 DEF Safe, host
<1>6. MochatKept'
  <2>1. self'.file <= self'.cursor
    BY <1>0, <1>3 DEF MochatSelf, MochatKept
  <2> QED BY <1>0, <1>3, <1>4, <1>5, <2>1 DEF MochatKept
<1> QED BY <1>1, <1>3, <1>4, <1>6, FitsUnmoved DEF MochatOK

\* An event is noted; the buffer takes a message, or is emptied.
LEMMA MochatNoted ==
  ASSUME self \in MochatSelf, NEW kind \in Kinds, NEW id \in Ids
  PROVE  LET n == [self EXCEPT !.seen[kind] = Remember(self.seen[kind], id)]
         IN  /\ n \in MochatSelf /\ n.buffer = self.buffer /\ n.timer = self.timer /\ n.dropped = self.dropped
             /\ n.file = self.file /\ n.cursor = self.cursor
             /\ \A k \in Kinds : ToSet(n.seen[k]) \subseteq ToSet(self.seen[k]) \cup {id}
<1>1. PICK seen : seen = [self.seen EXCEPT ![kind] = Remember(self.seen[kind], id)]
  BY Zenon
<1>2. self.seen \in [Kinds -> Seq(Ids)]
  BY DEF MochatSelf
<1>3. Remember(self.seen[kind], id) \in Seq(Ids)
      /\ ToSet(Remember(self.seen[kind], id)) \subseteq ToSet(self.seen[kind]) \cup {id}
  BY <1>2, RememberTypes, RememberSet
<1>4. seen \in [Kinds -> Seq(Ids)] /\ \A k \in Kinds : ToSet(seen[k]) \subseteq ToSet(self.seen[k]) \cup {id}
  BY <1>1, <1>2, <1>3
<1>5. PICK n : n = [self EXCEPT !.seen = seen]
  BY Zenon
<1>6. /\ n \in MochatSelf /\ n.buffer = self.buffer /\ n.timer = self.timer /\ n.dropped = self.dropped
      /\ n.file = self.file /\ n.cursor = self.cursor /\ n.seen = seen
  BY <1>4, <1>5, Zenon DEF MochatSelf
<1>7. n = [self EXCEPT !.seen[kind] = Remember(self.seen[kind], id)]
  BY <1>1, <1>5 DEF MochatSelf
<1> QED BY <1>4, <1>6, <1>7

LEMMA MochatFills ==
  ASSUME NEW n \in MochatSelf, NEW buffer \in Seq(Ids), NEW timer \in BOOLEAN
  PROVE  LET f == [n EXCEPT !.buffer = buffer, !.timer = timer]
         IN  /\ f \in MochatSelf /\ f.buffer = buffer /\ f.timer = timer /\ f.dropped = n.dropped
             /\ f.file = n.file /\ f.cursor = n.cursor /\ f.seen = n.seen
<1>1. PICK f : f = [n EXCEPT !.buffer = buffer, !.timer = timer]
  OBVIOUS
<1>2. /\ f \in MochatSelf /\ f.buffer = buffer /\ f.timer = timer /\ f.dropped = n.dropped
      /\ f.file = n.file /\ f.cursor = n.cursor /\ f.seen = n.seen
  BY <1>1, Zenon DEF MochatSelf
<1> QED BY <1>1, <1>2

LEMMA MochatFlushes ==
  ASSUME NEW n \in MochatSelf
  PROVE  LET f == Mochat!Flushed(n)
         IN  /\ f \in MochatSelf /\ f.buffer = <<>> /\ ~f.timer /\ f.dropped = n.dropped
             /\ f.file = n.file /\ f.cursor = n.cursor /\ f.seen = n.seen
<1>1. <<>> \in Seq(Ids) /\ FALSE \in BOOLEAN
  BY EmptySeq
<1> QED BY <1>1, MochatFills, Zenon DEF Mochat!Flushed

\* A handler h takes the place of t, or of nothing; what t was publishing and the
\* buffer held is published, or h and the buffer have it, and what was noted too.
LEMMA MochatGoesOn ==
  ASSUME HostOK, MochatOK, NEW old, old \subseteq tasks, NEW new, new \subseteq MochatHandlers,
         tasks' = (tasks \ old) \cup new, self' \in MochatSelf, NEW noted,
         \A kind \in Kinds : ToSet(self'.seen[kind]) \subseteq ToSet(self.seen[kind]) \cup noted,
         self'.dropped = self.dropped, self'.file <= self'.cursor,
         self'.buffer # <<>> => self'.timer,
         \A h \in new : h.pc = "lock" => h.out = <<>>,
         ToSet(published) \subseteq ToSet(published'),
         ToSet(self.buffer) \cup OutOf(old) \cup noted \subseteq ToSet(self'.buffer) \cup OutOf(new) \cup ToSet(published'),
         \A id \in ToSet(self'.buffer) \cup OutOf(new) :
           id \in ToSet(self.buffer) \cup OutOf(tasks) \/ IsAllowed(Mochat!ById(id))
  PROVE  MochatOK'
<1>1. /\ OutOf(tasks') = OutOf(tasks \ old) \cup OutOf(new)
      /\ OutOf(tasks) = OutOf(tasks \ old) \cup OutOf(old)
  BY DEF OutOf
<1>2. Safe \cup noted \subseteq Safe'
  BY <1>1, Zenon DEF Safe
<1>3. \A kind \in Kinds : ToSet(self'.seen[kind]) \subseteq Safe'
  BY <1>2 DEF MochatOK, MochatKept
<1>4. \A id \in ToSet(self'.buffer) \cup OutOf(tasks') : IsAllowed(Mochat!ById(id))
  BY <1>1, Zenon DEF MochatOK, MochatKept
<1>5. \A t \in tasks' : t.pc = "lock" => t.out = <<>>
  BY DEF MochatOK, MochatKept
<1>6. MochatKept'
  BY <1>3, <1>4, <1>5, Zenon DEF MochatKept
<1> QED BY <1>6 DEF MochatOK

LEMMA MochatProcesses ==
  ASSUME HostOK, MochatOK, NEW t \in tasks, Mochat!ProcessInboundEvent(t)
  PROVE  Fits /\ MochatOK'
<1> DEFINE id == Head(t.todo)
           noted == [self EXCEPT !.seen[t.kind] = Remember(self.seen[t.kind], id)]
           rest == [t EXCEPT !.todo = Tail(t.todo)]
           goes(h) == IF h.todo = <<>> /\ h.out = <<>> THEN {} ELSE {h}
<1>0. /\ self \in MochatSelf /\ MochatKept /\ t \in MochatHandlers /\ tasks \subseteq MochatHandlers
      /\ t.out = <<>> /\ t.todo # <<>> /\ t.pc = "work"
  BY DEF MochatOK, MochatKept, Mochat!ProcessInboundEvent
<1>1. \/ self' = self /\ tasks' = (tasks \ {t}) \cup goes(rest)
      \/ IsAllowed(Mochat!ById(id)) /\ self' = [noted EXCEPT !.buffer = Append(noted.buffer, id), !.timer = TRUE]
         /\ tasks' = (tasks \ {t}) \cup goes(rest)
      \/ IsAllowed(Mochat!ById(id)) /\ self' = Mochat!Flushed(noted)
         /\ tasks' = (tasks \ {t}) \cup goes([rest EXCEPT !.out = Append(self.buffer, id)])
      \/ IsAllowed(Mochat!ById(id)) /\ self' = noted
         /\ tasks' = (tasks \ {t}) \cup goes([rest EXCEPT !.out = <<id>>])
  BY MochatHost, Zenon DEF Mochat!ProcessInboundEvent, Mochat!IsAllowed, IsAllowed
<1>2. UNCHANGED <<pending, host>> /\ published' = published
  BY MochatHost DEF Mochat!ProcessInboundEvent, host
<1>3. id \in Ids /\ t.kind \in Kinds /\ self.buffer \in Seq(Ids) /\ Tail(t.todo) \in Seq(Ids)
  BY <1>0, HeadTailProperties DEF MochatHandlers, MochatSelf
<1>4. rest \in MochatHandlers /\ rest.out = <<>> /\ rest.pc = "work"
  BY <1>0, <1>3, Zenon DEF MochatHandlers
<1>5. /\ noted \in MochatSelf /\ noted.buffer = self.buffer /\ noted.timer = self.timer /\ noted.dropped = self.dropped
      /\ noted.file = self.file /\ noted.cursor = self.cursor
      /\ \A k \in Kinds : ToSet(noted.seen[k]) \subseteq ToSet(self.seen[k]) \cup {id}
  BY <1>0, <1>3, MochatNoted, Zenon
<1>6. ASSUME NEW out \in Seq(Ids)
      PROVE  [rest EXCEPT !.out = out] \in MochatHandlers /\ [rest EXCEPT !.out = out].out = out
             /\ [rest EXCEPT !.out = out].pc = "work"
  BY <1>4, Zenon DEF MochatHandlers
<1> HIDE DEF id, noted, rest
<1>7. /\ Append(self.buffer, id) \in Seq(Ids) /\ Append(self.buffer, id) # <<>>
      /\ ToSet(Append(self.buffer, id)) = ToSet(self.buffer) \cup {id}
      /\ <<id>> \in Seq(Ids) /\ <<id>> # <<>> /\ ToSet(<<id>>) = {id} /\ ToSet(<<>>) = {} /\ OutOf({t}) = {}
  <2>1. ToSet(<<>>) = {}
    BY DEF ToSet
  <2> QED BY <1>0, <1>3, <2>1, OneElement, ElementsAppended DEF OutOf
<1>8. (self.buffer # <<>> => self.timer) /\ self.file <= self.cursor /\ {t} \subseteq tasks
  BY <1>0 DEF MochatKept
<1>9. goes(rest) \subseteq MochatHandlers /\ OutOf(goes(rest)) = {} /\ \A h \in goes(rest) : h.pc = "lock" => h.out = <<>>
  BY <1>4, <1>7 DEF OutOf
<1>10. CASE self' = self /\ tasks' = (tasks \ {t}) \cup goes(rest)
  <2>1. PICK new : new = goes(rest)
    BY Zenon
  <2>2. new \subseteq MochatHandlers /\ OutOf(new) = {} /\ \A h \in new : h.pc = "lock" => h.out = <<>>
    BY <1>9, <2>1, Zenon
  <2>3. PICK none : none = {}
    BY Zenon
  <2>4. \A kind \in Kinds : ToSet(self'.seen[kind]) \subseteq ToSet(self.seen[kind]) \cup none
    BY <1>10
  <2> QED BY <1>0, <1>2, <1>7, <1>8, <1>10, <2>1, <2>2, <2>3, <2>4, MochatGoesOn, FitsUnmoved, Zenon
<1>11. CASE /\ IsAllowed(Mochat!ById(id)) /\ self' = [noted EXCEPT !.buffer = Append(noted.buffer, id), !.timer = TRUE]
            /\ tasks' = (tasks \ {t}) \cup goes(rest)
  <2>1. PICK new, more : new = goes(rest) /\ more = {id}
    BY Zenon
  <2>2. new \subseteq MochatHandlers /\ OutOf(new) = {} /\ \A h \in new : h.pc = "lock" => h.out = <<>>
    BY <1>9, <2>1, Zenon
  <2>3. /\ self' \in MochatSelf /\ self'.buffer = Append(self.buffer, id) /\ self'.timer /\ self'.dropped = self.dropped
        /\ self'.file = self.file /\ self'.cursor = self.cursor /\ self'.seen = noted.seen
    <3>1. TRUE \in BOOLEAN /\ Append(noted.buffer, id) \in Seq(Ids)
      BY <1>5, <1>7
    <3>2. self' \in MochatSelf /\ self'.buffer = Append(noted.buffer, id) /\ self'.timer = TRUE /\ self'.dropped = noted.dropped
          /\ self'.file = noted.file /\ self'.cursor = noted.cursor /\ self'.seen = noted.seen
      BY <1>5, <1>11, <3>1, MochatFills, Zenon
    <3> QED BY <1>5, <3>2
  <2>4. \A kind \in Kinds : ToSet(self'.seen[kind]) \subseteq ToSet(self.seen[kind]) \cup more
    BY <1>5, <2>1, <2>3
  <2>5. ToSet(self'.buffer) = ToSet(self.buffer) \cup more
    BY <1>7, <2>1, <2>3
  <2>6. \A k \in ToSet(self'.buffer) \cup OutOf(new) :
          k \in ToSet(self.buffer) \cup OutOf(tasks) \/ IsAllowed(Mochat!ById(k))
    BY <1>11, <2>1, <2>2, <2>5
  <2>7. self'.file <= self'.cursor /\ tasks' = (tasks \ {t}) \cup new
    BY <1>8, <1>11, <2>1, <2>3
  <2>8. ToSet(self.buffer) \cup OutOf({t}) \cup more \subseteq ToSet(self'.buffer) \cup OutOf(new) \cup ToSet(published')
    BY <1>7, <2>5, Zenon
  <2> QED BY <1>2, <1>8, <2>2, <2>3, <2>4, <2>6, <2>7, <2>8, MochatGoesOn, FitsUnmoved, Zenon
<1>12. ASSUME NEW out \in Seq(Ids), out # <<>>,
              IsAllowed(Mochat!ById(id)), tasks' = (tasks \ {t}) \cup goes([rest EXCEPT !.out = out]),
              \/ out = Append(self.buffer, id) /\ self' = Mochat!Flushed(noted)
              \/ out = <<id>> /\ self' = noted
       PROVE  Fits /\ MochatOK'
  <2>1. PICK h, new, more : h = [rest EXCEPT !.out = out] /\ new = goes(h) /\ more = {id}
    BY Zenon
  <2>2. h \in MochatHandlers /\ h.out = out /\ h.pc = "work"
    BY <1>6, <2>1
  <2>3. new = {h} /\ OutOf(new) = ToSet(out) /\ tasks' = (tasks \ {t}) \cup new
    BY <1>12, <2>1, <2>2, Zenon DEF OutOf
  <2>4. /\ self' \in MochatSelf /\ self'.dropped = self.dropped /\ (self'.buffer # <<>> => self'.timer)
        /\ self'.file = self.file /\ self'.cursor = self.cursor /\ self'.seen = noted.seen
        /\ (out = Append(self.buffer, id) /\ self'.buffer = <<>>) \/ (out = <<id>> /\ self'.buffer = self.buffer)
    <3>1. CASE out = Append(self.buffer, id) /\ self' = Mochat!Flushed(noted)
      BY <1>5, <3>1, MochatFlushes
    <3>2. CASE out = <<id>> /\ self' = noted
      BY <1>5, <1>8, <3>2
    <3> QED BY <1>12, <3>1, <3>2
  <2>5. \A kind \in Kinds : ToSet(self'.seen[kind]) \subseteq ToSet(self.seen[kind]) \cup more
    BY <1>5, <2>1, <2>4
  <2>6. ToSet(self'.buffer) \cup ToSet(out) = ToSet(self.buffer) \cup more
    BY <1>7, <2>1, <2>4, Zenon
  <2>7. \A k \in ToSet(self'.buffer) \cup OutOf(new) :
          k \in ToSet(self.buffer) \cup OutOf(tasks) \/ IsAllowed(Mochat!ById(k))
    BY <1>12, <2>1, <2>3, <2>6
  <2>8. self'.file <= self'.cursor
    BY <1>8, <2>4
  <2>9. ToSet(self.buffer) \cup OutOf({t}) \cup more \subseteq ToSet(self'.buffer) \cup OutOf(new) \cup ToSet(published')
    BY <1>7, <2>3, <2>6, Zenon
  <2>10. new \subseteq MochatHandlers /\ \A k \in new : k.pc = "lock" => k.out = <<>>
    BY <2>2, <2>3
  <2>11. ToSet(published) \subseteq ToSet(published') /\ {t} \subseteq tasks /\ UNCHANGED <<pending, host>>
    BY <1>2
  <2>12. MochatOK'
    BY <1>8, <2>3, <2>4, <2>5, <2>7, <2>8, <2>9, <2>10, <2>11, MochatGoesOn, Zenon
  <2> QED BY <2>11, <2>12, FitsUnmoved, Zenon
<1>13. CASE /\ IsAllowed(Mochat!ById(id)) /\ self' = Mochat!Flushed(noted)
            /\ tasks' = (tasks \ {t}) \cup goes([rest EXCEPT !.out = Append(self.buffer, id)])
  BY <1>7, <1>12, <1>13, Zenon
<1>14. CASE /\ IsAllowed(Mochat!ById(id)) /\ self' = noted
            /\ tasks' = (tasks \ {t}) \cup goes([rest EXCEPT !.out = <<id>>])
  BY <1>7, <1>12, <1>14, Zenon
<1> HIDE DEF goes
<1> QED BY <1>1, <1>10, <1>11, <1>13, <1>14, Zenon

LEMMA MochatTimer ==
  ASSUME HostOK, MochatOK, Mochat!TimerFires
  PROVE  Fits /\ MochatOK'
<1>0. self \in MochatSelf /\ MochatKept
  BY DEF MochatOK
<1>1. PICK h, new, none :
        /\ h = [by |-> "timer", kind |-> "panel", todo |-> <<>>, out |-> self.buffer, pc |-> "work"]
        /\ new = {h} /\ none = {}
  BY Zenon
<1>2. self' = Mochat!Flushed(self) /\ tasks' = (tasks \ none) \cup new /\ UNCHANGED <<pending, host>>
      /\ published' = published
  BY <1>1, MochatHost DEF Mochat!TimerFires, host
<1>3. h \in MochatHandlers /\ h.out = self.buffer /\ h.pc = "work"
  BY <1>0, <1>1, EmptySeq DEF MochatSelf, MochatHandlers, Kinds
<1>4. /\ self' \in MochatSelf /\ self'.buffer = <<>> /\ self'.dropped = self.dropped
      /\ self'.file = self.file /\ self'.cursor = self.cursor /\ self'.seen = self.seen
  BY <1>0, <1>2, MochatFlushes
<1>5. OutOf(new) = ToSet(self.buffer) /\ OutOf(none) = {} /\ ToSet(<<>>) = {}
  BY <1>1, <1>3 DEF OutOf, ToSet
<1>6. self'.file <= self'.cursor
  BY <1>0, <1>4 DEF MochatKept
<1>7. \A kind \in Kinds : ToSet(self'.seen[kind]) \subseteq ToSet(self.seen[kind]) \cup none
  BY <1>4
<1>8. ToSet(self'.buffer) = {} /\ none \subseteq tasks /\ new \subseteq MochatHandlers
      /\ \A k \in new : k.pc = "lock" => k.out = <<>>
  BY <1>1, <1>3, <1>4, <1>5
<1>9. \A k \in ToSet(self'.buffer) \cup OutOf(new) :
        k \in ToSet(self.buffer) \cup OutOf(tasks) \/ IsAllowed(Mochat!ById(k))
  BY <1>5, <1>8
<1>10. ToSet(self.buffer) \cup OutOf(none) \cup none \subseteq ToSet(self'.buffer) \cup OutOf(new) \cup ToSet(published')
  BY <1>1, <1>5
<1> QED BY <1>2, <1>4, <1>6, <1>7, <1>8, <1>9, <1>10, MochatGoesOn, FitsUnmoved, Zenon

LEMMA MochatDispatches ==
  ASSUME HostOK, MochatOK, NEW t \in tasks, Mochat!DispatchEntries(t)
  PROVE  Fits /\ MochatOK'
<1>0. self \in MochatSelf /\ MochatKept /\ t \in MochatHandlers /\ tasks \subseteq MochatHandlers
      /\ t.out \in Seq(Ids) /\ t.out # <<>>
  BY DEF MochatOK, MochatHandlers, Mochat!DispatchEntries
<1> DEFINE e == Mochat!ById(Last(t.out))
<1>1. /\ HandleMessage(e, t.out)
      /\ UNCHANGED <<self, pending, turns, outbound, snd, shown, cut>>
      /\ tasks' = (tasks \ {t}) \cup (IF t.todo = <<>> THEN {} ELSE {[t EXCEPT !.out = <<>>]})
  BY MochatHost, MochatSets DEF Mochat!DispatchEntries
<1>2. Last(t.out) \in Ids /\ Last(t.out) \in ToSet(t.out)
  <2>1. Len(t.out) \in 1 .. Len(t.out) /\ DOMAIN t.out = 1 .. Len(t.out) /\ t.out[Len(t.out)] \in Ids
    BY <1>0, EmptySeq, LenProperties, ElementOfSeq
  <2> QED BY <2>1 DEF Last, ToSet
<1>3. e \in Events /\ e.id \in ToSet(t.out)
  BY <1>2, EventOf
<1>4. IsAllowed(e)
  BY <1>0, <1>2 DEF MochatKept, OutOf
<1> HIDE DEF e
<1>5. Fits
  BY <1>0, <1>1, <1>3, Handled DEF Fits, HostOK
<1>6. ToSet(published') = ToSet(published) \cup ToSet(t.out)
  <2>1. published' = published \o t.out /\ published \in Seq(Ids) /\ t.out \in Seq(Ids)
    BY <1>0, <1>1, <1>4 DEF HandleMessage, HostOK
  <2> QED BY <2>1, SetOfConcat, Zenon
<1>7. PICK h, new, none : /\ h = [t EXCEPT !.out = <<>>] /\ none = {}
                          /\ new = IF t.todo = <<>> THEN {} ELSE {h}
  BY Zenon
<1>8. h \in MochatHandlers /\ h.out = <<>>
  BY <1>0, <1>7, EmptySeq, Zenon DEF MochatHandlers
<1>9. OutOf(new) = {} /\ OutOf({t}) = ToSet(t.out)
  <2>1. ToSet(<<>>) = {}
    BY DEF ToSet
  <2> QED BY <1>7, <1>8, <2>1, Zenon DEF OutOf
<1>10. /\ {t} \subseteq tasks /\ new \subseteq MochatHandlers /\ (\A k \in new : k.pc = "lock" => k.out = <<>>)
       /\ tasks' = (tasks \ {t}) \cup new
  BY <1>1, <1>7, <1>8, Zenon
<1>11. /\ self' \in MochatSelf /\ self'.dropped = self.dropped /\ self'.file <= self'.cursor
       /\ (self'.buffer # <<>> => self'.timer) /\ self'.buffer = self.buffer
       /\ \A kind \in Kinds : ToSet(self'.seen[kind]) \subseteq ToSet(self.seen[kind]) \cup none
  BY <1>0, <1>1 DEF MochatKept
<1>12. ToSet(self.buffer) \cup OutOf({t}) \cup none \subseteq ToSet(self'.buffer) \cup OutOf(new) \cup ToSet(published')
  BY <1>6, <1>7, <1>9, <1>11
<1>13. \A k \in ToSet(self'.buffer) \cup OutOf(new) :
         k \in ToSet(self.buffer) \cup OutOf(tasks) \/ IsAllowed(Mochat!ById(k))
  BY <1>9, <1>11
<1>14. ToSet(published) \subseteq ToSet(published')
  BY <1>6
<1>15. MochatOK'
  BY <1>10, <1>11, <1>12, <1>13, <1>14, MochatGoesOn, Zenon
<1> QED BY <1>5, <1>15, Zenon

\* The attributes of a new process.
LEMMA MochatStarts ==
  ASSUME NEW cursor \in Nat, NEW posted \in SUBSET Ids
  PROVE  \A s : s = Mochat!Started(cursor) \/ s = [Mochat!Started(cursor) EXCEPT !.posted = posted]
           => /\ s \in MochatSelf /\ s.file = cursor /\ s.cursor = cursor /\ s.buffer = <<>>
              /\ \A kind \in Kinds : s.seen[kind] = <<>>
<1>1. [k \in {"session", "panel"} |-> <<>>] \in [Kinds -> Seq(Ids)]
  BY EmptySeq DEF Kinds
<1>2. PICK cold, seen, buffer : cold = (cursor = 0) /\ seen = [k \in {"session", "panel"} |-> <<>>] /\ buffer = <<>>
  BY Zenon
<1>3. cold \in BOOLEAN /\ seen \in [Kinds -> Seq(Ids)] /\ buffer \in Seq(Ids) /\ \A kind \in Kinds : seen[kind] = <<>>
  BY <1>1, <1>2, EmptySeq DEF Kinds
<1>4. PICK s : s = [name |-> "mochat", posted |-> {}, ws |-> "down", fallback |-> TRUE, asked |-> {},
                    cursor |-> cursor, file |-> cursor, saving |-> FALSE, cold |-> cold, seen |-> seen,
                    buffer |-> buffer, timer |-> FALSE, dropped |-> {}]
  BY Zenon
<1>5. s = Mochat!Started(cursor)
  BY <1>2, <1>4, Zenon DEF Mochat!Started
<1>6. s \in MochatSelf /\ s.file = cursor /\ s.cursor = cursor /\ s.buffer = buffer /\ s.seen = seen
  BY <1>3, <1>4 DEF MochatSelf
<1>7. PICK r : r = [s EXCEPT !.posted = posted]
  BY Zenon
<1>8. r \in MochatSelf /\ r.file = cursor /\ r.cursor = cursor /\ r.buffer = buffer /\ r.seen = seen
  BY <1>6, <1>7, Zenon DEF MochatSelf
<1> QED BY <1>2, <1>3, <1>5, <1>6, <1>7, <1>8, Zenon

LEMMA MochatRestarts ==
  ASSUME HostOK, MochatOK, Mochat!Restart
  PROVE  Fits /\ MochatOK'
<1>1. /\ self' = [Mochat!Started(self.file) EXCEPT !.posted = self.posted]
      /\ tasks' = {} /\ inbound' = <<>> /\ turns' = {} /\ outbound' = <<>> /\ snd' = NoSend /\ published' = <<>>
      /\ UNCHANGED <<pending, shown>>
  BY DEF Mochat!Restart, Mochat!NoSend, NoSend
<1>2. self.file \in Nat /\ self.posted \in SUBSET Ids /\ Is({"mochat"})
  BY DEF MochatOK, MochatSelf, Is
<1>3. /\ self' \in MochatSelf /\ self'.file = self.file /\ self'.cursor = self.file /\ self'.buffer = <<>>
      /\ \A kind \in Kinds : self'.seen[kind] = <<>>
  BY <1>1, <1>2, MochatStarts
<1>4. ToSet(<<>>) = {} /\ OutOf({}) = {}
  BY DEF ToSet, OutOf
<1>5. MochatKept'
  <2>1. self'.file <= self'.cursor
    BY <1>2, <1>3
  <2> QED BY <1>1, <1>3, <1>4, <2>1 DEF MochatKept
<1> QED BY <1>1, <1>2, <1>3, <1>5 DEF Fits, HostStep, Restarts, HostOK, MochatOK

LEMMA MochatFits ==
  ASSUME HostOK, MochatOK, Mochat!Next
  PROVE  Fits /\ MochatOK'
<1>1. ASSUME Host PROVE Fits /\ MochatOK'
  <2>1. Fits /\ UNCHANGED <<self, tasks>>
    BY <1>1, FitsHost
  <2>2. published' = published
    BY <1>1, Zenon DEF Host, Take, Dispatch, Returns, Superseded, Reports, Answers
  <2> QED BY <2>1, <2>2 DEF MochatOK, MochatKept, Safe
<1>2. CASE Mochat!Send
  <2>1. /\ Sending /\ GoesOn(<<>>)
        /\ UNCHANGED <<self, tasks, pending, inbound, turns, outbound, published, shown, cut>>
    BY <1>2, MochatSend DEF Mochat!Send, Doing
  <2>2. SendStep
    BY <2>1, TodoTypes, SendMoves, Zenon DEF Lost
  <2> QED BY <2>1, <2>2 DEF MochatOK, MochatKept, Safe, Fits, HostStep, HostOK
<1> QED BY <1>1, <1>2, MochatHost, MochatPlain, MochatSubscribes, MochatTakesLock, MochatProcesses, MochatTimer,
           MochatDispatches, MochatRestarts DEF Mochat!Next

-----------------------------------------------------------------------------
(* The initial states.                                                      *)

LEMMA HostBegins ==
  ASSUME HostInit
  PROVE  HostOK /\ tasks = {} /\ ~Sending /\ cut = {} /\ published = <<>>
<1>1. pending \in [Ids -> 0 .. 2]
  BY TrafficBounded, Zenon DEF HostInit, Ids
<1>2. <<>> \in Seq(Events) /\ <<>> \in Seq(Out) /\ <<>> \in Seq(Ids) /\ <<>> \in Seq(Keys) /\ Len(<<>>) = 0
  BY EmptySeq
<1>3. 0 <= InMax /\ 0 <= OutMax
  BY QueuesBounded
<1>4. ~Sending
  BY DEF HostInit, Sending, NoSend
<1> QED BY <1>1, <1>2, <1>3, <1>4 DEF HostInit, HostOK

LEMMA TelegramBegins ==
  ASSUME Telegram!Init
  PROVE  HostInit /\ HostOK /\ TelegramOK
<1>1. HostInit
  BY DEF Telegram!Init, Telegram!HostInit, HostInit, Telegram!NoSend, NoSend
<1>2. PICK buffers : buffers = [a \in Telegram!Albums |-> <<>>]
  BY Zenon
<1>3. buffers \in [Telegram!Albums -> Seq(Ids)]
  BY <1>2, EmptySeq
<1>4. self = [name |-> "telegram", typing |-> {}, buffers |-> buffers, flushers |-> {}]
  BY <1>2 DEF Telegram!Init
<1>5. self \in TelegramSelf
  BY <1>3, <1>4 DEF TelegramSelf
<1> QED BY <1>1, <1>5, HostBegins DEF TelegramOK

LEMMA DiscordBegins ==
  ASSUME Discord!Init
  PROVE  HostInit /\ HostOK /\ DiscordOK
<1>1. HostInit
  BY DEF Discord!Init, Discord!HostInit, HostInit, Discord!NoSend, NoSend
<1>2. self \in DiscordSelf
  BY DEF Discord!Init, DiscordSelf
<1> QED BY <1>1, <1>2, HostBegins DEF DiscordOK

LEMMA MatrixBegins ==
  ASSUME Matrix!Init
  PROVE  HostInit /\ HostOK /\ MatrixOK
<1>1. HostInit
  BY DEF Matrix!Init, Matrix!HostInit, HostInit, Matrix!NoSend, NoSend
<1>2. self \in MatrixSelf
  BY DEF Matrix!Init, MatrixSelf
<1> QED BY <1>1, <1>2, HostBegins DEF MatrixOK

LEMMA FeishuBegins ==
  ASSUME Feishu!Init
  PROVE  HostInit /\ HostOK /\ FeishuOK
<1>1. HostInit
  BY DEF Feishu!Init, Feishu!HostInit, HostInit, Feishu!NoSend, NoSend
<1>2. self \in FeishuSelf /\ self.threads = {}
  BY EmptySeq DEF Feishu!Init, FeishuSelf
<1> QED BY <1>1, <1>2, HostBegins DEF FeishuOK, Feishu_Threads

LEMMA DingTalkBegins ==
  ASSUME DingTalk!Init
  PROVE  HostInit /\ HostOK /\ DingTalkOK
<1>1. HostInit
  BY DEF DingTalk!Init, DingTalk!HostInit, HostInit, DingTalk!NoSend, NoSend
<1>2. TokenLife \in 0 .. TokenLife /\ 0 \in 0 .. TokenLife /\ SendTimeout \in Nat
  BY TokenTimes
<1>3. self \in DingTalkSelf /\ self.spent = 0
  BY <1>2 DEF DingTalk!Init, DingTalkSelf
<1> QED BY <1>1, <1>2, <1>3, HostBegins DEF DingTalkOK, Fresh, Holding

LEMMA EmailBegins ==
  ASSUME Email!Init
  PROVE  HostInit /\ HostOK /\ EmailOK
<1>1. HostInit
  BY DEF Email!Init, Email!HostInit, HostInit, Email!NoSend, NoSend
<1>2. self \in EmailSelf
  BY EmptySeq DEF Email!Init, EmailSelf
<1> QED BY <1>1, <1>2, HostBegins DEF EmailOK

LEMMA SlackBegins ==
  ASSUME Slack!Init
  PROVE  HostInit /\ HostOK /\ SlackOK
<1>1. HostInit
  BY DEF Slack!Init, Slack!HostInit, HostInit, Slack!NoSend, NoSend
<1>2. self \in SlackSelf
  BY DEF Slack!Init, SlackSelf
<1> QED BY <1>1, <1>2, HostBegins DEF SlackOK

LEMMA QQBegins ==
  ASSUME QQ!Init
  PROVE  HostInit /\ HostOK /\ QQOK
<1>1. HostInit
  BY DEF QQ!Init, QQ!HostInit, HostInit, QQ!NoSend, NoSend
<1>2. self \in QQSelf
  BY EmptySeq DEF QQ!Init, QQSelf
<1> QED BY <1>1, <1>2, HostBegins DEF QQOK

LEMMA WhatsAppBegins ==
  ASSUME WhatsApp!Init
  PROVE  HostInit /\ HostOK /\ WhatsAppOK
<1>1. HostInit
  BY DEF WhatsApp!Init, WhatsApp!HostInit, HostInit, WhatsApp!NoSend, NoSend
<1>2. self \in WhatsAppSelf
  BY EmptySeq DEF WhatsApp!Init, WhatsAppSelf
<1> QED BY <1>1, <1>2, HostBegins DEF WhatsAppOK

LEMMA WecomBegins ==
  ASSUME Wecom!Init
  PROVE  HostInit /\ HostOK /\ WecomOK
<1>1. HostInit
  BY DEF Wecom!Init, Wecom!HostInit, HostInit, Wecom!NoSend, NoSend
<1>2. PICK frames : frames = [c \in Wecom!Chats |-> 0]
  BY Zenon
<1>3. frames \in [Rooms -> Ids \cup {0}]
  BY <1>2 DEF Wecom!Chats, Rooms
<1>4. self = [name |-> "wecom", seen |-> <<>>, frames |-> frames]
  BY <1>2 DEF Wecom!Init
<1>5. self \in WecomSelf
  BY <1>3, <1>4, EmptySeq DEF WecomSelf
<1> QED BY <1>1, <1>5, HostBegins DEF WecomOK

LEMMA WecomSelfbuiltBegins ==
  ASSUME WecomSelfbuilt!Init
  PROVE  HostInit /\ HostOK /\ WecomSelfbuiltOK
<1>1. HostInit
  BY DEF WecomSelfbuilt!Init, WecomSelfbuilt!HostInit, HostInit, WecomSelfbuilt!NoSend, NoSend
<1>2. TokenLife \in 0 .. TokenLife /\ 0 \in 0 .. TokenLife /\ SendTimeout \in Nat /\ <<>> \in Seq(Ids)
  BY TokenTimes, EmptySeq
<1>3. self \in WecomSelfbuiltSelf /\ self.spent = 0
  BY <1>2 DEF WecomSelfbuilt!Init, WecomSelfbuiltSelf
<1> QED BY <1>1, <1>2, <1>3, HostBegins DEF WecomSelfbuiltOK, Fresh, Holding

LEMMA MochatBegins ==
  ASSUME Mochat!Init
  PROVE  HostInit /\ HostOK /\ MochatOK
<1>1. HostInit /\ self = Mochat!Started(0)
  BY DEF Mochat!Init, Mochat!HostInit, HostInit, Mochat!NoSend, NoSend
<1>2. PICK zero, none : zero = 0 /\ none = {}
  BY Zenon
<1>3. zero \in Nat /\ none \in SUBSET Ids /\ self = Mochat!Started(zero)
  BY <1>1, <1>2
<1>4. \A s : s = Mochat!Started(zero) \/ s = [Mochat!Started(zero) EXCEPT !.posted = none]
             => /\ s \in MochatSelf /\ s.file = zero /\ s.cursor = zero /\ s.buffer = <<>>
                /\ \A kind \in Kinds : s.seen[kind] = <<>>
  <2>1. zero \in Nat /\ none \in SUBSET Ids
    BY <1>3
  <2> HIDE <1>2, <1>3
  <2> QED BY <2>1, MochatStarts, Zenon
<1>5. /\ self \in MochatSelf /\ self.file = 0 /\ self.cursor = 0 /\ self.buffer = <<>>
      /\ \A kind \in Kinds : self.seen[kind] = <<>>
  BY <1>2, <1>3, <1>4
<1>6. ToSet(<<>>) = {} /\ OutOf({}) = {}
  BY DEF ToSet, OutOf
<1>7. tasks = {} /\ HostOK
  BY <1>1, HostBegins
<1> QED BY <1>1, <1>5, <1>6, <1>7 DEF MochatOK, MochatKept

-----------------------------------------------------------------------------
(* The invariant of the channel that is enabled, whichever it is.           *)

AdapterOK ==
  \/ TelegramOK \/ DiscordOK \/ MatrixOK \/ FeishuOK \/ DingTalkOK \/ EmailOK \/ SlackOK \/ QQOK
  \/ WhatsAppOK \/ WecomOK \/ WecomSelfbuiltOK \/ MochatOK

ChannelInv == HostOK /\ AdapterOK

\* The name says which it is.
LEMMA Named ==
  ASSUME AdapterOK
  PROVE  /\ self.name = "telegram" => TelegramOK
         /\ self.name = "discord" => DiscordOK
         /\ self.name = "matrix" => MatrixOK
         /\ self.name = "feishu" => FeishuOK
         /\ self.name = "dingtalk" => DingTalkOK
         /\ self.name = "email" => EmailOK
         /\ self.name = "slack" => SlackOK
         /\ self.name = "qq" => QQOK
         /\ self.name = "whatsapp" => WhatsAppOK
         /\ self.name = "wecom" => WecomOK
         /\ self.name = "wecom_selfbuilt" => WecomSelfbuiltOK
         /\ self.name = "mochat" => MochatOK
<1>1. /\ TelegramOK => self.name = "telegram"
      /\ DiscordOK => self.name = "discord"
      /\ MatrixOK => self.name = "matrix"
      /\ FeishuOK => self.name = "feishu"
      /\ DingTalkOK => self.name = "dingtalk"
      /\ EmailOK => self.name = "email"
  BY DEF TelegramOK, DiscordOK, MatrixOK, FeishuOK, DingTalkOK, EmailOK,
     TelegramSelf, DiscordSelf, MatrixSelf, FeishuSelf, DingTalkSelf, EmailSelf
<1>2. /\ SlackOK => self.name = "slack"
      /\ QQOK => self.name = "qq"
      /\ WhatsAppOK => self.name = "whatsapp"
      /\ WecomOK => self.name = "wecom"
      /\ WecomSelfbuiltOK => self.name = "wecom_selfbuilt"
      /\ MochatOK => self.name = "mochat"
  BY DEF SlackOK, QQOK, WhatsAppOK, WecomOK, WecomSelfbuiltOK, MochatOK,
     SlackSelf, QQSelf, WhatsAppSelf, WecomSelf, WecomSelfbuiltSelf, MochatSelf
<1> QED BY <1>1, <1>2 DEF AdapterOK

LEMMA ChannelBegins == Init => HostInit /\ ChannelInv
BY TelegramBegins, DiscordBegins, MatrixBegins, FeishuBegins, DingTalkBegins, EmailBegins, SlackBegins, QQBegins,
   WhatsAppBegins, WecomBegins, WecomSelfbuiltBegins, MochatBegins DEF Init, ChannelInv, AdapterOK

LEMMA ChannelUnmoved == ChannelInv /\ UNCHANGED vars => ChannelInv'
<1> SUFFICES ASSUME ChannelInv, UNCHANGED vars PROVE ChannelInv'
  OBVIOUS
<1>1. HostOK'
  BY DEF ChannelInv, HostOK, vars
<1>2. (Fresh => Fresh') /\ (Feishu_Threads => Feishu_Threads') /\ (MochatKept => MochatKept')
  BY DEF vars, Sending, Doing, Message, Fresh, Holding, Feishu_Threads, MochatKept, Safe
<1>3. AdapterOK'
  BY <1>2 DEF vars, ChannelInv, AdapterOK, TelegramOK, DiscordOK, MatrixOK, FeishuOK, DingTalkOK, EmailOK, SlackOK,
     QQOK, WhatsAppOK, WecomOK, WecomSelfbuiltOK, MochatOK
<1> QED BY <1>1, <1>3 DEF ChannelInv

LEMMA ChannelMoves == ChannelInv /\ [Next]_vars => ChannelInv'
<1> SUFFICES ASSUME ChannelInv, Next PROVE ChannelInv'
  BY ChannelUnmoved
<1>0. HostOK /\ AdapterOK
  BY DEF ChannelInv
<1>1. Fits /\ AdapterOK'
  BY <1>0, Named, TelegramFits, DiscordFits, MatrixFits, FeishuFits, DingTalkFits, EmailFits, SlackFits, QQFits,
     WhatsAppFits, WecomFits, WecomSelfbuiltFits, MochatFits DEF Next, AdapterOK
<1> QED BY <1>0, <1>1, HostTypes DEF Fits, ChannelInv

LEMMA ChannelInvariant == Spec => []ChannelInv
BY ChannelBegins, ChannelMoves, PTL DEF Spec

-----------------------------------------------------------------------------
(* The theorems.                                                           *)

\* What the channel puts between the platform and the bus keeps its shape: the
\* queues of MessageBus stay within their bounds, whatever the adapter does, and
\* a send under way is of a message that came from the platform.
THEOREM TypesAlways == Spec => []TypeOK
<1>1. ASSUME HostOK
      PROVE  TypeOK
  <2>1. pending \in [{e.id : e \in Events} -> 0 .. 2] /\ DOMAIN pending = Ids
    BY <1>1 DEF HostOK, Ids
  <2>2. Sending => snd.msg.re \in Ids
    BY <1>1 DEF HostOK, Sending, NoSend, Snd, Out
  <2>3. /\ Len(inbound) <= InMax /\ Len(outbound) <= OutMax
        /\ \A t \in turns : t.ev \in Events
    BY <1>1 DEF HostOK
  <2> QED BY <2>1, <2>2, <2>3 DEF TypeOK
<1>2. ChannelInv => TypeOK
  BY <1>1 DEF ChannelInv
<1> QED BY <1>2, ChannelInvariant, PTL

\* No post of DingTalk or of a self-built WeCom goes out with a token that is
\* over, for any lifetime, margin and timeout of a send, when the timeout is at
\* most the margin, as the 30 s of the dispatcher are at most the 60 s of
\* _get_access_token, and less than the lifetime.
THEOREM TokenAlwaysValid ==
  ASSUME SendTimeout <= TokenMargin, SendTimeout < TokenLife
  PROVE  Spec => []TokenValid
<1>1. ChannelInv => TokenValid
  <2> SUFFICES ASSUME ChannelInv, Is({"dingtalk", "wecom_selfbuilt"}), Sending, ~Doing("begin")
               PROVE  self.held < TokenLife
    BY DEF TokenValid
  <2>1. AdapterOK
    BY DEF ChannelInv
  <2>2. DingTalkOK \/ WecomSelfbuiltOK
    BY <2>1, Named DEF Is
  <2>3. Fresh /\ Holding /\ self.held \in Nat /\ self.spent \in Nat
    <3>1. \A n \in 0 .. TokenLife : n \in Nat
      BY TokenTimes
    <3> QED BY <2>2, <3>1 DEF DingTalkOK, WecomSelfbuiltOK, DingTalkSelf, WecomSelfbuiltSelf, Holding
  <2>4. self.spent <= SendTimeout /\ (self.held <= self.spent \/ self.held < self.spent + TokenLife - TokenMargin)
    BY <2>3 DEF Fresh
  <2> QED BY <2>3, <2>4, TokenTimes
<1> QED BY <1>1, ChannelInvariant, PTL

\* Mochat loses no message that it has noted as seen, however many coroutines
\* handle its events, whatever they overtake and whenever the connection comes
\* back, except what a cancelled fallback worker had in hand.
THEOREM SeenIsKept == Spec => []KeptOrPublished
<1>1. ChannelInv => KeptOrPublished
  <2> SUFFICES ASSUME ChannelInv, Is({"mochat"}), NEW kind \in Kinds, NEW id \in ToSet(self.seen[kind])
               PROVE  \/ id \in ToSet(published) \cup self.dropped
                      \/ id \in ToSet(self.buffer) /\ self.timer
                      \/ \E t \in tasks : id \in Mochat!InHand(t)
    BY Zenon DEF KeptOrPublished, Kinds
  <2>1. AdapterOK
    BY DEF ChannelInv
  <2>2. MochatKept
    BY <2>1, Named DEF Is, MochatOK
  <2>3. id \in Safe
    BY <2>2 DEF MochatKept
  <2>4. CASE id \in ToSet(self.buffer)
    <3>1. ToSet(<<>>) = {}
      BY DEF ToSet
    <3> QED BY <2>2, <2>4, <3>1 DEF MochatKept
  <2>5. CASE id \in OutOf(tasks)
    <3>1. PICK t \in tasks : id \in ToSet(t.out)
      BY <2>5 DEF OutOf
    <3>2. id \in Mochat!InHand(t)
      BY <3>1, MochatSets DEF Mochat!InHand
    <3> QED BY <3>2
  <2> QED BY <2>3, <2>4, <2>5 DEF Safe
<1> QED BY <1>1, ChannelInvariant, PTL

\* What a step of Mochat does to the cursor and its file.
Forward == self'.cursor >= self.cursor /\ self'.file >= self.file

LEMMA CursorStays ==
  ASSUME self \in MochatSelf, self'.cursor = self.cursor, self'.file = self.file
  PROVE  Forward
BY DEF MochatSelf, Forward

LEMMA CursorMoves ==
  ASSUME MochatOK, Mochat!Next
  PROVE  (self'.cursor = self.file /\ cut' # cut) \/ Forward
<1>0. self \in MochatSelf /\ MochatKept /\ tasks \subseteq MochatHandlers
  BY DEF MochatOK
<1>1. ASSUME self' = self
      PROVE  Forward
  BY <1>0, <1>1, CursorStays
<1>2. CASE Host \/ Mochat!Send \/ Mochat!PanelPolled \/ \E t \in tasks : Mochat!DispatchEntries(t)
  <2>1. self' = self
    BY <1>2, Zenon DEF Host, Take, Dispatch, Returns, Superseded, Reports, Answers, Mochat!Send, Mochat!PanelPolled,
       Mochat!DispatchEntries
  <2> QED BY <1>1, <2>1
<1>3. ASSUME NEW e \in Events, Mochat!Post(e)
      PROVE  Forward
  <2>1. self' = [self EXCEPT !.posted = self.posted \cup {e.id}]
    BY <1>3 DEF Mochat!Post
  <2> QED BY <1>0, <2>1, CursorStays DEF MochatSelf
<1>4. CASE Mochat!Connect \/ Mochat!WatchAsks \/ \E c \in self.asked : Mochat!WatchAnswered(c)
  <2>1. PICK ws, asked : self' = [self EXCEPT !.ws = ws] \/ self' = [self EXCEPT !.asked = asked]
    BY <1>4 DEF Mochat!Connect, Mochat!WatchAsks, Mochat!WatchAnswered
  <2> QED BY <1>0, <2>1, CursorStays DEF MochatSelf
<1>5. CASE Mochat!Subscribed
  <2>1. PICK ws, fallback, asked, dropped :
          self' = [self EXCEPT !.ws = ws, !.fallback = fallback, !.asked = asked, !.dropped = dropped]
    BY <1>5, Zenon DEF Mochat!Subscribed
  <2> QED BY <1>0, <2>1, CursorStays DEF MochatSelf
<1>6. CASE Mochat!Disconnect
  <2>1. PICK ws, fallback : self' = [self EXCEPT !.ws = ws, !.fallback = fallback]
    BY <1>6, Zenon DEF Mochat!Disconnect
  <2> QED BY <1>0, <2>1, CursorStays DEF MochatSelf
<1>7. ASSUME NEW t \in tasks, Mochat!TakesLock(t)
      PROVE  Forward
  <2> DEFINE s == Mochat!MarkCursor(self, Mochat!Top(ToSet(t.todo)))
  <2>1. self' = s \/ self' = [s EXCEPT !.cold = FALSE]
    BY <1>7, MochatSets DEF Mochat!TakesLock
  <2>2. s \in MochatSelf /\ s.file = self.file /\ s.cursor >= self.cursor
    BY <1>0, MochatMarks
  <2> HIDE DEF s
  <2>3. self'.file = self.file /\ self'.cursor >= self.cursor
    BY <2>1, <2>2, Zenon DEF MochatSelf
  <2> QED BY <1>0, <2>3 DEF MochatSelf, Forward
<1>8. ASSUME NEW t \in tasks, Mochat!ProcessInboundEvent(t)
      PROVE  Forward
  <2> DEFINE id == Head(t.todo)
             noted == [self EXCEPT !.seen[t.kind] = Remember(self.seen[t.kind], id)]
  <2>1. \/ self' = self \/ self' = noted \/ self' = Mochat!Flushed(noted)
        \/ self' = [noted EXCEPT !.buffer = Append(noted.buffer, id), !.timer = TRUE]
    BY <1>8, MochatHost, Zenon DEF Mochat!ProcessInboundEvent
  <2>2. t.kind \in Kinds /\ id \in Ids
    BY <1>0, <1>8, HeadTailProperties DEF Mochat!ProcessInboundEvent, MochatHandlers
  <2>3. /\ noted \in MochatSelf /\ noted.buffer = self.buffer
        /\ noted.file = self.file /\ noted.cursor = self.cursor
    BY <1>0, <2>2, MochatNoted
  <2>4. TRUE \in BOOLEAN /\ Append(noted.buffer, id) \in Seq(Ids)
    BY <1>0, <2>2, <2>3, ElementsAppended DEF MochatSelf
  <2> HIDE DEF id, noted
  <2>5. self'.cursor = self.cursor /\ self'.file = self.file
    <3>1. Mochat!Flushed(noted).cursor = noted.cursor /\ Mochat!Flushed(noted).file = noted.file
      BY <2>3, MochatFlushes
    <3>2. CASE self' = [noted EXCEPT !.buffer = Append(noted.buffer, id), !.timer = TRUE]
      BY <2>3, <2>4, <3>2, MochatFills, Zenon
    <3> QED BY <2>1, <2>3, <3>1, <3>2
  <2> QED BY <1>0, <2>5, CursorStays
<1>9. CASE Mochat!TimerFires
  <2>1. self'.cursor = self.cursor /\ self'.file = self.file
    BY <1>0, <1>9, MochatFlushes DEF Mochat!TimerFires
  <2> QED BY <1>0, <2>1, CursorStays
<1>10. CASE Mochat!SaveCursors
  <2>1. PICK file, saving : self' = [self EXCEPT !.file = file, !.saving = saving] /\ file = self.cursor
    BY <1>10, Zenon DEF Mochat!SaveCursors
  <2>2. self'.cursor = self.cursor /\ self'.file = self.cursor
    BY <1>0, <2>1 DEF MochatSelf
  <2> QED BY <1>0, <2>2 DEF MochatSelf, MochatKept, Forward
<1>11. CASE Mochat!Restart
  <2>1. cut' # cut
    BY <1>11 DEF Mochat!Restart
  <2>2. self' = [Mochat!Started(self.file) EXCEPT !.posted = self.posted]
    BY <1>11 DEF Mochat!Restart
  <2>3. self.file \in Nat /\ self.posted \in SUBSET Ids
    BY <1>0 DEF MochatSelf
  <2>4. self'.cursor = self.file
    BY <2>2, <2>3, MochatStarts, Zenon
  <2> QED BY <2>1, <2>4
<1> QED BY <1>2, <1>3, <1>4, <1>5, <1>6, <1>7, <1>8, <1>9, <1>10, <1>11, MochatHost DEF Mochat!Next

\* The cursor of a Mochat session and its file never go backwards while the
\* process runs, whichever of push, subscription and a late poll comes last.
THEOREM CursorNeverBack == Spec => CursorAdvances
<1> DEFINE Advances == Is({"mochat"}) => \/ self'.cursor = self.file /\ cut' # cut
                                         \/ self'.cursor >= self.cursor /\ self'.file >= self.file
<1>1. ChannelInv /\ [Next]_vars => [Advances]_vars
  <2> SUFFICES ASSUME ChannelInv, Next, Is({"mochat"})
               PROVE  (self'.cursor = self.file /\ cut' # cut) \/ Forward
    BY Zenon DEF Forward
  <2>1. AdapterOK
    BY DEF ChannelInv
  <2>2. MochatOK
    BY <2>1, Named DEF Is
  <2>3. Mochat!Next
    BY DEF Next, Is
  <2> QED BY <2>2, <2>3, CursorMoves
<1> QED BY <1>1, ChannelInvariant, PTL DEF Spec, CursorAdvances

-----------------------------------------------------------------------------
(* The channel that is enabled stays the same.                             *)

LEMMA NameStays ==
  ASSUME ChannelInv, Next
  PROVE  self'.name = self.name
<1>0. HostOK /\ AdapterOK
  BY DEF ChannelInv
<1>1. /\ self.name = "telegram" => TelegramOK'
      /\ self.name = "discord" => DiscordOK'
      /\ self.name = "matrix" => MatrixOK'
      /\ self.name = "feishu" => FeishuOK'
      /\ self.name = "dingtalk" => DingTalkOK'
      /\ self.name = "email" => EmailOK'
      /\ self.name = "slack" => SlackOK'
      /\ self.name = "qq" => QQOK'
      /\ self.name = "whatsapp" => WhatsAppOK'
      /\ self.name = "wecom" => WecomOK'
      /\ self.name = "wecom_selfbuilt" => WecomSelfbuiltOK'
      /\ self.name = "mochat" => MochatOK'
  BY <1>0, Named, TelegramFits, DiscordFits, MatrixFits, FeishuFits, DingTalkFits, EmailFits, SlackFits, QQFits,
     WhatsAppFits, WecomFits, WecomSelfbuiltFits, MochatFits DEF Next
<1>2. /\ TelegramOK' => self'.name = "telegram"
      /\ DiscordOK' => self'.name = "discord"
      /\ MatrixOK' => self'.name = "matrix"
      /\ FeishuOK' => self'.name = "feishu"
      /\ DingTalkOK' => self'.name = "dingtalk"
      /\ EmailOK' => self'.name = "email"
  BY DEF TelegramOK, DiscordOK, MatrixOK, FeishuOK, DingTalkOK, EmailOK,
     TelegramSelf, DiscordSelf, MatrixSelf, FeishuSelf, DingTalkSelf, EmailSelf
<1>3. /\ SlackOK' => self'.name = "slack"
      /\ QQOK' => self'.name = "qq"
      /\ WhatsAppOK' => self'.name = "whatsapp"
      /\ WecomOK' => self'.name = "wecom"
      /\ WecomSelfbuiltOK' => self'.name = "wecom_selfbuilt"
      /\ MochatOK' => self'.name = "mochat"
  BY DEF SlackOK, QQOK, WhatsAppOK, WecomOK, WecomSelfbuiltOK, MochatOK,
     SlackSelf, QQSelf, WhatsAppSelf, WecomSelf, WecomSelfbuiltSelf, MochatSelf
<1>4. \/ self.name = "telegram" \/ self.name = "discord" \/ self.name = "matrix" \/ self.name = "feishu"
      \/ self.name = "dingtalk" \/ self.name = "email" \/ self.name = "slack" \/ self.name = "qq"
      \/ self.name = "whatsapp" \/ self.name = "wecom" \/ self.name = "wecom_selfbuilt" \/ self.name = "mochat"
  BY DEF Next
<1> QED BY <1>1, <1>2, <1>3, <1>4

-----------------------------------------------------------------------------
(* The files of a reply. A send of Telegram or DingTalk still has before it,   *)
(* in one block of its steps, as many files and notes as are neither told of   *)
(* nor failed.                                                                 *)

Media == {"file", "note"}
Block(q, a, n) == \A i \in a .. a + n - 1 : i \in DOMAIN q /\ q[i] \in Media
Ahead(q, n) == \E a \in Nat \ {0} : Block(q, a, n)

FilesInv ==
  Is({"telegram", "dingtalk"}) =>
    \/ snd = NoSend
    \/ Doing("begin")
    \/ \E n \in Nat : Ahead(snd.todo, n) /\ snd.told + snd.failed + n >= snd.msg.files

LEMMA NothingAhead == \A q : Ahead(q, 0)
<1>1. 1 \in Nat \ {0} /\ \A i \in 1 .. 1 + 0 - 1 : FALSE
  OBVIOUS
<1> QED BY <1>1 DEF Ahead, Block

LEMMA BlockTail ==
  ASSUME NEW q \in Seq(Steps), q # <<>>, NEW n \in Nat, Ahead(q, n)
  PROVE  /\ Head(q) \notin Media => Ahead(Tail(q), n)
         /\ n > 0 => Ahead(Tail(q), n - 1)
         /\ \A x \in Steps : x \in Media \/ Head(q) \notin Media => Ahead(<<x>> \o Tail(q), n)
<1>1. /\ Tail(q) \in Seq(Steps) /\ Len(q) \in Nat \ {0} /\ Head(q) = q[1] /\ DOMAIN q = 1 .. Len(q)
      /\ DOMAIN Tail(q) = 1 .. Len(q) - 1 /\ \A i \in 1 .. Len(q) - 1 : Tail(q)[i] = q[i + 1]
  BY HeadTailProperties, LenProperties, EmptySeq
<1>2. CASE n = 0
  BY <1>2, NothingAhead
<1>3. CASE n > 0
  <2>1. PICK a \in Nat \ {0} : Block(q, a, n)
    BY DEF Ahead
  <2>2. a \in a .. a + n - 1
    BY <1>3
  <2>3. Head(q) \notin Media => a # 1
    BY <1>1, <2>1, <2>2 DEF Block
  <2>4. a # 1 => a - 1 \in Nat \ {0} /\ Block(Tail(q), a - 1, n)
    BY <1>1, <2>1 DEF Block
  <2>5. a = 1 => Block(Tail(q), 1, n - 1)
    BY <1>1, <2>1 DEF Block
  <2>6. a # 1 => Block(Tail(q), a - 1, n - 1)
    BY <1>3, <2>4 DEF Block
  <2>7. ASSUME NEW x \in Steps, x \in Media \/ Head(q) \notin Media
        PROVE  Block(<<x>> \o Tail(q), a, n)
    <3>1. /\ <<x>> \o Tail(q) \in Seq(Steps) /\ Len(<<x>> \o Tail(q)) = Len(q)
          /\ \A i \in 1 .. Len(q) : (<<x>> \o Tail(q))[i] = IF i <= 1 THEN x ELSE Tail(q)[i - 1]
      <4>1. <<x>> \in Seq(Steps) /\ Len(<<x>>) = 1 /\ <<x>>[1] = x /\ Len(Tail(q)) = Len(q) - 1
        BY <1>1, OneElement, HeadTailProperties
      <4>2. PICK b : b = <<x>>
        BY Zenon
      <4>3. /\ b \o Tail(q) \in Seq(Steps) /\ Len(b \o Tail(q)) = Len(b) + Len(Tail(q))
            /\ \A i \in 1 .. Len(b) + Len(Tail(q)) : (b \o Tail(q))[i] = IF i <= Len(b) THEN b[i] ELSE Tail(q)[i - Len(b)]
        BY <1>1, <4>1, <4>2, ConcatProperties
      <4> QED BY <1>1, <4>1, <4>2, <4>3
    <3>2. DOMAIN (<<x>> \o Tail(q)) = 1 .. Len(q)
      BY <3>1, LenProperties
    <3>3. ASSUME NEW i \in a .. a + n - 1
          PROVE  i \in 1 .. Len(q) /\ (<<x>> \o Tail(q))[i] \in Media
      <4>1. i \in 1 .. Len(q) /\ q[i] \in Media
        BY <1>1, <2>1 DEF Block
      <4>2. CASE i = 1
        <5>1. x \in Media
          BY <2>3, <2>7, <4>2
        <5> QED BY <3>1, <4>1, <4>2, <5>1
      <4>3. CASE i # 1
        <5>1. i - 1 \in 1 .. Len(q) - 1 /\ i - 1 + 1 = i /\ ~(i <= 1)
          BY <4>1, <4>3
        <5> QED BY <1>1, <3>1, <4>1, <5>1
      <4> QED BY <4>2, <4>3
    <3> QED BY <3>2, <3>3 DEF Block
  <2>8. 1 \in Nat \ {0}
    OBVIOUS
  <2>9. Head(q) \notin Media => Ahead(Tail(q), n)
    BY <2>3, <2>4 DEF Ahead
  <2>10. Ahead(Tail(q), n - 1)
    BY <2>4, <2>5, <2>6, <2>8 DEF Ahead
  <2>11. \A x \in Steps : x \in Media \/ Head(q) \notin Media => Ahead(<<x>> \o Tail(q), n)
    BY <2>7 DEF Ahead
  <2> QED BY <2>9, <2>10, <2>11
<1> QED BY <1>2, <1>3

\* All files are ahead of a send that has just begun.
LEMMA FilesAhead ==
  ASSUME HostOK, Sending, NEW r \in Seq(Steps)
  PROVE  Ahead(Files \o r, snd.msg.files) /\ Ahead(r \o Files, snd.msg.files)
<1>1. snd.msg.files \in Nat /\ Files \in Seq(Steps) /\ Len(r) \in Nat
  BY SendTypes, TodoTypes, LenProperties DEF Snd, Out
<1>2. PICK n \in Nat, f \in Seq(Steps) : n = snd.msg.files /\ f = Files
  BY <1>1
<1>3. Len(f) = n /\ \A i \in 1 .. n : f[i] = "file"
  BY <1>1, <1>2, LenProperties DEF Files
<1>4. /\ DOMAIN (f \o r) = 1 .. n + Len(r) /\ DOMAIN (r \o f) = 1 .. Len(r) + n
      /\ \A i \in 1 .. n + Len(r) : (f \o r)[i] = IF i <= n THEN f[i] ELSE r[i - n]
      /\ \A i \in 1 .. Len(r) + n : (r \o f)[i] = IF i <= Len(r) THEN r[i] ELSE f[i - Len(r)]
  <2>1. /\ f \o r \in Seq(Steps) /\ Len(f \o r) = n + Len(r) /\ r \o f \in Seq(Steps) /\ Len(r \o f) = Len(r) + n
    BY <1>3, ConcatProperties, Zenon
  <2>2. /\ \A i \in 1 .. n + Len(r) : (f \o r)[i] = IF i <= n THEN f[i] ELSE r[i - n]
        /\ \A i \in 1 .. Len(r) + n : (r \o f)[i] = IF i <= Len(r) THEN r[i] ELSE f[i - Len(r)]
    BY <1>3, ConcatProperties
  <2> QED BY <2>1, <2>2, LenProperties
<1>5. Block(f \o r, 1, n)
  BY <1>1, <1>3, <1>4 DEF Block, Media
<1>6. Block(r \o f, Len(r) + 1, n)
  <2> SUFFICES ASSUME NEW i \in Len(r) + 1 .. Len(r) + 1 + n - 1
               PROVE  i \in DOMAIN (r \o f) /\ (r \o f)[i] \in Media
    BY Zenon DEF Block
  <2>1. i \in 1 .. Len(r) + n /\ ~(i <= Len(r)) /\ i - Len(r) \in 1 .. n
    BY <1>1
  <2> QED BY <1>3, <1>4, <2>1 DEF Media
<1>7. 1 \in Nat \ {0} /\ Len(r) + 1 \in Nat \ {0}
  BY <1>1
<1> QED BY <1>2, <1>5, <1>6, <1>7 DEF Ahead

\* The steps of a send that keep the count.
LEMMA FilesTold ==
  ASSUME HostOK, Sending, NEW n \in Nat, Ahead(snd.todo, n), snd.told + snd.failed + n >= snd.msg.files,
         Told(Left) \/ Failed(Left)
  PROVE  FilesInv'
<1>1. snd \in Snd /\ snd.todo \in Seq(Steps) /\ Left \in Seq(Steps)
  BY SendTypes
<1>2. snd.told \in Nat /\ snd.failed \in Nat /\ snd.msg.files \in Nat
  BY <1>1 DEF Snd, Out
<1>3. snd'.todo = Left /\ snd'.msg = snd.msg /\ snd'.told + snd'.failed = snd.told + snd.failed + 1
  <2>1. CASE Told(Left)
    <3>1. PICK told : snd' = [snd EXCEPT !.todo = Left, !.told = told] /\ told = snd.told + 1
      BY <2>1, Zenon DEF Told
    <3>2. snd'.todo = Left /\ snd'.msg = snd.msg /\ snd'.told = told /\ snd'.failed = snd.failed
      BY <1>1, <3>1 DEF Snd
    <3> QED BY <1>2, <3>1, <3>2
  <2>2. CASE Failed(Left)
    <3>1. PICK failed : snd' = [snd EXCEPT !.todo = Left, !.failed = failed] /\ failed = snd.failed + 1
      BY <2>2, Zenon DEF Failed
    <3>2. snd'.todo = Left /\ snd'.msg = snd.msg /\ snd'.told = snd.told /\ snd'.failed = failed
      BY <1>1, <3>1 DEF Snd
    <3> QED BY <1>2, <3>1, <3>2
  <2> QED BY <2>1, <2>2
<1>4. Ahead(Left, 0) /\ (n > 0 => Ahead(Left, n - 1))
  BY <1>1, BlockTail, NothingAhead DEF Left, Sending
<1>5. \E k \in Nat : Ahead(snd'.todo, k) /\ snd'.told + snd'.failed + k >= snd'.msg.files
  <2>1. CASE n = 0
    <3>1. 0 \in Nat /\ snd.told + snd.failed + 1 + 0 >= snd.msg.files
      BY <1>2, <2>1
    <3> QED BY <1>3, <1>4, <3>1
  <2>2. CASE n > 0
    <3>1. n - 1 \in Nat /\ snd.told + snd.failed + 1 + (n - 1) >= snd.msg.files
      BY <1>2, <2>2
    <3> QED BY <1>3, <1>4, <2>2, <3>1
  <2> QED BY <2>1, <2>2
<1> QED BY <1>5 DEF FilesInv

LEMMA FilesStay ==
  ASSUME HostOK, Sending, NEW n \in Nat, snd.told + snd.failed + n >= snd.msg.files,
         NEW todo \in Seq(Steps), Ahead(todo, n), GoesOn(todo)
  PROVE  FilesInv'
<1>1. snd \in Snd
  BY SendTypes
<1>2. snd'.todo = todo /\ snd'.msg = snd.msg /\ snd'.told = snd.told /\ snd'.failed = snd.failed
  BY <1>1 DEF GoesOn, Snd
<1>3. \E k \in Nat : Ahead(snd'.todo, k) /\ snd'.told + snd'.failed + k >= snd'.msg.files
  BY <1>2
<1> QED BY <1>3 DEF FilesInv

\* A send begins: all its files are ahead, whatever it has told already.
LEMMA FilesBegin ==
  ASSUME HostOK, Sending, NEW r \in Seq(Steps), NEW todo, todo = Files \o r \/ todo = r \o Files, GoesOn(todo)
  PROVE  FilesInv'
<1>1. snd \in Snd /\ Files \in Seq(Steps) /\ todo \in Seq(Steps)
  BY SendTypes, TodoTypes, Zenon
<1>2. snd.msg.files \in Nat /\ snd.told \in Nat /\ snd.failed \in Nat
  BY <1>1 DEF Snd, Out
<1>3. PICK n \in Nat : n = snd.msg.files
  BY <1>2
<1>4. Ahead(todo, n)
  <2>1. Ahead(Files \o r, n) /\ Ahead(r \o Files, n)
    BY <1>3, FilesAhead
  <2> QED BY <2>1, Zenon
<1>5. snd.told + snd.failed + n >= snd.msg.files
  BY <1>2, <1>3
<1> QED BY <1>1, <1>4, <1>5, FilesStay

LEMMA FilesUnmoved ==
  ASSUME FilesInv, self'.name = self.name, snd' = snd
  PROVE  FilesInv'
BY DEF FilesInv, Is, Doing, Sending

LEMMA FilesHost ==
  ASSUME FilesInv, self'.name = self.name, Host
  PROVE  FilesInv'
<1>1. snd' = snd \/ snd' = NoSend \/ \E m : snd' = [msg |-> m, todo |-> <<"begin">>, failed |-> 0, told |-> 0]
  BY Zenon DEF Host, Take, Dispatch, Returns, Superseded, Reports, Answers
<1>2. ASSUME NEW m, snd' = [msg |-> m, todo |-> <<"begin">>, failed |-> 0, told |-> 0]
      PROVE  FilesInv'
  <2>1. Doing("begin")'
    BY <1>2 DEF Doing, Sending
  <2> QED BY <2>1 DEF FilesInv
<1>3. CASE snd' = NoSend
  BY <1>3 DEF FilesInv
<1> QED BY <1>1, <1>2, <1>3, FilesUnmoved

LEMMA TelegramFiles ==
  ASSUME HostOK, TelegramOK, FilesInv, Telegram!Next, self'.name = self.name
  PROVE  FilesInv'
<1>0. Is({"telegram", "dingtalk"})
  BY DEF TelegramOK, TelegramSelf, Is
<1>1. ASSUME \E e \in Events : Telegram!ForwardCommand(e) \/ Telegram!OnMessage(e)
      PROVE  snd' = snd
  BY <1>1, TelegramHost DEF Telegram!ForwardCommand, Telegram!OnMessage, host
<1>2. ASSUME \E t \in tasks : Telegram!Downloaded(t) \/ Telegram!Publishes(t)
      PROVE  snd' = snd
  BY <1>2, TelegramHost DEF Telegram!Downloaded, Telegram!Publishes, host
<1>3. ASSUME \E f \in self.flushers : Telegram!FlushTakes(f) \/ Telegram!FlushPublishes(f)
      PROVE  snd' = snd
  BY <1>3, TelegramHost DEF Telegram!FlushTakes, Telegram!FlushPublishes, host
<1>4. CASE Telegram!SendBegins
  <2>1. PICK r : r = IF snd.msg.text THEN <<"html">> ELSE <<>>
    BY Zenon
  <2>2. Sending /\ GoesOn(Files \o r)
    BY <1>4, <2>1, TelegramSend DEF Telegram!SendBegins, Doing
  <2>3. r \in Seq(Steps)
    BY <2>1, <2>2, TodoTypes, Zenon DEF Steps
  <2> QED BY <2>2, <2>3, FilesBegin, Zenon
<1>5. CASE Telegram!SendFile \/ Telegram!SendNote \/ Telegram!SendText
  <2>1. Sending /\ ~Doing("begin")
    BY <1>5, TelegramSend DEF Telegram!SendFile, Telegram!SendNote, Telegram!SendText, Doing
  <2>2. snd # NoSend
    BY <2>1 DEF Sending, NoSend
  <2>3. PICK n \in Nat : Ahead(snd.todo, n) /\ snd.told + snd.failed + n >= snd.msg.files
    BY <1>0, <2>1, <2>2 DEF FilesInv
  <2>4. \/ Told(Left)
        \/ Doing("file") /\ GoesOn(<<"note">> \o Left)
        \/ Doing("html") /\ (GoesOn(Left) \/ GoesOn(<<"plain">> \o Left))
        \/ Doing("plain") /\ GoesOn(Left)
    BY <1>5, TelegramSend DEF Telegram!SendFile, Telegram!SendNote, Telegram!SendText
  <2>5. CASE Told(Left)
    BY <2>1, <2>3, <2>5, FilesTold
  <2>6. snd.todo \in Seq(Steps) /\ Left \in Seq(Steps) /\ snd.todo # <<>> /\ "note" \in Steps /\ "plain" \in Steps
    BY <2>1, SendTypes DEF Sending, Steps
  <2>7. CASE Doing("file") /\ GoesOn(<<"note">> \o Left)
    <3>1. PICK todo : todo = <<"note">> \o Left
      BY Zenon
    <3>2. todo \in Seq(Steps) /\ Ahead(todo, n)
      BY <2>3, <2>6, <3>1, BlockTail, TodoTypes, <2>1 DEF Left, Media
    <3> QED BY <2>1, <2>3, <2>7, <3>1, <3>2, FilesStay, Zenon
  <2>8. CASE (Doing("html") \/ Doing("plain")) /\ (GoesOn(Left) \/ GoesOn(<<"plain">> \o Left))
    <3>1. Head(snd.todo) \notin Media
      BY <2>8 DEF Doing, Media
    <3>2. PICK todo : todo = <<"plain">> \o Left
      BY Zenon
    <3>3. todo \in Seq(Steps) /\ Ahead(todo, n) /\ Ahead(Left, n)
      BY <2>3, <2>6, <3>1, <3>2, BlockTail, TodoTypes, <2>1 DEF Left
    <3> QED BY <2>1, <2>3, <2>6, <2>8, <3>2, <3>3, FilesStay, Zenon
  <2> QED BY <2>4, <2>5, <2>7, <2>8
<1>6. CASE Telegram!SendBroken
  <2>1. snd' = NoSend
    BY <1>6, TelegramSend DEF Telegram!SendBroken, BreaksOff
  <2> QED BY <2>1 DEF FilesInv
<1>7. CASE Host
  BY <1>7, FilesHost
<1> QED BY <1>1, <1>2, <1>3, <1>4, <1>5, <1>6, <1>7, TelegramHost, FilesUnmoved DEF Telegram!Next

LEMMA DingTalkFiles ==
  ASSUME HostOK, DingTalkOK, FilesInv, DingTalk!Next, self'.name = self.name
  PROVE  FilesInv'
<1>0. Is({"telegram", "dingtalk"})
  BY DEF DingTalkOK, DingTalkSelf, Is
<1>1. ASSUME DingTalk!Tick \/ \E e \in Events : DingTalk!Process(e)
      PROVE  snd' = snd
  BY <1>1, DingTalkHost, DingTalkToken DEF DingTalk!Process, Tick, host
<1>2. ASSUME \E t \in tasks : DingTalk!Downloaded(t) \/ DingTalk!OnMessage(t)
      PROVE  snd' = snd
  BY <1>2, DingTalkHost DEF DingTalk!Downloaded, DingTalk!OnMessage, host
<1>3. CASE DingTalk!SendBegins
  <2>1. PICK r, todo : r = (IF snd.msg.text THEN <<"text">> ELSE <<>>) /\ todo = r \o Files
    BY Zenon
  <2>2. Sending /\ GetAccessToken(todo)
    BY <1>3, <2>1, DingTalkSend, DingTalkToken DEF DingTalk!SendBegins, Doing
  <2>3. r \in Seq(Steps)
    BY <2>1, <2>2, TodoTypes, Zenon DEF Steps
  <2>4. GoesOn(todo) \/ snd' = NoSend
    BY <2>2 DEF GetAccessToken, FetchToken, BreaksOff
  <2>5. CASE snd' = NoSend
    BY <2>5 DEF FilesInv
  <2> QED BY <2>1, <2>2, <2>3, <2>4, <2>5, FilesBegin, Zenon
<1>4. CASE DingTalk!SendMarkdownText \/ DingTalk!SendMediaRef \/ DingTalk!SendNote
  <2>1. Sending /\ ~Doing("begin")
    BY <1>4, DingTalkSend DEF DingTalk!SendMarkdownText, DingTalk!SendMediaRef, DingTalk!SendNote, Doing
  <2>2. snd # NoSend
    BY <2>1 DEF Sending, NoSend
  <2>3. PICK n \in Nat : Ahead(snd.todo, n) /\ snd.told + snd.failed + n >= snd.msg.files
    BY <1>0, <2>1, <2>2 DEF FilesInv
  <2>4. \/ Told(Left) \/ Failed(Left)
        \/ Doing("file") /\ GoesOn(<<"note">> \o Left)
        \/ Doing("text") /\ GoesOn(Left)
    BY <1>4, DingTalkSend DEF DingTalk!SendMarkdownText, DingTalk!SendMediaRef, DingTalk!SendNote, DingTalk!Unreadable
  <2>5. CASE Told(Left) \/ Failed(Left)
    BY <2>1, <2>3, <2>5, FilesTold
  <2>6. snd.todo \in Seq(Steps) /\ Left \in Seq(Steps) /\ snd.todo # <<>> /\ "note" \in Steps
    BY <2>1, SendTypes DEF Sending, Steps
  <2>7. CASE Doing("file") /\ GoesOn(<<"note">> \o Left)
    <3>1. PICK todo : todo = <<"note">> \o Left
      BY Zenon
    <3>2. todo \in Seq(Steps) /\ Ahead(todo, n)
      BY <2>3, <2>6, <3>1, BlockTail, TodoTypes, <2>1 DEF Left, Media
    <3> QED BY <2>1, <2>3, <2>7, <3>1, <3>2, FilesStay, Zenon
  <2>8. CASE Doing("text") /\ GoesOn(Left)
    <3>1. Head(snd.todo) \notin Media
      BY <2>8 DEF Doing, Media
    <3>2. Ahead(Left, n)
      BY <2>3, <2>6, <3>1, BlockTail DEF Left
    <3> QED BY <2>1, <2>3, <2>6, <2>8, <3>2, FilesStay
  <2> QED BY <2>4, <2>5, <2>7, <2>8
<1>5. CASE DingTalk!SendTimesOut
  <2>1. snd' = NoSend
    BY <1>5, DingTalkSend DEF DingTalk!SendTimesOut, BreaksOff
  <2> QED BY <2>1 DEF FilesInv
<1>6. CASE Host
  BY <1>6, FilesHost
<1> QED BY <1>1, <1>2, <1>3, <1>4, <1>5, <1>6, DingTalkHost, FilesUnmoved DEF DingTalk!Next

\* No file of a reply is silently left out: when a send of Telegram or DingTalk is
\* through, every file has been shown, or a note was sent or tried, for any
\* replies, failures and interleavings.
THEOREM FilesAreTold == Spec => []FailureShown
<1>1. Init => FilesInv
  BY ChannelBegins DEF HostInit, FilesInv
<1>2. ASSUME ChannelInv, FilesInv, [Next]_vars
      PROVE  FilesInv'
  <2>1. CASE UNCHANGED vars
    BY <1>2, <2>1, FilesUnmoved DEF vars
  <2>2. CASE Next
    <3>1. self'.name = self.name /\ HostOK /\ AdapterOK
      BY <1>2, <2>2, NameStays DEF ChannelInv
    <3>2. CASE self.name = "telegram"
      BY <1>2, <2>2, <3>1, <3>2, Named, TelegramFiles DEF Next
    <3>3. CASE self.name = "dingtalk"
      BY <1>2, <2>2, <3>1, <3>3, Named, DingTalkFiles DEF Next
    <3>4. CASE ~Is({"telegram", "dingtalk"})
      BY <3>1, <3>4 DEF FilesInv, Is
    <3> QED BY <3>2, <3>3, <3>4 DEF Is
  <2> QED BY <1>2, <2>1, <2>2
<1>3. ChannelInv /\ FilesInv => FailureShown
  <2> SUFFICES ASSUME ChannelInv, FilesInv, Is({"telegram", "dingtalk"}), snd # NoSend, ~Sending
               PROVE  snd.told + snd.failed >= snd.msg.files
    BY DEF FailureShown
  <2>1. ~Doing("begin")
    BY DEF Doing
  <2>2. PICK n \in Nat : Ahead(snd.todo, n) /\ snd.told + snd.failed + n >= snd.msg.files
    BY <2>1 DEF FilesInv
  <2>3. n = 0
    <3>1. PICK a \in Nat \ {0} : Block(<<>>, a, n)
      BY <2>2 DEF Ahead, Sending
    <3>2. \A i \in a .. a + n - 1 : FALSE
      BY <3>1 DEF Block
    <3> QED BY <3>2
  <2>4. snd.told \in Nat /\ snd.failed \in Nat
    BY DEF ChannelInv, HostOK, Snd
  <2> QED BY <2>2, <2>3, <2>4
<1> QED BY <1>1, <1>2, <1>3, ChannelInvariant, PTL DEF Spec

-----------------------------------------------------------------------------
(* Typing. What ends it is still ahead: in a handler, in the queues or a turn, *)
(* or among the steps of the send. That a task flushes an album is not enough: *)
(* it has to publish a message of the same chat.                               *)

HostOwed(c) ==
  \/ \E m \in ToSet(inbound) : m.chat = c
  \/ \E t \in turns : t.ev.chat = c
  \/ \E m \in ToSet(outbound) : m.to = c /\ m.final

TaskOwed(c) == \E t \in tasks : t.ev.chat = c

SendOwed(c) ==
  /\ Sending /\ snd.msg.to = c /\ (snd.msg.final \/ Is({"discord"}))
  /\ Doing("begin") \/ (Is({"discord", "matrix"}) /\ \E s \in ToSet(snd.todo) : s \in {"text", "stop"})

AlbumOwed(c) == Is({"telegram"}) /\ (InAlbum(c) \/ Stranger(c))

AlbumsKept ==
  \A e \in Events :
    /\ \A a \in Telegram!Albums : e.id \in ToSet(self.buffers[a]) => e.album = a
    /\ \A f \in self.flushers : e.id \in ToSet(f.ids) => e.album = f.album

TypingEnds == \A c \in self.typing : TaskOwed(c) \/ HostOwed(c) \/ SendOwed(c) \/ AlbumOwed(c)

TypingInv ==
  Is({"telegram", "discord", "matrix"}) =>
    /\ TypingEnds
    /\ Is({"telegram"}) => AlbumsKept
    /\ Is({"discord", "matrix"}) => \A t \in tasks : t.ev.friend
    /\ Is({"matrix"}) => ("withdraw" \in ToSet(snd.todo) => snd.todo = <<"withdraw">>)

LEMMA SetOfQueue ==
  ASSUME NEW S, NEW q \in Seq(S), q # <<>>
  PROVE  ToSet(q) = {Head(q)} \cup ToSet(Tail(q))
<1>1. /\ Tail(q) \in Seq(S) /\ Len(q) \in Nat \ {0} /\ Head(q) = q[1] /\ DOMAIN q = 1 .. Len(q)
      /\ DOMAIN Tail(q) = 1 .. Len(q) - 1 /\ \A i \in 1 .. Len(q) - 1 : Tail(q)[i] = q[i + 1]
  BY HeadTailProperties, LenProperties, EmptySeq
<1>2. ASSUME NEW x \in ToSet(q) PROVE x \in {Head(q)} \cup ToSet(Tail(q))
  <2>1. PICK i \in 1 .. Len(q) : x = q[i]
    BY <1>1, <1>2 DEF ToSet
  <2>2. CASE i = 1
    BY <1>1, <2>1, <2>2
  <2>3. CASE i # 1
    <3>1. i - 1 \in 1 .. Len(q) - 1 /\ i - 1 + 1 = i
      BY <1>1, <2>3
    <3>2. Tail(q)[i - 1] = x
      BY <1>1, <2>1, <3>1
    <3> QED BY <1>1, <3>1, <3>2, Zenon DEF ToSet
  <2> QED BY <2>2, <2>3
<1>3. ASSUME NEW x \in ToSet(Tail(q)) PROVE x \in ToSet(q)
  <2>1. PICK i \in 1 .. Len(q) - 1 : x = Tail(q)[i]
    BY <1>1, <1>3 DEF ToSet
  <2>2. i + 1 \in 1 .. Len(q) /\ q[i + 1] = x
    BY <1>1, <2>1
  <2> QED BY <1>1, <2>2 DEF ToSet
<1>4. Head(q) \in ToSet(q)
  <2>1. 1 \in 1 .. Len(q)
    BY <1>1
  <2> QED BY <1>1, <2>1 DEF ToSet
<1> QED BY <1>2, <1>3, <1>4

\* What is owed stays owed while the queues only grow.
LEMMA OwedOn ==
  ASSUME HostOK, NEW c, HostOwed(c), UNCHANGED <<turns, outbound>>,
         inbound' = inbound \/ \E e \in Events : inbound' = Append(inbound, e)
  PROVE  HostOwed(c)'
<1>1. ToSet(inbound) \subseteq ToSet(inbound')
  <2>1. \A e \in Events : ToSet(Append(inbound, e)) = ToSet(inbound) \cup {e}
    BY ElementsAppended DEF HostOK
  <2> QED BY <2>1, Zenon
<1> QED BY <1>1 DEF HostOwed

\* The agent loop and the dispatcher pass on what is owed, up to a send that begins.
LEMMA HostOwes ==
  ASSUME HostOK, NEW c, HostOwed(c), Host
  PROVE  HostOwed(c)' \/ (snd = NoSend /\ snd'.todo = <<"begin">> /\ snd'.msg.to = c /\ snd'.msg.final)
<1>1. CASE Take
  <2>1. /\ ToSet(inbound) = {Head(inbound)} \cup ToSet(inbound')
        /\ turns' = turns \cup {[ev |-> Head(inbound), told |-> FALSE]} /\ outbound' = outbound
    BY <1>1, SetOfQueue DEF Take, HostOK
  <2>2. PICK u : u = [ev |-> Head(inbound), told |-> FALSE]
    BY Zenon
  <2>3. u \in turns' /\ turns \subseteq turns' /\ u.ev = Head(inbound)
    BY <2>1, <2>2
  <2> QED BY <2>1, <2>3 DEF HostOwed
<1>2. CASE Dispatch
  <2>1. ToSet(outbound) = {Head(outbound)} \cup ToSet(outbound') /\ inbound' = inbound /\ turns' = turns /\ snd = NoSend
    BY <1>2, SetOfQueue DEF Dispatch, HostOK
  <2>2. \/ ~Head(outbound).final
        \/ snd' = [msg |-> Head(outbound), todo |-> <<"begin">>, failed |-> 0, told |-> 0]
    BY <1>2 DEF Dispatch
  <2>3. snd' = [msg |-> Head(outbound), todo |-> <<"begin">>, failed |-> 0, told |-> 0]
        => snd'.todo = <<"begin">> /\ snd'.msg = Head(outbound)
    OBVIOUS
  <2>4. CASE ~Head(outbound).final
    BY <2>1, <2>4 DEF HostOwed
  <2>5. CASE snd'.todo = <<"begin">> /\ snd'.msg = Head(outbound)
    BY <2>1, <2>5 DEF HostOwed
  <2> QED BY <2>2, <2>3, <2>4, <2>5
<1>3. CASE Returns
  BY <1>3 DEF Returns, HostOwed
<1>4. ASSUME NEW t \in turns, Superseded(t) PROVE HostOwed(c)'
  BY <1>4 DEF Superseded, HostOwed
<1>5. ASSUME NEW t \in turns, Reports(t) PROVE HostOwed(c)'
  <2>1. PICK u : u = [t EXCEPT !.told = TRUE]
    BY Zenon
  <2>2. u.ev = t.ev
    BY <2>1 DEF HostOK
  <2>3. turns' = (turns \ {t}) \cup {u} /\ inbound' = inbound
    BY <1>5, <2>1 DEF Reports
  <2>4. ToSet(outbound) \subseteq ToSet(outbound')
    <3>1. Reply(t, FALSE, 0, TRUE) \in Out
      <4>1. FALSE \in BOOLEAN /\ 0 \in 0 .. 2 /\ TRUE \in BOOLEAN
        OBVIOUS
      <4> QED BY <4>1, EventIds DEF Reply, Out, HostOK
    <3>2. PICK m \in Out : m = Reply(t, FALSE, 0, TRUE)
      BY <3>1, Zenon
    <3>3. outbound' = Append(outbound, m) /\ outbound \in Seq(Out)
      BY <1>5, <3>2, Zenon DEF Reports, HostOK
    <3>4. \A x \in Out : ToSet(Append(outbound, x)) = ToSet(outbound) \cup {x}
      BY <3>3, ElementsAppended
    <3> QED BY <3>3, <3>4, Zenon
  <2> QED BY <2>2, <2>3, <2>4 DEF HostOwed
<1>6. ASSUME NEW t \in turns, Answers(t) PROVE HostOwed(c)'
  <2>1. PICK files \in IF t.ev.file THEN {1, 2} ELSE {0}, text \in BOOLEAN :
          outbound' = Append(outbound, Reply(t, TRUE, files, text))
    BY <1>6, Zenon DEF Answers
  <2>2. files \in 0 .. 2 /\ TRUE \in BOOLEAN
    OBVIOUS
  <2>3. PICK m \in Out : m = Reply(t, TRUE, files, text)
    BY <2>2, EventIds, Zenon DEF Reply, Out, HostOK
  <2>4. ToSet(outbound') = ToSet(outbound) \cup {m}
    <3>1. outbound' = Append(outbound, m) /\ outbound \in Seq(Out)
      BY <2>1, <2>3, Zenon DEF HostOK
    <3>2. \A x \in Out : ToSet(Append(outbound, x)) = ToSet(outbound) \cup {x}
      BY <3>1, ElementsAppended
    <3> QED BY <3>1, <3>2, Zenon
  <2>5. m.to = t.ev.chat /\ m.final
    BY <2>3 DEF Reply
  <2>6. turns' = turns \ {t} /\ inbound' = inbound
    BY <1>6 DEF Answers
  <2> QED BY <2>4, <2>5, <2>6 DEF HostOwed
<1> QED BY <1>1, <1>2, <1>3, <1>4, <1>5, <1>6 DEF Host

LEMMA TypingHost ==
  ASSUME HostOK, TypingInv, Host
  PROVE  TypingInv'
<1> SUFFICES ASSUME Is({"telegram", "discord", "matrix"}) PROVE TypingInv'
  <2>1. self' = self
    BY FitsHost
  <2> QED BY <2>1 DEF TypingInv, Is
<1>0. UNCHANGED <<self, tasks>> /\ (snd' = snd \/ ~Sending)
  BY FitsHost, HostSends
<1>1. ASSUME NEW c \in self.typing
      PROVE  TaskOwed(c)' \/ HostOwed(c)' \/ SendOwed(c)' \/ AlbumOwed(c)'
  <2>1. TaskOwed(c) => TaskOwed(c)'
    BY <1>0 DEF TaskOwed
  <2>2. AlbumOwed(c) => AlbumOwed(c)'
    BY <1>0 DEF AlbumOwed, InAlbum, Is
  <2>3. SendOwed(c) => SendOwed(c)'
    BY <1>0 DEF SendOwed, Sending, Doing, Is
  <2>4. ASSUME snd'.todo = <<"begin">>, snd'.msg.to = c, snd'.msg.final
        PROVE  SendOwed(c)'
    <3>1. Sending' /\ Doing("begin")'
      BY <2>4 DEF Sending, Doing
    <3> QED BY <2>4, <3>1 DEF SendOwed
  <2> QED BY <2>1, <2>2, <2>3, <2>4, HostOwes DEF TypingInv, TypingEnds
<1>2. Is({"telegram"}) => AlbumsKept'
  BY <1>0 DEF TypingInv, AlbumsKept
<1>3. ASSUME Is({"matrix"}), "withdraw" \in ToSet(snd'.todo)
      PROVE  snd'.todo = <<"withdraw">>
  <2>1. snd' = snd \/ snd'.todo = <<>> \/ snd'.todo = <<"begin">>
    <3>1. CASE Dispatch
      BY <3>1 DEF Dispatch, NoSend
    <3>2. CASE Returns
      BY <3>2 DEF Returns, NoSend
    <3>3. CASE Take \/ \E t \in turns : Superseded(t) \/ Reports(t) \/ Answers(t)
      BY <3>3, Zenon DEF Take, Superseded, Reports, Answers
    <3> QED BY <3>1, <3>2, <3>3 DEF Host
  <2>2. ToSet(<<>>) = {} /\ ToSet(<<"begin">>) = {"begin"}
    BY OneElement DEF ToSet
  <2> QED BY <1>3, <2>1, <2>2 DEF TypingInv
<1> QED BY <1>0, <1>1, <1>2, <1>3 DEF TypingInv, TypingEnds, Is

\* A handler that goes on still has its message, one that ends leaves the others.
LEMMA TasksOwe ==
  ASSUME tasks \subseteq Handlers, NEW t \in tasks
  PROVE  /\ \A pc : Await(t, pc) => \A c : TaskOwed(c) \/ c = t.ev.chat => TaskOwed(c)'
         /\ \A pc : Await(t, pc) /\ (\A u \in tasks : u.ev.friend) => \A u \in tasks' : u.ev.friend
         /\ Ends(t) => \A c : TaskOwed(c) /\ c # t.ev.chat => TaskOwed(c)'
<1>1. ASSUME NEW pc, Await(t, pc)
      PROVE  /\ \A c : TaskOwed(c) \/ c = t.ev.chat => TaskOwed(c)'
             /\ (\A u \in tasks : u.ev.friend) => \A u \in tasks' : u.ev.friend
  <2>1. PICK v : v = [t EXCEPT !.pc = pc]
    BY Zenon
  <2>2. v.ev = t.ev /\ tasks' = (tasks \ {t}) \cup {v}
    BY <1>1, <2>1 DEF Await, Handlers
  <2> QED BY <2>2 DEF TaskOwed
<1>2. Ends(t) => \A c : TaskOwed(c) /\ c # t.ev.chat => TaskOwed(c)'
  BY DEF Ends, TaskOwed
<1> QED BY <1>1, <1>2

\* A message that is published is owed, unless its sender is a stranger.
LEMMA PublishingOwes ==
  ASSUME HostOK, NEW e \in Events, NEW ids, HandleMessage(e, ids), UNCHANGED <<turns, outbound>>, NEW c
  PROVE  /\ HostOwed(c) => HostOwed(c)'
         /\ c = e.chat /\ e.friend => HostOwed(c)'
<1>1. inbound' = inbound \/ inbound' = Append(inbound, e)
  BY DEF HandleMessage
<1>2. HostOwed(c) => HostOwed(c)'
  BY <1>1, OwedOn
<1>3. e.friend => e \in ToSet(inbound')
  <2>1. \A x \in Events : ToSet(Append(inbound, x)) = ToSet(inbound) \cup {x}
    BY ElementsAppended DEF HostOK
  <2>2. e.friend => inbound' = Append(inbound, e)
    BY DEF HandleMessage, IsAllowed
  <2> QED BY <2>1, <2>2, Zenon
<1> QED BY <1>2, <1>3 DEF HostOwed

\* What a step leaves alone is still owed.
LEMMA StillOwed ==
  ASSUME NEW c, self'.name = self.name
  PROVE  /\ tasks' = tasks /\ TaskOwed(c) => TaskOwed(c)'
         /\ UNCHANGED <<inbound, turns, outbound>> /\ HostOwed(c) => HostOwed(c)'
         /\ snd' = snd /\ SendOwed(c) => SendOwed(c)'
         /\ self'.flushers = self.flushers /\ AlbumOwed(c) => AlbumOwed(c)'
         /\ ~Is({"telegram"}) => ~AlbumOwed(c)
BY DEF TaskOwed, HostOwed, SendOwed, AlbumOwed, InAlbum, Stranger, Sending, Doing, Is

LEMMA AlbumsStay ==
  ASSUME AlbumsKept, self'.buffers = self.buffers, self'.flushers = self.flushers
  PROVE  AlbumsKept'
BY DEF AlbumsKept

LEMMA TelegramTypingEnds ==
  ASSUME Is({"telegram"}), self'.name = self.name, AlbumsKept',
         \A c \in self'.typing : TaskOwed(c)' \/ HostOwed(c)' \/ SendOwed(c)' \/ AlbumOwed(c)'
  PROVE  TypingInv'
BY DEF TypingInv, TypingEnds, Is

LEMMA TelegramTyping ==
  ASSUME HostOK, TelegramOK, TypingInv, Telegram!Next, self'.name = self.name
  PROVE  TypingInv'
<1>0. /\ Is({"telegram"}) /\ AlbumsKept /\ tasks \subseteq Handlers
      /\ \A c \in self.typing : TaskOwed(c) \/ HostOwed(c) \/ SendOwed(c) \/ AlbumOwed(c)
      /\ self \in TelegramSelf
  BY DEF TelegramOK, TelegramSelf, Is, TypingInv, TypingEnds
<1>1. ASSUME NEW e \in Events, Telegram!ForwardCommand(e) \/ Telegram!OnMessage(e)
      PROVE  TypingInv'
  <2>1. tasks = {} /\ self' = self /\ UNCHANGED host
    BY <1>1, TelegramHost DEF Telegram!ForwardCommand, Telegram!OnMessage
  <2>2. \A c : ~TaskOwed(c)
    BY <2>1 DEF TaskOwed
  <2>3. UNCHANGED <<inbound, turns, outbound, snd>>
    BY <2>1 DEF host
  <2> QED BY <1>0, <2>1, <2>2, <2>3, StillOwed, AlbumsStay, TelegramTypingEnds
<1>2. ASSUME NEW t \in tasks, Telegram!Downloaded(t), t.ev.album = "none"
      PROVE  TypingInv'
  <2>1. /\ self' = [self EXCEPT !.typing = self.typing \cup {t.ev.chat}]
        /\ Await(t, "publish") /\ UNCHANGED host
    BY <1>2, TelegramHost DEF Telegram!Downloaded, Telegram!StartTyping
  <2>2. /\ self'.typing = self.typing \cup {t.ev.chat}
        /\ self'.buffers = self.buffers /\ self'.flushers = self.flushers
    BY <1>0, <2>1 DEF TelegramSelf
  <2>3. \A c : TaskOwed(c) \/ c = t.ev.chat => TaskOwed(c)'
    BY <1>0, <2>1, TasksOwe
  <2>4. UNCHANGED <<inbound, turns, outbound, snd>>
    BY <2>1 DEF host
  <2> QED BY <1>0, <2>2, <2>3, <2>4, StillOwed, AlbumsStay, TelegramTypingEnds
<1>3. ASSUME NEW t \in tasks, Telegram!Downloaded(t), t.ev.album # "none"
      PROVE  TypingInv'
  <2>a. PICK e \in Events, a \in Telegram!Albums : e = t.ev /\ a = e.album
    BY <1>0, <1>3, Zenon DEF Handlers, Telegram!Albums
  <2>b. PICK g : g = [album |-> a, ids |-> <<>>]
    BY Zenon
  <2>0. e = t.ev /\ a = e.album /\ g = [album |-> a, ids |-> <<>>]
    BY <2>a, <2>b
  <2>1. PICK buffers, typing, flushers :
          /\ self' = [self EXCEPT !.buffers = buffers, !.typing = typing, !.flushers = flushers]
          /\ buffers = [self.buffers EXCEPT ![a] = Append(self.buffers[a], e.id)]
          /\ typing \subseteq self.typing \cup {e.chat}
          /\ flushers = IF \E f \in self.flushers : f.album = a THEN self.flushers ELSE self.flushers \cup {g}
    <3>1. PICK buffers, typing, flushers :
            /\ self' = [self EXCEPT !.buffers = buffers, !.typing = typing, !.flushers = flushers]
            /\ buffers = [self.buffers EXCEPT ![t.ev.album] = Append(self.buffers[t.ev.album], t.ev.id)]
            /\ typing \in {self.typing, self.typing \cup {t.ev.chat}}
            /\ flushers = IF \E f \in self.flushers : f.album = t.ev.album THEN self.flushers
                          ELSE self.flushers \cup {[album |-> t.ev.album, ids |-> <<>>]}
      BY <1>3, Zenon DEF Telegram!Downloaded, TelegramOK, TelegramSelf
    <3>2. typing \subseteq self.typing \cup {e.chat}
      BY <2>0, <3>1
    <3>3. /\ buffers = [self.buffers EXCEPT ![a] = Append(self.buffers[a], e.id)]
          /\ flushers = IF \E f \in self.flushers : f.album = a THEN self.flushers ELSE self.flushers \cup {g}
      BY <2>0, <3>1, Zenon
    <3> QED BY <3>1, <3>2, <3>3, Zenon
  <2>2. /\ self'.buffers = buffers /\ self'.typing = typing /\ self'.flushers = flushers
    BY <1>0, <2>1 DEF TelegramSelf
  <2>3. Ends(t) /\ UNCHANGED <<inbound, turns, outbound, snd>>
    BY <1>3, TelegramHost DEF Telegram!Downloaded, host
  <2>4. g.album = a /\ g.ids = <<>>
    BY <2>0
  <2>5. /\ self.flushers \subseteq flushers /\ \A f \in flushers : f \in self.flushers \/ f = g
        /\ \E f \in flushers : f.album = a
    BY <2>1, <2>4
  <2>6. ASSUME NEW c \in self'.typing
        PROVE  TaskOwed(c)' \/ HostOwed(c)' \/ SendOwed(c)' \/ AlbumOwed(c)'
    <3>1. CASE c = e.chat
      <4>1. InAlbum(c)'
        BY <2>0, <2>2, <2>5, <3>1 DEF InAlbum
      <4> QED BY <1>0, <4>1 DEF AlbumOwed, Is
    <3>2. CASE c # e.chat
      <4>1. c \in self.typing
        BY <2>1, <2>2, <3>2
      <4>2. AlbumOwed(c) => AlbumOwed(c)'
        BY <2>2, <2>5 DEF AlbumOwed, InAlbum, Stranger, Is
      <4>3. TaskOwed(c) => TaskOwed(c)'
        BY <1>0, <2>0, <2>3, <3>2, TasksOwe
      <4> QED BY <1>0, <2>3, <4>1, <4>2, <4>3, StillOwed
    <3> QED BY <3>1, <3>2
  <2>7. AlbumsKept'
    <3>1. ASSUME NEW x \in Events, NEW b \in Telegram!Albums, x.id \in ToSet(buffers[b])
          PROVE  x.album = b
      <4>1. CASE b # a
        <5>1. buffers[b] = self.buffers[b]
          BY <1>0, <2>1, <4>1 DEF TelegramSelf
        <5> QED BY <1>0, <3>1, <5>1 DEF AlbumsKept
      <4>2. CASE b = a
        <5>1. buffers[b] = Append(self.buffers[a], e.id) /\ self.buffers[a] \in Seq(Ids) /\ e.id \in Ids
          BY <1>0, <2>1, <4>2, EventIds DEF TelegramSelf
        <5>2. \A n \in Ids : ToSet(Append(self.buffers[a], n)) = ToSet(self.buffers[a]) \cup {n}
          BY <5>1, ElementsAppended
        <5>3. x.id \in ToSet(self.buffers[a]) \/ x.id = e.id
          BY <3>1, <5>1, <5>2
        <5>4. x.id = e.id => x = e
          BY EventsNamed
        <5> QED BY <1>0, <2>0, <4>2, <5>3, <5>4 DEF AlbumsKept
      <4> QED BY <4>1, <4>2
    <3>2. ASSUME NEW x \in Events, NEW f \in flushers, x.id \in ToSet(f.ids)
          PROVE  x.album = f.album
      <4>1. ToSet(<<>>) = {}
        BY DEF ToSet
      <4>2. f # g
        BY <2>4, <3>2, <4>1
      <4> QED BY <1>0, <2>5, <3>2, <4>2 DEF AlbumsKept
    <3> QED BY <2>2, <3>1, <3>2 DEF AlbumsKept
  <2> QED BY <1>0, <2>6, <2>7, TelegramTypingEnds
<1>4. ASSUME NEW t \in tasks, Telegram!Publishes(t)
      PROVE  TypingInv'
  <2>1. /\ HandleMessage(t.ev, <<t.ev.id>>) /\ Ends(t) /\ t.ev \in Events
        /\ UNCHANGED <<self, turns, outbound, snd>>
    BY <1>0, <1>4, TelegramHost DEF Telegram!Publishes, Handlers
  <2>2. ASSUME NEW c \in self'.typing
        PROVE  TaskOwed(c)' \/ HostOwed(c)' \/ SendOwed(c)' \/ AlbumOwed(c)'
    <3>1. HostOwed(c) => HostOwed(c)'
      BY <2>1, PublishingOwes
    <3>2. c = t.ev.chat => HostOwed(c)' \/ AlbumOwed(c)'
      <4>1. c = t.ev.chat /\ t.ev.friend => HostOwed(c)'
        BY <2>1, PublishingOwes
      <4>2. c = t.ev.chat /\ ~t.ev.friend => AlbumOwed(c)'
        BY <1>0, <2>1 DEF AlbumOwed, Stranger, Is
      <4> QED BY <4>1, <4>2
    <3>3. c # t.ev.chat /\ TaskOwed(c) => TaskOwed(c)'
      BY <1>0, <2>1, TasksOwe
    <3> QED BY <1>0, <2>1, <3>1, <3>2, <3>3, StillOwed
  <2> QED BY <1>0, <2>1, <2>2, AlbumsStay, TelegramTypingEnds
<1>5. ASSUME NEW f \in self.flushers, Telegram!FlushTakes(f)
      PROVE  TypingInv'
  <2>0. f \in [album : Telegram!Albums, ids : Seq(Ids)]
    BY <1>0 DEF TelegramSelf
  <2>1. PICK buffers, flushers, g :
          /\ self' = [self EXCEPT !.buffers = buffers, !.flushers = flushers]
          /\ buffers = [self.buffers EXCEPT ![f.album] = <<>>]
          /\ flushers = (self.flushers \ {f}) \cup {g}
          /\ g = [f EXCEPT !.ids = self.buffers[f.album]]
    BY <1>5, Zenon DEF Telegram!FlushTakes
  <2>2. self'.buffers = buffers /\ self'.flushers = flushers /\ self'.typing = self.typing
    BY <1>0, <2>1 DEF TelegramSelf
  <2>3. g.album = f.album /\ g.ids = self.buffers[f.album]
    BY <2>0, <2>1
  <2>4. UNCHANGED <<tasks, inbound, turns, outbound, snd>>
    BY <1>5, TelegramHost DEF Telegram!FlushTakes, host
  <2>5. ASSUME NEW c, AlbumOwed(c) PROVE AlbumOwed(c)'
    <3>1. InAlbum(c) => InAlbum(c)'
      <4>1. ASSUME NEW h \in self.flushers, NEW x \in Events, h.album = x.album, x.chat = c
            PROVE  InAlbum(c)'
        <5>1. CASE h = f
          BY <2>1, <2>2, <2>3, <4>1, <5>1, Zenon DEF InAlbum
        <5>2. CASE h # f
          BY <2>1, <2>2, <4>1, <5>2 DEF InAlbum
        <5> QED BY <5>1, <5>2
      <4> QED BY <4>1 DEF InAlbum
    <3> QED BY <1>0, <2>5, <3>1 DEF AlbumOwed, Stranger, Is
  <2>6. AlbumsKept'
    <3>1. ASSUME NEW x \in Events, NEW b \in Telegram!Albums, x.id \in ToSet(buffers[b])
          PROVE  x.album = b
      <4>1. ToSet(<<>>) = {}
        BY DEF ToSet
      <4>2. b # f.album /\ buffers[b] = self.buffers[b]
        BY <1>0, <2>1, <3>1, <4>1 DEF TelegramSelf
      <4> QED BY <1>0, <3>1, <4>2 DEF AlbumsKept
    <3>2. ASSUME NEW x \in Events, NEW h \in flushers, x.id \in ToSet(h.ids)
          PROVE  x.album = h.album
      <4>1. f.album \in Telegram!Albums
        BY <2>0
      <4>2. CASE h = g
        BY <1>0, <2>3, <3>2, <4>1, <4>2 DEF AlbumsKept
      <4>3. CASE h # g
        BY <1>0, <2>1, <3>2, <4>3 DEF AlbumsKept
      <4> QED BY <4>2, <4>3
    <3> QED BY <2>2, <3>1, <3>2 DEF AlbumsKept
  <2> QED BY <1>0, <2>2, <2>4, <2>5, <2>6, StillOwed, TelegramTypingEnds
<1>6. ASSUME NEW f \in self.flushers, Telegram!FlushPublishes(f)
      PROVE  TypingInv'
  <2>0. f \in [album : Telegram!Albums, ids : Seq(Ids)] /\ f.ids # <<>>
    BY <1>0, <1>6 DEF TelegramSelf, Telegram!FlushPublishes
  <2>1. Head(f.ids) \in Ids /\ Head(f.ids) \in ToSet(f.ids)
    BY <2>0, HeadTailProperties, LenProperties DEF ToSet
  <2>2. PICK e \in Events : e.id = Head(f.ids) /\ HandleMessage(e, f.ids)
    <3>1. PICK e : e = CHOOSE x \in Events : x.id = Head(f.ids)
      OBVIOUS
    <3>2. e \in Events /\ e.id = Head(f.ids)
      BY <2>1, <3>1 DEF Ids
    <3>3. HandleMessage(e, f.ids)
      BY <1>6, <3>1, TelegramHost DEF Telegram!FlushPublishes
    <3> QED BY <3>2, <3>3
  <2>3. e.album = f.album /\ f.album # "none"
    BY <1>0, <2>0, <2>1, <2>2 DEF AlbumsKept, Telegram!Albums
  <2>4. self' = [self EXCEPT !.flushers = self.flushers \ {f}] /\ UNCHANGED <<tasks, turns, outbound, snd>>
    BY <1>6, TelegramHost DEF Telegram!FlushPublishes
  <2>5. self'.buffers = self.buffers /\ self'.typing = self.typing /\ self'.flushers = self.flushers \ {f}
    BY <1>0, <2>4 DEF TelegramSelf
  <2>6. ASSUME NEW c \in self'.typing
        PROVE  TaskOwed(c)' \/ HostOwed(c)' \/ SendOwed(c)' \/ AlbumOwed(c)'
    <3>1. HostOwed(c) => HostOwed(c)'
      BY <2>2, <2>4, PublishingOwes
    <3>2. AlbumOwed(c) => AlbumOwed(c)' \/ HostOwed(c)'
      <4>1. CASE Stranger(c)
        BY <1>0, <4>1 DEF AlbumOwed, Stranger, Is
      <4>2. ASSUME NEW h \in self.flushers, NEW x \in Events, h.album = x.album, x.chat = c, h # f
            PROVE  AlbumOwed(c)'
        <5>1. InAlbum(c)'
          BY <2>5, <4>2 DEF InAlbum
        <5> QED BY <1>0, <5>1 DEF AlbumOwed, Is
      <4>3. ASSUME NEW x \in Events, f.album = x.album, x.chat = c
            PROVE  AlbumOwed(c)' \/ HostOwed(c)'
        <5>1. e.chat = c
          BY <2>3, <4>3, AlbumsInOneChat
        <5>2. e.friend => HostOwed(c)'
          BY <2>2, <2>4, <5>1, PublishingOwes
        <5>3. ~e.friend => AlbumOwed(c)'
          BY <1>0, <5>1 DEF AlbumOwed, Stranger, Is
        <5> QED BY <5>2, <5>3
      <4> QED BY <4>1, <4>2, <4>3 DEF AlbumOwed, InAlbum
    <3> QED BY <1>0, <2>4, <2>5, <3>1, <3>2, StillOwed
  <2>7. AlbumsKept'
    BY <1>0, <2>5 DEF AlbumsKept
  <2> QED BY <1>0, <2>6, <2>7, TelegramTypingEnds
<1>7. CASE Telegram!SendBegins
  <2>1. /\ IF snd.msg.final THEN self' = [self EXCEPT !.typing = self.typing \ {snd.msg.to}] ELSE self' = self
        /\ UNCHANGED <<tasks, inbound, turns, outbound>>
    BY <1>7 DEF Telegram!SendBegins, Telegram!StopTyping
  <2>2. /\ self'.buffers = self.buffers /\ self'.flushers = self.flushers
        /\ self'.typing = IF snd.msg.final THEN self.typing \ {snd.msg.to} ELSE self.typing
    BY <1>0, <2>1, Zenon DEF TelegramSelf
  <2>3. \A c \in self'.typing : c \in self.typing /\ ~SendOwed(c)
    BY <1>0, <2>2 DEF SendOwed, Is
  <2> QED BY <1>0, <2>1, <2>2, <2>3, StillOwed, AlbumsStay, TelegramTypingEnds
<1>8. CASE Telegram!SendFile \/ Telegram!SendNote \/ Telegram!SendText \/ Telegram!SendBroken
  <2>1. ~Doing("begin") /\ UNCHANGED <<self, tasks, inbound, turns, outbound>>
    BY <1>8, TelegramSend DEF Telegram!SendFile, Telegram!SendNote, Telegram!SendText, Telegram!SendBroken, Doing
  <2>2. \A c : ~SendOwed(c)
    BY <1>0, <2>1 DEF SendOwed, Is
  <2> QED BY <1>0, <2>1, <2>2, StillOwed, AlbumsStay, TelegramTypingEnds
<1>9. CASE Host
  BY <1>9, TypingHost
<1> QED BY <1>1, <1>2, <1>3, <1>4, <1>5, <1>6, <1>7, <1>8, <1>9, TelegramHost DEF Telegram!Next

-----------------------------------------------------------------------------
(* The same for Discord and Matrix, whose send ends typing in its last steps.  *)

\* A send that goes on has the steps todo left, for the same message.
LEMMA SendGoes ==
  ASSUME HostOK, Sending, NEW todo, GoesOn(todo) \/ Told(todo) \/ Failed(todo)
  PROVE  snd'.todo = todo /\ snd'.msg = snd.msg
<1>1. snd \in Snd
  BY SendTypes
<1>2. CASE GoesOn(todo)
  BY <1>1, <1>2 DEF GoesOn, Snd
<1>3. CASE Told(todo)
  <2>1. PICK told : snd' = [snd EXCEPT !.todo = todo, !.told = told]
    BY <1>3, Zenon DEF Told
  <2> QED BY <1>1, <2>1 DEF Snd
<1>4. CASE Failed(todo)
  <2>1. PICK failed : snd' = [snd EXCEPT !.todo = todo, !.failed = failed]
    BY <1>4, Zenon DEF Failed
  <2> QED BY <1>1, <2>1 DEF Snd
<1> QED BY <1>2, <1>3, <1>4

\* The end of typing is ahead of it: the steps text and stop lead there.
LEMMA SendOwedOn ==
  ASSUME HostOK, Sending, Is({"discord", "matrix"}), self'.name = self.name,
         NEW todo, GoesOn(todo) \/ Told(todo) \/ Failed(todo),
         NEW c, SendOwed(c), \E s \in ToSet(todo) : s \in {"text", "stop"}
  PROVE  SendOwed(c)'
<1>1. snd'.todo = todo /\ snd'.msg = snd.msg
  BY SendGoes
<1>2. todo # <<>>
  <2>1. ToSet(<<>>) = {}
    BY DEF ToSet
  <2> QED BY <2>1
<1> QED BY <1>1, <1>2 DEF SendOwed, Sending, Is

LEMMA LaterSteps ==
  ASSUME HostOK, Sending
  PROVE  /\ ToSet(snd.todo) = {Head(snd.todo)} \cup ToSet(Left)
         /\ \A s \in Steps : ToSet(<<s>>) = {s} /\ \A q \in Seq(Steps) : ToSet(q \o <<s>>) = ToSet(q) \cup {s}
         /\ ToSet(Files) \subseteq {"file"} /\ Files \in Seq(Steps)
<1>1. snd.todo \in Seq(Steps) /\ snd.todo # <<>>
  BY SendTypes DEF Sending
<1>2. ToSet(snd.todo) = {Head(snd.todo)} \cup ToSet(Left)
  BY <1>1, SetOfQueue DEF Left
<1>3. ASSUME NEW s \in Steps
      PROVE  ToSet(<<s>>) = {s} /\ \A q \in Seq(Steps) : ToSet(q \o <<s>>) = ToSet(q) \cup {s}
  <2>1. PICK b : b = <<s>>
    BY Zenon
  <2>2. b \in Seq(Steps) /\ ToSet(b) = {s}
    BY <2>1, OneElement
  <2>3. \A q \in Seq(Steps) : ToSet(q \o b) = ToSet(q) \cup ToSet(b)
    BY <2>2, SetOfConcat
  <2> QED BY <2>1, <2>2, <2>3
<1>4. ToSet(Files) \subseteq {"file"} /\ Files \in Seq(Steps)
  BY TodoTypes DEF Files, ToSet
<1> QED BY <1>2, <1>3, <1>4

LEMMA GuestTypingEnds ==
  ASSUME Is({"discord", "matrix"}), self'.name = self.name,
         \A t \in tasks' : t.ev.friend,
         Is({"matrix"}) => ("withdraw" \in ToSet(snd'.todo) => snd'.todo = <<"withdraw">>),
         \A c \in self'.typing : TaskOwed(c)' \/ HostOwed(c)' \/ SendOwed(c)'
  PROVE  TypingInv'
BY DEF TypingInv, TypingEnds, Is

\* What the two have in common: the handlers.
LEMMA GuestHandlers ==
  ASSUME HostOK, Is({"discord", "matrix"}), tasks \subseteq Handlers, TypingInv, self'.name = self.name
  PROVE  /\ \A c \in self.typing : TaskOwed(c) \/ HostOwed(c) \/ SendOwed(c)
         /\ \A t \in tasks : t.ev.friend
         /\ Is({"matrix"}) => ("withdraw" \in ToSet(snd.todo) => snd.todo = <<"withdraw">>)
         /\ UNCHANGED host /\ tasks' = tasks /\ self'.typing \subseteq self.typing => TypingInv'
         /\ UNCHANGED host /\ tasks = {} /\ self'.typing \subseteq self.typing /\ (\A t \in tasks' : t.ev.friend)
            => TypingInv'
         /\ \A t \in tasks : \A pc : UNCHANGED host /\ Await(t, pc) /\ self'.typing \subseteq self.typing \cup {t.ev.chat}
            => TypingInv'
         /\ \A t \in tasks : /\ HandleMessage(t.ev, <<t.ev.id>>) /\ Ends(t)
                             /\ UNCHANGED <<turns, outbound, snd>> /\ self'.typing \subseteq self.typing
            => TypingInv'
<1>1. \A c \in self.typing : TaskOwed(c) \/ HostOwed(c) \/ SendOwed(c)
  BY DEF TypingInv, TypingEnds, AlbumOwed, Is
<1>2. \A t \in tasks : t.ev.friend
  BY DEF TypingInv, Is
<1>3. Is({"matrix"}) => ("withdraw" \in ToSet(snd.todo) => snd.todo = <<"withdraw">>)
  BY DEF TypingInv, Is
<1>4. UNCHANGED host => UNCHANGED <<inbound, turns, outbound, snd>>
  BY DEF host
<1>5. ASSUME UNCHANGED host, tasks' = tasks, self'.typing \subseteq self.typing
      PROVE  TypingInv'
  BY <1>1, <1>2, <1>3, <1>4, <1>5, StillOwed, GuestTypingEnds
<1>6. ASSUME UNCHANGED host, tasks = {}, self'.typing \subseteq self.typing, \A t \in tasks' : t.ev.friend
      PROVE  TypingInv'
  <2>1. \A c : ~TaskOwed(c)
    BY <1>6 DEF TaskOwed
  <2> QED BY <1>1, <1>3, <1>4, <1>6, <2>1, StillOwed, GuestTypingEnds
<1>7. ASSUME NEW t \in tasks, NEW pc, UNCHANGED host, Await(t, pc), self'.typing \subseteq self.typing \cup {t.ev.chat}
      PROVE  TypingInv'
  <2>1. (\A c : TaskOwed(c) \/ c = t.ev.chat => TaskOwed(c)') /\ \A u \in tasks' : u.ev.friend
    BY <1>2, <1>7, TasksOwe
  <2> QED BY <1>1, <1>3, <1>4, <1>7, <2>1, StillOwed, GuestTypingEnds
<1>8. ASSUME NEW t \in tasks, HandleMessage(t.ev, <<t.ev.id>>), Ends(t),
             UNCHANGED <<turns, outbound, snd>>, self'.typing \subseteq self.typing
      PROVE  TypingInv'
  <2>1. \A c : TaskOwed(c) /\ c # t.ev.chat => TaskOwed(c)'
    BY <1>8, TasksOwe
  <2>2. \A c : (HostOwed(c) => HostOwed(c)') /\ (c = t.ev.chat => HostOwed(c)')
    <3>1. t.ev \in Events /\ t.ev.friend
      BY <1>2 DEF Handlers
    <3> QED BY <1>8, <3>1, PublishingOwes
  <2>3. \A u \in tasks' : u.ev.friend
    BY <1>2, <1>8 DEF Ends
  <2> QED BY <1>1, <1>3, <1>8, <2>1, <2>2, <2>3, StillOwed, GuestTypingEnds
<1> QED BY <1>1, <1>2, <1>3, <1>5, <1>6, <1>7, <1>8

\* And their sends: of what typing ends with, nothing is lost.
LEMMA GuestSends ==
  ASSUME HostOK, Sending, Is({"discord", "matrix"}), tasks \subseteq Handlers, TypingInv, self'.name = self.name,
         UNCHANGED <<tasks, inbound, turns, outbound>>,
         NEW todo, GoesOn(todo) \/ Told(todo) \/ Failed(todo),
         Is({"matrix"}) => ("withdraw" \in ToSet(todo) => todo = <<"withdraw">>)
  PROVE  /\ self'.typing = self.typing /\ (\E s \in ToSet(todo) : s \in {"text", "stop"}) => TypingInv'
         /\ self'.typing = self.typing /\ (\A c : ~SendOwed(c)) => TypingInv'
         /\ self'.typing = self.typing \ {snd.msg.to} => TypingInv'
<1>1. /\ \A c \in self.typing : TaskOwed(c) \/ HostOwed(c) \/ SendOwed(c)
      /\ \A t \in tasks : t.ev.friend
  BY GuestHandlers
<1>2. snd'.todo = todo
  BY SendGoes
<1>3. ASSUME self'.typing = self.typing, \E s \in ToSet(todo) : s \in {"text", "stop"}
      PROVE  TypingInv'
  <2>1. \A c : SendOwed(c) => SendOwed(c)'
    BY <1>3, SendOwedOn
  <2> QED BY <1>1, <1>2, <1>3, <2>1, StillOwed, GuestTypingEnds
<1>4. ASSUME self'.typing = self.typing, \A c : ~SendOwed(c)
      PROVE  TypingInv'
  BY <1>1, <1>2, <1>4, StillOwed, GuestTypingEnds
<1>5. ASSUME self'.typing = self.typing \ {snd.msg.to}
      PROVE  TypingInv'
  <2>1. \A c \in self'.typing : c \in self.typing /\ ~SendOwed(c)
    BY <1>5 DEF SendOwed
  <2> QED BY <1>1, <1>2, <2>1, StillOwed, GuestTypingEnds
<1> QED BY <1>3, <1>4, <1>5

LEMMA DiscordTyping ==
  ASSUME HostOK, DiscordOK, TypingInv, Discord!Next, self'.name = self.name
  PROVE  TypingInv'
<1>0. Is({"discord", "matrix"}) /\ ~Is({"matrix"}) /\ tasks \subseteq Handlers /\ self \in DiscordSelf
  BY DEF DiscordOK, DiscordSelf, Is
<1>1. CASE Discord!Connect \/ Discord!Hello \/ Discord!HeartbeatFails \/ Discord!GatewayEnds
  <2>1. UNCHANGED host /\ tasks' = tasks
    BY <1>1, DiscordHost DEF Discord!Connect, Discord!Hello, Discord!HeartbeatFails, Discord!GatewayEnds
  <2>2. self'.typing = self.typing
    <3>1. CASE Discord!Connect \/ Discord!GatewayEnds
      BY <1>0, <3>1 DEF Discord!Connect, Discord!GatewayEnds, DiscordSelf
    <3>2. CASE Discord!Hello
      <4>1. PICK ws, beats, botId : self' = [self EXCEPT !.ws = ws, !.beats = beats, !.botId = botId]
        BY <3>2, Zenon DEF Discord!Hello
      <4> QED BY <1>0, <4>1 DEF DiscordSelf
    <3>3. CASE Discord!HeartbeatFails
      <4>1. PICK beats : self' = [self EXCEPT !.beats = beats]
        BY <3>3, Zenon DEF Discord!HeartbeatFails
      <4> QED BY <1>0, <4>1 DEF DiscordSelf
    <3> QED BY <1>1, <3>1, <3>2, <3>3
  <2> QED BY <1>0, <2>1, <2>2, GuestHandlers
<1>2. ASSUME NEW e \in Events, Discord!Missed(e)
      PROVE  TypingInv'
  BY <1>0, <1>2, DiscordHost, GuestHandlers DEF Discord!Missed
<1>3. ASSUME NEW e \in Events, Discord!HandleMessageCreate(e)
      PROVE  TypingInv'
  <2>1. UNCHANGED host /\ tasks = {} /\ self' = self
    BY <1>3, DiscordHost DEF Discord!HandleMessageCreate
  <2>2. \A t \in tasks' : t.ev.friend
    <3>1. PICK v : v = [ev |-> e, pc |-> "download"]
      BY Zenon
    <3>2. v.ev = e /\ tasks' = IF e.friend /\ Discord!ShouldRespond(e) THEN {v} ELSE {}
      BY <1>3, <3>1 DEF Discord!HandleMessageCreate, Discord!IsAllowed
    <3> QED BY <3>2
  <2> QED BY <1>0, <2>1, <2>2, GuestHandlers
<1>4. ASSUME NEW t \in tasks, Discord!Downloaded(t)
      PROVE  TypingInv'
  <2>1. /\ self' = [self EXCEPT !.typing = self.typing \cup {t.ev.chat}]
        /\ Await(t, "publish") /\ UNCHANGED host
    BY <1>4, DiscordHost DEF Discord!Downloaded
  <2>2. self'.typing = self.typing \cup {t.ev.chat}
    BY <1>0, <2>1 DEF DiscordSelf
  <2> QED BY <1>0, <2>1, <2>2, GuestHandlers
<1>5. ASSUME NEW t \in tasks, Discord!Publishes(t)
      PROVE  TypingInv'
  <2>1. /\ HandleMessage(t.ev, <<t.ev.id>>) /\ Ends(t)
        /\ UNCHANGED <<turns, outbound, snd>> /\ self' = self
    BY <1>5, DiscordHost DEF Discord!Publishes
  <2> QED BY <1>0, <2>1, GuestHandlers
<1>6. CASE Discord!SendBegins
  <2>1. PICK todo : todo = Files \o <<"text">>
    BY Zenon
  <2>2. Sending /\ GoesOn(todo) /\ UNCHANGED <<self, tasks, inbound, turns, outbound>>
    BY <1>6, <2>1, DiscordSend DEF Discord!SendBegins, Doing
  <2>3. "text" \in ToSet(todo)
    BY <2>1, <2>2, LaterSteps DEF Steps
  <2> QED BY <1>0, <2>2, <2>3, GuestSends
<1>7. CASE Discord!SendFile
  <2>1. /\ Sending /\ Head(snd.todo) = "file" /\ (Told(Left) \/ Failed(Left))
        /\ UNCHANGED <<self, tasks, inbound, turns, outbound>>
    BY <1>7, DiscordSend DEF Discord!SendFile, Doing
  <2>2. CASE \E s \in ToSet(Left) : s \in {"text", "stop"}
    BY <1>0, <2>1, <2>2, GuestSends
  <2>3. CASE ~\E s \in ToSet(Left) : s \in {"text", "stop"}
    <3>1. \A c : ~SendOwed(c)
      BY <2>1, <2>3, LaterSteps DEF SendOwed, Doing
    <3> QED BY <1>0, <2>1, <3>1, GuestSends
  <2> QED BY <2>2, <2>3
<1>8. CASE Discord!SendText
  <2>a. PICK what \in {<<"chunk1", "chunk2">>, <<"note">>, <<>>} : GoesOn(what \o <<"stop">>)
    BY <1>8, DiscordSend, Zenon DEF Discord!SendText
  <2>1. PICK todo : todo = what \o <<"stop">> /\ GoesOn(todo)
    BY <2>a, Zenon
  <2>2. Sending /\ UNCHANGED <<self, tasks, inbound, turns, outbound>>
    BY <1>8, DiscordSend DEF Discord!SendText, Doing
  <2>3. <<"chunk1", "chunk2">> \in Seq(Steps)
    <3>1. <<"chunk1", "chunk2">> \in [1 .. 2 -> Steps]
      BY DEF Steps
    <3> QED BY <3>1, SeqDef
  <2>4. what \in Seq(Steps)
    BY <2>1, <2>2, <2>3, TodoTypes, Zenon DEF Steps
  <2>5. "stop" \in ToSet(todo)
    BY <2>1, <2>2, <2>4, LaterSteps DEF Steps
  <2> QED BY <1>0, <2>1, <2>2, <2>5, GuestSends
<1>9. CASE Discord!SendPayload
  <2>1. PICK what \in {"chunk1", "chunk2", "note"} : Doing(what) /\ (GoesOn(Left) \/ GoesOn(<<"stop">>))
    BY <1>9, DiscordSend DEF Discord!SendPayload
  <2>2. /\ Sending /\ Head(snd.todo) \notin {"begin", "text", "stop"}
        /\ UNCHANGED <<self, tasks, inbound, turns, outbound>>
    BY <1>9, <2>1 DEF Discord!SendPayload, Doing
  <2>3. CASE GoesOn(<<"stop">>)
    <3>1. PICK todo : todo = <<"stop">>
      BY Zenon
    <3>2. "stop" \in ToSet(todo)
      BY <2>2, <3>1, LaterSteps DEF Steps
    <3> QED BY <1>0, <2>2, <2>3, <3>1, <3>2, GuestSends
  <2>4. CASE GoesOn(Left) /\ \E s \in ToSet(Left) : s \in {"text", "stop"}
    BY <1>0, <2>2, <2>4, GuestSends
  <2>5. CASE GoesOn(Left) /\ ~\E s \in ToSet(Left) : s \in {"text", "stop"}
    <3>1. \A c : ~SendOwed(c)
      BY <2>2, <2>5, LaterSteps DEF SendOwed, Doing
    <3> QED BY <1>0, <2>2, <2>5, <3>1, GuestSends
  <2> QED BY <2>1, <2>3, <2>4, <2>5
<1>10. CASE Discord!StopTyping
  <2>1. /\ Sending /\ GoesOn(Left) /\ self' = [self EXCEPT !.typing = self.typing \ {snd.msg.to}]
        /\ UNCHANGED <<tasks, inbound, turns, outbound>>
    BY <1>10, DiscordSend DEF Discord!StopTyping, Doing
  <2>2. self'.typing = self.typing \ {snd.msg.to}
    BY <1>0, <2>1 DEF DiscordSelf
  <2> QED BY <1>0, <2>1, <2>2, GuestSends
<1>11. CASE Discord!SendTimesOut
  <2>1. PICK todo : todo = <<"stop">>
    BY Zenon
  <2>2. Sending /\ GoesOn(todo) /\ UNCHANGED <<self, tasks, inbound, turns, outbound>>
    BY <1>11, <2>1, DiscordSend DEF Discord!SendTimesOut
  <2>3. "stop" \in ToSet(todo)
    BY <2>1, <2>2, LaterSteps DEF Steps
  <2> QED BY <1>0, <2>2, <2>3, GuestSends
<1>12. CASE Host
  BY <1>12, TypingHost
<1> QED BY <1>1, <1>2, <1>3, <1>4, <1>5, <1>6, <1>7, <1>8, <1>9, <1>10, <1>11, <1>12, DiscordHost DEF Discord!Next

LEMMA MatrixTyping ==
  ASSUME HostOK, MatrixOK, TypingInv, Matrix!Next, self'.name = self.name
  PROVE  TypingInv'
<1>0. Is({"discord", "matrix"}) /\ Is({"matrix"}) /\ tasks \subseteq Handlers /\ self \in MatrixSelf
  BY DEF MatrixOK, MatrixSelf, Is
<1>1. ASSUME NEW c, Matrix!StartTyping(c)
      PROVE  self'.typing \subseteq self.typing
  <2>1. PICK typing, notice : /\ self' = [self EXCEPT !.typing = typing, !.notice = notice]
                              /\ typing = self.typing \ {c}
    BY <1>1, Zenon DEF Matrix!StartTyping
  <2> QED BY <1>0, <2>1 DEF MatrixSelf
<1>2. ASSUME NEW e \in Events, Matrix!OnMessage(e)
      PROVE  TypingInv'
  <2>1. UNCHANGED host /\ tasks = {} /\ self'.typing \subseteq self.typing
    BY <1>1, <1>2, MatrixHost DEF Matrix!OnMessage
  <2>2. \A t \in tasks' : t.ev.friend
    <3>1. PICK v : v = [ev |-> e, pc |-> "typing"]
      BY Zenon
    <3>2. v.ev = e /\ (tasks' = {} \/ (e.friend /\ tasks' = {v}))
      BY <1>2, <3>1 DEF Matrix!OnMessage, Matrix!ShouldProcess, Matrix!IsAllowed
    <3> QED BY <3>2
  <2> QED BY <1>0, <2>1, <2>2, GuestHandlers
<1>3. ASSUME NEW e \in Events, Matrix!OnMediaMessage(e)
      PROVE  TypingInv'
  <2>1. UNCHANGED host /\ tasks = {} /\ self' = self
    BY <1>3, MatrixHost DEF Matrix!OnMediaMessage
  <2>2. \A t \in tasks' : t.ev.friend
    <3>1. PICK v : v = [ev |-> e, pc |-> "download"]
      BY Zenon
    <3>2. v.ev = e /\ (tasks' = {} \/ (e.friend /\ tasks' = {v}))
      BY <1>3, <3>1 DEF Matrix!OnMediaMessage, Matrix!ShouldProcess, Matrix!IsAllowed
    <3> QED BY <3>2
  <2> QED BY <1>0, <2>1, <2>2, GuestHandlers
<1>4. ASSUME NEW t \in tasks, Matrix!Downloaded(t)
      PROVE  TypingInv'
  <2>1. Await(t, "typing") /\ UNCHANGED host /\ self'.typing \subseteq self.typing
    BY <1>1, <1>4, MatrixHost DEF Matrix!Downloaded
  <2> QED BY <1>0, <2>1, GuestHandlers
<1>5. ASSUME NEW t \in tasks, Matrix!KeepsTyping(t)
      PROVE  TypingInv'
  <2>1. /\ self' = [self EXCEPT !.typing = self.typing \cup {t.ev.chat}]
        /\ Await(t, "publish") /\ UNCHANGED host
    BY <1>5, MatrixHost DEF Matrix!KeepsTyping
  <2>2. self'.typing = self.typing \cup {t.ev.chat}
    BY <1>0, <2>1 DEF MatrixSelf
  <2> QED BY <1>0, <2>1, <2>2, GuestHandlers
<1>6. ASSUME NEW t \in tasks, Matrix!Publishes(t)
      PROVE  TypingInv'
  <2>1. /\ HandleMessage(t.ev, <<t.ev.id>>) /\ Ends(t)
        /\ UNCHANGED <<turns, outbound, snd>> /\ self' = self
    BY <1>6, MatrixHost DEF Matrix!Publishes
  <2> QED BY <1>0, <2>1, GuestHandlers
<1>7. ASSUME Sending
      PROVE  "withdraw" \in ToSet(snd.todo) => Head(snd.todo) = "withdraw" /\ Left = <<>>
  <2>1. "withdraw" \in ToSet(snd.todo) => snd.todo = <<"withdraw">>
    BY <1>0, GuestHandlers
  <2>2. Head(<<"withdraw">>) = "withdraw" /\ Tail(<<"withdraw">>) = <<>>
    OBVIOUS
  <2> QED BY <2>1, <2>2, Zenon DEF Left
<1>8. CASE Matrix!SendBegins
  <2>1. PICK todo : todo = Files \o <<"text">>
    BY Zenon
  <2>2. Sending /\ GoesOn(todo) /\ UNCHANGED <<self, tasks, inbound, turns, outbound>>
    BY <1>8, <2>1, MatrixSend DEF Matrix!SendBegins, Doing
  <2>3. "text" \in ToSet(todo) /\ "withdraw" \notin ToSet(todo)
    BY <2>1, <2>2, LaterSteps DEF Steps
  <2> QED BY <1>0, <2>2, <2>3, GuestSends
<1>9. CASE Matrix!SendFile
  <2>1. /\ Sending /\ Head(snd.todo) = "file" /\ (GoesOn(Left) \/ Failed(Left))
        /\ UNCHANGED <<self, tasks, inbound, turns, outbound>>
    BY <1>9, MatrixSend DEF Matrix!SendFile, Doing
  <2>2. "withdraw" \notin ToSet(Left)
    BY <1>7, <2>1, LaterSteps
  <2>3. CASE \E s \in ToSet(Left) : s \in {"text", "stop"}
    BY <1>0, <2>1, <2>2, <2>3, GuestSends
  <2>4. CASE ~\E s \in ToSet(Left) : s \in {"text", "stop"}
    <3>1. \A c : ~SendOwed(c)
      BY <2>1, <2>4, LaterSteps DEF SendOwed, Doing
    <3> QED BY <1>0, <2>1, <2>2, <3>1, GuestSends
  <2> QED BY <2>3, <2>4
<1>10. ASSUME Sending, NEW todo, todo = Matrix!Ending, GoesOn(todo), self' = self,
              UNCHANGED <<tasks, inbound, turns, outbound>>
       PROVE  TypingInv'
  <2>1. CASE snd.msg.final
    <3>1. "stop" \in ToSet(todo) /\ "withdraw" \notin ToSet(todo)
      BY <1>10, <2>1, LaterSteps DEF Matrix!Ending, Steps
    <3> QED BY <1>0, <1>10, <3>1, GuestSends
  <2>2. CASE ~snd.msg.final
    <3>1. \A c : ~SendOwed(c)
      BY <1>0, <2>2 DEF SendOwed, Is
    <3>2. "withdraw" \notin ToSet(todo)
      BY <1>10, <2>2 DEF Matrix!Ending, ToSet
    <3> QED BY <1>0, <1>10, <3>1, <3>2, GuestSends
  <2> QED BY <2>1, <2>2
<1>11. CASE Matrix!SendText
  <2>1. Sending /\ GoesOn(Matrix!Ending) /\ UNCHANGED <<self, tasks, inbound, turns, outbound>>
    BY <1>11, MatrixSend DEF Matrix!SendText, Doing
  <2> QED BY <1>10, <2>1
<1>12. CASE Matrix!StopTyping
  <2>1. PICK todo : todo = <<"withdraw">>
    BY Zenon
  <2>2. /\ Sending /\ GoesOn(todo) /\ self' = [self EXCEPT !.typing = self.typing \ {snd.msg.to}]
        /\ UNCHANGED <<tasks, inbound, turns, outbound>>
    BY <1>12, <2>1, MatrixSend DEF Matrix!StopTyping, Doing
  <2>3. self'.typing = self.typing \ {snd.msg.to}
    BY <1>0, <2>2 DEF MatrixSelf
  <2> QED BY <1>0, <2>1, <2>2, <2>3, GuestSends
<1>13. ASSUME Sending, Head(snd.todo) = "withdraw"
       PROVE  /\ \A c : ~SendOwed(c)
              /\ "withdraw" \notin ToSet(Left) /\ "withdraw" \notin ToSet(<<>>)
  <2>1. ToSet(<<>>) = {}
    BY DEF ToSet
  <2>2. ToSet(snd.todo) = {Head(snd.todo)} \cup ToSet(Left)
    BY <1>13, LaterSteps
  <2>3. Left = <<>>
    BY <1>7, <1>13, <2>2
  <2> QED BY <1>13, <2>1, <2>2, <2>3 DEF SendOwed, Doing
<1>14. CASE Matrix!Withdraw
  <2>1. /\ Sending /\ Head(snd.todo) = "withdraw" /\ GoesOn(Left)
        /\ self' = [self EXCEPT !.notice = self.notice \ {snd.msg.to}]
        /\ UNCHANGED <<tasks, inbound, turns, outbound>>
    BY <1>14, MatrixSend DEF Matrix!Withdraw, Doing
  <2>2. self'.typing = self.typing
    BY <1>0, <2>1 DEF MatrixSelf
  <2> QED BY <1>0, <1>13, <2>1, <2>2, GuestSends
<1>15. CASE Matrix!SendTimesOut
  <2>1. /\ Sending /\ UNCHANGED <<self, tasks, inbound, turns, outbound>>
        /\ GoesOn(Matrix!Ending) \/ (Head(snd.todo) = "withdraw" /\ GoesOn(<<>>))
    BY <1>15, MatrixSend DEF Matrix!SendTimesOut, Doing
  <2>2. CASE GoesOn(Matrix!Ending)
    BY <1>10, <2>1, <2>2
  <2>3. CASE Head(snd.todo) = "withdraw" /\ GoesOn(<<>>)
    <3>1. PICK todo : todo = <<>>
      OBVIOUS
    <3> QED BY <1>0, <1>13, <2>1, <2>3, <3>1, GuestSends
  <2> QED BY <2>1, <2>2, <2>3
<1>16. CASE Host
  BY <1>16, TypingHost
<1> QED BY <1>2, <1>3, <1>4, <1>5, <1>6, <1>8, <1>9, <1>11, <1>12, <1>14, <1>15, <1>16, MatrixHost DEF Matrix!Next

LEMMA TypingUnmoved ==
  ASSUME TypingInv, UNCHANGED vars
  PROVE  TypingInv'
<1>1. UNCHANGED <<self, tasks, inbound, turns, outbound, snd>>
  BY DEF vars
<1>2. \A c : /\ TaskOwed(c) => TaskOwed(c)'
             /\ HostOwed(c) => HostOwed(c)'
             /\ SendOwed(c) => SendOwed(c)'
             /\ AlbumOwed(c) => AlbumOwed(c)'
  BY <1>1, StillOwed
<1>3. Is({"telegram"}) /\ AlbumsKept => AlbumsKept'
  BY <1>1, AlbumsStay
<1> QED BY <1>1, <1>2, <1>3 DEF TypingInv, TypingEnds, Is

\* While a chat sees the bot typing, something that ends it is on its way: in
\* Telegram, Discord and Matrix, for any messages, failures and interleavings. In
\* Telegram a stranger is the exception.
THEOREM TypingAlwaysOwed == Spec => []TypingOwed
<1>1. Init => TypingInv
  <2> SUFFICES ASSUME Init, Is({"telegram", "discord", "matrix"}) PROVE TypingInv
    BY DEF TypingInv
  <2>1. HostInit /\ (Telegram!Init \/ Discord!Init \/ Matrix!Init)
    <3>1. ChannelInv /\ HostInit
      BY ChannelBegins
    <3>2. ~(Feishu!Init \/ DingTalk!Init \/ Email!Init \/ Slack!Init \/ QQ!Init \/ WhatsApp!Init)
      BY DEF Is, Feishu!Init, DingTalk!Init, Email!Init, Slack!Init, QQ!Init, WhatsApp!Init
    <3>3. ~(Wecom!Init \/ WecomSelfbuilt!Init \/ Mochat!Init)
      <4>1. ~Wecom!Init /\ ~WecomSelfbuilt!Init
        BY DEF Is, Wecom!Init, WecomSelfbuilt!Init
      <4>2. ~Mochat!Init
        BY MochatBegins DEF Is, MochatOK, MochatSelf
      <4> QED BY <4>1, <4>2
    <3> QED BY <3>1, <3>2, <3>3 DEF Init
  <2>2. self.typing = {}
    BY <2>1 DEF Telegram!Init, Discord!Init, Matrix!Init
  <2>3. tasks = {} /\ snd.todo = <<>>
    BY <2>1 DEF HostInit, NoSend
  <2>4. ToSet(<<>>) = {}
    BY DEF ToSet
  <2>5. Is({"telegram"}) => AlbumsKept
    <3> SUFFICES ASSUME Is({"telegram"}) PROVE AlbumsKept
      OBVIOUS
    <3>1. Telegram!Init
      BY <2>1 DEF Is, Discord!Init, Matrix!Init
    <3>2. self.buffers = [a \in Telegram!Albums |-> <<>>] /\ self.flushers = {}
      BY <3>1 DEF Telegram!Init
    <3> QED BY <2>4, <3>2 DEF AlbumsKept
  <2> QED BY <2>2, <2>3, <2>4, <2>5 DEF TypingInv, TypingEnds
<1>2. ASSUME ChannelInv, TypingInv, [Next]_vars
      PROVE  TypingInv'
  <2>1. CASE UNCHANGED vars
    BY <1>2, <2>1, TypingUnmoved
  <2>2. CASE Next
    <3>1. self'.name = self.name /\ HostOK /\ AdapterOK
      BY <1>2, <2>2, NameStays DEF ChannelInv
    <3>2. CASE self.name = "telegram"
      BY <1>2, <2>2, <3>1, <3>2, Named, TelegramTyping DEF Next
    <3>3. CASE self.name = "discord"
      BY <1>2, <2>2, <3>1, <3>3, Named, DiscordTyping DEF Next
    <3>4. CASE self.name = "matrix"
      BY <1>2, <2>2, <3>1, <3>4, Named, MatrixTyping DEF Next
    <3>5. CASE ~Is({"telegram", "discord", "matrix"})
      BY <3>1, <3>5 DEF TypingInv, Is
    <3> QED BY <3>2, <3>3, <3>4, <3>5 DEF Is
  <2> QED BY <1>2, <2>1, <2>2
<1>3. ChannelInv /\ TypingInv => TypingOwed
  <2> SUFFICES ASSUME ChannelInv, TypingInv, Is({"telegram", "discord", "matrix"}), NEW c \in self.typing
               PROVE  Owed(c) \/ (Is({"telegram"}) /\ (InAlbum(c) \/ Stranger(c)))
    BY DEF TypingOwed
  <2>1. HostOwed(c) => Owed(c)
    <3>1. ASSUME NEW m \in ToSet(inbound), m.chat = c PROVE Owed(c)
      BY <3>1 DEF ToSet, Owed
    <3>2. ASSUME NEW m \in ToSet(outbound), m.to = c, m.final PROVE Owed(c)
      BY <3>2 DEF ToSet, Owed
    <3> QED BY <3>1, <3>2 DEF HostOwed, Owed
  <2>2. TaskOwed(c) \/ SendOwed(c) => Owed(c)
    BY DEF TaskOwed, SendOwed, Owed
  <2> QED BY <2>1, <2>2 DEF TypingInv, TypingEnds, AlbumOwed
<1> QED BY <1>1, <1>2, <1>3, ChannelInvariant, PTL DEF Spec

-----------------------------------------------------------------------------
(* Each message is published once. In the hands of the handlers H are ids that *)
(* the channel has noted in N, and none of them is in the sequence p of the    *)
(* published ones; the ids of F, which have no number, do not count.           *)

Free == {id \in Ids : Unnumbered(id)}

Single(H, N, p, F) ==
  /\ \A t, u \in H : t.ev.id = u.ev.id => t = u \/ t.ev.id \in F
  /\ \A t \in H : t.ev.id \in F \/ (t.ev.id \in N /\ t.ev.id \notin ToSet(p))
  /\ ToSet(p) \subseteq N \cup F
  /\ \A i, j \in DOMAIN p : p[i] = p[j] => i = j \/ p[i] \in F

Distinct(q) == \A i, j \in DOMAIN q : q[i] = q[j] => i = j
Coming == {id \in Ids : pending[id] > 0}

\* Handlers end, or go on.
LEMMA SingleKept ==
  ASSUME NEW H, NEW N, NEW p, NEW F, Single(H, N, p, F), NEW H2, H2 \subseteq H, NEW N2, N \subseteq N2
  PROVE  Single(H2, N2, p, F)
BY Zenon DEF Single

LEMMA SingleMoves ==
  ASSUME NEW H, NEW N, NEW p, NEW F, Single(H, N, p, F), NEW t \in H, NEW u, u.ev = t.ev
  PROVE  Single((H \ {t}) \cup {u}, N, p, F)
<1>1. \A v \in H : v.ev.id = t.ev.id => v = t \/ v.ev.id \in F
  BY Zenon DEF Single
<1> QED BY <1>1, Zenon DEF Single

\* A message that was not noted comes into the hands of a handler, or none.
LEMMA SingleNoted ==
  ASSUME NEW H, NEW N, NEW p, NEW F, Single(H, N, p, F), NEW u, u.ev.id \notin N,
         NEW H2, H2 \subseteq H \cup {u}, NEW N2, N \cup {u.ev.id} \subseteq N2
  PROVE  Single(H2, N2, p, F)
<1>1. u.ev.id \in F \/ (u.ev.id \notin ToSet(p) /\ \A t \in H : t.ev.id # u.ev.id)
  BY DEF Single
<1>2. u.ev.id \in N2 /\ N \subseteq N2
  OBVIOUS
<1>3. \A t, v \in H2 : t.ev.id = v.ev.id => t = v \/ t.ev.id \in F
  BY <1>1, Zenon DEF Single
<1>4. \A t \in H2 : t.ev.id \in F \/ (t.ev.id \in N2 /\ t.ev.id \notin ToSet(p))
  BY <1>1, <1>2, Zenon DEF Single
<1> QED BY <1>2, <1>3, <1>4, Zenon DEF Single

LEMMA SingleFree ==
  ASSUME NEW H, NEW N, NEW p, NEW F, Single(H, N, p, F), NEW u, u.ev.id \in F
  PROVE  Single(H \cup {u}, N, p, F)
BY Zenon DEF Single

\* What a handler has in hand is published.
LEMMA SinglePublished ==
  ASSUME NEW N, NEW F, NEW p \in Seq(Ids), NEW H, Single(H, N, p, F), NEW t \in H, t.ev.id \in Ids
  PROVE  /\ Single(H \ {t}, N, p \o <<t.ev.id>>, F)
         /\ t.ev.id \in F => Single(H, N, p \o <<t.ev.id>>, F)
<1>1. PICK id \in Ids : id = t.ev.id
  OBVIOUS
<1>2. PICK b : b = <<id>>
  BY Zenon
<1>3. b \in Seq(Ids) /\ Len(b) = 1 /\ ToSet(b) = {id} /\ b[1] = id
  BY <1>2, OneElement
<1>4. PICK q : q = p \o b
  BY Zenon
<1>5. ToSet(q) = ToSet(p) \cup {id}
  <2>0. b \in Seq(Ids)
    BY <1>3
  <2>1. ToSet(p \o b) = ToSet(p) \cup ToSet(b)
    BY <2>0, SetOfConcat
  <2> QED BY <1>3, <1>4, <2>1, Zenon
<1>6. \A i \in DOMAIN q : (i \in DOMAIN p /\ q[i] = p[i]) \/ (i = Len(p) + 1 /\ q[i] = id)
  <2>1. /\ q \in Seq(Ids) /\ Len(q) = Len(p) + 1
        /\ \A i \in 1 .. Len(p) + 1 : q[i] = IF i <= Len(p) THEN p[i] ELSE b[i - Len(p)]
    BY <1>3, <1>4, ConcatProperties
  <2>2. DOMAIN q = 1 .. Len(p) + 1 /\ DOMAIN p = 1 .. Len(p) /\ Len(p) \in Nat
    BY <2>1, LenProperties
  <2>3. ASSUME NEW i \in 1 .. Len(p) + 1 PROVE i \in 1 .. Len(p) \/ (i = Len(p) + 1 /\ ~(i <= Len(p)) /\ i - Len(p) = 1)
    BY <2>2
  <2> QED BY <1>3, <2>1, <2>2, <2>3
<1>7. id \in F \/ (id \in N /\ \A i \in DOMAIN p : p[i] # id)
  BY <1>1, Zenon DEF Single, ToSet
<1>8. \A i, j \in DOMAIN q : q[i] = q[j] => i = j \/ q[i] \in F
  BY <1>6, <1>7, Zenon DEF Single
<1>9. \A v \in H \ {t} : v.ev.id \in F \/ (v.ev.id \in N /\ v.ev.id \notin ToSet(q))
  BY <1>1, <1>5, Zenon DEF Single
<1>10. ToSet(q) \subseteq N \cup F
  BY <1>5, <1>7, Zenon DEF Single
<1>11. Single(H \ {t}, N, q, F)
  BY <1>8, <1>9, <1>10, Zenon DEF Single
<1>12. ASSUME id \in F PROVE Single(H, N, q, F)
  <2>1. \A v \in H : v.ev.id \in F \/ (v.ev.id \in N /\ v.ev.id \notin ToSet(q))
    BY <1>1, <1>9, <1>12, Zenon
  <2> QED BY <1>8, <1>10, <2>1, Zenon DEF Single
<1> QED BY <1>1, <1>2, <1>4, <1>11, <1>12

-----------------------------------------------------------------------------
(* The window of remembered ids loses none while it has room for all that come.*)

LEMMA AllRemembered ==
  ASSUME NEW seen \in Seq(Ids), NEW id \in Ids, NEW heard, heard \subseteq Ids, Cardinality(heard) <= Window,
         ToSet(seen) \cup {id} \subseteq heard, Len(seen) <= Cardinality(ToSet(seen)), ~Knows(seen, id)
  PROVE  /\ ToSet(Remember(seen, id)) = ToSet(seen) \cup {id}
         /\ Len(Remember(seen, id)) <= Cardinality(ToSet(Remember(seen, id)))
<1>1. id \notin ToSet(seen)
  BY DEF Knows, ToSet
<1>2. IsFiniteSet(heard) /\ IsFiniteSet(ToSet(seen)) /\ IsFiniteSet(ToSet(seen) \cup {id})
  BY ElementsAre, IdsFinite
<1>3. Cardinality(ToSet(seen) \cup {id}) = Cardinality(ToSet(seen)) + 1
  BY <1>1, <1>2, FS_AddElement
<1>4. Cardinality(ToSet(seen) \cup {id}) <= Cardinality(heard)
  BY <1>2, FS_Subset
<1>5. PICK s : s = Append(seen, id)
  BY Zenon
<1>6. Len(s) = Len(seen) + 1 /\ ToSet(s) = ToSet(seen) \cup {id}
  BY <1>5, ElementsAppended, AppendProperties
<1>7. /\ Cardinality(ToSet(seen)) \in Nat /\ Cardinality(ToSet(seen) \cup {id}) \in Nat /\ Cardinality(heard) \in Nat
      /\ Len(seen) \in Nat
  BY <1>2, FS_CardinalityType, LenProperties
<1>8. ~(Len(s) > Window)
  BY <1>3, <1>4, <1>6, <1>7, WindowPositive
<1>9. Remember(seen, id) = s
  BY <1>5, <1>8, Zenon DEF Remember
<1>10. ToSet(Remember(seen, id)) = ToSet(seen) \cup {id}
  BY <1>6, <1>9, Zenon
<1>11. Len(Remember(seen, id)) <= Cardinality(ToSet(seen) \cup {id})
  BY <1>3, <1>6, <1>7, <1>9
<1> QED BY <1>10, <1>11, Zenon

\* What may still come; the ids that have come and may still come fit into the
\* window.
LEMMA ComingFewer ==
  ASSUME HostOK
  PROVE  /\ UNCHANGED pending => Coming' = Coming
         /\ \A e \in Events : Arrives(e) => Coming' \subseteq Coming /\ e.id \in Coming
         /\ Host => UNCHANGED pending
<1>1. UNCHANGED pending => Coming' = Coming
  BY DEF Coming
<1>2. ASSUME NEW e \in Events, Arrives(e) PROVE Coming' \subseteq Coming /\ e.id \in Coming
  <2>1. \A n \in 0 .. 2 : n - 1 > 0 => n > 0
    OBVIOUS
  <2>2. \A id \in Ids : pending'[id] > 0 => pending[id] > 0
    BY <1>2, <2>1, EventIds DEF HostOK, Arrives
  <2>3. e.id \in Ids /\ pending[e.id] > 0
    BY <1>2, EventIds DEF Arrives
  <2> QED BY <2>2, <2>3 DEF Coming
<1>3. Host => UNCHANGED pending
  BY Zenon DEF Host, Take, Dispatch, Returns, Superseded, Reports, Answers
<1> QED BY <1>1, <1>2, <1>3

\* The host publishes nothing.
LEMMA HostUnpublished ==
  ASSUME Host
  PROVE  UNCHANGED <<published, self, tasks>>
BY Zenon DEF Host, Take, Dispatch, Returns, Superseded, Reports, Answers

LEMMA PublishedBy ==
  ASSUME NEW e \in Events, HandleMessage(e, <<e.id>>)
  PROVE  published' = published \/ published' = published \o <<e.id>>
BY Zenon DEF HandleMessage

Windowed == {"feishu", "qq", "whatsapp", "wecom", "wecom_selfbuilt"}

SeenOnce ==
  /\ Len(self.seen) <= Cardinality(ToSet(self.seen))
  /\ Cardinality(ToSet(self.seen) \cup Coming) <= Window
  /\ Single(tasks, ToSet(self.seen), published, Free)

LEMMA FreeStays ==
  ASSUME self'.name = self.name
  PROVE  Free' = Free
BY Zenon DEF Free, Unnumbered, Is

LEMMA WindowStays ==
  ASSUME HostOK, self.seen \in Seq(Ids), Cardinality(ToSet(self.seen) \cup Coming) <= Window,
         NEW ids, ids \subseteq ToSet(self.seen) \cup Coming
  PROVE  Cardinality(ids) <= Window
<1>1. ToSet(self.seen) \cup Coming \subseteq Ids
  BY ElementsAre DEF Coming
<1>2. IsFiniteSet(ToSet(self.seen) \cup Coming) /\ IsFiniteSet(ids)
  BY <1>1, IdsFinite, FS_Subset
<1>3. Cardinality(ids) <= Cardinality(ToSet(self.seen) \cup Coming)
  BY <1>2, FS_Subset
<1> QED BY <1>2, <1>3, FS_CardinalityType, WindowPositive

\* The ids that are noted stay the same.
LEMMA SeenStays ==
  ASSUME HostOK, self.seen \in Seq(Ids), SeenOnce, self'.seen = self.seen, self'.name = self.name,
         UNCHANGED pending \/ \E e \in Events : Arrives(e), Single(tasks', ToSet(self.seen), published', Free)
  PROVE  SeenOnce'
<1>1. Coming' \subseteq Coming
  BY ComingFewer
<1>2. Cardinality(ToSet(self.seen) \cup Coming') <= Window
  BY <1>1, WindowStays DEF SeenOnce
<1>3. Free' = Free
  BY FreeStays
<1> QED BY <1>2, <1>3 DEF SeenOnce

LEMMA SeenEnds ==
  ASSUME HostOK, self.seen \in Seq(Ids), SeenOnce, self'.seen = self.seen, self'.name = self.name,
         UNCHANGED pending \/ \E e \in Events : Arrives(e), tasks' \subseteq tasks, UNCHANGED published
  PROVE  SeenOnce'
<1>1. Single(tasks', ToSet(self.seen), published, Free)
  BY SingleKept DEF SeenOnce
<1> QED BY <1>1, SeenStays

LEMMA SeenMoves ==
  ASSUME HostOK, self.seen \in Seq(Ids), SeenOnce, self'.seen = self.seen, self'.name = self.name,
         UNCHANGED <<pending, published>>, NEW t \in tasks, \E pc : Await(t, pc), tasks \subseteq Handlers
  PROVE  SeenOnce'
<1>1. PICK pc : tasks' = (tasks \ {t}) \cup {[t EXCEPT !.pc = pc]}
  BY DEF Await
<1>2. PICK u : u = [t EXCEPT !.pc = pc]
  BY Zenon
<1>3. u.ev = t.ev
  BY <1>2 DEF Handlers
<1>4. Single(tasks', ToSet(self.seen), published, Free)
  BY <1>1, <1>2, <1>3, SingleMoves DEF SeenOnce
<1> QED BY <1>4, SeenStays

\* A message with a new id is noted; a handler may start.
LEMMA SeenNotes ==
  ASSUME HostOK, self.seen \in Seq(Ids), SeenOnce, self'.name = self.name, NEW e \in Events, Arrives(e),
         ~Knows(self.seen, e.id), self'.seen = Remember(self.seen, e.id), UNCHANGED published,
         NEW u, u.ev = e, tasks' \subseteq tasks \cup {u}
  PROVE  SeenOnce'
<1>1. e.id \in Ids /\ e.id \in Coming /\ Coming' \subseteq Coming
  BY EventIds, ComingFewer
<1>2. /\ ToSet(self.seen) \cup {e.id} \subseteq ToSet(self.seen) \cup Coming
      /\ ToSet(self.seen) \cup Coming \subseteq Ids
  BY <1>1, ElementsAre DEF Coming
<1>3. /\ ToSet(self'.seen) = ToSet(self.seen) \cup {e.id}
      /\ Len(self'.seen) <= Cardinality(ToSet(self'.seen))
  BY <1>1, <1>2, AllRemembered DEF SeenOnce
<1>4. Cardinality(ToSet(self'.seen) \cup Coming') <= Window
  BY <1>1, <1>3, WindowStays DEF SeenOnce
<1>5. e.id \notin ToSet(self.seen)
  BY DEF Knows, ToSet
<1>6. Single(tasks', ToSet(self'.seen), published, Free)
  BY <1>3, <1>5, SingleNoted DEF SeenOnce
<1>7. Free' = Free
  BY FreeStays
<1> QED BY <1>3, <1>4, <1>6, <1>7 DEF SeenOnce

\* A handler publishes its message and ends; one whose message has no number may
\* go on.
LEMMA SeenPublishes ==
  ASSUME HostOK, self.seen \in Seq(Ids), SeenOnce, UNCHANGED <<self, pending>>, tasks \subseteq Handlers,
         NEW t \in tasks, published' = published \/ published' = published \o <<t.ev.id>>,
         Ends(t) \/ (t.ev.id \in Free /\ \E pc : Await(t, pc))
  PROVE  SeenOnce'
<1>1. t.ev.id \in Ids /\ published \in Seq(Ids)
  BY HandlerMoves DEF HostOK
<1>2. /\ Single(tasks \ {t}, ToSet(self.seen), published', Free)
      /\ t.ev.id \in Free => Single(tasks, ToSet(self.seen), published', Free)
  <2>1. CASE published' = published
    BY <2>1, SingleKept DEF SeenOnce
  <2>2. CASE published' = published \o <<t.ev.id>>
    BY <1>1, <2>2, SinglePublished DEF SeenOnce
  <2> QED BY <2>1, <2>2
<1>3. CASE Ends(t)
  BY <1>2, <1>3, SeenStays DEF Ends
<1>4. CASE t.ev.id \in Free /\ \E pc : Await(t, pc)
  <2>1. PICK pc : tasks' = (tasks \ {t}) \cup {[t EXCEPT !.pc = pc]}
    BY <1>4 DEF Await
  <2>2. PICK u : u = [t EXCEPT !.pc = pc]
    BY Zenon
  <2>3. u.ev = t.ev
    BY <2>2 DEF Handlers
  <2>4. Single(tasks', ToSet(self.seen), published', Free)
    BY <1>2, <1>4, <2>1, <2>2, <2>3, SingleMoves
  <2> QED BY <2>4, SeenStays
<1> QED BY <1>3, <1>4

-----------------------------------------------------------------------------
(* The adapters that remember ids.                                         *)

LEMMA FeishuOnce ==
  ASSUME HostOK, FeishuOK, Feishu!Next, self'.name = self.name, SeenOnce
  PROVE  SeenOnce'
<1>0. self \in FeishuSelf /\ tasks \subseteq Handlers /\ self.seen \in Seq(Ids)
  BY DEF FeishuOK, FeishuSelf
<1>1. CASE Host
  BY <1>0, <1>1, ComingFewer, HostUnpublished, SeenEnds
<1>2. ASSUME NEW e \in Events, Feishu!OnMessage(e)
      PROVE  SeenOnce'
  <2>1. Arrives(e) /\ UNCHANGED published
    BY <1>2, FeishuHost DEF Feishu!OnMessage, host
  <2>2. CASE Knows(self.seen, e.id)
    <3>1. UNCHANGED <<self, tasks>>
      BY <1>2, <2>2, FeishuHost, Zenon DEF Feishu!OnMessage
    <3> QED BY <1>0, <2>1, <3>1, SeenEnds
  <2>3. CASE ~Knows(self.seen, e.id)
    <3>1. PICK u : u = [ev |-> e, pc |-> "react"]
      BY Zenon
    <3>2. /\ self' = [self EXCEPT !.seen = Remember(self.seen, e.id)]
          /\ tasks' \in {tasks, tasks \cup {u}}
      BY <1>2, <2>3, <3>1, FeishuHost, Zenon DEF Feishu!OnMessage
    <3>3. self'.seen = Remember(self.seen, e.id) /\ tasks' \subseteq tasks \cup {u} /\ u.ev = e
      BY <1>0, <3>1, <3>2 DEF FeishuSelf
    <3> QED BY <1>0, <2>1, <2>3, <3>3, SeenNotes
  <2> QED BY <2>2, <2>3
<1>3. ASSUME NEW t \in tasks, Feishu!AddReaction(t) \/ Feishu!Downloaded(t) \/ Feishu!Quoted(t)
      PROVE  SeenOnce'
  <2>1. UNCHANGED <<self, pending, published>> /\ (Ends(t) \/ \E pc : Await(t, pc))
    BY <1>3, FeishuHost DEF Feishu!AddReaction, Feishu!Downloaded, Feishu!Quoted, host
  <2> QED BY <1>0, <2>1, SeenEnds, SeenMoves DEF Ends
<1>4. ASSUME NEW t \in tasks, Feishu!Publishes(t)
      PROVE  SeenOnce'
  <2>1. HandleMessage(t.ev, <<t.ev.id>>) /\ Ends(t) /\ UNCHANGED <<self, pending>>
    BY <1>4, FeishuHost DEF Feishu!Publishes
  <2> QED BY <1>0, <2>1, HandlerMoves, PublishedBy, SeenPublishes
<1>5. CASE \/ Feishu!SendBegins \/ Feishu!PassOver \/ Feishu!DoSend \/ Feishu!SendTimesOut
           \/ \E th \in self.threads : Feishu!ThreadDone(th)
  <2>1. UNCHANGED <<tasks, pending, published>>
    BY <1>5 DEF Feishu!SendBegins, Feishu!PassOver, Feishu!DoSend, Feishu!SendTimesOut, Feishu!ThreadDone
  <2>2. self' = self \/ \E threads : self' = [self EXCEPT !.threads = threads]
    BY <1>5, Zenon DEF Feishu!SendBegins, Feishu!PassOver, Feishu!DoSend, Feishu!SendTimesOut, Feishu!ThreadDone
  <2>3. self'.seen = self.seen
    BY <1>0, <2>2 DEF FeishuSelf
  <2> QED BY <1>0, <2>1, <2>3, SeenEnds
<1> QED BY <1>1, <1>2, <1>3, <1>4, <1>5, FeishuHost DEF Feishu!Next

LEMMA QQOnce ==
  ASSUME HostOK, QQOK, QQ!Next, self'.name = self.name, SeenOnce
  PROVE  SeenOnce'
<1>0. self \in QQSelf /\ tasks \subseteq Handlers /\ self.seen \in Seq(Ids)
  BY DEF QQOK, QQSelf
<1>1. CASE Host
  BY <1>0, <1>1, ComingFewer, HostUnpublished, SeenEnds
<1>2. ASSUME NEW e \in Events, QQ!OnMessage(e)
      PROVE  SeenOnce'
  <2>1. Arrives(e) /\ UNCHANGED published
    BY <1>2, QQHost DEF QQ!OnMessage, host
  <2>2. CASE Knows(self.seen, e.id)
    <3>1. UNCHANGED <<self, tasks>>
      BY <1>2, <2>2, QQHost, Zenon DEF QQ!OnMessage
    <3> QED BY <1>0, <2>1, <3>1, SeenEnds
  <2>3. CASE ~Knows(self.seen, e.id)
    <3>1. PICK u : u = [ev |-> e, pc |-> "publish"]
      BY Zenon
    <3>2. /\ \/ \E groups : self' = [self EXCEPT !.seen = Remember(self.seen, e.id), !.groups = groups]
             \/ self' = [self EXCEPT !.seen = Remember(self.seen, e.id)]
          /\ tasks' \in {tasks, tasks \cup {u}}
      BY <1>2, <2>3, <3>1, QQHost, Zenon DEF QQ!OnMessage
    <3>3. self'.seen = Remember(self.seen, e.id) /\ tasks' \subseteq tasks \cup {u} /\ u.ev = e
      BY <1>0, <3>1, <3>2 DEF QQSelf
    <3> QED BY <1>0, <2>1, <2>3, <3>3, SeenNotes
  <2> QED BY <2>2, <2>3
<1>3. ASSUME NEW t \in tasks, QQ!Publishes(t)
      PROVE  SeenOnce'
  <2>1. HandleMessage(t.ev, <<t.ev.id>>) /\ Ends(t) /\ UNCHANGED <<self, pending>>
    BY <1>3, QQHost DEF QQ!Publishes
  <2> QED BY <1>0, <2>1, HandlerMoves, PublishedBy, SeenPublishes
<1>4. CASE QQ!SendBegins \/ QQ!PostMessage
  <2>1. UNCHANGED <<tasks, pending, published>>
    BY <1>4 DEF QQ!SendBegins, QQ!PostMessage
  <2>2. self' = self \/ \E msgSeq : self' = [self EXCEPT !.msgSeq = msgSeq]
    BY <1>4, Zenon DEF QQ!SendBegins, QQ!PostMessage
  <2>3. self'.seen = self.seen
    BY <1>0, <2>2 DEF QQSelf
  <2> QED BY <1>0, <2>1, <2>3, SeenEnds
<1> QED BY <1>1, <1>2, <1>3, <1>4, QQHost DEF QQ!Next

LEMMA WhatsAppOnce ==
  ASSUME HostOK, WhatsAppOK, WhatsApp!Next, self'.name = self.name, SeenOnce
  PROVE  SeenOnce'
<1>0. self \in WhatsAppSelf /\ tasks \subseteq Handlers /\ self.seen \in Seq(Ids)
  BY DEF WhatsAppOK, WhatsAppSelf
<1>1. CASE Host
  BY <1>0, <1>1, ComingFewer, HostUnpublished, SeenEnds
<1>2. CASE WhatsApp!Connect \/ WhatsApp!BridgeCloses \/ (\E up \in BOOLEAN : WhatsApp!BridgeStatus(up)) \/ WhatsApp!Send
  <2>1. UNCHANGED <<tasks, pending, published>>
    BY <1>2, WhatsAppHost DEF WhatsApp!Connect, WhatsApp!BridgeCloses, WhatsApp!BridgeStatus, WhatsApp!Send, host
  <2>2. \/ self' = self
        \/ \E ws, connected : self' = [self EXCEPT !.ws = ws, !.connected = connected]
        \/ \E ws : self' = [self EXCEPT !.ws = ws]
        \/ \E connected : self' = [self EXCEPT !.connected = connected]
    BY <1>2, Zenon DEF WhatsApp!Connect, WhatsApp!BridgeCloses, WhatsApp!BridgeStatus, WhatsApp!Send
  <2>3. self'.seen = self.seen
    BY <1>0, <2>2 DEF WhatsAppSelf
  <2> QED BY <1>0, <2>1, <2>3, SeenEnds
<1>3. ASSUME NEW e \in Events, WhatsApp!HandleBridgeMessage(e)
      PROVE  SeenOnce'
  <2>1. Arrives(e) /\ UNCHANGED published /\ tasks = {}
    BY <1>3, WhatsAppHost DEF WhatsApp!HandleBridgeMessage, host
  <2>2. CASE Knows(self.seen, e.id)
    <3>1. UNCHANGED <<self, tasks>>
      BY <1>3, <2>2, WhatsAppHost, Zenon DEF WhatsApp!HandleBridgeMessage
    <3> QED BY <1>0, <2>1, <3>1, SeenEnds
  <2>3. CASE ~Knows(self.seen, e.id)
    <3>1. PICK u : u = [ev |-> e, pc |-> "publish"]
      BY Zenon
    <3>2. self' = [self EXCEPT !.seen = Remember(self.seen, e.id)] /\ tasks' = {u}
      BY <1>3, <2>3, <3>1, WhatsAppHost, Zenon DEF WhatsApp!HandleBridgeMessage
    <3>3. self'.seen = Remember(self.seen, e.id) /\ tasks' \subseteq tasks \cup {u} /\ u.ev = e
      BY <1>0, <3>1, <3>2 DEF WhatsAppSelf
    <3> QED BY <1>0, <2>1, <2>3, <3>3, SeenNotes
  <2> QED BY <2>2, <2>3
<1>4. ASSUME NEW t \in tasks, WhatsApp!Publishes(t)
      PROVE  SeenOnce'
  <2>1. HandleMessage(t.ev, <<t.ev.id>>) /\ Ends(t) /\ UNCHANGED <<self, pending>>
    BY <1>4, WhatsAppHost DEF WhatsApp!Publishes
  <2> QED BY <1>0, <2>1, HandlerMoves, PublishedBy, SeenPublishes
<1> QED BY <1>1, <1>2, <1>3, <1>4, WhatsAppHost DEF WhatsApp!Next

LEMMA WecomOnce ==
  ASSUME HostOK, WecomOK, Wecom!Next, self'.name = self.name, SeenOnce
  PROVE  SeenOnce'
<1>0. self \in WecomSelf /\ tasks \subseteq Handlers /\ self.seen \in Seq(Ids)
  BY DEF WecomOK, WecomSelf
<1>1. CASE Host
  BY <1>0, <1>1, ComingFewer, HostUnpublished, SeenEnds
<1>2. ASSUME NEW e \in Events, Wecom!ProcessMessage(e)
      PROVE  SeenOnce'
  <2>1. Arrives(e) /\ UNCHANGED published
    BY <1>2, WecomHost DEF Wecom!ProcessMessage, host
  <2>2. CASE Knows(self.seen, e.id)
    <3>1. UNCHANGED <<self, tasks>>
      BY <1>2, <2>2, WecomHost, Zenon DEF Wecom!ProcessMessage
    <3> QED BY <1>0, <2>1, <3>1, SeenEnds
  <2>3. CASE ~Knows(self.seen, e.id)
    <3>1. PICK u : u = [ev |-> e, pc |-> "download"]
      BY Zenon
    <3>2. self' = [self EXCEPT !.seen = Remember(self.seen, e.id)] /\ tasks' = tasks \cup {u}
      BY <1>2, <2>3, <3>1, WecomHost, Zenon DEF Wecom!ProcessMessage
    <3>3. self'.seen = Remember(self.seen, e.id) /\ tasks' \subseteq tasks \cup {u} /\ u.ev = e
      BY <1>0, <3>1, <3>2 DEF WecomSelf
    <3> QED BY <1>0, <2>1, <2>3, <3>3, SeenNotes
  <2> QED BY <2>2, <2>3
<1>3. ASSUME NEW t \in tasks, Wecom!Downloaded(t)
      PROVE  SeenOnce'
  <2>1. UNCHANGED <<pending, published>> /\ (Ends(t) \/ \E pc : Await(t, pc))
    BY <1>3, WecomHost DEF Wecom!Downloaded, host
  <2>2. self' = self \/ \E frames : self' = [self EXCEPT !.frames = frames]
    BY <1>3, Zenon DEF Wecom!Downloaded
  <2>3. self'.seen = self.seen
    BY <1>0, <2>2 DEF WecomSelf
  <2> QED BY <1>0, <2>1, <2>3, SeenEnds, SeenMoves DEF Ends
<1>4. ASSUME NEW t \in tasks, Wecom!Publishes(t)
      PROVE  SeenOnce'
  <2>1. HandleMessage(t.ev, <<t.ev.id>>) /\ Ends(t) /\ UNCHANGED <<self, pending>>
    BY <1>4, WecomHost DEF Wecom!Publishes
  <2> QED BY <1>0, <2>1, HandlerMoves, PublishedBy, SeenPublishes
<1>5. CASE Wecom!Send
  <2>1. UNCHANGED <<self, tasks, pending, published>>
    BY <1>5 DEF Wecom!Send
  <2> QED BY <1>0, <2>1, SeenEnds
<1> QED BY <1>1, <1>2, <1>3, <1>4, <1>5, WecomHost DEF Wecom!Next

LEMMA WecomSelfbuiltOnce ==
  ASSUME HostOK, WecomSelfbuiltOK, WecomSelfbuilt!Next, self'.name = self.name, SeenOnce
  PROVE  SeenOnce'
<1>0. self \in WecomSelfbuiltSelf /\ tasks \subseteq Handlers /\ self.seen \in Seq(Ids)
  BY DEF WecomSelfbuiltOK, WecomSelfbuiltSelf
<1>1. CASE Host
  BY <1>0, <1>1, ComingFewer, HostUnpublished, SeenEnds
<1>2. \A e \in Events : e.command => e.id \in Free
  BY <1>0, EventIds DEF Free, Unnumbered, Is, WecomSelfbuiltSelf
<1>3. ASSUME NEW e \in Events, WecomSelfbuilt!HandleCallback(e)
      PROVE  SeenOnce'
  <2>0. Arrives(e) /\ UNCHANGED published
    BY <1>3, WecomSelfbuiltHost DEF WecomSelfbuilt!HandleCallback, host
  <2>1. PICK u : u = [ev |-> e, pc |-> "publish"]
    BY Zenon
  <2>2. \/ UNCHANGED <<self, tasks>>
        \/ /\ ~Knows(self.seen, e.id)
           /\ self' = [self EXCEPT !.seen = Remember(self.seen, e.id)] /\ tasks' \in {tasks, tasks \cup {u}}
        \/ e.command /\ tasks' = tasks \cup {u} /\ UNCHANGED self
    BY <1>3, <2>1, WecomSelfbuiltHost, Zenon DEF WecomSelfbuilt!HandleCallback
  <2>3. CASE UNCHANGED <<self, tasks>>
    BY <1>0, <2>0, <2>3, SeenEnds
  <2>4. CASE /\ ~Knows(self.seen, e.id)
             /\ self' = [self EXCEPT !.seen = Remember(self.seen, e.id)] /\ tasks' \in {tasks, tasks \cup {u}}
    <3>1. self'.seen = Remember(self.seen, e.id) /\ tasks' \subseteq tasks \cup {u} /\ u.ev = e
      BY <1>0, <2>1, <2>4 DEF WecomSelfbuiltSelf
    <3> QED BY <1>0, <2>0, <2>4, <3>1, SeenNotes
  <2>5. CASE e.command /\ tasks' = tasks \cup {u} /\ UNCHANGED self
    <3>1. u.ev.id \in Free
      BY <1>2, <2>1, <2>5
    <3>2. Single(tasks', ToSet(self.seen), published', Free)
      BY <2>0, <2>5, <3>1, SingleFree DEF SeenOnce
    <3> QED BY <1>0, <2>0, <2>5, <3>2, SeenStays
  <2> QED BY <2>2, <2>3, <2>4, <2>5
<1>4. ASSUME NEW t \in tasks, WecomSelfbuilt!Publishes(t)
      PROVE  SeenOnce'
  <2>1. /\ published' = Append(published, t.ev.id) /\ UNCHANGED <<self, pending>>
        /\ IF t.ev.command THEN Await(t, "welcome") ELSE Ends(t)
    BY <1>4, WecomSelfbuiltHost DEF WecomSelfbuilt!Publishes
  <2>2. published' = published \o <<t.ev.id>>
    BY <1>0, <2>1, HandlerMoves, AppendIsConcat DEF HostOK
  <2>3. Ends(t) \/ (t.ev.id \in Free /\ \E pc : Await(t, pc))
    BY <1>0, <1>2, <2>1, HandlerMoves, Zenon
  <2> QED BY <1>0, <2>1, <2>2, <2>3, SeenPublishes
<1>5. ASSUME NEW t \in tasks, WecomSelfbuilt!Welcomes(t)
      PROVE  SeenOnce'
  <2>1. UNCHANGED <<pending, published>> /\ tasks' \subseteq tasks
    BY <1>5, WecomSelfbuiltHost DEF WecomSelfbuilt!Welcomes, Ends, host
  <2>2. self' = self \/ \E age : self' = [self EXCEPT !.age = age]
    BY <1>5, Zenon DEF WecomSelfbuilt!Welcomes
  <2>3. self'.seen = self.seen
    BY <1>0, <2>2 DEF WecomSelfbuiltSelf
  <2> QED BY <1>0, <2>1, <2>3, SeenEnds
<1>6. CASE \/ WecomSelfbuilt!Tick \/ WecomSelfbuilt!SendBegins \/ WecomSelfbuilt!PostMessage
           \/ WecomSelfbuilt!SendTimesOut
  <2>1. UNCHANGED <<tasks, pending, published>>
    BY <1>6, WecomSelfbuiltHost DEF WecomSelfbuilt!Tick, WecomSelfbuilt!SendBegins, WecomSelfbuilt!PostMessage,
       WecomSelfbuilt!SendTimesOut, host
  <2>2. \/ self' = self
        \/ \E age, held, spent : self' = [self EXCEPT !.age = age, !.held = held, !.spent = spent]
        \/ \E held, spent : self' = [self EXCEPT !.held = held, !.spent = spent]
    BY <1>6, Zenon DEF WecomSelfbuilt!Tick, WecomSelfbuilt!SendBegins, WecomSelfbuilt!PostMessage,
       WecomSelfbuilt!SendTimesOut, WecomSelfbuilt!GetAccessToken, WecomSelfbuilt!FetchToken
  <2>3. self'.seen = self.seen
    BY <1>0, <2>2 DEF WecomSelfbuiltSelf
  <2> QED BY <1>0, <2>1, <2>3, SeenEnds
<1> QED BY <1>1, <1>3, <1>4, <1>5, <1>6, WecomSelfbuiltHost DEF WecomSelfbuilt!Next

-----------------------------------------------------------------------------
(* Sequences without a repetition.                                         *)

LEMMA DistinctShort ==
  /\ Distinct(<<>>)
  /\ \A S : \A x \in S : Distinct(<<x>>)
<1>1. Distinct(<<>>)
  BY DEF Distinct
<1>2. ASSUME NEW S, NEW x \in S PROVE Distinct(<<x>>)
  <2>1. PICK b : b = <<x>>
    BY Zenon
  <2>2. b \in Seq(S) /\ Len(b) = 1
    BY <2>1, OneElement
  <2>3. DOMAIN b = 1 .. 1
    BY <2>2, LenProperties
  <2>4. \A i, j \in DOMAIN b : i = j
    BY <2>3
  <2> QED BY <2>1, <2>4, Zenon DEF Distinct
<1> QED BY <1>1, <1>2

LEMMA DistinctConcat ==
  ASSUME NEW S, NEW a \in Seq(S), NEW b \in Seq(S), Distinct(a), Distinct(b), ToSet(a) \cap ToSet(b) = {}
  PROVE  Distinct(a \o b)
<1>1. PICK q : q = a \o b
  BY Zenon
<1>2. /\ q \in Seq(S) /\ Len(q) = Len(a) + Len(b)
      /\ \A i \in 1 .. Len(a) + Len(b) : q[i] = IF i <= Len(a) THEN a[i] ELSE b[i - Len(a)]
  BY <1>1, ConcatProperties
<1>3. /\ DOMAIN a = 1 .. Len(a) /\ DOMAIN b = 1 .. Len(b) /\ DOMAIN q = 1 .. Len(a) + Len(b)
      /\ Len(a) \in Nat /\ Len(b) \in Nat
  BY <1>2, LenProperties
<1>4. \A i \in DOMAIN q : \/ i \in DOMAIN a /\ q[i] = a[i]
                          \/ \E k \in DOMAIN b : i = Len(a) + k /\ q[i] = b[k]
  <2>1. SUFFICES ASSUME NEW i \in 1 .. Len(a) + Len(b)
                 PROVE  \/ i \in 1 .. Len(a) /\ q[i] = a[i]
                        \/ \E k \in 1 .. Len(b) : i = Len(a) + k /\ q[i] = b[k]
    BY <1>3
  <2>2. i <= Len(a) => i \in 1 .. Len(a)
    BY <1>3
  <2>3. ~(i <= Len(a)) => i - Len(a) \in 1 .. Len(b) /\ i = Len(a) + (i - Len(a))
    BY <1>3
  <2> QED BY <1>2, <2>2, <2>3, Zenon
<1>5. \A i \in DOMAIN a : \A k \in DOMAIN b : a[i] # b[k]
  BY Zenon DEF ToSet
<1>6. \A i, j \in DOMAIN q : q[i] = q[j] => i = j
  BY <1>4, <1>5, Zenon DEF Distinct
<1> QED BY <1>1, <1>6, Zenon DEF Distinct

LEMMA DistinctAppend ==
  ASSUME NEW S, NEW a \in Seq(S), NEW x \in S, Distinct(a), x \notin ToSet(a)
  PROVE  Distinct(Append(a, x))
<1>1. PICK b : b = <<x>>
  BY Zenon
<1>2. b \in Seq(S) /\ ToSet(b) = {x} /\ Distinct(b)
  BY <1>1, OneElement, DistinctShort
<1>3. Append(a, x) = a \o b
  BY <1>1, AppendIsConcat
<1>4. ToSet(a) \cap ToSet(b) = {}
  BY <1>2
<1>5. Distinct(a \o b)
  BY <1>2, <1>4, DistinctConcat
<1> QED BY <1>3, <1>5

LEMMA DistinctTail ==
  ASSUME NEW S, NEW q \in Seq(S), q # <<>>, Distinct(q)
  PROVE  Distinct(Tail(q)) /\ ToSet(Tail(q)) \subseteq ToSet(q) \ {Head(q)}
<1>1. PICK r : r = Tail(q)
  BY Zenon
<1>2. /\ r \in Seq(S) /\ Len(r) = Len(q) - 1 /\ Head(q) = q[1] /\ Len(q) \in Nat \ {0}
      /\ \A i \in 1 .. Len(r) : r[i] = q[i + 1]
  BY <1>1, HeadTailProperties, EmptySeq, LenProperties
<1>3. DOMAIN q = 1 .. Len(q) /\ DOMAIN r = 1 .. Len(q) - 1
  BY <1>2, LenProperties
<1>4. \A i \in DOMAIN r : i + 1 \in DOMAIN q /\ r[i] = q[i + 1] /\ i + 1 # 1
  BY <1>2, <1>3
<1>5. \A i, j \in DOMAIN r : i + 1 = j + 1 => i = j
  BY <1>3
<1>6. 1 \in DOMAIN q
  BY <1>2, <1>3
<1>7. \A i, j \in DOMAIN r : r[i] = r[j] => i = j
  BY <1>4, <1>5, Zenon DEF Distinct
<1>8. \A i \in DOMAIN r : r[i] \in ToSet(q) /\ r[i] # Head(q)
  BY <1>2, <1>4, <1>6, Zenon DEF Distinct, ToSet
<1> QED BY <1>1, <1>7, <1>8, Zenon DEF Distinct, ToSet

-----------------------------------------------------------------------------
(* Email: the uids that are processed, and the messages of a poll.         *)

EmailNoted == {e.id : e \in {f \in Events : f.uid \in self.processed}}
EmailHands == {[ev |-> e] : e \in ToSet(self.got)}
EmailOnce == Distinct(self.got) /\ Single(EmailHands, EmailNoted, published, {})

LEMMA EmailOnceKept ==
  ASSUME HostOK, EmailOK, Email!Next, EmailOnce
  PROVE  EmailOnce'
<1>0. self \in EmailSelf /\ self.got \in Seq(Events) /\ \A e \in ToSet(self.got) : e \in Events
  <2>1. self \in EmailSelf /\ self.got \in Seq(Events)
    BY DEF EmailOK, EmailSelf
  <2> QED BY <2>1, ElementOfSeq, LenProperties DEF ToSet
<1>1. ASSUME self'.got = self.got, self'.processed = self.processed, UNCHANGED published
      PROVE  EmailOnce'
  BY <1>1 DEF EmailOnce, EmailHands, EmailNoted
<1>2. CASE Host
  BY <1>1, <1>2, HostUnpublished
<1>3. CASE Email!Poll \/ Email!AccountRead
  <2>1. UNCHANGED published /\ \E account : self' = [self EXCEPT !.account = account]
    BY <1>3, EmailHost, Zenon DEF Email!Poll, Email!AccountRead, host
  <2>2. self'.got = self.got /\ self'.processed = self.processed
    BY <1>0, <2>1 DEF EmailSelf
  <2> QED BY <1>1, <2>1, <2>2
<1>4. CASE Email!FetchFails
  <2>1. UNCHANGED published /\ self' = [self EXCEPT !.account = 0, !.got = <<>>]
    BY <1>4, EmailHost DEF Email!FetchFails, host
  <2>2. self'.got = <<>> /\ self'.processed = self.processed
    BY <1>0, <2>1 DEF EmailSelf
  <2>3. ToSet(<<>>) = {}
    BY DEF ToSet
  <2>4. EmailHands' \subseteq EmailHands /\ EmailNoted' = EmailNoted
    BY <2>2, <2>3 DEF EmailHands, EmailNoted
  <2>5. Single(EmailHands', EmailNoted', published', {})
    BY <2>1, <2>4, SingleKept DEF EmailOnce
  <2> QED BY <2>2, <2>5, DistinctShort DEF EmailOnce
<1>5. CASE Email!HandsOn
  <2>1. PICK e \in Events : e = Head(self.got) /\ e \in ToSet(self.got)
    <3>1. Head(self.got) \in Events /\ Head(self.got) = self.got[1] /\ 1 \in DOMAIN self.got
      BY <1>0, <1>5, HeadTailProperties, EmptySeq, LenProperties DEF Email!HandsOn
    <3> QED BY <3>1 DEF ToSet
  <2>2. HandleMessage(e, <<e.id>>) /\ self.got # <<>>
    BY <1>5, <2>1, EmailHost DEF Email!HandsOn
  <2>3. \E chats : self' = [self EXCEPT !.got = Tail(self.got), !.lastOf = chats]
    BY <1>5, Zenon DEF Email!HandsOn
  <2>4. self'.got = Tail(self.got) /\ self'.processed = self.processed
    BY <1>0, <2>3 DEF EmailSelf
  <2>5. Distinct(self'.got) /\ ToSet(self'.got) \subseteq ToSet(self.got) \ {e}
    BY <1>0, <2>1, <2>2, <2>4, DistinctTail DEF EmailOnce
  <2>6. PICK t \in EmailHands : t = [ev |-> e]
    BY <2>1 DEF EmailHands
  <2>7. EmailHands' \subseteq EmailHands \ {t} /\ EmailNoted' = EmailNoted
    <3>1. ASSUME NEW f \in ToSet(self'.got) PROVE [ev |-> f] \in EmailHands \ {t}
      <4>1. f \in ToSet(self.got) /\ f # e
        BY <2>5
      <4>2. [ev |-> f] # t
        BY <2>6, <4>1
      <4> QED BY <4>1, <4>2 DEF EmailHands
    <3> QED BY <2>4, <3>1 DEF EmailHands, EmailNoted
  <2>8. published' = published \/ published' = published \o <<e.id>>
    BY <2>2, PublishedBy
  <2>9. Single(EmailHands \ {t}, EmailNoted, published', {})
    <3>1. t.ev.id = e.id /\ e.id \in Ids /\ published \in Seq(Ids)
      BY <2>6, EventIds DEF HostOK
    <3>2. CASE published' = published
      BY <3>2, SingleKept DEF EmailOnce
    <3>3. CASE published' = published \o <<e.id>>
      BY <3>1, <3>3, SinglePublished DEF EmailOnce
    <3> QED BY <2>8, <3>2, <3>3
  <2>10. Single(EmailHands', EmailNoted', published', {})
    BY <2>7, <2>9, SingleKept
  <2> QED BY <2>5, <2>10 DEF EmailOnce
<1>6. ASSUME NEW e \in Events, Email!FetchMessage(e)
      PROVE  EmailOnce'
  <2>1. UNCHANGED published /\ e.uid \notin self.processed
    BY <1>6, EmailHost DEF Email!FetchMessage, host
  <2>2. self' = [self EXCEPT !.got = Append(self.got, e), !.processed = self.processed \cup {e.uid}]
    BY <1>6, Zenon DEF Email!FetchMessage
  <2>3. self'.got = Append(self.got, e) /\ self'.processed = self.processed \cup {e.uid}
    BY <1>0, <2>2 DEF EmailSelf
  <2>4. e.id \notin EmailNoted /\ EmailNoted \cup {e.id} \subseteq EmailNoted'
    BY <2>1, <2>3, EventsNamed DEF EmailNoted
  <2>5. e \notin ToSet(self.got)
    <3>1. \A v \in EmailHands : v.ev.id \in EmailNoted
      BY Zenon DEF EmailOnce, Single
    <3>2. e \in ToSet(self.got) => [ev |-> e] \in EmailHands
      BY DEF EmailHands
    <3>3. [ev |-> e].ev.id = e.id
      OBVIOUS
    <3> QED BY <2>4, <3>1, <3>2, <3>3
  <2>6. ToSet(self'.got) = ToSet(self.got) \cup {e}
    BY <1>0, <2>3, ElementsAppended
  <2>7. Distinct(self'.got)
    BY <1>0, <2>3, <2>5, DistinctAppend DEF EmailOnce
  <2>8. PICK u : u = [ev |-> e]
    BY Zenon
  <2>9. u.ev.id = e.id /\ EmailHands' \subseteq EmailHands \cup {u}
    BY <2>6, <2>8 DEF EmailHands
  <2>10. Single(EmailHands', EmailNoted', published, {})
    BY <2>4, <2>9, SingleNoted DEF EmailOnce
  <2> QED BY <2>1, <2>7, <2>10 DEF EmailOnce
<1>7. CASE \/ \E autoReply \in BOOLEAN : Email!SendBegins(autoReply)
           \/ \E m \in self.smtp : Email!SmtpDone(m)
           \/ Email!SendTimesOut
  <2>1. UNCHANGED published
    BY <1>7 DEF Email!SendBegins, Email!SmtpDone, Email!SendTimesOut
  <2>2. self' = self \/ \E smtp : self' = [self EXCEPT !.smtp = smtp]
    BY <1>7, Zenon DEF Email!SendBegins, Email!SmtpDone, Email!SendTimesOut
  <2>3. self'.got = self.got /\ self'.processed = self.processed
    BY <1>0, <2>2 DEF EmailSelf
  <2> QED BY <1>1, <2>1, <2>3
<1> QED BY <1>2, <1>3, <1>4, <1>5, <1>6, <1>7, EmailHost DEF Email!Next

-----------------------------------------------------------------------------
(* Slack: of the two events of a mention the one that counts.              *)

Counts(t) == ~Slack!Twin(t)
MainEvent(e) == <<e.id, IF Slack!Mentions(e) THEN "app_mention" ELSE "message">>
SlackNoted == {e.id : e \in {f \in Events : MainEvent(f) \in self.came}}

SlackOnce ==
  /\ \A t \in tasks : /\ t.type = "app_mention" => Slack!Mentions(t.ev)
                      /\ t.pc # "ack" => Counts(t)
  /\ self.botId => Single({t \in tasks : Counts(t)}, SlackNoted, published, {})

LEMMA SlackOnceKept ==
  ASSUME HostOK, SlackOK, Slack!Next, SlackOnce
  PROVE  SlackOnce'
<1>0. self \in SlackSelf /\ tasks \subseteq SlackHandlers
  BY DEF SlackOK
<1>a. self'.botId = self.botId => \A t : Counts(t)' = Counts(t)
  BY Zenon DEF Counts, Slack!Twin, Slack!Mentions
<1>1. ASSUME self'.botId = self.botId, self'.came = self.came, tasks' \subseteq tasks, UNCHANGED published
      PROVE  SlackOnce'
  <2>1. SlackNoted' = SlackNoted
    BY <1>1 DEF SlackNoted, MainEvent, Slack!Mentions
  <2>2. {t \in tasks : Counts(t)}' \subseteq {t \in tasks : Counts(t)}
    BY <1>1, <1>a
  <2>3. self'.botId => Single({t \in tasks : Counts(t)}', SlackNoted', published', {})
    BY <1>1, <2>1, <2>2, SingleKept DEF SlackOnce
  <2>4. \A t \in tasks' : /\ t.type = "app_mention" => Slack!Mentions(t.ev)
                          /\ t.pc # "ack" => Counts(t)'
    BY <1>1, <1>a DEF SlackOnce
  <2> QED BY <2>3, <2>4 DEF SlackOnce, Slack!Mentions
<1>2. CASE Host
  BY <1>1, <1>2, HostUnpublished
<1>3. ASSUME NEW t \in tasks, NEW pc, Await(t, pc), Counts(t),
             self'.botId = self.botId, self'.came = self.came, UNCHANGED published
      PROVE  SlackOnce'
  <2>1. PICK u : u = [t EXCEPT !.pc = pc]
    BY Zenon
  <2>2. u.ev = t.ev /\ u.type = t.type
    BY <1>0, <2>1 DEF SlackHandlers
  <2>3. tasks' = (tasks \ {t}) \cup {u}
    BY <1>3, <2>1 DEF Await
  <2>4. SlackNoted' = SlackNoted
    BY <1>3 DEF SlackNoted, MainEvent, Slack!Mentions
  <2>5. Counts(u)' /\ (t.type = "app_mention" => Slack!Mentions(u.ev))
    BY <1>3, <2>2 DEF SlackOnce, Counts, Slack!Twin
  <2>6. {v \in tasks : Counts(v)}' \subseteq ({v \in tasks : Counts(v)} \ {t}) \cup {u}
    BY <1>3, <1>a, <2>3
  <2>7. self.botId => Single(({v \in tasks : Counts(v)} \ {t}) \cup {u}, SlackNoted, published, {})
    BY <1>3, <2>2, SingleMoves DEF SlackOnce
  <2>8. self'.botId => Single({v \in tasks : Counts(v)}', SlackNoted', published', {})
    BY <1>3, <2>4, <2>6, <2>7, SingleKept
  <2>9. \A v \in tasks' : /\ v.type = "app_mention" => Slack!Mentions(v.ev)
                          /\ v.pc # "ack" => Counts(v)'
    BY <1>3, <1>a, <2>2, <2>3, <2>5 DEF SlackOnce
  <2> QED BY <2>8, <2>9 DEF SlackOnce, Slack!Mentions
<1>4. ASSUME NEW e \in Events, NEW type \in Slack!Types, Slack!OnSocketRequest(e, type)
      PROVE  SlackOnce'
  <2>1. PICK u : u = [ev |-> e, type |-> type, pc |-> "ack"]
    BY Zenon
  <2>2. /\ self' = [self EXCEPT !.came = self.came \cup {<<e.id, type>>}]
        /\ tasks = {} /\ tasks' = {u} /\ UNCHANGED published
        /\ <<e.id, type>> \notin self.came
        /\ type = "app_mention" => Slack!Mentions(e)
    BY <1>4, <2>1, SlackHost DEF Slack!OnSocketRequest, host
  <2>3. self'.botId = self.botId /\ self'.came = self.came \cup {<<e.id, type>>}
    BY <1>0, <2>2 DEF SlackSelf
  <2>4. u.ev = e /\ u.type = type /\ u.pc = "ack"
    BY <2>1
  <2>5. SlackNoted \subseteq SlackNoted'
    BY <2>3 DEF SlackNoted, MainEvent, Slack!Mentions
  <2>6. ASSUME self.botId PROVE Single({v \in tasks : Counts(v)}', SlackNoted', published', {})
    <3>1. CASE Counts(u)'
      <4>1. MainEvent(e) = <<e.id, type>>
        <5>1. type = "app_mention" <=> Slack!Mentions(e)
          BY <2>2, <2>3, <2>4, <2>6, <3>1 DEF Counts, Slack!Twin, Slack!Types
        <5>2. type = IF Slack!Mentions(e) THEN "app_mention" ELSE "message"
          BY <5>1 DEF Slack!Types
        <5> QED BY <5>2, Zenon DEF MainEvent
      <4>2. e.id \notin SlackNoted
        BY <2>2, <4>1, EventsNamed, Zenon DEF SlackNoted
      <4>3. e.id \in SlackNoted'
        BY <2>3, <4>1 DEF SlackNoted, MainEvent, Slack!Mentions
      <4>4. {v \in tasks : Counts(v)}' \subseteq {v \in tasks : Counts(v)} \cup {u}
        BY <2>2
      <4> QED BY <2>2, <2>4, <2>5, <2>6, <4>2, <4>3, <4>4, SingleNoted DEF SlackOnce
    <3>2. CASE ~Counts(u)'
      <4>1. {v \in tasks : Counts(v)}' \subseteq {v \in tasks : Counts(v)}
        BY <2>2, <3>2
      <4> QED BY <2>2, <2>5, <2>6, <4>1, SingleKept DEF SlackOnce
    <3> QED BY <3>1, <3>2
  <2> QED BY <2>2, <2>3, <2>4, <2>6 DEF SlackOnce, Slack!Mentions
<1>5. ASSUME NEW t \in tasks, Slack!Acknowledged(t)
      PROVE  SlackOnce'
  <2>1. UNCHANGED <<self, published>> /\ (Ends(t) \/ (Counts(t) /\ Await(t, "react")))
    BY <1>5, SlackHost DEF Slack!Acknowledged, Counts, host
  <2> QED BY <1>1, <1>3, <2>1 DEF Ends
<1>6. ASSUME NEW t \in tasks, Slack!AddReaction(t)
      PROVE  SlackOnce'
  <2>1. /\ t.pc = "react" /\ Await(t, "publish") /\ UNCHANGED published
        /\ \E working : self' = [self EXCEPT !.working = working]
    BY <1>6, SlackHost, Zenon DEF Slack!AddReaction, host
  <2>2. self'.botId = self.botId /\ self'.came = self.came
    BY <1>0, <2>1 DEF SlackSelf
  <2>3. Counts(t)
    BY <2>1 DEF SlackOnce
  <2> QED BY <1>3, <2>1, <2>2, <2>3
<1>7. ASSUME NEW t \in tasks, Slack!Publishes(t)
      PROVE  SlackOnce'
  <2>1. t.pc = "publish" /\ HandleMessage(t.ev, <<t.ev.id>>) /\ Ends(t) /\ UNCHANGED self
    BY <1>7, SlackHost DEF Slack!Publishes
  <2>2. t.ev \in Events /\ t.ev.id \in Ids /\ published \in Seq(Ids)
    BY <1>0, EventIds DEF SlackHandlers, HostOK
  <2>3. published' = published \/ published' = published \o <<t.ev.id>>
    BY <2>1, <2>2, PublishedBy
  <2>4. Counts(t)
    BY <2>1 DEF SlackOnce
  <2>5. self.botId => Single({v \in tasks : Counts(v)} \ {t}, SlackNoted, published', {})
    <3>1. CASE published' = published
      BY <3>1, SingleKept DEF SlackOnce
    <3>2. CASE published' = published \o <<t.ev.id>>
      BY <2>2, <2>4, <3>2, SinglePublished DEF SlackOnce
    <3> QED BY <2>3, <3>1, <3>2
  <2>6. {v \in tasks : Counts(v)}' \subseteq {v \in tasks : Counts(v)} \ {t}
    BY <1>a, <2>1 DEF Ends
  <2>7. SlackNoted' = SlackNoted
    BY <2>1 DEF SlackNoted, MainEvent, Slack!Mentions
  <2>8. self'.botId => Single({v \in tasks : Counts(v)}', SlackNoted', published', {})
    BY <2>1, <2>5, <2>6, <2>7, SingleKept
  <2>9. \A v \in tasks' : /\ v.type = "app_mention" => Slack!Mentions(v.ev)
                          /\ v.pc # "ack" => Counts(v)'
    BY <1>a, <2>1 DEF SlackOnce, Ends
  <2> QED BY <2>8, <2>9 DEF SlackOnce, Slack!Mentions
<1>8. CASE Slack!SendBegins \/ Slack!SendText \/ Slack!SendFile \/ Slack!UpdateReactEmoji \/ Slack!SendBroken
  <2>1. UNCHANGED <<tasks, published>>
    BY <1>8 DEF Slack!SendBegins, Slack!SendText, Slack!SendFile, Slack!UpdateReactEmoji, Slack!SendBroken
  <2>2. self' = self \/ \E working : self' = [self EXCEPT !.working = working]
    BY <1>8, Zenon DEF Slack!SendBegins, Slack!SendText, Slack!SendFile, Slack!UpdateReactEmoji, Slack!SendBroken
  <2>3. self'.botId = self.botId /\ self'.came = self.came
    BY <1>0, <2>2 DEF SlackSelf
  <2> QED BY <1>1, <2>1, <2>3
<1> QED BY <1>2, <1>4, <1>5, <1>6, <1>7, <1>8, SlackHost DEF Slack!Next

-----------------------------------------------------------------------------
(* Mochat: what is published, what waits in the buffer and what the handlers   *)
(* are publishing have no id in common.                                        *)

OfKind(kind) == IF kind = "session" THEN Mochat!SessionIds ELSE Ids \ Mochat!SessionIds
SeenIds == UNION {ToSet(self.seen[kind]) : kind \in Kinds}

MochatWindow ==
  /\ Cardinality(self.posted \cup Coming) <= Window
  /\ \A kind \in Kinds : /\ Len(self.seen[kind]) <= Cardinality(ToSet(self.seen[kind]))
                         /\ ToSet(self.seen[kind]) \subseteq self.posted \cap OfKind(kind)

MochatHands ==
  /\ \A t \in tasks : /\ ToSet(t.todo) \subseteq self.posted \cap OfKind(t.kind)
                      /\ ToSet(t.out) \subseteq ToSet(self.seen[t.kind])
                      /\ ToSet(t.out) \cap (ToSet(self.buffer) \cup ToSet(published)) = {}
                      /\ Distinct(t.out)
  /\ \A t, u \in tasks : t = u \/ ToSet(t.out) \cap ToSet(u.out) = {}

MochatPlaces ==
  /\ ToSet(self.buffer) \subseteq ToSet(self.seen["panel"]) /\ ToSet(published) \subseteq SeenIds
  /\ ToSet(self.buffer) \cap ToSet(published) = {}
  /\ Distinct(self.buffer) /\ Distinct(published)

MochatOnce == MochatWindow /\ MochatHands /\ MochatPlaces

LEMMA MochatWindowStays ==
  ASSUME HostOK, self.posted \in SUBSET Ids, Cardinality(self.posted \cup Coming) <= Window,
         NEW ids, ids \subseteq self.posted \cup Coming
  PROVE  Cardinality(ids) <= Window
<1>1. self.posted \cup Coming \subseteq Ids
  BY DEF Coming
<1>2. IsFiniteSet(self.posted \cup Coming) /\ IsFiniteSet(ids)
  BY <1>1, IdsFinite, FS_Subset
<1>3. Cardinality(ids) <= Cardinality(self.posted \cup Coming)
  BY <1>2, FS_Subset
<1> QED BY <1>2, <1>3, FS_CardinalityType, WindowPositive

\* Handlers that publish nothing may start, and handlers may end.
LEMMA MochatOnceAdds ==
  ASSUME HostOK, MochatOK, MochatOnce, NEW new, tasks' \subseteq tasks \cup new,
         \A h \in new : h.out = <<>> /\ ToSet(h.todo) \subseteq self'.posted \cap OfKind(h.kind),
         self'.seen = self.seen, self'.buffer = self.buffer, published' = published,
         self.posted \subseteq self'.posted, self'.posted \cup Coming' \subseteq self.posted \cup Coming
  PROVE  MochatOnce'
<1>0. self.posted \in SUBSET Ids /\ MochatWindow /\ MochatHands /\ MochatPlaces
  BY DEF MochatOK, MochatSelf, MochatOnce
<1>1. \A h \in new : ToSet(h.out) = {} /\ Distinct(h.out)
  BY DistinctShort DEF ToSet
<1>2. Cardinality(self'.posted \cup Coming') <= Window
  BY <1>0, MochatWindowStays DEF MochatWindow
<1>3. MochatWindow'
  BY <1>0, <1>2 DEF MochatWindow, OfKind, Mochat!SessionIds
<1>4. MochatPlaces'
  BY <1>0 DEF MochatPlaces, SeenIds
<1>5. ASSUME NEW t \in tasks'
      PROVE  /\ ToSet(t.todo) \subseteq self'.posted \cap OfKind(t.kind)
             /\ ToSet(t.out) \subseteq ToSet(self'.seen[t.kind])
             /\ ToSet(t.out) \cap (ToSet(self'.buffer) \cup ToSet(published')) = {}
             /\ Distinct(t.out)
  <2>1. CASE t \in tasks
    BY <1>0, <2>1 DEF MochatHands
  <2>2. CASE t \in new
    BY <1>1, <2>2
  <2> QED BY <2>1, <2>2
<1>6. \A t, u \in tasks' : t = u \/ ToSet(t.out) \cap ToSet(u.out) = {}
  BY <1>0, <1>1 DEF MochatHands
<1>7. MochatHands'
  BY <1>5, <1>6 DEF MochatHands, OfKind, Mochat!SessionIds
<1> QED BY <1>3, <1>4, <1>7 DEF MochatOnce

\* What the handlers old, the buffer and the history of what is published had,
\* and the ids that are noted, are divided anew between a handler h, the buffer
\* and what is published.
LEMMA MochatOnceGoes ==
  ASSUME HostOK, MochatOK, MochatOnce, NEW old, old \subseteq tasks, NEW h, tasks' \subseteq (tasks \ old) \cup {h},
         NEW noted, noted \cap SeenIds = {}, UNCHANGED pending, self'.posted = self.posted,
         \A kind \in Kinds : /\ Len(self'.seen[kind]) <= Cardinality(ToSet(self'.seen[kind]))
                             /\ ToSet(self'.seen[kind]) \subseteq self.posted \cap OfKind(kind)
                             /\ ToSet(self.seen[kind]) \subseteq ToSet(self'.seen[kind]),
         h.kind \in Kinds, ToSet(h.todo) \subseteq self.posted \cap OfKind(h.kind),
         ToSet(h.out) \subseteq ToSet(self'.seen[h.kind]), ToSet(self'.buffer) \subseteq ToSet(self'.seen["panel"]),
         ToSet(published') \subseteq ToSet(published) \cup OutOf(old),
         ToSet(h.out) \cup ToSet(self'.buffer) \subseteq OutOf(old) \cup ToSet(self.buffer) \cup noted,
         ToSet(h.out) \cap ToSet(self'.buffer) = {}, ToSet(h.out) \cap ToSet(published') = {},
         ToSet(self'.buffer) \cap ToSet(published') = {},
         Distinct(h.out), Distinct(self'.buffer), Distinct(published')
  PROVE  MochatOnce'
<1>0. tasks \subseteq MochatHandlers /\ MochatWindow /\ MochatHands /\ MochatPlaces
  BY DEF MochatOK, MochatOnce
<1>1. \A t \in tasks : t.kind \in Kinds /\ ToSet(t.out) \subseteq SeenIds
  BY <1>0 DEF MochatHandlers, MochatHands, SeenIds
<1>2. Coming' = Coming
  BY DEF Coming
<1>3. MochatWindow'
  BY <1>0, <1>2 DEF MochatWindow, OfKind, Mochat!SessionIds
<1>4. OutOf(old) \subseteq SeenIds /\ SeenIds \subseteq SeenIds'
  <2>1. OutOf(old) \subseteq SeenIds
    BY <1>1 DEF OutOf
  <2>2. \A kind \in Kinds : ToSet(self.seen[kind]) \subseteq SeenIds'
    BY DEF SeenIds
  <2> QED BY <2>1, <2>2 DEF SeenIds
<1>5. ToSet(published') \subseteq SeenIds'
  BY <1>0, <1>4, Zenon DEF MochatPlaces
<1>6. MochatPlaces'
  BY <1>5 DEF MochatPlaces
<1>7. ASSUME NEW t \in tasks \ old
      PROVE  ToSet(t.out) \cap (ToSet(h.out) \cup ToSet(self'.buffer) \cup ToSet(published')) = {}
  <2>1. ToSet(t.out) \cap OutOf(old) = {}
    BY <1>0, <1>7 DEF MochatHands, OutOf
  <2>2. ToSet(t.out) \cap noted = {}
    BY <1>1
  <2>3. ToSet(t.out) \cap (ToSet(self.buffer) \cup ToSet(published)) = {}
    BY <1>0 DEF MochatHands
  <2> QED BY <2>1, <2>2, <2>3, Zenon
<1>8. ASSUME NEW t \in tasks'
      PROVE  /\ ToSet(t.todo) \subseteq self'.posted \cap OfKind(t.kind)
             /\ ToSet(t.out) \subseteq ToSet(self'.seen[t.kind])
             /\ ToSet(t.out) \cap (ToSet(self'.buffer) \cup ToSet(published')) = {}
             /\ Distinct(t.out)
  <2>1. CASE t \in tasks \ old
    <3>1. ToSet(t.todo) \subseteq self.posted \cap OfKind(t.kind) /\ Distinct(t.out)
      BY <1>0, <2>1 DEF MochatHands
    <3>2. ToSet(t.out) \subseteq ToSet(self.seen[t.kind]) /\ t.kind \in Kinds
      BY <1>0, <1>1, <2>1 DEF MochatHands
    <3>3. ToSet(t.out) \cap (ToSet(self'.buffer) \cup ToSet(published')) = {}
      BY <1>7, <2>1
    <3> QED BY <3>1, <3>2, <3>3
  <2>2. CASE t = h
    <3>1. ToSet(h.out) \cap (ToSet(self'.buffer) \cup ToSet(published')) = {}
      OBVIOUS
    <3> QED BY <2>2, <3>1
  <2> QED BY <2>1, <2>2
<1>9. ASSUME NEW t \in tasks', NEW u \in tasks', t # u
      PROVE  ToSet(t.out) \cap ToSet(u.out) = {}
  <2>1. CASE t \in tasks \ old /\ u \in tasks \ old
    BY <1>0, <1>9, <2>1 DEF MochatHands
  <2>2. CASE t = h /\ u \in tasks \ old
    BY <1>7, <2>2
  <2>3. CASE u = h /\ t \in tasks \ old
    BY <1>7, <2>3
  <2> QED BY <1>9, <2>1, <2>2, <2>3
<1>10. \A t, u \in tasks' : t = u \/ ToSet(t.out) \cap ToSet(u.out) = {}
  BY <1>9
<1>11. MochatHands'
  BY <1>8, <1>10 DEF MochatHands, OfKind, Mochat!SessionIds
<1> QED BY <1>3, <1>6, <1>11 DEF MochatOnce

\* A payload handles the messages that it names.
LEMMA HandlerTodo ==
  ASSUME NEW by, NEW kind, NEW ids \in SUBSET Ids, NEW pc
  PROVE  \A h : h = Mochat!Handler(by, kind, ids, pc) => h.out = <<>> /\ h.kind = kind /\ ToSet(h.todo) \subseteq ids
<1>1. ids \in SUBSET Nat /\ IsFiniteSet(ids)
  BY IdsFinite
<1>2. \E s \in [1 .. Cardinality(ids) -> ids] : \A i, j \in DOMAIN s : i < j => s[i] < s[j]
  BY <1>1, InIncreasingOrder
<1>3. PICK s \in [1 .. Cardinality(ids) -> ids] : s = Mochat!InOrder(ids)
  BY <1>2, MochatSets, Zenon DEF Mochat!InOrder
<1>4. ToSet(s) \subseteq ids
  BY DEF ToSet
<1>5. Mochat!Handler(by, kind, ids, pc) = [by |-> by, kind |-> kind, todo |-> s, out |-> <<>>, pc |-> pc]
  BY <1>3, Zenon DEF Mochat!Handler
<1> QED BY <1>4, <1>5

LEMMA MochatOnceStays ==
  ASSUME HostOK, MochatOK, MochatOnce, NEW new, tasks' \subseteq tasks \cup new,
         \A h \in new : h.out = <<>> /\ ToSet(h.todo) \subseteq self.posted \cap OfKind(h.kind),
         self'.seen = self.seen, self'.buffer = self.buffer, self'.posted = self.posted,
         UNCHANGED <<pending, published>>
  PROVE  MochatOnce'
<1>1. Coming' = Coming
  BY DEF Coming
<1> QED BY <1>1, MochatOnceAdds

LEMMA MochatComesOnce ==
  ASSUME HostOK, MochatOK, MochatOnce, NEW e \in Events, Mochat!Post(e)
  PROVE  MochatOnce'
<1>0. self \in MochatSelf /\ e.id \in Ids
  BY EventIds DEF MochatOK
<1>1. /\ Arrives(e) /\ UNCHANGED host
      /\ self' = [self EXCEPT !.posted = self.posted \cup {e.id}]
      /\ \E told \in Mochat!Notified(e) : tasks' = tasks \cup Mochat!Pushed(e) \cup told
  BY MochatHost DEF Mochat!Post
<1>2. PICK told \in Mochat!Notified(e) : tasks' = tasks \cup (Mochat!Pushed(e) \cup told)
  BY <1>1
<1>3. PICK posted : self' = [self EXCEPT !.posted = posted] /\ posted = self.posted \cup {e.id}
  BY <1>1, Zenon
<1>4. self'.posted = posted /\ self'.seen = self.seen /\ self'.buffer = self.buffer
  BY <1>0, <1>3, Zenon DEF MochatSelf
<1>5. ASSUME NEW by, NEW kind, NEW pc, e.id \in OfKind(kind), NEW h, h = Mochat!Handler(by, kind, {e.id}, pc)
      PROVE  h.out = <<>> /\ ToSet(h.todo) \subseteq posted \cap OfKind(h.kind)
  <2>1. PICK ids \in SUBSET Ids : ids = {e.id} /\ ids \subseteq posted \cap OfKind(kind)
    BY <1>0, <1>3, <1>5
  <2>2. h = Mochat!Handler(by, kind, ids, pc)
    BY <1>5, <2>1, Zenon
  <2>3. h.out = <<>> /\ h.kind = kind /\ ToSet(h.todo) \subseteq ids
    BY <2>2, HandlerTodo
  <2> QED BY <2>1, <2>3
<1>6. /\ Mochat!Session(e) => e.id \in OfKind("session")
      /\ ~Mochat!Session(e) => e.id \in OfKind("panel")
  BY <1>0, EventsNamed DEF OfKind, Mochat!SessionIds, Mochat!Session
<1>7. \A h \in Mochat!Pushed(e) : h.out = <<>> /\ ToSet(h.todo) \subseteq posted \cap OfKind(h.kind)
  <2>1. ASSUME NEW h \in Mochat!Pushed(e)
        PROVE  \/ Mochat!Session(e) /\ h = Mochat!Handler("socket", "session", {e.id}, "lock")
               \/ ~Mochat!Session(e) /\ h = Mochat!Handler("socket", "panel", {e.id}, "work")
    BY <2>1, Zenon DEF Mochat!Pushed
  <2> QED BY <1>5, <1>6, <2>1, Zenon
<1>8. \A h \in told : h.out = <<>> /\ ToSet(h.todo) \subseteq posted \cap OfKind(h.kind)
  <2>1. told = {} \/ told = {IF Mochat!Session(e) THEN Mochat!InboxAppend(e) ELSE Mochat!ChatMessage(e)}
    BY <1>2 DEF Mochat!Notified
  <2>2. ASSUME NEW h \in told
        PROVE  \/ Mochat!Session(e) /\ h = Mochat!Handler("notify", "session", {e.id}, "work")
               \/ ~Mochat!Session(e) /\ h = Mochat!Handler("notify", "panel", {e.id}, "work")
    BY <2>1, <2>2, Zenon DEF Mochat!InboxAppend, Mochat!ChatMessage
  <2> QED BY <1>5, <1>6, <2>2, Zenon
<1>9. PICK new : new = Mochat!Pushed(e) \cup told
  BY Zenon
<1>10. \A h \in new : h.out = <<>> /\ ToSet(h.todo) \subseteq self'.posted \cap OfKind(h.kind)
  BY <1>4, <1>7, <1>8, <1>9, Zenon
<1>11. self.posted \subseteq self'.posted /\ self'.posted \cup Coming' \subseteq self.posted \cup Coming
  BY <1>1, <1>3, <1>4, ComingFewer
<1>12. tasks' \subseteq tasks \cup new /\ published' = published
  BY <1>1, <1>2, <1>9 DEF host
<1> QED BY <1>4, <1>10, <1>11, <1>12, MochatOnceAdds

LEMMA MochatAnswersOnce ==
  ASSUME HostOK, MochatOK, MochatOnce,
         \/ Mochat!PanelPolled
         \/ \E c \in self.asked : Mochat!WatchAnswered(c)
         \/ Mochat!Subscribed
  PROVE  MochatOnce'
<1>0. self \in MochatSelf /\ self.posted \in SUBSET Ids
  BY DEF MochatOK, MochatSelf
<1>1. ASSUME NEW by, NEW kind, NEW pc, NEW ids \in SUBSET (self.posted \cap OfKind(kind)),
             tasks' \subseteq tasks \cup {Mochat!Handler(by, kind, ids, pc)},
             self'.seen = self.seen, self'.buffer = self.buffer, self'.posted = self.posted,
             UNCHANGED <<pending, published>>
      PROVE  MochatOnce'
  <2>1. PICK new : new = {Mochat!Handler(by, kind, ids, pc)}
    BY Zenon
  <2>2. ids \in SUBSET Ids
    BY <1>0
  <2>3. \A h \in new : h.out = <<>> /\ h.kind = kind /\ ToSet(h.todo) \subseteq ids
    <3>1. \A h \in new : h = Mochat!Handler(by, kind, ids, pc)
      BY <2>1, Zenon
    <3> QED BY <2>2, <3>1, HandlerTodo
  <2>4. \A h \in new : h.out = <<>> /\ ToSet(h.todo) \subseteq self.posted \cap OfKind(h.kind)
    BY <2>3
  <2> QED BY <1>1, <2>1, <2>4, MochatOnceStays
<1>2. \A c : Mochat!Since(c) \in SUBSET (self.posted \cap OfKind("session"))
  BY DEF Mochat!Since, OfKind
<1>3. CASE Mochat!PanelPolled
  <2> DEFINE all == Mochat!InOrder(self.posted \ Mochat!SessionIds)
             first == IF Len(all) > PollLimit THEN Len(all) - PollLimit + 1 ELSE 1
             last == SubSeq(all, first, Len(all))
  <2>1. tasks' = tasks \cup {Mochat!Handler("worker", "panel", ToSet(last), "work")} /\ UNCHANGED <<self, pending, published>>
    BY <1>3, MochatHost, MochatSets DEF Mochat!PanelPolled, host
  <2>2. PICK s \in Seq(self.posted \ Mochat!SessionIds) : s = all
    <3>1. PICK ids : ids = self.posted \ Mochat!SessionIds
      BY Zenon
    <3>2. ids \in SUBSET Nat /\ IsFiniteSet(ids) /\ Cardinality(ids) \in Nat
      BY <1>0, <3>1, IdsFinite, FS_CardinalityType
    <3>3. \E s \in [1 .. Cardinality(ids) -> ids] : \A i, j \in DOMAIN s : i < j => s[i] < s[j]
      BY <3>2, InIncreasingOrder
    <3>4. Mochat!InOrder(ids) \in [1 .. Cardinality(ids) -> ids]
      BY <3>3, MochatSets, Zenon DEF Mochat!InOrder
    <3>5. PICK n \in Nat : n = Cardinality(ids)
      BY <3>2
    <3>6. Mochat!InOrder(ids) \in Seq(ids)
      BY <3>4, <3>5, SeqDef
    <3> QED BY <3>1, <3>6, Zenon
  <2>3. all \in Seq(self.posted \ Mochat!SessionIds)
    BY <2>2
  <2> HIDE DEF all
  <2>4. ToSet(last) \subseteq self.posted \ Mochat!SessionIds
    <3>1. Len(all) \in Nat /\ \A i \in 1 .. Len(all) : all[i] \in self.posted \ Mochat!SessionIds
      BY <2>3, LenProperties, ElementOfSeq
    <3>2. first \in Int /\ Len(all) \in Int /\ \A i \in first .. Len(all) : i \in 1 .. Len(all)
      BY <3>1, PollLimitPositive
    <3> HIDE DEF first
    <3>3. \A i \in first .. Len(all) : all[i] \in self.posted \ Mochat!SessionIds
      BY <3>1, <3>2
    <3>4. last \in Seq(self.posted \ Mochat!SessionIds)
      BY <3>2, <3>3, SubSeqProperties, Zenon
    <3> HIDE DEF last
    <3> QED BY <3>4, ElementOfSeq, LenProperties DEF ToSet
  <2> HIDE DEF last
  <2>5. ToSet(last) \in SUBSET (self.posted \cap OfKind("panel"))
    BY <1>0, <2>4 DEF OfKind
  <2> QED BY <1>1, <2>1, <2>5
<1>4. ASSUME NEW c \in self.asked, Mochat!WatchAnswered(c)
      PROVE  MochatOnce'
  <2>1. /\ self' = [self EXCEPT !.asked = {}] /\ UNCHANGED <<pending, published>>
        /\ tasks' \subseteq tasks \cup {Mochat!Handler("worker", "session", Mochat!Since(c), "lock")}
    BY <1>4, MochatHost DEF Mochat!WatchAnswered, host
  <2>2. self'.seen = self.seen /\ self'.buffer = self.buffer /\ self'.posted = self.posted
    BY <1>0, <2>1, Zenon DEF MochatSelf
  <2> QED BY <1>1, <1>2, <2>1, <2>2
<1>5. CASE Mochat!Subscribed
  <2>1. /\ \E ws, fallback, asked, dropped :
             self' = [self EXCEPT !.ws = ws, !.fallback = fallback, !.asked = asked, !.dropped = dropped]
        /\ UNCHANGED <<pending, published>>
        /\ tasks' \subseteq tasks \cup {Mochat!Handler("socket", "session", Mochat!Since(self.cursor), "lock")}
    <3>1. /\ \E ws, fallback, asked, dropped :
               self' = [self EXCEPT !.ws = ws, !.fallback = fallback, !.asked = asked, !.dropped = dropped]
          /\ UNCHANGED <<pending, host>>
      BY <1>5, MochatHost, Zenon DEF Mochat!Subscribed
    <3>2. tasks' \subseteq tasks \cup {Mochat!Handler("socket", "session", Mochat!Since(self.cursor), "lock")}
      BY <1>5 DEF Mochat!Subscribed
    <3> QED BY <3>1, <3>2 DEF host
  <2>2. self'.seen = self.seen /\ self'.buffer = self.buffer /\ self'.posted = self.posted
    BY <1>0, <2>1, Zenon DEF MochatSelf
  <2> QED BY <1>1, <1>2, <2>1, <2>2
<1> QED BY <1>3, <1>4, <1>5

LEMMA MochatLockOnce ==
  ASSUME HostOK, MochatOK, MochatOnce, NEW t \in tasks, Mochat!TakesLock(t)
  PROVE  MochatOnce'
<1>0. self \in MochatSelf /\ t \in MochatHandlers /\ t.out = <<>>
  BY DEF MochatOK, MochatKept, Mochat!TakesLock
<1> DEFINE s == Mochat!MarkCursor(self, Mochat!Top(ToSet(t.todo)))
<1>1. /\ self' = s \/ self' = [s EXCEPT !.cold = FALSE]
      /\ Ends(t) \/ Await(t, "work")
      /\ UNCHANGED <<pending, host>>
  BY MochatHost, MochatSets DEF Mochat!TakesLock
<1>2. s \in MochatSelf /\ s.seen = self.seen /\ s.buffer = self.buffer /\ s.posted = self.posted
  <2>1. s \in MochatSelf /\ s.seen = self.seen /\ s.buffer = self.buffer
    BY <1>0, MochatMarks
  <2>2. s = self \/ \E cursor, saving : s = [self EXCEPT !.cursor = cursor, !.saving = saving]
    BY Zenon DEF Mochat!MarkCursor
  <2>3. s.posted = self.posted
    BY <1>0, <2>2, Zenon DEF MochatSelf
  <2> QED BY <2>1, <2>3
<1> HIDE DEF s
<1>3. self'.seen = self.seen /\ self'.buffer = self.buffer /\ self'.posted = self.posted
  BY <1>1, <1>2, Zenon DEF MochatSelf
<1>4. PICK u : u = [t EXCEPT !.pc = "work"]
  BY Zenon
<1>5. u.out = <<>> /\ u.todo = t.todo /\ u.kind = t.kind
  BY <1>0, <1>4 DEF MochatHandlers
<1>6. PICK new : new = {u}
  BY Zenon
<1>7. tasks' \subseteq tasks \cup new /\ UNCHANGED <<pending, published>>
  BY <1>1, <1>4, <1>6 DEF Ends, Await, host
<1>8. \A h \in new : h.out = <<>> /\ ToSet(h.todo) \subseteq self.posted \cap OfKind(h.kind)
  BY <1>5, <1>6 DEF MochatOnce, MochatHands
<1> QED BY <1>3, <1>7, <1>8, MochatOnceStays

\* A message that its session or panel has not seen is noted: nobody has it.
LEMMA MochatNotesOnce ==
  ASSUME HostOK, MochatOK, MochatOnce, NEW kind \in Kinds, NEW id \in self.posted \cap OfKind(kind),
         ~Mochat!Knows(self.seen[kind], id),
         NEW seen, seen = [self.seen EXCEPT ![kind] = Mochat!Remember(self.seen[kind], id)]
  PROVE  /\ {id} \cap SeenIds = {} /\ id \in ToSet(seen[kind])
         /\ \A k \in Kinds : /\ Len(seen[k]) <= Cardinality(ToSet(seen[k]))
                             /\ ToSet(seen[k]) \subseteq self.posted \cap OfKind(k)
                             /\ ToSet(self.seen[k]) \subseteq ToSet(seen[k])
<1>0. /\ self.seen \in [Kinds -> Seq(Ids)] /\ self.posted \in SUBSET Ids /\ id \in Ids
      /\ MochatWindow
  BY DEF MochatOK, MochatSelf, MochatOnce
<1>1. PICK q \in Seq(Ids) : q = self.seen[kind]
  BY <1>0
<1>2. ~Knows(q, id) /\ seen[kind] = Remember(q, id)
  BY <1>0, <1>1, MochatHost
<1>3. ToSet(q) \cup {id} \subseteq self.posted \cap OfKind(kind) /\ Len(q) <= Cardinality(ToSet(q))
  BY <1>0, <1>1 DEF MochatWindow
<1>4. PICK heard : heard = self.posted \cup Coming
  BY Zenon
<1>5. heard \subseteq Ids /\ ToSet(q) \cup {id} \subseteq heard /\ Cardinality(heard) <= Window
  BY <1>0, <1>3, <1>4 DEF Coming, MochatWindow
<1>6. /\ ToSet(Remember(q, id)) = ToSet(q) \cup {id}
      /\ Len(Remember(q, id)) <= Cardinality(ToSet(Remember(q, id)))
  BY <1>0, <1>2, <1>3, <1>5, AllRemembered
<1>7. \A k \in Kinds : k # kind => seen[k] = self.seen[k]
  BY <1>0
<1>8. \A k \in Kinds : /\ Len(seen[k]) <= Cardinality(ToSet(seen[k]))
                       /\ ToSet(seen[k]) \subseteq self.posted \cap OfKind(k)
                       /\ ToSet(self.seen[k]) \subseteq ToSet(seen[k])
  <2>1. ASSUME NEW k \in Kinds, k # kind
        PROVE  /\ Len(seen[k]) <= Cardinality(ToSet(seen[k]))
               /\ ToSet(seen[k]) \subseteq self.posted \cap OfKind(k)
               /\ ToSet(self.seen[k]) \subseteq ToSet(seen[k])
    BY <1>0, <1>7, <2>1 DEF MochatWindow
  <2>2. /\ Len(seen[kind]) <= Cardinality(ToSet(seen[kind]))
        /\ ToSet(seen[kind]) \subseteq self.posted \cap OfKind(kind)
        /\ ToSet(self.seen[kind]) \subseteq ToSet(seen[kind])
    BY <1>1, <1>2, <1>3, <1>6
  <2> QED BY <2>1, <2>2
<1>9. id \notin ToSet(self.seen[kind])
  BY <1>1, <1>2 DEF Knows, ToSet
<1>10. \A k \in Kinds : k # kind => id \notin ToSet(self.seen[k])
  BY <1>0 DEF MochatWindow, OfKind, Kinds
<1>11. {id} \cap SeenIds = {}
  BY <1>9, <1>10 DEF SeenIds
<1> QED BY <1>2, <1>6, <1>8, <1>11

LEMMA MochatProcessesOnce ==
  ASSUME HostOK, MochatOK, MochatOnce, NEW t \in tasks, Mochat!ProcessInboundEvent(t)
  PROVE  MochatOnce'
<1> DEFINE id == Head(t.todo)
           noted == [self EXCEPT !.seen[t.kind] = Mochat!Remember(self.seen[t.kind], id)]
           rest == [t EXCEPT !.todo = Tail(t.todo)]
           goes(h) == IF h.todo = <<>> /\ h.out = <<>> THEN {} ELSE {h}
<1>0. /\ self \in MochatSelf /\ t \in MochatHandlers /\ tasks \subseteq MochatHandlers
      /\ t.out = <<>> /\ t.todo # <<>> /\ t.kind \in Kinds /\ self.buffer \in Seq(Ids)
  BY DEF MochatOK, MochatHandlers, MochatSelf, Mochat!ProcessInboundEvent
<1>1. UNCHANGED <<pending, published>>
  BY MochatHost DEF Mochat!ProcessInboundEvent, host
<1>2. \/ self' = self /\ tasks' = (tasks \ {t}) \cup goes(rest)
      \/ /\ ~Mochat!Knows(self.seen[t.kind], id)
         /\ \/ /\ self' = [noted EXCEPT !.buffer = Append(noted.buffer, id), !.timer = TRUE]
               /\ t.kind = "panel" /\ tasks' = (tasks \ {t}) \cup goes(rest)
            \/ self' = Mochat!Flushed(noted) /\ tasks' = (tasks \ {t}) \cup goes([rest EXCEPT !.out = Append(self.buffer, id)])
               /\ t.kind = "panel"
            \/ self' = noted /\ tasks' = (tasks \ {t}) \cup goes([rest EXCEPT !.out = <<id>>])
  BY Zenon DEF Mochat!ProcessInboundEvent
<1>3. /\ id \in ToSet(t.todo) /\ id \in Ids /\ Tail(t.todo) \in Seq(Ids)
      /\ ToSet(Tail(t.todo)) \subseteq ToSet(t.todo)
  <2>1. PICK q \in Seq(Ids) : q = t.todo /\ q # <<>>
    BY <1>0 DEF MochatHandlers
  <2>2. /\ Head(q) \in Ids /\ Head(q) = q[1] /\ Len(q) \in Nat \ {0} /\ DOMAIN q = 1 .. Len(q)
        /\ Tail(q) \in Seq(Ids) /\ Len(Tail(q)) = Len(q) - 1 /\ \A i \in 1 .. Len(Tail(q)) : Tail(q)[i] = q[i + 1]
    BY <2>1, HeadTailProperties, EmptySeq, LenProperties
  <2>3. DOMAIN Tail(q) = 1 .. Len(q) - 1 /\ \A i \in 1 .. Len(q) - 1 : i + 1 \in 1 .. Len(q)
    BY <2>2, LenProperties
  <2>4. ToSet(Tail(q)) \subseteq ToSet(q) /\ Head(q) \in ToSet(q)
    BY <2>2, <2>3 DEF ToSet
  <2> QED BY <2>1, <2>2, <2>4
<1>4. rest.out = <<>> /\ rest.kind = t.kind /\ rest.todo = Tail(t.todo)
  BY <1>0 DEF MochatHandlers
<1>5. id \in self.posted \cap OfKind(t.kind) /\ ToSet(Tail(t.todo)) \subseteq self.posted \cap OfKind(t.kind)
  BY <1>3 DEF MochatOnce, MochatHands
<1>6. ToSet(rest.out) = {} /\ Distinct(rest.out)
  BY <1>4, DistinctShort DEF ToSet
<1>7. CASE self' = self /\ tasks' = (tasks \ {t}) \cup goes(rest)
  <2>1. PICK new : new = {rest}
    BY Zenon
  <2>2. \A h \in new : h.out = <<>> /\ ToSet(h.todo) \subseteq self.posted \cap OfKind(h.kind)
    BY <1>4, <1>5, <2>1
  <2>3. tasks' \subseteq tasks \cup new
    BY <1>7, <2>1
  <2> QED BY <1>1, <1>7, <2>2, <2>3, MochatOnceStays
<1>8. PICK seen : seen = [self.seen EXCEPT ![t.kind] = Mochat!Remember(self.seen[t.kind], id)]
  BY Zenon
<1>9. noted.seen = seen /\ noted.buffer = self.buffer /\ noted.posted = self.posted /\ noted \in MochatSelf
  <2>1. noted = [self EXCEPT !.seen = seen]
    BY <1>0, <1>8 DEF MochatSelf
  <2>2. noted.seen = seen /\ noted.buffer = self.buffer /\ noted.posted = self.posted
    BY <1>0, <2>1, Zenon DEF MochatSelf
  <2>3. [self EXCEPT !.seen[t.kind] = Remember(self.seen[t.kind], id)] \in MochatSelf
    BY <1>0, <1>3, MochatNoted
  <2> QED BY <2>2, <2>3, MochatHost, Zenon
<1>10. PICK more : more = {id}
  BY Zenon
<1>11. ASSUME ~Mochat!Knows(self.seen[t.kind], id)
       PROVE  /\ more \cap SeenIds = {} /\ id \in ToSet(seen[t.kind])
              /\ \A k \in Kinds : /\ Len(seen[k]) <= Cardinality(ToSet(seen[k]))
                                  /\ ToSet(seen[k]) \subseteq self.posted \cap OfKind(k)
                                  /\ ToSet(self.seen[k]) \subseteq ToSet(seen[k])
  BY <1>0, <1>5, <1>8, <1>10, <1>11, MochatNotesOnce
<1>12. /\ ToSet(self.buffer) \subseteq ToSet(self.seen["panel"]) /\ ToSet(self.buffer) \cap ToSet(published) = {}
       /\ ToSet(published) \subseteq SeenIds /\ Distinct(self.buffer) /\ Distinct(published)
       /\ ToSet(self.buffer) \subseteq SeenIds
  <2>1. MochatPlaces
    BY DEF MochatOnce
  <2> QED BY <2>1 DEF MochatPlaces, SeenIds, Kinds
<1>13. PICK b : b = Append(self.buffer, id)
  BY Zenon
<1>14. ToSet(b) = ToSet(self.buffer) \cup {id} /\ ToSet(<<id>>) = {id} /\ ToSet(<<>>) = {}
       /\ Distinct(<<>>) /\ Distinct(<<id>>)
  <2>1. ToSet(<<>>) = {}
    BY DEF ToSet
  <2>2. ToSet(b) = ToSet(self.buffer) \cup {id}
    BY <1>0, <1>3, <1>13, ElementsAppended
  <2> QED BY <1>3, <2>1, <2>2, OneElement, DistinctShort
<1>15. ASSUME ~Mochat!Knows(self.seen[t.kind], id)
       PROVE  Distinct(b) /\ id \notin ToSet(self.buffer) /\ id \notin ToSet(published)
  <2>1. id \notin ToSet(self.buffer) /\ id \notin ToSet(published)
    BY <1>10, <1>11, <1>12, <1>15
  <2> QED BY <1>0, <1>3, <1>12, <1>13, <2>1, DistinctAppend
<1> HIDE DEF id, noted, rest
\* From here on: h has out, the channel the rest.
<1>16. ASSUME ~Mochat!Knows(self.seen[t.kind], id), NEW h, h.kind = t.kind, h.todo = Tail(t.todo),
              tasks' \subseteq (tasks \ {t}) \cup {h},
              self'.seen = seen, self'.posted = self.posted,
              \/ h.out = <<>> /\ self'.buffer = b /\ t.kind = "panel"
              \/ h.out = b /\ self'.buffer = <<>> /\ t.kind = "panel"
              \/ h.out = <<id>> /\ self'.buffer = self.buffer
       PROVE  MochatOnce'
  <2>1. PICK old : old = {t}
    BY Zenon
  <2>2. old \subseteq tasks /\ tasks' \subseteq (tasks \ old) \cup {h} /\ OutOf(old) = {}
    BY <1>0, <1>14, <1>16, <2>1 DEF OutOf
  <2>3. /\ Distinct(h.out) /\ Distinct(self'.buffer)
        /\ ToSet(h.out) \cup ToSet(self'.buffer) \subseteq OutOf(old) \cup ToSet(self.buffer) \cup more
        /\ ToSet(h.out) \cap ToSet(self'.buffer) = {}
        /\ ToSet(h.out) \cap ToSet(published') = {}
        /\ ToSet(self'.buffer) \cap ToSet(published') = {}
    <3>1. CASE h.out = <<>> /\ self'.buffer = b
      BY <1>1, <1>10, <1>12, <1>14, <1>15, <1>16, <3>1
    <3>2. CASE h.out = b /\ self'.buffer = <<>>
      BY <1>1, <1>10, <1>12, <1>14, <1>15, <1>16, <3>2
    <3>3. CASE h.out = <<id>> /\ self'.buffer = self.buffer
      BY <1>1, <1>10, <1>12, <1>14, <1>15, <1>16, <3>3
    <3> QED BY <1>16, <3>1, <3>2, <3>3
  <2>4. "panel" \in Kinds /\ ToSet(self.seen["panel"]) \subseteq ToSet(seen["panel"])
    BY <1>11, <1>16 DEF Kinds
  <2>5. ToSet(h.out) \subseteq ToSet(self'.seen[h.kind]) /\ ToSet(self'.buffer) \subseteq ToSet(self'.seen["panel"])
    BY <1>11, <1>12, <1>14, <1>16, <2>4
  <2>6. h.kind \in Kinds /\ ToSet(h.todo) \subseteq self.posted \cap OfKind(h.kind)
    BY <1>0, <1>5, <1>16
  <2>7. \A kind \in Kinds : /\ Len(self'.seen[kind]) <= Cardinality(ToSet(self'.seen[kind]))
                            /\ ToSet(self'.seen[kind]) \subseteq self.posted \cap OfKind(kind)
                            /\ ToSet(self.seen[kind]) \subseteq ToSet(self'.seen[kind])
    BY <1>11, <1>16
  <2>8. more \cap SeenIds = {} /\ UNCHANGED pending /\ Distinct(published')
        /\ ToSet(published') \subseteq ToSet(published) \cup OutOf(old)
    BY <1>1, <1>11, <1>12, <1>16
  <2> QED BY <1>16, <2>2, <2>3, <2>5, <2>6, <2>7, <2>8, MochatOnceGoes
<1>17. CASE /\ ~Mochat!Knows(self.seen[t.kind], id)
            /\ self' = [noted EXCEPT !.buffer = Append(noted.buffer, id), !.timer = TRUE]
            /\ t.kind = "panel" /\ tasks' = (tasks \ {t}) \cup goes(rest)
  <2>1. self'.seen = seen /\ self'.posted = self.posted /\ self'.buffer = b
    BY <1>9, <1>13, <1>17, Zenon DEF MochatSelf
  <2>2. tasks' \subseteq (tasks \ {t}) \cup {rest}
    BY <1>17
  <2> QED BY <1>4, <1>16, <1>17, <2>1, <2>2
<1>18. CASE /\ ~Mochat!Knows(self.seen[t.kind], id)
            /\ self' = Mochat!Flushed(noted) /\ tasks' = (tasks \ {t}) \cup goes([rest EXCEPT !.out = Append(self.buffer, id)])
            /\ t.kind = "panel"
  <2>1. self'.seen = seen /\ self'.posted = self.posted /\ self'.buffer = <<>>
    BY <1>9, <1>18, Zenon DEF MochatSelf, Mochat!Flushed
  <2>2. PICK h : h = [rest EXCEPT !.out = b]
    BY Zenon
  <2>3. h.out = b /\ h.kind = t.kind /\ h.todo = Tail(t.todo)
    BY <1>0, <1>3, <2>2, Zenon DEF MochatHandlers, rest
  <2>4. tasks' \subseteq (tasks \ {t}) \cup {h}
    BY <1>13, <1>18, <2>2
  <2> QED BY <1>16, <1>18, <2>1, <2>3, <2>4
<1>19. CASE /\ ~Mochat!Knows(self.seen[t.kind], id)
            /\ self' = noted /\ tasks' = (tasks \ {t}) \cup goes([rest EXCEPT !.out = <<id>>])
  <2>1. PICK h : h = [rest EXCEPT !.out = <<id>>]
    BY Zenon
  <2>2. h.out = <<id>> /\ h.kind = t.kind /\ h.todo = Tail(t.todo)
    BY <1>0, <1>3, <2>1, Zenon DEF MochatHandlers, rest
  <2>3. tasks' \subseteq (tasks \ {t}) \cup {h}
    BY <1>19, <2>1
  <2> QED BY <1>9, <1>16, <1>19, <2>2, <2>3
<1> QED BY <1>2, <1>7, <1>17, <1>18, <1>19, Zenon

LEMMA MochatMovesOnce ==
  ASSUME HostOK, MochatOK, MochatOnce,
         Mochat!TimerFires \/ \E t \in tasks : Mochat!DispatchEntries(t)
  PROVE  MochatOnce'
<1>0. /\ self \in MochatSelf /\ self.buffer \in Seq(Ids) /\ published \in Seq(Ids) /\ tasks \subseteq MochatHandlers
      /\ MochatWindow /\ MochatHands /\ MochatPlaces
  BY DEF HostOK, MochatOK, MochatSelf, MochatOnce
<1>1. PICK noted : noted = {}
  BY Zenon
<1>2. /\ \A kind \in Kinds : /\ Len(self.seen[kind]) <= Cardinality(ToSet(self.seen[kind]))
                             /\ ToSet(self.seen[kind]) \subseteq self.posted \cap OfKind(kind)
      /\ noted \cap SeenIds = {} /\ ToSet(<<>>) = {} /\ Distinct(<<>>)
  <2>1. ToSet(<<>>) = {}
    BY DEF ToSet
  <2>2. Distinct(<<>>)
    BY DistinctShort
  <2> QED BY <1>0, <1>1, <2>1, <2>2 DEF MochatWindow
<1>3. CASE Mochat!TimerFires
  <2>1. PICK h, old : /\ h = [by |-> "timer", kind |-> "panel", todo |-> <<>>, out |-> self.buffer, pc |-> "work"]
                      /\ old = {}
    BY Zenon
  <2>2. /\ h.kind = "panel" /\ h.todo = <<>> /\ h.out = self.buffer /\ "panel" \in Kinds
        /\ OutOf(old) = {} /\ old \subseteq tasks
    BY <2>1 DEF OutOf, Kinds
  <2>3. /\ self' = Mochat!Flushed(self) /\ tasks' \subseteq (tasks \ old) \cup {h}
        /\ UNCHANGED <<pending, published>>
    BY <1>3, <2>1, MochatHost DEF Mochat!TimerFires, host
  <2>4. self'.buffer = <<>> /\ self'.seen = self.seen /\ self'.posted = self.posted
    BY <1>0, <2>3, Zenon DEF MochatSelf, Mochat!Flushed
  <2>5. /\ ToSet(h.todo) \subseteq self.posted \cap OfKind(h.kind)
        /\ ToSet(h.out) \subseteq ToSet(self'.seen[h.kind]) /\ ToSet(self'.buffer) \subseteq ToSet(self'.seen["panel"])
        /\ ToSet(published') \subseteq ToSet(published) \cup OutOf(old)
        /\ ToSet(h.out) \cup ToSet(self'.buffer) \subseteq OutOf(old) \cup ToSet(self.buffer) \cup noted
        /\ ToSet(h.out) \cap ToSet(self'.buffer) = {} /\ ToSet(h.out) \cap ToSet(published') = {}
        /\ ToSet(self'.buffer) \cap ToSet(published') = {}
        /\ Distinct(h.out) /\ Distinct(self'.buffer) /\ Distinct(published')
    BY <1>0, <1>2, <2>2, <2>3, <2>4 DEF MochatPlaces
  <2>6. \A kind \in Kinds : /\ Len(self'.seen[kind]) <= Cardinality(ToSet(self'.seen[kind]))
                            /\ ToSet(self'.seen[kind]) \subseteq self.posted \cap OfKind(kind)
                            /\ ToSet(self.seen[kind]) \subseteq ToSet(self'.seen[kind])
    BY <1>2, <2>4
  <2>7. h.kind \in Kinds /\ noted \cap SeenIds = {} /\ UNCHANGED pending /\ self'.posted = self.posted
    BY <1>2, <2>2, <2>3, <2>4
  <2>8. old \subseteq tasks /\ tasks' \subseteq (tasks \ old) \cup {h}
    BY <2>2, <2>3
  <2> QED BY <2>5, <2>6, <2>7, <2>8, MochatOnceGoes
<1>4. ASSUME NEW t \in tasks, Mochat!DispatchEntries(t)
      PROVE  MochatOnce'
  <2>0. t \in MochatHandlers /\ t.kind \in Kinds /\ t.out \in Seq(Ids) /\ t.out # <<>>
    BY <1>0, <1>4 DEF MochatHandlers, Mochat!DispatchEntries
  <2>1. PICK h, old : h = [t EXCEPT !.out = <<>>] /\ old = {t}
    BY Zenon
  <2>2. h.kind = t.kind /\ h.todo = t.todo /\ h.out = <<>> /\ OutOf(old) = ToSet(t.out) /\ old \subseteq tasks
    BY <2>0, <2>1 DEF MochatHandlers, OutOf
  <2>3. /\ published' = published \/ published' = published \o t.out
        /\ tasks' \subseteq (tasks \ old) \cup {h} /\ UNCHANGED <<self, pending>>
    <3>1. /\ HandleMessage(Mochat!ById(Mochat!Last(t.out)), t.out) /\ UNCHANGED <<self, pending>>
          /\ tasks' = (tasks \ {t}) \cup (IF t.todo = <<>> THEN {} ELSE {[t EXCEPT !.out = <<>>]})
      BY <1>4, MochatHost, MochatSets DEF Mochat!DispatchEntries
    <3>2. published' = published \/ published' = published \o t.out
      BY <3>1, Zenon DEF HandleMessage
    <3> QED BY <2>1, <3>1, <3>2
  <2>4. /\ ToSet(t.out) \subseteq ToSet(self.seen[t.kind]) /\ Distinct(t.out)
        /\ ToSet(t.out) \cap (ToSet(self.buffer) \cup ToSet(published)) = {}
        /\ ToSet(t.todo) \subseteq self.posted \cap OfKind(t.kind)
    BY <1>0 DEF MochatHands
  <2>5. Distinct(published') /\ ToSet(published') \subseteq ToSet(published) \cup OutOf(old)
    <3>1. CASE published' = published
      BY <1>0, <3>1 DEF MochatPlaces
    <3>2. CASE published' = published \o t.out
      <4>1. PICK out \in Seq(Ids) : out = t.out
        BY <2>0
      <4>2. Distinct(published \o out)
        BY <1>0, <2>4, <4>1, DistinctConcat DEF MochatPlaces
      <4>3. ToSet(published \o out) = ToSet(published) \cup ToSet(out)
        BY <1>0, <4>1, SetOfConcat
      <4> QED BY <2>2, <3>2, <4>1, <4>2, <4>3
    <3> QED BY <2>3, <3>1, <3>2
  <2>6. /\ ToSet(h.todo) \subseteq self.posted \cap OfKind(h.kind) /\ h.kind \in Kinds
        /\ ToSet(h.out) \subseteq ToSet(self'.seen[h.kind]) /\ ToSet(self'.buffer) \subseteq ToSet(self'.seen["panel"])
        /\ ToSet(h.out) \cup ToSet(self'.buffer) \subseteq OutOf(old) \cup ToSet(self.buffer) \cup noted
        /\ ToSet(h.out) \cap ToSet(self'.buffer) = {} /\ ToSet(h.out) \cap ToSet(published') = {}
        /\ Distinct(h.out) /\ Distinct(self'.buffer)
    BY <1>0, <1>2, <2>0, <2>2, <2>3, <2>4 DEF MochatPlaces
  <2>7. ToSet(self'.buffer) \cap ToSet(published') = {}
    BY <1>0, <2>2, <2>3, <2>4, <2>5 DEF MochatPlaces
  <2>8. \A kind \in Kinds : /\ Len(self'.seen[kind]) <= Cardinality(ToSet(self'.seen[kind]))
                            /\ ToSet(self'.seen[kind]) \subseteq self.posted \cap OfKind(kind)
                            /\ ToSet(self.seen[kind]) \subseteq ToSet(self'.seen[kind])
    BY <1>2, <2>3
  <2> QED BY <1>2, <2>2, <2>3, <2>5, <2>6, <2>7, <2>8, MochatOnceGoes
<1> QED BY <1>3, <1>4

\* A new process has seen nothing and published nothing.
LEMMA MochatOnceBegins ==
  ASSUME self.buffer = <<>>, \A kind \in Kinds : self.seen[kind] = <<>>, tasks = {}, published = <<>>,
         Cardinality(self.posted \cup Coming) <= Window
  PROVE  MochatOnce
<1>1. PICK none : none = <<>>
  BY Zenon
<1>2. ToSet(none) = {}
  BY <1>1 DEF ToSet
<1>3. Distinct(none) /\ Len(none) = 0
  BY <1>1, DistinctShort, EmptySeq
<1>4. Cardinality(ToSet(none)) = 0
  BY <1>2, FS_EmptySet
<1>5. MochatWindow
  BY <1>1, <1>2, <1>3, <1>4 DEF MochatWindow
<1>6. MochatHands
  BY DEF MochatHands
<1>7. MochatPlaces
  BY <1>1, <1>2, <1>3 DEF MochatPlaces, Kinds
<1> QED BY <1>5, <1>6, <1>7 DEF MochatOnce

LEMMA MochatOnceRestarts ==
  ASSUME self'.buffer = <<>>, \A kind \in Kinds : self'.seen[kind] = <<>>, tasks' = {}, published' = <<>>,
         Cardinality(self'.posted \cup Coming') <= Window
  PROVE  MochatOnce'
<1>1. PICK none : none = <<>>
  BY Zenon
<1>2. ToSet(none) = {}
  BY <1>1 DEF ToSet
<1>3. Distinct(none) /\ Len(none) = 0
  BY <1>1, DistinctShort, EmptySeq
<1>4. Cardinality(ToSet(none)) = 0
  BY <1>2, FS_EmptySet
<1>5. MochatWindow'
  BY <1>1, <1>2, <1>3, <1>4 DEF MochatWindow, OfKind, Mochat!SessionIds
<1>6. MochatHands'
  BY DEF MochatHands
<1>7. MochatPlaces'
  BY <1>1, <1>2, <1>3 DEF MochatPlaces, SeenIds, Kinds
<1> QED BY <1>5, <1>6, <1>7 DEF MochatOnce

LEMMA MochatOnceKept ==
  ASSUME HostOK, MochatOK, Mochat!Next, MochatOnce
  PROVE  MochatOnce'
<1>0. self \in MochatSelf /\ self.file \in Nat /\ self.posted \in SUBSET Ids
  BY DEF MochatOK, MochatSelf
<1>1. ASSUME self'.seen = self.seen, self'.buffer = self.buffer, self'.posted = self.posted,
             UNCHANGED <<tasks, pending, published>>
      PROVE  MochatOnce'
  <2>1. PICK none : none = {}
    BY Zenon
  <2>2. tasks' \subseteq tasks \cup none
    BY <1>1
  <2>3. \A h \in none : h.out = <<>> /\ ToSet(h.todo) \subseteq self.posted \cap OfKind(h.kind)
    BY <2>1
  <2> QED BY <1>1, <2>2, <2>3, MochatOnceStays
<1>2. CASE Host
  BY <1>1, <1>2, HostUnpublished, ComingFewer
<1>3. CASE Mochat!Connect \/ Mochat!Disconnect \/ Mochat!WatchAsks \/ Mochat!SaveCursors \/ Mochat!Send
  <2>1. UNCHANGED <<tasks, pending, published>>
    BY <1>3, MochatHost DEF Mochat!Connect, Mochat!Disconnect, Mochat!WatchAsks, Mochat!SaveCursors, Mochat!Send, host
  <2>2. \/ self' = self
        \/ \E ws : self' = [self EXCEPT !.ws = ws]
        \/ \E ws, fallback : self' = [self EXCEPT !.ws = ws, !.fallback = fallback]
        \/ \E asked : self' = [self EXCEPT !.asked = asked]
        \/ \E file, saving : self' = [self EXCEPT !.file = file, !.saving = saving]
    BY <1>3, Zenon DEF Mochat!Connect, Mochat!Disconnect, Mochat!WatchAsks, Mochat!SaveCursors, Mochat!Send
  <2>3. self'.seen = self.seen /\ self'.buffer = self.buffer /\ self'.posted = self.posted
    BY <1>0, <2>2, Zenon DEF MochatSelf
  <2> QED BY <1>1, <2>1, <2>3
<1>4. CASE Mochat!Restart
  <2>1. /\ self' = [Mochat!Started(self.file) EXCEPT !.posted = self.posted]
        /\ tasks' = {} /\ published' = <<>> /\ UNCHANGED pending
    BY <1>4 DEF Mochat!Restart
  <2>2. PICK posted \in SUBSET Ids, file \in Nat : posted = self.posted /\ file = self.file
    BY <1>0
  <2>3. Mochat!Started(file) \in MochatSelf /\ Mochat!Started(file).buffer = <<>>
        /\ \A kind \in Kinds : Mochat!Started(file).seen[kind] = <<>>
    <3>1. PICK s : s = Mochat!Started(file)
      BY Zenon
    <3>2. s \in MochatSelf /\ s.buffer = <<>> /\ \A kind \in Kinds : s.seen[kind] = <<>>
      BY <3>1, MochatStarts
    <3> QED BY <3>1, <3>2, Zenon
  <2>4. /\ self'.buffer = Mochat!Started(file).buffer /\ self'.seen = Mochat!Started(file).seen
        /\ self'.posted = self.posted
    BY <2>1, <2>2, <2>3, Zenon DEF MochatSelf
  <2>5. Coming' = Coming
    BY <2>1 DEF Coming
  <2>6. Cardinality(self'.posted \cup Coming') <= Window
    BY <2>4, <2>5 DEF MochatOnce, MochatWindow
  <2> QED BY <2>1, <2>3, <2>4, <2>6, MochatOnceRestarts
<1> QED BY <1>2, <1>3, <1>4, MochatHost, MochatComesOnce, MochatAnswersOnce, MochatLockOnce, MochatProcessesOnce,
           MochatMovesOnce DEF Mochat!Next

-----------------------------------------------------------------------------
(* What keeps a message from being published twice, for all channels. The      *)
(* windows are as large as the messages of one run are many.                   *)

OnceInv ==
  /\ Is(Windowed) => SeenOnce
  /\ Is({"email"}) => EmailOnce
  /\ Is({"slack"}) => SlackOnce
  /\ Is({"mochat"}) => MochatOnce

TrafficFits == \A d \in Traffic : Cardinality({id \in Ids : d[id] > 0}) <= Window

LEMMA SingleBegins ==
  ASSUME NEW F, NEW N
  PROVE  Single({}, N, <<>>, F)
<1>1. ToSet(<<>>) = {}
  BY DEF ToSet
<1>2. PICK p : p = <<>>
  BY Zenon
<1>3. ToSet(p) = {} /\ DOMAIN p = {}
  BY <1>1, <1>2, EmptySeq
<1>4. Single({}, N, p, F)
  BY <1>3, Zenon DEF Single
<1> QED BY <1>2, <1>4, Zenon

LEMMA SeenOnceBegins ==
  ASSUME HostInit, TrafficFits, self.seen = <<>>
  PROVE  SeenOnce
<1>1. Cardinality(Coming) <= Window
  BY DEF HostInit, TrafficFits, Coming
<1>2. PICK none : none = self.seen
  BY Zenon
<1>3. ToSet(none) = {}
  BY <1>2 DEF ToSet
<1>4. Len(none) = 0
  BY <1>2, EmptySeq
<1>5. Cardinality(ToSet(none)) = 0
  BY <1>3, FS_EmptySet
<1>6. Single(tasks, ToSet(none), published, Free)
  BY SingleBegins, Zenon DEF HostInit
<1>7. ToSet(none) \cup Coming = Coming
  BY <1>3, Zenon
<1>8. Len(none) <= Cardinality(ToSet(none))
  BY <1>4, <1>5
<1>9. Cardinality(ToSet(none) \cup Coming) <= Window
  BY <1>1, <1>7, Zenon
<1> QED BY <1>2, <1>6, <1>8, <1>9, Zenon DEF SeenOnce

\* The adapter that begins is the one with the name.
LEMMA NamedInit ==
  ASSUME Init
  PROVE  /\ Is(Windowed) => self.seen = <<>>
         /\ Is({"email"}) => Email!Init
         /\ Is({"mochat"}) => Mochat!Init
<1>1. /\ Telegram!Init => self.name = "telegram"
      /\ Discord!Init => self.name = "discord"
      /\ Matrix!Init => self.name = "matrix"
      /\ DingTalk!Init => self.name = "dingtalk"
      /\ Email!Init => self.name = "email"
      /\ Slack!Init => self.name = "slack"
      /\ Mochat!Init => self.name = "mochat"
  BY TelegramBegins, DiscordBegins, MatrixBegins, DingTalkBegins, EmailBegins, SlackBegins, MochatBegins
     DEF TelegramOK, DiscordOK, MatrixOK, DingTalkOK, EmailOK, SlackOK, MochatOK, TelegramSelf, DiscordSelf,
         MatrixSelf, DingTalkSelf, EmailSelf, SlackSelf, MochatSelf
<1>2. Feishu!Init \/ QQ!Init \/ WhatsApp!Init \/ Wecom!Init \/ WecomSelfbuilt!Init
      => self.seen = <<>> /\ Is(Windowed)
  BY DEF Feishu!Init, QQ!Init, WhatsApp!Init, Wecom!Init, WecomSelfbuilt!Init, Is, Windowed
<1> QED BY <1>1, <1>2 DEF Init, Is, Windowed

LEMMA OnceBegins ==
  ASSUME Init, TrafficFits
  PROVE  OnceInv
<1>1. HostInit /\ ChannelInv
  BY ChannelBegins
<1>2. tasks = {} /\ published = <<>>
  BY <1>1 DEF HostInit
<1>3. CASE Is(Windowed)
  <2>1. self.seen = <<>>
    BY <1>3, NamedInit
  <2>2. SeenOnce
    BY <1>1, <2>1, SeenOnceBegins
  <2> QED BY <1>3, <2>2 DEF OnceInv, Is, Windowed
<1>4. CASE Is({"email"})
  <2>1. self.got = <<>>
    BY <1>4, NamedInit DEF Email!Init
  <2>2. PICK got : got = self.got
    BY Zenon
  <2>3. ToSet(got) = {} /\ Distinct(got)
    BY <2>1, <2>2, DistinctShort DEF ToSet
  <2>4. EmailHands = {}
    BY <2>2, <2>3 DEF EmailHands
  <2>5. EmailOnce
    BY <1>2, <2>2, <2>3, <2>4, SingleBegins DEF EmailOnce
  <2> QED BY <1>4, <2>5 DEF OnceInv, Is, Windowed
<1>5. CASE Is({"slack"})
  <2>1. {t \in tasks : Counts(t)} = {}
    BY <1>2
  <2>2. Single({t \in tasks : Counts(t)}, SlackNoted, published, {})
    BY <1>2, <2>1, SingleBegins, Zenon
  <2>3. SlackOnce
    BY <1>2, <2>2 DEF SlackOnce
  <2> QED BY <1>5, <2>3 DEF OnceInv, Is, Windowed
<1>6. CASE Is({"mochat"})
  <2>1. self = Mochat!Started(0)
    BY <1>6, NamedInit DEF Mochat!Init
  <2>2. PICK zero : zero = 0
    BY Zenon
  <2>3. self.buffer = <<>> /\ \A kind \in Kinds : self.seen[kind] = <<>>
    <3>1. PICK none \in SUBSET Ids : none = {}
      BY Zenon
    <3>2. zero \in Nat
      BY <2>2
    <3>3. self = Mochat!Started(zero)
      BY <2>1, <2>2
    <3> HIDE <2>1, <2>2
    <3>4. PICK s : s = Mochat!Started(zero)
      BY Zenon
    <3>5. s.buffer = <<>> /\ \A kind \in Kinds : s.seen[kind] = <<>>
      BY <3>1, <3>2, <3>4, MochatStarts
    <3> QED BY <3>3, <3>4, <3>5, Zenon
  <2>4. self.posted = {}
    BY <2>1 DEF Mochat!Started
  <2>5. Cardinality(self.posted \cup Coming) <= Window
    <3>1. self.posted \cup Coming = Coming
      BY <2>4, Zenon
    <3> QED BY <1>1, <3>1 DEF HostInit, TrafficFits, Coming
  <2>6. MochatOnce
    BY <1>2, <2>3, <2>5, MochatOnceBegins
  <2> QED BY <1>6, <2>6 DEF OnceInv, Is, Windowed
<1>7. CASE ~Is(Windowed \cup {"email", "slack", "mochat"})
  BY <1>7 DEF OnceInv, Is
<1> QED BY <1>3, <1>4, <1>5, <1>6, <1>7 DEF Is

LEMMA OnceUnmoved ==
  ASSUME OnceInv, UNCHANGED vars
  PROVE  OnceInv'
<1>1. /\ Coming' = Coming /\ Free' = Free /\ SeenIds' = SeenIds /\ EmailNoted' = EmailNoted /\ EmailHands' = EmailHands
      /\ SlackNoted' = SlackNoted
  BY DEF vars, Coming, Free, Unnumbered, Is, SeenIds, EmailNoted, EmailHands, SlackNoted
<1>2. (SeenOnce => SeenOnce') /\ (EmailOnce => EmailOnce') /\ (SlackOnce => SlackOnce')
  BY <1>1 DEF vars, SeenOnce, EmailOnce, SlackOnce, Counts, Slack!Mentions, Slack!Twin
<1>3. MochatOnce => MochatOnce'
  BY <1>1 DEF vars, MochatOnce, MochatWindow, MochatHands, MochatPlaces, OfKind, Mochat!SessionIds
<1> QED BY <1>2, <1>3 DEF vars, OnceInv, Is

LEMMA OnceMoves ==
  ASSUME ChannelInv, OnceInv, Next
  PROVE  OnceInv'
<1>1. self'.name = self.name /\ HostOK /\ AdapterOK
  BY NameStays DEF ChannelInv
<1>2. CASE Is(Windowed)
  <2>1. SeenOnce
    BY <1>2 DEF OnceInv
  <2>2. SeenOnce'
    BY <1>1, <1>2, <2>1, Named, FeishuOnce, QQOnce, WhatsAppOnce, WecomOnce, WecomSelfbuiltOnce DEF Next, Is, Windowed
  <2> QED BY <1>1, <1>2, <2>2 DEF OnceInv, Is, Windowed
<1>3. CASE Is({"email"})
  <2>1. EmailOnce'
    BY <1>1, <1>3, Named, EmailOnceKept DEF Next, Is, OnceInv
  <2> QED BY <1>1, <1>3, <2>1 DEF OnceInv, Is, Windowed
<1>4. CASE Is({"slack"})
  <2>1. SlackOnce'
    BY <1>1, <1>4, Named, SlackOnceKept DEF Next, Is, OnceInv
  <2> QED BY <1>1, <1>4, <2>1 DEF OnceInv, Is, Windowed
<1>5. CASE Is({"mochat"})
  <2>1. MochatOnce'
    BY <1>1, <1>5, Named, MochatOnceKept DEF Next, Is, OnceInv
  <2> QED BY <1>1, <1>5, <2>1 DEF OnceInv, Is, Windowed
<1>6. CASE ~Is(Windowed \cup {"email", "slack", "mochat"})
  BY <1>1, <1>6 DEF OnceInv, Is
<1> QED BY <1>2, <1>3, <1>4, <1>5, <1>6 DEF Is

\* A message that the platform delivers again, or reports in two ways, is given
\* to the agent once, in every channel that promises it (_processed_message_ids
\* and its kin, _processed_uids, the skipped twin event of _on_socket_request,
\* _remember_message_id), whatever the handlers do between their awaits: while no
\* more messages come than a window has room for, and but for enter_agent.
THEOREM EachPublishedOnce ==
  ASSUME \A d \in Traffic : Cardinality({id \in Ids : d[id] > 0}) <= Window
  PROVE  Spec => []PublishedOnce
<1>0. TrafficFits
  BY DEF TrafficFits
<1>1. Init => OnceInv
  BY <1>0, OnceBegins
<1>2. ChannelInv /\ OnceInv /\ [Next]_vars => OnceInv'
  BY OnceUnmoved, OnceMoves
<1>3. ChannelInv /\ OnceInv => PublishedOnce
  <2> SUFFICES ASSUME ChannelInv, OnceInv, Is(Again \cup {"mochat"}) \/ (Is({"slack"}) /\ self.botId),
                      NEW i \in DOMAIN published, NEW j \in DOMAIN published, published[i] = published[j]
               PROVE  i = j \/ Unnumbered(published[i])
    BY DEF PublishedOnce
  <2>1. CASE Is(Windowed)
    <3>1. Single(tasks, ToSet(self.seen), published, Free)
      BY <2>1 DEF OnceInv, SeenOnce
    <3> QED BY <3>1, Zenon DEF Single, Free
  <2>2. CASE Is({"email"})
    <3>1. Single(EmailHands, EmailNoted, published, {})
      BY <2>2 DEF OnceInv, EmailOnce
    <3> QED BY <3>1, Zenon DEF Single
  <2>3. CASE Is({"slack"}) /\ self.botId
    <3>1. Single({t \in tasks : Counts(t)}, SlackNoted, published, {})
      BY <2>3 DEF OnceInv, SlackOnce
    <3> QED BY <3>1, Zenon DEF Single
  <2>4. CASE Is({"mochat"})
    <3>1. Distinct(published)
      BY <2>4 DEF OnceInv, MochatOnce, MochatPlaces
    <3> QED BY <3>1, Zenon DEF Distinct
  <2> QED BY <2>1, <2>2, <2>3, <2>4 DEF Is, Again, Windowed
<1> QED BY <1>1, <1>2, <1>3, ChannelInvariant, PTL DEF Spec

-----------------------------------------------------------------------------
(* The parts of a reply. A reply is known by its key, the number of the    *)
(* message it answers and whether it is final; Gone are the keys of what   *)
(* the dispatcher has taken.                                               *)

KeyOf(m) == <<m.re, m.final>>
Whole == {i \in DOMAIN shown : shown[i] \notin cut}
Gone == ToSet(shown) \cup cut \cup (IF snd = NoSend THEN {} ELSE {Message})

Together ==
  \A i, j \in Whole :
    i < j => /\ shown[i] = shown[j] => \A k \in Whole : k \in i .. j => shown[k] = shown[i]
             /\ shown[i][1] = shown[j][1] => ~(shown[i][2] /\ ~shown[j][2])

\* What is being sent is the latest that is shown, and no reply to the same
\* message came before its progress.
SendLast ==
  snd # NoSend =>
    /\ \A i, j \in Whole : i < j /\ shown[i] = Message => shown[j] = Message
    /\ ~snd.msg.final => <<snd.msg.re, TRUE>> \notin ToSet(shown) \cup cut

\* The replies in the queue are different, progress first, and none was taken.
Queued ==
  /\ \A p, q \in DOMAIN outbound :
       p < q /\ outbound[p].re = outbound[q].re => ~outbound[p].final /\ outbound[q].final
  /\ \A p \in DOMAIN outbound : /\ KeyOf(outbound[p]) \notin Gone
                                /\ ~outbound[p].final => <<outbound[p].re, TRUE>> \notin Gone

\* A turn has not answered yet, and what it reported it has noted.
Answering ==
  /\ \A t, u \in turns : t.ev.id = u.ev.id => t = u
  /\ \A t \in turns :
       /\ \A p \in DOMAIN outbound : outbound[p].re = t.ev.id => ~outbound[p].final /\ t.told
       /\ <<t.ev.id, TRUE>> \notin Gone
       /\ ~t.told => <<t.ev.id, FALSE>> \notin Gone

\* A message in the inbound queue has neither turn nor reply.
Waiting ==
  /\ \A p, q \in DOMAIN inbound : inbound[p].id = inbound[q].id => p = q
  /\ \A p \in DOMAIN inbound :
       /\ \A t \in turns : t.ev.id # inbound[p].id
       /\ \A q \in DOMAIN outbound : outbound[q].re # inbound[p].id
       /\ \A k \in Gone : k[1] # inbound[p].id

\* All are about messages that were published.
AllPublished ==
  /\ \A p \in DOMAIN inbound : inbound[p].id \in ToSet(published)
  /\ \A t \in turns : t.ev.id \in ToSet(published)
  /\ \A q \in DOMAIN outbound : outbound[q].re \in ToSet(published)
  /\ \A k \in Gone : k[1] \in ToSet(published)

InOrder == Together /\ SendLast /\ Queued /\ Answering /\ Waiting /\ AllPublished
PartsInv == ~Is({"email", "mochat"}) /\ IsInjective(published) => InOrder

\* What a step leaves alone.
LEMMA PartsUnmoved ==
  ASSUME InOrder, UNCHANGED host
  PROVE  InOrder'
BY Zenon DEF host, InOrder, Together, SendLast, Queued, Answering, Waiting, AllPublished, Whole, Gone, Message, KeyOf

\* The dispatcher moves a send on, ends it or shows a part.
LEMMA PartsSent ==
  ASSUME HostOK, InOrder, SendStep, ~Is({"email"})
  PROVE  InOrder'
<1>1. PICK n \in Nat : n = Len(shown) /\ DOMAIN shown = 1 .. n
  BY LenProperties DEF HostOK
<1>2. \/ shown' = shown
      \/ \E k \in Keys : /\ shown' = Append(shown, k) /\ Len(shown') = n + 1 /\ DOMAIN shown' = 1 .. n + 1
                         /\ shown'[n + 1] = k /\ \A i \in 1 .. n : shown'[i] = shown[i]
                         /\ k \in cut \/ (Sending /\ k = Message)
  <2>1. CASE shown' = shown
    BY <2>1
  <2>2. CASE shown' # shown
    <3>1. PICK k \in Keys : shown' = Joined(k) /\ (k \in cut \/ (Sending /\ k = Message))
      BY <2>2 DEF SendStep
    <3>2. shown' = Append(shown, k)
      BY <2>2, <3>1 DEF Joined
    <3>3. /\ Append(shown, k) \in Seq(Keys) /\ Len(Append(shown, k)) = n + 1
          /\ Append(shown, k)[n + 1] = k /\ \A i \in 1 .. n : Append(shown, k)[i] = shown[i]
      BY <1>1, AppendProperties DEF HostOK
    <3>4. DOMAIN Append(shown, k) = 1 .. n + 1
      BY <3>3, LenProperties
    <3> QED BY <3>1, <3>2, <3>3, <3>4, Zenon
  <2> QED BY <2>1, <2>2
<1>3. Sending => snd # NoSend
  BY DEF Sending, NoSend
<1>4. snd' # NoSend => snd # NoSend /\ snd'.msg = snd.msg /\ Message' = Message
  BY <1>3 DEF SendStep, Message
<1>5. cut \subseteq cut' /\ \A k \in cut' : k \in cut \/ (snd # NoSend /\ k = Message)
  BY <1>3 DEF SendStep
<1>6. ToSet(shown') \subseteq Gone
  <2>1. ASSUME NEW i \in DOMAIN shown' PROVE shown'[i] \in Gone
    BY <1>1, <1>2, <1>3 DEF Gone, ToSet
  <2> QED BY <2>1 DEF ToSet
<1>7. Gone' \subseteq Gone
  BY <1>4, <1>5, <1>6 DEF Gone
<1>8. UNCHANGED <<inbound, turns, outbound, published>>
  BY DEF SendStep
<1>9. Queued' /\ Answering' /\ Waiting' /\ AllPublished'
  <2>1. Queued' /\ Answering'
    BY <1>7, <1>8, Zenon DEF InOrder, Queued, Answering, KeyOf
  <2>2. Waiting'
    BY <1>7, <1>8, Zenon DEF InOrder, Waiting
  <2>3. AllPublished'
    BY <1>7, <1>8, Zenon DEF InOrder, AllPublished
  <2> QED BY <2>1, <2>2, <2>3
\* An occurrence is either an earlier one or the last, which is of the message that is sent.
<1>10. ASSUME NEW i \in Whole'
       PROVE  \/ i \in Whole /\ i \in 1 .. n /\ shown'[i] = shown[i]
              \/ i = n + 1 /\ snd # NoSend /\ shown'[i] = Message
  BY <1>1, <1>2, <1>3, <1>5 DEF Whole
<1>11. snd # NoSend => /\ \A i, j \in Whole : i < j /\ shown[i] = Message => shown[j] = Message
                       /\ ~snd.msg.final => <<snd.msg.re, TRUE>> \notin ToSet(shown) \cup cut
  BY DEF InOrder, SendLast
<1>12. Together'
  <2> SUFFICES ASSUME NEW i \in Whole', NEW j \in Whole', i < j
               PROVE  /\ shown'[i] = shown'[j] => \A k \in Whole' : k \in i .. j => shown'[k] = shown'[i]
                      /\ shown'[i][1] = shown'[j][1] => ~(shown'[i][2] /\ ~shown'[j][2])
    BY Zenon DEF Together
  <2>1. i \in Whole /\ i \in 1 .. n /\ shown'[i] = shown[i]
    <3>1. i \in Nat /\ j \in Nat /\ j <= n + 1
      BY <1>1, <1>10
    <3>2. i # n + 1
      BY <1>1, <3>1
    <3> QED BY <1>10, <3>2
  <2>2. CASE j \in Whole /\ j \in 1 .. n /\ shown'[j] = shown[j]
    <3>1. /\ shown[i] = shown[j] => \A k \in Whole : k \in i .. j => shown[k] = shown[i]
          /\ shown[i][1] = shown[j][1] => ~(shown[i][2] /\ ~shown[j][2])
      BY <2>1, <2>2 DEF InOrder, Together
    <3>2. ASSUME NEW k \in Whole', k \in i .. j PROVE k \in Whole /\ shown'[k] = shown[k]
      BY <1>10, <2>1, <2>2, <3>2
    <3> QED BY <2>1, <2>2, <3>1, <3>2
  <2>3. CASE j = n + 1 /\ snd # NoSend /\ shown'[j] = Message
    <3>1. ASSUME shown'[i] = shown'[j], NEW k \in Whole', k \in i .. j PROVE shown'[k] = shown'[i]
      <4>1. shown[i] = Message
        BY <2>1, <2>3, <3>1
      <4>2. CASE k \in Whole /\ k \in 1 .. n /\ shown'[k] = shown[k]
        <5>1. i = k \/ i < k
          BY <2>1, <3>1, <4>2
        <5> QED BY <1>11, <2>1, <2>3, <3>1, <4>1, <4>2, <5>1
      <4>3. CASE k = n + 1
        BY <2>3, <3>1, <4>3
      <4> QED BY <1>10, <4>2, <4>3
    <3>2. ASSUME shown'[i][1] = shown'[j][1], shown'[i][2], ~shown'[j][2] PROVE FALSE
      <4>1. Message[1] = snd.msg.re /\ Message[2] = snd.msg.final
        BY DEF Message
      <4>2. shown[i] \in Keys /\ shown[i] \in ToSet(shown)
        BY <1>1, <2>1 DEF HostOK, ToSet
      <4>3. shown[i] = <<shown[i][1], shown[i][2]>> /\ shown[i][2] \in BOOLEAN
        BY <4>2 DEF Keys
      <4>4. shown[i] = <<snd.msg.re, TRUE>>
        BY <2>1, <2>3, <3>2, <4>1, <4>3
      <4>5. ~snd.msg.final
        BY <2>3, <3>2, <4>1
      <4> QED BY <1>11, <2>3, <4>2, <4>4, <4>5
    <3> QED BY <3>1, <3>2
  <2> QED BY <1>10, <2>2, <2>3
<1>13. SendLast'
  <2> SUFFICES ASSUME snd' # NoSend
               PROVE  /\ \A i, j \in Whole' : i < j /\ shown'[i] = Message' => shown'[j] = Message'
                      /\ ~snd'.msg.final => <<snd'.msg.re, TRUE>> \notin ToSet(shown') \cup cut'
    BY Zenon DEF SendLast
  <2>1. ASSUME NEW i \in Whole', NEW j \in Whole', i < j, shown'[i] = Message' PROVE shown'[j] = Message'
    <3>1. CASE j = n + 1 /\ shown'[j] = Message
      BY <1>4, <3>1
    <3>2. CASE j \in Whole /\ j \in 1 .. n /\ shown'[j] = shown[j]
      <4>1. i # n + 1
        BY <2>1, <3>2
      <4>2. i \in Whole /\ shown'[i] = shown[i]
        BY <1>10, <4>1
      <4> QED BY <1>4, <1>11, <2>1, <3>2, <4>2
    <3> QED BY <1>10, <3>1, <3>2
  <2>2. ASSUME ~snd'.msg.final PROVE <<snd'.msg.re, TRUE>> \notin ToSet(shown') \cup cut'
    <3>1. snd # NoSend /\ ~snd.msg.final /\ snd'.msg.re = snd.msg.re
      BY <1>4, <2>2
    <3>2. <<snd.msg.re, TRUE>> # Message
      BY <3>1 DEF Message
    <3>3. <<snd.msg.re, TRUE>> \notin ToSet(shown) \cup cut
      BY <1>11, <3>1
    <3>4. \A i \in DOMAIN shown' : shown'[i] \in ToSet(shown) \cup cut \cup {Message}
      BY <1>1, <1>2 DEF ToSet
    <3>5. <<snd.msg.re, TRUE>> \notin ToSet(shown')
      BY <3>2, <3>3, <3>4 DEF ToSet
    <3> QED BY <1>5, <3>1, <3>2, <3>3, <3>5
  <2> QED BY <2>1, <2>2
<1> QED BY <1>9, <1>12, <1>13 DEF InOrder

\* The elements of a queue after its head is taken, and after one is added.
LEMMA QueueMoves ==
  ASSUME NEW S, NEW q \in Seq(S)
  PROVE  /\ DOMAIN q = 1 .. Len(q) /\ Len(q) \in Nat
         /\ q # <<>> => /\ 1 \in DOMAIN q /\ Head(q) = q[1] /\ DOMAIN Tail(q) = 1 .. Len(q) - 1
                        /\ \A p \in DOMAIN Tail(q) : p + 1 \in DOMAIN q /\ Tail(q)[p] = q[p + 1]
         /\ \A x \in S : /\ DOMAIN Append(q, x) = 1 .. Len(q) + 1
                         /\ Append(q, x)[Len(q) + 1] = x
                         /\ \A p \in DOMAIN q : Append(q, x)[p] = q[p]
<1>1. DOMAIN q = 1 .. Len(q) /\ Len(q) \in Nat
  BY LenProperties
<1>2. ASSUME q # <<>>
      PROVE  /\ 1 \in DOMAIN q /\ Head(q) = q[1] /\ DOMAIN Tail(q) = 1 .. Len(q) - 1
             /\ \A p \in DOMAIN Tail(q) : p + 1 \in DOMAIN q /\ Tail(q)[p] = q[p + 1]
  <2>1. Len(q) # 0
    BY <1>2, EmptySeq
  <2>2. Head(q) = q[1] /\ Tail(q) \in Seq(S) /\ Len(Tail(q)) = Len(q) - 1 /\ \A p \in 1 .. Len(q) - 1 : Tail(q)[p] = q[p + 1]
    BY <1>2, HeadTailProperties DEF Head
  <2>3. DOMAIN Tail(q) = 1 .. Len(q) - 1
    BY <2>2, LenProperties
  <2> QED BY <1>1, <2>1, <2>2, <2>3
<1>3. ASSUME NEW x \in S
      PROVE  /\ DOMAIN Append(q, x) = 1 .. Len(q) + 1
             /\ Append(q, x)[Len(q) + 1] = x
             /\ \A p \in DOMAIN q : Append(q, x)[p] = q[p]
  <2>1. /\ Append(q, x) \in Seq(S) /\ Len(Append(q, x)) = Len(q) + 1
        /\ Append(q, x)[Len(q) + 1] = x /\ \A p \in 1 .. Len(q) : Append(q, x)[p] = q[p]
    BY AppendProperties
  <2>2. DOMAIN Append(q, x) = 1 .. Len(q) + 1
    BY <2>1, LenProperties
  <2> QED BY <1>1, <2>1, <2>2
<1> QED BY <1>1, <1>2, <1>3

LEMMA PartsTaken ==
  ASSUME HostOK, InOrder, Take
  PROVE  InOrder'
<1>1. /\ UNCHANGED <<outbound, snd, published, shown, cut>>
      /\ inbound # <<>> /\ inbound' = Tail(inbound)
      /\ turns' = turns \cup {[ev |-> Head(inbound), told |-> FALSE]}
  BY DEF Take
<1>2. Together' /\ SendLast' /\ Queued' /\ Gone' = Gone
  BY <1>1, Zenon DEF InOrder, Together, SendLast, Queued, Whole, Gone, Message, KeyOf
<1>3. /\ 1 \in DOMAIN inbound /\ Head(inbound) = inbound[1] /\ DOMAIN inbound \subseteq Nat
      /\ \A p \in DOMAIN inbound' : p \in Nat \ {0} /\ p + 1 \in DOMAIN inbound /\ inbound'[p] = inbound[p + 1]
  BY <1>1, QueueMoves DEF HostOK
<1>4. PICK x : x = [ev |-> Head(inbound), told |-> FALSE]
  BY Zenon
<1>5. turns' = turns \cup {x} /\ x.ev = inbound[1] /\ ~x.told
  BY <1>1, <1>3, <1>4
<1>6. /\ \A t \in turns : t.ev.id # x.ev.id
      /\ \A q \in DOMAIN outbound : outbound[q].re # x.ev.id
      /\ \A k \in Gone : k[1] # x.ev.id
      /\ x.ev.id \in ToSet(published)
      /\ \A p \in DOMAIN inbound' : inbound'[p].id # x.ev.id
  BY <1>3, <1>5 DEF InOrder, Waiting, AllPublished
<1>7. Answering'
  <2>1. \A t, u \in turns' : t.ev.id = u.ev.id => t = u
    BY <1>5, <1>6, Zenon DEF InOrder, Answering
  <2>2. <<x.ev.id, TRUE>> \notin Gone /\ <<x.ev.id, FALSE>> \notin Gone
    BY <1>6
  <2>3. ASSUME NEW t \in turns'
        PROVE  /\ \A p \in DOMAIN outbound : outbound[p].re = t.ev.id => ~outbound[p].final /\ t.told
               /\ <<t.ev.id, TRUE>> \notin Gone
               /\ ~t.told => <<t.ev.id, FALSE>> \notin Gone
    <3>1. CASE t = x
      BY <1>6, <2>2, <3>1, Zenon
    <3>2. CASE t \in turns
      BY <3>2, Zenon DEF InOrder, Answering
    <3> QED BY <1>5, <3>1, <3>2, Zenon
  <2> QED BY <1>1, <1>2, <2>1, <2>3, Zenon DEF Answering
<1>8. Waiting'
  <2>1. \A p, q \in DOMAIN inbound' : inbound'[p].id = inbound'[q].id => p = q
    BY <1>3 DEF InOrder, Waiting
  <2>2. ASSUME NEW p \in DOMAIN inbound'
        PROVE  /\ \A t \in turns' : t.ev.id # inbound'[p].id
               /\ \A q \in DOMAIN outbound : outbound[q].re # inbound'[p].id
               /\ \A k \in Gone : k[1] # inbound'[p].id
    <3>1. p + 1 \in DOMAIN inbound /\ inbound'[p] = inbound[p + 1] /\ inbound'[p].id # x.ev.id
      BY <1>3, <1>6
    <3>2. /\ \A t \in turns : t.ev.id # inbound[p + 1].id
          /\ \A q \in DOMAIN outbound : outbound[q].re # inbound[p + 1].id
          /\ \A k \in Gone : k[1] # inbound[p + 1].id
      BY <3>1, Zenon DEF InOrder, Waiting
    <3> QED BY <1>5, <3>1, <3>2, Zenon
  <2> QED BY <1>1, <1>2, <2>1, <2>2, Zenon DEF Waiting
<1>9. AllPublished'
  <2>1. \A p \in DOMAIN inbound' : inbound'[p].id \in ToSet(published)
    BY <1>3 DEF InOrder, AllPublished
  <2>2. \A t \in turns' : t.ev.id \in ToSet(published)
    BY <1>5, <1>6, Zenon DEF InOrder, AllPublished
  <2> QED BY <1>1, <1>2, <2>1, <2>2, Zenon DEF InOrder, AllPublished
<1> QED BY <1>2, <1>7, <1>8, <1>9 DEF InOrder

\* A turn that another replaces, and a send that returns.
LEMMA PartsFewer ==
  ASSUME InOrder, UNCHANGED <<inbound, outbound, published, shown, cut>>,
         \/ snd' = snd /\ turns' \subseteq turns
         \/ snd' = NoSend /\ turns' = turns
  PROVE  InOrder'
<1>1. snd' = snd \/ snd' = NoSend
  OBVIOUS
<1>2. turns' \subseteq turns
  OBVIOUS
<1>3. snd' = snd => Message' = Message
  BY DEF Message
<1>4. Gone' \subseteq Gone
  BY <1>1, <1>3 DEF Gone
<1>5. Together' /\ SendLast'
  BY <1>1, <1>3, Zenon DEF InOrder, Together, SendLast, Whole
<1>6. Queued' /\ Answering'
  BY <1>2, <1>4, Zenon DEF InOrder, Queued, Answering, KeyOf
<1>7. Waiting' /\ AllPublished'
  BY <1>2, <1>4, Zenon DEF InOrder, Waiting, AllPublished
<1> QED BY <1>5, <1>6, <1>7 DEF InOrder

\* A turn puts a reply into the queue.
LEMMA PartsReplied ==
  ASSUME HostOK, InOrder, NEW t \in turns, NEW m \in Out, m.re = t.ev.id,
         outbound' = Append(outbound, m),
         \/ ~m.final /\ ~t.told /\ turns' = (turns \ {t}) \cup {[t EXCEPT !.told = TRUE]}
         \/ m.final /\ turns' = turns \ {t},
         UNCHANGED <<inbound, snd, published, shown, cut>>
  PROVE  InOrder'
<1>1. PICK n \in Nat : DOMAIN outbound = 1 .. n /\ DOMAIN outbound' = 1 .. n + 1 /\ outbound'[n + 1] = m
                       /\ \A p \in 1 .. n : outbound'[p] = outbound[p]
  <2>1. /\ DOMAIN outbound = 1 .. Len(outbound) /\ Len(outbound) \in Nat
        /\ DOMAIN outbound' = 1 .. Len(outbound) + 1 /\ outbound'[Len(outbound) + 1] = m
        /\ \A p \in 1 .. Len(outbound) : outbound'[p] = outbound[p]
    BY QueueMoves DEF HostOK
  <2> QED BY <2>1, Zenon
<1>2. Together' /\ SendLast' /\ Gone' = Gone
  BY Zenon DEF InOrder, Together, SendLast, Whole, Gone, Message
<1>3. /\ \A p \in 1 .. n : outbound[p].re = m.re => ~outbound[p].final /\ t.told
      /\ <<m.re, TRUE>> \notin Gone
      /\ ~t.told => <<m.re, FALSE>> \notin Gone
  BY <1>1, Zenon DEF InOrder, Answering
<1>4. m.final \in BOOLEAN
  BY DEF Out
<1>5. Queued'
  <2>1. ASSUME NEW p \in 1 .. n + 1, NEW q \in 1 .. n + 1, p < q, outbound'[p].re = outbound'[q].re
        PROVE  ~outbound'[p].final /\ outbound'[q].final
    <3>1. CASE q = n + 1
      <4>1. p \in 1 .. n /\ outbound'[p] = outbound[p] /\ outbound'[q] = m
        BY <1>1, <2>1, <3>1
      <4>2. ~outbound[p].final /\ t.told
        BY <1>3, <2>1, <4>1, Zenon
      <4> QED BY <4>1, <4>2
    <3>2. CASE q # n + 1
      <4>1. p \in 1 .. n /\ q \in 1 .. n /\ outbound'[p] = outbound[p] /\ outbound'[q] = outbound[q]
        BY <1>1, <2>1, <3>2
      <4> QED BY <1>1, <2>1, <4>1, Zenon DEF InOrder, Queued
    <3> QED BY <3>1, <3>2
  <2>2. ASSUME NEW p \in 1 .. n + 1
        PROVE  /\ KeyOf(outbound'[p]) \notin Gone
               /\ ~outbound'[p].final => <<outbound'[p].re, TRUE>> \notin Gone
    <3>1. CASE p = n + 1
      <4>1. KeyOf(m) = <<m.re, TRUE>> \/ (~t.told /\ KeyOf(m) = <<m.re, FALSE>>)
        BY <1>4 DEF KeyOf
      <4> QED BY <1>1, <1>3, <3>1, <4>1
    <3>2. CASE p # n + 1
      <4>1. p \in 1 .. n /\ outbound'[p] = outbound[p]
        BY <1>1, <3>2
      <4> QED BY <1>1, <4>1, Zenon DEF InOrder, Queued
    <3> QED BY <3>1, <3>2
  <2> QED BY <1>1, <1>2, <2>1, <2>2, Zenon DEF Queued, KeyOf
<1>6. PICK x : x = [t EXCEPT !.told = TRUE]
  BY Zenon
<1>7. x.ev = t.ev /\ x.told
  BY <1>6 DEF HostOK
<1>8. \/ ~m.final /\ ~t.told /\ turns' = (turns \ {t}) \cup {x}
      \/ m.final /\ turns' = turns \ {t}
  BY <1>6
<1>9. /\ \A u \in turns \ {t} : u.ev.id # m.re
      /\ \A u, v \in turns : u.ev.id = v.ev.id => u = v
  BY Zenon DEF InOrder, Answering
<1>10. Answering'
  <2>1. \A u, v \in turns' : u.ev.id = v.ev.id => u = v
    BY <1>7, <1>8, <1>9, Zenon
  <2>2. ASSUME NEW u \in turns'
        PROVE  /\ \A p \in 1 .. n + 1 : outbound'[p].re = u.ev.id => ~outbound'[p].final /\ u.told
               /\ <<u.ev.id, TRUE>> \notin Gone
               /\ ~u.told => <<u.ev.id, FALSE>> \notin Gone
    <3>1. CASE u \in turns \ {t}
      <4>1. /\ \A p \in 1 .. n : outbound[p].re = u.ev.id => ~outbound[p].final /\ u.told
            /\ <<u.ev.id, TRUE>> \notin Gone
            /\ ~u.told => <<u.ev.id, FALSE>> \notin Gone
        BY <1>1, <3>1, Zenon DEF InOrder, Answering
      <4>2. ASSUME NEW p \in 1 .. n + 1, outbound'[p].re = u.ev.id PROVE ~outbound'[p].final /\ u.told
        <5>1. p # n + 1
          BY <1>1, <1>9, <3>1, <4>2, Zenon
        <5>2. p \in 1 .. n
          BY <5>1
        <5> QED BY <1>1, <4>1, <4>2, <5>2, Zenon
      <4> QED BY <4>1, <4>2
    <3>2. CASE u = x /\ ~m.final
      <4>1. ASSUME NEW p \in 1 .. n + 1, outbound'[p].re = u.ev.id PROVE ~outbound'[p].final
        <5>1. p \in 1 .. n \/ p = n + 1
          OBVIOUS
        <5> QED BY <1>1, <1>3, <1>7, <3>2, <4>1, <5>1, Zenon
      <4> QED BY <1>3, <1>7, <3>2, <4>1, Zenon
    <3> QED BY <1>8, <3>1, <3>2, Zenon
  <2> QED BY <1>1, <1>2, <2>1, <2>2, Zenon DEF Answering
<1>11. m.re \in ToSet(published) /\ \A p \in DOMAIN inbound : inbound[p].id # m.re
  BY Zenon DEF InOrder, AllPublished, Waiting
<1>12. \A u \in turns' : \E v \in turns : u.ev.id = v.ev.id
  BY <1>7, <1>8, Zenon
<1>13. \A q \in DOMAIN outbound' : outbound'[q] = m \/ \E p \in DOMAIN outbound : outbound'[q] = outbound[p]
  <2> SUFFICES ASSUME NEW q \in DOMAIN outbound', q # n + 1
               PROVE  \E p \in DOMAIN outbound : outbound'[q] = outbound[p]
    BY <1>1, Zenon
  <2>1. q \in 1 .. n
    BY <1>1
  <2> QED BY <1>1, <2>1
<1>14. Waiting'
  <2>1. ASSUME NEW p \in DOMAIN inbound
        PROVE  /\ \A u \in turns' : u.ev.id # inbound[p].id
               /\ \A q \in DOMAIN outbound' : outbound'[q].re # inbound[p].id
               /\ \A k \in Gone : k[1] # inbound[p].id
    <3>1. /\ \A u \in turns : u.ev.id # inbound[p].id
          /\ \A q \in DOMAIN outbound : outbound[q].re # inbound[p].id
          /\ \A k \in Gone : k[1] # inbound[p].id
      BY Zenon DEF InOrder, Waiting
    <3>2. \A u \in turns' : u.ev.id # inbound[p].id
      BY <1>12, <3>1, Zenon
    <3>3. \A q \in DOMAIN outbound' : outbound'[q].re # inbound[p].id
      BY <1>11, <1>13, <3>1, Zenon
    <3> QED BY <3>1, <3>2, <3>3
  <2> QED BY <1>2, <2>1, Zenon DEF InOrder, Waiting
<1>15. AllPublished'
  BY <1>2, <1>11, <1>12, <1>13, Zenon DEF InOrder, AllPublished
<1> QED BY <1>2, <1>5, <1>10, <1>14, <1>15 DEF InOrder

\* The dispatcher takes a reply from the queue.
LEMMA PartsDispatched ==
  ASSUME HostOK, InOrder, Dispatch
  PROVE  InOrder'
<1>1. /\ snd = NoSend /\ outbound # <<>> /\ outbound' = Tail(outbound)
      /\ UNCHANGED <<inbound, turns, published, shown, cut>>
      /\ snd' = NoSend \/ (snd' # NoSend /\ snd'.msg = Head(outbound))
  <2>1. ASSUME snd' = [msg |-> Head(outbound), todo |-> <<"begin">>, failed |-> 0, told |-> 0]
        PROVE  snd' # NoSend /\ snd'.msg = Head(outbound)
    <3>1. snd'.todo = <<"begin">> /\ snd'.msg = Head(outbound)
      BY <2>1
    <3>2. NoSend.todo = <<>> /\ <<"begin">> # <<>>
      BY DEF NoSend
    <3> QED BY <3>1, <3>2
  <2> QED BY <2>1 DEF Dispatch
<1>2. PICK m : m = Head(outbound)
  BY Zenon
<1>3. /\ 1 \in DOMAIN outbound /\ m = outbound[1] /\ DOMAIN outbound \subseteq Nat
      /\ \A p \in DOMAIN outbound' : p \in Nat \ {0} /\ p + 1 \in DOMAIN outbound /\ outbound'[p] = outbound[p + 1]
  BY <1>1, <1>2, QueueMoves DEF HostOK
<1>4. snd' # NoSend => Message' = KeyOf(m)
  BY <1>1, <1>2 DEF Message, KeyOf
<1>5. Gone = ToSet(shown) \cup cut /\ Gone' \subseteq Gone \cup {KeyOf(m)}
  BY <1>1, <1>4 DEF Gone
<1>6. KeyOf(m) \notin Gone /\ (~m.final => <<m.re, TRUE>> \notin Gone)
  BY <1>3, Zenon DEF InOrder, Queued
<1>7. m.final \in BOOLEAN /\ KeyOf(m)[1] = m.re
  <2>1. m \in Out
    BY <1>1, <1>2, HeadTailProperties DEF HostOK
  <2> QED BY <2>1 DEF Out, KeyOf
<1>8. Together'
  BY <1>1, Zenon DEF InOrder, Together, Whole
<1>9. SendLast'
  <2> SUFFICES ASSUME snd' # NoSend
               PROVE  /\ \A i, j \in Whole' : i < j /\ shown'[i] = Message' => shown'[j] = Message'
                      /\ ~snd'.msg.final => <<snd'.msg.re, TRUE>> \notin ToSet(shown') \cup cut'
    BY Zenon DEF SendLast
  <2>1. \A i \in Whole' : shown'[i] # Message'
    BY <1>1, <1>4, <1>5, <1>6 DEF Whole, ToSet
  <2>2. snd'.msg = m
    BY <1>1, <1>2
  <2> QED BY <1>1, <1>5, <1>6, <2>1, <2>2, Zenon
<1>10. \A p \in DOMAIN outbound' :
         /\ outbound'[p].re = m.re => ~m.final /\ outbound'[p].final
         /\ KeyOf(outbound'[p]) \notin Gone
         /\ ~outbound'[p].final => <<outbound'[p].re, TRUE>> \notin Gone
  <2> SUFFICES ASSUME NEW p \in DOMAIN outbound'
               PROVE  /\ outbound'[p].re = m.re => ~m.final /\ outbound'[p].final
                      /\ KeyOf(outbound'[p]) \notin Gone
                      /\ ~outbound'[p].final => <<outbound'[p].re, TRUE>> \notin Gone
    OBVIOUS
  <2>1. 1 < p + 1
    BY <1>3
  <2> QED BY <1>3, <2>1, Zenon DEF InOrder, Queued
<1>11. Queued'
  <2>1. ASSUME NEW p \in DOMAIN outbound', NEW q \in DOMAIN outbound', p < q, outbound'[p].re = outbound'[q].re
        PROVE  ~outbound'[p].final /\ outbound'[q].final
    <3>1. p + 1 < q + 1
      BY <1>3, <2>1
    <3> QED BY <1>3, <2>1, <3>1, Zenon DEF InOrder, Queued
  <2>2. ASSUME NEW p \in DOMAIN outbound'
        PROVE  /\ KeyOf(outbound'[p]) \notin Gone'
               /\ ~outbound'[p].final => <<outbound'[p].re, TRUE>> \notin Gone'
    <3>1. KeyOf(outbound'[p]) # KeyOf(m)
      <4>1. ASSUME KeyOf(outbound'[p]) = KeyOf(m) PROVE outbound'[p].re = m.re /\ outbound'[p].final = m.final
        BY <4>1 DEF KeyOf
      <4> QED BY <1>10, <4>1, Zenon
    <3>2. ASSUME ~outbound'[p].final PROVE <<outbound'[p].re, TRUE>> # KeyOf(m)
      <4>1. ASSUME <<outbound'[p].re, TRUE>> = KeyOf(m) PROVE outbound'[p].re = m.re /\ m.final
        BY <4>1 DEF KeyOf
      <4> QED BY <1>10, <4>1, Zenon
    <3> QED BY <1>5, <1>10, <3>1, <3>2
  <2> QED BY <2>1, <2>2, Zenon DEF Queued, KeyOf
<1>12. Answering'
  <2>1. ASSUME NEW t \in turns
        PROVE  /\ \A p \in DOMAIN outbound' : outbound'[p].re = t.ev.id => ~outbound'[p].final /\ t.told
               /\ <<t.ev.id, TRUE>> \notin Gone'
               /\ ~t.told => <<t.ev.id, FALSE>> \notin Gone'
    <3>1. /\ \A p \in DOMAIN outbound : outbound[p].re = t.ev.id => ~outbound[p].final /\ t.told
          /\ <<t.ev.id, TRUE>> \notin Gone
          /\ ~t.told => <<t.ev.id, FALSE>> \notin Gone
      BY Zenon DEF InOrder, Answering
    <3>2. <<t.ev.id, TRUE>> # KeyOf(m)
      <4>1. ASSUME <<t.ev.id, TRUE>> = KeyOf(m) PROVE m.re = t.ev.id /\ m.final
        BY <4>1 DEF KeyOf
      <4> QED BY <1>3, <3>1, <4>1, Zenon
    <3>3. ~t.told => <<t.ev.id, FALSE>> # KeyOf(m)
      <4>1. ASSUME <<t.ev.id, FALSE>> = KeyOf(m) PROVE m.re = t.ev.id
        BY <4>1 DEF KeyOf
      <4> QED BY <1>3, <3>1, <4>1, Zenon
    <3>4. \A p \in DOMAIN outbound' : outbound'[p].re = t.ev.id => ~outbound'[p].final /\ t.told
      BY <1>3, <3>1, Zenon
    <3> QED BY <1>5, <3>1, <3>2, <3>3, <3>4
  <2> QED BY <1>1, <2>1, Zenon DEF InOrder, Answering
<1>13. /\ \A q \in DOMAIN outbound' : \E p \in DOMAIN outbound : outbound'[q] = outbound[p]
       /\ \A k \in Gone' : k \in Gone \/ k[1] = outbound[1].re
  BY <1>3, <1>5, <1>7
<1>14. Waiting'
  <2>1. ASSUME NEW p \in DOMAIN inbound
        PROVE  /\ \A q \in DOMAIN outbound' : outbound'[q].re # inbound[p].id
               /\ \A k \in Gone' : k[1] # inbound[p].id
    <3>1. /\ \A q \in DOMAIN outbound : outbound[q].re # inbound[p].id
          /\ \A k \in Gone : k[1] # inbound[p].id
      BY Zenon DEF InOrder, Waiting
    <3> QED BY <1>3, <1>13, <3>1, Zenon
  <2> QED BY <1>1, <2>1, Zenon DEF InOrder, Waiting
<1>15. AllPublished'
  BY <1>1, <1>3, <1>13, Zenon DEF InOrder, AllPublished
<1> QED BY <1>8, <1>9, <1>11, <1>12, <1>14, <1>15 DEF InOrder

\* A message comes to the bus, and it is a new one.
LEMMA PartsReceived ==
  ASSUME HostOK, InOrder, Receives, IsInjective(published')
  PROVE  InOrder'
<1>1. PICK e \in Events, ids \in Seq(Ids) :
        /\ e.id \in ToSet(ids)
        /\ inbound' = Append(inbound, e) /\ published' = published \o ids
        /\ UNCHANGED <<turns, outbound, snd, shown, cut>>
  BY Zenon DEF Receives
<1>2. PICK n \in Nat : DOMAIN inbound = 1 .. n /\ DOMAIN inbound' = 1 .. n + 1 /\ inbound'[n + 1] = e
                       /\ \A p \in 1 .. n : inbound'[p] = inbound[p]
  <2>1. /\ DOMAIN inbound = 1 .. Len(inbound) /\ Len(inbound) \in Nat
        /\ DOMAIN inbound' = 1 .. Len(inbound) + 1 /\ inbound'[Len(inbound) + 1] = e
        /\ \A p \in 1 .. Len(inbound) : inbound'[p] = inbound[p]
    BY <1>1, QueueMoves DEF HostOK
  <2> QED BY <2>1, Zenon
<1>3. ToSet(published) \subseteq ToSet(published') /\ e.id \in ToSet(published')
  BY <1>1, SetOfConcat DEF HostOK
<1>4. e.id \notin ToSet(published)
  <2> SUFFICES ASSUME NEW i \in DOMAIN published, NEW j \in DOMAIN ids, published[i] = ids[j] PROVE FALSE
    BY <1>1 DEF ToSet
  <2>1. /\ DOMAIN published = 1 .. Len(published) /\ DOMAIN ids = 1 .. Len(ids)
        /\ Len(published) \in Nat /\ Len(ids) \in Nat
    BY <1>1, LenProperties DEF HostOK
  <2>2. /\ DOMAIN published' = 1 .. Len(published) + Len(ids)
        /\ \A p \in 1 .. Len(published) + Len(ids) :
             published'[p] = IF p <= Len(published) THEN published[p] ELSE ids[p - Len(published)]
    <3>1. published \in Seq(Ids) /\ ids \in Seq(Ids)
      BY <1>1 DEF HostOK
    <3>2. published' \in Seq(Ids) /\ Len(published') = Len(published) + Len(ids)
      BY <1>1, <3>1, ConcatProperties
    <3>3. \A p \in 1 .. Len(published) + Len(ids) :
             published'[p] = IF p <= Len(published) THEN published[p] ELSE ids[p - Len(published)]
      BY <1>1, <3>1, ConcatProperties
    <3> QED BY <3>2, <3>3, LenProperties
  <2>3. PICK q \in Nat : q = Len(published) + j
    BY <2>1
  <2>4. q \in DOMAIN published' /\ published'[q] = ids[j] /\ i \in DOMAIN published' /\ published'[i] = published[i] /\ i # q
    BY <2>1, <2>2, <2>3
  <2> QED BY <2>4 DEF IsInjective
<1>5. Together' /\ SendLast' /\ Queued' /\ Answering' /\ Gone' = Gone
  BY <1>1, Zenon DEF InOrder, Together, SendLast, Queued, Answering, Whole, Gone, Message, KeyOf
<1>6. /\ \A t \in turns : t.ev.id # e.id
      /\ \A q \in DOMAIN outbound : outbound[q].re # e.id
      /\ \A k \in Gone : k[1] # e.id
      /\ \A p \in 1 .. n : inbound[p].id # e.id
  BY <1>2, <1>4, Zenon DEF InOrder, AllPublished
<1>7. \A p \in 1 .. n + 1 : p \in 1 .. n \/ p = n + 1
  OBVIOUS
<1>8. Waiting'
  <2>1. \A p, q \in DOMAIN inbound' : inbound'[p].id = inbound'[q].id => p = q
    <3>1. ASSUME NEW p \in 1 .. n, NEW q \in 1 .. n, inbound[p].id = inbound[q].id PROVE p = q
      BY <1>2, <3>1, Zenon DEF InOrder, Waiting
    <3> QED BY <1>2, <1>6, <1>7, <3>1, Zenon
  <2>2. ASSUME NEW p \in DOMAIN inbound'
        PROVE  /\ \A t \in turns : t.ev.id # inbound'[p].id
               /\ \A q \in DOMAIN outbound : outbound[q].re # inbound'[p].id
               /\ \A k \in Gone : k[1] # inbound'[p].id
    <3>1. ASSUME NEW r \in 1 .. n
          PROVE  /\ \A t \in turns : t.ev.id # inbound[r].id
                 /\ \A q \in DOMAIN outbound : outbound[q].re # inbound[r].id
                 /\ \A k \in Gone : k[1] # inbound[r].id
      BY <1>2, Zenon DEF InOrder, Waiting
    <3>2. CASE p \in 1 .. n
      BY <1>2, <3>1, <3>2, Zenon
    <3>3. CASE p = n + 1
      BY <1>2, <1>6, <3>3, Zenon
    <3> QED BY <1>2, <1>7, <3>2, <3>3, Zenon
  <2> QED BY <1>1, <1>5, <2>1, <2>2, Zenon DEF Waiting
<1>9. AllPublished'
  <2>1. \A p \in DOMAIN inbound' : inbound'[p].id \in ToSet(published')
    BY <1>2, <1>3, <1>7 DEF InOrder, AllPublished
  <2>2. /\ \A t \in turns' : t.ev.id \in ToSet(published')
        /\ \A q \in DOMAIN outbound' : outbound'[q].re \in ToSet(published')
        /\ \A k \in Gone' : k[1] \in ToSet(published')
    BY <1>1, <1>3, <1>5 DEF InOrder, AllPublished
  <2> QED BY <2>1, <2>2 DEF AllPublished
<1> QED BY <1>5, <1>8, <1>9 DEF InOrder

LEMMA PartsHost ==
  ASSUME HostOK, InOrder, Host
  PROVE  InOrder'
<1>1. ASSUME NEW t \in turns, Reports(t) PROVE InOrder'
  <2>1. PICK m : m = Reply(t, FALSE, 0, TRUE)
    BY Zenon
  <2>2. m \in Out /\ m.re = t.ev.id /\ ~m.final
    BY <2>1, EventIds DEF Reply, Out, HostOK
  <2> QED BY <1>1, <2>1, <2>2, PartsReplied, Zenon DEF Reports
<1>2. ASSUME NEW t \in turns, Answers(t) PROVE InOrder'
  <2>1. PICK files \in IF t.ev.file THEN {1, 2} ELSE {0}, text \in BOOLEAN :
          outbound' = Append(outbound, Reply(t, TRUE, files, text))
    BY <1>2, Zenon DEF Answers
  <2>2. PICK m : m = Reply(t, TRUE, files, text)
    BY Zenon
  <2>3. m \in Out /\ m.re = t.ev.id /\ m.final
    BY <2>2, EventIds DEF Reply, Out, HostOK
  <2> QED BY <1>2, <2>1, <2>2, <2>3, PartsReplied, Zenon DEF Answers
<1>3. ASSUME NEW t \in turns, Superseded(t) PROVE InOrder'
  <2>1. turns' \subseteq turns
    BY <1>3 DEF Superseded
  <2> QED BY <1>3, <2>1, PartsFewer, Zenon DEF Superseded
<1>4. CASE Returns
  BY <1>4, PartsFewer, Zenon DEF Returns
<1> QED BY <1>1, <1>2, <1>3, <1>4, PartsTaken, PartsDispatched DEF Host

\* The parts of one reply stay together, and a final reply never comes before the
\* progress of its message, for Telegram, Discord, Matrix, Feishu, DingTalk and
\* Slack, whatever is replied side by side and however many sends end early
\* (ChannelManager._dispatch_outbound, send of each adapter).
THEOREM PartsStayTogether == Spec => []PartsTogether
<1>1. Init => PartsInv
  <2> SUFFICES ASSUME HostInit PROVE InOrder
    BY ChannelBegins DEF PartsInv
  <2>1. DOMAIN shown = {} /\ DOMAIN outbound = {} /\ DOMAIN inbound = {} /\ snd = NoSend /\ cut = {} /\ turns = {}
    BY DEF HostInit
  <2>2. Whole = {} /\ Gone = {}
    BY <2>1 DEF Whole, Gone, ToSet
  <2> QED BY <2>1, <2>2, Zenon DEF InOrder, Together, SendLast, Queued, Answering, Waiting, AllPublished
<1>2. ASSUME ChannelInv, PartsInv, [Next]_vars
      PROVE  PartsInv'
  <2>1. CASE UNCHANGED vars
    <3>1. UNCHANGED <<self, host>>
      BY <2>1 DEF vars, host
    <3>2. InOrder => InOrder'
      BY <3>1, PartsUnmoved
    <3> QED BY <1>2, <3>1, <3>2, Zenon DEF PartsInv, Is, host
  <2>2. CASE Next
    <3> SUFFICES ASSUME ~Is({"email", "mochat"})', IsInjective(published)'
                 PROVE  InOrder'
      BY DEF PartsInv
    <3>1. self'.name = self.name /\ HostOK /\ AdapterOK
      BY <1>2, <2>2, NameStays DEF ChannelInv
    <3>2. ~Is({"email"}) /\ ~Is({"mochat"}) /\ ~Is({"email", "mochat"})
      BY <3>1 DEF Is
    <3>3. HostStep
      BY <2>2, <3>1, Named, TelegramFits, DiscordFits, MatrixFits, FeishuFits, DingTalkFits, EmailFits, SlackFits,
         QQFits, WhatsAppFits, WecomFits, WecomSelfbuiltFits, MochatFits DEF Next, Fits
    <3>4. ~Restarts
      BY <3>2 DEF Restarts
    <3>5. IsInjective(published)
      <4>1. CASE published' = published
        BY <4>1
      <4>2. CASE Receives
        <5>1. PICK ids \in Seq(Ids) : published' = published \o ids
          BY <4>2 DEF Receives
        <5>2. /\ DOMAIN published = 1 .. Len(published) /\ Len(published) \in Nat /\ Len(ids) \in Nat
              /\ DOMAIN published' = 1 .. Len(published) + Len(ids)
              /\ \A p \in 1 .. Len(published) : published'[p] = published[p]
          <6>1. published \in Seq(Ids)
            BY <3>1 DEF HostOK
          <6>2. published' \in Seq(Ids) /\ Len(published') = Len(published) + Len(ids)
                /\ \A p \in 1 .. Len(published) + Len(ids) :
                     published'[p] = IF p <= Len(published) THEN published[p] ELSE ids[p - Len(published)]
            BY <5>1, <6>1, ConcatProperties
          <6>3. DOMAIN published' = 1 .. Len(published')
            BY <6>2, LenProperties
          <6> QED BY <6>1, <6>2, <6>3, LenProperties
        <5> QED BY <5>2 DEF IsInjective
      <4>3. Host \/ SendStep => published' = published
        BY Zenon DEF Host, SendStep, Take, Dispatch, Returns, Superseded, Reports, Answers
      <4> QED BY <3>3, <3>4, <4>1, <4>2, <4>3 DEF HostStep
    <3>6. InOrder
      BY <1>2, <3>2, <3>5 DEF PartsInv
    <3> QED BY <3>1, <3>2, <3>3, <3>4, <3>6, PartsHost, PartsReceived, PartsSent DEF HostStep
  <2> QED BY <1>2, <2>1, <2>2
<1>3. PartsInv => PartsTogether
  <2> SUFFICES ASSUME PartsInv, Is({"telegram", "discord", "matrix", "feishu", "dingtalk", "slack"}), IsInjective(published)
               PROVE  PartsTogether
    BY DEF PartsTogether
  <2>1. ~Is({"email", "mochat"})
    BY DEF Is
  <2>2. Together
    BY <2>1 DEF PartsInv, InOrder
  <2> QED BY <2>2, Zenon DEF PartsTogether, Together, Whole
<1> QED BY <1>1, <1>2, <1>3, ChannelInvariant, PTL DEF Spec
=============================================================================
