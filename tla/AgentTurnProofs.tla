--------------------------- MODULE AgentTurnProofs ---------------------------
(***************************************************************************)
(* Theorems about AgentTurn, for any number of turns, iterations, tool     *)
(* calls and recalls, and any lengths of the history.                      *)
(***************************************************************************)
EXTENDS AgentTurn, SequenceTheorems, NatLemmas

\* The message m is a result of the call c.
Answers(m, c) == m.role = "tool" /\ Id(m) \in Ids(c)

\* While the results of a call come, nothing else does.
Contiguous(h) ==
  \A q, p \in DOMAIN h :
    q < p /\ Answers(h[p], h[q]) => \A k \in q + 1 .. p : Answers(h[k], h[q])

\* Every result follows the call it answers.
AllDeclared(h) ==
  \A p \in DOMAIN h : h[p].role = "tool" => \E q \in 1 .. p - 1 : Answers(h[p], h[q])

CallId == Turns \X (0 .. MaxIterations) \X Nat

-----------------------------------------------------------------------------
(* Messages and sequences of them.                                         *)

\* A result is no call, and the ids of a call are ids.
LEMMA MessageIds ==
  ASSUME NEW m \in Message
  PROVE  /\ Ids(m) \in SUBSET CallId
         /\ m.role # "assistant" => Ids(m) = {}
         /\ \A c : Answers(c, m) => m.role = "assistant"
         /\ m.turn \in Turns /\ m.iter \in 0 .. MaxIterations /\ m.n \in Nat
<1>1. m.turn \in Turns /\ m.iter \in 0 .. MaxIterations /\ m.n \in Nat
  BY DEF Message
<1>2. m.role # "assistant" => Ids(m) = {}
  BY DEF Ids
<1>3. Ids(m) \in SUBSET CallId
  BY <1>1 DEF Ids, CallId
<1>4. \A c : Answers(c, m) => m.role = "assistant"
  BY <1>2 DEF Answers
<1> QED BY <1>1, <1>2, <1>3, <1>4

\* The end of a sequence, from position i on.
LEMMA Suffix ==
  ASSUME NEW S, NEW s \in Seq(S), NEW i \in Nat \ {0}
  PROVE  LET e == SubSeq(s, i, Len(s))
         IN /\ e \in Seq(S)
            /\ Len(e) = IF i <= Len(s) THEN Len(s) - i + 1 ELSE 0
            /\ \A p \in 1 .. Len(e) : e[p] = s[p + i - 1] /\ p + i - 1 \in 1 .. Len(s)
<1>0. Len(s) \in Nat /\ i \in Int /\ i >= 1
  BY LenProperties
<1> DEFINE e == SubSeq(s, i, Len(s))
<1>1. CASE i <= Len(s)
  <2>1. \A k \in i .. Len(s) : s[k] \in S
    BY <1>0, ElementOfSeq
  <2>2. /\ e \in Seq(S) /\ Len(e) = Len(s) - i + 1
        /\ \A p \in 1 .. Len(s) - i + 1 : e[p] = s[i + p - 1]
    BY <1>0, <1>1, <2>1, SubSeqProperties
  <2> HIDE DEF e
  <2>3. \A p \in 1 .. Len(s) - i + 1 : p + i - 1 = i + p - 1 /\ p + i - 1 \in 1 .. Len(s)
    BY <1>0, <1>1
  <2>4. \A p \in 1 .. Len(e) : e[p] = s[p + i - 1] /\ p + i - 1 \in 1 .. Len(s)
    BY <2>2, <2>3
  <2> QED BY <1>1, <2>2, <2>4 DEF e
<1>2. CASE ~(i <= Len(s))
  <2>1. e = << >>
    BY <1>0, <1>2, SubSeqEmpty
  <2> QED BY <1>2, <2>1, EmptySeq
<1> QED BY <1>1, <1>2

\* Taking one element out.
LEMMA Removed ==
  ASSUME NEW S, NEW s \in Seq(S), NEW i \in 1 .. Len(s)
  PROVE  LET r == RemoveAt(s, i)
         IN /\ r \in Seq(S) /\ Len(r) = Len(s) - 1
            /\ \A p \in 1 .. Len(r) : r[p] = s[IF p < i THEN p ELSE p + 1]
<1>0. Len(s) \in Nat /\ i \in Nat \ {0} /\ i + 1 \in Nat \ {0} /\ i - 1 \in Nat /\ i \in Int
  BY LenProperties
<1> DEFINE a == SubSeq(s, 1, i - 1)
           b == SubSeq(s, i + 1, Len(s))
<1>1. a \in Seq(S) /\ Len(a) = i - 1 /\ \A p \in 1 .. i - 1 : a[p] = s[p]
  <2>1. CASE i = 1
    <3>1. a = << >>
      BY <1>0, <2>1, SubSeqEmpty
    <3> QED BY <2>1, <3>1, EmptySeq
  <2>2. CASE i # 1
    <3>1. 1 \in Int /\ i - 1 \in Int /\ 1 <= i - 1 /\ i - 1 <= Len(s)
      BY <1>0, <2>2
    <3>2. \A k \in 1 .. i - 1 : s[k] \in S
      BY <1>0, ElementOfSeq
    <3>3. /\ a \in Seq(S) /\ Len(a) = (i - 1) - 1 + 1
          /\ \A p \in 1 .. (i - 1) - 1 + 1 : a[p] = s[1 + p - 1]
      BY <3>1, <3>2, SubSeqProperties
    <3> HIDE DEF a
    <3>4. (i - 1) - 1 + 1 = i - 1 /\ \A p \in 1 .. i - 1 : 1 + p - 1 = p
      BY <1>0
    <3> QED BY <3>3, <3>4
  <2> QED BY <2>1, <2>2
<1>2. /\ b \in Seq(S) /\ Len(b) = Len(s) - i
      /\ \A p \in 1 .. Len(b) : b[p] = s[p + (i + 1) - 1]
  <2>1. /\ b \in Seq(S) /\ Len(b) = IF i + 1 <= Len(s) THEN Len(s) - (i + 1) + 1 ELSE 0
        /\ \A p \in 1 .. Len(b) : b[p] = s[p + (i + 1) - 1] /\ p + (i + 1) - 1 \in 1 .. Len(s)
    BY <1>0, Suffix
  <2> HIDE DEF b
  <2> QED BY <1>0, <2>1
<1>3. RemoveAt(s, i) = a \o b
  BY DEF RemoveAt
<1> HIDE DEF a, b
<1>4. /\ a \o b \in Seq(S) /\ Len(a \o b) = Len(a) + Len(b)
      /\ \A p \in 1 .. Len(a) + Len(b) :
           (a \o b)[p] = IF p <= Len(a) THEN a[p] ELSE b[p - Len(a)]
  BY <1>1, <1>2, ConcatProperties
<1>5. Len(a) + Len(b) = Len(s) - 1
  BY <1>0, <1>1, <1>2
<1>6. ASSUME NEW p \in 1 .. Len(s) - 1
      PROVE  (a \o b)[p] = s[IF p < i THEN p ELSE p + 1]
  <2>1. CASE p < i
    BY <1>0, <1>1, <1>4, <1>5, <2>1
  <2>2. CASE ~(p < i)
    <3>1. p - Len(a) \in 1 .. Len(b) /\ ~(p <= Len(a)) /\ (p - Len(a)) + (i + 1) - 1 = p + 1
      BY <1>0, <1>1, <1>2, <2>2
    <3>2. (a \o b)[p] = b[p - Len(a)]
      BY <1>4, <1>5, <3>1
    <3>3. b[p - Len(a)] = s[p + 1]
      BY <1>2, <3>1
    <3> QED BY <2>2, <3>2, <3>3
  <2> QED BY <2>1, <2>2
<1> QED BY <1>3, <1>4, <1>5, <1>6

\* A selection of messages in their order keeps the results of a call
\* together.
LEMMA SelectionContiguous ==
  ASSUME NEW h, NEW r, Contiguous(h), NEW g \in [DOMAIN r -> DOMAIN h],
         DOMAIN h \in SUBSET Nat, NEW l \in Nat, DOMAIN r = 1 .. l,
         \A p, q \in DOMAIN r : q < p => g[q] < g[p],
         \A p \in DOMAIN r : r[p] = h[g[p]]
  PROVE  Contiguous(r)
<1> SUFFICES ASSUME NEW q \in DOMAIN r, NEW p \in DOMAIN r, q < p, Answers(r[p], r[q]),
                    NEW k \in q + 1 .. p
             PROVE  Answers(r[k], r[q])
  BY DEF Contiguous
<1>1. k \in DOMAIN r /\ q < k /\ (k = p \/ k < p)
  OBVIOUS
<1>2. g[q] < g[k] /\ (g[k] = g[p] \/ g[k] < g[p]) /\ {g[q], g[k], g[p]} \subseteq Nat
  BY <1>1
<1>3. g[k] \in g[q] + 1 .. g[p] /\ g[q] < g[p]
  BY <1>2
<1>4. Answers(h[g[p]], h[g[q]])
  OBVIOUS
<1>5. Answers(h[g[k]], h[g[q]])
  BY <1>3, <1>4 DEF Contiguous
<1> QED BY <1>1, <1>5

LEMMA SuffixContiguous ==
  ASSUME NEW s \in Seq(Message), NEW i \in Nat \ {0}, Contiguous(s)
  PROVE  Contiguous(SubSeq(s, i, Len(s)))
<1> DEFINE e == SubSeq(s, i, Len(s))
<1>1. /\ e \in Seq(Message)
      /\ \A p \in 1 .. Len(e) : e[p] = s[p + i - 1] /\ p + i - 1 \in 1 .. Len(s)
  BY Suffix
<1> HIDE DEF e
<1>2. Len(e) \in Nat /\ DOMAIN e = 1 .. Len(e) /\ Len(s) \in Nat /\ DOMAIN s = 1 .. Len(s)
  BY <1>1, LenProperties
<1> DEFINE g == [p \in DOMAIN e |-> p + i - 1]
<1>3. g \in [DOMAIN e -> DOMAIN s] /\ DOMAIN s \in SUBSET Nat
  BY <1>1, <1>2
<1>4. \A p, q \in DOMAIN e : q < p => g[q] < g[p]
  BY <1>2
<1>5. \A p \in DOMAIN e : e[p] = s[g[p]]
  BY <1>1, <1>2
<1> HIDE DEF g
<1>6. Contiguous(e)
  BY <1>2, <1>3, <1>4, <1>5, SelectionContiguous
<1> QED BY <1>6 DEF e

LEMMA RemovedContiguous ==
  ASSUME NEW s \in Seq(Message), NEW i \in 1 .. Len(s), Contiguous(s)
  PROVE  Contiguous(RemoveAt(s, i))
<1> DEFINE e == RemoveAt(s, i)
<1>1. /\ e \in Seq(Message) /\ Len(e) = Len(s) - 1
      /\ \A p \in 1 .. Len(e) : e[p] = s[IF p < i THEN p ELSE p + 1]
  BY Removed
<1> HIDE DEF e
<1>2. Len(e) \in Nat /\ DOMAIN e = 1 .. Len(e) /\ Len(s) \in Nat /\ DOMAIN s = 1 .. Len(s)
  BY <1>1, LenProperties
<1> DEFINE g == [p \in DOMAIN e |-> IF p < i THEN p ELSE p + 1]
<1>3. g \in [DOMAIN e -> DOMAIN s] /\ DOMAIN s \in SUBSET Nat
  BY <1>1, <1>2
<1>4. \A p, q \in DOMAIN e : q < p => g[q] < g[p]
  BY <1>2
<1>5. \A p \in DOMAIN e : e[p] = s[g[p]]
  BY <1>1, <1>2
<1> HIDE DEF g
<1>6. Contiguous(e)
  BY <1>2, <1>3, <1>4, <1>5, SelectionContiguous
<1> QED BY <1>6 DEF e

-----------------------------------------------------------------------------
(* The history of a prompt.                                                *)

\* FromUser cuts some messages off the front.
LEMMA FromUserSuffix ==
  ASSUME NEW h \in Seq(Message)
  PROVE  \E i \in Nat \ {0} : FromUser(h) = SubSeq(h, i, Len(h))
<1> DEFINE users == {p \in DOMAIN h : h[p].role = "user"}
<1>0. Len(h) \in Nat /\ DOMAIN h = 1 .. Len(h)
  BY LenProperties
<1>1. CASE users = {}
  <2>1. FromUser(h) = h
    BY <1>1 DEF FromUser
  <2>2. SubSeq(h, 1, Len(h)) = h
    BY SubSeqFull
  <2>3. 1 \in Nat \ {0}
    OBVIOUS
  <2>4. FromUser(h) = SubSeq(h, 1, Len(h))
    BY <2>1, <2>2
  <2> QED BY <2>3, <2>4
<1>2. CASE users # {}
  <2> DEFINE first == CHOOSE p \in users : \A q \in users : p <= q
  <2>1. users \in SUBSET Nat
    BY <1>0
  <2>2. \E p \in users : \A q \in users : p <= q
    BY <1>2, <2>1, LeastNumber
  <2>3. first \in users
    BY <2>2
  <2>4. FromUser(h) = SubSeq(h, first, Len(h))
    BY <1>2 DEF FromUser
  <2> HIDE DEF first
  <2>5. first \in Nat \ {0}
    BY <1>0, <2>3
  <2> QED BY <2>4, <2>5
<1> QED BY <1>1, <1>2

\* Past the start that LegalStart finds, every result follows its call.
Seen == [start : Nat, declared : SUBSET CallId]

NextSeen(before, m, k) ==
  IF m.role = "tool" /\ Id(m) \notin before.declared
  THEN [start |-> k, declared |-> {}]
  ELSE [before EXCEPT !.declared = @ \cup Ids(m)]

LEMMA NextSeenType ==
  ASSUME NEW before \in Seen, NEW m \in Message, NEW k \in Nat
  PROVE  NextSeen(before, m, k) \in Seen
<1>1. Ids(m) \in SUBSET CallId
  BY MessageIds
<1>2. [start |-> k, declared |-> {}] \in Seen
  BY DEF Seen
<1>3. [before EXCEPT !.declared = @ \cup Ids(m)] \in Seen
  BY <1>1 DEF Seen
<1> QED BY <1>2, <1>3 DEF NextSeen

LEMMA LegalStartDeclares ==
  ASSUME NEW h \in Seq(Message)
  PROVE  /\ LegalStart(h) \in 0 .. Len(h)
         /\ \A p \in LegalStart(h) + 1 .. Len(h) : h[p].role = "tool" =>
              \E q \in LegalStart(h) + 1 .. p - 1 : Answers(h[p], h[q])
<1>0. Len(h) \in Nat /\ \A k \in 1 .. Len(h) : h[k] \in Message
  BY LenProperties, ElementOfSeq
<1> DEFINE none == [start |-> 0, declared |-> {}]
           seen == CHOOSE f : f = [k \in 0 .. Len(h) |->
                     IF k = 0 THEN [start |-> 0, declared |-> {}]
                     ELSE LET before == f[k - 1]
                          IN IF h[k].role = "tool" /\ Id(h[k]) \notin before.declared
                             THEN [start |-> k, declared |-> {}]
                             ELSE [before EXCEPT !.declared = @ \cup Ids(h[k])]]
<1>1. LegalStart(h) = seen[Len(h)].start
  BY DEF LegalStart
<1>2. \A k \in 0 .. Len(h) : seen[k] = IF k = 0 THEN none ELSE NextSeen(seen[k - 1], h[k], k)
  <2> DEFINE next == [kv \in (1 .. Len(h)) \X Seen |-> NextSeen(kv[2], h[kv[1]], kv[1])]
  <2>1. \A k \in 0 + 1 .. Len(h) : \A v \in Seen :
          next[<<k, v>>] = NextSeen(v, h[k], k) /\ next[<<k, v>>] \in Seen
    BY <1>0, NextSeenType
  <2>2. none \in Seen
    BY DEF Seen
  <2> HIDE DEF next
  <2>3. PICK f \in [0 .. Len(h) -> Seen] : RecursionFrom(f, none, next, 0, Len(h))
    <3>1. 0 \in Nat /\ Len(h) \in Nat
      BY <1>0
    <3>2. \A k \in 0 + 1 .. Len(h) : \A v \in Seen : next[<<k, v>>] \in Seen
      BY <2>1, Zenon
    <3> QED BY <2>2, <3>1, <3>2, RecursionExists
  <2>4. ASSUME NEW k \in 0 .. Len(h)
        PROVE  f[k] = IF k = 0 THEN none ELSE NextSeen(f[k - 1], h[k], k)
    <3>1. CASE k = 0
      BY <2>3, <3>1 DEF RecursionFrom
    <3>2. CASE k # 0
      <4>1. f[k] = next[<<k, f[k - 1]>>]
        BY <2>3, <3>2 DEF RecursionFrom
      <4>2. k \in 0 + 1 .. Len(h) /\ f[k - 1] \in Seen
        BY <1>0, <3>2
      <4> QED BY <2>1, <3>2, <4>1, <4>2
    <3> QED BY <3>1, <3>2
  <2>5. f = [k \in 0 .. Len(h) |-> f[k]]
    OBVIOUS
  <2>6. f = [k \in 0 .. Len(h) |-> IF k = 0 THEN none ELSE NextSeen(f[k - 1], h[k], k)]
    BY <2>4, <2>5
  <2>7. f = [k \in 0 .. Len(h) |->
               IF k = 0 THEN [start |-> 0, declared |-> {}]
               ELSE LET before == f[k - 1]
                    IN IF h[k].role = "tool" /\ Id(h[k]) \notin before.declared
                       THEN [start |-> k, declared |-> {}]
                       ELSE [before EXCEPT !.declared = @ \cup Ids(h[k])]]
    BY <2>6, Zenon DEF NextSeen
  <2>8. seen = [k \in 0 .. Len(h) |->
               IF k = 0 THEN [start |-> 0, declared |-> {}]
               ELSE LET before == seen[k - 1]
                    IN IF h[k].role = "tool" /\ Id(h[k]) \notin before.declared
                       THEN [start |-> k, declared |-> {}]
                       ELSE [before EXCEPT !.declared = @ \cup Ids(h[k])]]
    BY <2>7, Zenon
  <2> HIDE DEF seen
  <2>9. seen = [k \in 0 .. Len(h) |-> IF k = 0 THEN none ELSE NextSeen(seen[k - 1], h[k], k)]
    BY <2>8, Zenon DEF NextSeen
  <2> HIDE DEF none
  <2> QED BY <2>9
<1> HIDE DEF seen
<1> DEFINE Good(k) ==
             /\ seen[k] \in Seen /\ seen[k].start \in 0 .. k
             /\ \A d \in seen[k].declared : \E q \in seen[k].start + 1 .. k : d \in Ids(h[q])
             /\ \A p \in seen[k].start + 1 .. k : h[p].role = "tool" =>
                  \E q \in seen[k].start + 1 .. p - 1 : Answers(h[p], h[q])
           T == {k \in 0 .. Len(h) : ~Good(k)}
<1>3. Good(0)
  <2>1. seen[0] = none /\ none \in Seen /\ none.start = 0 /\ none.declared = {}
    BY <1>0, <1>2 DEF Seen
  <2> QED BY <2>1
<1>4. ASSUME NEW k \in 1 .. Len(h), Good(k - 1) PROVE Good(k)
  <2> DEFINE before == seen[k - 1]
             now == seen[k]
  <2>1. now = NextSeen(before, h[k], k) /\ h[k] \in Message /\ k \in Nat
    BY <1>0, <1>2
  <2>2. before \in Seen /\ before.start \in 0 .. k - 1
    BY <1>4
  <2>3. now \in Seen
    BY <2>1, <2>2, NextSeenType
  <2>4. CASE h[k].role = "tool" /\ Id(h[k]) \notin before.declared
    <3>1. now = [start |-> k, declared |-> {}]
      BY <2>1, <2>4 DEF NextSeen
    <3>2. now.start = k /\ now.declared = {}
      BY <3>1
    <3> QED BY <2>3, <3>2
  <2>5. CASE ~(h[k].role = "tool" /\ Id(h[k]) \notin before.declared)
    <3>1. now = [before EXCEPT !.declared = @ \cup Ids(h[k])]
      BY <2>1, <2>5 DEF NextSeen
    <3>2. now.start = before.start /\ now.declared = before.declared \cup Ids(h[k])
      BY <2>2, <3>1 DEF Seen
    <3>3. \A d \in before.declared : \E q \in before.start + 1 .. k - 1 : d \in Ids(h[q])
      BY <1>4
    <3>4. \A d \in now.declared : \E q \in now.start + 1 .. k : d \in Ids(h[q])
      <4> SUFFICES ASSUME NEW d \in now.declared
                   PROVE  \E q \in now.start + 1 .. k : d \in Ids(h[q])
        OBVIOUS
      <4>1. CASE d \in before.declared
        BY <2>2, <3>2, <3>3, <4>1
      <4>2. CASE d \in Ids(h[k])
        <5>1. k \in now.start + 1 .. k
          BY <2>2, <3>2
        <5> QED BY <4>2, <5>1
      <4> QED BY <3>2, <4>1, <4>2
    <3>5. ASSUME NEW p \in now.start + 1 .. k, h[p].role = "tool"
          PROVE  \E q \in now.start + 1 .. p - 1 : Answers(h[p], h[q])
      <4>1. CASE p = k
        <5>1. Id(h[p]) \in before.declared
          BY <2>5, <3>5, <4>1
        <5>2. PICK q \in before.start + 1 .. k - 1 : Id(h[p]) \in Ids(h[q])
          BY <3>3, <5>1
        <5> QED BY <3>2, <3>5, <4>1, <5>2 DEF Answers
      <4>2. CASE p # k
        <5>1. p \in before.start + 1 .. k - 1
          BY <2>2, <3>2, <4>2
        <5> QED BY <1>4, <3>2, <3>5, <5>1
      <4> QED BY <4>1, <4>2
    <3>6. now.start \in 0 .. k
      BY <2>2, <3>2
    <3> QED BY <2>3, <3>4, <3>5, <3>6
  <2> QED BY <2>4, <2>5
<1> HIDE DEF Good
<1>5. T = {}
  <2>1. T \in SUBSET (0 .. Len(h)) /\ 0 \notin T /\ 0 \in Nat
    BY <1>3
  <2>2. \A k \in 0 + 1 .. Len(h) : k - 1 \notin T => k \notin T
    BY <1>0, <1>4
  <2> HIDE DEF T
  <2> QED BY <1>0, <2>1, <2>2, StepByStep
<1>6. Good(Len(h))
  BY <1>0, <1>5
<1> QED BY <1>1, <1>6 DEF Good

\* What UnitStarts computes, one message after the other.
NextStart(h, p, v) == IF Answers(h[p], h[v]) THEN v ELSE p

LEMMA UnitStartsStep ==
  ASSUME NEW h \in Seq(Message)
  PROVE  \A p \in 1 .. Len(h) :
           UnitStarts(h)[p] = IF p = 1 THEN 1 ELSE NextStart(h, p, UnitStarts(h)[p - 1])
<1>0. Len(h) \in Nat
  BY LenProperties
<1> DEFINE start == CHOOSE f : f = [p \in 1 .. Len(h) |->
                      IF p = 1 THEN 1
                      ELSE IF h[p].role = "tool" /\ Id(h[p]) \in Ids(h[f[p - 1]])
                           THEN f[p - 1] ELSE p]
           next == [pv \in (2 .. Len(h)) \X Nat |-> NextStart(h, pv[1], pv[2])]
<1>1. UnitStarts(h) = start
  BY DEF UnitStarts
<1>2. \A p \in 1 + 1 .. Len(h) : \A v \in Nat :
        next[<<p, v>>] = NextStart(h, p, v) /\ next[<<p, v>>] \in Nat
  BY <1>0 DEF NextStart
<1> HIDE DEF next
<1>3. PICK f \in [1 .. Len(h) -> Nat] : RecursionFrom(f, 1, next, 1, Len(h))
  <2>1. \A p \in 1 + 1 .. Len(h) : \A v \in Nat : next[<<p, v>>] \in Nat
    BY <1>2, Zenon
  <2>2. 1 \in Nat
    OBVIOUS
  <2> QED BY <1>0, <2>1, <2>2, RecursionExists
<1>4. ASSUME NEW p \in 1 .. Len(h)
      PROVE  f[p] = IF p = 1 THEN 1 ELSE NextStart(h, p, f[p - 1])
  <2>1. CASE p = 1
    BY <1>3, <2>1 DEF RecursionFrom
  <2>2. CASE p # 1
    <3>1. f[p] = next[<<p, f[p - 1]>>]
      BY <1>3, <2>2 DEF RecursionFrom
    <3>2. p \in 1 + 1 .. Len(h) /\ f[p - 1] \in Nat
      BY <1>0, <2>2
    <3> QED BY <1>2, <2>2, <3>1, <3>2
  <2> QED BY <2>1, <2>2
<1>5. f = [p \in 1 .. Len(h) |-> f[p]]
  OBVIOUS
<1>6. f = [p \in 1 .. Len(h) |-> IF p = 1 THEN 1 ELSE NextStart(h, p, f[p - 1])]
  BY <1>4, <1>5
<1>7. f = [p \in 1 .. Len(h) |->
             IF p = 1 THEN 1
             ELSE IF h[p].role = "tool" /\ Id(h[p]) \in Ids(h[f[p - 1]]) THEN f[p - 1] ELSE p]
  BY <1>6, Zenon DEF NextStart, Answers
<1>8. start = [p \in 1 .. Len(h) |->
             IF p = 1 THEN 1
             ELSE IF h[p].role = "tool" /\ Id(h[p]) \in Ids(h[start[p - 1]])
                  THEN start[p - 1] ELSE p]
  BY <1>7, Zenon
<1> HIDE DEF start
<1>9. start = [p \in 1 .. Len(h) |-> IF p = 1 THEN 1 ELSE NextStart(h, p, start[p - 1])]
  BY <1>8, Zenon DEF NextStart, Answers
<1>10. \A p \in 1 .. Len(h) : start[p] = IF p = 1 THEN 1 ELSE NextStart(h, p, start[p - 1])
  BY <1>9
<1> QED BY <1>1, <1>10

\* Where results stay together, a call and its results are one unit.
LEMMA ResultsInUnit ==
  ASSUME NEW h \in Seq(Message), Contiguous(h),
         NEW q \in DOMAIN h, NEW p \in DOMAIN h, q < p, Answers(h[p], h[q])
  PROVE  UnitStarts(h)[p] = UnitStarts(h)[q]
<1>0. Len(h) \in Nat /\ DOMAIN h = 1 .. Len(h) /\ q \in Nat /\ p \in Nat
  BY LenProperties
<1> DEFINE start == UnitStarts(h)
<1>1. \A k \in 1 .. Len(h) : start[k] = IF k = 1 THEN 1 ELSE NextStart(h, k, start[k - 1])
  BY UnitStartsStep
<1> HIDE DEF start
<1>2. start[q] = q
  <2>1. h[q].role = "assistant"
    BY ElementOfSeq, MessageIds
  <2>2. NextStart(h, q, start[q - 1]) = q
    BY <2>1 DEF NextStart, Answers
  <2> QED BY <1>0, <1>1, <2>2
<1> DEFINE T == {k \in q .. p : start[k] # q}
<1>3. q \notin T
  BY <1>2
<1>4. ASSUME NEW k \in q + 1 .. p, k - 1 \notin T PROVE k \notin T
  <2>1. start[k - 1] = q
    BY <1>0, <1>4
  <2>2. Answers(h[k], h[q])
    BY DEF Contiguous
  <2>3. k \in 1 .. Len(h) /\ k # 1
    BY <1>0
  <2>4. start[k] = NextStart(h, k, start[k - 1])
    BY <1>1, <2>3
  <2>5. start[k] = q
    BY <2>1, <2>2, <2>4 DEF NextStart
  <2> QED BY <2>5
<1>5. T = {}
  <2>1. T \in SUBSET (q .. p)
    OBVIOUS
  <2> HIDE DEF T
  <2> QED BY <1>0, <1>3, <1>4, <2>1, StepByStep
<1>6. start[p] = q
  BY <1>0, <1>5
<1> QED BY <1>2, <1>6 DEF start

\* What Part computes, one message after the other.
NextPart(h, starts, kept, p, v) == IF starts[p] \in kept THEN Append(v, h[p]) ELSE v

LEMMA PartStep ==
  ASSUME NEW h \in Seq(Message), NEW starts, NEW kept
  PROVE  \E part : /\ Part(h, starts, kept) = part[Len(h)]
                   /\ \A p \in 0 .. Len(h) :
                        part[p] = IF p = 0 THEN <<>> ELSE NextPart(h, starts, kept, p, part[p - 1])
<1>0. Len(h) \in Nat /\ \A p \in 1 .. Len(h) : h[p] \in Message
  BY LenProperties, ElementOfSeq
<1> DEFINE part == CHOOSE f : f = [p \in 0 .. Len(h) |->
                      IF p = 0 THEN <<>>
                      ELSE IF starts[p] \in kept THEN Append(f[p - 1], h[p]) ELSE f[p - 1]]
           S == Seq(Message)
           next == [pv \in (1 .. Len(h)) \X S |-> NextPart(h, starts, kept, pv[1], pv[2])]
<1>1. Part(h, starts, kept) = part[Len(h)]
  BY DEF Part
<1>2. ASSUME NEW p \in 0 + 1 .. Len(h), NEW v \in S
      PROVE  next[<<p, v>>] = NextPart(h, starts, kept, p, v) /\ next[<<p, v>>] \in S
  <2>1. next[<<p, v>>] = NextPart(h, starts, kept, p, v)
    BY <1>0
  <2>2. Append(v, h[p]) \in Seq(Message)
    BY <1>0, AppendProperties
  <2>3. NextPart(h, starts, kept, p, v) \in S
    BY <2>2 DEF NextPart
  <2> QED BY <2>1, <2>3
<1> HIDE DEF next
<1>3. PICK f \in [0 .. Len(h) -> S] : RecursionFrom(f, <<>>, next, 0, Len(h))
  <2>1. \A p \in 0 + 1 .. Len(h) : \A v \in S : next[<<p, v>>] \in S
    BY <1>2, Zenon
  <2>2. 0 \in Nat /\ <<>> \in S
    BY EmptySeq
  <2> HIDE DEF S
  <2> QED BY <1>0, <2>1, <2>2, RecursionExists
<1>4. ASSUME NEW p \in 0 .. Len(h)
      PROVE  f[p] = IF p = 0 THEN <<>> ELSE NextPart(h, starts, kept, p, f[p - 1])
  <2>1. CASE p = 0
    BY <1>3, <2>1 DEF RecursionFrom
  <2>2. CASE p # 0
    <3>1. f[p] = next[<<p, f[p - 1]>>]
      BY <1>3, <2>2 DEF RecursionFrom
    <3>2. p \in 0 + 1 .. Len(h) /\ f[p - 1] \in S
      BY <1>0, <2>2
    <3> QED BY <1>2, <2>2, <3>1, <3>2
  <2> QED BY <2>1, <2>2
<1>5. f = [p \in 0 .. Len(h) |-> f[p]]
  OBVIOUS
<1>6. f = [p \in 0 .. Len(h) |->
             IF p = 0 THEN <<>> ELSE NextPart(h, starts, kept, p, f[p - 1])]
  BY <1>4, <1>5
<1>7. f = [p \in 0 .. Len(h) |->
             IF p = 0 THEN <<>>
             ELSE IF starts[p] \in kept THEN Append(f[p - 1], h[p]) ELSE f[p - 1]]
  BY <1>6, Zenon DEF NextPart
<1>8. part = [p \in 0 .. Len(h) |->
             IF p = 0 THEN <<>>
             ELSE IF starts[p] \in kept THEN Append(part[p - 1], h[p]) ELSE part[p - 1]]
  BY <1>7, Zenon
<1> HIDE DEF part
<1>9. part = [p \in 0 .. Len(h) |->
                IF p = 0 THEN <<>> ELSE NextPart(h, starts, kept, p, part[p - 1])]
  BY <1>8, Zenon DEF NextPart
<1>10. \A p \in 0 .. Len(h) :
         part[p] = IF p = 0 THEN <<>> ELSE NextPart(h, starts, kept, p, part[p - 1])
  BY <1>9
<1> QED BY <1>1, <1>10

\* Whole units of a history keep every result behind its call.
LEMMA PartDeclares ==
  ASSUME NEW h \in Seq(Message), Contiguous(h), AllDeclared(h), NEW kept
  PROVE  LET r == Part(h, UnitStarts(h), kept)
         IN r \in Seq(Message) /\ AllDeclared(r)
<1>0. Len(h) \in Nat /\ DOMAIN h = 1 .. Len(h) /\ \A p \in 1 .. Len(h) : h[p] \in Message
  BY LenProperties, ElementOfSeq
<1> DEFINE starts == UnitStarts(h)
<1>1. PICK part : /\ Part(h, starts, kept) = part[Len(h)]
                  /\ \A p \in 0 .. Len(h) :
                       part[p] = IF p = 0 THEN <<>> ELSE NextPart(h, starts, kept, p, part[p - 1])
  BY PartStep
<1>2. \A q, p \in 1 .. Len(h) : q < p /\ Answers(h[p], h[q]) => starts[p] = starts[q]
  BY <1>0, ResultsInUnit
<1> HIDE DEF starts
<1> DEFINE Good(k) ==
             /\ part[k] \in Seq(Message)
             /\ \A q \in 1 .. k : starts[q] \in kept => \E j \in 1 .. Len(part[k]) : part[k][j] = h[q]
             /\ \A j \in 1 .. Len(part[k]) : part[k][j].role = "tool" =>
                  \E i \in 1 .. j - 1 : Answers(part[k][j], part[k][i])
           T == {k \in 0 .. Len(h) : ~Good(k)}
<1>3. Good(0)
  <2>1. part[0] = <<>>
    BY <1>0, <1>1
  <2> QED BY <2>1, EmptySeq
<1>4. ASSUME NEW k \in 1 .. Len(h), Good(k - 1) PROVE Good(k)
  <2> DEFINE v == part[k - 1]
             w == part[k]
  <2>1. w = NextPart(h, starts, kept, k, v)
    <3>1. k \in 0 .. Len(h) /\ k # 0
      BY <1>0
    <3> QED BY <1>1, <3>1
  <2>2. v \in Seq(Message)
    BY <1>4
  <2>3. \A q \in 1 .. k - 1 : starts[q] \in kept => \E j \in 1 .. Len(v) : v[j] = h[q]
    BY <1>4
  <2>4. \A j \in 1 .. Len(v) : v[j].role = "tool" => \E i \in 1 .. j - 1 : Answers(v[j], v[i])
    BY <1>4
  <2>5. CASE starts[k] \notin kept
    <3>1. w = v
      BY <2>1, <2>5 DEF NextPart
    <3> HIDE DEF v, w
    <3>2. \A q \in 1 .. k : starts[q] \in kept => \E j \in 1 .. Len(w) : w[j] = h[q]
      <4>1. \A q \in 1 .. k : q # k => q \in 1 .. k - 1
        BY <1>0
      <4> QED BY <2>3, <2>5, <3>1, <4>1
    <3>3. w \in Seq(Message)
      BY <2>2, <3>1
    <3>4. \A j \in 1 .. Len(w) : w[j].role = "tool" => \E i \in 1 .. j - 1 : Answers(w[j], w[i])
      BY <2>4, <3>1
    <3> QED BY <3>2, <3>3, <3>4 DEF w
  <2>6. CASE starts[k] \in kept
    <3>1. w = Append(v, h[k]) /\ h[k] \in Message
      BY <1>0, <2>1, <2>6 DEF NextPart
    <3> HIDE DEF v, w
    <3>2. /\ w \in Seq(Message) /\ Len(w) = Len(v) + 1 /\ Len(v) \in Nat
          /\ \A j \in 1 .. Len(v) : w[j] = v[j]
          /\ w[Len(v) + 1] = h[k]
      BY <2>2, <3>1, AppendProperties, LenProperties
    <3>3. ASSUME NEW q \in 1 .. k, starts[q] \in kept PROVE \E j \in 1 .. Len(w) : w[j] = h[q]
      <4>1. CASE q = k
        <5>1. Len(v) + 1 \in 1 .. Len(w)
          BY <3>2
        <5> QED BY <3>2, <4>1, <5>1
      <4>2. CASE q # k
        <5>1. q \in 1 .. k - 1
          BY <4>2
        <5>2. PICK j \in 1 .. Len(v) : v[j] = h[q]
          BY <2>3, <3>3, <5>1
        <5>3. j \in 1 .. Len(w) /\ w[j] = v[j]
          BY <3>2
        <5> QED BY <5>2, <5>3
      <4> QED BY <4>1, <4>2
    <3>4. ASSUME NEW j \in 1 .. Len(w), w[j].role = "tool"
          PROVE  \E i \in 1 .. j - 1 : Answers(w[j], w[i])
      <4>1. CASE j = Len(v) + 1
        <5>1. h[k].role = "tool" /\ w[j] = h[k]
          BY <3>2, <3>4, <4>1
        <5>2. PICK q \in 1 .. k - 1 : Answers(h[k], h[q])
          BY <1>0, <5>1 DEF AllDeclared
        <5>3. q \in 1 .. Len(h) /\ q < k
          BY <1>0
        <5>4. starts[q] \in kept
          BY <1>2, <2>6, <5>2, <5>3
        <5>5. PICK i \in 1 .. Len(v) : v[i] = h[q]
          BY <2>3, <5>4
        <5>6. i \in 1 .. j - 1 /\ w[i] = v[i]
          BY <3>2, <4>1
        <5> QED BY <5>1, <5>2, <5>5, <5>6
      <4>2. CASE j # Len(v) + 1
        <5>1. j \in 1 .. Len(v) /\ w[j] = v[j]
          BY <3>2, <4>2
        <5>2. PICK i \in 1 .. j - 1 : Answers(v[j], v[i])
          BY <2>4, <3>4, <5>1
        <5>3. w[i] = v[i]
          BY <3>2, <5>1
        <5> QED BY <5>1, <5>2, <5>3
      <4> QED BY <4>1, <4>2
    <3> QED BY <3>2, <3>3, <3>4 DEF w
  <2> QED BY <2>5, <2>6
<1> HIDE DEF Good
<1>5. T = {}
  <2>1. T \in SUBSET (0 .. Len(h)) /\ 0 \notin T /\ 0 \in Nat
    BY <1>3
  <2>2. \A k \in 0 + 1 .. Len(h) : k - 1 \notin T => k \notin T
    BY <1>0, <1>4
  <2> HIDE DEF T
  <2> QED BY <1>0, <2>1, <2>2, StepByStep
<1>6. Good(Len(h))
  BY <1>0, <1>5
<1> DEFINE r == Part(h, starts, kept)
<1>7. r = part[Len(h)]
  BY <1>1
<1> HIDE DEF r
<1>8. r \in Seq(Message) /\ AllDeclared(r)
  <2>1. r \in Seq(Message)
    BY <1>6, <1>7 DEF Good
  <2>2. DOMAIN r = 1 .. Len(r)
    BY <2>1, LenProperties
  <2> QED BY <1>6, <1>7, <2>1, <2>2 DEF Good, AllDeclared
<1> QED BY <1>8 DEF r, starts

\* The histories that a session with its results together gives a prompt.
LEMMA HistoriesLegal ==
  ASSUME NEW s, s.msgs \in Seq(Message), s.lc \in Nat, Contiguous(s.msgs), NEW h \in Histories(s)
  PROVE  h \in Seq(Message) /\ AllDeclared(h)
<1> DEFINE rest == SubSeq(s.msgs, s.lc + 1, Len(s.msgs))
           user == FromUser(rest)
           legal == SubSeq(user, LegalStart(user) + 1, Len(user))
<1>1. s.lc + 1 \in Nat \ {0}
  OBVIOUS
<1>2. rest \in Seq(Message) /\ Contiguous(rest)
  BY <1>1, Suffix, SuffixContiguous
<1> HIDE DEF rest
<1>3. user \in Seq(Message) /\ Contiguous(user)
  <2>1. PICK i \in Nat \ {0} : user = SubSeq(rest, i, Len(rest))
    BY <1>2, FromUserSuffix
  <2>2. SubSeq(rest, i, Len(rest)) \in Seq(Message)
    BY <1>2, Suffix
  <2>3. Contiguous(SubSeq(rest, i, Len(rest)))
    BY <1>2, SuffixContiguous
  <2> QED BY <2>1, <2>2, <2>3
<1>4. h \in IF Len(legal) >= FilterFrom THEN Filtered(legal) ELSE {legal}
  BY DEF Histories, rest
<1> HIDE DEF user
<1> DEFINE i == LegalStart(user)
<1>5. /\ i \in 0 .. Len(user)
      /\ \A p \in i + 1 .. Len(user) : user[p].role = "tool" =>
           \E q \in i + 1 .. p - 1 : Answers(user[p], user[q])
  BY <1>3, LegalStartDeclares
<1>6. i \in Nat /\ i + 1 \in Nat \ {0} /\ Len(user) \in Nat
  BY <1>3, <1>5, LenProperties
<1> HIDE DEF i
<1>7. /\ legal \in Seq(Message)
      /\ Len(legal) = IF i + 1 <= Len(user) THEN Len(user) - (i + 1) + 1 ELSE 0
      /\ \A p \in 1 .. Len(legal) : legal[p] = user[p + (i + 1) - 1]
                                    /\ p + (i + 1) - 1 \in 1 .. Len(user)
  BY <1>3, <1>6, Suffix DEF i
<1>8. Contiguous(legal)
  BY <1>3, <1>6, SuffixContiguous DEF i
<1> HIDE DEF legal
<1>9. Len(legal) \in Nat /\ DOMAIN legal = 1 .. Len(legal)
  BY <1>7, LenProperties
<1>10. AllDeclared(legal)
  <2> SUFFICES ASSUME NEW p \in 1 .. Len(legal), legal[p].role = "tool"
               PROVE  \E q \in 1 .. p - 1 : Answers(legal[p], legal[q])
    BY <1>9 DEF AllDeclared
  <2>1. legal[p] = user[p + i] /\ p + i \in i + 1 .. Len(user)
    <3>1. p + (i + 1) - 1 = p + i /\ p + i >= i + 1
      BY <1>6, <1>9
    <3> QED BY <1>6, <1>7, <3>1
  <2>2. PICK q \in i + 1 .. p + i - 1 : Answers(user[p + i], user[q])
    BY <1>5, <2>1
  <2>3. q - i \in 1 .. p - 1 /\ q - i \in 1 .. Len(legal) /\ (q - i) + (i + 1) - 1 = q
    BY <1>6, <1>9
  <2>4. legal[q - i] = user[q]
    BY <1>7, <2>3
  <2> QED BY <2>1, <2>2, <2>3, <2>4
<1>11. CASE Len(legal) >= FilterFrom
  <2>1. h \in Filtered(legal)
    BY <1>4, <1>11
  <2>2. \E kept : h = Part(legal, UnitStarts(legal), kept)
    BY <2>1 DEF Filtered
  <2> QED BY <1>7, <1>8, <1>10, <2>2, PartDeclares
<1>12. CASE ~(Len(legal) >= FilterFrom)
  BY <1>4, <1>7, <1>10, <1>12
<1> QED BY <1>11, <1>12

-----------------------------------------------------------------------------
(* The invariant.                                                          *)

\* The results of the call at p are right behind it.
Answered(h, p) ==
  /\ p + h[p].n <= Len(h)
  /\ \A k \in 1 .. h[p].n :
       h[p + k].role = "tool" /\ Id(h[p + k]) = <<h[p].turn, h[p].iter, k>>

\* A call below the iteration bound.
Bounded(m) == IsCall(m) /\ m.iter < MaxIterations

\* What a turn x has made so far: its own messages, with no call open but the
\* last, whose tools are running.
NewOK(t, x) ==
  /\ x.pc \in {"llm", "tools"} => x.iter < MaxIterations
  /\ \A p \in DOMAIN x.new : x.new[p].turn = t /\ x.new[p].iter <= x.iter
  /\ x.pc = "tools" =>
       /\ Len(x.new) > 0 /\ IsCall(x.new[Len(x.new)]) /\ x.new[Len(x.new)].iter = x.iter
       /\ \A p \in 1 .. Len(x.new) - 1 : x.new[p].role = "assistant" => x.new[p].iter < x.iter
  /\ Contiguous(x.new)
  /\ \A p \in DOMAIN x.new :
       Bounded(x.new[p]) => Answered(x.new, p) \/ (x.pc = "tools" /\ p = Len(x.new))

NewInv == \A t \in Turns : NewOK(t, turn[t])

\* The session holds messages of turns that are over, with the results of
\* every call together and none missing.
SessionInv ==
  /\ \A p \in DOMAIN session.msgs : turn[session.msgs[p].turn].pc = "done"
  /\ Contiguous(session.msgs)
  /\ \A p \in DOMAIN session.msgs :
       Bounded(session.msgs[p]) /\ session.msgs[p].turn \notin recalled => Answered(session.msgs, p)

\* The flag of the message tool is only up when it wrote during every open
\* turn that would be silenced by it.
ToldInv == \A t \in Turns : sent /\ Open(t) /\ turn[t].kind # "system" => t \in told

TurnState == [pc : {"idle", "llm", "tools", "end", "done"},
              kind : {"user", "system", "direct"}, cut : Nat, new : Seq(Message),
              iter : 0 .. MaxIterations, ran : Nat, silent : BOOLEAN]

SessionState == [msgs : Seq(Message), lc : Nat, summary : {"none", "asked", "ready"}]

\* What the assumption says of the bounds.
LEMMA Bounds == /\ MaxTurns \in Nat /\ ShortHistory \in Nat
                /\ MaxIterations \in Nat /\ MaxIterations > 0
                /\ Kinds \subseteq {"user", "system", "direct"} /\ CallCounts \subseteq Nat \ {0}
BY TurnAssumption

LEMMA TypeParts ==
  ASSUME TypeOK
  PROVE  /\ session \in SessionState /\ turn \in [Turns -> TurnState]
         /\ session.msgs \in Seq(Message) /\ session.lc \in Nat
         /\ sent \in BOOLEAN /\ told \subseteq Turns /\ recalled \subseteq Turns
<1>1. session \in SessionState
  BY DEF TypeOK, SessionState
<1>2. session.msgs \in Seq(Message) /\ session.lc \in Nat
  BY <1>1 DEF SessionState
<1> QED BY <1>1, <1>2 DEF TypeOK, TurnState

-----------------------------------------------------------------------------
(* Calls and their results in sequences that grow or lose an element.      *)

\* A call stays answered when its results are moved with it.
LEMMA AnsweredMoves ==
  ASSUME NEW h \in Seq(Message), NEW p \in 1 .. Len(h), Answered(h, p),
         NEW r, Len(r) \in Nat, NEW q \in Nat, q + h[p].n <= Len(r),
         \A k \in 0 .. h[p].n : r[q + k] = h[p + k]
  PROVE  Answered(r, q)
<1>1. h[p].n \in Nat /\ p \in Nat
  BY ElementOfSeq, MessageIds, LenProperties
<1>2. r[q] = h[p]
  <2>1. r[q + 0] = h[p + 0]
    BY <1>1
  <2> QED BY <1>1, <2>1
<1>3. \A k \in 1 .. h[p].n : r[q + k] = h[p + k]
  BY <1>1
<1> QED BY <1>2, <1>3 DEF Answered

\* Appended messages that answer no earlier call keep results together.
LEMMA ConcatContiguous ==
  ASSUME NEW a \in Seq(Message), NEW b \in Seq(Message), Contiguous(a), Contiguous(b),
         \A q \in 1 .. Len(a), p \in 1 .. Len(b) : ~Answers(b[p], a[q])
  PROVE  Contiguous(a \o b)
<1> DEFINE r == a \o b
<1>1. /\ Len(a) \in Nat /\ Len(b) \in Nat
      /\ DOMAIN a = 1 .. Len(a) /\ DOMAIN b = 1 .. Len(b)
  BY LenProperties
<1>2. /\ r \in Seq(Message) /\ Len(r) = Len(a) + Len(b)
      /\ \A p \in 1 .. Len(a) + Len(b) : r[p] = IF p <= Len(a) THEN a[p] ELSE b[p - Len(a)]
  BY ConcatProperties
<1> HIDE DEF r
<1>3. DOMAIN r = 1 .. Len(a) + Len(b)
  BY <1>2, LenProperties
<1> SUFFICES ASSUME NEW q \in DOMAIN r, NEW p \in DOMAIN r, q < p, Answers(r[p], r[q]),
                    NEW k \in q + 1 .. p
             PROVE  Answers(r[k], r[q])
  BY DEF Contiguous, r
<1>4. k \in DOMAIN r /\ q \in Nat /\ p \in Nat /\ k \in Nat
  BY <1>1, <1>3
<1>5. CASE p <= Len(a)
  <2>1. r[p] = a[p] /\ r[q] = a[q] /\ r[k] = a[k] /\ q \in DOMAIN a /\ p \in DOMAIN a
    BY <1>1, <1>2, <1>3, <1>4, <1>5
  <2> QED BY <2>1 DEF Contiguous
<1>6. CASE ~(p <= Len(a)) /\ q <= Len(a)
  <2>1. r[p] = b[p - Len(a)] /\ r[q] = a[q] /\ q \in 1 .. Len(a) /\ p - Len(a) \in 1 .. Len(b)
    BY <1>1, <1>2, <1>3, <1>4, <1>6
  <2> QED BY <2>1
<1>7. CASE ~(q <= Len(a))
  <2>0. PICK l \in Nat : l = Len(a)
    BY <1>1, Zenon
  <2>1. \A j \in DOMAIN r : j > l => r[j] = b[j - l] /\ j - l \in DOMAIN b
    BY <1>1, <1>2, <1>3, <2>0
  <2>2. q > l /\ p > l /\ k > l
    BY <1>4, <1>7, <2>0
  <2>3. r[p] = b[p - l] /\ r[q] = b[q - l] /\ r[k] = b[k - l]
    BY <1>4, <2>1, <2>2
  <2>4. q - l \in DOMAIN b /\ p - l \in DOMAIN b
    BY <2>1, <2>2
  <2>5. q - l < p - l /\ k - l \in q - l + 1 .. p - l
    BY <1>4, <2>0
  <2> QED BY <2>3, <2>4, <2>5 DEF Contiguous
<1> QED BY <1>5, <1>6, <1>7

\* A message that is no result keeps results together.
LEMMA AppendContiguous ==
  ASSUME NEW h \in Seq(Message), NEW m \in Message, Contiguous(h), m.role # "tool"
  PROVE  Contiguous(Append(h, m))
<1> DEFINE r == Append(h, m)
<1>1. Len(h) \in Nat /\ DOMAIN h = 1 .. Len(h)
  BY LenProperties
<1>2. /\ r \in Seq(Message) /\ Len(r) = Len(h) + 1
      /\ \A p \in 1 .. Len(h) : r[p] = h[p]
      /\ r[Len(h) + 1] = m
  BY AppendProperties
<1> HIDE DEF r
<1>3. DOMAIN r = 1 .. Len(h) + 1
  BY <1>2, LenProperties
<1> SUFFICES ASSUME NEW q \in DOMAIN r, NEW p \in DOMAIN r, q < p, Answers(r[p], r[q]),
                    NEW k \in q + 1 .. p
             PROVE  Answers(r[k], r[q])
  BY DEF Contiguous, r
<1>4. p # Len(h) + 1
  BY <1>2 DEF Answers
<1>5. r[p] = h[p] /\ r[q] = h[q] /\ r[k] = h[k] /\ q \in DOMAIN h /\ p \in DOMAIN h
  BY <1>1, <1>2, <1>3, <1>4
<1> QED BY <1>5 DEF Contiguous

-----------------------------------------------------------------------------
(* What one turn may become: its type and NewOK, for every step.           *)

LEMMA IdleOK == IdleTurn \in TurnState /\ \A t : NewOK(t, IdleTurn)
<1>1. IdleTurn \in TurnState
  BY Bounds, EmptySeq DEF IdleTurn, TurnState
<1>2. IdleTurn.pc = "idle" /\ DOMAIN IdleTurn.new = {} /\ IdleTurn.new = <<>>
  BY DEF IdleTurn
<1> QED BY <1>1, <1>2 DEF NewOK, Contiguous

\* A turn that is over.
LEMMA DoneOK ==
  ASSUME NEW b \in BOOLEAN
  PROVE  /\ [IdleTurn EXCEPT !.pc = "done", !.silent = b] \in TurnState
         /\ \A t : NewOK(t, [IdleTurn EXCEPT !.pc = "done", !.silent = b])
         /\ [IdleTurn EXCEPT !.pc = "done", !.silent = b].pc = "done"
         /\ [IdleTurn EXCEPT !.pc = "done", !.silent = b].silent = b
         /\ [IdleTurn EXCEPT !.pc = "done"] \in TurnState
         /\ \A t : NewOK(t, [IdleTurn EXCEPT !.pc = "done"])
         /\ [IdleTurn EXCEPT !.pc = "done"].pc = "done"
         /\ [IdleTurn EXCEPT !.pc = "done"].silent = FALSE
<1> DEFINE x == [IdleTurn EXCEPT !.pc = "done", !.silent = b]
           y == [IdleTurn EXCEPT !.pc = "done"]
           over(v) == [pc |-> "done", kind |-> "user", cut |-> 0, new |-> <<>>,
                       iter |-> 0, ran |-> 0, silent |-> v]
<1>0. x = over(b) /\ y = over(FALSE)
  <2>1. ASSUME NEW c, NEW z, z = [IdleTurn EXCEPT !.pc = "done", !.silent = c] PROVE z = over(c)
    BY <2>1 DEF IdleTurn
  <2>2. ASSUME NEW z, z = [IdleTurn EXCEPT !.pc = "done"] PROVE z = over(FALSE)
    BY <2>2 DEF IdleTurn
  <2> HIDE DEF over
  <2> QED BY <2>1, <2>2, Zenon
<1>1. x \in TurnState /\ x.pc = "done" /\ x.silent = b /\ x.new = <<>>
  <2>1. over(b) \in TurnState
    BY Bounds, EmptySeq DEF TurnState
  <2> QED BY <1>0, <2>1
<1>2. y \in TurnState /\ y.pc = "done" /\ y.silent = FALSE /\ y.new = <<>>
  <2>1. over(FALSE) \in TurnState
    BY Bounds, EmptySeq DEF TurnState
  <2> QED BY <1>0, <2>1
<1> HIDE DEF x, y, over
<1>3. DOMAIN <<>> = {}
  OBVIOUS
<1>4. \A t : NewOK(t, x) /\ NewOK(t, y)
  BY <1>1, <1>2, <1>3 DEF NewOK, Contiguous
<1> QED BY <1>1, <1>2, <1>4 DEF x, y

\* A turn that begins.
LEMMA BegunOK ==
  ASSUME NEW t \in Turns, NEW kind \in {"user", "system", "direct"}, NEW cut \in Nat,
         NEW m \in Message, m.turn = t, m.iter = 0, m.n = 0
  PROVE  /\ RunGraph(kind, m, cut) \in TurnState
         /\ NewOK(t, RunGraph(kind, m, cut))
         /\ RunGraph(kind, m, cut).pc = "llm" /\ RunGraph(kind, m, cut).kind = kind
         /\ ~RunGraph(kind, m, cut).silent
<1> DEFINE x == RunGraph(kind, m, cut)
<1>0. x = [IdleTurn EXCEPT !.pc = "llm", !.kind = kind, !.new = <<m>>, !.cut = cut]
  BY DEF RunGraph
<1>1. /\ x.pc = "llm" /\ x.kind = kind /\ x.new = <<m>> /\ x.cut = cut
      /\ x.iter = 0 /\ x.ran = 0 /\ x.silent = FALSE
  BY <1>0 DEF IdleTurn
<1>2. <<m>> \in Seq(Message) /\ Len(<<m>>) = 1 /\ <<m>>[1] = m /\ DOMAIN <<m>> = {1}
  OBVIOUS
<1>3. x = [pc |-> "llm", kind |-> kind, cut |-> cut, new |-> <<m>>,
           iter |-> 0, ran |-> 0, silent |-> FALSE]
  BY <1>0 DEF IdleTurn
<1>4. x \in TurnState
  BY <1>2, <1>3, Bounds DEF TurnState
<1> HIDE DEF x
<1>5. Contiguous(<<m>>)
  BY <1>2 DEF Contiguous
<1>6. ~Bounded(m)
  BY DEF Bounded, IsCall
<1>7. NewOK(t, x)
  BY <1>1, <1>2, <1>5, <1>6, Bounds DEF NewOK
<1> QED BY <1>1, <1>4, <1>7 DEF x

\* A response.
Responded(x, m, calls) ==
  [x EXCEPT !.iter = x.iter + 1, !.ran = 0, !.pc = NextNode(calls, x.iter + 1),
            !.new = Append(x.new, m)]

LEMMA RespondedOK ==
  ASSUME NEW t \in Turns, NEW x \in TurnState, NewOK(t, x), x.pc = "llm",
         NEW calls \in Nat, NEW m \in Message,
         m = [role |-> "assistant", turn |-> t, iter |-> x.iter + 1, n |-> calls]
  PROVE  LET y == Responded(x, m, calls)
         IN /\ y \in TurnState /\ NewOK(t, y)
            /\ y.pc \in {"tools", "end"} /\ y.kind = x.kind /\ y.silent = x.silent
<1> DEFINE y == Responded(x, m, calls)
<1>0. x.new \in Seq(Message) /\ x.iter \in Nat /\ x.iter < MaxIterations /\ MaxIterations \in Nat
  BY Bounds DEF TurnState, NewOK
<1>1. PICK new \in Seq(Message) :
        /\ new = Append(x.new, m) /\ Len(new) = Len(x.new) + 1
        /\ \A p \in 1 .. Len(x.new) : new[p] = x.new[p]
        /\ new[Len(x.new) + 1] = m
  <2>1. /\ Append(x.new, m) \in Seq(Message) /\ Len(Append(x.new, m)) = Len(x.new) + 1
        /\ \A p \in 1 .. Len(x.new) : Append(x.new, m)[p] = x.new[p]
        /\ Append(x.new, m)[Len(x.new) + 1] = m
    BY <1>0, AppendProperties
  <2> QED BY <2>1, Zenon
<1>2. NextNode(calls, x.iter + 1) \in {"tools", "end"}
  BY DEF NextNode
<1>3. y = [x EXCEPT !.iter = x.iter + 1, !.ran = 0, !.pc = NextNode(calls, x.iter + 1), !.new = new]
  BY <1>1 DEF Responded
<1>4. y = [pc |-> NextNode(calls, x.iter + 1), kind |-> x.kind, cut |-> x.cut, new |-> new,
           iter |-> x.iter + 1, ran |-> 0, silent |-> x.silent]
  BY <1>3 DEF TurnState
<1>5. y \in TurnState
  BY <1>0, <1>2, <1>4 DEF TurnState
<1>6. /\ y.pc = NextNode(calls, x.iter + 1) /\ y.iter = x.iter + 1 /\ y.new = new
      /\ y.kind = x.kind /\ y.silent = x.silent
  BY <1>4
<1> HIDE DEF y
<1>7. Len(x.new) \in Nat /\ DOMAIN x.new = 1 .. Len(x.new) /\ DOMAIN new = 1 .. Len(x.new) + 1
  BY <1>0, <1>1, LenProperties
<1>8. m.role = "assistant" /\ m.turn = t /\ m.iter = x.iter + 1 /\ m.n = calls
  OBVIOUS
<1>9. Contiguous(new)
  <2>1. Contiguous(x.new) /\ m.role # "tool"
    BY <1>8 DEF NewOK
  <2> QED BY <1>0, <1>1, <2>1, AppendContiguous
<1>10. \A p \in 1 .. Len(x.new) : x.new[p].turn = t /\ x.new[p].iter <= x.iter /\ x.new[p].iter \in Nat
  <2>1. \A p \in 1 .. Len(x.new) : x.new[p].iter \in Nat
    BY <1>0, ElementOfSeq, MessageIds
  <2> QED BY <1>7, <2>1 DEF NewOK
<1>11. \A p \in DOMAIN new : new[p].turn = t /\ new[p].iter <= y.iter
  BY <1>0, <1>1, <1>6, <1>7, <1>8, <1>10
<1>12. y.pc = "tools" => calls > 0 /\ x.iter + 1 < MaxIterations
  BY <1>6 DEF NextNode
<1>13. y.pc = "tools" =>
         /\ Len(new) > 0 /\ IsCall(new[Len(new)]) /\ new[Len(new)].iter = y.iter
         /\ \A p \in 1 .. Len(new) - 1 : new[p].role = "assistant" => new[p].iter < y.iter
  BY <1>0, <1>1, <1>6, <1>7, <1>8, <1>10, <1>12 DEF IsCall
<1>14. ASSUME NEW p \in DOMAIN new, Bounded(new[p])
       PROVE  Answered(new, p) \/ (y.pc = "tools" /\ p = Len(new))
  <2>1. CASE p = Len(x.new) + 1
    <3>1. new[p] = m
      BY <1>1, <2>1
    <3>2. calls > 0 /\ x.iter + 1 < MaxIterations
      BY <1>8, <1>14, <3>1 DEF Bounded, IsCall
    <3> QED BY <1>1, <1>6, <2>1, <3>2 DEF NextNode
  <2>2. CASE p # Len(x.new) + 1
    <3>1. p \in 1 .. Len(x.new) /\ new[p] = x.new[p]
      BY <1>1, <1>7, <2>2
    <3>2. Answered(x.new, p)
      BY <1>7, <1>14, <3>1 DEF NewOK
    <3>3. p + x.new[p].n <= Len(x.new)
      BY <3>2 DEF Answered
    <3>4. x.new[p].n \in Nat
      BY <1>0, <3>1, ElementOfSeq, MessageIds
    <3>5. p \in Nat /\ Len(new) \in Nat /\ p + x.new[p].n <= Len(new)
      BY <1>1, <1>7, <3>1, <3>3, <3>4
    <3>6. \A k \in 0 .. x.new[p].n : new[p + k] = x.new[p + k]
      BY <1>1, <1>7, <3>1, <3>3, <3>4
    <3> QED BY <1>0, <3>1, <3>2, <3>5, <3>6, AnsweredMoves
  <2> QED BY <2>1, <2>2
<1>15. NewOK(t, y)
  <2>1. y.pc \in {"llm", "tools"} => y.iter < MaxIterations
    BY <1>2, <1>6, <1>12
  <2> QED BY <1>6, <1>9, <1>11, <1>13, <1>14, <2>1 DEF NewOK
<1> QED BY <1>2, <1>5, <1>6, <1>15 DEF y

\* The results of a call.
Results(call) == [k \in 1 .. call.n |-> [call EXCEPT !.role = "tool", !.n = k]]

LEMMA ResultsOK ==
  ASSUME NEW call \in Message
  PROVE  /\ Results(call) \in Seq(Message) /\ Len(Results(call)) = call.n
         /\ \A k \in 1 .. call.n :
              /\ Results(call)[k].role = "tool" /\ Results(call)[k].turn = call.turn
              /\ Results(call)[k].iter = call.iter /\ Results(call)[k].n = k
<1>1. call.n \in Nat
  BY MessageIds
<1> DEFINE result(k) == [call EXCEPT !.role = "tool", !.n = k]
<1>2. ASSUME NEW k \in 1 .. call.n, NEW m, m = result(k)
      PROVE  /\ m \in Message /\ m.role = "tool" /\ m.turn = call.turn
             /\ m.iter = call.iter /\ m.n = k
  <2>1. m = [role |-> "tool", turn |-> call.turn, iter |-> call.iter, n |-> k]
    BY <1>2 DEF Message
  <2>2. k \in Nat /\ call.turn \in Turns /\ call.iter \in 0 .. MaxIterations
    BY <1>1, MessageIds
  <2> QED BY <2>1, <2>2 DEF Message
<1>3. Results(call) = [k \in 1 .. call.n |-> result(k)]
  BY DEF Results
<1> HIDE DEF result
<1>4. ASSUME NEW k \in 1 .. call.n
      PROVE  /\ Results(call)[k] \in Message /\ Results(call)[k].role = "tool"
             /\ Results(call)[k].turn = call.turn
             /\ Results(call)[k].iter = call.iter /\ Results(call)[k].n = k
  <2>1. Results(call)[k] = result(k)
    BY <1>3
  <2> QED BY <1>2, <2>1
<1>5. Results(call) = [k \in 1 .. call.n |-> Results(call)[k]]
  BY <1>3
<1>6. Results(call) \in [1 .. call.n -> Message]
  BY <1>4, <1>5
<1>7. Results(call) \in Seq(Message) /\ Len(Results(call)) = call.n
  BY <1>1, <1>6
<1> QED BY <1>4, <1>7

\* A call whose tools have all run.
ToolsRun(x) ==
  [x EXCEPT !.new = x.new \o Results(x.new[Len(x.new)]), !.ran = 0, !.pc = "llm"]

LEMMA ToolsRunOK ==
  ASSUME NEW t \in Turns, NEW x \in TurnState, NewOK(t, x), x.pc = "tools"
  PROVE  LET y == ToolsRun(x)
         IN /\ y \in TurnState /\ NewOK(t, y)
            /\ y.pc = "llm" /\ y.kind = x.kind /\ y.silent = x.silent
<1> DEFINE y == ToolsRun(x)
<1>0. x.new \in Seq(Message) /\ x.iter \in Nat /\ x.iter < MaxIterations /\ MaxIterations \in Nat
  BY Bounds DEF TurnState, NewOK
<1>1. /\ Len(x.new) > 0 /\ IsCall(x.new[Len(x.new)]) /\ x.new[Len(x.new)].iter = x.iter
      /\ \A p \in 1 .. Len(x.new) - 1 : x.new[p].role = "assistant" => x.new[p].iter < x.iter
  BY DEF NewOK
<1>2. Len(x.new) \in Nat /\ DOMAIN x.new = 1 .. Len(x.new)
  BY <1>0, LenProperties
<1>3. PICK l : l = Len(x.new)
  OBVIOUS
<1>4. l \in Nat /\ l > 0 /\ l \in DOMAIN x.new
  BY <1>1, <1>2, <1>3
<1>5. PICK c : c = x.new[l]
  OBVIOUS
<1>6. /\ c \in Message /\ c.role = "assistant" /\ c.n > 0 /\ c.n \in Nat
      /\ c.turn = t /\ c.iter = x.iter
  <2>1. c \in Message
    BY <1>0, <1>4, <1>5, ElementOfSeq
  <2>2. c.turn = t
    BY <1>4, <1>5 DEF NewOK
  <2> QED BY <1>1, <1>3, <1>5, <2>1, <2>2, MessageIds DEF IsCall
<1>7. PICK r : r = Results(c)
  OBVIOUS
<1>8. /\ r \in Seq(Message) /\ Len(r) = c.n
      /\ \A k \in 1 .. c.n : /\ r[k].role = "tool" /\ r[k].turn = t
                             /\ r[k].iter = x.iter /\ r[k].n = k
  BY <1>6, <1>7, ResultsOK
<1>9. PICK new : new = x.new \o r
  OBVIOUS
<1>10. /\ new \in Seq(Message) /\ Len(new) = l + c.n
       /\ \A p \in 1 .. l : new[p] = x.new[p]
       /\ \A k \in 1 .. c.n : new[l + k] = r[k]
  <2>1. /\ x.new \o r \in Seq(Message) /\ Len(x.new \o r) = Len(x.new) + Len(r)
        /\ \A p \in 1 .. Len(x.new) + Len(r) :
             (x.new \o r)[p] = IF p <= Len(x.new) THEN x.new[p] ELSE r[p - Len(x.new)]
    <3>1. x.new \in Seq(Message) /\ r \in Seq(Message)
      BY <1>0, <1>8
    <3> QED BY <3>1, ConcatProperties
  <2>2. /\ new \in Seq(Message) /\ Len(new) = l + c.n
        /\ \A p \in 1 .. l + c.n : new[p] = IF p <= l THEN x.new[p] ELSE r[p - l]
    BY <1>3, <1>8, <1>9, <2>1
  <2>3. \A k \in 1 .. c.n : l + k \in 1 .. l + c.n /\ ~(l + k <= l) /\ (l + k) - l = k
    BY <1>4, <1>6
  <2>4. \A p \in 1 .. l : p \in 1 .. l + c.n /\ p <= l
    BY <1>4, <1>6
  <2> QED BY <2>2, <2>3, <2>4
<1>11. y = [x EXCEPT !.new = new, !.ran = 0, !.pc = "llm"]
  BY <1>3, <1>5, <1>7, <1>9 DEF ToolsRun
<1>12. y = [pc |-> "llm", kind |-> x.kind, cut |-> x.cut, new |-> new,
            iter |-> x.iter, ran |-> 0, silent |-> x.silent]
  BY <1>11 DEF TurnState
<1>13. y \in TurnState
  BY <1>0, <1>10, <1>12 DEF TurnState
<1>14. y.pc = "llm" /\ y.iter = x.iter /\ y.new = new /\ y.kind = x.kind /\ y.silent = x.silent
  BY <1>12
<1> HIDE DEF y
<1>15. DOMAIN new = 1 .. l + c.n
  BY <1>10, LenProperties
<1>16. \A p \in DOMAIN new : p \in 1 .. l \/ \E k \in 1 .. c.n : p = l + k
  <2> SUFFICES ASSUME NEW p \in DOMAIN new, p \notin 1 .. l
               PROVE  \E k \in 1 .. c.n : p = l + k
    OBVIOUS
  <2>1. p - l \in 1 .. c.n /\ p = l + (p - l)
    BY <1>4, <1>6, <1>15
  <2> QED BY <2>1
<1>17. \A p \in DOMAIN x.new : x.new[p].turn = t /\ x.new[p].iter <= x.iter
  BY DEF NewOK
<1>18. \A p \in DOMAIN new : new[p].turn = t /\ new[p].iter <= y.iter
  <2> SUFFICES ASSUME NEW p \in DOMAIN new PROVE new[p].turn = t /\ new[p].iter <= x.iter
    BY <1>14
  <2>1. CASE p \in 1 .. l
    <3>1. new[p] = x.new[p] /\ p \in DOMAIN x.new
      BY <1>2, <1>3, <1>10, <2>1
    <3> QED BY <1>17, <3>1
  <2>2. CASE p \notin 1 .. l
    <3>1. PICK k \in 1 .. c.n : p = l + k
      BY <1>16, <2>2
    <3>2. new[p] = r[k]
      BY <1>10, <3>1
    <3> QED BY <1>0, <1>8, <3>2
  <2> QED BY <2>1, <2>2
<1>19. \A k \in 1 .. c.n : Answers(new[l + k], c) /\ Id(new[l + k]) = <<t, x.iter, k>>
  BY <1>6, <1>8, <1>10 DEF Answers, Id, Ids
<1>20. ASSUME NEW k \in 1 .. c.n, NEW q \in DOMAIN new, Answers(new[l + k], new[q])
       PROVE  q = l
  <2>1. new[q] \in Message
    BY <1>10, <1>15, ElementOfSeq
  <2>2. new[q].role = "assistant"
    BY <1>20, <2>1, MessageIds
  <2>3. q \in 1 .. l /\ new[q] = x.new[q]
    <3>1. \A j \in 1 .. c.n : q # l + j
      BY <1>8, <1>10, <2>2
    <3> QED BY <1>10, <1>16, <3>1
  <2>4. new[q].iter = x.iter
    <3>1. Id(new[l + k]) \in {<<new[q].turn, new[q].iter, j>> : j \in 1 .. new[q].n}
      BY <1>20, <2>2 DEF Answers, Ids
    <3> QED BY <1>19, <3>1
  <2>5. x.iter \in Nat
    BY <1>0
  <2>6. q \in 1 .. l - 1 => FALSE
    BY <1>1, <1>3, <2>2, <2>3, <2>4, <2>5
  <2> QED BY <1>4, <2>3, <2>6
<1>21. Contiguous(new)
  <2> SUFFICES ASSUME NEW q \in DOMAIN new, NEW p \in DOMAIN new, q < p,
                      Answers(new[p], new[q]), NEW k \in q + 1 .. p
               PROVE  Answers(new[k], new[q])
    BY DEF Contiguous
  <2>1. CASE p \in 1 .. l
    <3>1. /\ q \in DOMAIN x.new /\ p \in DOMAIN x.new
          /\ new[p] = x.new[p] /\ new[q] = x.new[q] /\ new[k] = x.new[k]
      BY <1>2, <1>3, <1>10, <1>15, <2>1
    <3>2. Contiguous(x.new)
      BY DEF NewOK
    <3> QED BY <3>1, <3>2 DEF Contiguous
  <2>2. CASE p \notin 1 .. l
    <3>1. PICK j \in 1 .. c.n : p = l + j
      BY <1>16, <2>2
    <3>2. q = l /\ new[q] = c
      BY <1>4, <1>5, <1>10, <1>20, <3>1
    <3>3. k - l \in 1 .. c.n /\ k = l + (k - l)
      BY <1>4, <1>6, <3>1, <3>2
    <3> QED BY <1>19, <3>2, <3>3
  <2> QED BY <2>1, <2>2
<1>22. ASSUME NEW p \in DOMAIN new, Bounded(new[p]) PROVE Answered(new, p)
  <2>1. p \in 1 .. l
    <3>1. new[p].role = "assistant"
      BY <1>22 DEF Bounded, IsCall
    <3>2. \A k \in 1 .. c.n : p # l + k
      BY <1>8, <1>10, <3>1
    <3> QED BY <1>16, <3>2
  <2>2. CASE p = l
    <3>1. new[p] = c
      BY <1>5, <1>10, <2>1, <2>2
    <3>2. \A k \in 1 .. c.n : new[p + k].role = "tool"
      BY <1>8, <1>10, <2>2
    <3> QED BY <1>6, <1>10, <1>19, <2>2, <3>1, <3>2 DEF Answered
  <2>3. CASE p # l
    <3>1. p \in 1 .. Len(x.new) /\ new[p] = x.new[p]
      BY <1>3, <1>10, <2>1
    <3>2. Answered(x.new, p)
      BY <1>2, <1>3, <1>22, <2>3, <3>1 DEF NewOK
    <3>3. p + x.new[p].n <= Len(x.new)
      BY <3>2 DEF Answered
    <3>4. x.new[p].n \in Nat
      BY <1>0, <3>1, ElementOfSeq, MessageIds
    <3>5. p \in Nat /\ Len(new) \in Nat /\ p + x.new[p].n <= Len(new)
      BY <1>3, <1>4, <1>6, <1>10, <3>1, <3>3, <3>4
    <3>6. \A k \in 0 .. x.new[p].n : new[p + k] = x.new[p + k]
      <4>0. PICK n : n = x.new[p].n
        OBVIOUS
      <4>1. n \in Nat /\ p \in Nat /\ p >= 1 /\ p + n <= l
        BY <1>3, <3>1, <3>3, <3>4, <4>0
      <4>2. \A k \in 0 .. n : p + k \in 1 .. l
        BY <1>4, <4>1
      <4> QED BY <1>10, <4>0, <4>2
    <3> QED BY <1>0, <3>1, <3>2, <3>5, <3>6, AnsweredMoves
  <2> QED BY <2>2, <2>3
<1>23. NewOK(t, y)
  BY <1>0, <1>14, <1>18, <1>21, <1>22 DEF NewOK
<1> QED BY <1>13, <1>14, <1>23 DEF y

-----------------------------------------------------------------------------
(* What the session may become.                                            *)

\* A saved turn: its messages go behind those of turns that are over.
LEMMA SaveOK ==
  ASSUME TypeOK, SessionInv, NEW t \in Turns, turn[t].pc = "end", NewOK(t, turn[t]),
         NEW i \in Nat \ {0}
  PROVE  LET new == turn[t].new
             r == session.msgs \o SubSeq(new, i, Len(new))
         IN /\ r \in Seq(Message) /\ Contiguous(r)
            /\ \A p \in DOMAIN r : r[p].turn = t \/ turn[r[p].turn].pc = "done"
            /\ \A p \in DOMAIN r : Bounded(r[p]) /\ r[p].turn \notin recalled => Answered(r, p)
<1>1. PICK a : a = session.msgs
  OBVIOUS
<1>2. /\ a \in Seq(Message) /\ Contiguous(a)
      /\ \A p \in DOMAIN a : turn[a[p].turn].pc = "done"
      /\ \A p \in DOMAIN a : Bounded(a[p]) /\ a[p].turn \notin recalled => Answered(a, p)
  BY <1>1, TypeParts DEF SessionInv
<1>3. PICK new : new = turn[t].new
  OBVIOUS
<1>4. /\ new \in Seq(Message) /\ Contiguous(new)
      /\ \A p \in DOMAIN new : new[p].turn = t
      /\ \A p \in DOMAIN new : Bounded(new[p]) => Answered(new, p)
  <2>1. turn[t] \in TurnState
    BY TypeParts
  <2> QED BY <1>3, <2>1 DEF NewOK, TurnState
<1>5. PICK b : b = SubSeq(new, i, Len(new))
  OBVIOUS
<1>6. /\ b \in Seq(Message) /\ Contiguous(b)
      /\ Len(b) = IF i <= Len(new) THEN Len(new) - i + 1 ELSE 0
      /\ \A p \in 1 .. Len(b) : b[p] = new[p + i - 1] /\ p + i - 1 \in 1 .. Len(new)
  <2>1. Contiguous(SubSeq(new, i, Len(new)))
    BY <1>4, SuffixContiguous
  <2> QED BY <1>4, <1>5, <2>1, Suffix
<1>7. /\ Len(a) \in Nat /\ DOMAIN a = 1 .. Len(a)
      /\ Len(b) \in Nat /\ DOMAIN b = 1 .. Len(b)
      /\ Len(new) \in Nat /\ DOMAIN new = 1 .. Len(new)
  BY <1>2, <1>4, <1>6, LenProperties
<1>8. \A p \in 1 .. Len(b) : b[p].turn = t /\ b[p] \in Message
  BY <1>4, <1>6, <1>7, ElementOfSeq
<1>9. PICK r : r = a \o b
  OBVIOUS
<1>10. /\ r \in Seq(Message) /\ Len(r) = Len(a) + Len(b)
       /\ \A p \in 1 .. Len(a) + Len(b) : r[p] = IF p <= Len(a) THEN a[p] ELSE b[p - Len(a)]
  <2>1. a \in Seq(Message) /\ b \in Seq(Message)
    BY <1>2, <1>6
  <2> QED BY <1>9, <2>1, ConcatProperties
<1>11. \A q \in 1 .. Len(a), p \in 1 .. Len(b) : ~Answers(b[p], a[q])
  <2> SUFFICES ASSUME NEW q \in 1 .. Len(a), NEW p \in 1 .. Len(b), Answers(b[p], a[q])
               PROVE  FALSE
    OBVIOUS
  <2>1. a[q].turn # t
    BY <1>2, <1>7
  <2>2. a[q] \in Message
    BY <1>2, ElementOfSeq
  <2>3. a[q].role = "assistant"
    BY <2>2, MessageIds
  <2>4. Id(b[p]) \in {<<a[q].turn, a[q].iter, k>> : k \in 1 .. a[q].n}
    BY <2>3 DEF Answers, Ids
  <2>5. b[p].turn = a[q].turn
    BY <2>4 DEF Id
  <2> QED BY <1>8, <2>1, <2>5
<1>12. Contiguous(r)
  <2>1. Contiguous(a \o b)
    BY <1>2, <1>6, <1>11, ConcatContiguous
  <2> QED BY <1>9, <2>1
<1>13. DOMAIN r = 1 .. Len(a) + Len(b)
  BY <1>10, LenProperties
<1>14. \A p \in DOMAIN r : \/ p \in 1 .. Len(a) /\ r[p] = a[p]
                           \/ p - Len(a) \in 1 .. Len(b) /\ r[p] = b[p - Len(a)]
  BY <1>7, <1>10, <1>13
<1>15. \A p \in DOMAIN r : r[p].turn = t \/ turn[r[p].turn].pc = "done"
  BY <1>2, <1>7, <1>8, <1>14
<1>16. ASSUME NEW p \in DOMAIN r, Bounded(r[p]), r[p].turn \notin recalled
       PROVE  Answered(r, p)
  <2>0. p \in Nat /\ Len(r) \in Nat
    BY <1>7, <1>10, <1>13
  <2>1. CASE p \in 1 .. Len(a)
    <3>1. r[p] = a[p] /\ Answered(a, p)
      BY <1>2, <1>7, <1>10, <1>13, <1>16, <2>1
    <3>2. PICK n : n = a[p].n
      OBVIOUS
    <3>3. n \in Nat /\ p + n <= Len(a)
      <4>1. a[p] \in Message
        BY <1>2, <2>1, ElementOfSeq
      <4> QED BY <3>1, <3>2, <4>1, MessageIds DEF Answered
    <3>4. p + n <= Len(r)
      BY <1>7, <1>10, <2>0, <3>3
    <3>5. \A k \in 0 .. n : r[p + k] = a[p + k]
      <4>1. \A k \in 0 .. n : p + k \in 1 .. Len(a) + Len(b) /\ p + k <= Len(a)
        BY <1>7, <2>1, <3>3
      <4> QED BY <1>10, <4>1
    <3> QED BY <1>2, <2>0, <2>1, <3>1, <3>2, <3>4, <3>5, AnsweredMoves
  <2>2. CASE p \notin 1 .. Len(a)
    <3>1. PICK j \in 1 .. Len(b) : j = p - Len(a)
      BY <1>14, <2>2
    <3>2. r[p] = b[j] /\ b[j] = new[j + i - 1] /\ j + i - 1 \in 1 .. Len(new)
      BY <1>6, <1>14, <2>2, <3>1
    <3>3. PICK o \in 1 .. Len(new) : o = j + i - 1
      BY <3>2
    <3>4. r[p] = new[o] /\ Answered(new, o)
      BY <1>4, <1>7, <1>16, <3>2, <3>3
    <3>5. PICK n : n = new[o].n
      OBVIOUS
    <3>6. n \in Nat /\ o + n <= Len(new)
      <4>1. new[o] \in Message
        BY <1>4, ElementOfSeq
      <4> QED BY <3>4, <3>5, <4>1, MessageIds DEF Answered
    <3>a. Len(b) = Len(new) - i + 1
      BY <1>6, <1>7, <3>1
    <3>b. Len(a) \in Nat /\ Len(new) \in Nat /\ Len(b) \in Nat /\ p = Len(a) + j
      BY <1>7, <2>0, <3>1
    <3>7. p + n <= Len(r)
      <4>1. Len(r) = Len(a) + Len(b) /\ o = j + i - 1 /\ j \in Nat /\ o \in Nat
        BY <1>10, <3>1, <3>3
      <4> QED BY <3>a, <3>b, <3>6, <4>1
    <3>8. \A k \in 0 .. n : r[p + k] = new[o + k]
      <4> SUFFICES ASSUME NEW k \in 0 .. n PROVE r[p + k] = new[o + k]
        OBVIOUS
      <4>1. /\ j + k \in 1 .. Len(b) /\ p + k \in 1 .. Len(a) + Len(b)
            /\ ~(p + k <= Len(a)) /\ (p + k) - Len(a) = j + k
        BY <3>a, <3>b, <3>3, <3>6
      <4>2. r[p + k] = b[j + k]
        BY <1>10, <4>1
      <4>3. b[j + k] = new[(j + k) + i - 1] /\ (j + k) + i - 1 = o + k
        BY <1>6, <1>7, <3>3, <4>1
      <4> QED BY <4>2, <4>3
    <3> QED BY <1>4, <2>0, <3>4, <3>5, <3>7, <3>8, AnsweredMoves
  <2> QED BY <2>1, <2>2
<1> QED BY <1>1, <1>3, <1>5, <1>9, <1>10, <1>12, <1>15, <1>16

\* A recall only opens calls of the turn it takes a message of.
LEMMA RecallOK ==
  ASSUME TypeOK, SessionInv, NEW i \in DOMAIN session.msgs
  PROVE  LET r == RemoveAt(session.msgs, i)
         IN /\ r \in Seq(Message) /\ Contiguous(r)
            /\ \A p \in DOMAIN r : turn[r[p].turn].pc = "done"
            /\ \A p \in DOMAIN r :
                 Bounded(r[p]) /\ r[p].turn \notin recalled \cup {session.msgs[i].turn}
                   => Answered(r, p)
<1>1. PICK a : a = session.msgs
  OBVIOUS
<1>2. /\ a \in Seq(Message) /\ Contiguous(a)
      /\ \A p \in DOMAIN a : turn[a[p].turn].pc = "done"
      /\ \A p \in DOMAIN a : Bounded(a[p]) /\ a[p].turn \notin recalled => Answered(a, p)
  BY <1>1, TypeParts DEF SessionInv
<1>3. Len(a) \in Nat /\ DOMAIN a = 1 .. Len(a) /\ i \in 1 .. Len(a)
  BY <1>1, <1>2, LenProperties
<1>4. PICK r : r = RemoveAt(a, i)
  OBVIOUS
<1>5. /\ r \in Seq(Message) /\ Len(r) = Len(a) - 1
      /\ \A p \in 1 .. Len(r) : r[p] = a[IF p < i THEN p ELSE p + 1]
  <2>1. /\ RemoveAt(a, i) \in Seq(Message) /\ Len(RemoveAt(a, i)) = Len(a) - 1
        /\ \A p \in 1 .. Len(RemoveAt(a, i)) : RemoveAt(a, i)[p] = a[IF p < i THEN p ELSE p + 1]
    <3>1. a \in Seq(Message) /\ i \in 1 .. Len(a)
      BY <1>2, <1>3
    <3> QED BY <3>1, Removed
  <2> QED BY <1>4, <2>1
<1>6. Len(r) \in Nat /\ DOMAIN r = 1 .. Len(r)
  BY <1>5, LenProperties
<1>7. Contiguous(r)
  BY <1>2, <1>3, <1>4, RemovedContiguous
<1>8. \A p \in DOMAIN r : \E o \in DOMAIN a : o = (IF p < i THEN p ELSE p + 1) /\ r[p] = a[o]
  BY <1>3, <1>5, <1>6
<1>9. \A p \in DOMAIN r : turn[r[p].turn].pc = "done"
  BY <1>2, <1>8
<1>10. ASSUME NEW p \in DOMAIN r, Bounded(r[p]), r[p].turn \notin recalled,
              r[p].turn # a[i].turn
       PROVE  Answered(r, p)
  <2>1. PICK o \in 1 .. Len(a) : o = (IF p < i THEN p ELSE p + 1) /\ r[p] = a[o]
    BY <1>3, <1>8
  <2>2. Answered(a, o)
    BY <1>2, <1>3, <1>10, <2>1
  <2>3. PICK n : n = a[o].n
    OBVIOUS
  <2>4. n \in Nat /\ o + n <= Len(a)
    <3>1. a[o] \in Message
      BY <1>2, ElementOfSeq
    <3> QED BY <2>2, <2>3, <3>1, MessageIds DEF Answered
  <2>5. \A k \in 0 .. n : a[o + k].turn = a[o].turn
    <3> SUFFICES ASSUME NEW k \in 0 .. n PROVE a[o + k].turn = a[o].turn
      OBVIOUS
    <3>1. CASE k = 0
      BY <3>1
    <3>2. CASE k # 0
      <4>1. k \in 1 .. n
        BY <2>4, <3>2
      <4>2. Id(a[o + k]) = <<a[o].turn, a[o].iter, k>>
        BY <2>2, <2>3, <4>1 DEF Answered
      <4> QED BY <4>2 DEF Id
    <3> QED BY <3>1, <3>2
  <2>6. i < o \/ o + n < i
    <3> SUFFICES ASSUME ~(i < o), ~(o + n < i) PROVE FALSE
      OBVIOUS
    <3>1. i - o \in 0 .. n /\ o + (i - o) = i
      BY <1>3, <2>4
    <3>2. a[o + (i - o)].turn = a[o].turn
      BY <2>5, <3>1
    <3> QED BY <1>10, <2>1, <3>1, <3>2
  <2>7. p \in Nat /\ p + n <= Len(r)
    BY <1>3, <1>5, <1>6, <2>1, <2>4, <2>6
  <2>8. ASSUME NEW k \in 0 .. n PROVE r[p + k] = a[o + k]
    <3>1. p + k \in 1 .. Len(r) /\ p \in Nat /\ n \in Nat /\ i \in Nat
      BY <1>3, <1>6, <2>4, <2>7
    <3>2. CASE p < i
      <4>1. o = p /\ p + k < i
        BY <2>1, <2>6, <3>1, <3>2
      <4> QED BY <1>5, <3>1, <4>1
    <3>3. CASE ~(p < i)
      <4>1. o = p + 1 /\ ~(p + k < i) /\ (p + k) + 1 = o + k
        <5>1. o = p + 1
          BY <2>1, <3>3
        <5>2. k \in Nat
          BY <3>1
        <5>3. p \in Nat /\ i \in Nat
          BY <3>1
        <5>4. ~(p + k < i)
          BY <3>3, <5>2, <5>3
        <5>5. (p + k) + 1 = (p + 1) + k
          BY <5>2, <5>3
        <5> QED BY <5>1, <5>4, <5>5
      <4> QED BY <1>5, <3>1, <4>1
    <3> QED BY <3>2, <3>3
  <2> QED BY <1>2, <1>6, <2>1, <2>2, <2>3, <2>7, <2>8, AnsweredMoves
<1>11. \A p \in DOMAIN r : Bounded(r[p]) /\ r[p].turn \notin recalled \cup {a[i].turn}
         => Answered(r, p)
  BY <1>10
<1> QED BY <1>1, <1>4, <1>5, <1>7, <1>9, <1>11

-----------------------------------------------------------------------------
(* Every step keeps the invariant, and silences only turns that were told. *)

IInv == TypeOK /\ NewInv /\ SessionInv /\ ToldInv

SilencedTold == \A t \in Turns : turn'[t].silent /\ ~turn[t].silent => t \in told

\* A step of one turn.
LEMMA OneTurn ==
  ASSUME TypeOK, NewInv, NEW t \in Turns, NEW x \in TurnState, NewOK(t, x),
         turn' = [turn EXCEPT ![t] = x]
  PROVE  /\ turn' \in [Turns -> TurnState] /\ NewInv'
         /\ turn'[t] = x /\ \A u \in Turns : u # t => turn'[u] = turn[u]
<1>1. turn \in [Turns -> TurnState]
  BY TypeParts
<1>2. turn' \in [Turns -> TurnState] /\ turn'[t] = x /\ \A u \in Turns : u # t => turn'[u] = turn[u]
  BY <1>1
<1>3. ASSUME NEW u \in Turns PROVE NewOK(u, turn'[u])
  BY <1>2 DEF NewInv
<1> QED BY <1>2, <1>3 DEF NewInv

\* A step that leaves the messages of the session.
LEMMA SessionKept ==
  ASSUME TypeOK, SessionInv, session'.msgs = session.msgs, recalled' = recalled,
         \A u \in Turns : turn[u].pc = "done" => turn'[u].pc = "done"
  PROVE  SessionInv'
<1>1. \A p \in DOMAIN session.msgs : session.msgs[p].turn \in Turns
  BY TypeParts, LenProperties, ElementOfSeq, MessageIds
<1>2. \A p \in DOMAIN session'.msgs : turn'[session'.msgs[p].turn].pc = "done"
  BY <1>1 DEF SessionInv
<1>3. Contiguous(session'.msgs)
  BY DEF SessionInv
<1>4. \A p \in DOMAIN session'.msgs :
        Bounded(session'.msgs[p]) /\ session'.msgs[p].turn \notin recalled'
          => Answered(session'.msgs, p)
  BY DEF SessionInv
<1> QED BY <1>2, <1>3, <1>4 DEF SessionInv

LEMMA TypeNext ==
  ASSUME session' \in SessionState, turn' \in [Turns -> TurnState], sent' \in BOOLEAN,
         told' \subseteq Turns, recalled' \subseteq Turns
  PROVE  TypeOK'
BY DEF TypeOK, SessionState, TurnState

\* A step of one turn that leaves the session, the flag and the recalls.
LEMMA OwnStep ==
  ASSUME IInv, NEW t \in Turns, NEW x \in TurnState, NewOK(t, x),
         turn' = [turn EXCEPT ![t] = x], session' = session, sent' = sent, recalled' = recalled,
         turn[t].pc # "done", x.pc \in {"llm", "tools", "end"} => Open(t) /\ x.kind = turn[t].kind,
         told' \subseteq Turns, \A u \in Turns : u \in told /\ (u # t \/ x.pc # "done") => u \in told'
  PROVE  IInv'
<1>1. /\ turn' \in [Turns -> TurnState] /\ NewInv'
      /\ turn'[t] = x /\ \A u \in Turns : u # t => turn'[u] = turn[u]
  BY OneTurn DEF IInv
<1>2. SessionInv'
  <2>1. \A u \in Turns : turn[u].pc = "done" => turn'[u].pc = "done"
    BY <1>1
  <2> QED BY <2>1, SessionKept DEF IInv
<1>3. TypeOK'
  BY <1>1, TypeParts, TypeNext DEF IInv
<1>4. ASSUME NEW u \in Turns, sent', Open(u)', turn'[u].kind # "system" PROVE u \in told'
  <2>1. turn'[u].pc \in {"llm", "tools", "end"}
    BY <1>4 DEF Open
  <2>2. Open(u) /\ turn[u].kind # "system"
    BY <1>1, <1>4, <2>1 DEF Open
  <2>3. u \in told
    BY <1>4, <2>2 DEF IInv, ToldInv
  <2>4. u # t \/ x.pc # "done"
    BY <1>1, <2>1
  <2> QED BY <2>3, <2>4
<1> QED BY <1>1, <1>2, <1>3, <1>4 DEF IInv, ToldInv

LEMMA BeginStep ==
  ASSUME IInv, NEW t \in Turns, NEW kind \in Kinds, Begin(t, kind)
  PROVE  IInv' /\ SilencedTold
<1>0. PICK h \in IF kind = "direct" THEN {<<>>} ELSE Histories(session) :
       LET short == kind = "user" /\ session.summary = "ready" /\ Len(h) > ShortHistory
           ask == kind = "user" /\ ~short /\ Len(h) > SummaryAfter
           current == [role |-> IF kind = "system" THEN "assistant" ELSE "user",
                       turn |-> t, iter |-> 0, n |-> 0]
       IN /\ turn' = [turn EXCEPT ![t] =
                        RunGraph(kind, current, IF short THEN Len(h) - ShortHistory ELSE 0)]
          /\ session' = IF ask /\ session.summary = "none"
                        THEN [session EXCEPT !.summary = "asked"] ELSE session
  BY DEF Begin
<1>1. /\ sent' = (sent /\ kind = "system") /\ told' = told /\ recalled' = recalled
      /\ turn[t].pc = "idle"
  BY DEF Begin, MayBegin, ForgetSent
<1>2. Len(h) \in Nat
  <2>1. CASE kind = "direct"
    BY <1>0, <2>1
  <2>2. CASE kind # "direct"
    <3>1. session.msgs \in Seq(Message) /\ session.lc \in Nat /\ Contiguous(session.msgs)
      BY TypeParts DEF IInv, SessionInv
    <3>2. h \in Histories(session)
      BY <1>0, <2>2
    <3> QED BY <3>1, <3>2, HistoriesLegal, LenProperties
  <2> QED BY <2>1, <2>2
<1> DEFINE short == kind = "user" /\ session.summary = "ready" /\ Len(h) > ShortHistory
<1>3. PICK cut : cut = IF short THEN Len(h) - ShortHistory ELSE 0
  OBVIOUS
<1>4. PICK m : m = [role |-> IF kind = "system" THEN "assistant" ELSE "user",
                    turn |-> t, iter |-> 0, n |-> 0]
  OBVIOUS
<1>5. turn' = [turn EXCEPT ![t] = RunGraph(kind, m, cut)]
  BY <1>0, <1>3, <1>4, Zenon
<1>6. cut \in Nat
  BY <1>2, <1>3, Bounds
<1>7. m \in Message /\ m.turn = t /\ m.iter = 0 /\ m.n = 0
  BY <1>4, Bounds DEF Message
<1>8. PICK x : x = RunGraph(kind, m, cut)
  OBVIOUS
<1>9. x \in TurnState /\ NewOK(t, x) /\ x.pc = "llm" /\ x.kind = kind /\ ~x.silent
  <2>1. kind \in {"user", "system", "direct"}
    BY Bounds
  <2> QED BY <1>6, <1>7, <1>8, <2>1, BegunOK
<1>10. /\ turn' \in [Turns -> TurnState] /\ NewInv'
       /\ turn'[t] = x /\ \A u \in Turns : u # t => turn'[u] = turn[u]
  <2>1. turn' = [turn EXCEPT ![t] = x]
    BY <1>5, <1>8
  <2> QED BY <1>9, <2>1, OneTurn DEF IInv
<1>11. session' = [session EXCEPT !.summary = "asked"] \/ session' = session
  BY <1>0, Zenon
<1>12. session \in SessionState
  BY TypeParts DEF IInv
<1>13. session' \in SessionState /\ session'.msgs = session.msgs
  BY <1>11, <1>12 DEF SessionState
<1>14. SessionInv'
  <2>1. \A u \in Turns : turn[u].pc = "done" => turn'[u].pc = "done"
    BY <1>1, <1>10
  <2> QED BY <1>1, <1>13, <2>1, SessionKept DEF IInv
<1>15. TypeOK'
  <2>1. sent' \in BOOLEAN /\ told' \subseteq Turns /\ recalled' \subseteq Turns
    BY <1>1, TypeParts DEF IInv
  <2> QED BY <1>10, <1>13, <2>1, TypeNext
<1>16. ASSUME NEW u \in Turns, sent', Open(u)', turn'[u].kind # "system" PROVE u \in told'
  <2>1. sent /\ kind = "system"
    BY <1>1, <1>16
  <2>2. u # t
    BY <1>9, <1>10, <1>16, <2>1
  <2>3. Open(u) /\ turn[u].kind # "system"
    BY <1>10, <1>16, <2>2 DEF Open
  <2> QED BY <1>1, <2>1, <2>3 DEF IInv, ToldInv
<1>17. SilencedTold
  BY <1>9, <1>10 DEF SilencedTold
<1> QED BY <1>10, <1>14, <1>15, <1>16, <1>17 DEF IInv, ToldInv

LEMMA RespondStep ==
  ASSUME IInv, NEW t \in Turns, NEW calls \in {0} \cup CallCounts, Respond(t, calls)
  PROVE  IInv' /\ SilencedTold
<1>1. PICK x : x = turn[t]
  OBVIOUS
<1>2. x \in TurnState /\ NewOK(t, x) /\ x.pc = "llm" /\ Open(t)
  BY <1>1, TypeParts DEF IInv, NewInv, Respond, Open
<1>3. PICK m : m = [role |-> "assistant", turn |-> t, iter |-> x.iter + 1, n |-> calls]
  OBVIOUS
<1>4. PICK y : y = Responded(x, m, calls)
  OBVIOUS
<1>5. calls \in Nat
  BY Bounds
<1>6. m \in Message
  <2>1. x.iter \in Nat /\ x.iter < MaxIterations
    BY <1>2, Bounds DEF TurnState, NewOK
  <2> QED BY <1>3, <1>5, <2>1, Bounds DEF Message
<1>7. /\ y \in TurnState /\ NewOK(t, y)
      /\ y.pc \in {"tools", "end"} /\ y.kind = x.kind /\ y.silent = x.silent
  BY <1>2, <1>3, <1>4, <1>5, <1>6, RespondedOK
<1>8. turn' = [turn EXCEPT ![t] = y]
  <2>1. turn' = [turn EXCEPT ![t] = Responded(turn[t],
                   [role |-> "assistant", turn |-> t, iter |-> turn[t].iter + 1, n |-> calls],
                   calls)]
    BY DEF Respond, Responded, Iteration
  <2> QED BY <1>1, <1>3, <1>4, <2>1, Zenon
<1>9. session' = session /\ sent' = sent /\ told' = told /\ recalled' = recalled
  BY DEF Respond
<1>10. IInv'
  <2>1. turn[t].pc # "done" /\ told' \subseteq Turns
    BY <1>1, <1>2, <1>9, TypeParts DEF IInv
  <2>2. \A u \in Turns : u \in told /\ (u # t \/ y.pc # "done") => u \in told'
    BY <1>9
  <2>3. y.pc \in {"llm", "tools", "end"} => Open(t) /\ y.kind = turn[t].kind
    BY <1>1, <1>2, <1>7
  <2> QED BY <1>7, <1>8, <1>9, <2>1, <2>2, <2>3, OwnStep
<1>11. SilencedTold
  BY <1>1, <1>7, <1>8, TypeParts DEF SilencedTold, IInv
<1> QED BY <1>10, <1>11

LEMMA RespondNothingStep ==
  ASSUME IInv, NEW t \in Turns, RespondNothing(t)
  PROVE  IInv' /\ SilencedTold
<1>1. PICK x : x = turn[t]
  OBVIOUS
<1>2. x \in TurnState /\ NewOK(t, x) /\ x.pc = "llm" /\ Open(t)
  BY <1>1, TypeParts DEF IInv, NewInv, RespondNothing, Open
<1>3. PICK y : y = [x EXCEPT !.iter = x.iter + 1, !.pc = "end"]
  OBVIOUS
<1>4. x.iter \in Nat /\ x.iter < MaxIterations /\ MaxIterations \in Nat
  BY <1>2, Bounds DEF TurnState, NewOK
<1>5. y = [pc |-> "end", kind |-> x.kind, cut |-> x.cut, new |-> x.new,
           iter |-> x.iter + 1, ran |-> x.ran, silent |-> x.silent]
  BY <1>2, <1>3 DEF TurnState
<1>6. y \in TurnState
  BY <1>2, <1>4, <1>5 DEF TurnState
<1>7. /\ y.pc = "end" /\ y.kind = x.kind /\ y.new = x.new /\ y.iter = x.iter + 1
      /\ y.silent = x.silent
  BY <1>5
<1>8. NewOK(t, y)
  <2>1. \A p \in DOMAIN y.new : y.new[p].turn = t /\ y.new[p].iter <= y.iter
    <3> SUFFICES ASSUME NEW p \in DOMAIN x.new PROVE x.new[p].turn = t /\ x.new[p].iter <= x.iter + 1
      BY <1>7
    <3>1. x.new \in Seq(Message)
      BY <1>2 DEF TurnState
    <3>2. x.new[p].iter \in Nat
      BY <3>1, LenProperties, ElementOfSeq, MessageIds
    <3>3. x.new[p].turn = t /\ x.new[p].iter <= x.iter
      BY <1>2 DEF NewOK
    <3> QED BY <1>4, <3>2, <3>3
  <2>2. Contiguous(y.new)
    BY <1>2, <1>7 DEF NewOK
  <2>3. \A p \in DOMAIN y.new : Bounded(y.new[p]) => Answered(y.new, p)
    BY <1>2, <1>7 DEF NewOK
  <2> QED BY <1>7, <2>1, <2>2, <2>3 DEF NewOK
<1>9. turn' = [turn EXCEPT ![t] = y]
  <2>1. turn' = [turn EXCEPT ![t] = [turn[t] EXCEPT !.iter = turn[t].iter + 1, !.pc = "end"]]
    BY DEF RespondNothing, Iteration
  <2> QED BY <1>1, <1>3, <2>1
<1>10. session' = session /\ sent' = sent /\ told' = told /\ recalled' = recalled
  BY DEF RespondNothing
<1>11. IInv'
  <2>1. turn[t].pc # "done" /\ told' \subseteq Turns
    BY <1>1, <1>2, <1>10, TypeParts DEF IInv
  <2>2. \A u \in Turns : u \in told /\ (u # t \/ y.pc # "done") => u \in told'
    BY <1>10
  <2>3. y.pc \in {"llm", "tools", "end"} => Open(t) /\ y.kind = turn[t].kind
    BY <1>1, <1>2, <1>7
  <2> QED BY <1>6, <1>8, <1>9, <1>10, <2>1, <2>2, <2>3, OwnStep
<1>12. SilencedTold
  BY <1>1, <1>7, <1>9, TypeParts DEF SilencedTold, IInv
<1> QED BY <1>11, <1>12

LEMMA RunToolStep ==
  ASSUME IInv, NEW t \in Turns, NEW writes \in BOOLEAN, RunTool(t, writes)
  PROVE  IInv' /\ SilencedTold
<1>1. PICK x : x = turn[t]
  OBVIOUS
<1>2. x \in TurnState /\ NewOK(t, x) /\ x.pc = "tools" /\ Open(t)
  BY <1>1, TypeParts DEF IInv, NewInv, RunTool, Open
<1>3. PICK y : y \in {ToolsRun(x), [x EXCEPT !.ran = x.ran + 1]} /\ turn' = [turn EXCEPT ![t] = y]
  <2>1. \/ turn' = [turn EXCEPT ![t] = ToolsRun(turn[t])]
        \/ turn' = [turn EXCEPT ![t] = [turn[t] EXCEPT !.ran = turn[t].ran + 1]]
    BY DEF RunTool, ToolsRun, Results
  <2> QED BY <1>1, <2>1, Zenon
<1>4. /\ y \in TurnState /\ NewOK(t, y) /\ y.pc \in {"llm", "tools"}
      /\ y.kind = x.kind /\ y.silent = x.silent
  <2>1. CASE y = ToolsRun(x)
    BY <1>2, <2>1, ToolsRunOK
  <2>2. CASE y = [x EXCEPT !.ran = x.ran + 1]
    <3>1. y = [pc |-> x.pc, kind |-> x.kind, cut |-> x.cut, new |-> x.new,
               iter |-> x.iter, ran |-> x.ran + 1, silent |-> x.silent]
      BY <1>2, <2>2 DEF TurnState
    <3>2. y \in TurnState
      BY <1>2, <3>1 DEF TurnState
    <3>3. /\ y.pc = x.pc /\ y.new = x.new /\ y.iter = x.iter
          /\ y.kind = x.kind /\ y.silent = x.silent
      BY <3>1
    <3>4. NewOK(t, y)
      BY <1>2, <3>3 DEF NewOK
    <3> QED BY <1>2, <3>2, <3>3, <3>4
  <2> QED BY <1>3, <2>1, <2>2
<1>5. /\ sent' = (sent \/ writes) /\ session' = session /\ recalled' = recalled
      /\ told' = IF writes THEN told \cup {u \in Turns : Open(u)} ELSE told
  BY DEF RunTool, Execute
<1>6. /\ turn' \in [Turns -> TurnState] /\ NewInv'
      /\ turn'[t] = y /\ \A u \in Turns : u # t => turn'[u] = turn[u]
  BY <1>3, <1>4, OneTurn DEF IInv
<1>7. SessionInv'
  <2>1. \A u \in Turns : turn[u].pc = "done" => turn'[u].pc = "done"
    BY <1>1, <1>2, <1>6
  <2> QED BY <1>5, <2>1, SessionKept DEF IInv
<1>8. TypeOK'
  <2>1. session' \in SessionState /\ told' \subseteq Turns /\ recalled' \subseteq Turns
    BY <1>5, TypeParts DEF IInv
  <2>2. sent' \in BOOLEAN
    BY <1>5
  <2> QED BY <1>6, <2>1, <2>2, TypeNext
<1>9. ASSUME NEW u \in Turns, sent', Open(u)', turn'[u].kind # "system" PROVE u \in told'
  <2>1. Open(u) /\ turn[u].kind # "system"
    <3>1. CASE u = t
      BY <1>1, <1>2, <1>4, <1>6, <1>9, <3>1
    <3>2. CASE u # t
      BY <1>6, <1>9, <3>2 DEF Open
    <3> QED BY <3>1, <3>2
  <2>2. CASE writes
    BY <1>5, <2>1, <2>2
  <2>3. CASE ~writes
    BY <1>5, <1>9, <2>1, <2>3 DEF IInv, ToldInv
  <2> QED BY <2>2, <2>3
<1>10. SilencedTold
  BY <1>1, <1>4, <1>6 DEF SilencedTold
<1> QED BY <1>6, <1>7, <1>8, <1>9, <1>10 DEF IInv, ToldInv

LEMMA FinishStep ==
  ASSUME IInv, NEW t \in Turns, Finish(t)
  PROVE  IInv' /\ SilencedTold
<1>1. turn[t].pc = "end" /\ Open(t) /\ turn[t] \in TurnState /\ NewOK(t, turn[t])
  BY TypeParts DEF IInv, NewInv, Finish, Open
<1>2. PICK b : b = (sent /\ turn[t].kind # "system")
  OBVIOUS
<1>3. b \in BOOLEAN
  BY <1>2, Zenon
<1>4. PICK y : y = [IdleTurn EXCEPT !.pc = "done", !.silent = b]
  OBVIOUS
<1>5. y \in TurnState /\ NewOK(t, y) /\ y.pc = "done" /\ y.silent = b
  BY <1>3, <1>4, DoneOK, Zenon
<1>6. turn' = [turn EXCEPT ![t] = y]
  BY <1>2, <1>4, Zenon DEF Finish
<1>7. /\ turn' \in [Turns -> TurnState] /\ NewInv'
      /\ turn'[t] = y /\ \A u \in Turns : u # t => turn'[u] = turn[u]
  BY <1>5, <1>6, OneTurn DEF IInv
<1>8. told' = told \ {t} /\ sent' = sent /\ recalled' = recalled
  BY DEF Finish
<1>9. session \in SessionState
  BY TypeParts DEF IInv
<1>10. session' \in SessionState /\ SessionInv'
  <2>1. CASE turn[t].kind = "direct"
    <3>1. session' = session
      BY <2>1 DEF Finish
    <3>2. \A u \in Turns : turn[u].pc = "done" => turn'[u].pc = "done"
      BY <1>5, <1>7
    <3> QED BY <1>8, <1>9, <3>1, <3>2, SessionKept DEF IInv
  <2>2. CASE turn[t].kind # "direct"
    <3> DEFINE new == turn[t].new
    <3>1. PICK i \in Nat \ {0} : i = turn[t].cut + 1
      BY <1>1 DEF TurnState
    <3>2. PICK r : r = session.msgs \o SubSeq(new, i, Len(new))
      OBVIOUS
    <3>3. session' = [session EXCEPT !.msgs = r]
      BY <2>2, <3>1, <3>2 DEF Finish
    <3>4. /\ r \in Seq(Message) /\ Contiguous(r)
          /\ \A p \in DOMAIN r : r[p].turn = t \/ turn[r[p].turn].pc = "done"
          /\ \A p \in DOMAIN r : Bounded(r[p]) /\ r[p].turn \notin recalled => Answered(r, p)
      BY <1>1, <3>2, SaveOK DEF IInv
    <3>5. session' \in SessionState /\ session'.msgs = r
      BY <1>9, <3>3, <3>4 DEF SessionState
    <3>6. ASSUME NEW p \in DOMAIN r PROVE turn'[r[p].turn].pc = "done"
      <4>1. r[p].turn \in Turns
        BY <3>4, LenProperties, ElementOfSeq, MessageIds
      <4> QED BY <1>5, <1>7, <3>4, <4>1
    <3> QED BY <1>8, <3>4, <3>5, <3>6 DEF SessionInv
  <2> QED BY <2>1, <2>2
<1>11. TypeOK'
  <2>1. sent' \in BOOLEAN /\ told' \subseteq Turns /\ recalled' \subseteq Turns
    BY <1>8, TypeParts DEF IInv
  <2> QED BY <1>7, <1>10, <2>1, TypeNext
<1>12. ASSUME NEW u \in Turns, sent', Open(u)', turn'[u].kind # "system" PROVE u \in told'
  <2>1. u # t
    BY <1>5, <1>7, <1>12 DEF Open
  <2>2. Open(u) /\ turn[u].kind # "system"
    BY <1>7, <1>12, <2>1 DEF Open
  <2> QED BY <1>8, <1>12, <2>1, <2>2 DEF IInv, ToldInv
<1>13. SilencedTold
  <2> SUFFICES ASSUME NEW u \in Turns, turn'[u].silent, ~turn[u].silent PROVE u \in told
    BY DEF SilencedTold
  <2>1. u = t
    BY <1>7
  <2>2. b
    BY <1>5, <1>7, <2>1
  <2> QED BY <1>1, <1>2, <2>1, <2>2 DEF IInv, ToldInv
<1> QED BY <1>7, <1>10, <1>11, <1>12, <1>13 DEF IInv, ToldInv

LEMMA AbortStep ==
  ASSUME IInv, NEW t \in Turns, Abort(t)
  PROVE  IInv' /\ SilencedTold
<1>1. PICK y : y = [IdleTurn EXCEPT !.pc = "done"]
  OBVIOUS
<1>2. y \in TurnState /\ NewOK(t, y) /\ y.pc = "done" /\ y.silent = FALSE
  <2>1. FALSE \in BOOLEAN
    OBVIOUS
  <2> QED BY <1>1, <2>1, DoneOK, Zenon
<1>3. /\ turn' = [turn EXCEPT ![t] = y]
      /\ session' = session /\ sent' = sent /\ told' = told \ {t} /\ recalled' = recalled
  BY <1>1 DEF Abort
<1>4. Open(t) /\ turn[t].pc # "done" /\ turn \in [Turns -> TurnState] /\ told \subseteq Turns
  BY TypeParts DEF Abort, IInv, Open
<1>5. IInv'
  <2>1. told' \subseteq Turns
    BY <1>3, <1>4
  <2>2. \A u \in Turns : u \in told /\ (u # t \/ y.pc # "done") => u \in told'
    BY <1>2, <1>3
  <2>3. y.pc \in {"llm", "tools", "end"} => Open(t) /\ y.kind = turn[t].kind
    BY <1>2
  <2> QED BY <1>2, <1>3, <1>4, <2>1, <2>2, <2>3, OwnStep
<1>6. SilencedTold
  BY <1>2, <1>3, <1>4 DEF SilencedTold
<1> QED BY <1>5, <1>6

LEMMA OtherSteps ==
  ASSUME IInv, \/ Summarized
               \/ \E p \in DOMAIN session.msgs : Consolidate(p) \/ Recall(p)
  PROVE  IInv' /\ SilencedTold
<1>1. turn' = turn /\ sent' = sent /\ told' = told
  BY DEF Summarized, Consolidate, Recall
<1>2. /\ session \in SessionState /\ session.msgs \in Seq(Message)
      /\ turn \in [Turns -> TurnState] /\ sent \in BOOLEAN
      /\ told \subseteq Turns /\ recalled \subseteq Turns
  BY TypeParts DEF IInv
<1>3. session' \in SessionState /\ recalled' \subseteq Turns /\ SessionInv'
  <2>1. CASE Summarized
    <3>1. session' = [session EXCEPT !.summary = "ready"] /\ recalled' = recalled
      BY <2>1 DEF Summarized
    <3>2. session' \in SessionState /\ session'.msgs = session.msgs
      BY <1>2, <3>1 DEF SessionState
    <3> QED BY <1>1, <1>2, <3>1, <3>2, SessionKept DEF IInv
  <2>2. ASSUME NEW p \in DOMAIN session.msgs, Consolidate(p)
        PROVE  session' \in SessionState /\ recalled' \subseteq Turns /\ SessionInv'
    <3>1. session' = [session EXCEPT !.lc = p] /\ recalled' = recalled
      BY <2>2 DEF Consolidate
    <3>2. p \in Nat
      BY <1>2, LenProperties
    <3>3. session' \in SessionState /\ session'.msgs = session.msgs
      BY <1>2, <3>1, <3>2 DEF SessionState
    <3> QED BY <1>1, <1>2, <3>1, <3>3, SessionKept DEF IInv
  <2>3. ASSUME NEW p \in DOMAIN session.msgs, Recall(p)
        PROVE  session' \in SessionState /\ recalled' \subseteq Turns /\ SessionInv'
    <3>1. PICK r : r = RemoveAt(session.msgs, p)
      OBVIOUS
    <3>2. session' = [session EXCEPT !.msgs = r]
      BY <2>3, <3>1 DEF Recall
    <3>3. recalled' = recalled \cup {session.msgs[p].turn}
      BY <2>3 DEF Recall
    <3>4. session.msgs[p].turn \in Turns
      BY <1>2, LenProperties, ElementOfSeq, MessageIds
    <3>5. /\ r \in Seq(Message) /\ Contiguous(r)
          /\ \A q \in DOMAIN r : turn[r[q].turn].pc = "done"
          /\ \A q \in DOMAIN r :
               Bounded(r[q]) /\ r[q].turn \notin recalled \cup {session.msgs[p].turn}
                 => Answered(r, q)
      BY <3>1, RecallOK DEF IInv
    <3>6. session' \in SessionState /\ session'.msgs = r
      BY <1>2, <3>2, <3>5 DEF SessionState
    <3>7. SessionInv'
      BY <1>1, <3>3, <3>5, <3>6 DEF SessionInv
    <3> QED BY <1>2, <3>3, <3>4, <3>6, <3>7
  <2> QED BY <2>1, <2>2, <2>3
<1>4. TypeOK'
  BY <1>1, <1>2, <1>3, TypeNext
<1>5. NewInv' /\ ToldInv' /\ SilencedTold
  BY <1>1 DEF IInv, NewInv, ToldInv, Open, SilencedTold
<1> QED BY <1>3, <1>4, <1>5 DEF IInv

-----------------------------------------------------------------------------

LEMMA InitInv == Init => IInv
<1> SUFFICES ASSUME Init PROVE IInv
  OBVIOUS
<1>1. /\ session = [msgs |-> <<>>, lc |-> 0, summary |-> "none"]
      /\ turn = [t \in Turns |-> IdleTurn] /\ sent = FALSE /\ told = {} /\ recalled = {}
  BY DEF Init, EmptySession
<1>2. IdleTurn \in TurnState /\ \A t : NewOK(t, IdleTurn)
  BY IdleOK
<1>3. TypeOK
  <2>1. session \in SessionState
    BY <1>1, EmptySeq DEF SessionState
  <2>2. turn \in [Turns -> TurnState]
    BY <1>1, <1>2
  <2> QED BY <1>1, <2>1, <2>2 DEF TypeOK, SessionState, TurnState
<1>4. NewInv
  BY <1>1, <1>2 DEF NewInv
<1>5. SessionInv
  <2>1. session.msgs = <<>> /\ DOMAIN <<>> = {}
    BY <1>1
  <2> QED BY <2>1 DEF SessionInv, Contiguous
<1>6. ToldInv
  BY <1>1 DEF ToldInv
<1> QED BY <1>3, <1>4, <1>5, <1>6 DEF IInv

LEMMA StepInv == IInv /\ [Next]_vars => IInv' /\ SilencedTold
<1> SUFFICES ASSUME IInv, [Next]_vars PROVE IInv' /\ SilencedTold
  OBVIOUS
<1>1. CASE UNCHANGED vars
  <2>1. session' = session /\ turn' = turn /\ sent' = sent /\ told' = told /\ recalled' = recalled
    BY <1>1 DEF vars
  <2> QED BY <2>1 DEF IInv, TypeOK, NewInv, SessionInv, ToldInv, Open, SilencedTold
<1>2. ASSUME NEW t \in Turns, NEW kind \in Kinds, Begin(t, kind) PROVE IInv' /\ SilencedTold
  BY <1>2, BeginStep
<1>3. ASSUME NEW t \in Turns, NEW calls \in {0} \cup CallCounts, Respond(t, calls)
      PROVE  IInv' /\ SilencedTold
  BY <1>3, RespondStep
<1>4. ASSUME NEW t \in Turns, RespondNothing(t) PROVE IInv' /\ SilencedTold
  BY <1>4, RespondNothingStep
<1>5. ASSUME NEW t \in Turns, NEW writes \in BOOLEAN, RunTool(t, writes)
      PROVE  IInv' /\ SilencedTold
  BY <1>5, RunToolStep
<1>6. ASSUME NEW t \in Turns, Finish(t) PROVE IInv' /\ SilencedTold
  BY <1>6, FinishStep
<1>7. ASSUME NEW t \in Turns, Abort(t) PROVE IInv' /\ SilencedTold
  BY <1>7, AbortStep
<1>8. CASE Summarized \/ \E p \in DOMAIN session.msgs : Consolidate(p) \/ Recall(p)
  BY <1>8, OtherSteps
<1> QED BY <1>1, <1>2, <1>3, <1>4, <1>5, <1>6, <1>7, <1>8 DEF Next, TurnStep

LEMMA TurnInvariant == Spec => []IInv
<1>1. IInv /\ [Next]_vars => IInv'
  BY StepInv
<1> QED BY InitInv, <1>1, PTL DEF Spec

\* The types of the turn's state hold for any number of turns and calls.
THEOREM TurnTypeCorrect == Spec => []TypeOK
<1>1. IInv => TypeOK
  BY DEF IInv
<1> QED BY TurnInvariant, <1>1, PTL

\* Whatever consolidation, recalls, the filter and turns that fail leave of a
\* session, get_history returns no tool result without its call in front.
THEOREM HistoriesAreLegal == Spec => []HistoryLegal
<1>1. IInv => HistoryLegal
  <2> SUFFICES ASSUME IInv, NEW h \in Histories(session), NEW p \in DOMAIN h, h[p].role = "tool"
               PROVE  Declared(h, p)
    BY DEF HistoryLegal
  <2>1. session.msgs \in Seq(Message) /\ session.lc \in Nat /\ Contiguous(session.msgs)
    BY TypeParts DEF IInv, SessionInv
  <2>2. AllDeclared(h)
    BY <2>1, HistoriesLegal
  <2> QED BY <2>2 DEF AllDeclared, Declared, Answers
<1> QED BY TurnInvariant, <1>1, PTL

\* No error, empty answer, iteration bound, filter or abort leaves a saved
\* call without its results behind it.
THEOREM CallsAreAnswered == Spec => []SavedCallsAnswered
<1>1. IInv => SavedCallsAnswered
  BY DEF IInv, SessionInv, SavedCallsAnswered, Bounded, Answered
<1> QED BY TurnInvariant, <1>1, PTL

\* A turn whose reply is left out saw the message tool write to its chat.
THEOREM SilenceIsTold == Spec => SilentOnlyIfTold
<1>1. IInv /\ [Next]_vars =>
        [\A t \in Turns : turn'[t].silent /\ ~turn[t].silent => t \in told]_vars
  BY StepInv DEF SilencedTold
<1> QED BY TurnInvariant, <1>1, PTL DEF Spec, SilentOnlyIfTold
=============================================================================
