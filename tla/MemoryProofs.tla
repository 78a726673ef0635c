----------------------------- MODULE MemoryProofs -----------------------------
(***************************************************************************)
(* Theorems about MemoryStore, for any names, texts, answers and number of *)
(* consolidations.                                                         *)
(***************************************************************************)
EXTENDS MemoryStore, SequenceTheorems, NatLemmas

\* Nodes have ids of their own.
Once(s) == \A p, q \in DOMAIN s : s[p].id = s[q].id => p = q
Apart(A, B) == \A x \in A : \A y \in B : x.id # y.id

-----------------------------------------------------------------------------
(* Sequences.                                                              *)

LEMMA OneNode ==
  ASSUME NEW S, NEW x \in S
  PROVE  \A s : s = <<x>> => s \in Seq(S) /\ ToSet(s) = {x} /\ Once(s)
<1>1. PICK s : s = <<x>>
  BY Zenon
<1>2. s \in [1 .. 1 -> S]
  BY <1>1
<1>3. s \in Seq(S)
  BY <1>2, SeqDef
<1>4. DOMAIN s = {1} /\ s[1] = x
  BY <1>1
<1>5. ToSet(s) = {x}
  BY <1>4 DEF ToSet
<1>6. Once(s)
  BY <1>4 DEF Once
<1> QED BY <1>1, <1>3, <1>5, <1>6, Zenon

LEMMA NoNode ==
  ASSUME NEW S
  PROVE  \A s : s = <<>> => s \in Seq(S) /\ ToSet(s) = {} /\ Once(s) /\ Len(s) = 0 /\ DOMAIN s = {}
<1>1. PICK s : s = <<>>
  BY Zenon
<1>2. s \in Seq(S) /\ Len(s) = 0 /\ DOMAIN s = {}
  BY <1>1, EmptySeq
<1>3. ToSet(s) = {} /\ Once(s)
  BY <1>2 DEF ToSet, Once
<1> QED BY <1>1, <1>2, <1>3, Zenon

LEMMA Concatenated ==
  ASSUME NEW S, NEW a \in Seq(S), NEW b \in Seq(S)
  PROVE  /\ a \o b \in Seq(S) /\ ToSet(a \o b) = ToSet(a) \cup ToSet(b)
         /\ Once(a) /\ Once(b) /\ Apart(ToSet(a), ToSet(b)) => Once(a \o b)
<1>1. PICK q : q = a \o b
  BY Zenon
<1>2. /\ q \in Seq(S) /\ Len(q) = Len(a) + Len(b)
      /\ \A i \in 1 .. Len(a) + Len(b) : q[i] = IF i <= Len(a) THEN a[i] ELSE b[i - Len(a)]
  BY <1>1, ConcatProperties
<1>3. /\ DOMAIN a = 1 .. Len(a) /\ DOMAIN b = 1 .. Len(b) /\ DOMAIN q = 1 .. Len(a) + Len(b)
      /\ Len(a) \in Nat /\ Len(b) \in Nat
  BY <1>2, LenProperties
<1>4. \A i \in DOMAIN q : \/ i \in DOMAIN a /\ q[i] = a[i]
                          \/ \E k \in DOMAIN b : i = Len(a) + k /\ q[i] = b[k]
  <2>1. SUFFICES ASSUME NEW i \in 1 .. Len(a) + Len(b)
                 PROVE  \/ i \in 1 .. Len(a) /\ q[i] = a[i]
                        \/ \E k \in 1 .. Len(b) : i = Len(a) + k /\ q[i] = b[k]
    BY <1>3
  <2>2. i <= Len(a) => i \in 1 .. Len(a)
    BY <1>3
  <2>3. ~(i <= Len(a)) => i - Len(a) \in 1 .. Len(b) /\ i = Len(a) + (i - Len(a))
    BY <1>3
  <2> QED BY <1>2, <2>2, <2>3, Zenon
<1>5. /\ \A i \in DOMAIN a : i \in DOMAIN q /\ q[i] = a[i]
      /\ \A k \in DOMAIN b : Len(a) + k \in DOMAIN q /\ q[Len(a) + k] = b[k]
  <2>1. ASSUME NEW i \in 1 .. Len(a) PROVE i \in 1 .. Len(a) + Len(b) /\ i <= Len(a)
    BY <1>3
  <2>2. ASSUME NEW k \in 1 .. Len(b)
        PROVE  Len(a) + k \in 1 .. Len(a) + Len(b) /\ ~(Len(a) + k <= Len(a)) /\ Len(a) + k - Len(a) = k
    BY <1>3
  <2> QED BY <1>2, <1>3, <2>1, <2>2
<1>6. ToSet(q) = ToSet(a) \cup ToSet(b)
  <2>1. ASSUME NEW x \in ToSet(q) PROVE x \in ToSet(a) \cup ToSet(b)
    BY <1>4 DEF ToSet
  <2>2. ASSUME NEW x \in ToSet(a) \cup ToSet(b) PROVE x \in ToSet(q)
    BY <1>5 DEF ToSet
  <2> QED BY <2>1, <2>2
<1>7. ASSUME Once(a), Once(b), Apart(ToSet(a), ToSet(b))
      PROVE  Once(q)
  <2>1. \A i \in DOMAIN a : \A k \in DOMAIN b : a[i].id # b[k].id
    BY <1>7, Zenon DEF Apart, ToSet
  <2>2. ASSUME NEW i \in DOMAIN q, NEW j \in DOMAIN q, q[i].id = q[j].id
        PROVE  i = j
    <3>1. CASE i \in DOMAIN a /\ q[i] = a[i]
      BY <1>4, <1>7, <2>1, <2>2, <3>1 DEF Once
    <3>2. ASSUME NEW k \in DOMAIN b, i = Len(a) + k, q[i] = b[k]
          PROVE  i = j
      BY <1>4, <1>7, <2>1, <2>2, <3>2 DEF Once
    <3> QED BY <1>4, <3>1, <3>2
  <2> QED BY <2>2, Zenon DEF Once
<1> QED BY <1>1, <1>2, <1>6, <1>7, Zenon

\* What FlattenSeq computes, one sequence after the other.
LEMMA FlattenedStep ==
  ASSUME NEW S, NEW ss \in Seq(Seq(S)), Len(ss) # 0
  PROVE  \E f \in [1 .. Len(ss) -> Seq(S)] :
           /\ f[Len(ss)] = FlattenSeq(ss) /\ f[1] = ss[1]
           /\ \A k \in 2 .. Len(ss) : f[k] = f[k - 1] \o ss[k]
<1>0. Len(ss) \in Nat \ {0} /\ \A k \in 1 .. Len(ss) : ss[k] \in Seq(S)
  BY LenProperties, ElementOfSeq
<1> DEFINE flatten == CHOOSE f : f = [i \in 1 .. Len(ss) |-> IF i = 1 THEN ss[i] ELSE f[i - 1] \o ss[i]]
           next == [kv \in (2 .. Len(ss)) \X Seq(S) |-> kv[2] \o ss[kv[1]]]
<1>1. FlattenSeq(ss) = flatten[Len(ss)]
  BY DEF FlattenSeq
<1>2. \A k \in 1 + 1 .. Len(ss) : \A v \in Seq(S) : next[<<k, v>>] = v \o ss[k] /\ next[<<k, v>>] \in Seq(S)
  <2>1. 1 + 1 = 2
    OBVIOUS
  <2>2. ASSUME NEW k \in 2 .. Len(ss), NEW v \in Seq(S)
        PROVE  next[<<k, v>>] = v \o ss[k] /\ next[<<k, v>>] \in Seq(S)
    <3>1. k \in 1 .. Len(ss) /\ <<k, v>> \in (2 .. Len(ss)) \X Seq(S)
      BY <1>0
    <3>2. next[<<k, v>>] = v \o ss[k]
      BY <3>1, Zenon
    <3>3. ss[k] \in Seq(S)
      BY <1>0, <3>1, Zenon
    <3>4. v \o ss[k] \in Seq(S)
      BY <3>3, ConcatProperties, Zenon
    <3> QED BY <3>2, <3>4, Zenon
  <2> QED BY <2>1, <2>2, Zenon
<1> HIDE DEF next
<1>3. PICK f \in [1 .. Len(ss) -> Seq(S)] : RecursionFrom(f, ss[1], next, 1, Len(ss))
  <2>1. \A k \in 1 + 1 .. Len(ss) : \A v \in Seq(S) : next[<<k, v>>] \in Seq(S)
    BY <1>2, Zenon
  <2>2. 1 \in Nat /\ ss[1] \in Seq(S) /\ Len(ss) \in Nat
    BY <1>0
  <2> QED BY <2>1, <2>2, RecursionExists
<1>4. ASSUME NEW k \in 1 .. Len(ss)
      PROVE  f[k] = IF k = 1 THEN ss[k] ELSE f[k - 1] \o ss[k]
  <2>1. CASE k = 1
    BY <1>3, <2>1 DEF RecursionFrom
  <2>2. CASE k # 1
    <3>1. f[k] = next[<<k, f[k - 1]>>]
      BY <1>3, <2>2 DEF RecursionFrom
    <3>2. k \in 1 + 1 .. Len(ss) /\ k - 1 \in 1 .. Len(ss)
      BY <1>0, <2>2
    <3>3. f[k - 1] \in Seq(S)
      BY <3>2, Zenon
    <3> QED BY <1>2, <2>2, <3>1, <3>2, <3>3
  <2> QED BY <2>1, <2>2
<1>5. f = [k \in 1 .. Len(ss) |-> f[k]]
  OBVIOUS
<1>6. f = [k \in 1 .. Len(ss) |-> IF k = 1 THEN ss[k] ELSE f[k - 1] \o ss[k]]
  BY <1>4, <1>5
<1>7. flatten = [k \in 1 .. Len(ss) |-> IF k = 1 THEN ss[k] ELSE flatten[k - 1] \o ss[k]]
  BY <1>6, Zenon
<1> HIDE DEF flatten
<1>8. ASSUME NEW k \in 1 .. Len(ss)
      PROVE  flatten[k] = IF k = 1 THEN ss[k] ELSE flatten[k - 1] \o ss[k]
  BY <1>7
<1> DEFINE T == {k \in 1 .. Len(ss) : flatten[k] \notin Seq(S)}
<1>9. T = {}
  <2>1. 1 \notin T
    BY <1>0, <1>8
  <2>2. ASSUME NEW k \in 1 + 1 .. Len(ss), k - 1 \notin T PROVE k \notin T
    <3>1. k - 1 \in 1 .. Len(ss) /\ k \in 1 .. Len(ss) /\ k # 1
      BY <1>0
    <3>2. flatten[k - 1] \in Seq(S) /\ ss[k] \in Seq(S)
      BY <1>0, <2>2, <3>1
    <3>3. flatten[k] = flatten[k - 1] \o ss[k]
      BY <1>8, <3>1
    <3>4. flatten[k] \in Seq(S)
      BY <3>2, <3>3, ConcatProperties
    <3> QED BY <3>4
  <2>3. T \in SUBSET (1 .. Len(ss)) /\ 1 \in Nat /\ Len(ss) \in Nat
    BY <1>0
  <2> HIDE DEF T
  <2> QED BY <2>1, <2>2, <2>3, StepByStep
<1>10. flatten \in [1 .. Len(ss) -> Seq(S)]
  <2>1. \A k \in 1 .. Len(ss) : flatten[k] \in Seq(S)
    BY <1>9
  <2>2. DOMAIN flatten = 1 .. Len(ss) /\ flatten = [k \in 1 .. Len(ss) |-> flatten[k]]
    BY <1>7
  <2> QED BY <2>1, <2>2
<1>11. flatten[1] = ss[1] /\ \A k \in 2 .. Len(ss) : flatten[k] = flatten[k - 1] \o ss[k]
  <2>1. 1 \in 1 .. Len(ss) /\ \A k \in 2 .. Len(ss) : k \in 1 .. Len(ss) /\ k # 1
    BY <1>0
  <2> QED BY <1>8, <2>1, Zenon
<1> QED BY <1>1, <1>10, <1>11, Zenon

LEMMA Flattened ==
  ASSUME NEW S, NEW ss \in Seq(Seq(S))
  PROVE  /\ FlattenSeq(ss) \in Seq(S)
         /\ ToSet(FlattenSeq(ss)) = UNION {ToSet(ss[i]) : i \in DOMAIN ss}
         /\ (/\ \A i \in DOMAIN ss : Once(ss[i])
             /\ \A i, j \in DOMAIN ss : i # j => Apart(ToSet(ss[i]), ToSet(ss[j])))
            => Once(FlattenSeq(ss))
<1>0. Len(ss) \in Nat /\ DOMAIN ss = 1 .. Len(ss) /\ \A k \in 1 .. Len(ss) : ss[k] \in Seq(S)
  BY LenProperties, ElementOfSeq
<1>1. CASE Len(ss) = 0
  <2>1. ss = <<>> /\ FlattenSeq(ss) = ss
    BY <1>1, EmptySeq DEF FlattenSeq
  <2>2. ss \in Seq(S) /\ ToSet(ss) = {} /\ Once(ss) /\ DOMAIN ss = {}
    BY <2>1, NoNode, Zenon
  <2> QED BY <2>1, <2>2
<1>2. CASE Len(ss) # 0
  <2>1. PICK f \in [1 .. Len(ss) -> Seq(S)] :
          /\ f[Len(ss)] = FlattenSeq(ss) /\ f[1] = ss[1]
          /\ \A k \in 2 .. Len(ss) : f[k] = f[k - 1] \o ss[k]
    BY <1>2, FlattenedStep
  <2> DEFINE Separate == /\ \A i \in DOMAIN ss : Once(ss[i])
                         /\ \A i, j \in DOMAIN ss : i # j => Apart(ToSet(ss[i]), ToSet(ss[j]))
             Good(k) == /\ ToSet(f[k]) = UNION {ToSet(ss[i]) : i \in 1 .. k}
                        /\ Separate => Once(f[k])
             T == {k \in 1 .. Len(ss) : ~Good(k)}
  <2>2. Good(1)
    <3>1. UNION {ToSet(ss[i]) : i \in 1 .. 1} = ToSet(ss[1]) /\ 1 \in DOMAIN ss
      BY <1>0, <1>2
    <3> QED BY <2>1, <3>1
  <2>3. ASSUME NEW k \in 2 .. Len(ss), Good(k - 1) PROVE Good(k)
    <3>0. k - 1 \in 1 .. Len(ss) /\ k \in 1 .. Len(ss)
      BY <1>0
    <3>1. k - 1 \in 1 .. Len(ss) /\ k \in DOMAIN ss /\ f[k - 1] \in Seq(S) /\ ss[k] \in Seq(S)
      BY <1>0, <3>0, Zenon
    <3>2. /\ ToSet(f[k]) = ToSet(f[k - 1]) \cup ToSet(ss[k])
          /\ Once(f[k - 1]) /\ Once(ss[k]) /\ Apart(ToSet(f[k - 1]), ToSet(ss[k])) => Once(f[k])
      <4>1. f[k] = f[k - 1] \o ss[k]
        BY <2>1
      <4> QED BY <3>1, <4>1, Concatenated, Zenon
    <3>3. 1 .. k = (1 .. k - 1) \cup {k} /\ \A i \in 1 .. k - 1 : i \in DOMAIN ss /\ i # k
      BY <1>0
    <3>4. ToSet(f[k]) = UNION {ToSet(ss[i]) : i \in 1 .. k}
      BY <2>3, <3>2, <3>3
    <3>5. ASSUME Separate PROVE Apart(ToSet(f[k - 1]), ToSet(ss[k]))
      <4>1. ToSet(f[k - 1]) = UNION {ToSet(ss[i]) : i \in 1 .. k - 1}
        BY <2>3
      <4> QED BY <3>1, <3>3, <3>5, <4>1, Zenon DEF Apart
    <3> QED BY <2>3, <3>1, <3>2, <3>4, <3>5
  <2> HIDE DEF Good
  <2>4. T = {}
    <3>1. 1 \notin T /\ T \in SUBSET (1 .. Len(ss)) /\ 1 \in Nat
      BY <2>2
    <3>2. ASSUME NEW k \in 1 + 1 .. Len(ss), k - 1 \notin T PROVE k \notin T
      <4>1. k \in 2 .. Len(ss) /\ k - 1 \in 1 .. Len(ss)
        BY <1>0
      <4> QED BY <2>3, <3>2, <4>1
    <3> HIDE DEF T
    <3> QED BY <1>0, <3>1, <3>2, StepByStep
  <2>5. Good(Len(ss))
    BY <1>0, <1>2, <2>4
  <2>6. FlattenSeq(ss) \in Seq(S)
    <3>1. Len(ss) \in 1 .. Len(ss)
      BY <1>0, <1>2
    <3> QED BY <2>1, <3>1, Zenon
  <2> QED BY <1>0, <2>1, <2>5, <2>6 DEF Good
<1> QED BY <1>1, <1>2

LEMMA FromFunction ==
  ASSUME NEW S, NEW n \in Nat, NEW f, DOMAIN f = 1 .. n, f = [i \in DOMAIN f |-> f[i]], \A i \in 1 .. n : f[i] \in S
  PROVE  f \in Seq(S) /\ Len(f) = n
<1>1. f \in [1 .. n -> S]
  BY Zenon
<1>2. f \in Seq(S)
  BY <1>1, SeqDef
<1>3. Len(f) = n
  BY <1>1, <1>2, LenProperties
<1> QED BY <1>2, <1>3

LEMMA SelectedOnes ==
  ASSUME NEW S, NEW s \in Seq(S), NEW P
  PROVE  /\ Selected(s, P) \in Seq(S)
         /\ ToSet(Selected(s, P)) = {s[p] : p \in P \cap DOMAIN s}
         /\ Once(s) => Once(Selected(s, P))
<1>0. Len(s) \in Nat /\ DOMAIN s = 1 .. Len(s) /\ \A p \in 1 .. Len(s) : s[p] \in S
  BY LenProperties, ElementOfSeq
<1> DEFINE ss == [p \in DOMAIN s |-> IF p \in P THEN <<s[p]>> ELSE <<>>]
<1>1. ASSUME NEW p \in DOMAIN s
      PROVE  /\ ss[p] \in Seq(S) /\ Once(ss[p])
             /\ ToSet(ss[p]) = IF p \in P THEN {s[p]} ELSE {}
  <2>1. s[p] \in S
    BY <1>0, Zenon
  <2>2. CASE p \in P
    <3>1. ss[p] = <<s[p]>>
      BY <2>2, Zenon
    <3> QED BY <2>1, <2>2, <3>1, OneNode, Zenon
  <2>3. CASE p \notin P
    <3>1. ss[p] = <<>>
      BY <2>3, Zenon
    <3> QED BY <2>3, <3>1, NoNode, Zenon
  <2> QED BY <2>2, <2>3
<1>2. DOMAIN ss = DOMAIN s /\ ss = [p \in DOMAIN ss |-> ss[p]] /\ Selected(s, P) = FlattenSeq(ss)
  BY Zenon DEF Selected
<1> HIDE DEF ss
<1>3. ss \in Seq(Seq(S))
  BY <1>0, <1>1, <1>2, FromFunction, Zenon
<1>4. /\ FlattenSeq(ss) \in Seq(S)
      /\ ToSet(FlattenSeq(ss)) = UNION {ToSet(ss[i]) : i \in DOMAIN ss}
      /\ (\A i, j \in DOMAIN ss : i # j => Apart(ToSet(ss[i]), ToSet(ss[j]))) => Once(FlattenSeq(ss))
  BY <1>1, <1>2, <1>3, Flattened, Zenon
<1>5. UNION {ToSet(ss[i]) : i \in DOMAIN ss} = {s[p] : p \in P \cap DOMAIN s}
  BY <1>1, <1>2
<1>6. Once(s) => \A i, j \in DOMAIN ss : i # j => Apart(ToSet(ss[i]), ToSet(ss[j]))
  <2>1. ASSUME Once(s), NEW i \in DOMAIN ss, NEW j \in DOMAIN ss, i # j, NEW x \in ToSet(ss[i]), NEW y \in ToSet(ss[j])
        PROVE  x.id # y.id
    <3>1. x = s[i] /\ y = s[j]
      BY <1>1, <1>2, <2>1
    <3> QED BY <1>2, <2>1, <3>1, Zenon DEF Once
  <2> QED BY <2>1, Zenon DEF Apart
<1> QED BY <1>2, <1>4, <1>5, <1>6, Zenon

\* Whoever is selected, all of them stay where they are.
LEMMA SelectedAll ==
  ASSUME NEW S, NEW s \in Seq(S), NEW P, DOMAIN s \subseteq P
  PROVE  \A p \in DOMAIN s : p \in DOMAIN Selected(s, P) /\ Selected(s, P)[p] = s[p]
<1>0. Len(s) \in Nat /\ DOMAIN s = 1 .. Len(s) /\ \A p \in 1 .. Len(s) : s[p] \in S
  BY LenProperties, ElementOfSeq
<1> DEFINE ss == [p \in DOMAIN s |-> IF p \in P THEN <<s[p]>> ELSE <<>>]
<1>1. DOMAIN ss = DOMAIN s /\ ss = [p \in DOMAIN ss |-> ss[p]] /\ Selected(s, P) = FlattenSeq(ss)
  BY Zenon DEF Selected
<1>2. \A p \in DOMAIN s : ss[p] = <<s[p]>>
  <2>1. \A p \in DOMAIN s : p \in P
    OBVIOUS
  <2> QED BY <2>1, Zenon
<1> HIDE DEF ss
<1>3. ASSUME NEW p \in DOMAIN s PROVE ss[p] \in Seq(S) /\ Len(ss[p]) = 1 /\ ss[p][1] = s[p]
  <2>1. PICK x : x = s[p]
    BY Zenon
  <2>2. x \in S
    BY <1>0, <2>1, Zenon
  <2>3. PICK one : one = <<x>>
    BY Zenon
  <2>4. one \in Seq(S)
    BY <2>2, <2>3, OneNode, Zenon
  <2>5. Len(one) = 1 /\ one[1] = x
    BY <2>3
  <2> QED BY <1>2, <2>1, <2>3, <2>4, <2>5, Zenon
<1>4. CASE Len(s) = 0
  BY <1>0, <1>4
<1>5. CASE Len(s) # 0
  <2>1. ss \in Seq(Seq(S)) /\ Len(ss) = Len(s)
    <3>1. PICK n : n = Len(s)
      BY Zenon
    <3>2. n \in Nat /\ DOMAIN ss = 1 .. n /\ \A p \in 1 .. n : ss[p] \in Seq(S)
      BY <1>0, <1>1, <1>3, <3>1, Zenon
    <3>3. ss \in Seq(Seq(S)) /\ Len(ss) = n
      BY <1>1, <3>2, FromFunction, Zenon
    <3> QED BY <3>1, <3>3, Zenon
  <2>2. PICK f \in [1 .. Len(s) -> Seq(S)] :
          /\ f[Len(s)] = FlattenSeq(ss) /\ f[1] = ss[1]
          /\ \A k \in 2 .. Len(s) : f[k] = f[k - 1] \o ss[k]
    <3>1. Len(ss) # 0
      BY <1>5, <2>1
    <3>2. PICK f \in [1 .. Len(ss) -> Seq(S)] :
            /\ f[Len(ss)] = FlattenSeq(ss) /\ f[1] = ss[1]
            /\ \A k \in 2 .. Len(ss) : f[k] = f[k - 1] \o ss[k]
      BY <2>1, <3>1, FlattenedStep
    <3> QED BY <2>1, <3>2
  <2> DEFINE Good(k) == Len(f[k]) = k /\ \A i \in 1 .. k : f[k][i] = s[i]
             T == {k \in 1 .. Len(s) : ~Good(k)}
  <2>3. Good(1)
    <3>1. 1 \in DOMAIN s
      BY <1>0, <1>5
    <3> QED BY <1>3, <2>2, <3>1
  <2>4. ASSUME NEW k \in 2 .. Len(s), Good(k - 1) PROVE Good(k)
    <3>1. k - 1 \in 1 .. Len(s) /\ k \in 1 .. Len(s) /\ k \in DOMAIN s
      BY <1>0
    <3>2. PICK a, b : a = f[k - 1] /\ b = ss[k]
      BY Zenon
    <3>3. a \in Seq(S) /\ b \in Seq(S) /\ Len(b) = 1 /\ b[1] = s[k] /\ f[k] = a \o b
      BY <1>3, <2>2, <3>1, <3>2
    <3>4. Len(a) = k - 1 /\ \A i \in 1 .. k - 1 : a[i] = s[i]
      BY <2>4, <3>2
    <3>5. Len(f[k]) = k /\ \A i \in 1 .. k : f[k][i] = IF i <= k - 1 THEN a[i] ELSE b[i - (k - 1)]
      <4>1. PICK q : q = a \o b
        BY Zenon
      <4>2. /\ Len(q) = Len(a) + Len(b)
            /\ \A i \in 1 .. Len(a) + Len(b) : q[i] = IF i <= Len(a) THEN a[i] ELSE b[i - Len(a)]
        BY <3>3, <4>1, ConcatProperties
      <4>3. Len(a) + Len(b) = k
        BY <1>0, <3>3, <3>4
      <4> QED BY <3>3, <3>4, <4>1, <4>2, <4>3
    <3>6. ASSUME NEW i \in 1 .. k PROVE f[k][i] = s[i]
      <4>1. CASE i <= k - 1
        BY <1>0, <3>4, <3>5, <4>1
      <4>2. CASE ~(i <= k - 1)
        <5>1. i = k /\ i - (k - 1) = 1
          BY <1>0, <4>2
        <5> QED BY <3>3, <3>5, <4>2, <5>1
      <4> QED BY <4>1, <4>2
    <3> QED BY <3>5, <3>6
  <2> HIDE DEF Good
  <2>5. T = {}
    <3>1. 1 \notin T /\ T \in SUBSET (1 .. Len(s)) /\ 1 \in Nat
      BY <2>3
    <3>2. ASSUME NEW k \in 1 + 1 .. Len(s), k - 1 \notin T PROVE k \notin T
      <4>1. k \in 2 .. Len(s) /\ k - 1 \in 1 .. Len(s)
        BY <1>0
      <4> QED BY <2>4, <3>2, <4>1
    <3> HIDE DEF T
    <3> QED BY <1>0, <3>1, <3>2, StepByStep
  <2>6. Good(Len(s))
    BY <1>0, <1>5, <2>5
  <2>7. PICK q : q = FlattenSeq(ss)
    BY Zenon
  <2>8. q \in Seq(S) /\ Len(q) = Len(s) /\ \A i \in 1 .. Len(s) : q[i] = s[i]
    <3>1. Len(s) \in 1 .. Len(s)
      BY <1>0, <1>5
    <3> QED BY <2>2, <2>6, <2>7, <3>1 DEF Good
  <2>9. DOMAIN q = 1 .. Len(s)
    BY <2>8, LenProperties
  <2> QED BY <1>0, <1>1, <2>7, <2>8, <2>9, Zenon
<1> QED BY <1>4, <1>5

-----------------------------------------------------------------------------
(* The graph.                                                              *)

Labels == Projects \cup Categories \cup {""}
TextOf == Texts \cup {0, Hidden}
Graphs == {g \in Graph : Once(g.nodes)}

\* What a new node with the id of an old one has nothing of.
Lost(old, n) == {old.summary, old.cipher} \ {n.summary, n.cipher, Hidden, None}
BothHidden(old, n) == old.summary = Hidden /\ n.summary = Hidden
LastHas(n, texts) == texts \subseteq {Last(n.versions).summary, Last(n.versions).cipher}

\* What was replaced is kept, and the prompts ask to confirm what replaced it.
KeptIn(old, n) ==
  /\ old.conflict => n.conflict
  /\ Lost(old, n) = {} \/ BothHidden(old, n) \/ (LastHas(n, Lost(old, n)) /\ n.conflict)

\* Only a hidden text has a ciphertext when it comes to the graph.
Sealed(n) == n.cipher # None => n.summary = Hidden

\* The nodes of g are at their positions in h.
InPlace(g, h) == \A p \in DOMAIN g.nodes : p \in DOMAIN h.nodes /\ h.nodes[p].id = g.nodes[p].id
NoneGone(g, h) == \A n \in ToSet(g.nodes) : Has(h, n.id)

LEMMA HasNode == \A g, id : Has(g, id) <=> \E n \in ToSet(g.nodes) : n.id = id
BY Zenon DEF Has, ToSet

\* No two nodes of a graph have the same id.
LEMMA OneOfAnId ==
  ASSUME NEW g \in Graphs, NEW m \in ToSet(g.nodes), NEW n \in ToSet(g.nodes), m.id = n.id
  PROVE  m = n
BY Zenon DEF Graphs, Once, ToSet

LEMMA NodesOfGraph ==
  ASSUME NEW g \in Graph
  PROVE  g.nodes \in Seq(Node) /\ \A n \in ToSet(g.nodes) : n \in Node
<1>1. g.nodes \in Seq(Node)
  BY DEF Graph
<1> QED BY <1>1, LenProperties, ElementOfSeq DEF ToSet

NodeShape(n) ==
  n = [id |-> n.id, type |-> n.type, parent |-> n.parent, label |-> n.label, summary |-> n.summary, shown |-> n.shown,
       cipher |-> n.cipher, embedding |-> n.embedding, versions |-> n.versions, sensitive |-> n.sensitive,
       confirm |-> n.confirm, conflict |-> n.conflict, seen |-> n.seen, stale |-> n.stale]

LEMMA NodeMade ==
  ASSUME NEW n, NodeShape(n), n.id \in Ids, n.type \in NodeType, n.parent \in Ids \cup {NoId},
         n.label \in Labels, n.summary \in TextOf, n.shown \in TextOf,
         n.cipher \in Texts \cup {0, None}, n.embedding \in Texts \cup {0, None}, n.versions \in Seq(Version),
         n.sensitive \in BOOLEAN, n.confirm \in BOOLEAN, n.conflict \in BOOLEAN, n.seen \in Nat, n.stale \in BOOLEAN
  PROVE  n \in Node
<1>1. PICK I, T, P, L, C, V, B : /\ I = Ids /\ T = NodeType /\ P = Ids \cup {NoId}
                                 /\ L = Labels /\ C = Texts \cup {0, None}
                                 /\ V = Seq(Version) /\ B = BOOLEAN
  BY Zenon
<1>2. PICK X, N : X = TextOf /\ N = Nat
  BY Zenon
<1>3. Node = [id : I, type : T, parent : P, label : L, summary : X, shown : X, cipher : C, embedding : C,
              versions : V, sensitive : B, confirm : B, conflict : B, seen : N, stale : B]
  BY <1>1, <1>2, Zenon DEF Node, TextOf, Labels
<1>4. /\ n.id \in I /\ n.type \in T /\ n.parent \in P /\ n.label \in L /\ n.summary \in X /\ n.shown \in X
      /\ n.cipher \in C /\ n.embedding \in C /\ n.versions \in V /\ n.sensitive \in B /\ n.confirm \in B
      /\ n.conflict \in B /\ n.seen \in N /\ n.stale \in B
  BY <1>1, <1>2, Zenon
<1>5. PICK a, b, c, d : a = n.id /\ b = n.type /\ c = n.parent /\ d = n.label
  BY Zenon
<1>6. PICK e, f, g, h, i : e = n.summary /\ f = n.shown /\ g = n.cipher /\ h = n.embedding /\ i = n.versions
  BY Zenon
<1>7. PICK j, k, l, m, o : j = n.sensitive /\ k = n.confirm /\ l = n.conflict /\ m = n.seen /\ o = n.stale
  BY Zenon
<1>8. n = [id |-> a, type |-> b, parent |-> c, label |-> d, summary |-> e, shown |-> f, cipher |-> g, embedding |-> h,
           versions |-> i, sensitive |-> j, confirm |-> k, conflict |-> l, seen |-> m, stale |-> o]
  BY <1>5, <1>6, <1>7, Zenon DEF NodeShape
<1>9. /\ a \in I /\ b \in T /\ c \in P /\ d \in L /\ e \in X /\ f \in X /\ g \in C /\ h \in C /\ i \in V
      /\ j \in B /\ k \in B /\ l \in B /\ m \in N /\ o \in B
  BY <1>4, <1>5, <1>6, <1>7, Zenon
<1> QED BY <1>3, <1>8, <1>9

LEMMA NodeFields ==
  ASSUME NEW n \in Node
  PROVE  /\ n.id \in Ids /\ n.type \in NodeType /\ n.parent \in Ids \cup {NoId}
         /\ n.label \in Labels
         /\ n.summary \in TextOf /\ n.shown \in TextOf
         /\ n.cipher \in Texts \cup {0, None} /\ n.embedding \in Texts \cup {0, None}
         /\ n.versions \in Seq(Version) /\ n.sensitive \in BOOLEAN /\ n.confirm \in BOOLEAN
         /\ n.conflict \in BOOLEAN /\ n.seen \in Nat /\ n.stale \in BOOLEAN
BY Zenon DEF Node, TextOf, Labels

LEMMA LastVersionsKeep ==
  ASSUME NEW s \in Seq(Version), NEW t \in Version
  PROVE  /\ LastVersions(Append(s, t)) \in Seq(Version)
         /\ Last(LastVersions(Append(s, t))) = t
<1>1. PICK q : q = Append(s, t)
  BY Zenon
<1>2. q \in Seq(Version) /\ Len(q) \in Nat \ {0} /\ q[Len(q)] = t
  BY <1>1, AppendProperties, LenProperties
<1>3. VersionsKept \in Nat \ {0}
  BY GraphAssumption
<1>4. PICK m : m = 1 + (IF Len(q) > VersionsKept THEN Len(q) - VersionsKept ELSE 0)
  BY Zenon
<1>5. m \in 1 .. Len(q)
  BY <1>2, <1>3, <1>4
<1>6. \A i \in m .. Len(q) : q[i] \in Version
  <2>1. \A i \in m .. Len(q) : i \in 1 .. Len(q)
    BY <1>2, <1>5
  <2> QED BY <1>2, <2>1, ElementOfSeq
<1>7. PICK r : r = SubSeq(q, m, Len(q))
  BY Zenon
<1>8. /\ r \in Seq(Version) /\ Len(r) = Len(q) - m + 1
      /\ \A i \in 1 .. Len(q) - m + 1 : r[i] = q[m + i - 1]
  <2>1. m \in Int /\ Len(q) \in Int /\ m <= Len(q)
    BY <1>2, <1>5
  <2> QED BY <1>6, <1>7, <2>1, SubSeqProperties
<1>9. LastVersions(Append(s, t)) = r
  BY <1>1, <1>4, <1>7, Zenon DEF LastVersions
<1>10. r[Len(r)] = t /\ Len(r) \in DOMAIN r
  <2>1. Len(q) - m + 1 \in 1 .. Len(q) - m + 1 /\ m + (Len(q) - m + 1) - 1 = Len(q) /\ Len(q) - m + 1 \in Nat \ {0}
    BY <1>2, <1>5
  <2>2. r[Len(r)] = t
    BY <1>2, <1>8, <2>1
  <2>3. DOMAIN r = 1 .. Len(r)
    BY <1>8, LenProperties
  <2> QED BY <1>8, <2>1, <2>2, <2>3
<1>11. Last(r) = t
  BY <1>10, Zenon DEF Last
<1> QED BY <1>8, <1>9, <1>11, Zenon

LEMMA ReplacedType ==
  ASSUME NEW n, n.summary \in TextOf, n.cipher \in Texts \cup {0, None}
  PROVE  \A x : x = Replaced(n) => x \in Version /\ x.summary = n.summary /\ x.cipher = n.cipher
<1>1. PICK X, C, s, c : X = TextOf /\ C = Texts \cup {0, None} /\ s = n.summary /\ c = n.cipher
  BY Zenon
<1>2. PICK x : x = Replaced(n)
  BY Zenon
<1>3. x = [summary |-> s, cipher |-> c] /\ s \in X /\ c \in C
  BY <1>1, <1>2, Zenon DEF Replaced
<1>4. x \in [summary : X, cipher : C] /\ x.summary = s /\ x.cipher = c
  BY <1>3
<1>5. Version = [summary : X, cipher : C]
  BY <1>1, Zenon DEF Version, TextOf
<1> QED BY <1>1, <1>2, <1>4, <1>5, Zenon

LEMMA MergeTypes ==
  ASSUME NEW old \in Node, NEW new \in Node, new.id = old.id, Sealed(new), NEW now \in Nat
  PROVE  /\ Merge(old, new, now) \in Node /\ Merge(old, new, now).id = new.id
         /\ Merge(old, new, now).type = new.type /\ Merge(old, new, now).seen = now
         /\ KeptIn(old, Merge(old, new, now))
<1>1. /\ old.versions \in Seq(Version) /\ old.summary \in TextOf /\ new.summary \in TextOf
      /\ old.cipher \in Texts \cup {0, None} /\ new.cipher \in Texts \cup {0, None}
      /\ old.embedding \in Texts \cup {0, None} /\ new.embedding \in Texts \cup {0, None}
      /\ old.sensitive \in BOOLEAN /\ new.sensitive \in BOOLEAN /\ old.confirm \in BOOLEAN /\ new.confirm \in BOOLEAN
      /\ old.conflict \in BOOLEAN /\ old.stale \in BOOLEAN
  BY DEF Node, TextOf
<1>2. PICK cipher, embedding, versions, sensitive, confirm, conflict :
        /\ cipher = IF new.cipher = None THEN old.cipher ELSE new.cipher
        /\ embedding = IF new.embedding = None THEN old.embedding ELSE new.embedding
        /\ versions = Versions(old, new)
        /\ sensitive = (new.sensitive \/ old.sensitive)
        /\ confirm = (new.confirm \/ old.confirm)
        /\ conflict = (old.conflict \/ HasConflict(old, new))
  BY Zenon
<1>3. PICK stale : stale = old.stale
  BY Zenon
<1>4. /\ cipher \in Texts \cup {0, None} /\ embedding \in Texts \cup {0, None}
      /\ sensitive \in BOOLEAN /\ confirm \in BOOLEAN /\ conflict \in BOOLEAN /\ stale \in BOOLEAN
  BY <1>1, <1>2, <1>3, Zenon DEF HasConflict
<1>5. /\ versions \in Seq(Version)
      /\ new.summary # old.summary =>
           Last(versions).summary = old.summary /\ Last(versions).cipher = old.cipher /\ conflict
  <2>1. PICK x : x = Replaced(old)
    BY Zenon
  <2>2. x \in Version /\ x.summary = old.summary /\ x.cipher = old.cipher
    BY <1>1, <2>1, ReplacedType, Zenon
  <2>3. PICK v : v = LastVersions(Append(old.versions, x))
    BY Zenon
  <2>4. v \in Seq(Version) /\ Last(v) = x
    BY <1>1, <2>2, <2>3, LastVersionsKeep, Zenon
  <2>5. versions = IF old.summary # new.summary THEN v ELSE old.versions
    BY <1>2, <2>1, <2>3, Zenon DEF Versions, HasConflict
  <2> QED BY <1>1, <1>2, <2>2, <2>4, <2>5, Zenon DEF HasConflict
<1>6. PICK n : n = Merge(old, new, now)
  BY Zenon
<1>7. n = [new EXCEPT !.cipher = cipher, !.embedding = embedding, !.versions = versions, !.sensitive = sensitive,
                      !.confirm = confirm, !.conflict = conflict, !.stale = stale, !.seen = now]
  <2>1. MergeFields(old, new) = [new EXCEPT !.cipher = cipher, !.embedding = embedding, !.versions = versions,
                                            !.sensitive = sensitive, !.confirm = confirm, !.conflict = conflict,
                                            !.stale = stale]
    BY <1>2, <1>3 DEF MergeFields
  <2> QED BY <1>6, <2>1 DEF Merge
<1>8. /\ n.id = new.id /\ n.type = new.type /\ n.parent = new.parent /\ n.label = new.label
      /\ n.summary = new.summary /\ n.shown = new.shown /\ n.cipher = cipher /\ n.embedding = embedding
      /\ n.versions = versions /\ n.sensitive = sensitive /\ n.confirm = confirm /\ n.conflict = conflict
      /\ n.seen = now /\ n.stale = stale /\ NodeShape(n)
  BY <1>7 DEF Node, NodeShape
<1>9. n \in Node
  <2>1. /\ n.id \in Ids /\ n.type \in NodeType /\ n.parent \in Ids \cup {NoId}
        /\ n.label \in Labels /\ n.summary \in TextOf /\ n.shown \in TextOf
    BY <1>8, NodeFields, Zenon
  <2>2. /\ n.cipher \in Texts \cup {0, None} /\ n.embedding \in Texts \cup {0, None} /\ n.versions \in Seq(Version)
        /\ n.sensitive \in BOOLEAN /\ n.confirm \in BOOLEAN /\ n.conflict \in BOOLEAN /\ n.seen \in Nat
        /\ n.stale \in BOOLEAN
    BY <1>4, <1>5, <1>8, Zenon
  <2> QED BY <1>8, <2>1, <2>2, NodeMade, Zenon
<1>10. KeptIn(old, n)
  <2>1. old.conflict => n.conflict
    BY <1>2, <1>8, Zenon
  <2>2. CASE new.summary # old.summary
    <3>1. n.conflict /\ Last(n.versions).summary = old.summary /\ Last(n.versions).cipher = old.cipher
      BY <1>5, <1>8, <2>2, Zenon
    <3>2. LastHas(n, Lost(old, n))
      BY <3>1 DEF LastHas, Lost
    <3> QED BY <2>1, <3>1, <3>2, Zenon DEF KeptIn
  <2>3. CASE new.summary = old.summary
    <3>1. n.summary = old.summary
      BY <1>8, <2>3, Zenon
    <3>2. CASE new.cipher = None
      <4>1. n.cipher = old.cipher
        BY <1>2, <1>8, <3>2, Zenon
      <4>2. Lost(old, n) = {}
        BY <3>1, <4>1 DEF Lost
      <4> QED BY <2>1, <4>2, Zenon DEF KeptIn
    <3>3. CASE new.cipher # None
      <4>1. BothHidden(old, n)
        BY <2>3, <3>1, <3>3, Zenon DEF Sealed, BothHidden
      <4> QED BY <2>1, <4>1, Zenon DEF KeptIn
    <3> QED BY <3>2, <3>3
  <2> QED BY <2>2, <2>3
<1> QED BY <1>6, <1>8, <1>9, <1>10, Zenon

LEMMA WithNodes ==
  ASSUME NEW h, NEW s \in Seq(Node), Once(s), NEW e \in SUBSET (Ids \X Ids),
         h = [nodes |-> s, edges |-> e]
  PROVE  h \in Graphs /\ h.nodes = s /\ h.edges = e
<1>1. h.nodes = s /\ h.edges = e /\ h \in Graph
  BY DEF Graph
<1> QED BY <1>1, Zenon DEF Graphs

LEMMA GraphFields ==
  ASSUME NEW g \in Graph
  PROVE  /\ g = [nodes |-> g.nodes, edges |-> g.edges] /\ g.edges \in SUBSET (Ids \X Ids)
         /\ \A s : [g EXCEPT !.nodes = s] = [nodes |-> s, edges |-> g.edges]
<1>1. g = [nodes |-> g.nodes, edges |-> g.edges] /\ g.edges \in SUBSET (Ids \X Ids)
  BY DEF Graph
<1>2. ASSUME NEW s PROVE [g EXCEPT !.nodes = s] = [nodes |-> s, edges |-> g.edges]
  BY DEF Graph
<1> QED BY <1>1, <1>2

\* A node is replaced by another one with its id.
LEMMA NodeReplaced ==
  ASSUME NEW g \in Graphs, NEW p \in DOMAIN g.nodes, NEW m \in Node, m.id = g.nodes[p].id,
         NEW t \in [DOMAIN g.nodes -> Node],
         \A q \in DOMAIN g.nodes : t[q] = IF q = p THEN m ELSE g.nodes[q]
  PROVE  /\ t \in Seq(Node) /\ Once(t)
         /\ ToSet(t) = (ToSet(g.nodes) \ {g.nodes[p]}) \cup {m}
<1>1. PICK s : s = g.nodes
  BY Zenon
<1>2. s \in Seq(Node) /\ Once(s)
  BY <1>1, NodesOfGraph DEF Graphs
<1>3. DOMAIN s = 1 .. Len(s) /\ Len(s) \in Nat /\ \A q \in DOMAIN s : s[q] \in Node
  BY <1>2, LenProperties, ElementOfSeq
<1>4. /\ DOMAIN t = DOMAIN s /\ t \in [DOMAIN s -> Node]
      /\ \A q \in DOMAIN s : t[q] = IF q = p THEN m ELSE s[q]
  BY <1>1, Zenon
<1>5. t \in Seq(Node)
  BY <1>3, <1>4, SeqDef, Zenon
<1>6. Once(t)
  <2>1. \A q \in DOMAIN s : t[q].id = s[q].id
    BY <1>1, <1>4, Zenon
  <2>2. ASSUME NEW q \in DOMAIN s, NEW r \in DOMAIN s, t[q].id = t[r].id PROVE q = r
    BY <1>2, <2>1, <2>2, Zenon DEF Once
  <2> QED BY <1>4, <2>2, Zenon DEF Once
<1>7. ToSet(t) = (ToSet(s) \ {s[p]}) \cup {m}
  <2>1. ASSUME NEW x \in ToSet(t) PROVE x \in (ToSet(s) \ {s[p]}) \cup {m}
    <3>1. PICK q \in DOMAIN s : x = t[q]
      BY <1>4, Zenon DEF ToSet
    <3>2. q # p => x = s[q] /\ s[q] \in ToSet(s) /\ s[q] # s[p]
      BY <1>1, <1>2, <1>4, <3>1, Zenon DEF ToSet, Once
    <3> QED BY <1>4, <3>1, <3>2
  <2>2. ASSUME NEW x \in (ToSet(s) \ {s[p]}) \cup {m} PROVE x \in ToSet(t)
    <3>1. CASE x = m
      <4>1. p \in DOMAIN t /\ t[p] = m
        BY <1>1, <1>4, Zenon
      <4> QED BY <3>1, <4>1, Zenon DEF ToSet
    <3>2. CASE x # m
      <4>1. PICK q \in DOMAIN s : x = s[q] /\ q # p
        BY <2>2, <3>2, Zenon DEF ToSet
      <4>2. q \in DOMAIN t /\ t[q] = x
        BY <1>4, <4>1, Zenon
      <4> QED BY <4>2, Zenon DEF ToSet
    <3> QED BY <3>1, <3>2
  <2> QED BY <2>1, <2>2
<1> QED BY <1>1, <1>5, <1>6, <1>7, Zenon

LEMMA NodeAppended ==
  ASSUME NEW g \in Graphs, NEW n \in Node, ~Has(g, n.id)
  PROVE  /\ Append(g.nodes, n) \in Seq(Node) /\ Once(Append(g.nodes, n))
         /\ ToSet(Append(g.nodes, n)) = ToSet(g.nodes) \cup {n}
         /\ \A p \in DOMAIN g.nodes : p \in DOMAIN Append(g.nodes, n) /\ Append(g.nodes, n)[p] = g.nodes[p]
<1>1. PICK s : s = <<n>>
  BY Zenon
<1>2. s \in Seq(Node) /\ ToSet(s) = {n} /\ Once(s)
  BY <1>1, OneNode, Zenon
<1>3. g.nodes \in Seq(Node) /\ Once(g.nodes)
  BY NodesOfGraph DEF Graphs
<1>4. Append(g.nodes, n) = g.nodes \o s
  BY <1>1, <1>3, AppendIsConcat
<1>5. Apart(ToSet(g.nodes), ToSet(s))
  BY <1>2, HasNode, Zenon DEF Apart
<1>6. /\ g.nodes \o s \in Seq(Node) /\ ToSet(g.nodes \o s) = ToSet(g.nodes) \cup ToSet(s)
      /\ Once(g.nodes \o s)
  BY <1>2, <1>3, <1>5, Concatenated, Zenon
<1>7. \A p \in DOMAIN g.nodes : p \in DOMAIN Append(g.nodes, n) /\ Append(g.nodes, n)[p] = g.nodes[p]
  <2>1. PICK z : z = g.nodes
    BY Zenon
  <2>2. z \in Seq(Node)
    BY <1>3, <2>1
  <2>3. \A p \in DOMAIN z : p \in DOMAIN Append(z, n) /\ Append(z, n)[p] = z[p]
    BY <2>2, AppendProperties, LenProperties
  <2> QED BY <2>1, <2>3, Zenon
<1> QED BY <1>2, <1>4, <1>6, <1>7, Zenon

\* What AddNode changes: the node of the id, which is new or merged.
OneAdded(g, h, n, now) ==
  /\ h \in Graphs /\ InPlace(g, h)
  /\ \A id : Has(h, id) <=> Has(g, id) \/ id = n.id
  /\ \A m \in ToSet(h.nodes) :
       \/ m \in ToSet(g.nodes) /\ m.id # n.id
       \/ /\ m.id = n.id /\ m.type = n.type /\ m.seen = now
          /\ \A old \in ToSet(g.nodes) : old.id = n.id => KeptIn(old, m)

LEMMA NodeAdded ==
  ASSUME NEW g \in Graphs, NEW n \in Node, Sealed(n), NEW now \in Nat
  PROVE  \A h : h = AddNode(g, n, now) => OneAdded(g, h, n, now)
<1>0. g \in Graph
  BY DEF Graphs
<1>1. PICK h : h = AddNode(g, n, now)
  BY Zenon
<1>2. CASE Has(g, n.id)
  <2>1. PICK p \in DOMAIN g.nodes : p = Position(g, n.id) /\ g.nodes[p].id = n.id
    BY <1>2, Zenon DEF Has, Position
  <2>2. PICK old : old = g.nodes[p]
    BY Zenon
  <2>3. old \in ToSet(g.nodes) /\ old \in Node /\ old.id = n.id
    BY <1>0, <2>1, <2>2, NodesOfGraph, Zenon DEF ToSet
  <2>4. PICK m : m = Merge(old, n, now)
    BY Zenon
  <2>5. m \in Node /\ m.id = n.id /\ m.type = n.type /\ m.seen = now /\ KeptIn(old, m)
    BY <2>3, <2>4, MergeTypes, Zenon
  <2>6. PICK s : s = [g.nodes EXCEPT ![p] = m]
    BY Zenon
  <2>7. s \in Seq(Node) /\ Once(s) /\ ToSet(s) = (ToSet(g.nodes) \ {old}) \cup {m}
    <3>1. /\ s \in [DOMAIN g.nodes -> Node]
          /\ \A q \in DOMAIN g.nodes : s[q] = IF q = p THEN m ELSE g.nodes[q]
      <4>1. PICK z : z = g.nodes
        BY Zenon
      <4>2. z \in Seq(Node)
        BY <1>0, <4>1, NodesOfGraph
      <4>3. z \in [DOMAIN z -> Node]
        BY <4>2, LenProperties
      <4>4. s = [z EXCEPT ![p] = m]
        BY <2>6, <4>1, Zenon
      <4> QED BY <2>5, <4>1, <4>3, <4>4
    <3>2. m.id = g.nodes[p].id
      BY <2>1, <2>5, Zenon
    <3>3. g \in Graphs /\ p \in DOMAIN g.nodes /\ m \in Node
      BY <2>1, <2>5, Zenon
    <3>4. s \in Seq(Node) /\ Once(s) /\ ToSet(s) = (ToSet(g.nodes) \ {g.nodes[p]}) \cup {m}
      BY <3>1, <3>2, <3>3, NodeReplaced
    <3> QED BY <2>2, <3>4, Zenon
  <2>8. h = [nodes |-> s, edges |-> g.edges]
    <3>1. h = [g EXCEPT !.nodes[p] = m]
      BY <1>1, <1>2, <2>1, <2>2, <2>4, Zenon DEF AddNode
    <3>2. h = [g EXCEPT !.nodes = s]
      BY <1>0, <2>6, <3>1 DEF Graph
    <3> QED BY <1>0, <3>2, GraphFields
  <2>9. h \in Graphs /\ h.nodes = s
    BY <1>0, <2>7, <2>8, GraphFields, WithNodes, Zenon
  <2>10. \A id : Has(h, id) <=> Has(g, id) \/ id = n.id
    BY <1>2, <2>3, <2>5, <2>7, <2>9, HasNode, Zenon
  <2>11. ASSUME NEW x \in ToSet(h.nodes)
         PROVE  \/ x \in ToSet(g.nodes) /\ x.id # n.id
                \/ /\ x.id = n.id /\ x.type = n.type /\ x.seen = now
                   /\ \A o \in ToSet(g.nodes) : o.id = n.id => KeptIn(o, x)
    <3>1. \A o \in ToSet(g.nodes) : o.id = n.id => o = old
      BY <2>3, OneOfAnId, Zenon
    <3> QED BY <2>5, <2>7, <2>9, <3>1, Zenon
  <2>12. InPlace(g, h)
    <3>1. \A q \in DOMAIN g.nodes : q \in DOMAIN s /\ s[q] = IF q = p THEN m ELSE g.nodes[q]
      BY <2>6, Zenon
    <3>2. m.id = g.nodes[p].id
      BY <2>1, <2>5, Zenon
    <3> QED BY <2>9, <3>1, <3>2, Zenon DEF InPlace
  <2>13. OneAdded(g, h, n, now)
    BY <2>9, <2>10, <2>11, <2>12, Zenon DEF OneAdded
  <2> QED BY <1>1, <2>13, Zenon
<1>3. CASE ~Has(g, n.id)
  <2>1. PICK m : m = [n EXCEPT !.seen = now]
    BY Zenon
  <2>2. m \in Node /\ m.id = n.id /\ m.type = n.type /\ m.seen = now
    BY <2>1 DEF Node
  <2>3. PICK s : s = Append(g.nodes, m)
    BY Zenon
  <2>4. s \in Seq(Node) /\ Once(s) /\ ToSet(s) = ToSet(g.nodes) \cup {m}
    BY <1>3, <2>2, <2>3, NodeAppended, Zenon
  <2>5. h = [nodes |-> s, edges |-> g.edges]
    <3>1. h = [g EXCEPT !.nodes = s]
      BY <1>1, <1>3, <2>1, <2>3, Zenon DEF AddNode
    <3> QED BY <1>0, <3>1, GraphFields
  <2>6. h \in Graphs /\ h.nodes = s
    BY <1>0, <2>4, <2>5, GraphFields, WithNodes, Zenon
  <2>7. \A o \in ToSet(g.nodes) : o.id # n.id
    BY <1>3, HasNode, Zenon
  <2>8. \A id : Has(h, id) <=> Has(g, id) \/ id = n.id
    BY <2>2, <2>4, <2>6, HasNode, Zenon
  <2>9. \A x \in ToSet(h.nodes) :
          \/ x \in ToSet(g.nodes) /\ x.id # n.id
          \/ /\ x.id = n.id /\ x.type = n.type /\ x.seen = now
             /\ \A o \in ToSet(g.nodes) : o.id = n.id => KeptIn(o, x)
    BY <2>2, <2>4, <2>6, <2>7, Zenon
  <2>10. InPlace(g, h)
    <3>1. m \in Node /\ ~Has(g, m.id)
      BY <1>3, <2>2, Zenon
    <3>2. \A p \in DOMAIN g.nodes : p \in DOMAIN s /\ s[p] = g.nodes[p]
      BY <2>3, <3>1, NodeAppended, Zenon
    <3> QED BY <2>6, <3>2, Zenon DEF InPlace
  <2>11. OneAdded(g, h, n, now)
    BY <2>6, <2>8, <2>9, <2>10, Zenon DEF OneAdded
  <2> QED BY <1>1, <2>11, Zenon
<1> QED BY <1>2, <1>3

\* h is g after the nodes of a set were told, each once.
Told(g, h, told, now) ==
  /\ h \in Graphs /\ InPlace(g, h)
  /\ \A id : Has(h, id) <=> Has(g, id) \/ \E n \in told : n.id = id
  /\ \A m \in ToSet(h.nodes) :
       \/ m \in ToSet(g.nodes) /\ \A n \in told : n.id # m.id
       \/ \E n \in told : /\ m.id = n.id /\ m.type = n.type /\ m.seen = now
                          /\ \A old \in ToSet(g.nodes) : old.id = n.id => KeptIn(old, m)

LEMMA NothingTold ==
  ASSUME NEW g \in Graphs, NEW now
  PROVE  Told(g, g, {}, now)
BY Zenon DEF Told, InPlace

LEMMA OneMoreTold ==
  ASSUME NEW g \in Graphs, NEW f \in Graphs, NEW told, NEW now \in Nat, Told(g, f, told, now),
         NEW n \in Node, Sealed(n), \A x \in told : x.id # n.id
  PROVE  \A h : h = AddNode(f, n, now) => Told(g, h, told \cup {n}, now)
<1>1. PICK h : h = AddNode(f, n, now)
  BY Zenon
<1>2. /\ h \in Graphs /\ InPlace(f, h)
      /\ \A id : Has(h, id) <=> Has(f, id) \/ id = n.id
      /\ \A m \in ToSet(h.nodes) :
           \/ m \in ToSet(f.nodes) /\ m.id # n.id
           \/ /\ m.id = n.id /\ m.type = n.type /\ m.seen = now
              /\ \A old \in ToSet(f.nodes) : old.id = n.id => KeptIn(old, m)
  <2>1. OneAdded(f, h, n, now)
    BY <1>1, NodeAdded, Zenon
  <2> QED BY <2>1, Zenon DEF OneAdded
<1>3. PICK all : all = told \cup {n}
  BY Zenon
<1>4. n \in all /\ (\A x \in told : x \in all) /\ \A x \in all : x \in told \/ x = n
  BY <1>3
<1>5. \A id : Has(h, id) <=> Has(g, id) \/ \E x \in all : x.id = id
  BY <1>2, <1>4, Zenon DEF Told
<1>6. ASSUME NEW old \in ToSet(g.nodes), old.id = n.id
      PROVE  old \in ToSet(f.nodes)
  <2>1. PICK x \in ToSet(f.nodes) : x.id = n.id
    BY <1>6, HasNode, Zenon DEF Told
  <2>2. x \in ToSet(g.nodes)
    BY <2>1, Zenon DEF Told
  <2> QED BY <1>6, <2>1, <2>2, OneOfAnId, Zenon
<1>7. ASSUME NEW m \in ToSet(h.nodes)
      PROVE  \/ m \in ToSet(g.nodes) /\ \A x \in all : x.id # m.id
             \/ \E x \in all : /\ m.id = x.id /\ m.type = x.type /\ m.seen = now
                               /\ \A old \in ToSet(g.nodes) : old.id = x.id => KeptIn(old, m)
  <2>1. CASE m \in ToSet(f.nodes) /\ m.id # n.id
    BY <1>4, <2>1, Zenon DEF Told
  <2>2. CASE /\ m.id = n.id /\ m.type = n.type /\ m.seen = now
             /\ \A old \in ToSet(f.nodes) : old.id = n.id => KeptIn(old, m)
    BY <1>4, <1>6, <2>2, Zenon
  <2> QED BY <1>2, <2>1, <2>2, Zenon
<1>8. InPlace(g, h)
  BY <1>2, Zenon DEF Told, InPlace
<1>9. Told(g, h, all, now)
  BY <1>2, <1>5, <1>7, <1>8, Zenon DEF Told
<1> QED BY <1>1, <1>3, <1>9, Zenon

LEMMA NodesAdded ==
  ASSUME NEW g \in Graphs, NEW ns, NEW noise, NEW now \in Nat,
         FilterNoise(ns, noise) \in Seq(Node), Once(FilterNoise(ns, noise)),
         \A x \in ToSet(FilterNoise(ns, noise)) : Sealed(x)
  PROVE  \A h : h = AddNodes(g, ns, noise, now) => Told(g, h, ToSet(FilterNoise(ns, noise)), now)
<1>1. PICK s : s = FilterNoise(ns, noise)
  BY Zenon
<1>2. PICK n : n = Len(s)
  BY Zenon
<1>3. /\ s \in Seq(Node) /\ Once(s) /\ n \in Nat /\ DOMAIN s = 1 .. n
      /\ \A k \in 1 .. n : s[k] \in Node /\ Sealed(s[k])
  <2>1. /\ s \in Seq(Node) /\ Once(s) /\ n \in Nat /\ DOMAIN s = 1 .. n
        /\ \A k \in 1 .. n : s[k] \in Node
    BY <1>1, <1>2, LenProperties, ElementOfSeq
  <2>2. \A k \in DOMAIN s : Sealed(s[k])
    BY <1>1, Zenon DEF ToSet
  <2> QED BY <2>1, <2>2, Zenon
<1> DEFINE added == CHOOSE f : f = [k \in 0 .. n |-> IF k = 0 THEN g ELSE AddNode(f[k - 1], s[k], now)]
           next == [kv \in (1 .. n) \X Graphs |-> AddNode(kv[2], s[kv[1]], now)]
<1>4. AddNodes(g, ns, noise, now) = added[n]
  BY <1>1, <1>2 DEF AddNodes
<1>5. \A k \in 0 + 1 .. n : \A v \in Graphs : next[<<k, v>>] = AddNode(v, s[k], now) /\ next[<<k, v>>] \in Graphs
  <2>1. 0 + 1 = 1
    OBVIOUS
  <2>2. ASSUME NEW k \in 1 .. n, NEW v \in Graphs
        PROVE  next[<<k, v>>] = AddNode(v, s[k], now) /\ next[<<k, v>>] \in Graphs
    <3>1. <<k, v>> \in (1 .. n) \X Graphs
      OBVIOUS
    <3>2. next[<<k, v>>] = AddNode(v, s[k], now)
      BY <3>1, Zenon
    <3>3. s[k] \in Node /\ Sealed(s[k])
      BY <1>3, Zenon
    <3>4. AddNode(v, s[k], now) \in Graphs
      BY <3>3, NodeAdded, Zenon DEF OneAdded
    <3> QED BY <3>2, <3>4, Zenon
  <2> QED BY <2>1, <2>2, Zenon
<1> HIDE DEF next
<1>6. PICK f \in [0 .. n -> Graphs] : RecursionFrom(f, g, next, 0, n)
  <2>1. \A k \in 0 + 1 .. n : \A v \in Graphs : next[<<k, v>>] \in Graphs
    BY <1>5, Zenon
  <2>2. 0 \in Nat
    OBVIOUS
  <2> QED BY <1>3, <2>1, <2>2, RecursionExists, Zenon
<1>7. ASSUME NEW k \in 0 .. n
      PROVE  f[k] = IF k = 0 THEN g ELSE AddNode(f[k - 1], s[k], now)
  <2>1. CASE k = 0
    BY <1>6, <2>1 DEF RecursionFrom
  <2>2. CASE k # 0
    <3>1. f[k] = next[<<k, f[k - 1]>>]
      BY <1>6, <2>2 DEF RecursionFrom
    <3>2. k \in 0 + 1 .. n /\ k - 1 \in 0 .. n
      BY <1>3, <2>2
    <3>3. f[k - 1] \in Graphs
      BY <3>2, Zenon
    <3> QED BY <1>5, <2>2, <3>1, <3>2, <3>3, Zenon
  <2> QED BY <2>1, <2>2
<1>8. f = [k \in 0 .. n |-> f[k]]
  OBVIOUS
<1>9. f = [k \in 0 .. n |-> IF k = 0 THEN g ELSE AddNode(f[k - 1], s[k], now)]
  BY <1>7, <1>8
<1>10. added = [k \in 0 .. n |-> IF k = 0 THEN g ELSE AddNode(added[k - 1], s[k], now)]
  BY <1>9, Zenon
<1> HIDE DEF added
<1> DEFINE Good(k) == Told(g, added[k], {s[i] : i \in 1 .. k}, now)
           T == {k \in 0 .. n : ~Good(k)}
<1>11. Good(0)
  <2>1. 1 .. 0 = {} /\ 0 \in 0 .. n
    BY <1>3
  <2>2. {s[i] : i \in 1 .. 0} = {}
    BY <2>1
  <2>3. added[0] = g
    BY <1>10, <2>1
  <2> QED BY <2>2, <2>3, NothingTold, Zenon
<1>12. ASSUME NEW k \in 1 .. n, Good(k - 1) PROVE Good(k)
  <2>0. /\ k - 1 \in 0 .. n /\ k \in 0 .. n /\ k # 0
        /\ 1 .. k = (1 .. k - 1) \cup {k} /\ \A i \in 1 .. k - 1 : i \in 1 .. n /\ i # k
    BY <1>3
  <2>1. added[k] = AddNode(added[k - 1], s[k], now)
    BY <1>10, <2>0
  <2>2. PICK told : told = {s[i] : i \in 1 .. k - 1}
    BY Zenon
  <2>3. Told(g, added[k - 1], told, now)
    BY <1>12, <2>2, Zenon
  <2>4. added[k - 1] \in Graphs /\ s[k] \in Node /\ Sealed(s[k])
    BY <1>3, <2>3, Zenon DEF Told
  <2>5. \A x \in told : x.id # s[k].id
    <3>1. ASSUME NEW i \in 1 .. k - 1 PROVE s[i].id # s[k].id
      <4>1. i \in 1 .. n /\ i # k
        BY <2>0, Zenon
      <4> QED BY <1>3, <4>1, Zenon DEF Once
    <3> QED BY <2>2, <3>1, Zenon
  <2>6. Told(g, added[k], told \cup {s[k]}, now)
    BY <2>1, <2>3, <2>4, <2>5, OneMoreTold, Zenon
  <2>7. told \cup {s[k]} = {s[i] : i \in 1 .. k}
    BY <2>0, <2>2
  <2> QED BY <2>6, <2>7
<1> HIDE DEF Good
<1>13. T = {}
  <2>1. 0 \notin T /\ T \in SUBSET (0 .. n) /\ 0 \in Nat
    BY <1>11
  <2>2. ASSUME NEW k \in 0 + 1 .. n, k - 1 \notin T PROVE k \notin T
    <3>1. k \in 1 .. n /\ k - 1 \in 0 .. n
      BY <1>3
    <3> QED BY <1>12, <2>2, <3>1
  <2> HIDE DEF T
  <2> QED BY <1>3, <2>1, <2>2, StepByStep
<1>14. Good(n)
  BY <1>3, <1>13
<1>15. {s[i] : i \in 1 .. n} = ToSet(s)
  BY <1>3, Zenon DEF ToSet
<1> QED BY <1>1, <1>4, <1>14, <1>15 DEF Good

-----------------------------------------------------------------------------
(* What a consolidation tells.                                             *)

LEMMA TwoNodes ==
  ASSUME NEW S, NEW x \in S, NEW y \in S, x.id # y.id
  PROVE  \A s : s = <<x, y>> => s \in Seq(S) /\ ToSet(s) = {x, y} /\ Once(s)
<1>1. PICK s : s = <<x, y>>
  BY Zenon
<1>2. s \in [1 .. 2 -> S] /\ DOMAIN s = {1, 2} /\ s[1] = x /\ s[2] = y
  BY <1>1
<1>3. s \in Seq(S)
  BY <1>2, SeqDef
<1>4. ToSet(s) = {x, y}
  BY <1>2 DEF ToSet
<1>5. Once(s)
  BY <1>2 DEF Once
<1> QED BY <1>1, <1>3, <1>4, <1>5, Zenon

\* A text of its own, not yet hidden.
Fresh(n) == n.summary \in Texts \cup {0} /\ n.cipher = None

\* A node as it was told, before it is cut into chunks.
Whole(n) == n.id = Id(n.id.name, 0)

OfASource(n) == n.type = "memory" => n.id.name \in Sources

\* What a consolidation hands to the graph.
Tellable(s) ==
  /\ s \in Seq(Node) /\ Once(s)
  /\ \A n \in ToSet(s) : Fresh(n) /\ OfASource(n)

LEMMA IdFields ==
  ASSUME NEW name, NEW part
  PROVE  /\ Id(name, part).name = name /\ Id(name, part).part = part
         /\ name \in Names /\ part \in 0 .. 2 => Id(name, part) \in Ids
BY DEF Id, Ids

LEMMA NewNodeType ==
  ASSUME NEW name \in Names, NEW type \in NodeType, NEW parent \in Ids \cup {NoId},
         NEW label \in Labels, NEW text \in Texts \cup {0}, NEW sensitive \in BOOLEAN,
         NEW n, n = NewNode(name, type, parent, label, text, sensitive)
  PROVE  n \in Node /\ n.id = Id(name, 0) /\ n.type = type /\ n.summary = text /\ Whole(n) /\ Fresh(n)
<1>1. PICK id : id = Id(name, 0)
  BY Zenon
<1>2. id \in Ids /\ id.name = name
  <2>1. 0 \in 0 .. 2
    OBVIOUS
  <2> QED BY <1>1, <2>1, IdFields, Zenon
<1>3. /\ n.id = id /\ n.type = type /\ n.parent = parent /\ n.label = label /\ n.summary = text /\ n.shown = text
      /\ n.cipher = None /\ n.embedding = None /\ n.versions = <<>> /\ n.sensitive = sensitive
      /\ n.confirm = FALSE /\ n.conflict = FALSE /\ n.seen = 0 /\ n.stale = FALSE /\ NodeShape(n)
  BY <1>1 DEF NewNode, NodeShape
<1>4. <<>> \in Seq(Version) /\ text \in TextOf /\ None \in Texts \cup {0, None} /\ 0 \in Nat
  BY EmptySeq, GraphAssumption DEF TextOf
<1>5. n \in Node
  <2>1. /\ n.id \in Ids /\ n.type \in NodeType /\ n.parent \in Ids \cup {NoId}
        /\ n.label \in Labels /\ n.summary \in TextOf /\ n.shown \in TextOf
    BY <1>2, <1>3, <1>4, Zenon
  <2>2. /\ n.cipher \in Texts \cup {0, None} /\ n.embedding \in Texts \cup {0, None} /\ n.versions \in Seq(Version)
        /\ n.sensitive \in BOOLEAN /\ n.confirm \in BOOLEAN /\ n.conflict \in BOOLEAN /\ n.seen \in Nat
        /\ n.stale \in BOOLEAN
    BY <1>3, <1>4, Zenon
  <2> QED BY <1>3, <2>1, <2>2, NodeMade, Zenon
<1> QED BY <1>1, <1>2, <1>3, <1>5, Zenon DEF Whole, Fresh

LEMMA ContainerTypes ==
  ASSUME NEW label \in Projects \cup Categories
  PROVE  /\ \A n : n = ScopeNode(ScopeOf(label)) =>
              n \in Node /\ n.id = Id(ScopeOf(label), 0) /\ n.type # "memory" /\ Whole(n) /\ Fresh(n)
         /\ \A text \in Texts \cup {0} : \A sensitive \in BOOLEAN : \A n : n = ContainerNode(label, text, sensitive) =>
              n \in Node /\ n.id = Id(label, 0) /\ n.type # "memory" /\ Whole(n) /\ Fresh(n)
         /\ Id(ScopeOf(label), 0) \in Ids /\ Id(label, 0) \in Ids
         /\ ScopeOf(label) \in Scopes
<1>1. PICK scope : scope = ScopeOf(label)
  BY Zenon
<1>2. scope \in Scopes /\ scope \in Names /\ label \in Names
  BY <1>1 DEF ScopeOf, Scopes, Names
<1>3. Id(scope, 0) \in Ids /\ Id(label, 0) \in Ids
  BY <1>2, IdFields
<1>4. ASSUME NEW n, n = ScopeNode(scope)
      PROVE  n \in Node /\ n.id = Id(scope, 0) /\ n.type # "memory" /\ Whole(n) /\ Fresh(n)
  <2>1. n = NewNode(scope, "scope", NoId, "", 0, FALSE)
    BY <1>4, Zenon DEF ScopeNode
  <2>2. PICK label0, no : label0 = "" /\ no = FALSE
    BY Zenon
  <2>3. label0 \in Labels
    BY <2>2, Zenon DEF Labels
  <2>4. "scope" \in NodeType /\ NoId \in Ids \cup {NoId} /\ 0 \in Texts \cup {0} /\ no \in BOOLEAN
    BY <2>2 DEF NodeType
  <2>5. n = NewNode(scope, "scope", NoId, label0, 0, no)
    BY <2>1, <2>2, Zenon
  <2>6. n \in Node /\ n.id = Id(scope, 0) /\ n.type = "scope" /\ Whole(n) /\ Fresh(n)
    BY <1>2, <2>3, <2>4, <2>5, NewNodeType
  <2> QED BY <2>6
<1>5. ASSUME NEW text \in Texts \cup {0}, NEW sensitive \in BOOLEAN, NEW n, n = ContainerNode(label, text, sensitive)
      PROVE  n \in Node /\ n.id = Id(label, 0) /\ n.type # "memory" /\ Whole(n) /\ Fresh(n)
  <2>1. PICK type : type = IF label \in Projects THEN "project" ELSE "category"
    BY Zenon
  <2>2. n = NewNode(label, type, Id(scope, 0), label, text, sensitive)
    BY <1>1, <1>5, <2>1, Zenon DEF ContainerNode
  <2>3. type \in NodeType /\ type # "memory"
    BY <2>1 DEF NodeType
  <2>4. Id(scope, 0) \in Ids \cup {NoId} /\ label \in Labels
    BY <1>3, Zenon DEF Labels
  <2> QED BY <1>2, <2>2, <2>3, <2>4, NewNodeType
<1> QED BY <1>1, <1>2, <1>3, <1>4, <1>5, Zenon

\* The hierarchy has the scope, the container and the memory, under names of
\* their own.
LEMMA HierarchyPrepared ==
  ASSUME NEW about, NEW label \in Projects \cup Categories, NEW text \in Texts, NEW sensitive \in BOOLEAN,
         about \in Sources \/ about = label
  PROVE  \A P : P = PrepareHierarchy(about, label, text, sensitive) =>
           /\ Tellable(P.nodes) /\ \A n \in ToSet(P.nodes) : Whole(n)
           /\ P.edges \in SUBSET (Ids \X Ids)
<1>1. PICK P : P = PrepareHierarchy(about, label, text, sensitive)
  BY Zenon
<1>2. PICK scope, top, low, own, secret :
        /\ scope = ScopeOf(label) /\ top = ScopeNode(scope) /\ low = ContainerNode(label, own, secret)
        /\ own = (IF about = label THEN text ELSE 0) /\ secret = (about = label /\ sensitive)
  BY Zenon
<1>3. own \in Texts \cup {0} /\ secret \in BOOLEAN
  BY <1>2
<1>4. /\ top \in Node /\ top.id = Id(scope, 0) /\ top.type # "memory" /\ Whole(top) /\ Fresh(top)
      /\ low \in Node /\ low.id = Id(label, 0) /\ low.type # "memory" /\ Whole(low) /\ Fresh(low)
      /\ Id(scope, 0) \in Ids /\ Id(label, 0) \in Ids /\ scope \in Scopes
  BY <1>2, <1>3, ContainerTypes, Zenon
<1>5. scope # label /\ (about \in Sources => about # scope /\ about # label)
  BY <1>4, NamesAssumption
<1>6. \A x, y : Id(x, 0) = Id(y, 0) => x = y
  BY IdFields
<1>7. PICK s : s = <<top>>
  BY Zenon
<1>8. s \in Seq(Node) /\ ToSet(s) = {top} /\ Once(s)
  BY <1>4, <1>7, OneNode, Zenon
<1>9. \A n : n.type # "memory" => OfASource(n)
  BY Zenon DEF OfASource
<1>10. ASSUME NEW t \in Seq(Node), Once(t), \A n \in ToSet(t) : n.id # top.id /\ Fresh(n) /\ OfASource(n) /\ Whole(n),
              P.nodes = s \o t
       PROVE  Tellable(P.nodes) /\ \A n \in ToSet(P.nodes) : Whole(n)
  <2>1. s \in Seq(Node) /\ Once(s)
    BY <1>8, Zenon
  <2>2. Apart(ToSet(s), ToSet(t))
    BY <1>8, <1>10 DEF Apart
  <2>3. s \o t \in Seq(Node) /\ ToSet(s \o t) = ToSet(s) \cup ToSet(t) /\ Once(s \o t)
    BY <1>10, <2>1, <2>2, Concatenated, Zenon
  <2>4. \A n \in ToSet(P.nodes) : n = top \/ n \in ToSet(t)
    BY <1>8, <1>10, <2>3
  <2>5. \A n \in ToSet(P.nodes) : Fresh(n) /\ OfASource(n) /\ Whole(n)
    BY <1>4, <1>9, <1>10, <2>4, Zenon
  <2> QED BY <1>10, <2>3, <2>5, Zenon DEF Tellable
<1>11. CASE about = label
  <2>1. PICK t : t = <<low>>
    BY Zenon
  <2>2. t \in Seq(Node) /\ ToSet(t) = {low} /\ Once(t)
    BY <1>4, <2>1, OneNode, Zenon
  <2>3. P.nodes = Append(s, low) /\ P.edges = {<<Id(scope, 0), Id(label, 0)>>}
    <3>1. own = text /\ secret = sensitive
      BY <1>2, <1>11
    <3>2. low = ContainerNode(label, text, sensitive)
      BY <1>2, <3>1, Zenon
    <3> QED BY <1>1, <1>2, <1>7, <1>11, <3>2 DEF PrepareHierarchy
  <2>4. P.nodes = s \o t
    BY <1>4, <1>8, <2>1, <2>3, AppendIsConcat
  <2>5. \A n \in ToSet(t) : n.id # top.id /\ Fresh(n) /\ OfASource(n) /\ Whole(n)
    <3>1. low.id # top.id /\ OfASource(low)
      BY <1>4, <1>5, <1>6, <1>9, Zenon
    <3> QED BY <1>4, <2>2, <3>1
  <2>6. P.edges \in SUBSET (Ids \X Ids)
    BY <1>4, <2>3
  <2> QED BY <1>1, <1>10, <2>2, <2>4, <2>5, <2>6, Zenon
<1>12. CASE about # label
  <2>1. PICK n : n = NewNode(about, "memory", Id(label, 0), label, text, sensitive)
    BY Zenon
  <2>2. n \in Node /\ n.id = Id(about, 0) /\ n.type = "memory" /\ Whole(n) /\ Fresh(n)
    <3>1. /\ about \in Names /\ "memory" \in NodeType /\ Id(label, 0) \in Ids \cup {NoId}
          /\ text \in Texts \cup {0}
      BY <1>4, <1>12 DEF Names, NodeType
    <3>2. label \in Labels
      BY Zenon DEF Labels
    <3> QED BY <2>1, <3>1, <3>2, NewNodeType
  <2>3. PICK t : t = <<low, n>>
    BY Zenon
  <2>4. low.id # n.id /\ top.id # n.id /\ top.id # low.id
    BY <1>4, <1>5, <1>6, <1>12, <2>2, Zenon
  <2>5. t \in Seq(Node) /\ ToSet(t) = {low, n} /\ Once(t)
    BY <1>4, <2>2, <2>3, <2>4, TwoNodes
  <2>6. /\ P.nodes = s \o t
        /\ P.edges = {<<Id(scope, 0), Id(label, 0)>>, <<Id(label, 0), Id(about, 0)>>}
    <3>1. PICK no : no = FALSE
      BY Zenon
    <3>2. own = 0 /\ secret = no
      BY <1>2, <1>12, <3>1
    <3>3. low = ContainerNode(label, 0, no)
      BY <1>2, <3>2, Zenon
    <3>4. P = [nodes |-> s \o t, edges |-> {<<Id(scope, 0), Id(label, 0)>>, <<Id(label, 0), Id(about, 0)>>}]
      BY <1>1, <1>2, <1>7, <1>12, <2>1, <2>3, <3>1, <3>3, Zenon DEF PrepareHierarchy
    <3> QED BY <3>4
  <2>7. n.id.name = about /\ Id(about, 0) \in Ids
    BY <1>12, <2>2, IdFields DEF Names
  <2>8. OfASource(n) /\ OfASource(low)
    BY <1>4, <1>9, <1>12, <2>7, Zenon DEF OfASource
  <2>9. P.edges \in SUBSET (Ids \X Ids)
    BY <1>4, <2>6, <2>7
  <2>10. \A x \in ToSet(t) : x.id # top.id /\ Fresh(x) /\ OfASource(x) /\ Whole(x)
    BY <1>4, <2>2, <2>4, <2>5, <2>8
  <2> QED BY <1>1, <1>10, <2>5, <2>6, <2>9, <2>10, Zenon
<1> QED BY <1>11, <1>12

\* Nodes are changed one by one; their ids stay.
LEMMA NodesMapped ==
  ASSUME NEW s \in Seq(Node), Once(s), NEW t, t = [p \in DOMAIN t |-> t[p]], DOMAIN t = DOMAIN s,
         \A p \in DOMAIN s : t[p] \in Node /\ t[p].id = s[p].id
  PROVE  t \in Seq(Node) /\ Once(t) /\ \A n \in ToSet(t) : \E p \in DOMAIN s : n = t[p]
<1>1. Len(s) \in Nat /\ DOMAIN s = 1 .. Len(s)
  BY LenProperties
<1>2. t \in Seq(Node)
  BY <1>1, FromFunction, Zenon
<1>3. Once(t)
  <2>1. ASSUME NEW p \in DOMAIN s, NEW q \in DOMAIN s, t[p].id = t[q].id PROVE p = q
    BY <2>1, Zenon DEF Once
  <2> QED BY <2>1, Zenon DEF Once
<1>4. \A n \in ToSet(t) : \E p \in DOMAIN s : n = t[p]
  BY Zenon DEF ToSet
<1> QED BY <1>2, <1>3, <1>4

LEMMA ChunkType ==
  ASSUME NEW n \in Node, Whole(n), Fresh(n), OfASource(n), NEW part \in 1 .. 2,
         NEW m, m = [n EXCEPT !.id.part = part]
  PROVE  m \in Node /\ m.id = Id(n.id.name, part) /\ Fresh(m) /\ OfASource(m)
<1>1. n.id.name \in Names
  BY DEF Node, Ids
<1>2. PICK id : id = Id(n.id.name, part)
  BY Zenon
<1>3. id \in Ids /\ id.name = n.id.name
  BY <1>1, <1>2, IdFields
<1>4. [n.id EXCEPT !.part = part] = id
  <2>1. n.id = Id(n.id.name, 0)
    BY Zenon DEF Whole
  <2> QED BY <1>2, <2>1 DEF Id
<1>5. m = [n EXCEPT !.id = id]
  BY <1>4, Zenon
<1>6. /\ m.id = id /\ m.type = n.type /\ m.parent = n.parent /\ m.label = n.label /\ m.summary = n.summary
      /\ m.shown = n.shown /\ m.cipher = n.cipher /\ m.embedding = n.embedding /\ m.versions = n.versions
      /\ m.sensitive = n.sensitive /\ m.confirm = n.confirm /\ m.conflict = n.conflict /\ m.seen = n.seen
      /\ m.stale = n.stale /\ NodeShape(m)
  BY <1>5 DEF Node, NodeShape
<1>7. m \in Node
  <2>1. /\ m.id \in Ids /\ m.type \in NodeType /\ m.parent \in Ids \cup {NoId}
        /\ m.label \in Labels /\ m.summary \in TextOf /\ m.shown \in TextOf
    BY <1>3, <1>6, NodeFields, Zenon
  <2>2. /\ m.cipher \in Texts \cup {0, None} /\ m.embedding \in Texts \cup {0, None} /\ m.versions \in Seq(Version)
        /\ m.sensitive \in BOOLEAN /\ m.confirm \in BOOLEAN /\ m.conflict \in BOOLEAN /\ m.seen \in Nat
        /\ m.stale \in BOOLEAN
    BY <1>6, NodeFields, Zenon
  <2> QED BY <1>6, <2>1, <2>2, NodeMade, Zenon
<1> QED BY <1>2, <1>3, <1>6, <1>7, Zenon DEF Fresh, OfASource

\* Names are names of their own before the nodes are cut, and parts after.
LEMMA ChunksTellable ==
  ASSUME NEW ns, Tellable(ns), \A n \in ToSet(ns) : Whole(n), NEW long
  PROVE  Tellable(SemanticChunks(ns, long))
<1> DEFINE C(n) == IF n.id.name = long /\ n.id.part = 0
                   THEN <<[n EXCEPT !.id.part = 1], [n EXCEPT !.id.part = 2]>>
                   ELSE <<n>>
           ss == [p \in DOMAIN ns |-> C(ns[p])]
<1>1. SemanticChunks(ns, long) = FlattenSeq(ss)
  BY Zenon DEF SemanticChunks
<1>2. /\ ns \in Seq(Node) /\ Once(ns) /\ Len(ns) \in Nat /\ DOMAIN ns = 1 .. Len(ns)
      /\ \A p \in DOMAIN ns : ns[p] \in ToSet(ns) /\ ns[p] \in Node
  BY LenProperties, ElementOfSeq DEF Tellable, ToSet
<1>3. ASSUME NEW p \in DOMAIN ns
      PROVE  /\ ss[p] \in Seq(Node) /\ Once(ss[p])
             /\ \A x \in ToSet(ss[p]) : Fresh(x) /\ OfASource(x) /\ x.id.name = ns[p].id.name
  <2>1. PICK n : n = ns[p]
    BY Zenon
  <2>2. n \in Node /\ Whole(n) /\ Fresh(n) /\ OfASource(n)
    BY <1>2, <2>1, Zenon DEF Tellable
  <2>3. CASE n.id.name = long /\ n.id.part = 0
    <3>1. PICK a, b : a = [n EXCEPT !.id.part = 1] /\ b = [n EXCEPT !.id.part = 2]
      BY Zenon
    <3>2. 1 \in 1 .. 2 /\ 2 \in 1 .. 2 /\ 1 # 2
      OBVIOUS
    <3>3. a \in Node /\ a.id = Id(n.id.name, 1) /\ Fresh(a) /\ OfASource(a)
      BY <2>2, <3>1, <3>2, ChunkType
    <3>4. b \in Node /\ b.id = Id(n.id.name, 2) /\ Fresh(b) /\ OfASource(b)
      BY <2>2, <3>1, <3>2, ChunkType
    <3>5. a.id # b.id /\ a.id.name = n.id.name /\ b.id.name = n.id.name
      BY <3>2, <3>3, <3>4, IdFields
    <3>6. PICK c : c = <<a, b>>
      BY Zenon
    <3>7. c \in Seq(Node) /\ ToSet(c) = {a, b} /\ Once(c)
      BY <3>3, <3>4, <3>5, <3>6, TwoNodes
    <3>8. \A x \in ToSet(c) : x = a \/ x = b
      BY <3>7
    <3>9. ss[p] = c
      BY <2>1, <2>3, <3>1, <3>6, Zenon
    <3> QED BY <2>1, <3>3, <3>4, <3>5, <3>7, <3>8, <3>9, Zenon
  <2>4. CASE ~(n.id.name = long /\ n.id.part = 0)
    <3>1. ss[p] = <<n>>
      BY <2>1, <2>4, Zenon
    <3>2. ss[p] \in Seq(Node) /\ ToSet(ss[p]) = {n} /\ Once(ss[p])
      BY <2>2, <3>1, OneNode, Zenon
    <3>3. \A x \in ToSet(ss[p]) : x = n
      BY <3>2
    <3> QED BY <2>1, <2>2, <3>2, <3>3, Zenon
  <2> QED BY <2>3, <2>4
<1>4. DOMAIN ss = DOMAIN ns /\ ss = [p \in DOMAIN ss |-> ss[p]]
  BY Zenon
<1> HIDE DEF ss
<1>5. ss \in Seq(Seq(Node))
  BY <1>2, <1>3, <1>4, FromFunction, Zenon
<1>6. ASSUME NEW p \in DOMAIN ss, NEW q \in DOMAIN ss, p # q PROVE Apart(ToSet(ss[p]), ToSet(ss[q]))
  <2>1. ns[p].id = Id(ns[p].id.name, 0) /\ ns[q].id = Id(ns[q].id.name, 0)
    BY <1>2, <1>4, Zenon DEF Whole
  <2>2. ns[p].id.name # ns[q].id.name
    BY <1>2, <1>4, <1>6, <2>1, Zenon DEF Once
  <2> QED BY <1>3, <1>4, <2>2, Zenon DEF Apart
<1>7. /\ FlattenSeq(ss) \in Seq(Node) /\ Once(FlattenSeq(ss))
      /\ ToSet(FlattenSeq(ss)) = UNION {ToSet(ss[p]) : p \in DOMAIN ss}
  <2>1. \A p \in DOMAIN ss : Once(ss[p])
    BY <1>3, <1>4, Zenon
  <2> QED BY <1>5, <1>6, <2>1, Flattened
<1>8. \A x \in ToSet(FlattenSeq(ss)) : Fresh(x) /\ OfASource(x)
  <2>1. \A x \in ToSet(FlattenSeq(ss)) : \E p \in DOMAIN ss : x \in ToSet(ss[p])
    BY <1>7
  <2> QED BY <1>3, <1>4, <2>1, Zenon
<1> QED BY <1>1, <1>7, <1>8, Zenon DEF Tellable

LEMMA EmbeddedTellable ==
  ASSUME NEW ns, Tellable(ns)
  PROVE  Tellable(Embedded(ns))
<1>1. PICK t : t = Embedded(ns)
  BY Zenon
<1>2. /\ ns \in Seq(Node) /\ Once(ns)
      /\ \A p \in DOMAIN ns : ns[p] \in Node /\ Fresh(ns[p]) /\ OfASource(ns[p])
  BY LenProperties, ElementOfSeq DEF Tellable, ToSet
<1>3. /\ DOMAIN t = DOMAIN ns /\ t = [p \in DOMAIN t |-> t[p]]
      /\ \A p \in DOMAIN ns : t[p] = [ns[p] EXCEPT !.embedding = ns[p].summary]
  BY <1>1, Zenon DEF Embedded
<1>4. ASSUME NEW n \in Node, Fresh(n), OfASource(n), NEW m, m = [n EXCEPT !.embedding = n.summary]
      PROVE  m \in Node /\ m.id = n.id /\ Fresh(m) /\ OfASource(m)
  <2>1. PICK e : e = n.summary
    BY Zenon
  <2>2. e \in Texts \cup {0, None}
    BY <1>4, <2>1 DEF Fresh
  <2>3. m = [n EXCEPT !.embedding = e]
    BY <1>4, <2>1, Zenon
  <2>4. m \in Node /\ m.id = n.id /\ m.type = n.type /\ m.summary = n.summary /\ m.cipher = n.cipher
    BY <2>2, <2>3 DEF Node
  <2> QED BY <1>4, <2>4, Zenon DEF Fresh, OfASource
<1>5. \A p \in DOMAIN ns : t[p] \in Node /\ t[p].id = ns[p].id /\ Fresh(t[p]) /\ OfASource(t[p])
  BY <1>2, <1>3, <1>4, Zenon
<1>6. t \in Seq(Node) /\ Once(t) /\ \A n \in ToSet(t) : \E p \in DOMAIN ns : n = t[p]
  BY <1>2, <1>3, <1>5, NodesMapped
<1>7. \A n \in ToSet(t) : Fresh(n) /\ OfASource(n)
  BY <1>5, <1>6, Zenon
<1> QED BY <1>1, <1>6, <1>7, Zenon DEF Tellable

LEMMA ProtectTypes ==
  ASSUME NEW n \in Node, Fresh(n)
  PROVE  \A m : m = Protect(n) => m \in Node /\ m.id = n.id /\ m.type = n.type /\ Sealed(m)
<1>1. PICK m : m = Protect(n)
  BY Zenon
<1>2. CASE ~n.sensitive
  BY <1>1, <1>2, Zenon DEF Protect, Fresh, Sealed
<1>3. CASE n.sensitive
  <2>1. PICK c : c = Encrypt(n.summary)
    BY Zenon
  <2>2. c \in Texts \cup {0, None}
    BY <2>1 DEF Encrypt, Fresh
  <2>3. m = [n EXCEPT !.confirm = TRUE, !.summary = Hidden, !.shown = Hidden, !.cipher = c]
    BY <1>1, <1>3, <2>1, Zenon DEF Protect
  <2>4. PICK hidden : hidden = Hidden
    BY Zenon
  <2>5. hidden \in TextOf
    BY <2>4 DEF TextOf
  <2>6. /\ m.id = n.id /\ m.type = n.type /\ m.parent = n.parent /\ m.label = n.label /\ m.summary = hidden
        /\ m.shown = hidden /\ m.cipher = c /\ m.embedding = n.embedding /\ m.versions = n.versions
        /\ m.sensitive = n.sensitive /\ m.confirm = TRUE /\ m.conflict = n.conflict /\ m.seen = n.seen
        /\ m.stale = n.stale /\ NodeShape(m)
    BY <2>3, <2>4 DEF Node, NodeShape
  <2>7. m \in Node
    <3>1. /\ m.id \in Ids /\ m.type \in NodeType /\ m.parent \in Ids \cup {NoId}
          /\ m.label \in Labels /\ m.summary \in TextOf /\ m.shown \in TextOf
      BY <2>5, <2>6, NodeFields, Zenon
    <3>2. /\ m.cipher \in Texts \cup {0, None} /\ m.embedding \in Texts \cup {0, None} /\ m.versions \in Seq(Version)
          /\ m.sensitive \in BOOLEAN /\ m.confirm \in BOOLEAN /\ m.conflict \in BOOLEAN /\ m.seen \in Nat
          /\ m.stale \in BOOLEAN
      BY <2>2, <2>6, NodeFields, Zenon
    <3> QED BY <2>6, <3>1, <3>2, NodeMade, Zenon
  <2>8. Sealed(m)
    BY <2>4, <2>6, Zenon DEF Sealed
  <2> QED BY <1>1, <2>6, <2>7, <2>8, Zenon
<1> QED BY <1>2, <1>3

LEMMA KeptTellable ==
  ASSUME NEW ns, Tellable(ns), NEW noise
  PROVE  /\ FilterNoise(ns, noise) \in Seq(Node) /\ Once(FilterNoise(ns, noise))
         /\ \A n \in ToSet(FilterNoise(ns, noise)) : OfASource(n) /\ Sealed(n)
<1>1. PICK P : P = {p \in DOMAIN ns : ns[p].type # "memory" \/ ~LowValue(ns[p], noise)}
  BY Zenon
<1>2. PICK kept : kept = Selected(ns, P)
  BY Zenon
<1>3. PICK t : t = FilterNoise(ns, noise)
  BY Zenon
<1>4. /\ DOMAIN t = DOMAIN kept /\ t = [p \in DOMAIN t |-> t[p]]
      /\ \A p \in DOMAIN kept : t[p] = Protect(kept[p])
  BY <1>1, <1>2, <1>3, Zenon DEF FilterNoise
<1>5. /\ kept \in Seq(Node) /\ Once(kept)
      /\ ToSet(kept) = {ns[p] : p \in P \cap DOMAIN ns}
  BY <1>2, SelectedOnes DEF Tellable
<1>6. \A p \in DOMAIN kept : kept[p] \in Node /\ Fresh(kept[p]) /\ OfASource(kept[p])
  <2>1. \A p \in DOMAIN kept : kept[p] \in ToSet(kept)
    BY Zenon DEF ToSet
  <2>2. \A n \in ToSet(kept) : n \in ToSet(ns)
    BY <1>5 DEF ToSet
  <2>3. \A p \in DOMAIN kept : kept[p] \in Node
    BY <1>5, LenProperties, ElementOfSeq
  <2> QED BY <2>1, <2>2, <2>3, Zenon DEF Tellable
<1>7. \A p \in DOMAIN kept : t[p] \in Node /\ t[p].id = kept[p].id /\ t[p].type = kept[p].type /\ Sealed(t[p])
  BY <1>4, <1>6, ProtectTypes, Zenon
<1>8. t \in Seq(Node) /\ Once(t) /\ \A n \in ToSet(t) : \E p \in DOMAIN kept : n = t[p]
  BY <1>4, <1>5, <1>7, NodesMapped
<1>9. ASSUME NEW n \in ToSet(t) PROVE OfASource(n) /\ Sealed(n)
  <2>1. PICK p \in DOMAIN kept : n = t[p]
    BY <1>8, Zenon
  <2>2. OfASource(kept[p]) /\ n.id = kept[p].id /\ n.type = kept[p].type /\ Sealed(n)
    BY <1>6, <1>7, <2>1, Zenon
  <2> QED BY <2>2, Zenon DEF OfASource
<1> QED BY <1>3, <1>8, <1>9, Zenon

LEMMA PreparedTellable ==
  ASSUME NEW r \in Runs, NEW a \in Answers, a.about # "nothing", NEW embeds
  PROVE  Tellable(Prepared(r, a, embeds).nodes) /\ Prepared(r, a, embeds).edges \in SUBSET (Ids \X Ids)
<1>1. /\ a.label \in Projects \cup Categories /\ r \in Texts
      /\ a.about \in Sources \/ a.about = a.label
  BY StoreAssumption DEF Answer
<1>2. PICK told : told = PrepareHierarchy(a.about, a.label, r, a.quality = "sensitive")
  BY Zenon
<1>3. (a.quality = "sensitive") \in BOOLEAN
  BY Zenon
<1>4. Tellable(told.nodes) /\ (\A n \in ToSet(told.nodes) : Whole(n)) /\ told.edges \in SUBSET (Ids \X Ids)
  BY <1>1, <1>2, <1>3, HierarchyPrepared, Zenon
<1>5. PICK long : long = IF a.quality = "long" THEN a.about ELSE ""
  BY Zenon
<1>6. PICK ns : ns = SemanticChunks(told.nodes, long)
  BY Zenon
<1>7. Tellable(ns)
  BY <1>4, <1>6, ChunksTellable, Zenon
<1>8. Tellable(Embedded(ns))
  BY <1>7, EmbeddedTellable
<1>9. PICK all : all = IF embeds THEN Embedded(ns) ELSE ns
  BY Zenon
<1>10. Prepared(r, a, embeds) = [nodes |-> all, edges |-> told.edges]
  BY <1>2, <1>5, <1>6, <1>9, Zenon DEF Prepared
<1>11. Tellable(all)
  BY <1>7, <1>8, <1>9, Zenon
<1> QED BY <1>4, <1>10, <1>11

-----------------------------------------------------------------------------
(* Edges, expiry, deletion, correction.                                    *)

LEMMA EdgesAdded ==
  ASSUME NEW g \in Graphs, NEW es \in SUBSET (Ids \X Ids)
  PROVE  \A h : h = AddEdges(g, es) => h \in Graphs /\ h.nodes = g.nodes
<1>1. PICK h : h = AddEdges(g, es)
  BY Zenon
<1>2. h \in Graph /\ h.nodes = g.nodes
  BY <1>1 DEF AddEdges, Graph, Graphs
<1>3. h \in Graphs
  BY <1>2, Zenon DEF Graphs
<1> QED BY <1>1, <1>2, <1>3, Zenon

LEMMA NodesWithout ==
  ASSUME NEW g \in Graphs, NEW gone
  PROVE  \A h : h = Without(g, gone) =>
           /\ h \in Graphs /\ ToSet(h.nodes) = {n \in ToSet(g.nodes) : n.id \notin gone}
           /\ NoneGone(g, h) => InPlace(g, h)
<1>1. PICK h : h = Without(g, gone)
  BY Zenon
<1>2. PICK P, s, e : /\ P = {p \in DOMAIN g.nodes : g.nodes[p].id \notin gone} /\ s = Selected(g.nodes, P)
                     /\ e = {d \in g.edges : d[1] \notin gone /\ d[2] \notin gone}
  BY Zenon
<1>3. h = [nodes |-> s, edges |-> e]
  BY <1>1, <1>2, Zenon DEF Without
<1>4. g.nodes \in Seq(Node) /\ Once(g.nodes) /\ g.edges \in SUBSET (Ids \X Ids)
  BY DEF Graphs, Graph
<1>5. s \in Seq(Node) /\ ToSet(s) = {g.nodes[p] : p \in P \cap DOMAIN g.nodes} /\ Once(s)
  BY <1>2, <1>4, SelectedOnes, Zenon
<1>6. e \in SUBSET (Ids \X Ids)
  BY <1>2, <1>4
<1>7. h \in Graphs /\ h.nodes = s
  BY <1>3, <1>5, <1>6, WithNodes, Zenon
<1>8. ToSet(s) = {n \in ToSet(g.nodes) : n.id \notin gone}
  BY <1>2, <1>5 DEF ToSet
<1>9. ASSUME NoneGone(g, h) PROVE InPlace(g, h)
  <2>1. PICK z : z = g.nodes
    BY Zenon
  <2>2. ASSUME NEW p \in DOMAIN z PROVE z[p].id \notin gone
    <3>1. z[p] \in ToSet(g.nodes)
      BY <2>1, Zenon DEF ToSet
    <3>2. PICK n \in ToSet(s) : n.id = z[p].id
      BY <1>7, <1>9, <3>1, HasNode, Zenon DEF NoneGone
    <3>3. n.id \notin gone
      BY <1>8, <3>2
    <3> QED BY <3>2, <3>3, Zenon
  <2>3. DOMAIN z \subseteq P
    BY <1>2, <2>1, <2>2
  <2>4. z \in Seq(Node)
    BY <1>4, <2>1, Zenon
  <2>5. s = Selected(z, P)
    BY <1>2, <2>1, Zenon
  <2>6. \A p \in DOMAIN z : p \in DOMAIN s /\ s[p] = z[p]
    BY <2>3, <2>4, <2>5, SelectedAll, Zenon
  <2> QED BY <1>7, <2>1, <2>6, Zenon DEF InPlace
<1> QED BY <1>1, <1>7, <1>8, <1>9, Zenon

\* A node is m, but for being stale.
Alike(n, m) ==
  /\ m.id = n.id /\ m.type = n.type /\ m.seen = n.seen /\ m.summary = n.summary /\ m.cipher = n.cipher
  /\ m.versions = n.versions /\ m.confirm = n.confirm /\ m.conflict = n.conflict

LEMMA NodesExpired ==
  ASSUME NEW g \in Graphs, NEW now \in Nat
  PROVE  \A h : h = Expire(g, now) =>
           /\ h \in Graphs
           /\ \A n \in ToSet(g.nodes) : n.type # "memory" \/ now <= n.seen + HardDelete => Has(h, n.id)
           /\ \A m \in ToSet(h.nodes) : \E n \in ToSet(g.nodes) : Alike(n, m)
           /\ NoneGone(g, h) => InPlace(g, h)
<1>1. PICK h : h = Expire(g, now)
  BY Zenon
<1>2. PICK old : old = {n.id : n \in {m \in ToSet(g.nodes) : m.type = "memory" /\ m.seen + HardDelete < now}}
  BY Zenon
<1>3. PICK f : f = Without(g, old)
  BY Zenon
<1>4. f \in Graphs /\ ToSet(f.nodes) = {n \in ToSet(g.nodes) : n.id \notin old}
  BY <1>3, NodesWithout, Zenon
<1>5. PICK s : s = [p \in DOMAIN f.nodes |-> [f.nodes[p] EXCEPT !.stale = f.nodes[p].seen + MaxAge < now]]
  BY Zenon
<1>6. h = [f EXCEPT !.nodes = s]
  BY <1>1, <1>2, <1>3, <1>5, Zenon DEF Expire
<1>7. f \in Graph /\ f.nodes \in Seq(Node) /\ Once(f.nodes) /\ f.edges \in SUBSET (Ids \X Ids)
  BY <1>4 DEF Graphs, Graph
<1>8. h = [nodes |-> s, edges |-> f.edges]
  BY <1>6, <1>7, GraphFields
<1>9. ASSUME NEW p \in DOMAIN f.nodes
      PROVE  s[p] \in Node /\ Alike(f.nodes[p], s[p])
  <2>1. PICK n, stale : n = f.nodes[p] /\ stale = (n.seen + MaxAge < now)
    BY Zenon
  <2>2. n \in Node /\ stale \in BOOLEAN
    <3>1. n \in Node
      BY <1>7, <2>1, LenProperties, ElementOfSeq
    <3>2. n.seen \in Nat /\ MaxAge \in Nat
      BY <3>1, NodeFields, GraphAssumption
    <3>3. (n.seen + MaxAge < now) \in BOOLEAN
      BY <3>2
    <3> QED BY <2>1, <3>1, <3>3, Zenon
  <2>3. PICK m : m = s[p]
    BY Zenon
  <2>4. m = [n EXCEPT !.stale = stale]
    BY <1>5, <2>1, <2>3, Zenon
  <2>5. m \in Node /\ Alike(n, m)
    BY <2>2, <2>4 DEF Node, Alike
  <2> QED BY <2>1, <2>3, <2>5, Zenon
<1>10. DOMAIN s = DOMAIN f.nodes /\ s = [p \in DOMAIN s |-> s[p]]
  BY <1>5, Zenon
<1>11. s \in Seq(Node) /\ Once(s) /\ \A m \in ToSet(s) : \E p \in DOMAIN f.nodes : m = s[p]
  <2>1. \A p \in DOMAIN f.nodes : s[p] \in Node /\ s[p].id = f.nodes[p].id
    BY <1>9, Zenon DEF Alike
  <2> QED BY <1>7, <1>10, <2>1, NodesMapped
<1>12. h \in Graphs /\ h.nodes = s
  BY <1>7, <1>8, <1>11, WithNodes, Zenon
<1>13. ASSUME NEW m \in ToSet(h.nodes) PROVE \E n \in ToSet(g.nodes) : Alike(n, m)
  <2>1. PICK p \in DOMAIN f.nodes : m = s[p]
    BY <1>11, <1>12, Zenon
  <2>2. f.nodes[p] \in ToSet(f.nodes)
    BY Zenon DEF ToSet
  <2>3. f.nodes[p] \in ToSet(g.nodes)
    BY <1>4, <2>2
  <2> QED BY <1>9, <2>1, <2>3, Zenon
<1>14. ASSUME NEW n \in ToSet(g.nodes), n.type # "memory" \/ now <= n.seen + HardDelete
       PROVE  Has(h, n.id)
  <2>1. n \in Node /\ n.seen \in Nat /\ HardDelete \in Nat
    BY NodesOfGraph, NodeFields, GraphAssumption DEF Graphs
  <2>2. ~(n.type = "memory" /\ n.seen + HardDelete < now)
    BY <1>14, <2>1
  <2>3. n.id \notin old
    <3>1. ASSUME n.id \in old PROVE FALSE
      <4>1. PICK m \in ToSet(g.nodes) : m.type = "memory" /\ m.seen + HardDelete < now /\ n.id = m.id
        BY <1>2, <3>1, Zenon
      <4>2. m = n
        BY <4>1, OneOfAnId, Zenon
      <4> QED BY <2>2, <4>1, <4>2, Zenon
    <3> QED BY <3>1
  <2>4. n \in ToSet(f.nodes)
    BY <1>4, <2>3
  <2>5. PICK p \in DOMAIN f.nodes : n = f.nodes[p]
    BY <2>4, Zenon DEF ToSet
  <2>6. p \in DOMAIN h.nodes /\ h.nodes[p].id = n.id
    BY <1>9, <1>10, <1>12, <2>5, Zenon DEF Alike
  <2> QED BY <2>6, Zenon DEF Has
<1>15. ASSUME NoneGone(g, h) PROVE InPlace(g, h)
  <2>1. \A p \in DOMAIN f.nodes : p \in DOMAIN h.nodes /\ h.nodes[p].id = f.nodes[p].id
    BY <1>9, <1>10, <1>12, Zenon DEF Alike
  <2>2. ASSUME NEW n \in ToSet(g.nodes) PROVE Has(f, n.id)
    <3>1. PICK m \in ToSet(s) : m.id = n.id
      BY <1>12, <1>15, HasNode, Zenon DEF NoneGone
    <3>2. PICK p \in DOMAIN f.nodes : m = s[p]
      BY <1>11, <3>1, Zenon
    <3>3. f.nodes[p].id = n.id
      BY <1>9, <3>1, <3>2, Zenon DEF Alike
    <3> QED BY <3>3, Zenon DEF Has
  <2>3. InPlace(g, f)
    BY <1>3, <2>2, NodesWithout, Zenon DEF NoneGone
  <2> QED BY <2>1, <2>3, Zenon DEF InPlace
<1> QED BY <1>1, <1>12, <1>13, <1>14, <1>15, Zenon

\* What a correction leaves of a node.
Amended(old, m) ==
  m.type = old.type /\ m.cipher = old.cipher /\ m.conflict = old.conflict /\ Last(m.versions).summary = old.summary

LEMMA NodeCorrected ==
  ASSUME NEW g \in Graphs, NEW id, Has(g, id), NEW text \in Texts, NEW now \in Nat
  PROVE  \A h : h = CorrectNode(g, id, text, now) =>
           /\ h \in Graphs /\ InPlace(g, h)
           /\ \A i : Has(h, i) <=> Has(g, i)
           /\ \A m \in ToSet(h.nodes) :
                \/ m \in ToSet(g.nodes) /\ m.id # id
                \/ /\ m.id = id /\ m.seen = now
                   /\ \E old \in ToSet(g.nodes) : old.id = id /\ Amended(old, m)
<1>0. g \in Graph
  BY DEF Graphs
<1>1. PICK h : h = CorrectNode(g, id, text, now)
  BY Zenon
<1>2. PICK p \in DOMAIN g.nodes : p = Position(g, id) /\ g.nodes[p].id = id
  BY Zenon DEF Has, Position
<1>3. PICK old : old = g.nodes[p]
  BY Zenon
<1>4. old \in ToSet(g.nodes) /\ old \in Node /\ old.id = id
  BY <1>0, <1>2, <1>3, NodesOfGraph, Zenon DEF ToSet
<1>5. PICK x, v : x = [Replaced(old) EXCEPT !.cipher = None] /\ v = LastVersions(Append(old.versions, x))
  BY Zenon
<1>6. v \in Seq(Version) /\ Last(v).summary = old.summary
  <2>1. PICK y, none : y = Replaced(old) /\ none = None
    BY Zenon
  <2>2. y \in Version /\ y.summary = old.summary
    BY <1>4, <2>1, NodeFields, ReplacedType, Zenon
  <2>3. none \in Texts \cup {0, None}
    BY <2>1
  <2>4. x = [y EXCEPT !.cipher = none]
    BY <1>5, <2>1, Zenon
  <2>5. x \in Version /\ x.summary = old.summary
    BY <2>2, <2>3, <2>4 DEF Version
  <2> QED BY <1>4, <1>5, <2>5, NodeFields, LastVersionsKeep, Zenon
<1>7. PICK m, no : m = [old EXCEPT !.versions = v, !.summary = text, !.seen = now, !.confirm = no] /\ no = FALSE
  BY Zenon
<1>8. /\ m.id = old.id /\ m.type = old.type /\ m.parent = old.parent /\ m.label = old.label /\ m.summary = text
      /\ m.shown = old.shown /\ m.cipher = old.cipher /\ m.embedding = old.embedding /\ m.versions = v
      /\ m.sensitive = old.sensitive /\ m.confirm = no /\ m.conflict = old.conflict /\ m.seen = now
      /\ m.stale = old.stale /\ NodeShape(m)
  BY <1>4, <1>7 DEF Node, NodeShape
<1>9. m \in Node
  <2>1. text \in TextOf /\ no \in BOOLEAN
    BY <1>7, Zenon DEF TextOf
  <2>2. /\ m.id \in Ids /\ m.type \in NodeType /\ m.parent \in Ids \cup {NoId}
        /\ m.label \in Labels /\ m.summary \in TextOf /\ m.shown \in TextOf
    BY <1>4, <1>8, <2>1, NodeFields, Zenon
  <2>3. /\ m.cipher \in Texts \cup {0, None} /\ m.embedding \in Texts \cup {0, None} /\ m.versions \in Seq(Version)
        /\ m.sensitive \in BOOLEAN /\ m.confirm \in BOOLEAN /\ m.conflict \in BOOLEAN /\ m.seen \in Nat
        /\ m.stale \in BOOLEAN
    BY <1>4, <1>6, <1>8, <2>1, NodeFields, Zenon
  <2> QED BY <1>8, <2>2, <2>3, NodeMade, Zenon
<1>10. PICK z : z = g.nodes
  BY Zenon
<1>11. z \in [DOMAIN z -> Node] /\ p \in DOMAIN z /\ z[p] = old
  <2>1. z \in Seq(Node)
    BY <1>0, <1>10, NodesOfGraph
  <2> QED BY <1>2, <1>3, <1>10, <2>1, LenProperties
<1>12. PICK s : s = [z EXCEPT ![p] = m]
  BY Zenon
<1>13. s \in [DOMAIN z -> Node] /\ \A q \in DOMAIN z : s[q] = IF q = p THEN m ELSE z[q]
  BY <1>9, <1>11, <1>12
<1>14. s \in Seq(Node) /\ Once(s) /\ ToSet(s) = (ToSet(g.nodes) \ {g.nodes[p]}) \cup {m}
  <2>1. m.id = g.nodes[p].id
    BY <1>3, <1>8, Zenon
  <2>2. p \in DOMAIN g.nodes /\ s \in [DOMAIN g.nodes -> Node] /\ \A q \in DOMAIN g.nodes : s[q] = IF q = p THEN m ELSE g.nodes[q]
    BY <1>10, <1>11, <1>13, Zenon
  <2> QED BY <1>9, <2>1, <2>2, NodeReplaced
<1>15. h = [g EXCEPT !.nodes = s]
  <2>1. h = [g EXCEPT !.nodes[p].versions = LastVersions(Append(@, [Replaced(g.nodes[p]) EXCEPT !.cipher = None])),
                      !.nodes[p].summary = text, !.nodes[p].seen = now, !.nodes[p].confirm = FALSE]
    BY <1>1, <1>2, Zenon DEF CorrectNode
  <2> QED BY <1>0, <1>3, <1>5, <1>7, <1>10, <1>11, <1>12, <2>1 DEF Graph
<1>16. h = [nodes |-> s, edges |-> g.edges]
  BY <1>0, <1>15, GraphFields
<1>17. h \in Graphs /\ h.nodes = s
  BY <1>0, <1>14, <1>16, GraphFields, WithNodes, Zenon
<1>18. \A i : Has(h, i) <=> Has(g, i)
  <2>1. \A n \in ToSet(s) : n = m \/ n \in ToSet(g.nodes)
    BY <1>14
  <2>2. \A n \in ToSet(g.nodes) : n = old \/ n \in ToSet(s)
    BY <1>3, <1>14
  <2>3. m \in ToSet(s)
    BY <1>14
  <2> QED BY <1>4, <1>8, <1>17, <2>1, <2>2, <2>3, HasNode, Zenon
<1>19. ASSUME NEW n \in ToSet(h.nodes)
       PROVE  \/ n \in ToSet(g.nodes) /\ n.id # id
              \/ /\ n.id = id /\ n.seen = now
                 /\ \E o \in ToSet(g.nodes) : o.id = id /\ Amended(o, n)
  <2>1. n = m \/ (n \in ToSet(g.nodes) /\ n # old)
    BY <1>3, <1>14, <1>17
  <2>2. n \in ToSet(g.nodes) /\ n # old => n.id # id
    BY <1>4, OneOfAnId, Zenon
  <2>3. m.id = id /\ m.seen = now /\ Amended(old, m)
    BY <1>4, <1>6, <1>8, Zenon DEF Amended
  <2> QED BY <1>4, <2>1, <2>2, <2>3, Zenon
<1>20. InPlace(g, h)
  <2>1. \A q \in DOMAIN z : q \in DOMAIN s /\ s[q].id = z[q].id
    BY <1>8, <1>11, <1>13, Zenon
  <2> QED BY <1>10, <1>17, <2>1, Zenon DEF InPlace
<1> QED BY <1>1, <1>17, <1>18, <1>19, <1>20, Zenon

-----------------------------------------------------------------------------
(* What a consolidation makes of the graph.                                *)

\* The nodes that are in the graph with this telling.
Tellings(r, a, embeds) ==
  IF a.about = "nothing" THEN {} ELSE ToSet(FilterNoise(Prepared(r, a, embeds).nodes, Noise(a)))

LEMMA TellingsOfSources ==
  ASSUME NEW r \in Runs, NEW a \in Answers, NEW embeds
  PROVE  \A n \in Tellings(r, a, embeds) : OfASource(n)
<1>1. CASE a.about = "nothing"
  <2>1. Tellings(r, a, embeds) = {}
    BY <1>1, Zenon DEF Tellings
  <2> QED BY <2>1
<1>2. CASE a.about # "nothing"
  <2>1. Tellable(Prepared(r, a, embeds).nodes)
    BY <1>2, PreparedTellable
  <2>2. Tellings(r, a, embeds) = ToSet(FilterNoise(Prepared(r, a, embeds).nodes, Noise(a)))
    BY <1>2, Zenon DEF Tellings
  <2> QED BY <2>1, <2>2, KeptTellable, Zenon
<1> QED BY <1>1, <1>2

\* The nodes of k, all of them or what Expire leaves of them.
Left(k, h, now) ==
  /\ h \in Graphs
  /\ \A n \in ToSet(k.nodes) : n.type # "memory" \/ now <= n.seen + HardDelete => Has(h, n.id)
  /\ \A m \in ToSet(h.nodes) : \E n \in ToSet(k.nodes) : Alike(n, m)
  /\ NoneGone(k, h) => InPlace(k, h)

LEMMA AllLeft ==
  ASSUME NEW k, NEW h \in Graphs, h.nodes = k.nodes, NEW now
  PROVE  Left(k, h, now)
<1>1. \A n \in ToSet(k.nodes) : Has(h, n.id)
  BY HasNode, Zenon
<1>2. \A m \in ToSet(h.nodes) : Alike(m, m)
  BY Zenon DEF Alike
<1>3. InPlace(k, h)
  BY Zenon DEF InPlace
<1> QED BY <1>1, <1>2, <1>3, Zenon DEF Left

\* h is what a consolidation of the day leaves of g.
Stored(g, h, told, now) ==
  /\ h \in Graphs
  /\ NoneGone(g, h) => InPlace(g, h)
  /\ \A n \in told : Has(h, n.id)
  /\ \A n \in ToSet(g.nodes) : n.type # "memory" \/ now <= n.seen + HardDelete => Has(h, n.id)
  /\ \A m \in ToSet(h.nodes) :
       \/ (\A x \in told : x.id # m.id) /\ \E n \in ToSet(g.nodes) : Alike(n, m)
       \/ \E n \in told : /\ m.id = n.id /\ m.type = n.type /\ m.seen = now
                          /\ \A old \in ToSet(g.nodes) : old.id = n.id => KeptIn(old, m)

LEMMA StoredGraph ==
  ASSUME NEW g \in Graphs, NEW k, NEW h, NEW told, NEW now \in Nat, Told(g, k, told, now), Left(k, h, now)
  PROVE  Stored(g, h, told, now)
<1>1. now <= now + HardDelete
  BY GraphAssumption
<1>2. ASSUME NEW n \in told PROVE Has(h, n.id)
  <2>1. PICK m \in ToSet(k.nodes) : m.id = n.id
    BY HasNode, Zenon DEF Told
  <2>2. m.seen = now
    BY <2>1, Zenon DEF Told
  <2>3. now <= m.seen + HardDelete
    BY <1>1, <2>2, Zenon
  <2> QED BY <2>1, <2>3, Zenon DEF Left
<1>3. ASSUME NEW n \in ToSet(g.nodes), n.type # "memory" \/ now <= n.seen + HardDelete PROVE Has(h, n.id)
  <2>1. CASE \E x \in told : x.id = n.id
    BY <1>2, <2>1, Zenon
  <2>2. CASE \A x \in told : x.id # n.id
    <3>1. Has(g, n.id)
      BY HasNode, Zenon
    <3>2. PICK m \in ToSet(k.nodes) : m.id = n.id
      BY <3>1, HasNode, Zenon DEF Told
    <3>3. m \in ToSet(g.nodes)
      BY <2>2, <3>2, Zenon DEF Told
    <3>4. m = n
      BY <3>2, <3>3, OneOfAnId, Zenon
    <3> QED BY <1>3, <3>2, <3>4, Zenon DEF Left
  <2> QED BY <2>1, <2>2, Zenon
<1>4. ASSUME NEW m \in ToSet(h.nodes)
      PROVE  \/ (\A x \in told : x.id # m.id) /\ \E n \in ToSet(g.nodes) : Alike(n, m)
             \/ \E n \in told : /\ m.id = n.id /\ m.type = n.type /\ m.seen = now
                                /\ \A old \in ToSet(g.nodes) : old.id = n.id => KeptIn(old, m)
  <2>1. PICK n \in ToSet(k.nodes) : Alike(n, m)
    BY Zenon DEF Left
  <2>2. m.id = n.id /\ m.type = n.type /\ m.seen = n.seen
    BY <2>1, Zenon DEF Alike
  <2>3. \A old : KeptIn(old, n) => KeptIn(old, m)
    BY <2>1, Zenon DEF Alike, KeptIn, Lost, BothHidden, LastHas
  <2>4. CASE n \in ToSet(g.nodes) /\ \A x \in told : x.id # n.id
    BY <2>1, <2>2, <2>4, Zenon
  <2>5. ASSUME NEW x \in told, n.id = x.id, n.type = x.type, n.seen = now,
               \A old \in ToSet(g.nodes) : old.id = x.id => KeptIn(old, n)
        PROVE  /\ m.id = x.id /\ m.type = x.type /\ m.seen = now
               /\ \A old \in ToSet(g.nodes) : old.id = x.id => KeptIn(old, m)
    BY <2>2, <2>3, <2>5, Zenon
  <2> QED BY <2>4, <2>5, Zenon DEF Told
<1>5. ASSUME NoneGone(g, h) PROVE InPlace(g, h)
  <2>1. ASSUME NEW m \in ToSet(k.nodes) PROVE Has(h, m.id)
    <3>1. m \in ToSet(g.nodes) \/ \E n \in told : m.id = n.id
      BY Zenon DEF Told
    <3> QED BY <1>2, <1>5, <3>1, Zenon DEF NoneGone
  <2>2. InPlace(k, h)
    BY <2>1, Zenon DEF Left, NoneGone
  <2>3. InPlace(g, k)
    BY Zenon DEF Told
  <2> QED BY <2>2, <2>3, Zenon DEF InPlace
<1> QED BY <1>2, <1>3, <1>4, <1>5, Zenon DEF Stored, Left

-----------------------------------------------------------------------------
(* The files a consolidation writes.                                       *)

Files == [graph : Graphs, longTerm : SUBSET Runs, secure : SUBSET Runs, history : SUBSET Runs,
          profiles : [Projects -> SUBSET Runs]]

LEMMA FileTypes ==
  ASSUME NEW f \in Files
  PROVE  /\ f.graph \in Graphs /\ f.longTerm \in SUBSET Runs /\ f.secure \in SUBSET Runs /\ f.history \in SUBSET Runs
         /\ f.profiles \in [Projects -> SUBSET Runs]
BY Zenon DEF Files

\* One of the files is written; the graph stays.
Aside(f, h) == h \in Files /\ h.graph = f.graph

LEMMA HistoryWritten ==
  ASSUME NEW f \in Files, NEW r \in Runs
  PROVE  \A h : h = AppendHistory(f, r) => Aside(f, h)
<1>1. PICK x : x = f.history \cup {r}
  BY Zenon
<1>2. x \in SUBSET Runs
  BY <1>1, FileTypes
<1>3. PICK h : h = AppendHistory(f, r)
  BY Zenon
<1>4. h = [f EXCEPT !.history = x]
  BY <1>1, <1>3, Zenon DEF AppendHistory
<1>5. h \in Files /\ h.graph = f.graph
  BY <1>2, <1>4 DEF Files
<1> QED BY <1>3, <1>5, Zenon DEF Aside

LEMMA ProfileWritten ==
  ASSUME NEW f \in Files, NEW r \in Runs, NEW a
  PROVE  \A h : h = WriteProfile(f, r, a) => Aside(f, h)
<1>1. CASE ~(a.profile /\ a.label \in Projects)
  BY <1>1, Zenon DEF WriteProfile, Aside
<1>2. CASE a.profile /\ a.label \in Projects
  <2>1. PICK x, y, p : x = [y EXCEPT ![p] = @ \cup {r}] /\ y = f.profiles /\ p = a.label
    BY Zenon
  <2>2. y \in [Projects -> SUBSET Runs] /\ p \in Projects
    BY <1>2, <2>1, FileTypes, Zenon
  <2>3. x \in [Projects -> SUBSET Runs]
    BY <2>1, <2>2
  <2>4. PICK h : h = WriteProfile(f, r, a)
    BY Zenon
  <2>5. h = [f EXCEPT !.profiles = x]
    BY <1>2, <2>1, <2>4, Zenon DEF WriteProfile, MergeProfile
  <2>6. h \in Files /\ h.graph = f.graph
    BY <2>3, <2>5 DEF Files
  <2> QED BY <2>4, <2>6, Zenon DEF Aside
<1> QED BY <1>1, <1>2, Zenon

LEMMA LongTermWritten ==
  ASSUME NEW f \in Files, NEW r \in Runs, NEW a, NEW update \in SUBSET Runs
  PROVE  \A h : h = WriteLongTerm(f, r, a, update) => Aside(f, h)
<1>1. PICK h, l, s : h = WriteLongTerm(f, r, a, update) /\ l = [f EXCEPT !.longTerm = update]
                     /\ s = [f EXCEPT !.secure = update]
  BY Zenon
<1>2. l \in Files /\ l.graph = f.graph
  BY <1>1 DEF Files
<1>3. s \in Files /\ s.graph = f.graph
  BY <1>1 DEF Files
<1>4. h = f \/ h = l \/ h = s
  BY <1>1, Zenon DEF WriteLongTerm, WriteSecure
<1> QED BY <1>1, <1>2, <1>3, <1>4, Zenon DEF Aside

LEMMA NodesWritten ==
  ASSUME NEW f \in Files, NEW r \in Runs, NEW a \in Answers, NEW embeds, day \in Nat
  PROVE  \A h : h = WriteNodes(f, r, a, embeds) =>
           h \in Files /\ Told(f.graph, h.graph, Tellings(r, a, embeds), day)
<1>0. f.graph \in Graphs
  BY FileTypes
<1>1. CASE a.about = "nothing"
  <2>1. WriteNodes(f, r, a, embeds) = f
    BY <1>1, Zenon DEF WriteNodes
  <2>2. Tellings(r, a, embeds) = {}
    BY <1>1, Zenon DEF Tellings
  <2>3. Told(f.graph, f.graph, Tellings(r, a, embeds), day)
    BY <1>0, <2>2, NothingTold, Zenon
  <2> QED BY <2>1, <2>3, Zenon
<1>2. CASE a.about # "nothing"
  <2>1. PICK ns, noise : ns = Prepared(r, a, embeds).nodes /\ noise = Noise(a)
    BY Zenon
  <2>2. Tellable(ns)
    BY <1>2, <2>1, PreparedTellable
  <2>3. /\ FilterNoise(ns, noise) \in Seq(Node) /\ Once(FilterNoise(ns, noise))
        /\ \A y \in ToSet(FilterNoise(ns, noise)) : Sealed(y)
    BY <2>2, KeptTellable, Zenon
  <2>4. PICK x : x = AddNodes(f.graph, ns, noise, day)
    BY Zenon
  <2>5. Told(f.graph, x, ToSet(FilterNoise(ns, noise)), day)
    BY <1>0, <2>3, <2>4, NodesAdded, Zenon
  <2>6. PICK h : h = WriteNodes(f, r, a, embeds)
    BY Zenon
  <2>7. Tellings(r, a, embeds) = ToSet(FilterNoise(ns, noise))
    BY <1>2, <2>1, Zenon DEF Tellings
  <2>8. x \in Graphs
    BY <2>5, Zenon DEF Told
  <2>9. h = [f EXCEPT !.graph = x]
    BY <1>2, <2>1, <2>4, <2>6, Zenon DEF WriteNodes
  <2>10. h \in Files /\ h.graph = x
    BY <2>8, <2>9 DEF Files
  <2> QED BY <2>5, <2>6, <2>7, <2>10, Zenon
<1> QED BY <1>1, <1>2, Zenon

LEMMA EdgesWritten ==
  ASSUME NEW f \in Files, NEW r \in Runs, NEW a \in Answers
  PROVE  \A h : h = WriteEdges(f, r, a) => h \in Files /\ h.graph.nodes = f.graph.nodes
<1>0. f.graph \in Graphs
  BY FileTypes
<1>1. CASE a.about = "nothing"
  BY <1>1, Zenon DEF WriteEdges
<1>2. CASE a.about # "nothing"
  <2>1. PICK es : es = Prepared(r, a, FALSE).edges
    BY Zenon
  <2>2. es \in SUBSET (Ids \X Ids)
    BY <1>2, <2>1, PreparedTellable, Zenon
  <2>3. PICK x : x = AddEdges(f.graph, es)
    BY Zenon
  <2>4. x \in Graphs /\ x.nodes = f.graph.nodes
    BY <1>0, <2>2, <2>3, EdgesAdded, Zenon
  <2>5. PICK h : h = WriteEdges(f, r, a)
    BY Zenon
  <2>6. h = [f EXCEPT !.graph = x]
    BY <1>2, <2>1, <2>3, <2>5, Zenon DEF WriteEdges
  <2>7. h \in Files /\ h.graph = x
    BY <2>4, <2>6 DEF Files
  <2> QED BY <2>4, <2>5, <2>7, Zenon
<1> QED BY <1>1, <1>2, Zenon

\* Whatever of the files is written, from the graph on.
LEMMA FilesWritten ==
  ASSUME files \in Files, NEW r \in Runs, NEW a \in Answers, NEW embeds, day \in Nat,
         NEW update \in SUBSET Runs, NEW n \in 1 .. 6
  PROVE  \A h : h = Written(r, a, embeds, update, n) =>
           h \in Files /\ Stored(files.graph, h.graph, Tellings(r, a, embeds), day)
<1>1. PICK told : told = Tellings(r, a, embeds)
  BY Zenon
<1>2. PICK f1 : f1 = WriteNodes(files, r, a, embeds)
  BY Zenon
<1>3. f1 \in Files /\ Told(files.graph, f1.graph, told, day)
  BY <1>1, <1>2, NodesWritten
<1>4. PICK f2 : f2 = IF n < 2 THEN f1 ELSE WriteEdges(f1, r, a)
  BY Zenon
<1>5. f2 \in Files /\ f2.graph.nodes = f1.graph.nodes
  <2>1. PICK e : e = WriteEdges(f1, r, a)
    BY Zenon
  <2>2. f1 \in Files
    BY <1>3, Zenon
  <2>3. e \in Files /\ e.graph.nodes = f1.graph.nodes
    BY <2>1, <2>2, EdgesWritten
  <2> QED BY <1>4, <2>1, <2>2, <2>3, Zenon
<1>6. PICK f3 : f3 = IF n < 3 THEN f2 ELSE WriteProfile(f2, r, a)
  BY Zenon
<1>7. f3 \in Files /\ f3.graph = f2.graph
  BY <1>5, <1>6, ProfileWritten DEF Aside
<1>8. PICK f4 : f4 = IF n < 4 THEN f3 ELSE WriteHistory(f3, r)
  BY Zenon
<1>9. f4 \in Files /\ f4.graph = f2.graph
  BY <1>7, <1>8, HistoryWritten, Zenon DEF Aside, WriteHistory
<1>10. PICK f5 : f5 = IF n < 5 THEN f4 ELSE WriteLongTerm(f4, r, a, update)
  BY Zenon
<1>11. f5 \in Files /\ f5.graph = f2.graph
  <2>1. PICK e : e = WriteLongTerm(f4, r, a, update)
    BY Zenon
  <2>2. f4 \in Files /\ f4.graph = f2.graph
    BY <1>9, Zenon
  <2>3. Aside(f4, e)
    BY <2>1, <2>2, LongTermWritten, Zenon
  <2> QED BY <1>10, <2>1, <2>2, <2>3, Zenon DEF Aside
<1>12. ~(n < 1)
  OBVIOUS
<1>13. Written(r, a, embeds, update, n) = IF n < 6 THEN f5 ELSE [f5 EXCEPT !.graph = Expire(@, day)]
  BY <1>2, <1>4, <1>6, <1>8, <1>10, <1>12, Zenon DEF Written
<1>14. f5.graph \in Graphs /\ files.graph \in Graphs
  BY <1>11, FileTypes
<1>15. Left(f1.graph, f5.graph, day)
  BY <1>5, <1>11, <1>14, AllLeft, Zenon
<1>16. PICK x : x = Expire(f5.graph, day)
  BY Zenon
<1>17. Left(f1.graph, x, day)
  <2>1. Left(f5.graph, x, day)
    BY <1>14, <1>16, NodesExpired, Zenon DEF Left
  <2>2. f5.graph.nodes = f1.graph.nodes
    BY <1>5, <1>11, Zenon
  <2> QED BY <2>1, <2>2, Zenon DEF Left, NoneGone, InPlace
<1>18. x \in Graphs
  BY <1>17, Zenon DEF Left
<1>19. PICK f6 : f6 = [f5 EXCEPT !.graph = x]
  BY Zenon
<1>20. f6 \in Files /\ f6.graph = x
  BY <1>11, <1>18, <1>19 DEF Files
<1>21. Written(r, a, embeds, update, n) = f5 \/ Written(r, a, embeds, update, n) = f6
  BY <1>13, <1>16, <1>19, Zenon
<1>22. Stored(files.graph, f5.graph, told, day) /\ Stored(files.graph, f6.graph, told, day)
  BY <1>3, <1>14, <1>15, <1>17, <1>20, StoredGraph, Zenon
<1> QED BY <1>1, <1>11, <1>20, <1>21, <1>22, Zenon

-----------------------------------------------------------------------------
(* The invariant.                                                          *)

\* A node was last seen on the day of its last telling, and memories are about
\* sources: what Expire goes by is what the users were told.
TellingsDated ==
  \A n \in ToSet(files.graph.nodes) :
    written[n.id] # None /\ n.seen = written[n.id] /\ OfASource(n)

RunTypes == [Runs -> [pc : {"idle", "model", "embed", "done"}, read : SUBSET Runs, answer : Answers \cup {NoAnswer}]]

IndexTypes == DOMAIN index \subseteq Nat /\ index \in [DOMAIN index -> Ids] /\ shrunk \in BOOLEAN

CountTypes ==
  /\ failures \in 0 .. MaxFailures - 1
  /\ day \in 0 .. MaxTime
  /\ corrected \subseteq Corrections
  /\ upsets \in 0 .. MaxUpsets
  /\ amended \in [Ids -> Corrections \cup {None}]
  /\ written \in [Ids -> 0 .. MaxTime \cup {None}]

\* IndexedIsFound, position by position.
IndexHolds ==
  ~shrunk => \A p \in DOMAIN index :
               p \in DOMAIN files.graph.nodes /\ files.graph.nodes[p].id = index[p]

MemoryInv ==
  /\ files \in Files /\ run \in RunTypes /\ CountTypes
  /\ IndexTypes /\ IndexHolds
  /\ TellingsDated /\ KeptWhileFresh

\* What a step may not do to the texts of the graph.
KeptStep ==
  \A old \in ToSet(files.graph.nodes) : \A n \in ToSet(files'.graph.nodes) :
    n.id = old.id =>
      LET lost == {old.summary, old.cipher} \ {n.summary, n.cipher, Hidden, None}
      IN /\ old.conflict => n.conflict
         /\ \/ lost = {}
            \/ old.summary = Hidden /\ n.summary = Hidden
            \/ /\ lost \subseteq {Last(n.versions).summary, Last(n.versions).cipher}
               /\ n.conflict \/ corrected' # corrected

LEMMA KeptAll ==
  ASSUME \A old \in ToSet(files.graph.nodes) : \A n \in ToSet(files'.graph.nodes) : n.id = old.id => KeptIn(old, n)
  PROVE  KeptStep
BY Zenon DEF KeptStep, KeptIn, Lost, BothHidden, LastHas

LEMMA KeptByCorrection ==
  ASSUME corrected' # corrected,
         \A old \in ToSet(files.graph.nodes) : \A n \in ToSet(files'.graph.nodes) :
           n.id = old.id => (old.conflict => n.conflict) /\ LastHas(n, Lost(old, n))
  PROVE  KeptStep
BY Zenon DEF KeptStep, Lost, LastHas

\* A node that keeps its texts and its mark loses nothing.
LEMMA NothingLost ==
  ASSUME NEW old, NEW n, n.summary = old.summary, n.cipher = old.cipher, n.conflict = old.conflict
  PROVE  Lost(old, n) = {} /\ KeptIn(old, n)
<1>1. Lost(old, n) = {}
  BY DEF Lost
<1> QED BY <1>1, Zenon DEF KeptIn

LEMMA InvTypes ==
  ASSUME MemoryInv
  PROVE  TypeOK
<1>1. /\ files.graph \in Graphs /\ files.longTerm \in SUBSET Runs /\ files.secure \in SUBSET Runs
      /\ files.history \in SUBSET Runs /\ files.profiles \in [Projects -> SUBSET Runs]
  BY FileTypes, Zenon DEF MemoryInv
<1>2. files.graph \in Graph
  BY <1>1, Zenon DEF Graphs
<1>3. files.longTerm \subseteq Runs /\ files.secure \subseteq Runs /\ files.history \subseteq Runs
  BY <1>1
<1> QED BY <1>1, <1>2, <1>3, Zenon DEF MemoryInv, TypeOK, CountTypes, IndexTypes, RunTypes

LEMMA DayType ==
  ASSUME MemoryInv
  PROVE  /\ day \in Nat /\ day \in 0 .. MaxTime /\ MaxTime \in Nat /\ HardDelete \in Nat /\ None \notin Nat
         /\ \A i \in Ids : written[i] # None => written[i] \in Nat
BY StoreAssumption, GraphAssumption DEF MemoryInv, CountTypes, None

LEMMA GraphType ==
  ASSUME MemoryInv
  PROVE  /\ files.graph \in Graphs /\ files.longTerm \in SUBSET Runs
         /\ \A n \in ToSet(files.graph.nodes) : n.id \in Ids /\ n.seen \in Nat
<1>1. files.graph \in Graphs /\ files.longTerm \in SUBSET Runs
  BY FileTypes, Zenon DEF MemoryInv
<1>2. files.graph \in Graph
  BY <1>1, Zenon DEF Graphs
<1> QED BY <1>1, <1>2, NodesOfGraph, NodeFields, Zenon

-----------------------------------------------------------------------------
(* The graph in a step.                                                    *)

LEMMA GraphUntouched ==
  ASSUME MemoryInv, files'.graph = files.graph, written' = written, day' \in Nat, day <= day'
  PROVE  TellingsDated' /\ KeptWhileFresh' /\ KeptStep
<1>1. TellingsDated'
  BY Zenon DEF MemoryInv, TellingsDated
<1>2. ASSUME NEW id \in Ids, written[id] # None, id.name \notin Sources \/ day' <= written[id] + HardDelete
      PROVE  Has(files.graph, id)
  <2>1. day' <= written[id] + HardDelete => day <= written[id] + HardDelete
    BY <1>2, DayType
  <2> QED BY <1>2, <2>1, Zenon DEF MemoryInv, KeptWhileFresh
<1>3. KeptWhileFresh'
  BY <1>2, Zenon DEF KeptWhileFresh
<1>4. ASSUME NEW old \in ToSet(files.graph.nodes), NEW n \in ToSet(files.graph.nodes), n.id = old.id
      PROVE  KeptIn(old, n)
  <2>1. n = old
    BY <1>4, GraphType, OneOfAnId, Zenon
  <2> QED BY <2>1, NothingLost, Zenon
<1>5. KeptStep
  BY <1>4, KeptAll, Zenon
<1> QED BY <1>1, <1>3, <1>5

LEMMA GraphStored ==
  ASSUME MemoryInv, NEW told, \A n \in told : OfASource(n), Stored(files.graph, files'.graph, told, day), day' = day,
         written' = [i \in Ids |-> IF i \in {n.id : n \in told} THEN day ELSE written[i]]
  PROVE  TellingsDated' /\ KeptWhileFresh' /\ KeptStep
<1>0. day \in Nat /\ day # None /\ \A n \in ToSet(files.graph.nodes) : n.id \in Ids
  BY DayType, GraphType
<1>1. PICK g, h : g = files.graph /\ h = files'.graph
  BY Zenon
<1>2. g \in Graphs /\ h \in Graphs
  BY <1>1, GraphType, Zenon DEF Stored
<1>3. \A n \in ToSet(h.nodes) : n.id \in Ids
  BY <1>2, NodesOfGraph, NodeFields, Zenon DEF Graphs
<1>4. \A i \in Ids : (\E n \in told : n.id = i) => written'[i] = day
  BY Zenon
<1>5. \A i \in Ids : (\A n \in told : n.id # i) => written'[i] = written[i]
  BY Zenon
<1>6. ASSUME NEW m \in ToSet(h.nodes)
      PROVE  written'[m.id] # None /\ m.seen = written'[m.id] /\ OfASource(m)
  <2>1. m.id \in Ids
    BY <1>3
  <2>2. CASE (\A x \in told : x.id # m.id) /\ \E n \in ToSet(g.nodes) : Alike(n, m)
    <3>1. PICK n \in ToSet(g.nodes) : Alike(n, m)
      BY <2>2, Zenon
    <3>2. written[n.id] # None /\ n.seen = written[n.id] /\ OfASource(n)
      BY <1>1, <3>1, Zenon DEF MemoryInv, TellingsDated
    <3>3. written'[m.id] = written[m.id]
      BY <1>5, <2>1, <2>2, Zenon
    <3> QED BY <3>1, <3>2, <3>3, Zenon DEF Alike, OfASource
  <2>3. ASSUME NEW n \in told, m.id = n.id, m.type = n.type, m.seen = day
        PROVE  written'[m.id] # None /\ m.seen = written'[m.id] /\ OfASource(m)
    <3>1. written'[m.id] = day
      BY <1>4, <2>1, <2>3, Zenon
    <3> QED BY <1>0, <2>3, <3>1, Zenon DEF OfASource
  <2> QED BY <1>1, <2>2, <2>3, Zenon DEF Stored
<1>7. TellingsDated'
  BY <1>1, <1>6, Zenon DEF TellingsDated
<1>8. ASSUME NEW id \in Ids, written'[id] # None, id.name \notin Sources \/ day <= written'[id] + HardDelete
      PROVE  Has(h, id)
  <2>1. CASE \E n \in told : n.id = id
    BY <1>1, <2>1, Zenon DEF Stored
  <2>2. CASE \A n \in told : n.id # id
    <3>1. written'[id] = written[id]
      BY <1>5, <2>2, Zenon
    <3>2. Has(g, id)
      BY <1>1, <1>8, <3>1, Zenon DEF MemoryInv, KeptWhileFresh
    <3>3. PICK n \in ToSet(g.nodes) : n.id = id
      BY <3>2, HasNode, Zenon
    <3>4. n.seen = written[id] /\ OfASource(n)
      BY <1>1, <3>3, Zenon DEF MemoryInv, TellingsDated
    <3>5. n.type # "memory" \/ day <= n.seen + HardDelete
      BY <1>8, <3>1, <3>3, <3>4, Zenon DEF OfASource
    <3> QED BY <1>1, <3>3, <3>5, Zenon DEF Stored
  <2> QED BY <2>1, <2>2, Zenon
<1>9. KeptWhileFresh'
  BY <1>1, <1>8, Zenon DEF KeptWhileFresh
<1>10. ASSUME NEW old \in ToSet(g.nodes), NEW m \in ToSet(h.nodes), m.id = old.id
       PROVE  KeptIn(old, m)
  <2>1. ASSUME NEW n \in ToSet(g.nodes), Alike(n, m) PROVE KeptIn(old, m)
    <3>1. n.id = old.id
      BY <1>10, <2>1, Zenon DEF Alike
    <3>2. n = old
      BY <1>2, <3>1, OneOfAnId, Zenon
    <3> QED BY <2>1, <3>2, NothingLost, Zenon DEF Alike
  <2>2. ASSUME NEW n \in told, m.id = n.id, \A o \in ToSet(g.nodes) : o.id = n.id => KeptIn(o, m)
        PROVE  KeptIn(old, m)
    BY <1>10, <2>2, Zenon
  <2> QED BY <1>1, <2>1, <2>2, Zenon DEF Stored
<1>11. KeptStep
  BY <1>1, <1>10, KeptAll, Zenon
<1> QED BY <1>7, <1>9, <1>11

LEMMA GraphDeleted ==
  ASSUME MemoryInv, NEW id \in Ids, files'.graph = DeleteNode(files.graph, id),
         written' = [written EXCEPT ![id] = None], day' = day
  PROVE  /\ TellingsDated' /\ KeptWhileFresh' /\ KeptStep /\ files'.graph \in Graphs
         /\ NoneGone(files.graph, files'.graph) => InPlace(files.graph, files'.graph)
<1>1. PICK g, h : g = files.graph /\ h = files'.graph
  BY Zenon
<1>2. g \in Graphs /\ \A n \in ToSet(g.nodes) : n.id \in Ids
  BY <1>1, GraphType, Zenon
<1>3. h = Without(g, {id})
  BY <1>1, Zenon DEF DeleteNode
<1>4. /\ h \in Graphs /\ ToSet(h.nodes) = {n \in ToSet(g.nodes) : n.id \notin {id}}
      /\ NoneGone(g, h) => InPlace(g, h)
  BY <1>2, <1>3, NodesWithout, Zenon
<1>5. \A n \in ToSet(h.nodes) : n \in ToSet(g.nodes) /\ n.id # id
  BY <1>4
<1>6. \A n \in ToSet(g.nodes) : n.id # id => n \in ToSet(h.nodes)
  BY <1>4
<1>7. written' \in [Ids -> 0 .. MaxTime \cup {None}] /\ written'[id] = None /\ \A i \in Ids : i # id => written'[i] = written[i]
  BY DEF MemoryInv, CountTypes
<1>8. TellingsDated'
  <2>1. ASSUME NEW n \in ToSet(h.nodes) PROVE written'[n.id] # None /\ n.seen = written'[n.id] /\ OfASource(n)
    <3>1. n \in ToSet(g.nodes) /\ n.id # id /\ n.id \in Ids
      BY <1>2, <1>5
    <3> QED BY <1>1, <1>7, <3>1, Zenon DEF MemoryInv, TellingsDated
  <2> QED BY <1>1, <2>1, Zenon DEF TellingsDated
<1>9. KeptWhileFresh'
  <2>1. ASSUME NEW i \in Ids, written'[i] # None, i.name \notin Sources \/ day <= written'[i] + HardDelete
        PROVE  Has(h, i)
    <3>1. i # id /\ written'[i] = written[i]
      BY <1>7, <2>1, Zenon
    <3>2. Has(g, i)
      BY <1>1, <2>1, <3>1, Zenon DEF MemoryInv, KeptWhileFresh
    <3> QED BY <1>6, <3>1, <3>2, HasNode, Zenon
  <2> QED BY <1>1, <2>1, Zenon DEF KeptWhileFresh
<1>10. KeptStep
  <2>1. ASSUME NEW old \in ToSet(g.nodes), NEW n \in ToSet(h.nodes), n.id = old.id
        PROVE  KeptIn(old, n)
    <3>1. n = old
      BY <1>2, <1>5, <2>1, OneOfAnId, Zenon
    <3> QED BY <3>1, NothingLost, Zenon
  <2> QED BY <1>1, <2>1, KeptAll, Zenon
<1> QED BY <1>1, <1>4, <1>8, <1>9, <1>10, Zenon

LEMMA GraphCorrected ==
  ASSUME MemoryInv, NEW id \in Ids, NEW c \in Corrections, Has(files.graph, id), corrected' # corrected,
         files'.graph = CorrectNode(files.graph, id, c, day),
         written' = [written EXCEPT ![id] = day], day' = day
  PROVE  /\ TellingsDated' /\ KeptWhileFresh' /\ KeptStep /\ files'.graph \in Graphs
         /\ NoneGone(files.graph, files'.graph) => InPlace(files.graph, files'.graph)
<1>1. PICK g, h : g = files.graph /\ h = files'.graph
  BY Zenon
<1>2. g \in Graphs /\ day \in Nat /\ day # None /\ c \in Texts /\ \A n \in ToSet(g.nodes) : n.id \in Ids
  BY <1>1, GraphType, DayType, StoreAssumption
<1>3. /\ h \in Graphs /\ InPlace(g, h)
      /\ \A i : Has(h, i) <=> Has(g, i)
      /\ \A m \in ToSet(h.nodes) :
           \/ m \in ToSet(g.nodes) /\ m.id # id
           \/ /\ m.id = id /\ m.seen = day
              /\ \E old \in ToSet(g.nodes) : old.id = id /\ Amended(old, m)
  <2>1. h = CorrectNode(g, id, c, day) /\ Has(g, id) /\ g \in Graphs /\ c \in Texts /\ day \in Nat
    BY <1>1, <1>2, Zenon
  <2> QED BY <2>1, NodeCorrected
<1>4. written'[id] = day /\ \A i \in Ids : i # id => written'[i] = written[i]
  BY DEF MemoryInv, CountTypes
<1>5. ASSUME NEW m \in ToSet(h.nodes)
      PROVE  written'[m.id] # None /\ m.seen = written'[m.id] /\ OfASource(m)
  <2>1. CASE m \in ToSet(g.nodes) /\ m.id # id
    BY <1>1, <1>2, <1>4, <2>1, Zenon DEF MemoryInv, TellingsDated
  <2>2. CASE ~(m \in ToSet(g.nodes) /\ m.id # id)
    <3>1. m.id = id /\ m.seen = day
      BY <1>3, <2>2, Zenon
    <3>2. PICK old \in ToSet(g.nodes) : old.id = id /\ m.type = old.type
      BY <1>3, <2>2, Zenon DEF Amended
    <3>3. OfASource(old)
      BY <1>1, <3>2, Zenon DEF MemoryInv, TellingsDated
    <3>4. OfASource(m)
      BY <3>1, <3>2, <3>3, Zenon DEF OfASource
    <3>5. written'[m.id] = day
      BY <1>4, <3>1
    <3> QED BY <1>2, <3>1, <3>4, <3>5, Zenon
  <2> QED BY <2>1, <2>2
<1>6. TellingsDated'
  BY <1>1, <1>5, Zenon DEF TellingsDated
<1>7. KeptWhileFresh'
  <2>1. ASSUME NEW i \in Ids, written'[i] # None, i.name \notin Sources \/ day <= written'[i] + HardDelete
        PROVE  Has(h, i)
    <3>1. CASE i = id
      BY <1>1, <1>3, <3>1, Zenon
    <3>2. CASE i # id
      <4>1. Has(g, i)
        BY <1>1, <1>4, <2>1, <3>2, Zenon DEF MemoryInv, KeptWhileFresh
      <4> QED BY <1>3, <4>1, Zenon
    <3> QED BY <3>1, <3>2
  <2> QED BY <1>1, <2>1, Zenon DEF KeptWhileFresh
<1>8. ASSUME NEW old \in ToSet(g.nodes), NEW m \in ToSet(h.nodes), m.id = old.id
      PROVE  (old.conflict => m.conflict) /\ LastHas(m, Lost(old, m))
  <2>1. CASE m \in ToSet(g.nodes) /\ m.id # id
    <3>1. m = old
      BY <1>2, <1>8, <2>1, OneOfAnId, Zenon
    <3>2. Lost(old, m) = {}
      BY <3>1, NothingLost, Zenon
    <3>3. LastHas(m, Lost(old, m))
      BY <3>2 DEF LastHas
    <3> QED BY <3>1, <3>3, Zenon
  <2>2. ASSUME m.id = id, NEW o \in ToSet(g.nodes), o.id = id, Amended(o, m)
        PROVE  (old.conflict => m.conflict) /\ LastHas(m, Lost(old, m))
    <3>1. o = old
      BY <1>2, <1>8, <2>2, OneOfAnId, Zenon
    <3>2. m.cipher = old.cipher /\ m.conflict = old.conflict /\ Last(m.versions).summary = old.summary
      BY <2>2, <3>1, Zenon DEF Amended
    <3>3. LastHas(m, Lost(old, m))
      BY <3>2 DEF LastHas, Lost
    <3> QED BY <3>2, <3>3, Zenon
  <2> QED BY <1>3, <2>1, <2>2, Zenon
<1>9. KeptStep
  BY <1>1, <1>8, KeptByCorrection, Zenon
<1> QED BY <1>1, <1>3, <1>6, <1>7, <1>9, Zenon

-----------------------------------------------------------------------------
(* The index in a step.                                                    *)

IndexGood == IndexTypes /\ IndexHolds

LEMMA IndexUntouched ==
  ASSUME MemoryInv, files'.graph = files.graph, UNCHANGED <<index, shrunk>>
  PROVE  IndexGood'
BY Zenon DEF MemoryInv, IndexGood, IndexTypes, IndexHolds

\* The history tells when a node is gone; none gone, and all are in their places.
LEMMA IndexOverChange ==
  ASSUME MemoryInv, Shrinks, index' = index,
         NoneGone(files.graph, files'.graph) => InPlace(files.graph, files'.graph)
  PROVE  IndexGood'
<1>1. shrunk' \in BOOLEAN
  BY Zenon DEF MemoryInv, IndexTypes, Shrinks
<1>2. ASSUME ~shrunk' PROVE \A p \in DOMAIN index :
                              p \in DOMAIN files'.graph.nodes /\ files'.graph.nodes[p].id = index[p]
  <2>1. ~shrunk /\ \A id \in Ids : Has(files.graph, id) => Has(files'.graph, id)
    BY <1>2, Zenon DEF Shrinks
  <2>2. NoneGone(files.graph, files'.graph)
    <3>1. ASSUME NEW n \in ToSet(files.graph.nodes) PROVE Has(files'.graph, n.id)
      <4>1. n.id \in Ids /\ Has(files.graph, n.id)
        BY GraphType, HasNode, Zenon
      <4> QED BY <2>1, <4>1, Zenon
    <3> QED BY <3>1, Zenon DEF NoneGone
  <2>3. InPlace(files.graph, files'.graph)
    BY <2>2, Zenon
  <2> QED BY <2>1, <2>3, Zenon DEF MemoryInv, IndexHolds, InPlace
<1> QED BY <1>1, <1>2, Zenon DEF MemoryInv, IndexGood, IndexTypes, IndexHolds

LEMMA NoIndexGood ==
  ASSUME index' = NoIndex, shrunk' \in BOOLEAN
  PROVE  IndexGood'
<1>1. PICK i : i = NoIndex
  BY Zenon
<1>2. DOMAIN i = {} /\ i = [p \in DOMAIN i |-> i[p]]
  BY <1>1 DEF NoIndex
<1>3. DOMAIN i \subseteq Nat /\ i \in [DOMAIN i -> Ids] /\ \A p \in DOMAIN i : FALSE
  BY <1>2
<1>4. index' = i
  BY <1>1, Zenon
<1> QED BY <1>3, <1>4, Zenon DEF IndexGood, IndexTypes, IndexHolds

\* A new index has the nodes of the graph at their positions.
LEMMA IndexBuilt ==
  ASSUME MemoryInv, files' = files, index' = BuildIndex(files.graph), shrunk' \in BOOLEAN
  PROVE  IndexGood'
<1>1. PICK z, E : z = files.graph.nodes /\ E = HasEmbedding(files.graph)
  BY Zenon
<1>2. z \in Seq(Node)
  BY <1>1, GraphType DEF Graphs, Graph
<1>3. /\ DOMAIN z \subseteq Nat /\ \A p \in DOMAIN z : z[p].id \in Ids
  <2>1. DOMAIN z = 1 .. Len(z) /\ Len(z) \in Nat /\ \A p \in DOMAIN z : z[p] \in Node
    BY <1>2, LenProperties, ElementOfSeq
  <2>2. DOMAIN z \subseteq Nat
    BY <2>1
  <2> QED BY <2>1, <2>2, NodeFields, Zenon
<1>4. E \subseteq DOMAIN z
  BY <1>1 DEF HasEmbedding
<1>5. PICK i : i = [p \in E |-> z[p].id]
  BY Zenon
<1>6. DOMAIN i \subseteq Nat /\ i \in [DOMAIN i -> Ids] /\ \A p \in DOMAIN i : p \in DOMAIN z /\ z[p].id = i[p]
  BY <1>3, <1>4, <1>5
<1>7. index' = NoIndex \/ index' = i
  BY <1>1, <1>5, Zenon DEF BuildIndex
<1>8. files'.graph.nodes = z
  BY <1>1, Zenon
<1>9. CASE index' = i
  BY <1>6, <1>8, <1>9, Zenon DEF IndexGood, IndexTypes, IndexHolds
<1> QED BY <1>7, <1>9, NoIndexGood, Zenon

-----------------------------------------------------------------------------
(* The consolidations in a step.                                           *)

LEMMA RunFields ==
  ASSUME NEW f \in RunTypes, NEW r \in Runs
  PROVE  f[r].pc \in {"idle", "model", "embed", "done"} /\ f[r].read \in SUBSET Runs
         /\ f[r].answer \in Answers \cup {NoAnswer}
BY DEF RunTypes

\* The states of a consolidation.
RunState == [pc : {"idle", "model", "embed", "done"}, read : SUBSET Runs, answer : Answers \cup {NoAnswer}]

LEMMA RunStateMade ==
  ASSUME NEW pc \in {"idle", "model", "embed", "done"}, NEW read \in SUBSET Runs, NEW answer \in Answers \cup {NoAnswer}
  PROVE  [pc |-> pc, read |-> read, answer |-> answer] \in RunState
<1>1. PICK P, R, A : P = {"idle", "model", "embed", "done"} /\ R = SUBSET Runs /\ A = Answers \cup {NoAnswer}
  BY Zenon
<1>2. pc \in P /\ read \in R /\ answer \in A
  BY <1>1, Zenon
<1>3. [pc |-> pc, read |-> read, answer |-> answer] \in [pc : P, read : R, answer : A]
  BY <1>2
<1> QED BY <1>1, <1>3, Zenon DEF RunState

LEMMA RunStateShape ==
  ASSUME NEW x \in RunState
  PROVE  x = [pc |-> x.pc, read |-> x.read, answer |-> x.answer]
<1>1. PICK P, R, A : P = {"idle", "model", "embed", "done"} /\ R = SUBSET Runs /\ A = Answers \cup {NoAnswer}
  BY Zenon
<1>2. x \in [pc : P, read : R, answer : A]
  BY <1>1, Zenon DEF RunState
<1> QED BY <1>2

LEMMA IdleDone ==
  \A d : d = [IdleRun EXCEPT !.pc = "done"] => d \in RunState
<1>1. PICK d : d = [IdleRun EXCEPT !.pc = "done"]
  BY Zenon
<1>2. PICK no : no = NoAnswer
  BY Zenon
<1>3. IdleRun = [pc |-> "idle", read |-> {}, answer |-> no]
  BY <1>2, Zenon DEF IdleRun
<1>4. d = [pc |-> "done", read |-> {}, answer |-> no]
  BY <1>1, <1>3
<1>5. "done" \in {"idle", "model", "embed", "done"} /\ {} \in SUBSET Runs /\ no \in Answers \cup {NoAnswer}
  BY <1>2
<1>6. d \in RunState
  BY <1>4, <1>5, RunStateMade, Zenon
<1> QED BY <1>1, <1>6, Zenon

LEMMA OneRun ==
  ASSUME run \in RunTypes, NEW r \in Runs, NEW d \in RunState, run' = [run EXCEPT ![r] = d]
  PROVE  run' \in RunTypes
<1>1. run \in [Runs -> RunState]
  BY Zenon DEF RunTypes, RunState
<1>2. run' \in [Runs -> RunState]
  BY <1>1
<1> QED BY <1>2, Zenon DEF RunTypes, RunState

LEMMA RunDone ==
  ASSUME MemoryInv, NEW r \in Runs, Done(r)
  PROVE  run' \in RunTypes
<1>1. PICK d : d = [IdleRun EXCEPT !.pc = "done"]
  BY Zenon
<1>2. run' = [run EXCEPT ![r] = d] /\ d \in RunState
  BY <1>1, IdleDone, Zenon DEF Done
<1> QED BY <1>2, OneRun DEF MemoryInv

LEMMA RunsRestarted ==
  ASSUME MemoryInv, Restarts
  PROVE  run' \in RunTypes
<1>1. PICK d : d = [IdleRun EXCEPT !.pc = "done"]
  BY Zenon
<1>2. run' = [r \in Runs |-> IF run[r].pc = "idle" THEN run[r] ELSE d]
  BY <1>1, Zenon DEF Restarts
<1>3. d \in RunState
  BY <1>1, IdleDone, Zenon
<1>4. run \in [Runs -> RunState]
  BY Zenon DEF MemoryInv, RunTypes, RunState
<1>5. run' \in [Runs -> RunState]
  BY <1>2, <1>3, <1>4
<1> QED BY <1>5, Zenon DEF RunTypes, RunState

\* Everything a step has to keep.
StepGood == MemoryInv' /\ KeptStep

LEMMA NothingWritten ==
  ASSUME MemoryInv, files' \in Files, files'.graph = files.graph, run' \in RunTypes, IndexGood',
         failures' \in 0 .. MaxFailures - 1, day' \in 0 .. MaxTime, day <= day',
         upsets' \in 0 .. MaxUpsets, UNCHANGED <<corrected, amended, written>>
  PROVE  StepGood
<1>1. day' \in Nat
  BY DayType
<1>2. TellingsDated' /\ KeptWhileFresh' /\ KeptStep
  BY <1>1, GraphUntouched
<1>3. CountTypes'
  BY DEF MemoryInv, CountTypes
<1> QED BY <1>2, <1>3, Zenon DEF StepGood, MemoryInv, IndexGood

\* A consolidation writes its files, or the first of them.
LEMMA SomethingWritten ==
  ASSUME MemoryInv, NEW r \in Runs, NEW a \in Answers, NEW embeds, NEW update \in SUBSET Runs, NEW n \in 1 .. 6,
         files' \in Files, files'.graph = Written(r, a, embeds, update, n).graph,
         Tells(r, a, embeds), run' \in RunTypes, (index' = index /\ Shrinks) \/ (index' = NoIndex /\ shrunk' \in BOOLEAN),
         failures' \in 0 .. MaxFailures - 1, upsets' \in 0 .. MaxUpsets, UNCHANGED <<day, corrected>>
  PROVE  StepGood
<1>1. PICK told : told = Tellings(r, a, embeds)
  BY Zenon
<1>2. PICK w : w = Written(r, a, embeds, update, n)
  BY Zenon
<1>3. files \in Files /\ day \in Nat /\ day \in 0 .. MaxTime
  BY DayType DEF MemoryInv
<1>4. Stored(files.graph, w.graph, told, day)
  BY <1>1, <1>2, <1>3, FilesWritten
<1>5. PICK ids : ids = IF a.about = "nothing" THEN {}
                       ELSE {x.id : x \in ToSet(FilterNoise(Prepared(r, a, embeds).nodes, Noise(a)))}
  BY Zenon
<1>6. /\ written' = [i \in Ids |-> IF i \in ids THEN day ELSE written[i]]
      /\ amended' = [i \in Ids |-> IF i \in ids THEN None ELSE amended[i]]
  BY <1>5, Zenon DEF Tells
<1>7. ids = {x.id : x \in told}
  <2>1. CASE a.about = "nothing"
    <3>1. told = {} /\ ids = {}
      BY <1>1, <1>5, <2>1, Zenon DEF Tellings
    <3> QED BY <3>1
  <2>2. CASE a.about # "nothing"
    BY <1>1, <1>5, <2>2, Zenon DEF Tellings
  <2> QED BY <2>1, <2>2
<1>8. \A x \in told : OfASource(x)
  BY <1>1, TellingsOfSources, Zenon
<1>9. written' = [i \in Ids |-> IF i \in {x.id : x \in told} THEN day ELSE written[i]]
  BY <1>6, <1>7, Zenon
<1>10. Stored(files.graph, files'.graph, told, day)
  BY <1>2, <1>4, Zenon
<1>11. TellingsDated' /\ KeptWhileFresh' /\ KeptStep
  BY <1>8, <1>9, <1>10, GraphStored
<1>12. IndexGood'
  <2>1. NoneGone(files.graph, files'.graph) => InPlace(files.graph, files'.graph)
    BY <1>10, Zenon DEF Stored
  <2> QED BY <2>1, IndexOverChange, NoIndexGood, Zenon
<1>13. CountTypes'
  <2>1. written' \in [Ids -> 0 .. MaxTime \cup {None}]
    BY <1>3, <1>6 DEF MemoryInv, CountTypes
  <2>2. amended' \in [Ids -> Corrections \cup {None}]
    BY <1>6 DEF MemoryInv, CountTypes
  <2>3. day' \in 0 .. MaxTime /\ corrected' \subseteq Corrections
    BY DEF MemoryInv, CountTypes
  <2> QED BY <2>1, <2>2, <2>3, Zenon DEF CountTypes
<1> QED BY <1>11, <1>12, <1>13, Zenon DEF StepGood, MemoryInv, IndexGood

-----------------------------------------------------------------------------
(* The steps.                                                              *)

LEMMA InitGood == Init => MemoryInv
<1> SUFFICES ASSUME Init PROVE MemoryInv
  OBVIOUS
<1>1. PICK g : g = EmptyGraph
  BY Zenon
<1>2. g.nodes = <<>> /\ g.edges = {} /\ g = [nodes |-> g.nodes, edges |-> g.edges]
  BY <1>1 DEF EmptyGraph
<1>3. g.nodes \in Seq(Node) /\ Once(g.nodes) /\ ToSet(g.nodes) = {} /\ {} \in SUBSET (Ids \X Ids)
  BY <1>2, NoNode, Zenon
<1>4. g \in Graphs
  BY <1>2, <1>3, WithNodes, Zenon
<1>5. PICK none : none = [p \in Projects |-> {}]
  BY Zenon
<1>6. none \in [Projects -> SUBSET Runs]
  BY <1>5
<1>7. files = [graph |-> g, longTerm |-> {}, secure |-> {}, history |-> {}, profiles |-> none]
  BY <1>1, <1>5, Zenon DEF Init
<1>8. files \in Files /\ files.graph = g
  BY <1>4, <1>6, <1>7 DEF Files
<1>9. PICK idle : idle = IdleRun
  BY Zenon
<1>10. idle \in [pc : {"idle", "model", "embed", "done"}, read : SUBSET Runs, answer : Answers \cup {NoAnswer}]
  <2>1. PICK no, A : no = NoAnswer /\ A = Answers \cup {NoAnswer}
    BY Zenon
  <2>2. no \in A /\ idle = [pc |-> "idle", read |-> {}, answer |-> no]
    BY <1>9, <2>1 DEF IdleRun
  <2>3. idle \in [pc : {"idle", "model", "embed", "done"}, read : SUBSET Runs, answer : A]
    BY <2>2
  <2> QED BY <2>1, <2>3, Zenon
<1>11. run = [r \in Runs |-> idle]
  BY <1>9, Zenon DEF Init
<1>12. run \in RunTypes
  BY <1>10, <1>11 DEF RunTypes
<1>13. CountTypes
  BY StoreAssumption DEF Init, CountTypes
<1>14. TellingsDated
  BY <1>3, <1>8 DEF TellingsDated
<1>15. KeptWhileFresh
  <2>1. \A i \in Ids : written[i] = None
    BY Zenon DEF Init
  <2> QED BY <2>1, Zenon DEF KeptWhileFresh
<1>16. IndexTypes /\ IndexHolds
  <2>1. PICK i : i = NoIndex
    BY Zenon
  <2>2. DOMAIN i = {} /\ i = [p \in DOMAIN i |-> i[p]]
    BY <2>1 DEF NoIndex
  <2>3. DOMAIN i \subseteq Nat /\ i \in [DOMAIN i -> Ids] /\ \A p \in DOMAIN i : FALSE
    BY <2>2
  <2>4. index = i /\ shrunk \in BOOLEAN
    BY <2>1, Zenon DEF Init
  <2> QED BY <2>3, <2>4, Zenon DEF IndexTypes, IndexHolds
<1> QED BY <1>8, <1>12, <1>13, <1>14, <1>15, <1>16, Zenon DEF MemoryInv

LEMMA TypesNow ==
  ASSUME MemoryInv
  PROVE  /\ files \in Files /\ failures \in 0 .. MaxFailures - 1 /\ failures \in Nat
         /\ day \in 0 .. MaxTime /\ upsets \in 0 .. MaxUpsets /\ MaxUpsets \in Nat /\ MaxTime \in Nat
         /\ 0 \in 0 .. MaxFailures - 1 /\ (failures + 1) % MaxFailures \in 0 .. MaxFailures - 1 /\ day \in Nat /\ day <= day
BY StoreAssumption DEF MemoryInv, CountTypes, MaxFailures

LEMMA BeginsGood ==
  ASSUME MemoryInv, NEW r \in Runs, Begins(r)
  PROVE  StepGood
<1>1. PICK t : t = files.longTerm
  BY Zenon
<1>2. t \in SUBSET Runs /\ run \in RunTypes
  BY <1>1, GraphType DEF MemoryInv
<1>3. run' = [run EXCEPT ![r].pc = "model", ![r].read = t]
  BY <1>1, Zenon DEF Begins
<1>4. run' \in RunTypes
  <2>1. PICK old, d : old = run[r] /\ d = [pc |-> "model", read |-> t, answer |-> old.answer]
    BY Zenon
  <2>2. old.answer \in Answers \cup {NoAnswer} /\ "model" \in {"idle", "model", "embed", "done"}
    BY <1>2, <2>1, RunFields
  <2>3. d \in RunState
    BY <1>2, <2>1, <2>2, RunStateMade, Zenon
  <2>4. run' = [run EXCEPT ![r] = d]
    <3>1. run \in [Runs -> RunState]
      BY <1>2, Zenon DEF RunTypes, RunState
    <3>2. run' = [run EXCEPT ![r] = [old EXCEPT !.pc = "model", !.read = t]]
      BY <1>2, <1>3, <2>1, <3>1
    <3>3. old = [pc |-> old.pc, read |-> old.read, answer |-> old.answer]
      BY <2>1, <3>1, RunStateShape
    <3>4. PICK pc, re, an : pc = old.pc /\ re = old.read /\ an = old.answer
      BY Zenon
    <3>5. old = [pc |-> pc, read |-> re, answer |-> an] /\ d = [pc |-> "model", read |-> t, answer |-> an]
      BY <2>1, <3>3, <3>4, Zenon
    <3>6. PICK e : e = [old EXCEPT !.pc = "model", !.read = t]
      BY Zenon
    <3>7. e.pc = "model" /\ e.read = t /\ e.answer = an /\ e = [pc |-> e.pc, read |-> e.read, answer |-> e.answer]
      BY <3>5, <3>6
    <3> QED BY <3>2, <3>5, <3>6, <3>7, Zenon
  <2> QED BY <1>2, <2>3, <2>4, OneRun
<1> QED BY <1>4, TypesNow, IndexUntouched, NothingWritten DEF Begins

\* The third failure in a row writes the history.
LEMMA Archived ==
  ASSUME MemoryInv, NEW r \in Runs, NEW f \in Files, FailOrRawArchive(r, f)
  PROVE  files' \in Files /\ files'.graph = f.graph /\ failures' \in 0 .. MaxFailures - 1 /\ run' \in RunTypes
<1>1. failures' \in 0 .. MaxFailures - 1
  BY TypesNow, Zenon DEF FailOrRawArchive
<1>2. Done(r)
  BY Zenon DEF FailOrRawArchive
<1>3. files' = f \/ files' = AppendHistory(f, r)
  BY Zenon DEF FailOrRawArchive
<1>4. files' \in Files /\ files'.graph = f.graph
  BY <1>3, HistoryWritten, Zenon DEF Aside
<1> QED BY <1>1, <1>2, <1>4, RunDone

LEMMA FailsGood ==
  ASSUME MemoryInv, NEW r \in Runs, Fails(r)
  PROVE  StepGood
<1>1. FailOrRawArchive(r, files) /\ UNCHANGED <<index, day, corrected, upsets, amended, written, shrunk>>
  BY Zenon DEF Fails
<1>2. /\ files' \in Files /\ files'.graph = files.graph
      /\ failures' \in 0 .. MaxFailures - 1 /\ run' \in RunTypes
  BY <1>1, TypesNow, Archived
<1> QED BY <1>1, <1>2, TypesNow, IndexUntouched, NothingWritten

LEMMA CancelledGood ==
  ASSUME MemoryInv, NEW r \in Runs, Cancelled(r)
  PROVE  StepGood
<1>1. run' \in RunTypes
  BY RunDone DEF Cancelled
<1> QED BY <1>1, TypesNow, IndexUntouched, NothingWritten DEF Cancelled

LEMMA AnsweredGood ==
  ASSUME MemoryInv, NEW r \in Runs, NEW a \in Answers, Answered(r, a)
  PROVE  StepGood
<1>1. run \in RunTypes
  BY DEF MemoryInv
<1>2. run' = [run EXCEPT ![r].pc = "embed", ![r].answer = a]
  BY Zenon DEF Answered
<1>3. run' \in RunTypes
  <2>1. PICK old, d : old = run[r] /\ d = [pc |-> "embed", read |-> old.read, answer |-> a]
    BY Zenon
  <2>2. old.read \in SUBSET Runs /\ "embed" \in {"idle", "model", "embed", "done"} /\ a \in Answers \cup {NoAnswer}
    BY <1>1, <2>1, RunFields
  <2>3. d \in RunState
    BY <2>1, <2>2, RunStateMade
  <2>4. run' = [run EXCEPT ![r] = d]
    <3>1. run \in [Runs -> RunState]
      BY <1>1, Zenon DEF RunTypes, RunState
    <3>2. run' = [run EXCEPT ![r] = [old EXCEPT !.pc = "embed", !.answer = a]]
      BY <1>1, <1>2, <2>1, <3>1
    <3>3. old = [pc |-> old.pc, read |-> old.read, answer |-> old.answer]
      BY <2>1, <3>1, RunStateShape
    <3>4. PICK pc, re, an : pc = old.pc /\ re = old.read /\ an = old.answer
      BY Zenon
    <3>5. old = [pc |-> pc, read |-> re, answer |-> an] /\ d = [pc |-> "embed", read |-> re, answer |-> a]
      BY <2>1, <3>3, <3>4, Zenon
    <3>6. PICK e : e = [old EXCEPT !.pc = "embed", !.answer = a]
      BY Zenon
    <3>7. e.pc = "embed" /\ e.read = re /\ e.answer = a /\ e = [pc |-> e.pc, read |-> e.read, answer |-> e.answer]
      BY <3>5, <3>6
    <3> QED BY <3>2, <3>5, <3>6, <3>7, Zenon
  <2> QED BY <1>1, <2>3, <2>4, OneRun
<1> QED BY <1>3, TypesNow, IndexUntouched, NothingWritten DEF Answered

LEMMA WrittenTypes ==
  ASSUME MemoryInv, NEW r \in Runs, NEW a \in Answers, NEW embeds, NEW update \in SUBSET Runs, NEW n \in 1 .. 6
  PROVE  Written(r, a, embeds, update, n) \in Files
<1>1. files \in Files /\ day \in Nat
  BY DayType DEF MemoryInv
<1> QED BY <1>1, FilesWritten

\* The text the model returns has facts of consolidations.
LEMMA UpdatesType ==
  ASSUME MemoryInv, NEW r \in Runs, NEW a \in Answers, NEW update \in Updates(r, a)
  PROVE  update \in SUBSET Runs
<1>1. run[r].read \in SUBSET Runs
  BY RunFields DEF MemoryInv
<1> QED BY <1>1 DEF Updates

LEMMA StoresGood ==
  ASSUME MemoryInv, NEW r \in Runs, NEW a \in Answers, NEW embeds, NEW update \in SUBSET Runs,
         Stores(r, a, embeds, update)
  PROVE  StepGood
<1>1. /\ files' = Written(r, a, embeds, update, 6) /\ failures' = 0 /\ Done(r) /\ Tells(r, a, embeds) /\ Shrinks
      /\ UNCHANGED <<index, day, corrected, upsets>>
  BY Zenon DEF Stores
<1>2. 6 \in 1 .. 6
  OBVIOUS
<1>3. run' \in RunTypes
  BY <1>1, RunDone
<1>4. files' \in Files
  BY <1>1, <1>2, WrittenTypes
<1> QED BY <1>1, <1>2, <1>3, <1>4, TypesNow, SomethingWritten

LEMMA StoresInPartGood ==
  ASSUME MemoryInv, NEW r \in Runs, NEW a \in Answers, NEW embeds, StoresInPart(r, a, embeds)
  PROVE  StepGood
<1>1. PICK w, update : w = Written(r, a, embeds, update, 1) /\ update = {}
  BY Zenon
<1>2. /\ FailOrRawArchive(r, w) /\ Tells(r, a, embeds) /\ Shrinks
      /\ UNCHANGED <<index, day, corrected, upsets>>
  BY <1>1, Zenon DEF StoresInPart
<1>3. 1 \in 1 .. 6 /\ update \in SUBSET Runs
  BY <1>1
<1>4. w \in Files
  BY <1>1, <1>3, WrittenTypes
<1>5. /\ files' \in Files /\ files'.graph = w.graph
      /\ failures' \in 0 .. MaxFailures - 1 /\ run' \in RunTypes
  BY <1>2, <1>4, Archived
<1> QED BY <1>1, <1>2, <1>3, <1>5, TypesNow, SomethingWritten

LEMMA RestartsCounts ==
  ASSUME MemoryInv, Restarts
  PROVE  /\ index' = NoIndex /\ shrunk' \in BOOLEAN
         /\ failures' \in 0 .. MaxFailures - 1 /\ upsets' \in 0 .. MaxUpsets
         /\ UNCHANGED <<day, corrected>>
<1>1. index' = NoIndex /\ shrunk' \in BOOLEAN
  BY Zenon DEF Restarts
<1>2. failures' \in 0 .. MaxFailures - 1 /\ upsets' \in 0 .. MaxUpsets /\ UNCHANGED <<day, corrected>>
  BY TypesNow DEF Restarts
<1> QED BY <1>1, <1>2

LEMMA CrashInsideGood ==
  ASSUME MemoryInv, NEW r \in Runs, NEW a \in Answers, NEW embeds, NEW update \in SUBSET Runs, NEW n \in 1 .. 5,
         CrashInside(r, a, embeds, update, n)
  PROVE  StepGood
<1>1. files' = Written(r, a, embeds, update, n) /\ Tells(r, a, embeds) /\ Restarts
  BY Zenon DEF CrashInside
<1>2. n \in 1 .. 6
  OBVIOUS
<1>3. run' \in RunTypes
  BY <1>1, RunsRestarted
<1>4. files' \in Files
  BY <1>1, <1>2, WrittenTypes
<1> QED BY <1>1, <1>2, <1>3, <1>4, RestartsCounts, SomethingWritten

LEMMA CrashGood ==
  ASSUME MemoryInv, Crash
  PROVE  StepGood
<1>1. Restarts /\ UNCHANGED <<files, amended, written>>
  BY Zenon DEF Crash
<1>2. run' \in RunTypes
  BY <1>1, RunsRestarted
<1>3. IndexGood'
  BY <1>1, RestartsCounts, NoIndexGood
<1> QED BY <1>1, <1>2, <1>3, TypesNow, RestartsCounts, NothingWritten

LEMMA SearchesGood ==
  ASSUME MemoryInv, Searches
  PROVE  StepGood
<1>1. files' = files /\ shrunk' \in BOOLEAN /\ index' = BuildIndex(files.graph)
  BY Zenon DEF Searches, IndexAfterSearch
<1>2. IndexGood'
  BY <1>1, IndexBuilt, Zenon
<1>3. run' \in RunTypes
  BY Zenon DEF MemoryInv, Searches
<1> QED BY <1>2, <1>3, TypesNow, NothingWritten DEF Searches

LEMMA DayPassesGood ==
  ASSUME MemoryInv, DayPasses
  PROVE  StepGood
<1>1. run' \in RunTypes
  BY Zenon DEF MemoryInv, DayPasses
<1>2. day' \in 0 .. MaxTime /\ day <= day'
  BY TypesNow DEF DayPasses
<1> QED BY <1>1, <1>2, TypesNow, IndexUntouched, NothingWritten DEF DayPasses

LEMMA DeleteGood ==
  ASSUME MemoryInv, NEW id \in Ids, Delete(id)
  PROVE  StepGood
<1>1. PICK x : x = DeleteNode(files.graph, id)
  BY Zenon
<1>2. /\ files' = [files EXCEPT !.graph = x] /\ written' = [written EXCEPT ![id] = None]
      /\ upsets < MaxUpsets /\ upsets' = upsets + 1 /\ Shrinks
      /\ UNCHANGED <<index, run, failures, day, corrected, amended>>
  BY <1>1, Zenon DEF Delete
<1>3. files \in Files
  BY TypesNow
<1>4. files'.graph = x
  BY <1>2, <1>3 DEF Files
<1>5. /\ TellingsDated' /\ KeptWhileFresh' /\ KeptStep /\ files'.graph \in Graphs
      /\ NoneGone(files.graph, files'.graph) => InPlace(files.graph, files'.graph)
  BY <1>1, <1>2, <1>4, GraphDeleted
<1>6. files' \in Files
  BY <1>2, <1>3, <1>4, <1>5 DEF Files
<1>7. run' \in RunTypes
  BY <1>2, Zenon DEF MemoryInv
<1>8. IndexGood'
  BY <1>2, <1>5, IndexOverChange, Zenon
<1>9. CountTypes'
  <2>1. written' \in [Ids -> 0 .. MaxTime \cup {None}]
    BY <1>2 DEF MemoryInv, CountTypes
  <2>2. upsets' \in 0 .. MaxUpsets
    BY <1>2, TypesNow
  <2> QED BY <1>2, <2>1, <2>2, Zenon DEF MemoryInv, CountTypes
<1> QED BY <1>5, <1>6, <1>7, <1>8, <1>9, Zenon DEF StepGood, MemoryInv, IndexGood

LEMMA CorrectGood ==
  ASSUME MemoryInv, NEW id \in Ids, NEW c \in Corrections, Correct(id, c)
  PROVE  StepGood
<1>1. PICK x : x = CorrectNode(files.graph, id, c, day)
  BY Zenon
<1>2. /\ files' = [files EXCEPT !.graph = x] /\ written' = [written EXCEPT ![id] = day]
      /\ amended' = [amended EXCEPT ![id] = c] /\ Has(files.graph, id)
      /\ c \notin corrected /\ corrected' = corrected \cup {c}
      /\ upsets < MaxUpsets /\ upsets' = upsets + 1 /\ Shrinks
      /\ UNCHANGED <<index, run, failures, day>>
  BY <1>1, Zenon DEF Correct
<1>3. files \in Files /\ corrected' # corrected
  BY <1>2, TypesNow
<1>4. files'.graph = x
  BY <1>2, <1>3 DEF Files
<1>5. /\ TellingsDated' /\ KeptWhileFresh' /\ KeptStep /\ files'.graph \in Graphs
      /\ NoneGone(files.graph, files'.graph) => InPlace(files.graph, files'.graph)
  BY <1>1, <1>2, <1>3, <1>4, GraphCorrected
<1>6. files' \in Files
  BY <1>2, <1>3, <1>4, <1>5 DEF Files
<1>7. run' \in RunTypes
  BY <1>2, Zenon DEF MemoryInv
<1>8. IndexGood'
  BY <1>2, <1>5, IndexOverChange, Zenon
<1>9. CountTypes'
  <2>1. written' \in [Ids -> 0 .. MaxTime \cup {None}] /\ amended' \in [Ids -> Corrections \cup {None}]
    BY <1>2, TypesNow DEF MemoryInv, CountTypes
  <2>2. upsets' \in 0 .. MaxUpsets /\ corrected' \subseteq Corrections
    BY <1>2, TypesNow DEF MemoryInv, CountTypes
  <2> QED BY <1>2, <2>1, <2>2, Zenon DEF MemoryInv, CountTypes
<1> QED BY <1>5, <1>6, <1>7, <1>8, <1>9, Zenon DEF StepGood, MemoryInv, IndexGood

LEMMA NextGood ==
  ASSUME MemoryInv, Next
  PROVE  StepGood
<1>1. ASSUME NEW r \in Runs, RunStep(r) PROVE StepGood
  <2>1. CASE Begins(r)
    BY <2>1, BeginsGood
  <2>2. CASE Fails(r)
    BY <2>2, FailsGood
  <2>3. CASE Cancelled(r)
    BY <2>3, CancelledGood
  <2>4. CASE \E a \in Answers : Answered(r, a)
    BY <2>4, AnsweredGood
  <2>5. ASSUME NEW a \in Answers, NEW embeds \in BOOLEAN, NEW update \in Updates(r, a), Stores(r, a, embeds, update)
        PROVE  StepGood
    <3>1. update \in SUBSET Runs
      BY UpdatesType
    <3> QED BY <2>5, <3>1, StoresGood
  <2>6. CASE \E a \in Answers : StoresInPart(r, a, TRUE)
    BY <2>6, StoresInPartGood, Zenon
  <2>7. ASSUME NEW a \in Answers, NEW n \in 1 .. 5, NEW update \in Updates(r, a),
               CrashInside(r, a, TRUE, update, IF a.badEdge THEN 1 ELSE n)
        PROVE  StepGood
    <3>1. PICK m : m = IF a.badEdge THEN 1 ELSE n
      BY Zenon
    <3>2. m \in 1 .. 5 /\ update \in SUBSET Runs
      BY <3>1, UpdatesType
    <3>3. CrashInside(r, a, TRUE, update, m)
      BY <2>7, <3>1, Zenon
    <3> QED BY <3>2, <3>3, CrashInsideGood, Zenon
  <2> QED BY <1>1, <2>1, <2>2, <2>3, <2>4, <2>5, <2>6, <2>7, Zenon DEF RunStep
<1>2. CASE \E id \in Ids : Delete(id)
  BY <1>2, DeleteGood
<1>3. CASE \E id \in Ids, c \in Corrections : Correct(id, c)
  BY <1>3, CorrectGood
<1>4. CASE Searches \/ DayPasses \/ Crash
  BY <1>4, SearchesGood, DayPassesGood, CrashGood
<1> QED BY <1>1, <1>2, <1>3, <1>4, Zenon DEF Next

LEMMA StutterGood ==
  ASSUME MemoryInv, UNCHANGED vars
  PROVE  MemoryInv'
<1>1. UNCHANGED <<files, index, run, failures, day, corrected, upsets, amended, written, shrunk>>
  BY Zenon DEF vars
<1>2. TellingsDated' /\ KeptWhileFresh' /\ CountTypes' /\ IndexTypes' /\ IndexHolds'
  BY <1>1, Zenon DEF MemoryInv, TellingsDated, KeptWhileFresh, CountTypes, IndexTypes, IndexHolds
<1> QED BY <1>1, <1>2, Zenon DEF MemoryInv

-----------------------------------------------------------------------------
(* The theorems.                                                           *)

LEMMA HoldsIsFound ==
  ASSUME IndexTypes, IndexHolds
  PROVE  IndexedIsFound
<1>1. SUFFICES ASSUME ~shrunk PROVE AnnSearch(files.graph, index) = index
  BY Zenon DEF IndexedIsFound
<1>2. PICK s : s = files.graph.nodes
  BY Zenon
<1>3. \A p \in DOMAIN index : p \in DOMAIN s /\ s[p].id = index[p]
  BY <1>1, <1>2, Zenon DEF IndexHolds
<1>4. DOMAIN index \cap DOMAIN s = DOMAIN index
  BY <1>3, Zenon
<1>5. AnnSearch(files.graph, index) = [p \in DOMAIN index |-> s[p].id]
  BY <1>2, <1>4, Zenon DEF AnnSearch
<1>6. index = [p \in DOMAIN index |-> index[p]]
  BY Zenon DEF IndexTypes
<1>7. [p \in DOMAIN index |-> s[p].id] = [p \in DOMAIN index |-> index[p]]
  BY <1>3, Zenon
<1> QED BY <1>5, <1>6, <1>7, Zenon

\* The invariant holds always.
LEMMA InvAlways == Spec => []MemoryInv
<1>1. MemoryInv /\ [Next]_vars => MemoryInv'
  BY NextGood, StutterGood DEF StepGood
<1> QED BY <1>1, InitGood, PTL DEF Spec

\* Every variable of the memory keeps its type (MemoryStore, ProjectProfile).
THEOREM TypesAlways == Spec => []TypeOK
<1>1. MemoryInv => TypeOK
  BY InvTypes
<1> QED BY <1>1, InvAlways, PTL

\* What the model told of a source stays in the graph for HARD_DELETE days and
\* every container for good, through merges, chunks, expiry, stores that end
\* half way and crashes between two files, unless the user deletes it
\* (add_nodes, expire, delete_node).
THEOREM FreshAlwaysKept == Spec => []KeptWhileFresh
<1>1. MemoryInv => KeptWhileFresh
  BY Zenon DEF MemoryInv
<1> QED BY <1>1, InvAlways, PTL

\* No step replaces a text, plain or encrypted, without keeping it in the
\* newest version of its node and, but for the user's own correction, without
\* the node asking to be confirmed from then on; only a secret over a secret
\* is let through (add_nodes, _has_conflict, apply_feedback).
THEOREM ReplacedAlwaysKept == Spec => ReplacedIsKept
<1>1. MemoryInv /\ [Next]_vars => [KeptStep]_vars
  BY NextGood DEF StepGood
<1> QED BY <1>1, InvAlways, PTL DEF Spec, ReplacedIsKept, KeptStep

\* What the index of the searching store has at a position is the node that was
\* there when it was built, through everything other stores write, until a node
\* is removed (_build_index, add_nodes, apply_feedback, expire).
THEOREM IndexAlwaysRight == Spec => []IndexedIsFound
<1>1. MemoryInv => IndexedIsFound
  BY HoldsIsFound, Zenon DEF MemoryInv
<1> QED BY <1>1, InvAlways, PTL
====
