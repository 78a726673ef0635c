------------------------- MODULE SessionStoreProofs -------------------------
(***************************************************************************)
(* The types and the safety properties of SessionStore, for any number and *)
(* kind of turns, recalls, failures and restarts, and the lemmas on        *)
(* sequences and sessions they rest on.                                    *)
(***************************************************************************)
EXTENDS SessionStore, SequenceTheorems, FiniteSetTheorems, NatLemmas

TurnPcs == {"idle", "consolidating", "ready", "graph", "done"}
KindNames == {"user", "system", "new"}
TurnState == [pc : TurnPcs, kind : KindNames, obj : Nat, base : Nat, sent : Nat]
JobState == [pc : {"idle", "wait", "pick", "llm", "done"}, obj : Nat,
             chunk : Seq(Message), end : Nat, round : 0 .. MaxRounds]
ArchiveState == [pc : {"idle", "trying", "done"}, msgs : Seq(Message), tries : 0 .. MaxFailures - 1]

Inside(j) == job[j].pc \in {"pick", "llm"}
Working(j) == job[j].pc = "wait" \/ Inside(j)

\* A turn under way holds an object, and the prompt is no longer than the
\* history.
TurnOK(t) ==
  /\ turn[t].obj <= Len(heap)
  /\ turn[t].pc \in {"consolidating", "ready", "graph"} => turn[t].obj # NoObj
  /\ turn[t].sent <= turn[t].base

\* A consolidation holds an object from its start and the lock while it is
\* inside; the turn that awaits one waits.
JobOK(j) ==
  /\ job[j].obj <= Len(heap)
  /\ Working(j) => job[j].obj # NoObj
  /\ Inside(j) => jobLock = {j}
  /\ j[2] = "inline" /\ Working(j) => turn[j[1]].pc = "consolidating"

\* The type invariant with what the steps of the coroutines need.
TypeInv ==
  /\ heap \in Seq(SessionData) /\ disk \in SessionData /\ cache \in 0 .. Len(heap)
  /\ turn \in [Turns -> TurnState] /\ \A t \in Turns : TurnOK(t)
  /\ lock \in [LockKinds -> Turns \cup {0}]
  /\ job \in [Jobs -> JobState] /\ \A j \in Jobs : JobOK(j)
  /\ jobLock = {} \/ \E j \in Jobs : jobLock = {j}
  /\ archiving \in [Turns -> ArchiveState]
  /\ failures \in 0 .. MaxFailures - 1
  /\ archived \in [Turns \X {1, 2} -> Nat]
  /\ expected \in Seq(Message)
  /\ recalls \in 0 .. MaxRecalls /\ crashes \in 0 .. MaxCrashes

-----------------------------------------------------------------------------
(* Sequences.                                                              *)

KeptStep(f, s, m, n) ==
  IF n = 0 THEN <<>> ELSE IF s[n] = m THEN f[n - 1] ELSE Append(f[n - 1], s[n])
IsKept(f, s, m, k) == f = [n \in 0 .. k |-> KeptStep(f, s, m, n)]

\* The recursive function of Without exists.
LEMMA KeptExists ==
  ASSUME NEW s, NEW m, NEW l \in Nat
  PROVE  \E f : IsKept(f, s, m, l)
<1> DEFINE T == {k \in Nat : ~\E f : IsKept(f, s, m, k)}
<1>1. 0 \notin T
  <2>1. IsKept([n \in 0 .. 0 |-> <<>>], s, m, 0)
    BY DEF IsKept, KeptStep
  <2> QED BY <2>1
<1>2. ASSUME NEW k \in Nat, k # 0, k - 1 \notin T PROVE k \notin T
  <2>0. k - 1 \in Nat
    BY <1>2
  <2>1. PICK f : IsKept(f, s, m, k - 1)
    BY <1>2, <2>0
  <2> DEFINE g == [n \in 0 .. k |-> IF n = k THEN KeptStep(f, s, m, k) ELSE f[n]]
  <2>2. ASSUME NEW n \in 0 .. k PROVE g[n] = KeptStep(g, s, m, n)
    <3>1. n # 0 => g[n - 1] = f[n - 1]
      OBVIOUS
    <3>2. KeptStep(g, s, m, n) = KeptStep(f, s, m, n)
      BY <3>1 DEF KeptStep
    <3>3. n # k => f[n] = KeptStep(f, s, m, n)
      BY <2>1 DEF IsKept
    <3> QED BY <3>2, <3>3
  <2>3. g = [n \in 0 .. k |-> g[n]]
    OBVIOUS
  <2> HIDE DEF g
  <2>4. g = [n \in 0 .. k |-> KeptStep(g, s, m, n)]
    BY <2>2, <2>3
  <2> QED BY <2>4 DEF IsKept
<1>3. ASSUME T # {} PROVE FALSE
  <2>1. PICK k \in T : \A j \in T : k <= j
    BY <1>3, LeastNumber
  <2>2. k \in Nat /\ k # 0
    BY <1>1, <2>1
  <2>3. k - 1 \notin T
    BY <2>1, <2>2
  <2> QED BY <1>2, <2>1, <2>2, <2>3
<1> QED BY <1>3

\* Without leaves out exactly the given message.
LEMMA WithoutType ==
  ASSUME NEW S, NEW s \in Seq(S), NEW m
  PROVE  /\ Without(s, m) \in Seq(S)
         /\ ToSet(Without(s, m)) = ToSet(s) \ {m}
<1>0. Len(s) \in Nat /\ DOMAIN s = 1 .. Len(s)
  BY LenProperties
<1> DEFINE kept == CHOOSE f : f = [n \in 0 .. Len(s) |-> 
                                     IF n = 0 THEN <<>>
                                     ELSE IF s[n] = m THEN f[n - 1] ELSE Append(f[n - 1], s[n])]
<1>1. Without(s, m) = kept[Len(s)]
  BY DEF Without
<1>2. IsKept(kept, s, m, Len(s))
  <2>1. \E f : f = [n \in 0 .. Len(s) |->
                    IF n = 0 THEN <<>>
                    ELSE IF s[n] = m THEN f[n - 1] ELSE Append(f[n - 1], s[n])]
    <3>1. PICK f : IsKept(f, s, m, Len(s))
      BY <1>0, KeptExists
    <3>2. f = [n \in 0 .. Len(s) |->
                 IF n = 0 THEN <<>>
                 ELSE IF s[n] = m THEN f[n - 1] ELSE Append(f[n - 1], s[n])]
      BY <3>1, Zenon DEF IsKept, KeptStep
    <3> QED BY <3>2
  <2>2. kept = [n \in 0 .. Len(s) |->
                    IF n = 0 THEN <<>>
                    ELSE IF s[n] = m THEN kept[n - 1] ELSE Append(kept[n - 1], s[n])]
    BY <2>1, Zenon
  <2> QED BY <2>2, Zenon DEF IsKept, KeptStep
<1> HIDE DEF kept
<1> DEFINE Good(k) == /\ kept[k] \in Seq(S)
                      /\ ToSet(kept[k]) = {s[i] : i \in 1 .. k} \ {m}
           T == {k \in 0 .. Len(s) : ~Good(k)}
<1>3. \A n \in 0 .. Len(s) : kept[n] = KeptStep(kept, s, m, n)
  BY <1>2 DEF IsKept
<1>4. Good(0)
  <2>1. kept[0] = <<>>
    BY <1>0, <1>3 DEF KeptStep
  <2>2. <<>> \in Seq(S) /\ ToSet(<<>>) = {} /\ {s[i] : i \in 1 .. 0} = {}
    BY EmptySeq DEF ToSet
  <2> QED BY <2>1, <2>2
<1>5. ASSUME NEW k \in 1 .. Len(s), Good(k - 1) PROVE Good(k)
  <2>1. CASE s[k] = m
    BY <1>0, <1>3, <1>5, <2>1 DEF KeptStep
  <2>2. CASE s[k] # m
    <3> DEFINE u == kept[k - 1]
    <3>0. kept[k] = KeptStep(kept, s, m, k) /\ k # 0
      BY <1>0, <1>3
    <3>1. kept[k] = Append(u, s[k])
      BY <2>2, <3>0 DEF KeptStep
    <3>2. u \in Seq(S) /\ ToSet(u) = {s[i] : i \in 1 .. k - 1} \ {m} /\ s[k] \in S
      BY <1>0, <1>5
    <3> HIDE DEF u
    <3>3. ToSet(Append(u, s[k])) = ToSet(u) \cup {s[k]} /\ Append(u, s[k]) \in Seq(S)
      BY <3>2, AppendProperties DEF ToSet
    <3>4. {s[i] : i \in 1 .. k} = {s[i] : i \in 1 .. k - 1} \cup {s[k]}
      BY <1>0
    <3> QED BY <2>2, <3>1, <3>2, <3>3, <3>4
  <2> QED BY <2>1, <2>2
<1> HIDE DEF Good
<1>6. ASSUME T # {} PROVE FALSE
  <2>1. T \in SUBSET Nat
    BY <1>0
  <2>2. PICK k \in T : \A j \in T : k <= j
    BY <1>6, <2>1, LeastNumber
  <2>3. k \in 1 .. Len(s) /\ k - 1 \notin T /\ k - 1 \in 0 .. Len(s)
    BY <1>0, <1>4, <2>1, <2>2
  <2> QED BY <1>5, <2>2, <2>3
<1>7. Good(Len(s))
  BY <1>0, <1>6
<1>8. ToSet(s) = {s[i] : i \in 1 .. Len(s)}
  BY <1>0 DEF ToSet
<1> QED BY <1>1, <1>7, <1>8 DEF Good

LEMMA SubSeqType ==
  ASSUME NEW S, NEW s \in Seq(S), NEW a \in Nat, a # 0, NEW b \in Int, b <= Len(s)
  PROVE  /\ SubSeq(s, a, b) \in Seq(S)
         /\ Len(SubSeq(s, a, b)) = IF a <= b THEN b - a + 1 ELSE 0
         /\ \A i \in 1 .. b - a + 1 : SubSeq(s, a, b)[i] = s[a + i - 1]
<1>1. \A i \in a .. b : s[i] \in S
  BY LenProperties
<1> QED BY <1>1, SubSeqProperties

LEMMA SetOfConcat ==
  ASSUME NEW S, NEW s \in Seq(S), NEW u \in Seq(S)
  PROVE  ToSet(s \o u) = ToSet(s) \cup ToSet(u)
<1>1. /\ DOMAIN s = 1 .. Len(s) /\ DOMAIN u = 1 .. Len(u)
      /\ Len(s) \in Nat /\ Len(u) \in Nat
      /\ DOMAIN (s \o u) = 1 .. Len(s) + Len(u)
  BY LenProperties, ConcatProperties
<1>2. ASSUME NEW i \in 1 .. Len(s) + Len(u) PROVE (s \o u)[i] \in ToSet(s) \cup ToSet(u)
  <2>1. CASE i <= Len(s)
    BY <1>1, <2>1, ConcatProperties DEF ToSet
  <2>2. CASE i > Len(s)
    <3>1. i - Len(s) \in 1 .. Len(u) /\ (s \o u)[i] = u[i - Len(s)]
      BY <1>1, <2>2, ConcatProperties
    <3> QED BY <1>1, <3>1 DEF ToSet
  <2> QED BY <1>1, <2>1, <2>2
<1>3. ASSUME NEW i \in 1 .. Len(s) PROVE s[i] \in ToSet(s \o u)
  <2>1. (s \o u)[i] = s[i] /\ i \in 1 .. Len(s) + Len(u)
    BY <1>1, ConcatProperties
  <2> QED BY <1>1, <2>1 DEF ToSet
<1>4. ASSUME NEW i \in 1 .. Len(u) PROVE u[i] \in ToSet(s \o u)
  <2>1. (s \o u)[Len(s) + i] = u[i] /\ Len(s) + i \in 1 .. Len(s) + Len(u)
    BY <1>1, ConcatProperties
  <2> QED BY <1>1, <2>1 DEF ToSet
<1> QED BY <1>1, <1>2, <1>3, <1>4 DEF ToSet

-----------------------------------------------------------------------------
(* Sessions.                                                               *)

LEMMA HistoryLength ==
  ASSUME NEW s \in SessionData
  PROVE  History(s) \in Seq(Message) /\ Unconsolidated(s) \in Seq(Message)
<1> DEFINE rest == Unconsolidated(s)
           users == {p \in DOMAIN rest : rest[p].role = "user"}
<1>1. rest \in Seq(Message)
  BY SubSeqType, LenProperties DEF SessionData, Unconsolidated
<1>2. CASE users = {}
  BY <1>1, <1>2 DEF History
<1>3. CASE users # {}
  <2> DEFINE first == CHOOSE p \in users : \A q \in users : p <= q
  <2>1. users \in SUBSET Nat /\ users \subseteq 1 .. Len(rest) /\ Len(rest) \in Nat
    BY <1>1, LenProperties
  <2>2. \E p \in users : \A q \in users : p <= q
    BY <1>3, <2>1, LeastNumber
  <2>3. first \in users
    BY <2>2
  <2>4. History(s) = SubSeq(rest, first, Len(rest))
    BY <1>3 DEF History
  <2> HIDE DEF first, users
  <2>5. first \in Nat /\ first # 0
    BY <2>1, <2>3
  <2> HIDE DEF rest
  <2>6. History(s) \in Seq(Message)
    BY <1>1, <2>1, <2>4, <2>5, SubSeqType
  <2> QED BY <1>1, <2>6 DEF rest
<1> QED BY <1>1, <1>2, <1>3

LEMMA NewMessagesType ==
  ASSUME NEW t \in Turns, NEW kind
  PROVE  /\ NewMessages(t, kind) \in Seq(Message) /\ Len(NewMessages(t, kind)) = 2
         /\ \A i \in 1 .. 2 : /\ NewMessages(t, kind)[i].turn = t
                             /\ NewMessages(t, kind)[i].part = i
BY DEF NewMessages, Message

LEMMA PutType ==
  ASSUME heap \in Seq(SessionData), NEW o \in 1 .. Len(heap) + 1, NEW s \in SessionData
  PROVE  /\ Put(o, s) \in Seq(SessionData)
         /\ Len(Put(o, s)) = IF o > Len(heap) THEN Len(heap) + 1 ELSE Len(heap)
         /\ \A q \in 1 .. Len(Put(o, s)) : Put(o, s)[q] = IF q = o THEN s ELSE heap[q]
<1>1. Len(heap) \in Nat
  BY LenProperties
<1>2. CASE o > Len(heap)
  <2>1. Put(o, s) = Append(heap, s) /\ o = Len(heap) + 1
    BY <1>1, <1>2 DEF Put
  <2> QED BY <1>1, <2>1, AppendProperties
<1>3. CASE o <= Len(heap)
  <2>1. Put(o, s) = [heap EXCEPT ![o] = s] /\ o \in 1 .. Len(heap)
    BY <1>1, <1>3 DEF Put
  <2> QED BY <1>1, <1>3, <2>1, ExceptSeq
<1> QED BY <1>1, <1>2, <1>3

LEMMA ArchiveType ==
  ASSUME archived \in [Turns \X {1, 2} -> Nat], NEW msgs \in Seq(Message), Archive(msgs)
  PROVE  archived' \in [Turns \X {1, 2} -> Nat]
<1> DEFINE count(m) == Cardinality({p \in DOMAIN msgs : <<msgs[p].turn, msgs[p].part>> = m})
<1>1. IsFiniteSet(DOMAIN msgs)
  BY LenProperties, FS_Interval
<1>2. ASSUME NEW m PROVE count(m) \in Nat
  BY <1>1, FS_Subset, FS_CardinalityType
<1>3. archived' = [m \in Turns \X {1, 2} |-> archived[m] + count(m)]
  BY DEF Archive
<1> HIDE DEF count
<1> QED BY <1>2, <1>3

-----------------------------------------------------------------------------
(* The records of the coroutines, where a step changes several fields.     *)

LEMMA TurnFields ==
  ASSUME NEW c \in TurnState
  PROVE  /\ c.pc \in TurnPcs
         /\ c.kind \in KindNames
         /\ c.obj \in Nat /\ c.base \in Nat /\ c.sent \in Nat
BY DEF TurnState

LEMMA JobFields ==
  ASSUME NEW c \in JobState
  PROVE  /\ c.pc \in {"idle", "wait", "pick", "llm", "done"}
         /\ c.obj \in Nat /\ c.chunk \in Seq(Message) /\ c.end \in Nat
         /\ c.round \in 0 .. MaxRounds
BY DEF JobState

Begun(c, kind, o, pc) == [c EXCEPT !.kind = kind, !.obj = o, !.pc = pc]

LEMMA BegunType ==
  ASSUME NEW c \in TurnState, NEW kind \in KindNames, NEW o \in Nat,
         NEW pc \in TurnPcs
  PROVE  /\ Begun(c, kind, o, pc) \in TurnState
         /\ Begun(c, kind, o, pc).pc = pc /\ Begun(c, kind, o, pc).kind = kind /\ Begun(c, kind, o, pc).obj = o
         /\ Begun(c, kind, o, pc).base = c.base /\ Begun(c, kind, o, pc).sent = c.sent
<1>1. PICK u : u = Begun(c, kind, o, pc)
  OBVIOUS
<1>2. u = [pc |-> pc, kind |-> kind, obj |-> o, base |-> c.base, sent |-> c.sent]
  BY <1>1 DEF Begun, TurnState
<1>3. u \in TurnState /\ u.pc = pc /\ u.kind = kind /\ u.obj = o
      /\ u.base = c.base /\ u.sent = c.sent
  BY <1>2 DEF TurnState, TurnPcs, KindNames
<1> QED BY <1>1, <1>3

Cleared(c) == [c EXCEPT !.kind = "new", !.pc = "done"]

LEMMA ClearedType ==
  ASSUME NEW c \in TurnState
  PROVE  /\ Cleared(c) \in TurnState
         /\ Cleared(c).pc = "done" /\ Cleared(c).kind = "new" /\ Cleared(c).obj = c.obj
         /\ Cleared(c).base = c.base /\ Cleared(c).sent = c.sent
<1>1. PICK u : u = Cleared(c)
  OBVIOUS
<1>2. u = [pc |-> "done", kind |-> "new", obj |-> c.obj, base |-> c.base, sent |-> c.sent]
  BY <1>1 DEF Cleared, TurnState
<1>3. u \in TurnState /\ u.pc = "done" /\ u.kind = "new" /\ u.obj = c.obj
      /\ u.base = c.base /\ u.sent = c.sent
  BY <1>2 DEF TurnState, TurnPcs, KindNames, NoObj
<1> QED BY <1>1, <1>3

Prompted(c, b, n) == [c EXCEPT !.pc = "graph", !.base = b, !.sent = n]

LEMMA PromptedType ==
  ASSUME NEW c \in TurnState, NEW b \in Nat, NEW n \in Nat
  PROVE  /\ Prompted(c, b, n) \in TurnState
         /\ Prompted(c, b, n).pc = "graph" /\ Prompted(c, b, n).kind = c.kind /\ Prompted(c, b, n).obj = c.obj
         /\ Prompted(c, b, n).base = b /\ Prompted(c, b, n).sent = n
<1>1. PICK u : u = Prompted(c, b, n)
  OBVIOUS
<1>2. u = [pc |-> "graph", kind |-> c.kind, obj |-> c.obj, base |-> b, sent |-> n]
  BY <1>1 DEF Prompted, TurnState
<1>3. u \in TurnState /\ u.pc = "graph" /\ u.kind = c.kind /\ u.obj = c.obj
      /\ u.base = b /\ u.sent = n
  BY <1>2 DEF TurnState, TurnPcs, KindNames, NoObj
<1> QED BY <1>1, <1>3

Over(c, pc) == [c EXCEPT !.pc = pc, !.obj = NoObj]

LEMMA OverType ==
  ASSUME NEW c \in TurnState, NEW pc \in {"idle", "done"}
  PROVE  /\ Over(c, pc) \in TurnState
         /\ Over(c, pc).pc = pc /\ Over(c, pc).kind = c.kind /\ Over(c, pc).obj = NoObj
         /\ Over(c, pc).base = c.base /\ Over(c, pc).sent = c.sent
<1>1. PICK u : u = Over(c, pc)
  OBVIOUS
<1>2. u = [pc |-> pc, kind |-> c.kind, obj |-> NoObj, base |-> c.base, sent |-> c.sent]
  BY <1>1 DEF Over, TurnState
<1>3. u \in TurnState /\ u.pc = pc /\ u.kind = c.kind /\ u.obj = NoObj
      /\ u.base = c.base /\ u.sent = c.sent
  BY <1>2 DEF TurnState, TurnPcs, KindNames, NoObj
<1> QED BY <1>1, <1>3

Filed(c, msgs) == [c EXCEPT !.pc = "trying", !.msgs = msgs]

LEMMA FiledType ==
  ASSUME NEW c \in ArchiveState, NEW msgs \in Seq(Message)
  PROVE  Filed(c, msgs) \in ArchiveState
<1>1. PICK u : u = Filed(c, msgs)
  OBVIOUS
<1>2. u = [pc |-> "trying", msgs |-> msgs, tries |-> c.tries]
  BY <1>1 DEF Filed, ArchiveState
<1>3. u \in ArchiveState
  BY <1>2 DEF ArchiveState
<1> QED BY <1>1, <1>3

Asked(c, o) == [c EXCEPT !.pc = "wait", !.obj = o]

LEMMA AskedType ==
  ASSUME NEW c \in JobState, NEW o \in Nat
  PROVE  /\ Asked(c, o) \in JobState
         /\ Asked(c, o).pc = "wait" /\ Asked(c, o).obj = o
<1>1. PICK u : u = Asked(c, o)
  OBVIOUS
<1>2. u = [pc |-> "wait", obj |-> o, chunk |-> c.chunk, end |-> c.end, round |-> c.round]
  BY <1>1 DEF Asked, JobState
<1>3. u \in JobState /\ u.pc = "wait" /\ u.obj = o
  BY <1>2 DEF JobState, NoObj
<1> QED BY <1>1, <1>3

Picked(c, e, chunk) ==
  [c EXCEPT !.pc = "llm", !.end = e, !.round = c.round + 1, !.chunk = chunk]

LEMMA PickedType ==
  ASSUME NEW c \in JobState, c.round < MaxRounds, NEW e \in Nat, NEW chunk \in Seq(Message)
  PROVE  /\ Picked(c, e, chunk) \in JobState
         /\ Picked(c, e, chunk).pc = "llm" /\ Picked(c, e, chunk).obj = c.obj
         /\ Picked(c, e, chunk).end = e /\ Picked(c, e, chunk).chunk = chunk
<1>1. PICK u : u = Picked(c, e, chunk)
  OBVIOUS
<1>2. u = [pc |-> "llm", obj |-> c.obj, chunk |-> chunk, end |-> e, round |-> c.round + 1]
  BY <1>1 DEF Picked, JobState
<1>4. c.round + 1 \in 0 .. MaxRounds
  BY JobFields DEF MaxRounds
<1>3. u \in JobState /\ u.pc = "llm" /\ u.obj = c.obj
      /\ u.end = e /\ u.chunk = chunk
  BY <1>2, <1>4 DEF JobState, NoObj
<1> QED BY <1>1, <1>3

LEMMA JobEnded ==
  /\ Ended(IdleJob) \in JobState /\ IdleJob \in JobState
  /\ Ended(IdleJob).pc = "done" /\ Ended(IdleJob).obj = NoObj
  /\ IdleJob.pc = "idle" /\ IdleJob.obj = NoObj
<1>1. <<>> \in Seq(Message)
  BY EmptySeq
<1>2. Ended(IdleJob) = [pc |-> "done", obj |-> 0, chunk |-> <<>>, end |-> 0, round |-> 0]
  BY DEF Ended, IdleJob, NoObj
<1>3. IdleJob = [pc |-> "idle", obj |-> 0, chunk |-> <<>>, end |-> 0, round |-> 0]
  BY DEF IdleJob, NoObj
<1>4. 0 \in 0 .. MaxRounds
  BY DEF MaxRounds
<1> QED BY <1>1, <1>2, <1>3, <1>4 DEF JobState, NoObj

LEMMA ArchiveEnded ==
  /\ Ended(IdleArchive) \in ArchiveState /\ IdleArchive \in ArchiveState
  /\ Ended(IdleArchive).pc = "done" /\ IdleArchive.pc = "idle"
<1>1. <<>> \in Seq(Message)
  BY EmptySeq
<1>2. Ended(IdleArchive) = [pc |-> "done", msgs |-> <<>>, tries |-> 0]
  BY DEF Ended, IdleArchive
<1>3. IdleArchive = [pc |-> "idle", msgs |-> <<>>, tries |-> 0]
  BY DEF IdleArchive
<1>4. 0 \in 0 .. MaxFailures - 1
  BY DEF MaxFailures
<1> QED BY <1>1, <1>2, <1>3, <1>4 DEF ArchiveState

-----------------------------------------------------------------------------
(* Types.                                                                  *)

LEMMA Bounds ==
  /\ MaxTurns \in Nat /\ MaxRecalls \in Nat /\ MaxCrashes \in Nat
  /\ ShortHistory \in Nat /\ SummaryAfter \in Nat
  /\ TurnKinds \subseteq {"user", "system", "new"}
BY StoreAssumption DEF StoreAssumption

LEMMA InitTypes == Init => TypeInv
<1> SUFFICES ASSUME Init PROVE TypeInv
  OBVIOUS
<1>1. <<>> \in Seq(SessionData) /\ <<>> \in Seq(Message) /\ Len(<<>>) = 0
  BY EmptySeq
<1>2. Fresh \in SessionData
  BY <1>1 DEF Fresh, SessionData
<1>3. IdleTurn \in TurnState /\ IdleJob \in JobState /\ IdleArchive \in ArchiveState
  BY <1>1, JobEnded, ArchiveEnded DEF IdleTurn, TurnState, TurnPcs, KindNames, NoObj
<1>4. \A t \in Turns : TurnOK(t)
  BY <1>1 DEF Init, TurnOK, IdleTurn, NoObj
<1>5. \A j \in Jobs : JobOK(j)
  BY <1>1 DEF Init, JobOK, IdleJob, NoObj, Working, Inside
<1>6. archiving \in [Turns -> ArchiveState]
      BY <1>3 DEF Init, IdleArchive
<1>7. heap \in Seq(SessionData) /\ disk \in SessionData /\ cache \in 0 .. Len(heap)
  BY <1>1, <1>2 DEF Init, NoObj
<1>8. turn \in [Turns -> TurnState] /\ job \in [Jobs -> JobState]
  BY <1>3 DEF Init
<1> QED BY <1>1, <1>4, <1>5, <1>6, <1>7, <1>8, Bounds DEF Init, TypeInv, MaxFailures

\* A session that is read by its key, and its handle.
LEMMA HandleType ==
  ASSUME TypeInv
  PROVE  /\ Loaded \in SessionData
         /\ Handle \in 1 .. Len(heap) + 1 /\ Len(heap) \in Nat
         /\ cache # NoObj => Handle = cache /\ Loaded = heap[cache]
BY LenProperties, ElementOfSeq DEF TypeInv, Loaded, Handle, NoObj

\* What a save leaves.
LEMMA SaveTypes ==
  ASSUME TypeInv, NEW o \in 1 .. Len(heap) + 1, NEW s \in SessionData, Save(o, s)
  PROVE  /\ heap' \in Seq(SessionData) /\ disk' \in SessionData /\ cache' \in 0 .. Len(heap')
         /\ Len(heap') \in Nat /\ Len(heap) <= Len(heap')
BY PutType, LenProperties DEF TypeInv, Save

LEMMA BeginTypes ==
  ASSUME TypeInv, NEW t \in Turns, NEW kind \in TurnKinds, BeginTurn(t, kind)
  PROVE  TypeInv'
<1>0. kind \in {"user", "system"} /\ turn[t] \in TurnState /\ turn[t].pc = "idle"
  BY Bounds DEF BeginTurn, NextTurn, TypeInv
<1> DEFINE o == Handle
           pc == IF Loaded.msgs = <<>> THEN "ready" ELSE "consolidating"
           begun == Begun(turn[t], kind, o, pc)
           inline == <<t, "inline">>
           entered == Asked(job[inline], o)
<1>1. heap' = Put(o, Loaded) /\ cache' = o /\ disk' = disk
      /\ turn' = [turn EXCEPT ![t] = begun]
      /\ job' = IF pc = "ready" THEN job ELSE [job EXCEPT ![inline] = entered]
  BY DEF BeginTurn, Begun, Asked
<1>2. o \in 1 .. Len(heap) + 1 /\ Len(heap) \in Nat /\ pc \in {"ready", "consolidating"}
  BY HandleType
<1>3. heap' \in Seq(SessionData) /\ o <= Len(heap') /\ Len(heap) <= Len(heap') /\ Len(heap') \in Nat
  BY <1>1, <1>2, HandleType, PutType, LenProperties DEF TypeInv
<1>4. inline \in Jobs /\ job[inline] \in JobState
  BY DEF Jobs, TypeInv
<1> HIDE DEF o, pc, inline
<1>b. kind \in KindNames /\ o \in Nat /\ pc \in TurnPcs
  BY <1>0, <1>2 DEF KindNames, TurnPcs
<1>5. begun \in TurnState /\ begun.pc = pc /\ begun.obj = o /\ begun.sent = turn[t].sent
      /\ begun.base = turn[t].base
  BY <1>0, <1>b, BegunType
<1>6. entered \in JobState /\ entered.pc = "wait" /\ entered.obj = o
  BY <1>b, <1>4, AskedType
<1> HIDE DEF begun, entered
<1>7. turn' \in [Turns -> TurnState] /\ job' \in [Jobs -> JobState]
  BY <1>1, <1>5, <1>6 DEF TypeInv
<1>8. \A u \in Turns : TurnOK(u)'
  <2> SUFFICES ASSUME NEW u \in Turns PROVE TurnOK(u)'
    OBVIOUS
  <2>1. TurnOK(u) /\ turn[u] \in TurnState /\ turn'[u] = IF u = t THEN begun ELSE turn[u]
    BY <1>1 DEF TypeInv
  <2>2. turn[u].obj \in Nat
    BY <2>1, TurnFields
  <2> QED BY <1>2, <1>3, <1>5, <2>1, <2>2 DEF TurnOK, NoObj
<1>9. \A j \in Jobs : j[2] = "inline" /\ j[1] = t => j = inline
  BY DEF Jobs, inline
<1>10. \A j \in Jobs : JobOK(j)'
  <2> SUFFICES ASSUME NEW j \in Jobs PROVE JobOK(j)'
    OBVIOUS
  <2>1. jobLock' = jobLock /\ JobOK(j) /\ j[1] \in Turns
    BY DEF BeginTurn, TypeInv, Jobs
  <2>2. CASE j = inline /\ pc # "ready"
    <3>1. job'[j] = entered /\ turn'[j[1]].pc = "consolidating"
      BY <1>1, <1>2, <1>4, <1>5, <2>2 DEF TypeInv, inline
    <3> QED BY <1>2, <1>3, <1>6, <3>1 DEF JobOK, Working, Inside, NoObj
  <2>3. CASE ~(j = inline /\ pc # "ready")
    <3>1. job'[j] = job[j]
      BY <1>1, <2>3 DEF TypeInv
    <3>2. j[2] = "inline" /\ Working(j) => j[1] # t
      BY <1>0, <2>1 DEF JobOK
    <3>3. j[1] # t => turn'[j[1]] = turn[j[1]]
      BY <1>1, <2>1 DEF TypeInv
    <3> QED BY <1>2, <1>3, <2>1, <3>1, <3>2, <3>3 DEF JobOK, Working, Inside, TypeInv, JobState
  <2> QED BY <2>2, <2>3
<1>11. lock' \in [LockKinds -> Turns \cup {0}]
  BY <1>0 DEF BeginTurn, TakeLock, TypeInv, LockKinds
<1>12. cache' \in 0 .. Len(heap')
  BY <1>1, <1>2, <1>3
<1>13. UNCHANGED <<disk, jobLock, archiving, failures, archived, expected, recalls, crashes>>
  BY DEF BeginTurn, bounds
<1> QED BY <1>3, <1>7, <1>8, <1>10, <1>11, <1>12, <1>13 DEF TypeInv

LEMMA NewSessionTypes ==
  ASSUME TypeInv, NEW t \in Turns, NewSession(t)
  PROVE  TypeInv'
<1> DEFINE cleared == [Loaded EXCEPT !.msgs = <<>>, !.lc = 0]
           snapshot == Unconsolidated(Loaded)
           filed == Filed(archiving[t], snapshot)
           new == Cleared(turn[t])
<1>0. turn[t] \in TurnState /\ turn[t].pc = "idle" /\ archiving[t] \in ArchiveState
  BY DEF NewSession, NextTurn, TypeInv
<1>1. heap' = Put(Handle, cleared) /\ disk' = cleared /\ cache' = NoObj
      /\ archiving' \in {archiving, [archiving EXCEPT ![t] = filed]}
      /\ turn' = [turn EXCEPT ![t] = new] /\ expected' = <<>>
      /\ UNCHANGED <<lock, job, jobLock, failures, archived, recalls, crashes>>
  BY DEF NewSession, Filed, Cleared, bounds
<1>2. cleared \in SessionData
  BY HandleType, EmptySeq DEF SessionData
<1>3. new \in TurnState /\ new.pc = "done" /\ new.obj = turn[t].obj /\ new.sent = turn[t].sent
      /\ new.base = turn[t].base
  BY <1>0, ClearedType
<1>4. filed \in ArchiveState
  BY <1>0, HandleType, HistoryLength, FiledType
<1> HIDE DEF cleared, new, filed
<1>5. heap' \in Seq(SessionData) /\ Len(heap) <= Len(heap') /\ Len(heap') \in Nat /\ Len(heap) \in Nat
  BY <1>1, <1>2, HandleType, PutType, LenProperties DEF TypeInv
<1>6. \A u \in Turns : TurnOK(u)'
  <2> SUFFICES ASSUME NEW u \in Turns PROVE TurnOK(u)'
    OBVIOUS
  <2>1. TurnOK(u) /\ turn[u] \in TurnState /\ turn'[u] = IF u = t THEN new ELSE turn[u]
    BY <1>1 DEF TypeInv
  <2>2. turn[u].obj \in Nat
    BY <2>1, TurnFields
  <2> QED BY <1>3, <1>5, <2>1, <2>2 DEF TurnOK, NoObj
<1>7. \A j \in Jobs : JobOK(j)'
  <2> SUFFICES ASSUME NEW j \in Jobs PROVE JobOK(j)'
    OBVIOUS
  <2>1. JobOK(j) /\ j[1] \in Turns /\ job[j] \in JobState
    BY DEF TypeInv, Jobs
  <2>2. j[1] # t => turn'[j[1]] = turn[j[1]]
    BY <1>1, <2>1 DEF TypeInv
  <2>3. job[j].obj \in Nat
    BY <2>1, JobFields
  <2> QED BY <1>0, <1>1, <1>5, <2>1, <2>2, <2>3 DEF JobOK, Working, Inside
<1>8. archiving' \in [Turns -> ArchiveState]
  BY <1>1, <1>4 DEF TypeInv
<1>9. expected' \in Seq(Message)
  BY <1>1, EmptySeq
<1>10. disk' \in SessionData /\ cache' \in 0 .. Len(heap')
  BY <1>1, <1>2, <1>5 DEF NoObj
<1>11. turn' \in [Turns -> TurnState]
  BY <1>1, <1>3 DEF TypeInv
<1> QED BY <1>1, <1>5, <1>6, <1>7, <1>8, <1>9, <1>10, <1>11 DEF TypeInv

\* A turn and a consolidation that a step leaves alone.
LEMMA TurnFrame ==
  ASSUME TypeInv, NEW u \in Turns, turn'[u] = turn[u], Len(heap') \in Nat, Len(heap) <= Len(heap')
  PROVE  TurnOK(u)'
<1>1. TurnOK(u) /\ turn[u] \in TurnState /\ Len(heap) \in Nat
  BY LenProperties DEF TypeInv
<1>2. turn[u].obj \in Nat
  BY <1>1, TurnFields
<1> QED BY <1>1, <1>2 DEF TurnOK

LEMMA JobFrame ==
  ASSUME TypeInv, NEW j \in Jobs, job'[j] = job[j], Len(heap') \in Nat, Len(heap) <= Len(heap'),
         Inside(j) => jobLock' = {j},
         j[2] = "inline" /\ Working(j) => turn'[j[1]].pc = "consolidating"
  PROVE  JobOK(j)'
<1>1. JobOK(j) /\ job[j] \in JobState /\ Len(heap) \in Nat
  BY LenProperties DEF TypeInv
<1>2. job[j].obj \in Nat
  BY <1>1, JobFields
<1> QED BY <1>1, <1>2 DEF JobOK, Inside, Working

\* Only its turn's step ends an inline consolidation's wait.
LEMMA InlineOf ==
  ASSUME TypeInv, NEW j \in Jobs, j[2] = "inline", Working(j)
  PROVE  j[1] \in Turns /\ turn[j[1]].pc = "consolidating" /\ j = <<j[1], "inline">>
BY DEF TypeInv, JobOK, Jobs

LEMMA BuildPromptTypes ==
  ASSUME TypeInv, NEW t \in Turns, BuildPrompt(t)
  PROVE  TypeInv'
<1> DEFINE s == heap[turn[t].obj]
           hist == History(s)
           base == Len(hist)
           short == turn[t].kind = "user" /\ s.summary /\ base > ShortHistory
           sent == Len(IF short THEN LastN(hist, ShortHistory) ELSE hist)
           asked == Prompted(turn[t], base, sent)
           summary == <<t, "summary">>
           entered == Asked(job[summary], turn[t].obj)
<1>0. turn[t].pc = "ready" /\ turn[t] \in TurnState /\ TurnOK(t) /\ Len(heap) \in Nat
  BY LenProperties DEF BuildPrompt, TypeInv
<1>1. turn[t].obj \in 1 .. Len(heap)
  BY <1>0, TurnFields DEF TurnOK, NoObj
<1>2. hist \in Seq(Message)
  BY <1>1, HistoryLength, ElementOfSeq DEF TypeInv
<1>3. base \in Nat
  BY <1>2, LenProperties
<1>4. sent \in Nat /\ sent <= base
  <2>1. CASE short
    <3>1. Len(LastN(hist, ShortHistory)) = ShortHistory
      <4>1. base - ShortHistory + 1 \in Nat /\ base - ShortHistory + 1 # 0 /\ base <= Len(hist)
        BY <1>3, <2>1, Bounds
      <4> HIDE DEF hist
      <4> QED BY <1>2, <1>3, <4>1, SubSeqType, Bounds DEF LastN
    <3> QED BY <1>3, <2>1, <3>1, Bounds
  <2>2. CASE ~short
    BY <1>3, <2>2
  <2> QED BY <2>1, <2>2
<1>5. turn' = [turn EXCEPT ![t] = asked]
  BY DEF BuildPrompt, Prompted
<1>6. job' \in {job, [job EXCEPT ![summary] = entered]}
  BY DEF BuildPrompt, Asked
<1> HIDE DEF base, sent, s, hist, short
<1>7. asked \in TurnState /\ asked.pc = "graph" /\ asked.obj = turn[t].obj /\ asked.base = base
      /\ asked.sent = sent
  <2> DEFINE c == turn[t]
  <2>1. c \in TurnState /\ base \in Nat /\ sent \in Nat
    BY <1>0, <1>3, <1>4
  <2>2. asked = Prompted(c, base, sent)
    OBVIOUS
  <2> HIDE DEF c, asked
  <2>3. /\ Prompted(c, base, sent) \in TurnState /\ Prompted(c, base, sent).pc = "graph"
        /\ Prompted(c, base, sent).obj = c.obj
        /\ Prompted(c, base, sent).base = base /\ Prompted(c, base, sent).sent = sent
    BY <2>1, PromptedType
  <2> QED BY <2>2, <2>3 DEF c
<1>8. entered \in JobState /\ entered.pc = "wait" /\ entered.obj = turn[t].obj /\ summary \in Jobs
  <2>1. summary \in Jobs
    BY DEF Jobs
  <2>2. job[summary] \in JobState /\ turn[t].obj \in Nat
    BY <1>1, <2>1 DEF TypeInv
  <2> QED BY <2>1, <2>2, AskedType
<1>9. UNCHANGED <<heap, cache, disk, lock, jobLock, archiving, failures, archived, expected,
                  recalls, crashes>>
  BY DEF BuildPrompt, storeVars, bounds
<1> HIDE DEF asked, entered
<1>10. \A u \in Turns : TurnOK(u)'
  <2>1. TurnOK(t)'
    BY <1>1, <1>4, <1>5, <1>7, <1>9 DEF TurnOK, TypeInv, NoObj
  <2> QED BY <1>0, <1>5, <1>9, <2>1, TurnFrame DEF TypeInv
<1>11. \A j \in Jobs : JobOK(j)'
  <2> SUFFICES ASSUME NEW j \in Jobs PROVE JobOK(j)'
    OBVIOUS
  <2>1. CASE job'[j] = job[j]
    <3>1. j[2] = "inline" /\ Working(j) => turn'[j[1]].pc = "consolidating"
      BY <1>0, <1>5, InlineOf DEF TypeInv
    <3>2. Inside(j) => jobLock' = {j}
      BY <1>9 DEF TypeInv, JobOK
    <3> QED BY <1>0, <1>9, <2>1, <3>1, <3>2, JobFrame
  <2>2. CASE job'[j] # job[j]
    <3>1. j = summary /\ job'[j] = entered
      BY <1>6, <1>8, <2>2 DEF TypeInv
    <3>2. j[2] # "inline"
      BY <3>1
    <3> QED BY <1>1, <1>8, <1>9, <3>1, <3>2 DEF JobOK, Working, Inside, NoObj
  <2> QED BY <2>1, <2>2
<1>12. turn' \in [Turns -> TurnState] /\ job' \in [Jobs -> JobState]
  BY <1>5, <1>6, <1>7, <1>8 DEF TypeInv
<1> QED BY <1>9, <1>10, <1>11, <1>12 DEF TypeInv

\* The end of a turn, whose consolidations are the given ones.
LEMMA EndTurnTypes ==
  ASSUME TypeInv, NEW t \in Turns, NEW jobs, EndTurn(t, jobs), Len(heap') \in Nat,
         Len(heap) <= Len(heap')
  PROVE  /\ turn' \in [Turns -> TurnState]
         /\ \A u \in Turns : TurnOK(u)' /\ (u # t => turn'[u] = turn[u])
         /\ lock' \in [LockKinds -> Turns \cup {0}]
<1> DEFINE over == Over(turn[t], "done")
<1>1. turn' = [turn EXCEPT ![t] = over] /\ turn[t] \in TurnState /\ TurnOK(t)
  BY DEF EndTurn, Over, TypeInv
<1>2. over \in TurnState /\ over.pc = "done" /\ over.obj = NoObj /\ over.sent = turn[t].sent
      /\ over.base = turn[t].base
  BY <1>1, OverType
<1> HIDE DEF over
<1>3. TurnOK(t)'
  BY <1>1, <1>2 DEF TurnOK, TypeInv, NoObj
<1>4. \A u \in Turns : u # t => turn'[u] = turn[u]
  BY <1>1 DEF TypeInv
<1>5. lock' \in [LockKinds -> Turns \cup {0}]
  BY DEF EndTurn, TypeInv
<1> QED BY <1>1, <1>2, <1>3, <1>4, <1>5, TurnFrame DEF TypeInv

LEMMA SaveTurnTypes ==
  ASSUME TypeInv, NEW t \in Turns, SaveTurn(t)
  PROVE  TypeInv'
<1> DEFINE o == turn[t].obj
           new == NewMessages(t, turn[t].kind)
           kept == SubSeq(new, 1 + turn[t].base - turn[t].sent, 2)
           saved == [heap[o] EXCEPT !.msgs = @ \o kept]
           background == <<t, "background">>
           entered == Asked(job[background], o)
<1>0. turn[t].pc = "graph" /\ turn[t] \in TurnState /\ TurnOK(t) /\ Len(heap) \in Nat
  BY LenProperties DEF SaveTurn, TypeInv
<1>1. o \in 1 .. Len(heap) /\ heap[o] \in SessionData
  BY <1>0, TurnFields, ElementOfSeq DEF TurnOK, NoObj, TypeInv
<1>2. new \in Seq(Message) /\ Len(new) = 2
  BY NewMessagesType
<1>3. kept \in Seq(Message)
  <2>1. 1 + turn[t].base - turn[t].sent \in Nat /\ 1 + turn[t].base - turn[t].sent # 0
    BY <1>0, TurnFields DEF TurnOK
  <2>2. 2 \in Int /\ 2 <= Len(new)
    BY <1>2
  <2> HIDE DEF new
  <2> QED BY <1>2, <2>1, <2>2, SubSeqType
<1>4. Save(o, saved) /\ expected' = expected \o new /\ EndTurn(t, job')
      /\ UNCHANGED <<jobLock, archiving, failures, archived, recalls, crashes>>
  BY DEF SaveTurn, EndTurn, bounds
<1>5. job' \in {job, [job EXCEPT ![background] = entered]}
  BY DEF SaveTurn, EndTurn, Asked
<1> HIDE DEF kept, new
<1>6. saved \in SessionData
  BY <1>1, <1>3, ConcatProperties DEF SessionData
<1> HIDE DEF saved, o
<1>7. heap' \in Seq(SessionData) /\ disk' \in SessionData /\ cache' \in 0 .. Len(heap')
      /\ Len(heap') \in Nat /\ Len(heap) <= Len(heap')
  <2>1. o \in 1 .. Len(heap) + 1
    BY <1>0, <1>1
  <2> QED BY <1>4, <1>6, <2>1, SaveTypes
<1>8. entered \in JobState /\ entered.pc = "wait" /\ entered.obj = o /\ background \in Jobs
  <2>1. background \in Jobs
    BY DEF Jobs
  <2>2. job[background] \in JobState /\ o \in Nat
    BY <1>1, <2>1 DEF TypeInv
  <2> QED BY <2>1, <2>2, AskedType
<1> HIDE DEF entered
<1>9. \A j \in Jobs : JobOK(j)'
  <2> SUFFICES ASSUME NEW j \in Jobs PROVE JobOK(j)'
    OBVIOUS
  <2>1. CASE job'[j] = job[j]
    <3>1. j[2] = "inline" /\ Working(j) => turn'[j[1]].pc = "consolidating"
      BY <1>0, <1>4, <1>7, InlineOf, EndTurnTypes
    <3>2. Inside(j) => jobLock' = {j}
      BY <1>4 DEF TypeInv, JobOK
    <3> QED BY <1>7, <2>1, <3>1, <3>2, JobFrame
  <2>2. CASE job'[j] # job[j]
    <3>1. j = background /\ job'[j] = entered
      BY <1>5, <1>8, <2>2 DEF TypeInv
    <3>2. j[2] # "inline"
      BY <3>1
    <3> QED BY <1>0, <1>1, <1>7, <1>8, <3>1, <3>2 DEF JobOK, Working, Inside, NoObj
  <2> QED BY <2>1, <2>2
<1>10. job' \in [Jobs -> JobState]
  BY <1>5, <1>8 DEF TypeInv
<1>11. expected' \in Seq(Message)
  BY <1>2, <1>4, ConcatProperties DEF TypeInv
<1> QED BY <1>4, <1>7, <1>9, <1>10, <1>11, EndTurnTypes DEF TypeInv

LEMMA AbortTurnTypes ==
  ASSUME TypeInv, NEW t \in Turns, AbortTurn(t)
  PROVE  TypeInv'
<1> DEFINE inline == <<t, "inline">>
<1>1. /\ EndTurn(t, job') /\ jobLock' = jobLock \ {inline}
      /\ job' = [job EXCEPT ![inline] = Ended(IdleJob)]
      /\ UNCHANGED <<heap, cache, disk, archiving, failures, archived, expected, recalls, crashes>>
  BY DEF AbortTurn, EndTurn, storeVars, bounds
<1>2. inline \in Jobs /\ Len(heap) \in Nat
  BY LenProperties DEF Jobs, TypeInv
<1>3. \A u \in Turns : u # t => turn'[u] = turn[u]
  BY <1>1, <1>2, EndTurnTypes
<1>4. \A j \in Jobs : JobOK(j)'
  <2> SUFFICES ASSUME NEW j \in Jobs PROVE JobOK(j)'
    OBVIOUS
  <2>1. CASE j = inline
    <3>1. job'[j] = Ended(IdleJob)
      BY <1>1, <1>2, <2>1 DEF TypeInv
    <3> QED BY <1>1, <1>2, <3>1, JobEnded DEF JobOK, Working, Inside, NoObj
  <2>2. CASE j # inline
    <3>1. job'[j] = job[j]
      BY <1>1, <1>2, <2>2 DEF TypeInv
    <3>2. j[2] = "inline" /\ Working(j) => turn'[j[1]].pc = "consolidating"
      BY <1>3, <2>2, InlineOf
    <3>3. Inside(j) => jobLock' = {j}
      BY <1>1, <2>2 DEF TypeInv, JobOK
    <3> QED BY <1>1, <1>2, <3>1, <3>2, <3>3, JobFrame
  <2> QED BY <2>1, <2>2
<1>5. job' \in [Jobs -> JobState] /\ (jobLock' = {} \/ \E j \in Jobs : jobLock' = {j})
  BY <1>1, JobEnded DEF TypeInv
<1>6. Len(heap') \in Nat /\ Len(heap) <= Len(heap')
  BY <1>1, <1>2
<1>7. /\ turn' \in [Turns -> TurnState]
      /\ \A u \in Turns : TurnOK(u)'
      /\ lock' \in [LockKinds -> Turns \cup {0}]
  BY <1>1, <1>6, EndTurnTypes
<1> QED BY <1>1, <1>4, <1>5, <1>7 DEF TypeInv

\* Steps that leave the coroutines alone.
LEMMA StoreOnlyTypes ==
  ASSUME TypeInv, NEW o \in 1 .. Len(heap) + 1, NEW s \in SessionData, Save(o, s),
         expected' \in Seq(Message), UNCHANGED <<turn, job, jobLock>>
  PROVE  /\ heap' \in Seq(SessionData) /\ disk' \in SessionData /\ cache' \in 0 .. Len(heap')
         /\ \A u \in Turns : TurnOK(u)'
         /\ \A j \in Jobs : JobOK(j)'
<1>1. heap' \in Seq(SessionData) /\ disk' \in SessionData /\ cache' \in 0 .. Len(heap')
      /\ Len(heap') \in Nat /\ Len(heap) <= Len(heap')
  BY SaveTypes
<1>2. \A u \in Turns : TurnOK(u)'
  BY <1>1, TurnFrame
<1>3. ASSUME NEW j \in Jobs PROVE JobOK(j)'
  <2>1. (Inside(j) => jobLock' = {j})
        /\ (j[2] = "inline" /\ Working(j) => turn'[j[1]].pc = "consolidating")
    BY DEF TypeInv, JobOK
  <2> QED BY <1>1, <2>1, JobFrame
<1> QED BY <1>1, <1>2, <1>3

LEMMA RecallTypes ==
  ASSUME TypeInv, NEW m \in Message, Recall(m)
  PROVE  TypeInv'
<1> DEFINE s == [Loaded EXCEPT !.msgs = Without(@, m)]
<1>1. Save(Handle, s) /\ expected' = Without(expected, m) /\ recalls' = recalls + 1
      /\ recalls < MaxRecalls
      /\ UNCHANGED <<turn, lock, job, jobLock, archiving, failures, archived, crashes>>
  BY DEF Recall
<1>2. s \in SessionData /\ Handle \in 1 .. Len(heap) + 1
  BY HandleType, WithoutType DEF SessionData
<1>3. expected' \in Seq(Message)
  BY <1>1, WithoutType DEF TypeInv
<1> HIDE DEF s
<1>4. recalls' \in 0 .. MaxRecalls
  BY <1>1, Bounds DEF TypeInv
<1> QED BY <1>1, <1>2, <1>3, <1>4, StoreOnlyTypes DEF TypeInv

\* Consolidations: the end of one, and what it may save.
LEMMA EndJobTypes ==
  ASSUME TypeInv, NEW j \in Jobs, Inside(j), EndJob(j), Len(heap') \in Nat, Len(heap) <= Len(heap')
  PROVE  /\ turn' \in [Turns -> TurnState] /\ job' \in [Jobs -> JobState]
         /\ \A u \in Turns : TurnOK(u)'
         /\ \A k \in Jobs : JobOK(k)'
         /\ jobLock' = {}
<1>1. job' = [job EXCEPT ![j] = Ended(IdleJob)] /\ jobLock' = {}
  BY DEF EndJob
<1>2. job' \in [Jobs -> JobState]
  BY <1>1, JobEnded DEF TypeInv
<1>3. j[2] = "inline" => /\ turn[j[1]].pc = "consolidating" /\ j[1] \in Turns
                        /\ j = <<j[1], "inline">>
  BY InlineOf DEF Working
<1>4. turn' = IF j[2] = "inline" THEN [turn EXCEPT ![j[1]].pc = "ready"] ELSE turn
  BY DEF EndJob
<1>5. ASSUME NEW u \in Turns
      PROVE  /\ turn'[u] \in TurnState /\ TurnOK(u)'
             /\ turn'[u] # turn[u] => j = <<u, "inline">>
  <2>1. CASE j[2] = "inline" /\ u = j[1]
    <3> DEFINE c == turn[u]
               r == [c EXCEPT !.pc = "ready"]
    <3>1. turn'[u] = r /\ c \in TurnState /\ TurnOK(u) /\ c.pc = "consolidating"
      BY <1>3, <1>4, <2>1 DEF TypeInv
    <3>2. r \in TurnState /\ r.obj = c.obj /\ r.sent = c.sent /\ r.base = c.base /\ c.obj \in Nat
      BY <3>1 DEF TurnState, TurnPcs
    <3>3. Len(heap) \in Nat
      BY LenProperties DEF TypeInv
    <3> HIDE DEF r
    <3> QED BY <1>3, <2>1, <3>1, <3>2, <3>3 DEF TurnOK
  <2>2. CASE ~(j[2] = "inline" /\ u = j[1])
    <3>1. turn'[u] = turn[u]
      BY <1>3, <1>4, <2>2 DEF TypeInv
    <3> QED BY <3>1, TurnFrame DEF TypeInv
  <2> QED BY <2>1, <2>2
<1>6. turn' \in [Turns -> TurnState]
  <2>1. turn' = [u \in Turns |-> turn'[u]]
    BY <1>4 DEF TypeInv
  <2> QED BY <1>5, <2>1
<1>7. ASSUME NEW k \in Jobs PROVE JobOK(k)'
  <2>1. CASE k = j
    <3>1. job'[k] = Ended(IdleJob)
      BY <1>1, <2>1 DEF TypeInv
    <3> QED BY <3>1, JobEnded DEF JobOK, Working, Inside, NoObj
  <2>2. CASE k # j
    <3>1. job'[k] = job[k]
      BY <1>1, <2>2 DEF TypeInv
    <3>2. ~Inside(k)
      BY <2>2 DEF TypeInv, JobOK
    <3>3. k[2] = "inline" /\ Working(k) => turn'[k[1]].pc = "consolidating"
      BY <1>5, <2>2, InlineOf
    <3> QED BY <3>1, <3>2, <3>3, JobFrame
  <2> QED BY <2>1, <2>2
<1> QED BY <1>1, <1>2, <1>5, <1>6, <1>7

\* A consolidation that enters, or stays inside.
LEMMA InsideTypes ==
  ASSUME TypeInv, NEW j \in Jobs, Working(j), NEW r \in JobState, r.pc \in {"pick", "llm"},
         r.obj = job[j].obj, job' = [job EXCEPT ![j] = r], turn' = turn,
         jobLock' = {j}, jobLock \in {{}, {j}}, Len(heap') \in Nat, Len(heap) <= Len(heap')
  PROVE  /\ job' \in [Jobs -> JobState]
         /\ \A u \in Turns : TurnOK(u)'
         /\ \A k \in Jobs : JobOK(k)'
         /\ \E k \in Jobs : jobLock' = {k}
<1>1. job' \in [Jobs -> JobState] /\ \E k \in Jobs : jobLock' = {k}
  BY DEF TypeInv
<1>2. \A u \in Turns : TurnOK(u)'
  BY TurnFrame
<1>3. ASSUME NEW k \in Jobs PROVE JobOK(k)'
  <2>1. CASE k = j
    <3>1. job'[k] = r /\ JobOK(j) /\ job[j].obj \in Nat /\ Len(heap) \in Nat
      BY <2>1, JobFields, LenProperties DEF TypeInv
    <3> QED BY <2>1, <3>1 DEF JobOK, Working, Inside
  <2>2. CASE k # j
    <3>1. job'[k] = job[k] /\ JobOK(k)
      BY <2>2 DEF TypeInv
    <3>2. ~Inside(k)
      BY <2>2, <3>1 DEF JobOK
    <3> QED BY <3>1, <3>2, JobFrame DEF JobOK
  <2> QED BY <2>1, <2>2
<1> QED BY <1>1, <1>2, <1>3

\* A consolidation that is inside may change its place there.
LEMMA MovedType ==
  ASSUME NEW c \in JobState, NEW pc \in {"pick", "llm"}
  PROVE  [c EXCEPT !.pc = pc] \in JobState /\ [c EXCEPT !.pc = pc].pc = pc
         /\ [c EXCEPT !.pc = pc].obj = c.obj
BY DEF JobState

LEMMA MovedTypes ==
  ASSUME TypeInv, NEW j \in Jobs, Working(j), NEW pc \in {"pick", "llm"},
         job' = [job EXCEPT ![j].pc = pc], turn' = turn,
         jobLock' = {j}, jobLock \in {{}, {j}}, Len(heap') \in Nat, Len(heap) <= Len(heap')
  PROVE  /\ job' \in [Jobs -> JobState]
         /\ \A u \in Turns : TurnOK(u)'
         /\ \A k \in Jobs : JobOK(k)'
         /\ \E k \in Jobs : jobLock' = {k}
<1> DEFINE c == job[j]
           r == [c EXCEPT !.pc = pc]
<1>1. job' = [job EXCEPT ![j] = r] /\ c \in JobState
  BY DEF TypeInv
<1>2. r \in JobState /\ r.pc = pc /\ r.obj = c.obj
  BY <1>1, MovedType
<1> HIDE DEF r
<1> QED BY <1>1, <1>2, InsideTypes

LEMMA EnterTypes ==
  ASSUME TypeInv, NEW j \in Jobs, TakeJobLock(j) \/ Summarize(j)
  PROVE  TypeInv'
<1>1. /\ Working(j) /\ jobLock' = {j} /\ jobLock \in {{}, {j}}
      /\ \E pc \in {"pick", "llm"} : job' = [job EXCEPT ![j].pc = pc]
      /\ UNCHANGED <<heap, cache, disk, turn, lock, archiving, failures, archived, expected,
                     recalls, crashes>>
  BY DEF TakeJobLock, Summarize, Working, Inside, TypeInv, JobOK, storeVars, bounds
<1>2. Len(heap') \in Nat /\ Len(heap) <= Len(heap')
  BY <1>1, LenProperties DEF TypeInv
<1>3. /\ job' \in [Jobs -> JobState]
      /\ \A u \in Turns : TurnOK(u)'
      /\ \A k \in Jobs : JobOK(k)'
      /\ \E k \in Jobs : jobLock' = {k}
  BY <1>1, <1>2, MovedTypes
<1> QED BY <1>1, <1>3 DEF TypeInv

LEMMA PickChunkTypes ==
  ASSUME TypeInv, NEW j \in Jobs, PickChunk(j)
  PROVE  TypeInv'
<1> DEFINE o == job[j].obj
           s == heap[o]
<1>1. /\ job[j].pc = "pick" /\ job[j].round < MaxRounds /\ Working(j) /\ jobLock = {j}
      /\ UNCHANGED <<heap, cache, disk, turn, lock, jobLock, archiving, failures, archived,
                     expected, recalls, crashes>>
  BY DEF PickChunk, Working, Inside, TypeInv, JobOK, storeVars, bounds
<1>2. job[j] \in JobState /\ o \in 1 .. Len(heap) /\ Len(heap) \in Nat
  BY <1>1, JobFields, LenProperties DEF TypeInv, JobOK, NoObj
<1>3. s \in SessionData
  BY <1>2, ElementOfSeq DEF TypeInv
<1>4. PICK e \in Boundaries(s) : job' = [job EXCEPT ![j] = Picked(job[j], e, SubSeq(s.msgs, s.lc + 1, e))]
  BY DEF PickChunk, Picked
<1>5. e \in Nat /\ SubSeq(s.msgs, s.lc + 1, e) \in Seq(Message)
  <2>1. s.msgs \in Seq(Message) /\ s.lc \in Nat /\ Len(s.msgs) \in Nat
    BY <1>3, LenProperties DEF SessionData
  <2>2. e \in s.lc + 1 .. Len(s.msgs) - 1
    BY DEF Boundaries
  <2> QED BY <2>1, <2>2, SubSeqType
<1> DEFINE r == Picked(job[j], e, SubSeq(s.msgs, s.lc + 1, e))
<1>6. r \in JobState /\ r.pc = "llm" /\ r.obj = o
  <2> DEFINE chunk == SubSeq(s.msgs, s.lc + 1, e)
  <2>1. job[j] \in JobState /\ job[j].round < MaxRounds /\ e \in Nat /\ chunk \in Seq(Message)
    BY <1>1, <1>2, <1>5
  <2> HIDE DEF chunk
  <2>2. Picked(job[j], e, chunk) \in JobState /\ Picked(job[j], e, chunk).pc = "llm"
        /\ Picked(job[j], e, chunk).obj = job[j].obj
    BY <2>1, PickedType
  <2> QED BY <2>2 DEF chunk
<1>7. Len(heap') \in Nat /\ Len(heap) <= Len(heap')
  BY <1>1, <1>2
<1> HIDE DEF r
<1>8. /\ job' \in [Jobs -> JobState]
      /\ \A u \in Turns : TurnOK(u)'
      /\ \A k \in Jobs : JobOK(k)'
      /\ \E k \in Jobs : jobLock' = {k}
  BY <1>1, <1>4, <1>6, <1>7, InsideTypes DEF r
<1> QED BY <1>1, <1>8 DEF TypeInv

\* A chunk that is archived and hidden from the history.
LEMMA HideTypes ==
  ASSUME TypeInv, NEW j \in Jobs, job[j].pc = "llm", Archive(job[j].chunk),
         Save(job[j].obj, [heap[job[j].obj] EXCEPT !.lc = job[j].end]),
         job' = [job EXCEPT ![j].pc = "pick"], failures' = 0,
         UNCHANGED <<turn, lock, jobLock, archiving, expected, recalls, crashes>>
  PROVE  TypeInv'
<1> DEFINE o == job[j].obj
           s == [heap[o] EXCEPT !.lc = job[j].end]
<1>1. Working(j) /\ jobLock = {j}
  BY DEF Working, Inside, TypeInv, JobOK
<1>2. job[j] \in JobState /\ o \in 1 .. Len(heap) /\ Len(heap) \in Nat
  BY <1>1, JobFields, LenProperties DEF TypeInv, JobOK, NoObj
<1>3. s \in SessionData
  <2>1. heap[o] \in SessionData /\ job[j].end \in Nat
    BY <1>2, ElementOfSeq, JobFields DEF TypeInv
  <2> QED BY <2>1 DEF SessionData
<1>4. archived' \in [Turns \X {1, 2} -> Nat]
  BY <1>2, JobFields, ArchiveType DEF TypeInv
<1>5. heap' \in Seq(SessionData) /\ disk' \in SessionData /\ cache' \in 0 .. Len(heap')
      /\ Len(heap') \in Nat /\ Len(heap) <= Len(heap')
  <2>1. o \in 1 .. Len(heap) + 1 /\ Save(o, s)
    BY <1>2
  <2> HIDE DEF o, s
  <2> QED BY <1>3, <2>1, SaveTypes
<1>6. /\ job' \in [Jobs -> JobState]
      /\ \A u \in Turns : TurnOK(u)'
      /\ \A k \in Jobs : JobOK(k)'
      /\ \E k \in Jobs : jobLock' = {k}
  BY <1>1, <1>5, MovedTypes
<1> QED BY <1>4, <1>5, <1>6 DEF TypeInv, MaxFailures

LEMMA NothingTypes ==
  ASSUME TypeInv, NEW j \in Jobs, NothingToConsolidate(j)
  PROVE  TypeInv'
<1>1. /\ Inside(j) /\ EndJob(j)
      /\ UNCHANGED <<heap, cache, disk, lock, archiving, failures, archived, expected, recalls, crashes>>
  BY DEF NothingToConsolidate, Inside, storeVars, bounds
<1>2. Len(heap') \in Nat /\ Len(heap) <= Len(heap')
  BY <1>1, LenProperties DEF TypeInv
<1> QED BY <1>1, <1>2, EndJobTypes DEF TypeInv

LEMMA FailsTypes ==
  ASSUME TypeInv, NEW j \in Jobs, ConsolidationFails(j)
  PROVE  TypeInv'
<1>1. CASE failures + 1 < MaxFailures
  <2>1. /\ Inside(j) /\ EndJob(j) /\ failures' = failures + 1
        /\ UNCHANGED <<heap, cache, disk, lock, archiving, archived, expected, recalls, crashes>>
    BY <1>1 DEF ConsolidationFails, Inside, storeVars, bounds
  <2>2. Len(heap') \in Nat /\ Len(heap) <= Len(heap')
    BY <2>1, LenProperties DEF TypeInv
  <2>3. failures' \in 0 .. MaxFailures - 1
    BY <1>1, <2>1 DEF TypeInv, MaxFailures
  <2> QED BY <2>1, <2>2, <2>3, EndJobTypes DEF TypeInv
<1>2. CASE ~(failures + 1 < MaxFailures)
  BY <1>2, HideTypes DEF ConsolidationFails, bounds
<1> QED BY <1>1, <1>2

LEMMA SummarizedTypes ==
  ASSUME TypeInv, NEW j \in Jobs, Summarized(j)
  PROVE  TypeInv'
<1> DEFINE o == job[j].obj
           s == [heap[o] EXCEPT !.summary = TRUE]
<1>1. /\ Inside(j) /\ EndJob(j) /\ (Save(o, s) \/ UNCHANGED <<heap, cache, disk>>)
      /\ UNCHANGED <<lock, archiving, failures, archived, expected, recalls, crashes>>
  BY DEF Summarized, Inside, storeVars, bounds
<1>2. job[j] \in JobState /\ o \in 1 .. Len(heap) /\ Len(heap) \in Nat
  BY <1>1, JobFields, LenProperties DEF TypeInv, JobOK, NoObj, Working
<1>3. s \in SessionData
  <2>1. heap[o] \in SessionData
    BY <1>2, ElementOfSeq DEF TypeInv
  <2> QED BY <2>1 DEF SessionData
<1>4. heap' \in Seq(SessionData) /\ disk' \in SessionData /\ cache' \in 0 .. Len(heap')
      /\ Len(heap') \in Nat /\ Len(heap) <= Len(heap')
  <2>1. o \in 1 .. Len(heap) + 1
    BY <1>2
  <2> HIDE DEF o, s
  <2>2. CASE Save(o, s)
    BY <1>3, <2>1, <2>2, SaveTypes
  <2>3. CASE UNCHANGED <<heap, cache, disk>>
    BY <1>2, <2>3 DEF TypeInv
  <2> QED BY <1>1, <2>2, <2>3
<1> QED BY <1>1, <1>4, EndJobTypes DEF TypeInv

LEMMA ArchiveStepTypes ==
  ASSUME TypeInv, NEW t \in Turns, ArchiveSucceeds(t) \/ ArchiveFails(t)
  PROVE  TypeInv'
<1> DEFINE c == archiving[t]
           again == [c EXCEPT !.tries = c.tries + 1]
<1>0. c \in ArchiveState
  BY DEF TypeInv
<1>1. /\ UNCHANGED <<heap, cache, disk, turn, lock, job, jobLock, expected, recalls, crashes>>
      /\ archived' = archived \/ Archive(c.msgs)
      /\ \/ archiving' = [archiving EXCEPT ![t] = Ended(IdleArchive)]
         \/ archiving' = [archiving EXCEPT ![t] = again] /\ c.tries + 1 # MaxFailures
      /\ failures' = 0 \/ (failures' = failures + 1 /\ failures + 1 < MaxFailures)
  BY DEF ArchiveSucceeds, ArchiveFails, ArchiveDone, storeVars, bounds
<1>2. archived' \in [Turns \X {1, 2} -> Nat]
  BY <1>0, <1>1, ArchiveType DEF TypeInv, ArchiveState
<1>3. c.tries + 1 # MaxFailures => again \in ArchiveState
  BY <1>0 DEF ArchiveState, MaxFailures
<1> HIDE DEF again
<1>4. archiving' \in [Turns -> ArchiveState]
  BY <1>1, <1>3, ArchiveEnded DEF TypeInv
<1>5. failures' \in 0 .. MaxFailures - 1
  BY <1>1 DEF TypeInv, MaxFailures
<1>6. (\A u \in Turns : TurnOK(u)') /\ \A j \in Jobs : JobOK(j)'
  BY <1>1 DEF TypeInv, TurnOK, JobOK, Working, Inside
<1> QED BY <1>1, <1>2, <1>4, <1>5, <1>6 DEF TypeInv

LEMMA LoseTypes ==
  ASSUME TypeInv, Lose
  PROVE  /\ heap' \in Seq(SessionData) /\ cache' \in 0 .. Len(heap')
         /\ turn' \in [Turns -> TurnState] /\ \A t \in Turns : TurnOK(t)'
         /\ lock' \in [LockKinds -> Turns \cup {0}]
         /\ job' \in [Jobs -> JobState] /\ \A j \in Jobs : JobOK(j)'
         /\ jobLock' = {}
         /\ archiving' \in [Turns -> ArchiveState]
         /\ failures' \in 0 .. MaxFailures - 1
         /\ expected' = expected
         /\ recalls' \in 0 .. MaxRecalls /\ crashes' \in 0 .. MaxCrashes
<1>1. heap' = <<>> /\ Len(heap') = 0 /\ heap' \in Seq(SessionData) /\ cache' = 0
  BY EmptySeq DEF Lose, NoObj
<1>2. ASSUME NEW t \in Turns
      PROVE  turn'[t] \in TurnState /\ TurnOK(t)'
  <2> DEFINE pc == IF turn[t].pc = "idle" THEN "idle" ELSE "done"
  <2>1. turn'[t] = Over(turn[t], pc)
    BY DEF Lose, Over
  <2>2. turn[t] \in TurnState /\ TurnOK(t) /\ pc \in {"idle", "done"}
    BY DEF TypeInv
  <2> HIDE DEF pc
  <2>3. /\ Over(turn[t], pc) \in TurnState
        /\ Over(turn[t], pc).pc = pc /\ Over(turn[t], pc).obj = NoObj
        /\ Over(turn[t], pc).base = turn[t].base /\ Over(turn[t], pc).sent = turn[t].sent
    BY <2>2, OverType
  <2> QED BY <1>1, <2>1, <2>2, <2>3 DEF TurnOK, NoObj
<1>3. ASSUME NEW j \in Jobs
      PROVE  job'[j] \in JobState /\ JobOK(j)'
  <2>1. job'[j] = IdleJob \/ job'[j] = Ended(IdleJob)
    BY DEF Lose, Stopped
  <2>2. job'[j] \in JobState /\ job'[j].pc \in {"idle", "done"} /\ job'[j].obj = 0
    BY <2>1, JobEnded DEF NoObj
  <2> QED BY <1>1, <2>2 DEF JobOK, Working, Inside
<1>4. archiving' \in [Turns -> ArchiveState]
  BY ArchiveEnded DEF Lose, Stopped
<1>5. turn' \in [Turns -> TurnState] /\ job' \in [Jobs -> JobState]
  BY <1>2, <1>3 DEF Lose
<1>6. crashes' \in 0 .. MaxCrashes /\ recalls' \in 0 .. MaxRecalls
  <2>1. crashes < MaxCrashes /\ crashes' = crashes + 1 /\ recalls' = recalls
    BY DEF Lose
  <2>2. crashes \in 0 .. MaxCrashes /\ recalls \in 0 .. MaxRecalls
    BY DEF TypeInv
  <2> QED BY Bounds, <2>1, <2>2
<1>7. lock' \in [LockKinds -> Turns \cup {0}]
  BY DEF Lose
<1>8. failures' \in 0 .. MaxFailures - 1
  <2>1. failures' = 0
    BY DEF Lose
  <2> QED BY <2>1 DEF MaxFailures
<1>9. jobLock' = {} /\ expected' = expected
  BY DEF Lose
<1> QED BY <1>1, <1>2, <1>3, <1>4, <1>5, <1>6, <1>7, <1>8, <1>9

LEMMA NextTypes == TypeInv /\ [Next]_vars => TypeInv'
<1> SUFFICES ASSUME TypeInv, [Next]_vars PROVE TypeInv'
  OBVIOUS
<1>1. ASSUME NEW t \in Turns, TurnStep(t) PROVE TypeInv'
  BY <1>1, BeginTypes, NewSessionTypes, BuildPromptTypes, SaveTurnTypes, AbortTurnTypes,
     ArchiveStepTypes DEF TurnStep
<1>2. ASSUME NEW j \in Jobs, Consolidated(j) PROVE TypeInv'
  BY <1>2, HideTypes DEF Consolidated, bounds
<1>3. ASSUME NEW j \in Jobs, JobStep(j) PROVE TypeInv'
  BY <1>2, <1>3, EnterTypes, NothingTypes, PickChunkTypes, FailsTypes, SummarizedTypes DEF JobStep
<1>4. ASSUME NEW j \in Jobs, CrashAfterArchive(j) PROVE TypeInv'
  <2>1. job[j].chunk \in Seq(Message)
    BY JobFields DEF TypeInv
  <2>2. archived' \in [Turns \X {1, 2} -> Nat]
    BY <1>4, <2>1, ArchiveType DEF CrashAfterArchive, TypeInv
  <2> QED BY <1>4, <2>2, LoseTypes DEF CrashAfterArchive, TypeInv
<1>5. ASSUME NEW m \in Message, Recall(m) PROVE TypeInv'
  BY <1>5, RecallTypes
<1>6. CASE OtherConsolidation
  <2>1. /\ UNCHANGED <<heap, cache, disk, turn, lock, job, jobLock, archiving, archived, expected,
                       recalls, crashes>>
        /\ failures' \in 0 .. MaxFailures - 1
    BY <1>6 DEF OtherConsolidation, storeVars, bounds, TypeInv, MaxFailures
  <2> QED BY <2>1 DEF TypeInv, TurnOK, JobOK, Working, Inside
<1>7. CASE Crash
  BY <1>7, LoseTypes DEF Crash, TypeInv
<1>8. CASE UNCHANGED vars
  BY <1>8 DEF vars, storeVars, bounds, TypeInv, TurnOK, JobOK, Working, Inside
<1> QED BY <1>1, <1>3, <1>4, <1>5, <1>6, <1>7, <1>8 DEF Next

LEMMA TypesAlways == Spec => []TypeInv
BY InitTypes, NextTypes, PTL DEF Spec

\* Sessions, coroutines, locks, failure count and archive keep their types, and
\* at most one consolidation of the session is inside its lock (memory.py,
\* get_lock), through every turn, failure, recall and restart.
THEOREM StoreTypeCorrect == Spec => []TypeOK
<1>1. TypeInv => TypeOK
  <2> SUFFICES ASSUME TypeInv PROVE TypeOK
    OBVIOUS
  <2>1. ASSUME NEW t \in Turns
        PROVE  turn[t] \in [pc : {"idle", "consolidating", "ready", "graph", "done"},
                            kind : {"user", "system", "new"}, obj : 0 .. Len(heap),
                            base : Nat, sent : Nat]
    <3>1. turn[t] \in TurnState /\ turn[t].obj \in 0 .. Len(heap)
      BY TurnFields, LenProperties DEF TypeInv, TurnOK
    <3> QED BY <3>1 DEF TurnState, TurnPcs, KindNames
  <2>2. ASSUME NEW j \in Jobs
        PROVE  job[j] \in [pc : {"idle", "wait", "pick", "llm", "done"}, obj : 0 .. Len(heap),
                           chunk : Seq(Message), end : Nat, round : 0 .. MaxRounds]
    <3>1. job[j] \in JobState /\ job[j].obj \in 0 .. Len(heap)
      BY JobFields, LenProperties DEF TypeInv, JobOK
    <3> QED BY <3>1 DEF JobState
  <2>3. jobLock \subseteq Jobs /\ Cardinality(jobLock) <= 1
    <3>1. CASE jobLock = {}
      <4>1. Cardinality({}) = 0
        BY FS_EmptySet
      <4> QED BY <3>1, <4>1
    <3>2. ASSUME NEW j \in Jobs, jobLock = {j} PROVE jobLock \subseteq Jobs /\ Cardinality(jobLock) <= 1
      <4>1. Cardinality({j}) = 1
        BY FS_Singleton
      <4> QED BY <3>2, <4>1
    <3> QED BY <3>1, <3>2 DEF TypeInv
  <2>4. turn = [t \in Turns |-> turn[t]] /\ job = [j \in Jobs |-> job[j]]
    BY DEF TypeInv
  <2> QED BY <2>1, <2>2, <2>3, <2>4 DEF TypeOK, TypeInv, ArchiveState
<1> QED BY <1>1, TypesAlways, PTL

-----------------------------------------------------------------------------
(* The safety properties.                                                  *)

\* Turns take a kind when they start, and keep it; only /new has something to
\* archive in the background.
TurnsInv ==
  \A t \in Turns :
    /\ turn[t].pc = "idle" => turn[t].kind = "user"
    /\ turn[t].kind = "new" => turn[t].pc = "done"
    /\ archiving[t].pc # "idle" => turn[t].kind = "new"

CacheInv == cache # NoObj => heap[cache] = disk

Id(m) == <<m.turn, m.part>>

\* Messages are those of turns that are over; each has one place.
DoneMessages(S) == \A m \in S : turn[m.turn].pc = "done"
OncePerPlace(msgs) == \A p, q \in DOMAIN msgs : Id(msgs[p]) = Id(msgs[q]) => p = q

MessagesInv ==
  /\ \A o \in DOMAIN heap : DoneMessages(ToSet(heap[o].msgs))
  /\ DoneMessages(ToSet(disk.msgs)) /\ DoneMessages(ToSet(expected))

NoNew == \A t \in Turns : turn[t].kind # "new"

\* Until a /new there is at most one Session object.
SingleInv ==
  NoNew => \/ heap = <<>> /\ cache = NoObj
           \/ heap = <<disk>> /\ cache = 1

OneNew == \A t, u \in Turns : turn[t].kind = "new" /\ turn[u].kind = "new" => t = u

\* Objects that /new separated share no message.
ReturnsInv ==
  OneNew => /\ \A o \in DOMAIN heap : ToSet(heap[o].msgs) \subseteq ToSet(expected)
            /\ ToSet(disk.msgs) \subseteq ToSet(expected)
            /\ \A o, q \in DOMAIN heap :
                 o # q => ToSet(heap[o].msgs) \cap ToSet(heap[q].msgs) = {}
            /\ cache = NoObj => heap = <<>> \/ disk.msgs = <<>>

\* Saved turns.
KeptInv ==
  Edited \/ /\ ToSet(disk.msgs) = {m \in ToSet(expected) : ~Skipped(m)}
            /\ (\A t \in Turns : turn[t].pc = "done" => turn[t].sent = turn[t].base)
                 => disk.msgs = expected

\* The offset, and the chunk that the one consolidation inside its model call
\* will put behind it.
UserAt(p) == p < Len(disk.msgs) /\ disk.msgs[p + 1].role = "user"
ChunkOK(j) ==
  /\ job[j].end \in disk.lc + 1 .. Len(disk.msgs) - 1 /\ UserAt(job[j].end)
  /\ job[j].chunk = SubSeq(disk.msgs, disk.lc + 1, job[j].end)
OffsetInv ==
  Edited \/ /\ disk.lc > 0 => UserAt(disk.lc)
            /\ \A j \in Jobs : job[j].pc = "llm" /\ j[2] # "summary" => ChunkOK(j)

Hidden(m) == \E p \in 1 .. disk.lc : Id(disk.msgs[p]) = m
ArchivedInv ==
  Edited \/ /\ OncePerPlace(disk.msgs)
            /\ \A m \in Turns \X {1, 2} :
                 /\ Hidden(m) => archived[m] \in 1 .. 1 + crashes
                 /\ ~Hidden(m) => archived[m] \in 0 .. crashes

-----------------------------------------------------------------------------
(* What a step does to the turns.                                          *)

\* A turn starts once and keeps its kind; a turn that is over stays as it is.
Moved(u) ==
  /\ turn[u].pc # "idle" => turn'[u].pc # "idle" /\ turn'[u].kind = turn[u].kind
  /\ turn[u].pc = "done" => /\ turn'[u].pc = "done"
                            /\ turn'[u].base = turn[u].base /\ turn'[u].sent = turn[u].sent
  /\ turn'[u].pc = "idle" => turn'[u].kind = turn[u].kind
  /\ turn'[u].kind = "new" => turn[u].kind = "new" \/ NewSession(u)
  /\ turn'[u].kind = "new" => turn'[u].pc = "done"

LEMMA OneMoved ==
  ASSUME TypeInv, TurnsInv, NEW t \in Turns, NEW r, turn' = [turn EXCEPT ![t] = r],
         turn[t].pc # "done", r.pc # "idle",
         r.kind = turn[t].kind \/ (turn[t].pc = "idle" /\ (r.kind = "new" => NewSession(t))),
         r.kind = "new" => r.pc = "done"
  PROVE  \A u \in Turns : Moved(u)
<1> SUFFICES ASSUME NEW u \in Turns PROVE Moved(u)
  OBVIOUS
<1>1. turn'[u] = IF u = t THEN r ELSE turn[u]
  BY DEF TypeInv
<1> QED BY <1>1 DEF Moved, TurnsInv

LEMMA StillMoved == ASSUME TypeInv, TurnsInv, turn' = turn PROVE \A u \in Turns : Moved(u)
BY DEF Moved, TurnsInv

LEMMA TurnStepMoves ==
  ASSUME TypeInv, TurnsInv, NEW t \in Turns, TurnStep(t)
  PROVE  \A u \in Turns : Moved(u)
<1>0. turn[t] \in TurnState
  BY DEF TypeInv
<1>1. ASSUME NEW kind \in TurnKinds, BeginTurn(t, kind) PROVE \A u \in Turns : Moved(u)
  <2> DEFINE pc == IF Loaded.msgs = <<>> THEN "ready" ELSE "consolidating"
             r == Begun(turn[t], kind, Handle, pc)
  <2>1. /\ turn' = [turn EXCEPT ![t] = r]
        /\ turn[t].pc = "idle" /\ kind # "new" /\ pc \in {"ready", "consolidating"}
    BY <1>1 DEF BeginTurn, NextTurn, Begun
  <2>2. kind \in KindNames /\ Handle \in Nat /\ pc \in TurnPcs
    BY Bounds, HandleType, <2>1 DEF KindNames, TurnPcs
  <2> HIDE DEF pc
  <2>3. r.pc = pc /\ r.kind = kind
    BY <1>0, <2>2, BegunType
  <2> HIDE DEF r
  <2> QED BY <2>1, <2>3, OneMoved
<1>2. CASE NewSession(t)
  <2> DEFINE r == Cleared(turn[t])
  <2>1. turn' = [turn EXCEPT ![t] = r] /\ turn[t].pc = "idle"
    BY <1>2 DEF NewSession, NextTurn, Cleared
  <2>2. r.pc = "done" /\ r.kind = "new"
    BY <1>0, ClearedType
  <2> HIDE DEF r
  <2> QED BY <1>2, <2>1, <2>2, OneMoved
<1>3. CASE BuildPrompt(t)
  <2>1. PICK b, n : turn' = [turn EXCEPT ![t] = [turn[t] EXCEPT !.pc = "graph", !.base = b, !.sent = n]]
    BY <1>3 DEF BuildPrompt
  <2> DEFINE c == turn[t]
             r == [c EXCEPT !.pc = "graph", !.base = b, !.sent = n]
  <2>2. turn[t].pc = "ready"
    BY <1>3 DEF BuildPrompt
  <2>3. r.pc = "graph" /\ r.kind = c.kind
    BY <1>0 DEF TurnState
  <2>4. turn' = [turn EXCEPT ![t] = r]
    BY <2>1
  <2> HIDE DEF r
  <2>5. r.kind = "new" => r.pc = "done"
    BY <2>2, <2>3 DEF TurnsInv
  <2> QED BY <2>2, <2>3, <2>4, <2>5, OneMoved
<1>4. CASE SaveTurn(t) \/ AbortTurn(t)
  <2> DEFINE r == Over(turn[t], "done")
  <2>1. turn' = [turn EXCEPT ![t] = r] /\ turn[t].pc \in {"consolidating", "ready", "graph"}
    BY <1>4 DEF SaveTurn, AbortTurn, EndTurn, Over
  <2>2. r.pc = "done" /\ r.kind = turn[t].kind
    BY <1>0, OverType
  <2> HIDE DEF r
  <2> QED BY <2>1, <2>2, OneMoved
<1>5. CASE ArchiveSucceeds(t) \/ ArchiveFails(t)
  BY <1>5, StillMoved DEF ArchiveSucceeds, ArchiveFails
<1> QED BY <1>1, <1>2, <1>3, <1>4, <1>5 DEF TurnStep

LEMMA EndJobMoves ==
  ASSUME TypeInv, TurnsInv, NEW j \in Jobs, Inside(j), EndJob(j)
  PROVE  \A u \in Turns : Moved(u)
<1>1. CASE j[2] = "inline"
  <2> DEFINE t == j[1]
             c == turn[t]
             r == [c EXCEPT !.pc = "ready"]
  <2>1. t \in Turns /\ c.pc = "consolidating"
    BY <1>1, InlineOf DEF Working
  <2>2. c \in TurnState
    BY <2>1 DEF TypeInv
  <2>3. r.pc = "ready" /\ r.kind = c.kind
    BY <2>2 DEF TurnState
  <2>4. turn' = [turn EXCEPT ![t] = r]
    BY <1>1 DEF EndJob
  <2> HIDE DEF r, t
  <2>5. r.kind = "new" => r.pc = "done"
    BY <2>1, <2>3 DEF TurnsInv
  <2> QED BY <2>1, <2>3, <2>4, <2>5, OneMoved
<1>2. CASE j[2] # "inline"
  BY <1>2, StillMoved DEF EndJob
<1> QED BY <1>1, <1>2

LEMMA LoseMoves ==
  ASSUME TypeInv, TurnsInv, Lose
  PROVE  \A u \in Turns : Moved(u)
<1> SUFFICES ASSUME NEW u \in Turns PROVE Moved(u)
  OBVIOUS
<1> DEFINE pc == IF turn[u].pc = "idle" THEN "idle" ELSE "done"
           r == Over(turn[u], pc)
<1>1. turn'[u] = r /\ turn[u] \in TurnState
  BY DEF Lose, Over, TypeInv
<1>2. pc \in {"idle", "done"}
  OBVIOUS
<1>3. r.pc = pc /\ r.kind = turn[u].kind /\ r.base = turn[u].base /\ r.sent = turn[u].sent
  BY <1>1, <1>2, OverType
<1> HIDE DEF r
<1> QED BY <1>1, <1>3 DEF Moved, TurnsInv

LEMMA TurnMoves ==
  ASSUME TypeInv, TurnsInv, [Next]_vars
  PROVE  \A u \in Turns : Moved(u)
<1>1. ASSUME NEW j \in Jobs, JobStep(j) PROVE \A u \in Turns : Moved(u)
  <2>1. turn' = turn \/ (Inside(j) /\ EndJob(j))
    BY <1>1 DEF JobStep, TakeJobLock, NothingToConsolidate, PickChunk, Consolidated,
                ConsolidationFails, Summarize, Summarized, Inside
  <2> QED BY <2>1, StillMoved, EndJobMoves
<1>2. ASSUME NEW m \in Message, Recall(m) PROVE turn' = turn
  BY <1>2 DEF Recall
<1>3. CASE OtherConsolidation \/ UNCHANGED vars
  BY <1>3, StillMoved DEF OtherConsolidation, vars
<1> QED BY <1>1, <1>2, <1>3, TurnStepMoves, LoseMoves, StillMoved
        DEF Next, Crash, CrashAfterArchive

LEMMA TurnsStep == TypeInv /\ TurnsInv /\ [Next]_vars => TurnsInv'
<1> SUFFICES ASSUME TypeInv, TurnsInv, [Next]_vars, NEW t \in Turns
             PROVE  /\ turn'[t].pc = "idle" => turn'[t].kind = "user"
                    /\ turn'[t].kind = "new" => turn'[t].pc = "done"
                    /\ archiving'[t].pc # "idle" => turn'[t].kind = "new"
  BY DEF TurnsInv
<1>1. Moved(t)
  BY TurnMoves
<1>2. turn'[t].pc = "idle" => turn'[t].kind = "user"
  BY <1>1 DEF Moved, TurnsInv
<1>3. ASSUME archiving'[t].pc # "idle" PROVE archiving[t].pc # "idle" \/ NewSession(t)
  <2>1. ASSUME NEW u \in Turns, NewSession(u), u # t PROVE archiving'[t] = archiving[t]
    BY <2>1 DEF NewSession, TypeInv
  <2>2. ASSUME NEW u \in Turns, ArchiveSucceeds(u) \/ ArchiveFails(u)
        PROVE  archiving[t].pc # "idle"
    <3>1. CASE u = t
      BY <2>2, <3>1 DEF ArchiveSucceeds, ArchiveFails
    <3>2. CASE u # t
      <4>1. archiving'[t] = archiving[t]
        BY <2>2, <3>2 DEF ArchiveSucceeds, ArchiveFails, ArchiveDone, TypeInv
      <4> QED BY <1>3, <4>1
    <3> QED BY <3>1, <3>2
  <2>3. ASSUME NEW u \in Turns, TurnStep(u) PROVE archiving[t].pc # "idle" \/ NewSession(t)
    <3>1. archiving' = archiving \/ NewSession(u) \/ ArchiveSucceeds(u) \/ ArchiveFails(u)
      BY <2>3 DEF TurnStep, BeginTurn, BuildPrompt, SaveTurn, AbortTurn
    <3> QED BY <1>3, <2>1, <2>2, <3>1
  <2>4. ASSUME NEW j \in Jobs, JobStep(j) PROVE archiving' = archiving
    BY <2>4 DEF JobStep, TakeJobLock, NothingToConsolidate, PickChunk, Consolidated,
                ConsolidationFails, Summarize, Summarized
  <2>5. CASE Lose
    <3>1. archiving'[t] = Stopped(archiving[t], IdleArchive)
      BY <2>5 DEF Lose
    <3> QED BY <1>3, <3>1 DEF Stopped, IdleArchive
  <2>6. ASSUME NEW m \in Message, Recall(m) PROVE archiving' = archiving
    BY <2>6 DEF Recall
  <2>7. CASE OtherConsolidation \/ UNCHANGED vars
    BY <1>3, <2>7 DEF OtherConsolidation, vars
  <2> QED BY <1>3, <2>3, <2>4, <2>5, <2>6, <2>7 DEF Next, Crash, CrashAfterArchive
<1>4. turn'[t].kind = "new" => turn'[t].pc = "done"
  BY <1>1 DEF Moved
<1>5. ASSUME archiving'[t].pc # "idle" PROVE turn'[t].kind = "new"
  <2>1. CASE archiving[t].pc # "idle"
    BY <1>1, <2>1 DEF Moved, TurnsInv
  <2>2. CASE NewSession(t)
    <3>1. turn[t] \in TurnState /\ turn'[t] = Cleared(turn[t])
      BY <2>2 DEF NewSession, Cleared, TypeInv
    <3> QED BY <3>1, ClearedType
  <2> QED BY <1>3, <1>5, <2>1, <2>2
<1> QED BY <1>2, <1>4, <1>5

LEMMA TurnsAlways == Spec => []TurnsInv
<1>1. Init => TurnsInv
  BY DEF Init, TurnsInv, IdleTurn, IdleArchive
<1> QED BY <1>1, TurnsStep, TypesAlways, PTL DEF Spec

-----------------------------------------------------------------------------
(* What a step does to the session.                                        *)

Same == UNCHANGED <<heap, cache, disk, expected, recalls>>
Opened == /\ heap' = Put(Handle, Loaded) /\ cache' = Handle
          /\ UNCHANGED <<disk, expected, recalls>>
Resaved == \E o \in 1 .. Len(heap) : \E s \in SessionData :
             s.msgs = heap[o].msgs /\ Save(o, s) /\ UNCHANGED <<expected, recalls>>
Lost == heap' = <<>> /\ cache' = NoObj /\ UNCHANGED <<disk, expected, recalls>>

\* The object that a consolidation saves.
LEMMA HeldByJob ==
  ASSUME TypeInv, NEW j \in Jobs, Inside(j)
  PROVE  job[j].obj \in 1 .. Len(heap) /\ heap[job[j].obj] \in SessionData /\ job[j] \in JobState
<1>1. job[j] \in JobState /\ job[j].obj \in 1 .. Len(heap)
  BY JobFields, LenProperties DEF TypeInv, JobOK, Working, NoObj
<1> QED BY <1>1, ElementOfSeq DEF TypeInv

LEMMA JobStepSession ==
  ASSUME TypeInv, NEW j \in Jobs, JobStep(j)
  PROVE  Same \/ Resaved
<1>1. CASE TakeJobLock(j) \/ NothingToConsolidate(j) \/ PickChunk(j) \/ Summarize(j)
  BY <1>1 DEF TakeJobLock, NothingToConsolidate, PickChunk, Summarize, Same, storeVars, bounds
<1> DEFINE o == job[j].obj
           hidden == [heap[o] EXCEPT !.lc = job[j].end]
           summed == [heap[o] EXCEPT !.summary = TRUE]
<1>2. ASSUME Inside(j) PROVE /\ hidden \in SessionData /\ hidden.msgs = heap[o].msgs
                             /\ summed \in SessionData /\ summed.msgs = heap[o].msgs
                             /\ o \in 1 .. Len(heap)
  <2>1. heap[o] \in SessionData /\ job[j].end \in Nat /\ o \in 1 .. Len(heap)
    BY <1>2, HeldByJob, JobFields
  <2> QED BY <2>1 DEF SessionData
<1>3. CASE Consolidated(j) \/ ConsolidationFails(j)
  <2>1. Inside(j) /\ UNCHANGED <<expected, recalls>> /\ (Save(o, hidden) \/ UNCHANGED storeVars)
    BY <1>3 DEF Consolidated, ConsolidationFails, Inside, bounds
  <2> QED BY <1>2, <2>1 DEF Same, Resaved, storeVars
<1>4. CASE Summarized(j)
  <2>1. Inside(j) /\ UNCHANGED <<expected, recalls>> /\ (Save(o, summed) \/ UNCHANGED storeVars)
    BY <1>4 DEF Summarized, Inside, bounds
  <2> QED BY <1>2, <2>1 DEF Same, Resaved, storeVars
<1> QED BY <1>1, <1>3, <1>4 DEF JobStep

LEMMA SessionSteps ==
  ASSUME TypeInv, [Next]_vars
  PROVE  \/ Same \/ Opened \/ Resaved \/ Lost
         \/ \E t \in Turns : SaveTurn(t) \/ NewSession(t)
         \/ \E m \in Message : Recall(m)
<1>1. ASSUME NEW t \in Turns, TurnStep(t) PROVE Same \/ Opened \/ SaveTurn(t) \/ NewSession(t)
  BY <1>1 DEF TurnStep, BeginTurn, BuildPrompt, AbortTurn, ArchiveSucceeds, ArchiveFails,
              Same, Opened, storeVars, bounds
<1>2. Crash \/ (\E j \in Jobs : CrashAfterArchive(j)) => Lost
  BY DEF Crash, CrashAfterArchive, Lose, Lost
<1>3. OtherConsolidation \/ UNCHANGED vars => Same
  BY DEF OtherConsolidation, vars, Same, storeVars, bounds
<1> QED BY <1>1, <1>2, <1>3, JobStepSession DEF Next

-----------------------------------------------------------------------------
(* The cache.                                                              *)

LEMMA PutAt ==
  ASSUME TypeInv, NEW o \in 1 .. Len(heap) + 1, NEW s \in SessionData
  PROVE  o \in 1 .. Len(Put(o, s)) /\ Put(o, s)[o] = s
<1>1. Len(heap) \in Nat /\ heap \in Seq(SessionData)
  BY LenProperties DEF TypeInv
<1>2. o \in 1 .. Len(Put(o, s))
  BY <1>1, PutType
<1> QED BY <1>1, <1>2, PutType

LEMMA SaveCaches ==
  ASSUME TypeInv, NEW o \in 1 .. Len(heap) + 1, NEW s \in SessionData, Save(o, s)
  PROVE  cache' = o /\ o # NoObj /\ heap'[o] = s /\ disk' = s
<1>1. Len(heap) \in Nat /\ heap' = Put(o, s) /\ disk' = s /\ cache' = o
  BY LenProperties DEF TypeInv, Save
<1>2. heap'[o] = s
  BY <1>1, PutAt
<1> QED BY <1>1, <1>2 DEF NoObj

\* The messages that _save_turn adds.
Added(t) == SubSeq(NewMessages(t, turn[t].kind), 1 + turn[t].base - turn[t].sent, 2)
Grown(t) == [heap[turn[t].obj] EXCEPT !.msgs = @ \o Added(t)]

LEMMA SaveTurnEffect ==
  ASSUME TypeInv, NEW t \in Turns, SaveTurn(t)
  PROVE  /\ turn[t].obj \in 1 .. Len(heap) /\ heap[turn[t].obj] \in SessionData
         /\ Grown(t) \in SessionData /\ Save(turn[t].obj, Grown(t))
         /\ Added(t) \in Seq(Message) /\ Grown(t).msgs = heap[turn[t].obj].msgs \o Added(t)
         /\ Grown(t).lc = heap[turn[t].obj].lc
         /\ turn[t].pc = "graph" /\ recalls' = recalls
         /\ expected' = expected \o NewMessages(t, turn[t].kind)
<1> DEFINE o == turn[t].obj
           new == NewMessages(t, turn[t].kind)
<1>0. turn[t].pc = "graph" /\ turn[t] \in TurnState /\ TurnOK(t) /\ Len(heap) \in Nat
  BY LenProperties DEF SaveTurn, TypeInv
<1>1. o \in 1 .. Len(heap) /\ heap[o] \in SessionData
  BY <1>0, TurnFields, ElementOfSeq DEF TurnOK, NoObj, TypeInv
<1>2. new \in Seq(Message) /\ Len(new) = 2
  BY NewMessagesType
<1>3. Added(t) \in Seq(Message)
  <2> DEFINE a == 1 + turn[t].base - turn[t].sent
  <2>1. a \in Nat /\ a # 0
    BY <1>0, TurnFields DEF TurnOK
  <2>2. 2 \in Int /\ 2 <= Len(new) /\ Added(t) = SubSeq(new, a, 2)
    BY <1>2 DEF Added
  <2> HIDE DEF new, a
  <2>3. SubSeq(new, a, 2) \in Seq(Message)
    BY <1>2, <2>1, <2>2, SubSeqType
  <2> QED BY <2>2, <2>3
<1>4. Save(o, Grown(t)) /\ expected' = expected \o new /\ recalls' = recalls
  BY DEF SaveTurn, bounds, Grown, Added
<1>5. heap[o].msgs \o Added(t) \in Seq(Message)
  BY <1>1, <1>3, ConcatProperties DEF SessionData
<1>6. /\ Grown(t) \in SessionData /\ Grown(t).msgs = heap[o].msgs \o Added(t)
      /\ Grown(t).lc = heap[o].lc
  BY <1>1, <1>5 DEF SessionData, Grown
<1> QED BY <1>0, <1>1, <1>3, <1>4, <1>6

\* They are those that the code does not take for history, in their order.
LEMMA AddedMessages ==
  ASSUME NEW t \in Turns, turn[t] \in TurnState, TurnOK(t)
  PROVE  /\ ToSet(Added(t)) = {m \in ToSet(NewMessages(t, turn[t].kind)) : ~Skipped(m)}
         /\ OncePerPlace(Added(t))
         /\ turn[t].sent = turn[t].base => Added(t) = NewMessages(t, turn[t].kind)
<1> DEFINE new == NewMessages(t, turn[t].kind)
           d == turn[t].base - turn[t].sent
           a == 1 + d
           kept == Added(t)
<1>0. d \in Nat /\ a \in Nat /\ a # 0
  BY TurnFields DEF TurnOK
<1>1. new \in Seq(Message) /\ Len(new) = 2 /\ DOMAIN new = 1 .. 2
      /\ \A i \in 1 .. 2 : new[i].turn = t /\ new[i].part = i
  BY NewMessagesType, LenProperties
<1>2. \A i \in 1 .. 2 : Skipped(new[i]) <=> i <= d
  BY <1>1 DEF Skipped
<1>3. kept = SubSeq(new, a, 2)
  BY DEF Added
<1> HIDE DEF new, kept, d
<1>4. /\ kept \in Seq(Message)
      /\ Len(kept) = IF a <= 2 THEN 2 - a + 1 ELSE 0
      /\ \A i \in 1 .. 2 - a + 1 : kept[i] = new[a + i - 1]
  <2>1. 2 \in Int /\ 2 <= Len(new)
    BY <1>1
  <2> HIDE DEF a
  <2>2. /\ SubSeq(new, a, 2) \in Seq(Message)
        /\ Len(SubSeq(new, a, 2)) = IF a <= 2 THEN 2 - a + 1 ELSE 0
        /\ \A i \in 1 .. 2 - a + 1 : SubSeq(new, a, 2)[i] = new[a + i - 1]
    BY <1>0, <1>1, <2>1, SubSeqType
  <2> QED BY <1>3, <2>2
<1>5. DOMAIN kept = 1 .. 2 - d
  BY <1>0, <1>4, LenProperties
<1>6. \A i \in 1 .. 2 - d : kept[i] = new[d + i] /\ d + i \in 1 .. 2
  BY <1>0, <1>4
<1>7. ToSet(kept) = {new[d + i] : i \in 1 .. 2 - d}
  BY <1>5, <1>6 DEF ToSet
<1>8. {new[d + i] : i \in 1 .. 2 - d} = {new[i] : i \in {k \in 1 .. 2 : ~(k <= d)}}
  <2>1. ASSUME NEW k \in 1 .. 2, ~(k <= d) PROVE new[k] \in {new[d + i] : i \in 1 .. 2 - d}
    <3>1. k - d \in 1 .. 2 - d /\ d + (k - d) = k
      BY <1>0, <2>1
    <3> QED BY <3>1
  <2>2. ASSUME NEW i \in 1 .. 2 - d PROVE d + i \in {k \in 1 .. 2 : ~(k <= d)}
    BY <1>0
  <2> QED BY <2>1, <2>2
<1>9. ToSet(kept) = {m \in ToSet(new) : ~Skipped(m)}
  <2>1. ToSet(new) = {new[i] : i \in 1 .. 2}
    BY <1>1 DEF ToSet
  <2> QED BY <1>2, <1>7, <1>8, <2>1
<1>10. OncePerPlace(kept)
  <2> SUFFICES ASSUME NEW p \in 1 .. 2 - d, NEW q \in 1 .. 2 - d, Id(kept[p]) = Id(kept[q])
               PROVE  p = q
    BY <1>5 DEF OncePerPlace
  <2>1. d + p = d + q
    BY <1>1, <1>6 DEF Id
  <2> QED BY <1>0, <2>1
<1>11. d = 0 => kept = new
  <2> SUFFICES ASSUME d = 0 PROVE kept = new
    OBVIOUS
  <2>1. Len(kept) = 2 /\ \A i \in 1 .. 2 : kept[i] = new[i]
    BY <1>4, <1>6
  <2> QED BY <1>1, <1>4, <2>1, SeqEqual
<1>12. turn[t].sent = turn[t].base => d = 0
  BY TurnFields DEF d
<1> QED BY <1>9, <1>10, <1>11, <1>12 DEF new, kept

\* A recall, and what it takes away.
Recalled(m) == [Loaded EXCEPT !.msgs = Without(@, m)]

LEMMA RecallEffect ==
  ASSUME TypeInv, NEW m \in Message, Recall(m)
  PROVE  /\ Recalled(m) \in SessionData /\ Save(Handle, Recalled(m))
         /\ Handle \in 1 .. Len(heap) + 1
         /\ m \in ToSet(Loaded.msgs)
         /\ ToSet(Recalled(m).msgs) = ToSet(Loaded.msgs) \ {m}
         /\ ToSet(expected') = ToSet(expected) \ {m}
         /\ turn' = turn /\ recalls' = recalls + 1
<1>1. Loaded \in SessionData /\ Handle \in 1 .. Len(heap) + 1 /\ expected \in Seq(Message)
  BY HandleType DEF TypeInv
<1>2. Loaded.msgs \in Seq(Message)
  BY <1>1 DEF SessionData
<1>3. /\ Without(Loaded.msgs, m) \in Seq(Message)
      /\ ToSet(Without(Loaded.msgs, m)) = ToSet(Loaded.msgs) \ {m}
      /\ ToSet(Without(expected, m)) = ToSet(expected) \ {m}
  BY <1>1, <1>2, WithoutType
<1>4. Recalled(m) \in SessionData /\ Recalled(m).msgs = Without(Loaded.msgs, m)
  BY <1>1, <1>3 DEF Recalled, SessionData
<1>5. /\ Save(Handle, Recalled(m)) /\ expected' = Without(expected, m)
      /\ m \in ToSet(Loaded.msgs) /\ turn' = turn /\ recalls' = recalls + 1
  BY DEF Recall, Recalled
<1> QED BY <1>1, <1>3, <1>4, <1>5

LEMMA CacheStep == TypeInv /\ CacheInv /\ [Next]_vars => CacheInv'
<1> SUFFICES ASSUME TypeInv, CacheInv, [Next]_vars PROVE CacheInv'
  OBVIOUS
<1>1. CASE Same
  BY <1>1 DEF Same, CacheInv
<1>2. CASE Opened
  <2>1. Loaded \in SessionData /\ Handle \in 1 .. Len(heap) + 1
    BY HandleType
  <2>2. Put(Handle, Loaded)[Handle] = Loaded
    BY <2>1, PutAt
  <2>3. Loaded = disk
    BY DEF Loaded, CacheInv
  <2> QED BY <1>2, <2>2, <2>3 DEF Opened, CacheInv
<1>3. CASE Resaved
  <2>1. PICK o \in 1 .. Len(heap), s \in SessionData : Save(o, s)
    BY <1>3 DEF Resaved
  <2>2. o \in 1 .. Len(heap) + 1
    BY LenProperties DEF TypeInv
  <2> QED BY <2>1, <2>2, SaveCaches DEF CacheInv
<1>4. CASE Lost \/ \E t \in Turns : NewSession(t)
  BY <1>4 DEF Lost, NewSession, CacheInv
<1>5. ASSUME NEW t \in Turns, SaveTurn(t) PROVE CacheInv'
  <2>1. turn[t].obj \in 1 .. Len(heap) + 1 /\ Grown(t) \in SessionData /\ Save(turn[t].obj, Grown(t))
    BY <1>5, SaveTurnEffect, LenProperties DEF TypeInv
  <2> QED BY <2>1, SaveCaches DEF CacheInv
<1>6. ASSUME NEW m \in Message, Recall(m) PROVE CacheInv'
  BY <1>6, RecallEffect, SaveCaches DEF CacheInv
<1> QED BY <1>1, <1>2, <1>3, <1>4, <1>5, <1>6, SessionSteps

LEMMA CacheAlways == Spec => []CacheInv
<1>1. Init => CacheInv
  BY DEF Init, CacheInv
<1> QED BY <1>1, CacheStep, TypesAlways, PTL DEF Spec

\* A reader of the session sees what the file holds, whichever coroutine saved
\* last and whichever Session object it held (session/manager.py, save and
\* get_or_create): no step leaves the cache and the file apart.
THEOREM CacheFollowsFile == Spec => []CacheMatchesDisk
<1>1. CacheInv => CacheMatchesDisk
  BY DEF CacheInv, CacheMatchesDisk, Current
<1> QED BY <1>1, CacheAlways, PTL

-----------------------------------------------------------------------------
(* Messages.                                                               *)

LEMMA PutHeap ==
  ASSUME TypeInv, NEW o \in 1 .. Len(heap) + 1, NEW s \in SessionData
  PROVE  /\ DOMAIN heap = 1 .. Len(heap)
         /\ DOMAIN Put(o, s) = DOMAIN heap \cup {o}
         /\ \A q \in DOMAIN Put(o, s) : Put(o, s)[q] = IF q = o THEN s ELSE heap[q]
<1>1. Len(heap) \in Nat /\ heap \in Seq(SessionData) /\ DOMAIN heap = 1 .. Len(heap)
  BY LenProperties DEF TypeInv
<1>2. /\ Put(o, s) \in Seq(SessionData)
      /\ Len(Put(o, s)) = IF o > Len(heap) THEN Len(heap) + 1 ELSE Len(heap)
      /\ \A q \in 1 .. Len(Put(o, s)) : Put(o, s)[q] = IF q = o THEN s ELSE heap[q]
  BY <1>1, PutType
<1>3. DOMAIN Put(o, s) = 1 .. Len(Put(o, s))
  BY <1>2, LenProperties
<1>4. 1 .. Len(Put(o, s)) = (1 .. Len(heap)) \cup {o}
  BY <1>1, <1>2
<1> QED BY <1>1, <1>2, <1>3, <1>4

LEMMA SetOfType == ASSUME NEW S, NEW s \in Seq(S) PROVE ToSet(s) \subseteq S
BY LenProperties DEF ToSet

LEMMA SetOfEmpty == ToSet(<<>>) = {}
BY DEF ToSet

LEMMA SessionMessages == ASSUME NEW s \in SessionData PROVE ToSet(s.msgs) \subseteq Message
BY SetOfType DEF SessionData

LEMMA ObjectMessages ==
  ASSUME TypeInv
  PROVE  /\ \A o \in DOMAIN heap : heap[o] \in SessionData /\ ToSet(heap[o].msgs) \subseteq Message
         /\ ToSet(disk.msgs) \subseteq Message /\ ToSet(expected) \subseteq Message
<1>1. \A o \in DOMAIN heap : heap[o] \in SessionData
  BY LenProperties, ElementOfSeq DEF TypeInv
<1> QED BY <1>1, SessionMessages, SetOfType DEF TypeInv

\* The messages of turns that are over stay so; the messages a turn adds are of
\* one that just ended.
StillDone(S) == \A m \in S : turn'[m.turn].pc = "done"

LEMMA DoneStay ==
  ASSUME TypeInv, TurnsInv, [Next]_vars
  PROVE  \A S \in SUBSET Message : DoneMessages(S) => StillDone(S)
BY TurnMoves DEF Moved, DoneMessages, StillDone, Message

LEMMA AddedDone ==
  ASSUME TypeInv, NEW t \in Turns, SaveTurn(t)
  PROVE  /\ ToSet(Added(t)) \subseteq ToSet(NewMessages(t, turn[t].kind))
         /\ StillDone(ToSet(NewMessages(t, turn[t].kind)))
         /\ \A m \in ToSet(NewMessages(t, turn[t].kind)) : m.turn = t
         /\ turn[t].pc = "graph"
         /\ ToSet(expected') = ToSet(expected) \cup ToSet(NewMessages(t, turn[t].kind))
         /\ ToSet(Grown(t).msgs) = ToSet(heap[turn[t].obj].msgs) \cup ToSet(Added(t))
<1> DEFINE new == NewMessages(t, turn[t].kind)
<1>1. turn[t] \in TurnState /\ TurnOK(t)
  BY DEF TypeInv
<1>2. ToSet(Added(t)) \subseteq ToSet(new)
  BY <1>1, AddedMessages
<1>3. \A m \in ToSet(new) : m.turn = t
  BY NewMessagesType, LenProperties DEF ToSet
<1>4. turn'[t].pc = "done"
  <2>1. turn'[t] = Over(turn[t], "done")
    BY <1>1 DEF SaveTurn, EndTurn, Over, TypeInv
  <2> QED BY <1>1, <2>1, OverType
<1>5. new \in Seq(Message)
  BY NewMessagesType
<1>6. /\ expected' = expected \o new /\ Added(t) \in Seq(Message)
      /\ Grown(t).msgs = heap[turn[t].obj].msgs \o Added(t)
      /\ heap[turn[t].obj] \in SessionData /\ turn[t].pc = "graph"
  BY SaveTurnEffect
<1>7. heap[turn[t].obj].msgs \in Seq(Message)
  BY <1>6 DEF SessionData
<1> HIDE DEF new
<1>8. ToSet(expected') = ToSet(expected) \cup ToSet(new)
  BY <1>5, <1>6, SetOfConcat DEF TypeInv
<1>9. ToSet(Grown(t).msgs) = ToSet(heap[turn[t].obj].msgs) \cup ToSet(Added(t))
  BY <1>6, <1>7, SetOfConcat
<1>10. StillDone(ToSet(new))
  BY <1>3, <1>4 DEF StillDone
<1> QED BY <1>2, <1>3, <1>6, <1>8, <1>9, <1>10 DEF new

\* A /new, and the session it leaves.
LEMMA NewSessionEffect ==
  ASSUME TypeInv, NEW t \in Turns, NewSession(t)
  PROVE  \E s \in SessionData :
           /\ s.msgs = <<>> /\ heap' = Put(Handle, s) /\ disk' = s
           /\ cache' = NoObj /\ expected' = <<>> /\ turn'[t].kind = "new" /\ turn[t].pc = "idle"
<1> DEFINE s == [Loaded EXCEPT !.msgs = <<>>, !.lc = 0]
<1>1. s \in SessionData /\ s.msgs = <<>>
  BY HandleType, EmptySeq DEF SessionData
<1>2. heap' = Put(Handle, s) /\ disk' = s /\ cache' = NoObj /\ expected' = <<>> /\ turn[t].pc = "idle"
  BY DEF NewSession, NextTurn
<1>3. turn'[t] = Cleared(turn[t]) /\ turn[t] \in TurnState
  BY DEF NewSession, TypeInv, Cleared
<1>4. turn'[t].kind = "new"
  BY <1>3, ClearedType
<1> HIDE DEF s
<1> QED BY <1>1, <1>2, <1>4

LEMMA HeapDone ==
  ASSUME TypeInv, \A o \in DOMAIN heap : StillDone(ToSet(heap[o].msgs)),
         NEW o \in 1 .. Len(heap) + 1, NEW s \in SessionData, StillDone(ToSet(s.msgs)),
         heap' = Put(o, s)
  PROVE  \A q \in DOMAIN heap' : StillDone(ToSet(heap'[q].msgs))
<1> SUFFICES ASSUME NEW q \in DOMAIN heap' PROVE StillDone(ToSet(heap'[q].msgs))
  OBVIOUS
<1>1. heap'[q] = (IF q = o THEN s ELSE heap[q]) /\ q \in DOMAIN heap \cup {o}
  BY PutHeap
<1> QED BY <1>1

LEMMA MessagesStep == TypeInv /\ TurnsInv /\ MessagesInv /\ [Next]_vars => MessagesInv'
<1> SUFFICES ASSUME TypeInv, TurnsInv, MessagesInv, [Next]_vars
             PROVE  /\ \A o \in DOMAIN heap' : StillDone(ToSet(heap'[o].msgs))
                    /\ StillDone(ToSet(disk'.msgs)) /\ StillDone(ToSet(expected'))
  BY DEF MessagesInv, DoneMessages, StillDone
<1>1. /\ \A o \in DOMAIN heap : StillDone(ToSet(heap[o].msgs))
      /\ StillDone(ToSet(disk.msgs)) /\ StillDone(ToSet(expected))
  BY ObjectMessages, DoneStay DEF MessagesInv
<1>2. Loaded \in SessionData /\ Handle \in 1 .. Len(heap) + 1 /\ StillDone(ToSet(Loaded.msgs))
  BY <1>1, HandleType, LenProperties DEF Loaded, TypeInv, NoObj
<1>3. CASE Same
  BY <1>1, <1>3 DEF Same
<1>4. CASE Opened
  <2>1. heap' = Put(Handle, Loaded) /\ disk' = disk /\ expected' = expected
    BY <1>4 DEF Opened
  <2> QED BY <1>1, <1>2, <2>1, HeapDone
<1>5. CASE Resaved
  <2>1. PICK o \in 1 .. Len(heap), s \in SessionData :
          s.msgs = heap[o].msgs /\ Save(o, s) /\ expected' = expected
    BY <1>5 DEF Resaved
  <2>2. o \in 1 .. Len(heap) + 1 /\ o \in DOMAIN heap
    BY LenProperties DEF TypeInv
  <2>3. heap' = Put(o, s) /\ disk' = s /\ StillDone(ToSet(s.msgs))
    BY <1>1, <2>1, <2>2 DEF Save
  <2> QED BY <1>1, <2>1, <2>2, <2>3, HeapDone
<1>6. CASE Lost
  BY <1>1, <1>6, EmptySeq DEF Lost
<1>7. ASSUME NEW t \in Turns, SaveTurn(t)
      PROVE  /\ \A o \in DOMAIN heap' : StillDone(ToSet(heap'[o].msgs))
             /\ StillDone(ToSet(disk'.msgs)) /\ StillDone(ToSet(expected'))
  <2> DEFINE o == turn[t].obj
             s == Grown(t)
  <2>1. s \in SessionData /\ heap' = Put(o, s) /\ disk' = s /\ o \in 1 .. Len(heap)
    BY <1>7, SaveTurnEffect DEF Save
  <2>2. o \in 1 .. Len(heap) + 1 /\ o \in DOMAIN heap
    BY <2>1, LenProperties DEF TypeInv
  <2>3. StillDone(ToSet(s.msgs)) /\ StillDone(ToSet(expected'))
    BY <1>1, <1>7, <2>2, AddedDone DEF StillDone
  <2> HIDE DEF s, o
  <2> QED BY <1>1, <2>1, <2>2, <2>3, HeapDone
<1>8. ASSUME NEW t \in Turns, NewSession(t)
      PROVE  /\ \A o \in DOMAIN heap' : StillDone(ToSet(heap'[o].msgs))
             /\ StillDone(ToSet(disk'.msgs)) /\ StillDone(ToSet(expected'))
  <2>1. PICK s \in SessionData : /\ s.msgs = <<>> /\ heap' = Put(Handle, s) /\ disk' = s
                                 /\ expected' = <<>>
    BY <1>8, NewSessionEffect
  <2>2. StillDone(ToSet(<<>>))
    BY SetOfEmpty DEF StillDone
  <2> QED BY <1>1, <1>2, <2>1, <2>2, HeapDone
<1>9. ASSUME NEW m \in Message, Recall(m)
      PROVE  /\ \A o \in DOMAIN heap' : StillDone(ToSet(heap'[o].msgs))
             /\ StillDone(ToSet(disk'.msgs)) /\ StillDone(ToSet(expected'))
  <2>1. /\ Recalled(m) \in SessionData /\ heap' = Put(Handle, Recalled(m)) /\ disk' = Recalled(m)
        /\ ToSet(Recalled(m).msgs) \subseteq ToSet(Loaded.msgs)
        /\ ToSet(expected') \subseteq ToSet(expected)
    BY <1>9, RecallEffect DEF Save
  <2>2. StillDone(ToSet(Recalled(m).msgs)) /\ StillDone(ToSet(expected'))
    BY <1>1, <1>2, <2>1 DEF StillDone
  <2> QED BY <1>1, <1>2, <2>1, <2>2, HeapDone
<1> QED BY <1>3, <1>4, <1>5, <1>6, <1>7, <1>8, <1>9, SessionSteps

LEMMA MessagesAlways == Spec => []MessagesInv
<1>1. Init => MessagesInv
  BY SetOfEmpty DEF Init, MessagesInv, DoneMessages, Fresh
<1> QED BY <1>1, MessagesStep, TypesAlways, TurnsAlways, PTL DEF Spec

-----------------------------------------------------------------------------
(* What /new separates.                                                    *)

LEMMA KindsStay ==
  ASSUME TypeInv, TurnsInv, [Next]_vars
  PROVE  /\ NoNew' => NoNew /\ ~\E t \in Turns : NewSession(t)
         /\ OneNew' => OneNew
         /\ \A t \in Turns : OneNew' /\ NewSession(t) => NoNew
<1>1. \A t \in Turns : turn[t].kind = "new" => turn'[t].kind = "new"
  BY TurnMoves DEF Moved, TurnsInv
<1>2. \A t \in Turns : NewSession(t) => turn'[t].kind = "new" /\ turn[t].kind # "new"
  BY NewSessionEffect DEF TurnsInv
<1> QED BY <1>1, <1>2 DEF NoNew, OneNew

\* With a single object, every save is of that one.
Single == \/ heap = <<>> /\ cache = NoObj
          \/ heap = <<disk>> /\ cache = 1

LEMMA SinglePut ==
  ASSUME TypeInv, Single
  PROVE  /\ Handle = 1 /\ Loaded = disk
         /\ \A o \in 1 .. Len(heap) : o = 1
         /\ \A s : Put(1, s) = <<s>>
<1>1. CASE heap = <<>> /\ cache = NoObj
  <2>1. Len(heap) = 0
    BY <1>1, EmptySeq
  <2> QED BY <1>1, <2>1 DEF Handle, Loaded, Put
<1>2. CASE heap = <<disk>> /\ cache = 1
  <2>1. Len(heap) = 1 /\ heap[1] = disk /\ 1 # NoObj
    BY <1>2 DEF NoObj
  <2>2. ASSUME NEW s PROVE Put(1, s) = <<s>>
    <3>1. Put(1, s) = [heap EXCEPT ![1] = s]
      BY <2>1 DEF Put
    <3> QED BY <1>2, <3>1
  <2> QED BY <1>2, <2>1, <2>2 DEF Handle, Loaded
<1> QED BY <1>1, <1>2 DEF Single

LEMMA SingleStep == TypeInv /\ TurnsInv /\ SingleInv /\ [Next]_vars => SingleInv'
<1> SUFFICES ASSUME TypeInv, TurnsInv, SingleInv, [Next]_vars, NoNew'
             PROVE  \/ heap' = <<>> /\ cache' = NoObj
                    \/ heap' = <<disk'>> /\ cache' = 1
  BY DEF SingleInv
<1>1. Single /\ ~\E t \in Turns : NewSession(t)
  BY KindsStay DEF SingleInv, Single
<1>2. CASE Same \/ Lost
  BY <1>1, <1>2 DEF Same, Lost, Single
<1>3. CASE Opened
  BY <1>1, <1>3, SinglePut DEF Opened
<1>4. CASE Resaved
  BY <1>1, <1>4, SinglePut DEF Resaved, Save
<1>5. ASSUME NEW t \in Turns, SaveTurn(t) PROVE heap' = <<disk'>> /\ cache' = 1
  BY <1>1, <1>5, SinglePut, SaveTurnEffect DEF Save
<1>6. ASSUME NEW m \in Message, Recall(m) PROVE heap' = <<disk'>> /\ cache' = 1
  BY <1>1, <1>6, SinglePut, RecallEffect DEF Save
<1> QED BY <1>1, <1>2, <1>3, <1>4, <1>5, <1>6, SessionSteps

LEMMA SingleAlways == Spec => []SingleInv
<1>1. Init => SingleInv
  BY DEF Init, SingleInv
<1> QED BY <1>1, SingleStep, TypesAlways, TurnsAlways, PTL DEF Spec

\* The objects that a step leaves, and the messages in them.
Apart(h, d, e, c) ==
  /\ \A o \in DOMAIN h : ToSet(h[o].msgs) \subseteq ToSet(e)
  /\ ToSet(d.msgs) \subseteq ToSet(e)
  /\ \A o, q \in DOMAIN h : o # q => ToSet(h[o].msgs) \cap ToSet(h[q].msgs) = {}
  /\ c = NoObj => h = <<>> \/ d.msgs = <<>>

\* An object is saved, or created.
LEMMA PutApart ==
  ASSUME TypeInv, Apart(heap, disk, expected, cache),
         NEW o \in 1 .. Len(heap) + 1, NEW s \in SessionData, heap' = Put(o, s),
         disk' = s \/ disk' = disk, cache' = o,
         ToSet(s.msgs) \subseteq ToSet(expected'),
         ToSet(disk'.msgs) \subseteq ToSet(expected'),
         \A q \in DOMAIN heap : q # o => /\ ToSet(heap[q].msgs) \cap ToSet(s.msgs) = {}
                                       /\ ToSet(heap[q].msgs) \subseteq ToSet(expected')
  PROVE  Apart(heap', disk', expected', cache')
<1>1. \A q \in DOMAIN heap' : heap'[q] = (IF q = o THEN s ELSE heap[q]) /\ q \in DOMAIN heap \cup {o}
  BY PutHeap
<1>2. \A q \in DOMAIN heap' : ToSet(heap'[q].msgs) \subseteq ToSet(expected')
  BY <1>1
<1>3. ASSUME NEW p \in DOMAIN heap', NEW q \in DOMAIN heap', p # q
      PROVE  ToSet(heap'[p].msgs) \cap ToSet(heap'[q].msgs) = {}
  <2>1. CASE p = o
    BY <1>1, <1>3, <2>1
  <2>2. CASE q = o
    BY <1>1, <1>3, <2>2
  <2>3. CASE p # o /\ q # o
    BY <1>1, <1>3, <2>3 DEF Apart
  <2> QED BY <2>1, <2>2, <2>3
<1>4. cache' # NoObj
  BY LenProperties DEF TypeInv, NoObj
<1> QED BY <1>2, <1>3, <1>4 DEF Apart

LEMMA ReturnsStep ==
  TypeInv /\ TurnsInv /\ MessagesInv /\ SingleInv /\ ReturnsInv /\ [Next]_vars => ReturnsInv'
<1> SUFFICES ASSUME TypeInv, TurnsInv, MessagesInv, SingleInv, ReturnsInv, [Next]_vars, OneNew'
             PROVE  Apart(heap', disk', expected', cache')
  BY DEF ReturnsInv, Apart
<1>1. Apart(heap, disk, expected, cache)
  BY KindsStay DEF ReturnsInv, Apart
<1>2. Loaded \in SessionData /\ Handle \in 1 .. Len(heap) + 1
  BY HandleType
<1>3. DOMAIN heap = 1 .. Len(heap) /\ Len(heap) \in Nat
  BY LenProperties DEF TypeInv
\* What a reader of the session gets is in no other object.
<1>4. \A q \in DOMAIN heap : q # Handle => ToSet(heap[q].msgs) \cap ToSet(Loaded.msgs) = {}
  <2>1. CASE cache # NoObj
    <3>1. Handle = cache /\ Loaded = heap[cache] /\ cache \in DOMAIN heap
      BY <1>3, <2>1 DEF Handle, Loaded, TypeInv, NoObj
    <3> QED BY <1>1, <3>1 DEF Apart
  <2>2. CASE cache = NoObj
    BY <1>1, <2>2, EmptySeq, SetOfEmpty DEF Loaded, Apart
  <2> QED BY <2>1, <2>2
<1>5. ToSet(Loaded.msgs) \subseteq ToSet(expected)
  <2>1. cache # NoObj => cache \in DOMAIN heap
    BY <1>3 DEF TypeInv, NoObj
  <2> QED BY <1>1, <2>1 DEF Loaded, Apart
<1>6. CASE Same
  BY <1>1, <1>6 DEF Same
<1>7. CASE Opened
  <2>1. /\ heap' = Put(Handle, Loaded) /\ cache' = Handle /\ disk' = disk /\ expected' = expected
    BY <1>7 DEF Opened
  <2>2. \A q \in DOMAIN heap : ToSet(heap[q].msgs) \subseteq ToSet(expected)
    BY <1>1 DEF Apart
  <2>3. ToSet(disk.msgs) \subseteq ToSet(expected)
    BY <1>1 DEF Apart
  <2> QED BY <1>1, <1>2, <1>4, <1>5, <2>1, <2>2, <2>3, PutApart
<1>8. CASE Resaved
  <2>1. PICK o \in 1 .. Len(heap), s \in SessionData :
          s.msgs = heap[o].msgs /\ Save(o, s) /\ expected' = expected
    BY <1>8 DEF Resaved
  <2>2. /\ heap' = Put(o, s) /\ cache' = o /\ disk' = s
        /\ o \in 1 .. Len(heap) + 1 /\ s \in SessionData
    BY <1>3, <2>1 DEF Save
  <2>3. ASSUME NEW q \in DOMAIN heap, q # o
        PROVE  /\ ToSet(heap[q].msgs) \cap ToSet(s.msgs) = {}
               /\ ToSet(heap[q].msgs) \subseteq ToSet(expected')
    BY <1>1, <1>3, <2>1, <2>3 DEF Apart
  <2>4. ToSet(s.msgs) \subseteq ToSet(expected') /\ ToSet(disk'.msgs) \subseteq ToSet(expected')
    BY <1>1, <1>3, <2>1, <2>2 DEF Apart
  <2> QED BY <1>1, <2>2, <2>3, <2>4, PutApart
<1>9. CASE Lost
  BY <1>1, <1>9, EmptySeq DEF Lost, Apart
<1>10. ASSUME NEW t \in Turns, SaveTurn(t) PROVE Apart(heap', disk', expected', cache')
  <2> DEFINE o == turn[t].obj
             s == Grown(t)
             new == NewMessages(t, turn[t].kind)
  <2>1. /\ s \in SessionData /\ heap' = Put(o, s) /\ disk' = s /\ cache' = o
        /\ o \in 1 .. Len(heap)
    BY <1>10, SaveTurnEffect DEF Save
  <2>2. /\ ToSet(Added(t)) \subseteq ToSet(new)
        /\ \A m \in ToSet(new) : m.turn = t
        /\ turn[t].pc = "graph"
        /\ ToSet(expected') = ToSet(expected) \cup ToSet(new)
        /\ ToSet(s.msgs) = ToSet(heap[o].msgs) \cup ToSet(Added(t))
    BY <1>10, AddedDone
  <2> HIDE DEF o, s, new
  <2>3. o \in DOMAIN heap /\ o \in 1 .. Len(heap) + 1
    BY <1>3, <2>1
  <2>4. ToSet(s.msgs) \subseteq ToSet(expected')
    BY <1>1, <2>2, <2>3 DEF Apart
  <2>5. ASSUME NEW q \in DOMAIN heap, q # o
        PROVE  /\ ToSet(heap[q].msgs) \cap ToSet(s.msgs) = {}
               /\ ToSet(heap[q].msgs) \subseteq ToSet(expected')
    <3>1. ToSet(heap[q].msgs) \cap ToSet(heap[o].msgs) = {} /\ ToSet(heap[q].msgs) \subseteq ToSet(expected)
      BY <1>1, <2>3, <2>5 DEF Apart
    <3>2. \A m \in ToSet(heap[q].msgs) : m.turn # t
      BY <2>2 DEF MessagesInv, DoneMessages
    <3> QED BY <2>2, <3>1, <3>2
  <2> QED BY <1>1, <2>1, <2>3, <2>4, <2>5, PutApart
<1>11. ASSUME NEW t \in Turns, NewSession(t) PROVE Apart(heap', disk', expected', cache')
  <2>1. PICK s \in SessionData : /\ s.msgs = <<>> /\ heap' = Put(Handle, s) /\ disk' = s
                                 /\ expected' = <<>> /\ cache' = NoObj
    BY <1>11, NewSessionEffect
  <2>2. Single
    BY <1>11, KindsStay DEF SingleInv, Single
  <2>3. heap' = <<s>>
    BY <2>1, <2>2, SinglePut
  <2>4. DOMAIN heap' = {1} /\ heap'[1] = s
    BY <2>3
  <2> QED BY <2>1, <2>4, SetOfEmpty DEF Apart
<1>12. ASSUME NEW m \in Message, Recall(m) PROVE Apart(heap', disk', expected', cache')
  <2> DEFINE s == Recalled(m)
  <2>1. /\ s \in SessionData /\ heap' = Put(Handle, s) /\ disk' = s /\ cache' = Handle
        /\ m \in ToSet(Loaded.msgs)
        /\ ToSet(s.msgs) = ToSet(Loaded.msgs) \ {m}
        /\ ToSet(expected') = ToSet(expected) \ {m}
    BY <1>12, RecallEffect DEF Save
  <2> HIDE DEF s
  <2>2. ASSUME NEW q \in DOMAIN heap, q # Handle
        PROVE  /\ ToSet(heap[q].msgs) \cap ToSet(s.msgs) = {}
               /\ ToSet(heap[q].msgs) \subseteq ToSet(expected')
    <3>1. ToSet(heap[q].msgs) \cap ToSet(Loaded.msgs) = {} /\ ToSet(heap[q].msgs) \subseteq ToSet(expected)
      BY <1>1, <1>4, <2>2 DEF Apart
    <3> QED BY <2>1, <3>1
  <2>3. ToSet(s.msgs) \subseteq ToSet(expected')
    BY <1>5, <2>1
  <2> QED BY <1>1, <1>2, <2>1, <2>2, <2>3, PutApart
<1> QED BY <1>6, <1>7, <1>8, <1>9, <1>10, <1>11, <1>12, SessionSteps

\* What /new or a recall took out of the session never comes back from an
\* object that a consolidation, a summary or a subagent's turn holds and saves
\* (session/manager.py clear and remove_message_by_id, memory.py maybe_
\* consolidate_by_tokens): the objects a /new separates share no message, and
\* every message of any of them is one that the user left in the session.
THEOREM WhatIsTakenOutStaysOut == Spec => []NothingReturns
<1>1. Init => ReturnsInv
  BY SetOfEmpty DEF Init, ReturnsInv, Fresh
<1>2. ReturnsInv => NothingReturns
  BY DEF ReturnsInv, NothingReturns, OneNew
<1> QED BY <1>1, <1>2, ReturnsStep, TypesAlways, TurnsAlways, MessagesAlways, SingleAlways, PTL DEF Spec

-----------------------------------------------------------------------------
(* A session that no user edits.                                           *)

LEMMA EditedStays == TypeInv /\ TurnsInv /\ Edited /\ [Next]_vars => Edited'
<1> SUFFICES ASSUME TypeInv, TurnsInv, Edited, [Next]_vars PROVE Edited'
  OBVIOUS
<1>1. CASE \E t \in Turns : turn[t].kind = "new"
  BY <1>1, TurnMoves DEF Moved, TurnsInv, Edited
<1>2. CASE recalls > 0
  <2>1. recalls' = recalls \/ recalls' = recalls + 1
    BY SessionSteps, SaveTurnEffect, RecallEffect DEF Same, Opened, Resaved, Lost, NewSession, bounds
  <2> QED BY <1>2, <2>1 DEF Edited, TypeInv
<1> QED BY <1>1, <1>2 DEF Edited

\* Nothing but the end of a turn changes its messages.
LEMMA UneditedSteps ==
  ASSUME TypeInv, TurnsInv, SingleInv, [Next]_vars, ~Edited'
  PROVE  /\ ~Edited /\ Single /\ (\A o \in 1 .. Len(heap) : heap[o] = disk)
         /\ \/ disk'.msgs = disk.msgs /\ expected' = expected
            \/ \E t \in Turns : SaveTurn(t) /\ disk'.msgs = disk.msgs \o Added(t) /\ disk'.lc = disk.lc
<1>1. ~Edited /\ NoNew'
  BY EditedStays DEF Edited, NoNew
<1>2. Single /\ ~\E t \in Turns : NewSession(t)
  BY <1>1, KindsStay DEF SingleInv, Single
<1>3. \A o \in 1 .. Len(heap) : heap[o] = disk
  <2>1. heap = <<>> => Len(heap) = 0
    BY EmptySeq
  <2> QED BY <1>2, <2>1 DEF Single
<1>4. ~\E m \in Message : Recall(m)
  BY RecallEffect DEF Edited, TypeInv
<1>5. Same \/ Opened \/ Lost => disk'.msgs = disk.msgs /\ expected' = expected
  BY DEF Same, Opened, Lost
<1>6. Resaved => disk'.msgs = disk.msgs /\ expected' = expected
  BY <1>3 DEF Resaved, Save
<1>7. ASSUME NEW t \in Turns, SaveTurn(t)
      PROVE  disk'.msgs = disk.msgs \o Added(t) /\ disk'.lc = disk.lc
  BY <1>3, <1>7, SaveTurnEffect DEF Save
<1> QED BY <1>1, <1>2, <1>3, <1>4, <1>5, <1>6, <1>7, SessionSteps

NowSkipped(m) == m.part <= turn'[m.turn].base - turn'[m.turn].sent

LEMMA TurnsKeptStep ==
  TypeInv /\ TurnsInv /\ MessagesInv /\ SingleInv /\ KeptInv /\ [Next]_vars => KeptInv'
<1> SUFFICES ASSUME TypeInv, TurnsInv, MessagesInv, SingleInv, KeptInv, [Next]_vars, ~Edited'
             PROVE  /\ ToSet(disk'.msgs) = {m \in ToSet(expected') : ~NowSkipped(m)}
                    /\ (\A t \in Turns : turn'[t].pc = "done" => turn'[t].sent = turn'[t].base)
                         => disk'.msgs = expected'
  BY DEF KeptInv, Skipped, NowSkipped
<1>1. /\ ToSet(disk.msgs) = {m \in ToSet(expected) : ~Skipped(m)}
      /\ (\A t \in Turns : turn[t].pc = "done" => turn[t].sent = turn[t].base)
           => disk.msgs = expected
  BY UneditedSteps DEF KeptInv
<1>2. \A u \in Turns : Moved(u)
  BY TurnMoves
<1>3. \A m \in ToSet(expected) : NowSkipped(m) <=> Skipped(m)
  <2> SUFFICES ASSUME NEW m \in ToSet(expected) PROVE NowSkipped(m) <=> Skipped(m)
    OBVIOUS
  <2>1. m \in Message /\ turn[m.turn].pc = "done"
    BY ObjectMessages DEF MessagesInv, DoneMessages
  <2>2. m.turn \in Turns
    BY <2>1 DEF Message
  <2> QED BY <1>2, <2>1, <2>2 DEF Moved, NowSkipped, Skipped
<1>4. (\A t \in Turns : turn'[t].pc = "done" => turn'[t].sent = turn'[t].base)
        => \A t \in Turns : turn[t].pc = "done" => turn[t].sent = turn[t].base
  BY <1>2 DEF Moved
<1>5. CASE disk'.msgs = disk.msgs /\ expected' = expected
  BY <1>1, <1>3, <1>4, <1>5
<1>6. ASSUME NEW t \in Turns, SaveTurn(t), disk'.msgs = disk.msgs \o Added(t)
      PROVE  /\ ToSet(disk'.msgs) = {m \in ToSet(expected') : ~NowSkipped(m)}
             /\ (\A u \in Turns : turn'[u].pc = "done" => turn'[u].sent = turn'[u].base)
                  => disk'.msgs = expected'
  <2> DEFINE new == NewMessages(t, turn[t].kind)
  <2>1. /\ turn'[t].pc = "done" /\ turn'[t].base = turn[t].base /\ turn'[t].sent = turn[t].sent
    <3>1. turn[t] \in TurnState /\ turn'[t] = Over(turn[t], "done")
      BY <1>6 DEF SaveTurn, EndTurn, Over, TypeInv
    <3> QED BY <3>1, OverType
  <2>2. /\ ToSet(Added(t)) = {m \in ToSet(new) : ~Skipped(m)}
        /\ turn[t].sent = turn[t].base => Added(t) = new
    BY AddedMessages DEF TypeInv
  <2>3. \A m \in ToSet(new) : m.turn = t
    BY <1>6, AddedDone
  <2>4. \A m \in ToSet(new) : NowSkipped(m) <=> Skipped(m)
    BY <2>1, <2>3 DEF NowSkipped, Skipped
  <2>5. expected' = expected \o new /\ ToSet(expected') = ToSet(expected) \cup ToSet(new)
    BY <1>6, SaveTurnEffect, AddedDone
  <2>6. ToSet(disk'.msgs) = ToSet(disk.msgs) \cup ToSet(Added(t))
    <3>1. disk.msgs \in Seq(Message) /\ Added(t) \in Seq(Message)
      BY <1>6, SaveTurnEffect DEF TypeInv, SessionData
    <3> QED BY <1>6, <3>1, SetOfConcat
  <2> HIDE DEF new
  <2>7. ToSet(disk'.msgs) = {m \in ToSet(expected') : ~NowSkipped(m)}
    BY <1>1, <1>3, <2>2, <2>4, <2>5, <2>6
  <2>8. ASSUME \A u \in Turns : turn'[u].pc = "done" => turn'[u].sent = turn'[u].base
        PROVE  disk'.msgs = expected'
    BY <1>1, <1>4, <1>6, <2>1, <2>2, <2>5, <2>8
  <2> QED BY <2>7, <2>8
<1> QED BY <1>5, <1>6, UneditedSteps

\* While no user edits the session, its file holds the messages of the turns
\* that were saved, whole and in order, whichever consolidation, subagent's
\* turn or restart fell between them (loop.py _save_turn, session/manager.py
\* save), apart from those that _save_turn takes for history.
THEOREM SavedTurnsStay == Spec => []SessionHoldsTurns
<1>1. Init => KeptInv
  BY SetOfEmpty DEF Init, KeptInv, Fresh
<1>2. KeptInv => SessionHoldsTurns
  BY DEF KeptInv, SessionHoldsTurns
<1> QED BY <1>1, <1>2, TurnsKeptStep, TypesAlways, TurnsAlways, MessagesAlways, SingleAlways, PTL DEF Spec

-----------------------------------------------------------------------------
(* The offset.                                                             *)

\* A chunk leaves the history.
Hides(j) ==
  /\ job[j].pc = "llm" /\ j[2] # "summary"
  /\ Archive(job[j].chunk) /\ crashes' = crashes
  /\ disk' = [disk EXCEPT !.lc = job[j].end]
  /\ job' = [job EXCEPT ![j].pc = "pick"]

\* Everything else leaves the offset where it is.
LEMMA OffsetSteps ==
  ASSUME TypeInv, TurnsInv, SingleInv, [Next]_vars, ~Edited'
  PROVE  \/ \E j \in Jobs : Hides(j)
         \/ /\ disk'.lc = disk.lc
            /\ \/ disk'.msgs = disk.msgs
               \/ \E t \in Turns : SaveTurn(t) /\ disk'.msgs = disk.msgs \o Added(t)
<1>1. /\ Single /\ (\A o \in 1 .. Len(heap) : heap[o] = disk)
      /\ \/ disk'.msgs = disk.msgs /\ expected' = expected
         \/ \E t \in Turns : SaveTurn(t) /\ disk'.msgs = disk.msgs \o Added(t) /\ disk'.lc = disk.lc
  BY UneditedSteps
<1>2. ASSUME NEW j \in Jobs, JobStep(j) PROVE Hides(j) \/ disk'.lc = disk.lc
  <2>1. CASE Consolidated(j) \/ ConsolidationFails(j)
    <3>1. Inside(j)
      BY <2>1 DEF Consolidated, ConsolidationFails, Inside
    <3>2. heap[job[j].obj] = disk
      BY <1>1, <3>1, HeldByJob
    <3> QED BY <2>1, <3>2 DEF Consolidated, ConsolidationFails, Hides, Save, storeVars, bounds
  <2>2. CASE Summarized(j)
    <3>1. Inside(j)
      BY <2>2 DEF Summarized, Inside
    <3>2. heap[job[j].obj] = disk /\ disk \in SessionData
      BY <1>1, <3>1, HeldByJob
    <3>3. disk' = disk \/ disk' = [disk EXCEPT !.summary = TRUE]
      BY <2>2, <3>2 DEF Summarized, Save, storeVars
    <3> QED BY <3>2, <3>3 DEF SessionData
  <2>3. CASE TakeJobLock(j) \/ NothingToConsolidate(j) \/ PickChunk(j) \/ Summarize(j)
    BY <2>3 DEF TakeJobLock, NothingToConsolidate, PickChunk, Summarize, storeVars
  <2> QED BY <1>2, <2>1, <2>2, <2>3 DEF JobStep
<1>3. ASSUME NEW t \in Turns, TurnStep(t) PROVE disk'.lc = disk.lc
  <2>1. ~NewSession(t)
    BY NewSessionEffect DEF Edited
  <2>2. CASE SaveTurn(t)
    <3>1. turn[t].obj \in 1 .. Len(heap) /\ Grown(t).lc = heap[turn[t].obj].lc /\ disk' = Grown(t)
      BY <2>2, SaveTurnEffect DEF Save
    <3> QED BY <1>1, <3>1
  <2>3. CASE ~SaveTurn(t)
    BY <1>3, <2>1, <2>3 DEF TurnStep, BeginTurn, BuildPrompt, AbortTurn, ArchiveSucceeds,
                            ArchiveFails, storeVars
  <2> QED BY <2>2, <2>3
<1>4. ~\E m \in Message : Recall(m)
  BY RecallEffect DEF Edited, TypeInv
<1>5. Crash \/ OtherConsolidation \/ UNCHANGED vars \/ (\E j \in Jobs : CrashAfterArchive(j)) => disk' = disk
  BY DEF Crash, OtherConsolidation, CrashAfterArchive, vars, storeVars
<1>6. (\E j \in Jobs : Hides(j)) \/ disk'.lc = disk.lc
  BY <1>2, <1>3, <1>4, <1>5 DEF Next
<1> QED BY <1>1, <1>6

\* Only PickChunk brings a consolidation into its model call.
LEMMA ModelCallStarts ==
  ASSUME TypeInv, [Next]_vars, NEW k \in Jobs, k[2] # "summary", job'[k].pc = "llm"
  PROVE  job'[k] = job[k] \/ PickChunk(k)
<1>1. ASSUME NEW t \in Turns, TurnStep(t) PROVE job'[k] = job[k]
  <2>1. CASE job' = job
    BY <2>1
  <2>2. CASE \E j \in Jobs : \E o : job' = [job EXCEPT ![j] = Asked(job[j], o)]
    <3>0. PICK j \in Jobs : \E o : job' = [job EXCEPT ![j] = Asked(job[j], o)]
      BY <2>2
    <3>1. PICK o : job' = [job EXCEPT ![j] = Asked(job[j], o)]
      BY <3>0
    <3>2. job[j] \in JobState
      BY DEF TypeInv
    <3>3. Asked(job[j], o).pc = "wait"
      BY <3>2 DEF Asked, JobState
    <3>4. job'[k] = IF k = j THEN Asked(job[j], o) ELSE job[k]
      BY <3>1 DEF TypeInv
    <3> QED BY <3>3, <3>4
  <2>3. CASE job' = [job EXCEPT ![<<t, "inline">>] = Ended(IdleJob)]
    <3>1. job'[k] = IF k = <<t, "inline">> THEN Ended(IdleJob) ELSE job[k]
      BY <2>3 DEF TypeInv
    <3> QED BY <3>1, JobEnded
  <2>4. /\ <<t, "inline">> \in Jobs /\ <<t, "background">> \in Jobs /\ <<t, "summary">> \in Jobs
    BY DEF Jobs
  <2>5. BuildPrompt(t) => job' = job \/ \E j \in Jobs : \E o : job' = [job EXCEPT ![j] = Asked(job[j], o)]
    BY <2>4 DEF BuildPrompt, Asked
  <2>6. SaveTurn(t) => job' = job \/ \E j \in Jobs : \E o : job' = [job EXCEPT ![j] = Asked(job[j], o)]
    BY <2>4 DEF SaveTurn, EndTurn, Asked
  <2>7. ASSUME NEW kind \in TurnKinds, BeginTurn(t, kind)
        PROVE  job' = job \/ \E j \in Jobs : \E o : job' = [job EXCEPT ![j] = Asked(job[j], o)]
    BY <2>4, <2>7 DEF BeginTurn, Asked
  <2>8. AbortTurn(t) => job' = [job EXCEPT ![<<t, "inline">>] = Ended(IdleJob)]
    BY DEF AbortTurn, EndTurn
  <2>9. NewSession(t) \/ ArchiveSucceeds(t) \/ ArchiveFails(t) => job' = job
    BY DEF NewSession, ArchiveSucceeds, ArchiveFails
  <2> QED BY <1>1, <2>1, <2>2, <2>3, <2>5, <2>6, <2>7, <2>8, <2>9 DEF TurnStep
<1>2. ASSUME NEW j \in Jobs, JobStep(j) PROVE job'[k] = job[k] \/ PickChunk(k)
  <2>0. job[j] \in JobState
    BY DEF TypeInv
  <2>1. CASE PickChunk(j)
    <3>1. \E r : job' = [job EXCEPT ![j] = r]
      BY <2>1 DEF PickChunk
    <3>2. k # j => job'[k] = job[k]
      BY <3>1 DEF TypeInv
    <3> QED BY <2>1, <3>2
  <2>2. CASE EndJob(j)
    <3>1. job'[k] = IF k = j THEN Ended(IdleJob) ELSE job[k]
      BY <2>2 DEF EndJob, TypeInv
    <3> QED BY <3>1, JobEnded
  <2>3. CASE job' = [job EXCEPT ![j].pc = "pick"]
    <3>1. k = j => job'[k].pc = "pick"
      BY <2>0, <2>3, MovedType DEF TypeInv
    <3>2. k # j => job'[k] = job[k]
      BY <2>3 DEF TypeInv
    <3> QED BY <3>1, <3>2
  <2>4. CASE Summarize(j)
    <3>1. k # j /\ job' = [job EXCEPT ![j].pc = "llm"]
      BY <2>4 DEF Summarize
    <3> QED BY <3>1 DEF TypeInv
  <2> QED BY <1>2, <2>1, <2>2, <2>3, <2>4
          DEF JobStep, TakeJobLock, NothingToConsolidate, Consolidated, ConsolidationFails, Summarized
<1>3. CASE Lose
  <2>1. job'[k] = Stopped(job[k], IdleJob)
    BY <1>3 DEF Lose
  <2> QED BY <2>1, JobEnded DEF Stopped
<1>4. ASSUME NEW m \in Message, Recall(m) PROVE job' = job
  BY <1>4 DEF Recall
<1>5. CASE OtherConsolidation \/ UNCHANGED vars
  BY <1>5 DEF OtherConsolidation, vars
<1> QED BY <1>1, <1>2, <1>3, <1>4, <1>5 DEF Next, Crash, CrashAfterArchive

\* Messages that are added at the end move nothing before it.
LEMMA GrownKeeps ==
  ASSUME NEW s \in Seq(Message), NEW u \in Seq(Message)
  PROVE  /\ Len(s) \in Nat /\ Len(s \o u) \in Nat /\ Len(s) <= Len(s \o u)
         /\ \A p \in 1 .. Len(s) : (s \o u)[p] = s[p]
         /\ \A p, q \in 1 .. Len(s) : SubSeq(s \o u, p, q) = SubSeq(s, p, q)
<1>1. Len(s) \in Nat /\ Len(u) \in Nat /\ Len(s \o u) = Len(s) + Len(u)
  BY LenProperties, ConcatProperties
<1>2. \A p \in 1 .. Len(s) : (s \o u)[p] = s[p]
  BY <1>1, ConcatProperties
<1> QED BY <1>1, <1>2, SubSeqOfConcat1

LEMMA OffsetStep ==
  TypeInv /\ TurnsInv /\ SingleInv /\ OffsetInv /\ [Next]_vars => OffsetInv'
<1> SUFFICES ASSUME TypeInv, TurnsInv, SingleInv, OffsetInv, [Next]_vars, ~Edited'
             PROVE  /\ disk'.lc > 0 => UserAt(disk.lc)'
                    /\ \A j \in Jobs : job'[j].pc = "llm" /\ j[2] # "summary" => ChunkOK(j)'
  BY DEF OffsetInv
<1>0. /\ disk \in SessionData /\ disk.msgs \in Seq(Message) /\ disk.lc \in Nat
      /\ Len(disk.msgs) \in Nat
  BY LenProperties DEF TypeInv, SessionData
<1>1. /\ disk.lc > 0 => UserAt(disk.lc)
      /\ \A j \in Jobs : job[j].pc = "llm" /\ j[2] # "summary" => ChunkOK(j)
  BY UneditedSteps DEF OffsetInv
\* A chunk that is picked now is of the session as the file has it.
<1>2. ASSUME NEW k \in Jobs, PickChunk(k)
      PROVE  disk' = disk /\ ChunkOK(k)'
  <2>1. Inside(k) /\ disk' = disk
    BY <1>2 DEF PickChunk, Inside, storeVars
  <2>2. heap[job[k].obj] = disk /\ job[k] \in JobState /\ job[k].round < MaxRounds
    BY <1>2, <2>1, HeldByJob, UneditedSteps DEF PickChunk
  <2>3. PICK e \in Boundaries(disk) :
          job' = [job EXCEPT ![k] = Picked(job[k], e, SubSeq(disk.msgs, disk.lc + 1, e))]
    BY <1>2, <2>2 DEF PickChunk, Picked
  <2>4. e \in disk.lc + 1 .. Len(disk.msgs) - 1 /\ disk.msgs[e + 1].role = "user"
    BY DEF Boundaries
  <2>5. e \in Nat /\ SubSeq(disk.msgs, disk.lc + 1, e) \in Seq(Message)
    BY <1>0, <2>4, SubSeqType
  <2> DEFINE chunk == SubSeq(disk.msgs, disk.lc + 1, e)
             r == Picked(job[k], e, chunk)
  <2> HIDE DEF chunk
  <2>6. r.end = e /\ r.chunk = chunk
    BY <2>2, <2>5, PickedType DEF chunk
  <2>7. job'[k] = r
    BY <2>3 DEF TypeInv, chunk
  <2> HIDE DEF r
  <2>8. job'[k].end = e /\ job'[k].chunk = SubSeq(disk'.msgs, disk'.lc + 1, e)
    BY <2>1, <2>6, <2>7 DEF chunk
  <2> QED BY <1>0, <2>1, <2>4, <2>8 DEF ChunkOK, UserAt
<1>3. CASE \E j \in Jobs : Hides(j)
  <2>1. PICK j \in Jobs : Hides(j)
    BY <1>3
  <2>2. ChunkOK(j) /\ Inside(j)
    BY <1>1, <2>1 DEF Hides, Inside
  <2>3. disk'.msgs = disk.msgs /\ disk'.lc = job[j].end
    BY <1>0, <2>1 DEF Hides, SessionData
  <2>4. UserAt(disk.lc)'
    BY <2>2, <2>3 DEF ChunkOK, UserAt
  <2>5. ASSUME NEW k \in Jobs, k[2] # "summary", job'[k].pc = "llm" PROVE FALSE
    <3>1. k # j
      BY <2>1, <2>5, MovedType DEF Hides, TypeInv
    <3>2. job'[k] = job[k]
      BY <2>1, <3>1 DEF Hides, TypeInv
    <3> QED BY <2>2, <2>5, <3>1, <3>2 DEF TypeInv, JobOK, Inside
  <2> QED BY <2>4, <2>5
<1>4. CASE disk'.lc = disk.lc /\ disk'.msgs = disk.msgs
  <2>1. disk'.lc > 0 => UserAt(disk.lc)'
    BY <1>1, <1>4 DEF UserAt
  <2>2. ASSUME NEW k \in Jobs, k[2] # "summary", job'[k].pc = "llm" PROVE ChunkOK(k)'
    <3>1. CASE job'[k] = job[k]
      BY <1>1, <1>4, <2>2, <3>1 DEF ChunkOK, UserAt
    <3> QED BY <1>2, <2>2, <3>1, ModelCallStarts
  <2> QED BY <2>1, <2>2
<1>5. ASSUME NEW t \in Turns, SaveTurn(t), disk'.lc = disk.lc, disk'.msgs = disk.msgs \o Added(t)
      PROVE  /\ disk'.lc > 0 => UserAt(disk.lc)'
             /\ \A j \in Jobs : job'[j].pc = "llm" /\ j[2] # "summary" => ChunkOK(j)'
  <2>1. Added(t) \in Seq(Message)
    BY <1>5, SaveTurnEffect
  <2>2. /\ Len(disk'.msgs) \in Nat /\ Len(disk.msgs) <= Len(disk'.msgs)
        /\ \A p \in 1 .. Len(disk.msgs) : disk'.msgs[p] = disk.msgs[p]
        /\ \A p, q \in 1 .. Len(disk.msgs) : SubSeq(disk'.msgs, p, q) = SubSeq(disk.msgs, p, q)
    BY <1>0, <1>5, <2>1, GrownKeeps
  <2>3. ASSUME NEW p \in Nat, UserAt(p) PROVE UserAt(p)'
    <3>1. p + 1 \in 1 .. Len(disk.msgs)
      BY <1>0, <2>3 DEF UserAt
    <3> QED BY <1>0, <2>2, <2>3, <3>1 DEF UserAt
  <2>4. disk'.lc > 0 => UserAt(disk.lc)'
    BY <1>0, <1>1, <1>5, <2>3 DEF UserAt
  <2>5. ASSUME NEW k \in Jobs, k[2] # "summary", job'[k].pc = "llm" PROVE ChunkOK(k)'
    <3>1. ~PickChunk(k)
      <4>1. turn[t] \in TurnState /\ turn'[t] = Over(turn[t], "done") /\ turn[t].pc = "graph"
        BY <1>5 DEF SaveTurn, EndTurn, Over, TypeInv
      <4>2. turn'[t].pc = "done"
        BY <4>1, OverType
      <4> QED BY <4>1, <4>2 DEF PickChunk
    <3>2. job'[k] = job[k] /\ ChunkOK(k)
      BY <1>1, <2>5, <3>1, ModelCallStarts
    <3>3. PICK e \in Nat : /\ e = job[k].end
                           /\ e \in disk.lc + 1 .. Len(disk.msgs) - 1 /\ UserAt(e)
                           /\ job[k].chunk = SubSeq(disk.msgs, disk.lc + 1, e)
      <4>1. job[k].end \in Nat
        BY JobFields DEF TypeInv
      <4> QED BY <3>2, <4>1, Zenon DEF ChunkOK
    <3>4. disk.lc + 1 \in 1 .. Len(disk.msgs) /\ e \in 1 .. Len(disk.msgs)
      BY <1>0, <3>3
    <3>5. UserAt(e)' /\ SubSeq(disk'.msgs, disk'.lc + 1, e) = job[k].chunk
      BY <1>5, <2>2, <2>3, <3>3, <3>4
    <3>6. job'[k].end = e /\ job'[k].chunk = job[k].chunk
      BY <3>2, <3>3
    <3>7. e \in disk'.lc + 1 .. Len(disk'.msgs) - 1
      BY <1>0, <1>5, <2>2, <3>3
    <3> QED BY <3>5, <3>6, <3>7 DEF ChunkOK, UserAt
  <2> QED BY <2>4, <2>5
<1> QED BY <1>3, <1>4, <1>5, OffsetSteps

LEMMA OffsetAlways == Spec => []OffsetInv
<1>1. Init => OffsetInv
  BY DEF Init, OffsetInv, Fresh, IdleJob
<1> QED BY <1>1, OffsetStep, TypesAlways, TurnsAlways, SingleAlways, PTL DEF Spec

\* A consolidation puts the offset in front of a user message, and nothing that
\* runs beside it, no turn, no other consolidation and no summary, moves the
\* messages under the offset (memory.py pick_consolidation_boundary): the
\* history that the model sees never starts inside a turn.
THEOREM OffsetAtUserMessage == Spec => []HistoryStartsWithUser
<1>1. OffsetInv => HistoryStartsWithUser
  BY DEF OffsetInv, HistoryStartsWithUser, UserAt
<1> QED BY <1>1, OffsetAlways, PTL

-----------------------------------------------------------------------------
(* The archive.                                                            *)

LEMMA ArchiveCounts ==
  ASSUME TypeInv, NEW msgs \in Seq(Message), OncePerPlace(msgs), Archive(msgs),
         NEW m \in Turns \X {1, 2}
  PROVE  archived'[m] = archived[m] + IF \E p \in DOMAIN msgs : Id(msgs[p]) = m THEN 1 ELSE 0
<1> DEFINE S == {p \in DOMAIN msgs : <<msgs[p].turn, msgs[p].part>> = m}
<1>1. archived'[m] = archived[m] + Cardinality(S)
  BY DEF Archive, TypeInv
<1>2. S = {p \in DOMAIN msgs : Id(msgs[p]) = m}
  BY DEF Id
<1> HIDE DEF S
<1>3. CASE \E p \in DOMAIN msgs : Id(msgs[p]) = m
  <2>1. PICK p \in DOMAIN msgs : Id(msgs[p]) = m
    BY <1>3
  <2>2. S = {p}
    BY <1>2, <2>1 DEF OncePerPlace
  <2>3. Cardinality({p}) = 1
    BY FS_Singleton
  <2> QED BY <1>1, <1>3, <2>2, <2>3
<1>4. CASE ~\E p \in DOMAIN msgs : Id(msgs[p]) = m
  <2>1. S = {} /\ Cardinality({}) = 0
    BY <1>2, <1>4, FS_EmptySet
  <2> QED BY <1>1, <1>4, <2>1 DEF TypeInv
<1> QED BY <1>3, <1>4

\* A chunk is the messages between the offset and the one to come.
LEMMA ChunkMessages ==
  ASSUME TypeInv, NEW j \in Jobs, ChunkOK(j), OncePerPlace(disk.msgs)
  PROVE  /\ disk.lc \in Nat /\ job[j].end \in Nat /\ disk.lc < job[j].end
         /\ job[j].end <= Len(disk.msgs) /\ Len(disk.msgs) \in Nat
         /\ DOMAIN disk.msgs = 1 .. Len(disk.msgs)
         /\ job[j].chunk \in Seq(Message) /\ OncePerPlace(job[j].chunk)
         /\ \A m : (\E p \in DOMAIN job[j].chunk : Id(job[j].chunk[p]) = m)
                  <=> \E p \in disk.lc + 1 .. job[j].end : Id(disk.msgs[p]) = m
<1>1. /\ disk.msgs \in Seq(Message) /\ disk.lc \in Nat /\ Len(disk.msgs) \in Nat
      /\ DOMAIN disk.msgs = 1 .. Len(disk.msgs)
  BY LenProperties DEF TypeInv, SessionData
<1>2. PICK e : /\ e = job[j].end /\ e \in disk.lc + 1 .. Len(disk.msgs) - 1
               /\ job[j].chunk = SubSeq(disk.msgs, disk.lc + 1, e)
  BY DEF ChunkOK
<1>3. PICK chunk : chunk = SubSeq(disk.msgs, disk.lc + 1, e)
  OBVIOUS
<1>4. e \in Nat /\ disk.lc < e /\ e <= Len(disk.msgs)
  BY <1>1, <1>2
<1>5. /\ chunk \in Seq(Message) /\ Len(chunk) = e - disk.lc
      /\ \A i \in 1 .. e - disk.lc : chunk[i] = disk.msgs[disk.lc + i]
  <2>1. disk.lc + 1 \in Nat /\ disk.lc + 1 # 0 /\ e \in Int
    BY <1>1, <1>4
  <2>2. /\ chunk \in Seq(Message)
        /\ Len(chunk) = IF disk.lc + 1 <= e THEN e - (disk.lc + 1) + 1 ELSE 0
        /\ \A i \in 1 .. e - (disk.lc + 1) + 1 : chunk[i] = disk.msgs[disk.lc + 1 + i - 1]
    BY <1>1, <1>3, <1>4, <2>1, SubSeqType
  <2>3. disk.lc + 1 <= e /\ e - (disk.lc + 1) + 1 = e - disk.lc
    BY <1>1, <1>4
  <2>4. \A i \in 1 .. e - disk.lc : disk.lc + 1 + i - 1 = disk.lc + i
    BY <1>1, <1>4
  <2>5. \A i \in 1 .. e - disk.lc : chunk[i] = disk.msgs[disk.lc + i]
    BY <2>2, <2>3, <2>4, Zenon
  <2> QED BY <2>2, <2>3, <2>5
<1>6. DOMAIN chunk = 1 .. e - disk.lc
  BY <1>5, LenProperties
<1>7. OncePerPlace(chunk)
  <2> SUFFICES ASSUME NEW p \in 1 .. e - disk.lc, NEW q \in 1 .. e - disk.lc, Id(chunk[p]) = Id(chunk[q])
               PROVE  p = q
    BY <1>6 DEF OncePerPlace
  <2>1. disk.lc + p \in DOMAIN disk.msgs /\ disk.lc + q \in DOMAIN disk.msgs
    BY <1>1, <1>4
  <2>2. disk.lc + p = disk.lc + q
    BY <1>5, <2>1 DEF OncePerPlace
  <2> QED BY <1>1, <2>2
<1>8. ASSUME NEW m
      PROVE  (\E p \in DOMAIN chunk : Id(chunk[p]) = m)
               <=> \E p \in disk.lc + 1 .. e : Id(disk.msgs[p]) = m
  <2>1. ASSUME NEW p \in 1 .. e - disk.lc, Id(chunk[p]) = m
        PROVE  \E q \in disk.lc + 1 .. e : Id(disk.msgs[q]) = m
    <3>1. disk.lc + p \in disk.lc + 1 .. e
      BY <1>1, <1>4
    <3> QED BY <1>5, <2>1, <3>1
  <2>2. ASSUME NEW q \in disk.lc + 1 .. e, Id(disk.msgs[q]) = m
        PROVE  \E p \in 1 .. e - disk.lc : Id(chunk[p]) = m
    <3>1. q - disk.lc \in 1 .. e - disk.lc /\ disk.lc + (q - disk.lc) = q
      BY <1>1, <1>4
    <3> QED BY <1>5, <2>2, <3>1
  <2> QED BY <1>6, <2>1, <2>2
<1>9. chunk = job[j].chunk /\ e = job[j].end
  BY <1>2, <1>3
<1>10. ASSUME NEW m
       PROVE  (\E p \in DOMAIN job[j].chunk : Id(job[j].chunk[p]) = m)
                <=> \E p \in disk.lc + 1 .. job[j].end : Id(disk.msgs[p]) = m
  BY <1>8, <1>9
<1>11. /\ job[j].end \in Nat /\ disk.lc < job[j].end /\ job[j].end <= Len(disk.msgs)
       /\ job[j].chunk \in Seq(Message) /\ OncePerPlace(job[j].chunk)
  BY <1>4, <1>5, <1>7, <1>9
<1> QED BY <1>1, <1>10, <1>11

LEMMA ChunkCounts ==
  ASSUME TypeInv, NEW j \in Jobs, ChunkOK(j), OncePerPlace(disk.msgs), Archive(job[j].chunk),
         NEW m \in Turns \X {1, 2}
  PROVE  archived'[m] = archived[m] + IF \E p \in disk.lc + 1 .. job[j].end : Id(disk.msgs[p]) = m
                                      THEN 1 ELSE 0
<1>1. job[j].chunk \in Seq(Message) /\ OncePerPlace(job[j].chunk)
  BY ChunkMessages
<1>2. (\E p \in DOMAIN job[j].chunk : Id(job[j].chunk[p]) = m)
        <=> \E p \in disk.lc + 1 .. job[j].end : Id(disk.msgs[p]) = m
  BY ChunkMessages
<1>3. archived'[m] = archived[m] + IF \E p \in DOMAIN job[j].chunk : Id(job[j].chunk[p]) = m
                                   THEN 1 ELSE 0
  BY <1>1, ArchiveCounts
<1> QED BY <1>2, <1>3

\* What changes the archive of a session that no user edits.
LEMMA ArchiveSteps ==
  ASSUME TypeInv, TurnsInv, SingleInv, [Next]_vars, ~Edited'
  PROVE  \/ \E j \in Jobs : Hides(j)
         \/ /\ disk'.lc = disk.lc /\ archived' = archived /\ crashes' \in {crashes, crashes + 1}
         \/ \E j \in Jobs : CrashAfterArchive(j)
<1>1. (\E j \in Jobs : Hides(j)) \/ disk'.lc = disk.lc
  BY OffsetSteps
<1>2. ~\E t \in Turns : ArchiveSucceeds(t) \/ ArchiveFails(t)
  BY UneditedSteps DEF ArchiveSucceeds, ArchiveFails, TurnsInv, Edited
<1>3. ASSUME NEW t \in Turns, TurnStep(t) PROVE archived' = archived /\ crashes' = crashes
  BY <1>2, <1>3 DEF TurnStep, BeginTurn, NewSession, BuildPrompt, SaveTurn, AbortTurn, bounds
<1>4. ASSUME NEW j \in Jobs, JobStep(j)
      PROVE  (\E k \in Jobs : Hides(k)) \/ (archived' = archived /\ crashes' = crashes)
  <2>1. CASE Consolidated(j) \/ ConsolidationFails(j)
    <3>1. Inside(j)
      BY <2>1 DEF Consolidated, ConsolidationFails, Inside
    <3>2. heap[job[j].obj] = disk
      BY <3>1, HeldByJob, UneditedSteps
    <3> QED BY <2>1, <3>2 DEF Consolidated, ConsolidationFails, Hides, Save, bounds
  <2>2. CASE ~(Consolidated(j) \/ ConsolidationFails(j))
    BY <1>4, <2>2 DEF JobStep, TakeJobLock, NothingToConsolidate, PickChunk, Summarize, Summarized, bounds
  <2> QED BY <2>1, <2>2
<1>5. ASSUME NEW m \in Message, Recall(m) PROVE archived' = archived /\ crashes' = crashes
  BY <1>5 DEF Recall
<1>6. OtherConsolidation \/ UNCHANGED vars => archived' = archived /\ crashes' = crashes
  BY DEF OtherConsolidation, vars, bounds
<1>7. Crash => archived' = archived /\ crashes' = crashes + 1
  BY DEF Crash, Lose
<1>8. \/ \E j \in Jobs : Hides(j)
      \/ archived' = archived /\ crashes' \in {crashes, crashes + 1}
      \/ \E j \in Jobs : CrashAfterArchive(j)
  BY <1>3, <1>4, <1>5, <1>6, <1>7 DEF Next
<1>9. CASE \E j \in Jobs : Hides(j)
  BY <1>9
<1> QED BY <1>1, <1>8, <1>9

HiddenNow(m) == \E p \in 1 .. disk'.lc : Id(disk'.msgs[p]) = m

LEMMA OnceStep ==
  ASSUME TypeInv, TurnsInv, MessagesInv, SingleInv, OncePerPlace(disk.msgs), [Next]_vars, ~Edited'
  PROVE  OncePerPlace(disk'.msgs)
<1>1. disk.msgs \in Seq(Message) /\ DOMAIN disk.msgs = 1 .. Len(disk.msgs) /\ Len(disk.msgs) \in Nat
  BY LenProperties DEF TypeInv, SessionData
<1>2. ASSUME NEW t \in Turns, SaveTurn(t), disk'.msgs = disk.msgs \o Added(t)
      PROVE  OncePerPlace(disk'.msgs)
  <2> DEFINE s == disk.msgs
             u == Added(t)
             n == Len(s)
  <2>1. u \in Seq(Message) /\ OncePerPlace(u) /\ DOMAIN u = 1 .. Len(u) /\ Len(u) \in Nat
    BY <1>2, SaveTurnEffect, AddedMessages, LenProperties DEF TypeInv
  <2>2. /\ DOMAIN (s \o u) = 1 .. n + Len(u)
        /\ \A p \in 1 .. n + Len(u) : (s \o u)[p] = IF p <= n THEN s[p] ELSE u[p - n]
    BY <1>1, <2>1, ConcatProperties, LenProperties
  <2>3. \A p \in 1 .. n : s[p].turn # t
    <3>1. turn[t].pc = "graph" /\ \A p \in 1 .. n : s[p] \in ToSet(s)
      BY <1>1, <1>2, AddedDone DEF ToSet
    <3> QED BY <3>1 DEF MessagesInv, DoneMessages
  <2>4. \A p \in 1 .. Len(u) : u[p].turn = t
    BY <1>2, <2>1, AddedDone DEF ToSet
  <2> HIDE DEF u, s
  <2>5. OncePerPlace(s) /\ n \in Nat /\ DOMAIN s = 1 .. n
    BY <1>1 DEF s
  <2> HIDE DEF n
  <2>6. ASSUME NEW p \in 1 .. n + Len(u), NEW q \in 1 .. n + Len(u), Id((s \o u)[p]) = Id((s \o u)[q])
        PROVE  p = q
    <3>1. (s \o u)[p].turn = (s \o u)[q].turn
      BY <2>6 DEF Id
    <3>2. CASE p <= n /\ q <= n
      BY <2>1, <2>2, <2>5, <2>6, <3>2 DEF OncePerPlace
    <3>3. CASE p > n /\ q > n
      <4>1. p - n \in 1 .. Len(u) /\ q - n \in 1 .. Len(u)
        BY <2>1, <2>5, <3>3
      <4>2. (s \o u)[p] = u[p - n] /\ (s \o u)[q] = u[q - n]
        BY <2>2, <2>5, <3>3
      <4>3. p - n = q - n
        BY <2>1, <2>6, <4>1, <4>2 DEF OncePerPlace
      <4> QED BY <2>5, <4>3
    <3>4. CASE p <= n /\ q > n
      <4>1. q - n \in 1 .. Len(u) /\ p \in 1 .. n
        BY <2>1, <2>5, <3>4
      <4> QED BY <2>2, <2>3, <2>4, <2>5, <3>1, <3>4, <4>1
    <3>5. CASE p > n /\ q <= n
      <4>1. p - n \in 1 .. Len(u) /\ q \in 1 .. n
        BY <2>1, <2>5, <3>5
      <4> QED BY <2>2, <2>3, <2>4, <2>5, <3>1, <3>5, <4>1
    <3> QED BY <2>1, <2>5, <3>2, <3>3, <3>4, <3>5
  <2> QED BY <1>2, <2>2, <2>6 DEF OncePerPlace, s, u
<1> QED BY <1>2, UneditedSteps

LEMMA ArchivedMessage ==
  ASSUME TypeInv, TurnsInv, SingleInv, OffsetInv, ArchivedInv, [Next]_vars, ~Edited',
         NEW m \in Turns \X {1, 2}
  PROVE  /\ HiddenNow(m) => archived'[m] \in 1 .. 1 + crashes'
         /\ ~HiddenNow(m) => archived'[m] \in 0 .. crashes'
<1>1. /\ OncePerPlace(disk.msgs)
      /\ Hidden(m) => archived[m] \in 1 .. 1 + crashes
      /\ ~Hidden(m) => archived[m] \in 0 .. crashes
  BY UneditedSteps DEF ArchivedInv
<1>3. crashes \in Nat /\ archived[m] \in Nat /\ disk.lc \in Nat
  BY DEF TypeInv, SessionData
<1>4. \A j \in Jobs : job[j].pc = "llm" /\ j[2] # "summary" => ChunkOK(j)
  BY UneditedSteps DEF OffsetInv
\* The messages under the offset that stays are the same.
<1>5. ASSUME disk'.lc = disk.lc PROVE HiddenNow(m) <=> Hidden(m)
  <2>1. CASE disk'.msgs = disk.msgs
    BY <1>5, <2>1 DEF HiddenNow, Hidden
  <2>2. ASSUME NEW t \in Turns, SaveTurn(t), disk'.msgs = disk.msgs \o Added(t)
        PROVE  HiddenNow(m) <=> Hidden(m)
    <3>1. disk.msgs \in Seq(Message) /\ Added(t) \in Seq(Message) /\ Len(disk.msgs) \in Nat
      BY <2>2, SaveTurnEffect, LenProperties DEF TypeInv, SessionData
    <3>2. \A p \in 1 .. Len(disk.msgs) : disk'.msgs[p] = disk.msgs[p]
      BY <2>2, <3>1, GrownKeeps
    <3>3. disk.lc <= Len(disk.msgs)
      <4>1. disk.lc > 0 => UserAt(disk.lc)
        BY UneditedSteps DEF OffsetInv
      <4> QED BY <1>3, <3>1, <4>1 DEF UserAt
    <3>4. \A p \in 1 .. disk.lc : p \in 1 .. Len(disk.msgs)
      BY <1>3, <3>1, <3>3
    <3> QED BY <1>5, <3>2, <3>4 DEF HiddenNow, Hidden
  <2> QED BY <2>1, <2>2, UneditedSteps
<1>6. ASSUME NEW j \in Jobs, Hides(j)
      PROVE  /\ HiddenNow(m) => archived'[m] \in 1 .. 1 + crashes'
             /\ ~HiddenNow(m) => archived'[m] \in 0 .. crashes'
  <2>1. ChunkOK(j) /\ Archive(job[j].chunk) /\ crashes' = crashes
    BY <1>4, <1>6 DEF Hides
  <2>2. disk'.lc = job[j].end /\ disk'.msgs = disk.msgs
    BY <1>6 DEF Hides, TypeInv, SessionData
  <2> DEFINE fresh == \E p \in disk.lc + 1 .. job[j].end : Id(disk.msgs[p]) = m
  <2>3. archived'[m] = archived[m] + IF fresh THEN 1 ELSE 0
    BY <1>1, <2>1, ChunkCounts
  <2>4. /\ disk.lc < job[j].end /\ job[j].end <= Len(disk.msgs) /\ job[j].end \in Nat
        /\ Len(disk.msgs) \in Nat /\ DOMAIN disk.msgs = 1 .. Len(disk.msgs)
    BY <1>1, <2>1, ChunkMessages
  <2>5. HiddenNow(m) <=> Hidden(m) \/ fresh
    BY <1>3, <2>2, <2>4 DEF HiddenNow, Hidden
  <2>6. fresh => ~Hidden(m)
    <3> SUFFICES ASSUME NEW p \in disk.lc + 1 .. job[j].end, NEW q \in 1 .. disk.lc,
                        Id(disk.msgs[p]) = m, Id(disk.msgs[q]) = m
                 PROVE  FALSE
      BY DEF Hidden
    <3>1. p \in DOMAIN disk.msgs /\ q \in DOMAIN disk.msgs /\ p # q
      BY <1>3, <2>4
    <3> QED BY <1>1, <3>1 DEF OncePerPlace
  <2> HIDE DEF fresh
  <2> QED BY <1>1, <1>3, <2>1, <2>3, <2>5, <2>6
<1>7. ASSUME disk'.lc = disk.lc, archived' = archived, crashes' \in {crashes, crashes + 1}
      PROVE  /\ HiddenNow(m) => archived'[m] \in 1 .. 1 + crashes'
             /\ ~HiddenNow(m) => archived'[m] \in 0 .. crashes'
  BY <1>1, <1>3, <1>5, <1>7
<1>8. ASSUME NEW j \in Jobs, CrashAfterArchive(j)
      PROVE  /\ HiddenNow(m) => archived'[m] \in 1 .. 1 + crashes'
             /\ ~HiddenNow(m) => archived'[m] \in 0 .. crashes'
  <2>1. ChunkOK(j) /\ Archive(job[j].chunk) /\ crashes' = crashes + 1 /\ disk' = disk
    BY <1>4, <1>8 DEF CrashAfterArchive, Lose
  <2> DEFINE fresh == \E p \in disk.lc + 1 .. job[j].end : Id(disk.msgs[p]) = m
  <2>2. archived'[m] = archived[m] + IF fresh THEN 1 ELSE 0
    BY <1>1, <2>1, ChunkCounts
  <2>3. HiddenNow(m) <=> Hidden(m)
    BY <1>5, <2>1
  <2> HIDE DEF fresh
  <2> QED BY <1>1, <1>3, <2>1, <2>2, <2>3
<1> QED BY <1>6, <1>7, <1>8, ArchiveSteps

LEMMA ArchivedStep ==
  TypeInv /\ TurnsInv /\ MessagesInv /\ SingleInv /\ OffsetInv /\ ArchivedInv /\ [Next]_vars
    => ArchivedInv'
<1> SUFFICES ASSUME TypeInv, TurnsInv, MessagesInv, SingleInv, OffsetInv, ArchivedInv, [Next]_vars,
                    ~Edited'
             PROVE  /\ OncePerPlace(disk'.msgs)
                    /\ \A m \in Turns \X {1, 2} :
                         /\ HiddenNow(m) => archived'[m] \in 1 .. 1 + crashes'
                         /\ ~HiddenNow(m) => archived'[m] \in 0 .. crashes'
  BY DEF ArchivedInv, Hidden, HiddenNow, OncePerPlace
<1>1. OncePerPlace(disk.msgs)
  BY UneditedSteps DEF ArchivedInv
<1> QED BY <1>1, OnceStep, ArchivedMessage

LEMMA ArchivedAlways == Spec => []ArchivedInv
<1>1. Init => ArchivedInv
  <2> SUFFICES ASSUME Init PROVE ArchivedInv
    OBVIOUS
  <2>1. OncePerPlace(disk.msgs) /\ \A m : ~Hidden(m)
    BY DEF Init, Fresh, OncePerPlace, Hidden
  <2>2. \A m \in Turns \X {1, 2} : archived[m] = 0 /\ crashes = 0
    BY DEF Init
  <2> QED BY <2>1, <2>2 DEF ArchivedInv
<1> QED BY <1>1, ArchivedStep, TypesAlways, TurnsAlways, MessagesAlways, SingleAlways, OffsetAlways,
        PTL DEF Spec

\* Whatever the offset hides from the model is in the archive (memory.py
\* maybe_consolidate_by_tokens: archive first, then offset and save), through
\* failures of the model call and restarts at any point.
THEOREM NothingFallsBetween == Spec => []HiddenIsArchived
<1>1. TypeInv /\ OffsetInv /\ ArchivedInv => HiddenIsArchived
  <2> SUFFICES ASSUME TypeInv, OffsetInv, ArchivedInv, ~Edited
               PROVE  /\ disk.lc <= Len(disk.msgs)
                      /\ \A p \in 1 .. disk.lc : archived[<<disk.msgs[p].turn, disk.msgs[p].part>>] > 0
    BY DEF HiddenIsArchived
  <2>1. disk.msgs \in Seq(Message) /\ disk.lc \in Nat /\ Len(disk.msgs) \in Nat
    BY LenProperties DEF TypeInv, SessionData
  <2>2. disk.lc <= Len(disk.msgs)
    BY <2>1 DEF OffsetInv, UserAt
  <2>3. ASSUME NEW p \in 1 .. disk.lc
        PROVE  archived[<<disk.msgs[p].turn, disk.msgs[p].part>>] > 0
    <3> DEFINE m == <<disk.msgs[p].turn, disk.msgs[p].part>>
    <3>1. p \in 1 .. Len(disk.msgs)
      BY <2>1, <2>2
    <3>2. disk.msgs[p] \in Message
      BY <2>1, <3>1, ElementOfSeq
    <3>3. m \in Turns \X {1, 2} /\ Hidden(m)
      BY <3>2 DEF Message, Hidden, Id
    <3> HIDE DEF m
    <3>4. archived[m] \in 1 .. 1 + crashes /\ crashes \in Nat
      BY <3>3 DEF ArchivedInv, TypeInv
    <3> QED BY <3>4 DEF m
  <2> QED BY <2>2, <2>3
<1> QED BY <1>1, TypesAlways, OffsetAlways, ArchivedAlways, PTL

\* A message is archived again at most once per restart: the inline and the
\* background consolidations of a session exclude each other (memory.py
\* get_lock), and each starts behind the offset the last one saved.
THEOREM ArchivesDoNotRepeat == Spec => []ArchivedOnce
<1>1. TypeInv /\ ArchivedInv => ArchivedOnce
  <2> SUFFICES ASSUME TypeInv, ArchivedInv, ~Edited, NEW m \in DOMAIN archived
               PROVE  archived[m] <= 1 + crashes
    BY DEF ArchivedOnce
  <2>1. m \in Turns \X {1, 2} /\ crashes \in Nat
    BY DEF TypeInv
  <2>2. archived[m] \in 1 .. 1 + crashes \/ archived[m] \in 0 .. crashes
    BY <2>1 DEF ArchivedInv
  <2> QED BY <2>1, <2>2
<1> QED BY <1>1, TypesAlways, ArchivedAlways, PTL
=============================================================================
