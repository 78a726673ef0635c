----------------------------- MODULE MemoryStore -----------------------------
(***************************************************************************)
(* The memory of src/nanobot/agent/memory.py (MemoryStore): graph.json,    *)
(* MEMORY.md, HISTORY.md and the project profiles, written by              *)
(* consolidations, by the feedback tool and by a search.                   *)
(*                                                                         *)
(* A consolidation reads MEMORY.md, waits for the model and for the        *)
(* embeddings, and then writes one file after the other.  Consolidations   *)
(* of different sessions run side by side over the same files; each may be *)
(* cancelled in a wait, fail between two files, or die with the process.   *)
(* Every operation on the graph reads graph.json first, so the graph of    *)
(* the file stands for the graphs in memory; the index of the searches is  *)
(* kept in memory only.                                                    *)
(***************************************************************************)
EXTENDS MemoryGraph

CONSTANTS
  Runs,          \* bound: the consolidations of a behaviour; a run's text is its number
  Corrections,   \* bound: the corrections, numbered like the texts
  Answers,       \* what the model can answer
  MaxTime,       \* bound: days
  MaxUpsets      \* bound: deletions, corrections and restarts together

MaxFailures == 3 \* _MAX_FAILURES_BEFORE_RAW_ARCHIVE

\* about: the source a node is told for, the project itself
\* (_project_name_from_nodes: a project's own node names its project), or "nothing".
Answer == [about : Sources \cup Projects \cup {"nothing"}, label : Projects \cup Categories,
           quality : {"plain", "sensitive", "noise", "long"},
           profile : BOOLEAN,                 \* has a project_update
           update : {"none", "plain", "sensitive"}, \* memory_update, by its new fact
           badEdge : BOOLEAN]                 \* an edge without source or target

ASSUME StoreAssumption ==
  /\ Texts = Runs \cup Corrections /\ Runs \cap Corrections = {}
  /\ Answers \subseteq Answer
  /\ \A a \in Answers : a.about \in Projects => a.label = a.about
  /\ "nothing" \notin Sources \cup Projects
  /\ {MaxTime, MaxUpsets} \subseteq Nat

VARIABLES
  files,     \* graph.json, MEMORY.md (a set of facts), MEMORY.secure.json, HISTORY.md, profiles
  index,     \* the ANN index of the searching store
  run,       \* each consolidation
  failures,  \* _consecutive_failures
  day,
  corrected, \* corrections made
  upsets,    \* deletions, corrections and restarts
  amended,   \* history: the correction that came last for a node, or None
  written,   \* history: the day a node was last told, or None
  shrunk     \* history: a node was removed since the index was built

vars == <<files, index, run, failures, day, corrected, upsets, amended, written, shrunk>>

NoAnswer == [about |-> "nothing", label |-> "", quality |-> "plain", profile |-> FALSE,
             update |-> "none", badEdge |-> FALSE]
IdleRun == [pc |-> "idle", read |-> {}, answer |-> NoAnswer]

TypeOK ==
  /\ files.graph \in Graph
  /\ files.longTerm \subseteq Runs /\ files.secure \subseteq Runs
  /\ files.history \subseteq Runs
  /\ files.profiles \in [Projects -> SUBSET Runs]
  /\ DOMAIN index \subseteq Nat /\ index \in [DOMAIN index -> Ids]
  /\ shrunk \in BOOLEAN
  /\ run \in [Runs -> [pc : {"idle", "model", "embed", "done"},
                       read : SUBSET Runs, answer : Answers \cup {NoAnswer}]]
  /\ failures \in 0 .. MaxFailures - 1
  /\ day \in 0 .. MaxTime
  /\ corrected \subseteq Corrections
  /\ upsets \in 0 .. MaxUpsets
  /\ amended \in [Ids -> Corrections \cup {None}]
  /\ written \in [Ids -> 0 .. MaxTime \cup {None}]

\* The store may have seen failures before.
Init ==
  /\ files = [graph |-> EmptyGraph, longTerm |-> {}, secure |-> {}, history |-> {},
              profiles |-> [p \in Projects |-> {}]]
  /\ index = NoIndex /\ shrunk = FALSE
  /\ run = [r \in Runs |-> IdleRun]
  /\ failures \in 0 .. MaxFailures - 1 /\ day = 0
  /\ corrected = {} /\ upsets = 0
  /\ amended = [i \in Ids |-> None]
  /\ written = [i \in Ids |-> None]

-----------------------------------------------------------------------------
(* consolidate, up to its last wait.  A provider that refuses a forced     *)
(* tool is asked twice; the two calls are one wait here.                   *)

Begins(r) ==
  /\ run[r].pc = "idle" /\ \A q \in Runs : q < r => run[q].pc # "idle"
  /\ run' = [run EXCEPT ![r].pc = "model", ![r].read = files.longTerm]
  /\ UNCHANGED <<files, index, failures, day, corrected, upsets, amended, written, shrunk>>

Done(r) == run' = [run EXCEPT ![r] = [IdleRun EXCEPT !.pc = "done"]]

\* History: a node of the graph is gone.
Shrinks == shrunk' = (shrunk \/ \E id \in Ids : Has(files.graph, id) /\ ~Has(files'.graph, id))

AppendHistory(f, r) == [f EXCEPT !.history = @ \cup {r}]

\* _fail_or_raw_archive: the third failure in a row, of whichever session,
\* dumps its messages.
FailOrRawArchive(r, f) ==
  /\ failures' = (failures + 1) % MaxFailures
  /\ files' = IF failures + 1 < MaxFailures THEN f ELSE AppendHistory(f, r)
  /\ Done(r)

\* No call of save_memory, arguments of another shape, or an exception.
Fails(r) ==
  /\ run[r].pc = "model"
  /\ FailOrRawArchive(r, files)
  /\ UNCHANGED <<index, day, corrected, upsets, amended, written, shrunk>>

\* A turn that is stopped or timed out takes its consolidation with it.
Cancelled(r) ==
  /\ run[r].pc \in {"model", "embed"}
  /\ Done(r)
  /\ UNCHANGED <<files, index, failures, day, corrected, upsets, amended, written, shrunk>>

-----------------------------------------------------------------------------
(* What a consolidation writes, file by file.                              *)

Prepared(r, a, embeds) ==
  LET told == PrepareHierarchy(a.about, a.label, r, a.quality = "sensitive")
      ns == SemanticChunks(told.nodes, IF a.quality = "long" THEN a.about ELSE "")
  IN [nodes |-> IF embeds THEN Embedded(ns) ELSE ns, edges |-> told.edges]

Noise(a) == IF a.quality = "noise" THEN {a.about} ELSE {}

WriteNodes(f, r, a, embeds) ==
  IF a.about = "nothing" THEN f
  ELSE [f EXCEPT !.graph = AddNodes(@, Prepared(r, a, embeds).nodes, Noise(a), day)]

WriteEdges(f, r, a) ==
  IF a.about = "nothing" THEN f
  ELSE [f EXCEPT !.graph = AddEdges(@, Prepared(r, a, FALSE).edges)]

\* ProjectProfile.merge: what is new is added at the end of the profile.
MergeProfile(profiles, project, r) == [profiles EXCEPT ![project] = @ \cup {r}]

WriteProfile(f, r, a) ==
  IF a.profile /\ a.label \in Projects
  THEN [f EXCEPT !.profiles = MergeProfile(@, a.label, r)] ELSE f

WriteHistory(f, r) == AppendHistory(f, r)

\* _write_secure_memory: the pending file is replaced; without a key nothing
\* is written.
WriteSecure(f, facts) == IF HasKey THEN [f EXCEPT !.secure = facts] ELSE f

\* memory_update is the whole text of MEMORY.md as the model would have it:
\* some of what the consolidation read, the new fact or not, or nothing.
Updates(r, a) == IF a.update = "none" THEN {{}} ELSE SUBSET (run[r].read \cup {r})

\* It goes into the pending file when there is a secret in it.
WriteLongTerm(f, r, a, update) ==
  IF update \in {{}, run[r].read} THEN f
  ELSE IF r \in update /\ a.update = "sensitive" THEN WriteSecure(f, update)
  ELSE [f EXCEPT !.longTerm = update]

\* The first n of the files in their order; six are all.
Written(r, a, embeds, update, n) ==
  LET f1 == IF n < 1 THEN files ELSE WriteNodes(files, r, a, embeds)
      f2 == IF n < 2 THEN f1 ELSE WriteEdges(f1, r, a)
      f3 == IF n < 3 THEN f2 ELSE WriteProfile(f2, r, a)
      f4 == IF n < 4 THEN f3 ELSE WriteHistory(f3, r)
      f5 == IF n < 5 THEN f4 ELSE WriteLongTerm(f4, r, a, update)
  IN IF n < 6 THEN f5 ELSE [f5 EXCEPT !.graph = Expire(@, day)]

\* History: the nodes that are in the graph with this telling.
Tells(r, a, embeds) ==
  LET ids == IF a.about = "nothing" THEN {}
             ELSE {n.id : n \in ToSet(FilterNoise(Prepared(r, a, embeds).nodes, Noise(a)))}
  IN /\ written' = [i \in Ids |-> IF i \in ids THEN day ELSE written[i]]
     /\ amended' = [i \in Ids |-> IF i \in ids THEN None ELSE amended[i]]

\* The model's answer; with nodes in it, their embeddings come next.
Answered(r, a) ==
  /\ run[r].pc = "model" /\ a.about # "nothing"
  /\ run' = [run EXCEPT ![r].pc = "embed", ![r].answer = a]
  /\ UNCHANGED <<files, index, failures, day, corrected, upsets, amended, written, shrunk>>

Ready(r, a) ==
  \/ run[r].pc = "embed" /\ run[r].answer = a
  \/ run[r].pc = "model" /\ a.about = "nothing"

Stores(r, a, embeds, update) ==
  /\ Ready(r, a) /\ ~a.badEdge
  /\ files' = Written(r, a, embeds, update, 6)
  /\ failures' = 0
  /\ Done(r) /\ Tells(r, a, embeds) /\ Shrinks
  /\ UNCHANGED <<index, day, corrected, upsets>>

\* add_edges raises after the nodes were saved.
StoresInPart(r, a, embeds) ==
  /\ Ready(r, a) /\ a.badEdge
  /\ FailOrRawArchive(r, Written(r, a, embeds, {}, 1))
  /\ Tells(r, a, embeds) /\ Shrinks
  /\ UNCHANGED <<index, day, corrected, upsets>>

-----------------------------------------------------------------------------
(* The feedback tool, a search, time, a restart.                           *)

Delete(id) ==
  /\ upsets < MaxUpsets /\ upsets' = upsets + 1
  /\ Has(files.graph, id)
  /\ files' = [files EXCEPT !.graph = DeleteNode(@, id)]
  /\ written' = [written EXCEPT ![id] = None] /\ Shrinks
  /\ UNCHANGED <<index, run, failures, day, corrected, amended>>

Correct(id, c) ==
  /\ upsets < MaxUpsets /\ upsets' = upsets + 1
  /\ c \notin corrected /\ corrected' = corrected \cup {c}
  /\ Has(files.graph, id)
  /\ files' = [files EXCEPT !.graph = CorrectNode(@, id, c, day)]
  /\ amended' = [amended EXCEPT ![id] = c]
  /\ written' = [written EXCEPT ![id] = day] /\ Shrinks
  /\ UNCHANGED <<index, run, failures, day>>

\* A prompt is built with a query vector: the search may build the index.
Searches ==
  /\ index' = IndexAfterSearch(files.graph, index)
  /\ index' # index /\ shrunk' = FALSE
  /\ UNCHANGED <<files, run, failures, day, corrected, upsets, amended, written>>

DayPasses ==
  /\ day < MaxTime /\ day' = day + 1
  /\ UNCHANGED <<files, index, run, failures, corrected, upsets, amended, written, shrunk>>

Restarts ==
  /\ upsets < MaxUpsets /\ upsets' = upsets + 1
  /\ index' = NoIndex /\ shrunk' = FALSE /\ failures' = 0
  /\ run' = [r \in Runs |-> IF run[r].pc = "idle" THEN run[r] ELSE [IdleRun EXCEPT !.pc = "done"]]
  /\ UNCHANGED <<day, corrected>>

Crash == Restarts /\ UNCHANGED <<files, amended, written>>

\* ... between two of the files a consolidation writes.
CrashInside(r, a, embeds, update, n) ==
  /\ Ready(r, a)
  /\ files' = Written(r, a, embeds, update, n)
  /\ Tells(r, a, embeds)
  /\ Restarts

RunStep(r) ==
  \/ Begins(r) \/ Fails(r) \/ Cancelled(r)
  \/ \E a \in Answers : Answered(r, a)
  \/ \E a \in Answers, embeds \in BOOLEAN : \E update \in Updates(r, a) :
       Stores(r, a, embeds, update)
  \/ \E a \in Answers : StoresInPart(r, a, TRUE)
  \/ \E a \in Answers, n \in 1 .. 5 : \E update \in Updates(r, a) :
       CrashInside(r, a, TRUE, update, IF a.badEdge THEN 1 ELSE n)

Next ==
  \/ \E r \in Runs : RunStep(r)
  \/ \E id \in Ids : Delete(id)
  \/ \E id \in Ids, c \in Corrections : Correct(id, c)
  \/ Searches \/ DayPasses \/ Crash

Spec == Init /\ [][Next]_vars

-----------------------------------------------------------------------------
(* Properties.                                                             *)

\* What was told within HARD_DELETE days, and every container, is in the
\* graph, whole or in chunks, whatever was merged, expired, told in part or
\* cut off by a crash since, unless the user deleted it.  These are the days of
\* expire(); the memory skill says "Auto-expires non-structural nodes after 30
\* days" (skills/memory/SKILL.md:16), when expire() only marks them.
KeptWhileFresh ==
  \A id \in Ids :
    written[id] # None /\ (id.name \notin Sources \/ day <= written[id] + HardDelete)
      => Has(files.graph, id)

\* A text that is replaced goes into the newest version of its node, and every
\* prompt that shows the node asks to confirm it from then on, a correction or
\* not: whether it was plain or encrypted, corrected before, or replaced by a
\* secret.  Only a secret over a secret leaves nothing of the old text, because
\* _has_conflict compares the two placeholders.
ReplacedIsKept ==
  [][\A old \in ToSet(files.graph.nodes) : \A n \in ToSet(files'.graph.nodes) :
       n.id = old.id =>
         LET lost == {old.summary, old.cipher} \ {n.summary, n.cipher, Hidden, None}
         IN /\ old.conflict => n.conflict
            /\ \/ lost = {}
               \/ old.summary = Hidden /\ n.summary = Hidden
               \/ /\ lost \subseteq {Last(n.versions).summary, Last(n.versions).cipher}
                  /\ n.conflict \/ corrected' # corrected]_vars

\* What the index finds at a position is the node that was indexed there,
\* though other stores have told, merged, corrected and chunked nodes since,
\* as long as none was removed, by the user or by expiry.
IndexedIsFound == ~shrunk => AnnSearch(files.graph, index) = index

-----------------------------------------------------------------------------
(* What the feedback tool says and the code does not do.                   *)

\* A correction replaces the memory: prompts show it, until the memory is told
\* anew.
CorrectionShown ==
  \A n \in ToSet(files.graph.nodes) :
    n.type = "memory" /\ amended[n.id] # None => Shown(n) = amended[n.id]
=============================================================================
