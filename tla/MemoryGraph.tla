----------------------------- MODULE MemoryGraph -----------------------------
(***************************************************************************)
(* The knowledge graph of src/nanobot/agent/memory.py (MemoryGraph): the   *)
(* nodes and edges of graph.json and what each operation makes of them.    *)
(*                                                                         *)
(* A text is a number: the telling it comes from; 0 is the fixed text of a *)
(* container.  Tags, mention counts, the audit file and the search by words *)
(* with its ranking are left out.                                          *)
(***************************************************************************)
EXTENDS Naturals, Sequences, FiniteSets, SequencesExt

CONSTANTS
  Sources,      \* what memories are about
  Projects,     \* project names
  Categories,   \* daily categories
  Texts,        \* tellings and corrections
  HasKey,       \* NANOBOT_MEMORY_SECRET is set: the cipher is enabled
  HasIndex,     \* hnswlib is installed
  AnnMinNodes,  \* _ANN_MIN_NODES (50)
  VersionsKept, \* replaced texts a node keeps (5)
  MaxAge,       \* days until a memory is stale (30)
  HardDelete    \* days until it is deleted (90)

ASSUME GraphAssumption ==
  /\ {HasKey, HasIndex} \subseteq BOOLEAN
  /\ {AnnMinNodes, VersionsKept, MaxAge, HardDelete} \subseteq Nat
  /\ VersionsKept > 0 /\ MaxAge <= HardDelete
  /\ Texts \subseteq Nat \ {0}

None == 0 - 1    \* a field that is not set
Hidden == 0 - 2  \* "[encrypted sensitive memory]" or "[... omitted ...]"

Scopes == {"projects", "daily"}
Names == Scopes \cup Projects \cup Categories \cup Sources

\* The id of a container begins with its kind: "scope:", "project:", "daily:".
ASSUME NamesAssumption ==
  /\ Sources \cap (Scopes \cup Projects \cup Categories) = {}
  /\ Scopes \cap (Projects \cup Categories) = {} /\ Projects \cap Categories = {}

\* Part 0 is a node as it was told, parts 1 and 2 are its chunks.
Id(name, part) == [name |-> name, part |-> part]
NoId == Id("", 0)
Ids == [name : Names, part : 0 .. 2]

\* A replaced text: the summary, and the ciphertext behind a placeholder.
Version == [summary : Texts \cup {0, Hidden}, cipher : Texts \cup {0, None}]

NodeType == {"scope", "project", "category", "memory"}
Node == [id : Ids, type : NodeType, parent : Ids \cup {NoId},
         label : Projects \cup Categories \cup {""},
         summary : Texts \cup {0, Hidden}, shown : Texts \cup {0, Hidden},
         cipher : Texts \cup {0, None}, embedding : Texts \cup {0, None},
         versions : Seq(Version),
         sensitive : BOOLEAN, confirm : BOOLEAN, conflict : BOOLEAN,
         seen : Nat, stale : BOOLEAN]

Graph == [nodes : Seq(Node), edges : SUBSET (Ids \X Ids)]
EmptyGraph == [nodes |-> <<>>, edges |-> {}]

Has(g, id) == \E p \in DOMAIN g.nodes : g.nodes[p].id = id
Position(g, id) == CHOOSE p \in DOMAIN g.nodes : g.nodes[p].id = id

\* The elements at some positions, in their order.
Selected(s, positions) ==
  FlattenSeq([p \in DOMAIN s |-> IF p \in positions THEN <<s[p]>> ELSE <<>>])

-----------------------------------------------------------------------------
(* What the model told, attached to its containers.                        *)

NewNode(name, type, parent, label, text, sensitive) ==
  [id |-> Id(name, 0), type |-> type, parent |-> parent, label |-> label,
   summary |-> text, shown |-> text, cipher |-> None, embedding |-> None,
   versions |-> <<>>, sensitive |-> sensitive, confirm |-> FALSE,
   conflict |-> FALSE, seen |-> 0, stale |-> FALSE]

ScopeNode(scope) == NewNode(scope, "scope", NoId, "", 0, FALSE)
ScopeOf(label) == IF label \in Projects THEN "projects" ELSE "daily"
ContainerNode(label, text, sensitive) ==
  NewNode(label, IF label \in Projects THEN "project" ELSE "category",
          Id(ScopeOf(label), 0), label, text, sensitive)

\* prepare_hierarchy: the scope, the project or the category, and the node
\* itself; what the model says of the project is merged into its node.
PrepareHierarchy(about, label, text, sensitive) ==
  LET up == <<ScopeNode(ScopeOf(label))>>
      edge == <<Id(ScopeOf(label), 0), Id(label, 0)>>
  IN IF about = label
     THEN [nodes |-> Append(up, ContainerNode(label, text, sensitive)), edges |-> {edge}]
     ELSE [nodes |-> up \o <<ContainerNode(label, 0, FALSE),
                             NewNode(about, "memory", Id(label, 0), label, text, sensitive)>>,
           edges |-> {edge, <<Id(label, 0), Id(about, 0)>>}]

\* semantic_chunk_nodes: a long text becomes nodes of its own, which replace
\* the node it was told in.  A second call finds nothing long any more.
SemanticChunks(ns, long) ==
  LET Chunks(n) == IF n.id.name = long /\ n.id.part = 0
                   THEN <<[n EXCEPT !.id.part = 1], [n EXCEPT !.id.part = 2]>>
                   ELSE <<n>>
  IN FlattenSeq([p \in DOMAIN ns |-> Chunks(ns[p])])

\* provider.embed: all texts or none.
Embedded(ns) == [p \in DOMAIN ns |-> [ns[p] EXCEPT !.embedding = ns[p].summary]]

-----------------------------------------------------------------------------
(* add_nodes, add_edges, expire, delete_node.                              *)

\* MemoryCipher: without a key there is no ciphertext and no way back.
Encrypt(text) == IF HasKey THEN text ELSE None
Decrypt(cipher) == IF HasKey THEN cipher ELSE None

\* _protect_sensitive_node: without a key the text is dropped.
Protect(n) ==
  IF ~n.sensitive THEN n
  ELSE [n EXCEPT !.confirm = TRUE, !.summary = Hidden, !.shown = Hidden,
                 !.cipher = Encrypt(n.summary)]

\* _generalization_value: the score, for the nodes it drops.
LowValue(n, noise) == n.id.name \in noise

\* _filter_noise: containers always pass.
FilterNoise(ns, noise) ==
  LET kept == Selected(ns, {p \in DOMAIN ns : ns[p].type # "memory" \/ ~LowValue(ns[p], noise)})
  IN [p \in DOMAIN kept |-> Protect(kept[p])]

\* _has_conflict, for nodes of one name.
HasConflict(old, new) == old.summary # new.summary

LastVersions(s) == SubSeq(s, 1 + (IF Len(s) > VersionsKept THEN Len(s) - VersionsKept ELSE 0), Len(s))

Replaced(old) == [summary |-> old.summary, cipher |-> old.cipher]

\* Mutant: only the first replaced text is kept.
FirstVersion(old, new) ==
  IF HasConflict(old, new) /\ old.versions = <<>> THEN <<Replaced(old)>> ELSE old.versions

Versions(old, new) ==
  IF HasConflict(old, new) THEN LastVersions(Append(old.versions, Replaced(old))) ELSE old.versions

\* What the new node sets replaces what the old one has; a new node sets
\* neither stale nor, unless it is sensitive, a cipher.
MergeFields(old, new) ==
  [new EXCEPT !.cipher = IF @ = None THEN old.cipher ELSE @,
              !.embedding = IF @ = None THEN old.embedding ELSE @,
              !.versions = Versions(old, new),
              !.sensitive = @ \/ old.sensitive,
              !.confirm = @ \/ old.confirm,
              !.conflict = old.conflict \/ HasConflict(old, new),
              !.stale = old.stale]

\* Mutant: a merge keeps the time the node was first seen.
MergeUnseen(old, new, now) == [MergeFields(old, new) EXCEPT !.seen = old.seen]

Merge(old, new, now) == [MergeFields(old, new) EXCEPT !.seen = now]

\* Mutant: a node that is told again moves to the end.
MergeAtEnd(g, n, now) ==
  IF Has(g, n.id)
  THEN LET p == Position(g, n.id)
       IN [g EXCEPT !.nodes = Append(Selected(@, DOMAIN @ \ {p}), Merge(@[p], n, now))]
  ELSE [g EXCEPT !.nodes = Append(g.nodes, [n EXCEPT !.seen = now])]

AddNode(g, n, now) ==
  IF Has(g, n.id)
  THEN LET p == Position(g, n.id) IN [g EXCEPT !.nodes[p] = Merge(g.nodes[p], n, now)]
  ELSE [g EXCEPT !.nodes = Append(g.nodes, [n EXCEPT !.seen = now])]

AddNodes(g, ns, noise, now) ==
  LET kept == FilterNoise(ns, noise)
      added[k \in 0 .. Len(kept)] == IF k = 0 THEN g ELSE AddNode(added[k - 1], kept[k], now)
  IN added[Len(kept)]

AddEdges(g, es) == [g EXCEPT !.edges = @ \cup es]

Without(g, gone) ==
  [nodes |-> Selected(g.nodes, {p \in DOMAIN g.nodes : g.nodes[p].id \notin gone}),
   edges |-> {e \in g.edges : e[1] \notin gone /\ e[2] \notin gone}]

\* Persistent nodes are the containers.
Expire(g, now) ==
  LET old == {n.id : n \in {m \in ToSet(g.nodes) : m.type = "memory" /\ m.seen + HardDelete < now}}
      h == Without(g, old)
  IN [h EXCEPT !.nodes = [p \in DOMAIN h.nodes |->
                            [h.nodes[p] EXCEPT !.stale = h.nodes[p].seen + MaxAge < now]]]

DeleteNode(g, id) == Without(g, {id})

\* apply_feedback("correct"): the summary is replaced, the old one is kept
\* among the versions; a ciphertext stays in the node.
CorrectNode(g, id, text, now) ==
  LET p == Position(g, id)
  IN [g EXCEPT !.nodes[p].versions = LastVersions(Append(@, [Replaced(g.nodes[p]) EXCEPT !.cipher = None])),
               !.nodes[p].summary = text,
               !.nodes[p].seen = now,
               !.nodes[p].confirm = FALSE]

-----------------------------------------------------------------------------
(* The index of the searches, and what a prompt shows of a node.           *)

HasEmbedding(g) == {p \in DOMAIN g.nodes : g.nodes[p].embedding # None}

\* _build_index: the nodes that have embeddings, by their positions (the
\* labels of the index) and with their ids (_index_ids); too few, and there is
\* no index, which is tried again by the next search.
NoIndex == [p \in {} |-> NoId]
BuildIndex(g) ==
  IF Cardinality(HasEmbedding(g)) < AnnMinNodes THEN NoIndex
  ELSE [p \in HasEmbedding(g) |-> g.nodes[p].id]

UsesIndex(g) == HasIndex /\ Len(g.nodes) > AnnMinNodes

\* The index as the search leaves it: only a missing one is built.
IndexAfterSearch(g, index) ==
  IF UsesIndex(g) /\ DOMAIN index = {} THEN BuildIndex(g) ELSE index

\* _ann_search: a position of the index gives the node that is there now.
AnnSearch(g, index) == [p \in DOMAIN index \cap DOMAIN g.nodes |-> g.nodes[p].id]

\* _restore_summary.
Restore(n) ==
  LET plain == Decrypt(n.cipher)
  IN IF plain = None THEN n ELSE [n EXCEPT !.summary = plain, !.shown = plain]

\* _format_related_context: the expanded text stands before the summary.
Shown(n) == Restore(n).shown
=============================================================================
