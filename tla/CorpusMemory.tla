---------------------------- MODULE CorpusMemory ----------------------------
(***************************************************************************)
(* What the native server keeps for one corpus, and how its mutations keep *)
(* the parts together: the memory snapshot (passages, facts, schemas), the *)
(* graph that mirrors it (nodes, edges), vectors and lexical passages, the *)
(* derived indexes, and pages of the edge projection.                      *)
(*                                                                         *)
(* Indexing jobs, one per document, share the server process.  A job reads *)
(* schema projections, perhaps before its batch and perhaps while another  *)
(* job's batch is open, and sends merges that carry the token it read.  A  *)
(* refused mutation ends the process, and the batch with it; how a batch   *)
(* reaches the disk is the subject of NativeStore.                         *)
(*                                                                         *)
(* One passage per document, named by it.  A token is a digest of the      *)
(* whole stored schema, so it is the schema.  updatedAt, labels, weights,  *)
(* aliases and types are left out.                                         *)
(***************************************************************************)
EXTENDS Naturals, Sequences, FiniteSets, SequencesExt, Functions

CONSTANTS
    Doc, Fact, Schema, Entity,
    None, Dirty, Operator,
    SchemaOf,       \* Fact -> Schema: schemaId
    Ends,           \* Fact -> Entity \X Entity: its head and tail
    Contributes,    \* Doc -> SUBSET Fact: facts with the document among their sources
    Evidence,       \* Doc -> SUBSET Fact: of these, the ones its passage grounds
    Occurrences,    \* Doc -> Nat: what the document adds to a schema's frequency
    Threshold,      \* stabilizationThreshold
    NodeRank,       \* NodeId -> Nat: where a node id comes among the ids
    KeyRank,        \* EdgeKey -> Nat: where an edge's key comes among the keys
    Operations,     \* requests sent on their own, each in a batch of its own
    PageSize,       \* entries that fit one projection page
    MaxGen,         \* bound: generations committed
    MaxOperatorGen  \* bound: generations up to which the operator sends requests

ASSUME ShapesAssumption ==
    /\ IsFiniteSet(Doc) /\ IsFiniteSet(Fact) /\ IsFiniteSet(Schema) /\ IsFiniteSet(Entity)
    /\ SchemaOf \in [Fact -> Schema] /\ Ends \in [Fact -> Entity \X Entity]
    /\ Contributes \in [Doc -> SUBSET Fact] /\ Evidence \in [Doc -> SUBSET Fact]
    /\ Occurrences \in [Doc -> Nat] /\ Threshold \in Nat /\ PageSize \in Nat \ {0}
    /\ MaxGen \in Nat /\ MaxOperatorGen \in 0..MaxGen
    /\ Operator \notin Doc /\ None \notin Nat \union [owner : Doc \union {Operator}, stage : Nat]

ASSUME ContributionsAssumption ==
    /\ \A d \in Doc : Evidence[d] \subseteq Contributes[d] /\ Occurrences[d] > 0
    /\ \A f \in Fact : \E d \in Doc : f \in Evidence[d]

VARIABLES
    mem,        \* the State of the process, for this corpus
    durable,    \* the State of the last committed generation
    gen,        \* its number
    tx,         \* the open batch: its owner and what the owner sends next
    plan,       \* Doc -> the schema projections the job holds, or None
    cache,      \* derived indexes; Dirty when marked
    pager       \* a client reading the projection page by page

vars  == <<mem, durable, gen, tx, plan, cache, pager>>

-----------------------------------------------------------------------------
(* The state of a corpus. *)

NodeId   == ({"passage"} \X Doc) \union ({"fact"} \X Fact)
              \union ({"ontology"} \X Schema) \union ({"entity"} \X Entity)
Relation == {"entity_mention", "entity_cooccurrence", "schema_instance", "fact_evidence"}
Link(rel, from, to, fact) == [rel |-> rel, from |-> from, to |-> to, fact |-> fact]

\* The edges a job sends for its document (client code).
Mentioned(F) == UNION {{Ends[f][1], Ends[f][2]} : f \in F}
EdgesSent(d, F) ==
    {Link("entity_mention", <<"entity", x>>, <<"passage", d>>, None) : x \in Mentioned(Evidence[d])}
      \union {Link("fact_evidence", <<"fact", f>>, <<"passage", d>>, None) : f \in Evidence[d]}
      \union {Link("schema_instance", <<"ontology", SchemaOf[f]>>, <<"fact", f>>, None) : f \in F}
      \union {Link("entity_cooccurrence", <<"entity", Ends[f][1]>>, <<"entity", Ends[f][2]>>, f) : f \in F}

\* Every edge a job may send.  Ids and keys are strings, compared as such.
EdgeKey == UNION {EdgesSent(d, Contributes[d]) : d \in Doc}

ASSUME RanksAssumption ==
    /\ NodeRank \in [NodeId -> Nat] /\ IsInjective(NodeRank)
    /\ KeyRank \in [EdgeKey -> Nat] /\ IsInjective(KeyRank)

\* Not in the code: live, the documents indexed and not deleted since; raw,
\* a deletion that leaves the snapshot alone has been sent.
Empty == [passages |-> {}, facts |-> <<>>, active |-> {}, schemas |-> <<>>, nodes |-> <<>>,
          edges |-> {}, vectors |-> <<>>, values |-> {}, lexical |-> {}, live |-> {}, raw |-> FALSE]

\* Functions with a changing domain.
Put(f, g)  == [x \in DOMAIN f \union DOMAIN g |-> IF x \in DOMAIN g THEN g[x] ELSE f[x]]
Keep(f, S) == [x \in DOMAIN f \intersect S |-> f[x]]
Drop(f, S) == [x \in DOMAIN f \ S |-> f[x]]

\* The domain of rank as a sequence, lowest rank first.
Sorted(rank) ==
    LET ranked == {<<rank[x], x>> : x \in DOMAIN rank}
        place  == {<<Cardinality({q \in ranked : q[1] <= p[1]}), p[2]>> : p \in ranked}
    IN  [k \in 1..Cardinality(DOMAIN rank) |-> CHOOSE x \in DOMAIN rank : <<k, x>> \in place]

Without(docs, w) ==
    LET at == Sorted([i \in {j \in DOMAIN docs : docs[j] # w} |-> i])
    IN  [k \in DOMAIN at |-> docs[at[k]]]
Lists(ref, w)    == w \in ToSet(ref.docs)
Adjacent(E, N)   == {e \in E : e.from \in N \/ e.to \in N}

-----------------------------------------------------------------------------
(* Derived indexes. *)

\* Fault: sorted by source alone, ties as the HashMap happens to list them.
SourceRankOnly == [up \in BOOLEAN |-> [b \in EdgeKey |-> Cardinality({a \in EdgeKey :
    \/ NodeRank[a.from] < NodeRank[b.from]
    \/ a.from = b.from /\ IF up THEN KeyRank[a] < KeyRank[b] ELSE KeyRank[a] > KeyRank[b]})]]
OrderBySource(E, up) == Sorted([e \in E |-> SourceRankOnly[up][e]])

\* By source, target and key.
EdgeBefore(a, b) ==
    \/ NodeRank[a.from] < NodeRank[b.from]
    \/ a.from = b.from /\ NodeRank[a.to] < NodeRank[b.to]
    \/ a.from = b.from /\ a.to = b.to /\ KeyRank[a] < KeyRank[b]
EdgeRank == [b \in EdgeKey |-> Cardinality({a \in EdgeKey : EdgeBefore(a, b)})]

\* ensure_projection_order.  The keys it sorts come from a HashMap in any
\* order; up and down stand for two of them, and nothing of it is left.
ProjectionOrder(E, up) == Sorted([e \in E |-> EdgeRank[e]])

\* ensure_cache: nothing is rebuilt while the indexes are not dirty.
Index(M, up) == [nodes |-> DOMAIN M.nodes, edges |-> M.edges, vectors |-> DOMAIN M.vectors,
                 lexical |-> M.lexical, order |-> ProjectionOrder(M.edges, up)]
EnsureCache  == IF cache = Dirty THEN \E up \in BOOLEAN : cache' = Index(mem, up) ELSE UNCHANGED cache

\* The reads, through indexes I of a state M.  All but the count skip a key
\* that M does not hold; none can find one that I does not.  A vector with no
\* decoded value scores 0.
GetNodes(I, M)       == I.nodes \intersect DOMAIN M.nodes
GetEdges(I, M)       == I.edges \intersect M.edges
GetAdjacent(I, M, n) == Adjacent(I.edges, {n}) \intersect M.edges
Transitions(I, M)    == {<<e.from, e.to>> : e \in GetEdges(I, M)}
DanglingNodes(I, M)  == GetNodes(I, M) \ {e.from : e \in GetEdges(I, M)}
NodeCount(I)         == Cardinality(I.nodes)
VectorHits(I, M)     == [n \in I.vectors \intersect DOMAIN M.vectors |-> n \in M.values]
LexicalHits(I, M)    == I.lexical \intersect M.lexical

\* cypher_query builds a graph of its own, without the edges that lack an end.
CypherEdges(M) == {e \in M.edges : {e.from, e.to} \subseteq DOMAIN M.nodes}

-----------------------------------------------------------------------------
(* Schema projections and compare-and-set merges. *)

\* memory_get_schemas_by_ids: what a job sees of its schemas, and the facts it
\* will send: those its passage grounds, and others it knows that are stored.
SchemaProjection(M, d) ==
    [schemas |-> Keep(M.schemas, {SchemaOf[f] : f \in Contributes[d]}),
     facts   |-> {f \in Contributes[d] : f \in Evidence[d] \/ f \in DOMAIN M.facts}]

FactsSent(d)   == plan[d].facts
SchemasOf(d)   == {SchemaOf[f] : f \in FactsSent(d)}
FactsIn(d, s)  == {f \in FactsSent(d) : SchemaOf[f] = s}

\* The intent a job derives from its projection (client code).
Intent(d, s, view) ==
    IF s \notin DOMAIN view
    THEN [mode |-> "create", schema |->
            [docs |-> <<d>>, freq |-> Occurrences[d], stable |-> Occurrences[d] >= Threshold,
             facts |-> FactsIn(d, s)]]
    ELSE LET delta == IF Lists(view[s], d) THEN 0 ELSE Occurrences[d]
         IN  [mode |-> "merge", token |-> view[s], delta |-> delta,
              stable |-> view[s].freq + delta >= Threshold, facts |-> FactsIn(d, s)]

\* Fault: a merge only needs its target.
IntentAppliesUnchecked(M, d, s, i) == (i.mode = "merge") = (s \in DOMAIN M.schemas)

\* A create expects absence; a merge its target, the token it was planned on,
\* and an increment exactly when the document is a new contribution.
IntentApplies(M, d, s, i) ==
    IF i.mode = "create" THEN s \notin DOMAIN M.schemas
    ELSE /\ s \in DOMAIN M.schemas
         /\ M.schemas[s] = i.token
         /\ Lists(M.schemas[s], d) <=> i.delta = 0

\* validate_schema_merge_intents: every intent before any is applied.
ValidMerges(M, d) == \A s \in SchemasOf(d) : IntentApplies(M, d, s, Intent(d, s, plan[d].schemas))

\* Fault: the contribution is added whether or not it is listed.
MergedSchemaAppending(M, d, s, i) ==
    IF i.mode = "create" THEN i.schema
    ELSE [docs   |-> Append(M.schemas[s].docs, d), freq |-> M.schemas[s].freq + i.delta,
          stable |-> i.stable, facts |-> M.schemas[s].facts \union i.facts]

\* apply_schema_merge_intents.
MergedSchema(M, d, s, i) ==
    IF i.mode = "create" THEN i.schema
    ELSE LET old == M.schemas[s]
         IN  [docs   |-> IF Lists(old, d) THEN old.docs ELSE Append(old.docs, d),
              freq   |-> old.freq + i.delta,
              stable |-> i.stable,
              facts  |-> old.facts \union i.facts]

\* memory_get_facts_by_ids: unknown ids are omitted.
GetFactsByIds(M, F) == Keep(M.facts, F)

\* The facts a job sends: what it reads in its batch, with its own document.
FactItem(M, d, f) ==
    LET read == GetFactsByIds(M, {f})
        old  == IF f \in DOMAIN read THEN read[f] ELSE [docs |-> <<>>, passages |-> {}]
    IN  [docs     |-> IF Lists(old, d) THEN old.docs ELSE Append(old.docs, d),
         passages |-> old.passages \union (IF f \in Evidence[d] THEN {d} ELSE {})]

\* memory_upsert: sections are merged by id, then the schema intents applied.
MemoryUpsert(M, d) ==
    [M EXCEPT !.passages = @ \union {d},
              !.facts    = Put(@, [f \in FactsSent(d) |-> FactItem(M, d, f)]),
              !.schemas  = Put(@, [s \in SchemasOf(d) |->
                                     MergedSchema(M, d, s, Intent(d, s, plan[d].schemas))]),
              !.live     = @ \union {d}]

-----------------------------------------------------------------------------
(* The other requests of a job. *)

\* upsert_nodes; hydrated_schema_nodes copies the stored schema into its node.
UpsertNodes(M, d) ==
    LET sent     == ({<<"passage", d>>} \union ({"fact"} \X FactsSent(d))
                       \union ({"entity"} \X Mentioned(FactsSent(d))))
        hydrated == {"ontology"} \X SchemasOf(d)
        ref(n)   == CASE n[1] = "passage"  -> [docs |-> <<d>>]
                      [] n[1] = "entity"   -> [docs |-> <<>>]
                      [] n[1] = "fact"     -> M.facts[n[2]]
                      [] n[1] = "ontology" -> M.schemas[n[2]]
    IN  [M EXCEPT !.nodes = Put(@, [n \in sent \union hydrated |-> ref(n)])]

UpsertEdges(M, d) == [M EXCEPT !.edges = @ \union EdgesSent(d, FactsSent(d))]

\* vector_upsert.  A schema's vector names the first source the projection gave.
FirstSource(d, s) ==
    LET view == plan[d].schemas
    IN  IF s \in DOMAIN view /\ view[s].docs # <<>> THEN view[s].docs[1] ELSE d
VectorUpsert(M, d) ==
    LET owner == [n \in {<<"passage", d>>} \union ({"fact"} \X FactsSent(d))
                          \union ({"ontology"} \X SchemasOf(d)) |->
                    CASE n[1] = "passage"  -> d
                      [] n[1] = "fact"     -> M.facts[n[2]].docs[1]
                      [] n[1] = "ontology" -> FirstSource(d, n[2])]
    IN  [M EXCEPT !.vectors = Put(@, owner), !.values = @ \union DOMAIN owner]

LexicalIndex(M, d) == [M EXCEPT !.lexical = @ \union {d}]

-----------------------------------------------------------------------------
(* memory_delete_document of w. *)

\* Passage and fact nodes that name w; entities have no source of their own.
NamingNodes(M, w) ==
    {n \in DOMAIN M.nodes : n[1] \in {"passage", "fact"} /\ Lists(M.nodes[n], w)}
NamingOntology(M, w) == {n \in DOMAIN M.nodes : n[1] = "ontology" /\ Lists(M.nodes[n], w)}

RemovedPassages(M, w) ==
    (M.passages \intersect {w}) \union {n[2] : n \in {m \in NamingNodes(M, w) : m[1] = "passage"}}

LosesAllPassages(ref, P) == ref.passages # {} /\ ref.passages \subseteq P

\* Fault: a shared fact goes only with its last source.
UngroundedBySource(ref, w, P) == ToSet(ref.docs) = {w}

\* A fact that loses w and the passages P is removed: no other source, or no
\* passage left.
Ungrounded(ref, w, P) == ToSet(ref.docs) = {w} \/ LosesAllPassages(ref, P)

TouchedFacts(M, w)    == {f \in DOMAIN M.facts : Lists(M.facts[f], w)}
DroppedFacts(M, w, P) == {f \in TouchedFacts(M, w) : Ungrounded(M.facts[f], w, P)}

\* Removed fact ids come from the graph scan and from the snapshot.
RemovedFacts(M, w, P) ==
    LET nodes == {n \in NamingNodes(M, w) : n[1] = "fact" /\ Ungrounded(M.nodes[n], w, P)}
    IN  DroppedFacts(M, w, P) \union {n[2] : n \in nodes}

PrunedSource(ref, w, P) == [docs |-> Without(ref.docs, w), passages |-> ref.passages \ P]

\* Shared facts that stay, as they are afterwards.
FactPost(M, w, P) == [f \in TouchedFacts(M, w) \ DroppedFacts(M, w, P) |->
                         PrunedSource(M.facts[f], w, P)]

\* prune_schema_value: one decrement, at least 0, and the state that follows.
PruneSchema(schema, w, F) ==
    LET freq == IF schema.freq = 0 THEN 0 ELSE schema.freq - 1
    IN  [docs |-> Without(schema.docs, w), freq |-> freq, stable |-> freq >= Threshold,
         facts |-> schema.facts \ F]

AffectedSchemas(M, w, F) ==
    {s \in DOMAIN M.schemas :
        \/ Lists(M.schemas[s], w)
        \/ M.schemas[s].facts \intersect F # {}
        \/ s \in {SchemaOf[f] : f \in TouchedFacts(M, w)}}

\* Affected schemas, and those a node or a vector of the corpus needs.
SchemaPost(M, w, F) ==
    LET affected == AffectedSchemas(M, w, F)
        needed   == {n[2] : n \in NamingOntology(M, w)}
           \union {n[2] : n \in {m \in DOMAIN M.vectors : m[1] = "ontology" /\ M.vectors[m] = w}}
    IN  [s \in affected \union (needed \intersect DOMAIN M.schemas) |->
            IF s \in affected THEN PruneSchema(M.schemas[s], w, F) ELSE M.schemas[s]]

OntologyNodes(M, w, posts) ==
    NamingOntology(M, w) \union {n \in DOMAIN M.nodes : n[1] = "ontology" /\ n[2] \in DOMAIN posts}

\* Fault: a shared node is pruned in place.
RefAfterInPlace(n, ref, w, P, F, factPost, schemaPost) == [ref EXCEPT !.docs = Without(@, w)]

\* A node's ref afterwards: the snapshot item, or itself pruned when there is none.
RefAfter(n, ref, w, P, F, factPost, schemaPost) ==
    CASE n[1] = "fact" -> IF n[2] \in DOMAIN factPost THEN factPost[n[2]]
                          ELSE PrunedSource(ref, w, P)
      [] n[1] = "ontology" -> IF n[2] \in DOMAIN schemaPost THEN schemaPost[n[2]]
                              ELSE [ref EXCEPT !.docs = Without(@, w), !.facts = @ \ F]

\* Fault: only the edges that leave a removed node.
RemovedEdgesOutgoing(M, N, F) ==
    {e \in M.edges : e.from \in N \/ (e.rel = "entity_cooccurrence" /\ e.fact \in F)}

\* Edges of removed nodes N, and co-occurrences that carry a removed fact.
RemovedEdges(M, N, F) ==
    Adjacent(M.edges, N) \union {e \in M.edges : e.rel = "entity_cooccurrence" /\ e.fact \in F}

\* Entities that lost an edge and have no mention or co-occurrence left.
Orphans(M, gone) ==
    LET left == {e \in M.edges \ gone : e.rel \in {"entity_mention", "entity_cooccurrence"}}
    IN  {n \in DOMAIN M.nodes : n[1] = "entity" /\ Adjacent(gone, {n}) # {} /\ Adjacent(left, {n}) = {}}

\* Fault: a vector that names w goes, whoever else it belongs to.
VectorsAfterDropped(M, w, N, rekey) ==
    [n \in {m \in DOMAIN M.vectors \ N : M.vectors[m] # w} |-> M.vectors[n]]

\* Vectors of removed nodes go; one that names w is re-keyed if its item stays.
VectorsAfter(M, w, N, rekey) ==
    [n \in {m \in DOMAIN M.vectors \ N : M.vectors[m] = w => m \in DOMAIN rekey} |->
        IF M.vectors[n] = w THEN rekey[n] ELSE M.vectors[n]]

\* apply_memory_delete_document.  changed: some count of the answer is not zero.
Deletion(M, w) ==
    LET P          == RemovedPassages(M, w)
        F          == RemovedFacts(M, w, P)
        dropped    == DroppedFacts(M, w, P)
        factPost   == FactPost(M, w, P)
        schemaPost == SchemaPost(M, w, F)
        passages   == {n \in NamingNodes(M, w) : n[1] = "passage"}
        facts      == {n \in NamingNodes(M, w) : n[1] = "fact"}
        ontology   == OntologyNodes(M, w, schemaPost)
        after      == [n \in facts \union ontology |->
                         RefAfter(n, M.nodes[n], w, P, F, factPost, schemaPost)]
        removed    == passages \union {n \in facts : n[2] \in F}
                               \union {n \in ontology : after[n].docs = <<>>}
        sources    == Put([n \in {"ontology"} \X DOMAIN schemaPost |-> schemaPost[n[2]]],
                          Drop(after, removed))
        rekey      == [n \in {m \in DOMAIN sources : sources[m].docs # <<>>} |-> sources[n].docs[1]]
        gone       == RemovedEdges(M, removed, F)
        orphans    == Orphans(M, gone)
        vectors    == VectorsAfter(M, w, removed \union orphans, rekey)
    IN  [state |-> [M EXCEPT
             !.passages = @ \ {w},
             !.facts    = Put(Drop(@, dropped), factPost),
             !.active   = @ \ dropped,
             !.schemas  = Put(@, schemaPost),
             !.nodes    = Drop(Put(@, after), removed \union orphans),
             !.edges    = (@ \ gone) \ Adjacent(@, orphans),
             !.vectors  = vectors,
             !.values   = @ \ (DOMAIN M.vectors \ DOMAIN vectors),
             !.lexical  = @ \ {w},
             !.live     = @ \ {w}],
         changed |-> \/ w \in M.passages \union M.lexical
                     \/ TouchedFacts(M, w) # {} \/ AffectedSchemas(M, w, F) # {}
                     \/ passages \union DOMAIN after # {} \/ gone # {} \/ vectors # M.vectors]

DeleteDocument(M, w) == Deletion(M, w).state

-----------------------------------------------------------------------------
(* Requests outside jobs.  None of the raw deletions touches the snapshot. *)

DeleteNodes(M, N) == [M EXCEPT !.nodes = Drop(@, N), !.edges = @ \ Adjacent(@, N)]

\* delete_by_document: every node that lists w, shared or not.
DeleteByDocument(M, w) ==
    LET gone  == {n \in DOMAIN M.nodes : Lists(M.nodes[n], w)}
        owned == {n \in DOMAIN M.vectors : M.vectors[n] = w}
    IN  [DeleteNodes(M, gone) EXCEPT !.vectors = Drop(@, owned), !.values = @ \ owned,
                                     !.lexical = @ \ {w}]

VectorDeleteByDocument(M, w) ==
    LET owned == {n \in DOMAIN M.vectors : M.vectors[n] = w}
    IN  [M EXCEPT !.vectors = Drop(@, owned), !.values = @ \ owned]

\* memory_activate_facts_by_schema_ids.
ActivateFacts(M, S) ==
    [M EXCEPT !.active = @ \union {f \in DOMAIN M.facts : SchemaOf[f] \in S}]

\* memory_save replaces the snapshot: here by what memory_load gave, facts inactive.
MemorySave(M) == [M EXCEPT !.active = {}]

Request ==
    [op : {"delete_document", "delete_by_document", "vector_delete", "lexical_delete"}, doc : Doc]
      \union [op : {"delete_nodes"}, nodes : SUBSET NodeId]
      \union [op : {"delete_edges"}, rel : SUBSET Relation]
      \union [op : {"activate"}, schemas : SUBSET Schema]
      \union [op : {"save", "delete_by_corpus"}]

ASSUME OperationsAssumption == Operations \subseteq Request

Raw(M) == [M EXCEPT !.raw = TRUE]
Apply(M, r) ==
    CASE r.op = "delete_document"    -> DeleteDocument(M, r.doc)
      [] r.op = "delete_by_document" -> Raw(DeleteByDocument(M, r.doc))
      [] r.op = "vector_delete"      -> Raw(VectorDeleteByDocument(M, r.doc))
      [] r.op = "lexical_delete"     -> Raw([M EXCEPT !.lexical = @ \ {r.doc}])
      [] r.op = "delete_nodes"       -> Raw(DeleteNodes(M, r.nodes))
      [] r.op = "delete_edges"       -> Raw([M EXCEPT !.edges = {e \in @ : e.rel \notin r.rel}])
      [] r.op = "activate"           -> ActivateFacts(M, r.schemas)
      [] r.op = "save"               -> MemorySave(M)
      [] r.op = "delete_by_corpus"   -> Empty

\* Fault: delete_edges forgets to mark the indexes.
MarkedExceptEdges(M, r) ==
    IF r.op = "delete_document" THEN Deletion(M, r.doc).changed ELSE r.op \notin {"save", "delete_edges"}

\* Whether the request calls mark_cache_dirty.  An activation in a corpus that never
\* had a facts section returns before it; it has then changed nothing either.
Marked(M, r) == IF r.op = "delete_document" THEN Deletion(M, r.doc).changed ELSE r.op # "save"

-----------------------------------------------------------------------------
(* The server process, its clients and its failures. *)

Stage == <<"memory", "nodes", "edges", "vectors", "lexical", "done">>
At(o, i) == tx # None /\ tx.owner = o /\ Stage[tx.stage] = i

Restart ==
    /\ mem' = durable /\ tx' = None /\ cache' = Dirty
    /\ plan' = [d \in Doc |-> IF tx # None /\ tx.owner = d THEN None ELSE plan[d]]

\* memory_get_schemas_by_ids, at any time: it reads the process's state.
Project(d) ==
    /\ plan[d] = None
    /\ plan' = [plan EXCEPT ![d] = SchemaProjection(mem, d)]
    /\ UNCHANGED <<mem, durable, gen, tx, cache, pager>>

Begin(o) ==
    /\ tx = None /\ gen < (IF o = Operator THEN MaxOperatorGen ELSE MaxGen)
    /\ tx' = [owner |-> o, stage |-> 1]
    /\ UNCHANGED <<mem, durable, gen, plan, cache, pager>>

\* A job replaces its document: delete and upsert in one batch.  It reads its
\* projections again.
JobDelete(d) ==
    /\ At(d, "memory")
    /\ LET done == Deletion(mem, d)
       IN  mem' = done.state /\ cache' = IF done.changed THEN Dirty ELSE cache
    /\ plan' = [plan EXCEPT ![d] = None]
    /\ UNCHANGED <<durable, gen, tx, pager>>

JobUpsert(d) ==
    /\ At(d, "memory") /\ plan[d] # None
    /\ IF ValidMerges(mem, d)
       THEN /\ mem' = MemoryUpsert(mem, d) /\ cache' = Dirty
            /\ tx' = [tx EXCEPT !.stage = 2] /\ UNCHANGED plan
       ELSE Restart
    /\ UNCHANGED <<durable, gen, pager>>

\* The rest of a job's requests, in the order it sends them.
JobStep(d, stage, M) ==
    /\ At(d, stage)
    /\ mem' = M /\ cache' = Dirty
    /\ tx' = [tx EXCEPT !.stage = @ + 1]
    /\ UNCHANGED <<durable, gen, plan, pager>>
JobNodes(d)   == JobStep(d, "nodes", UpsertNodes(mem, d))
JobEdges(d)   == JobStep(d, "edges", UpsertEdges(mem, d))
JobVectors(d) == JobStep(d, "vectors", VectorUpsert(mem, d))
JobLexical(d) == JobStep(d, "lexical", LexicalIndex(mem, d))

Operate(r) ==
    /\ At(Operator, "memory")
    /\ mem' = Apply(mem, r)
    /\ cache' = IF Marked(mem, r) THEN Dirty ELSE cache
    /\ tx' = [tx EXCEPT !.stage = Len(Stage)]
    /\ UNCHANGED <<durable, gen, plan, pager>>

\* batch_commit; the job's projections have served.
Commit(o) ==
    /\ At(o, "done")
    /\ durable' = mem /\ gen' = gen + 1 /\ tx' = None
    /\ plan' = [d \in Doc |-> IF d = o THEN None ELSE plan[d]]
    /\ UNCHANGED <<mem, cache, pager>>

\* The process ends: killed, or by any refused request.
Crash == Restart /\ UNCHANGED <<durable, gen, pager>>

\* A read that uses the indexes.
Read == EnsureCache /\ UNCHANGED <<mem, durable, gen, tx, plan, pager>>

-----------------------------------------------------------------------------
(* projection_get_transitions_page. *)

NoPager == [gen |-> None, offset |-> 0, got |-> {}, done |-> FALSE]

\* Only a committed generation is paged, and only the one the client began with.
PageAllowed == tx = None /\ pager.gen \in {None, gen}

ReadPage ==
    /\ ~pager.done
    /\ IF PageAllowed
       THEN /\ EnsureCache
            /\ LET order == cache'.order
                   total == Len(order)
               IN  IF pager.offset > total \/ (pager.offset = total /\ total > 0)
                   THEN pager' = NoPager
                   ELSE LET next == Min({pager.offset + PageSize, total})
                        IN  pager' = [gen |-> gen, offset |-> next, done |-> next = total,
                                      got |-> pager.got \union
                                                {order[i] : i \in (pager.offset + 1)..next}]
       ELSE pager' = NoPager /\ UNCHANGED cache
    /\ UNCHANGED <<mem, durable, gen, tx, plan>>

\* The client begins again.
Reread == pager.done /\ pager' = NoPager /\ UNCHANGED <<mem, durable, gen, tx, plan, cache>>

Init ==
    /\ mem = Empty /\ durable = Empty /\ gen = 0 /\ tx = None
    /\ plan = [d \in Doc |-> None] /\ cache = Dirty /\ pager = NoPager

Next ==
    \/ \E d \in Doc :
         \/ Project(d) \/ JobDelete(d) \/ JobUpsert(d) \/ JobNodes(d) \/ JobEdges(d)
         \/ JobVectors(d) \/ JobLexical(d)
    \/ \E o \in Doc \union {Operator} : Begin(o) \/ Commit(o)
    \/ \E r \in Operations : Operate(r)
    \/ Crash \/ Read \/ ReadPage \/ Reread

Spec == Init /\ [][Next]_vars

-----------------------------------------------------------------------------
(* Properties.  durable is a past value of mem: what holds of mem in every *)
(* state holds of every committed generation.                              *)

IsSchema(r) == /\ r.docs \in Seq(Doc) /\ IsInjective(r.docs) /\ r.facts \subseteq Fact
               /\ r.freq \in Nat /\ r.stable \in BOOLEAN
IsFact(r)   == r.docs \in Seq(Doc) /\ IsInjective(r.docs) /\ r.passages \subseteq Doc
IsState(M) ==
    /\ M.passages \union M.lexical \union M.live \subseteq Doc
    /\ DOMAIN M.facts \subseteq Fact /\ \A f \in DOMAIN M.facts : IsFact(M.facts[f])
    /\ M.active \subseteq DOMAIN M.facts
    /\ DOMAIN M.schemas \subseteq Schema /\ \A s \in DOMAIN M.schemas : IsSchema(M.schemas[s])
    /\ DOMAIN M.nodes \subseteq NodeId
    /\ \A n \in DOMAIN M.nodes : CASE n[1] = "fact"     -> IsFact(M.nodes[n])
                                   [] n[1] = "ontology" -> IsSchema(M.nodes[n])
                                   [] OTHER             -> M.nodes[n].docs \in Seq(Doc)
    /\ DOMAIN M.vectors \subseteq NodeId /\ Range(M.vectors) \subseteq Doc

\* Every part of the state has the shape the handlers rely on when they index
\* into it: source lists are duplicate-free, active facts exist.
TypeOK ==
    /\ IsState(mem) /\ gen \in 0..MaxGen
    /\ tx = None \/ (tx.owner \in Doc \union {Operator} /\ tx.stage \in DOMAIN Stage)
    /\ \A d \in Doc : plan[d] = None \/ plan[d].facts \subseteq Contributes[d]

\* Every read through indexes that are not marked dirty gives what the state
\* as it is now holds, and the projection order lists each edge once: whatever
\* requests came before, no answer misses an entry or counts one that is gone,
\* and no vector is scored without its decoded value.  No edge outlives one of
\* its nodes, whichever deletions ran: cypher_query sees all of them, and a
\* committed graph never fails the bounded catalog's endpoint check.
ReadsAgree ==
    /\ CypherEdges(mem) = mem.edges
    /\ cache # Dirty =>
        /\ GetNodes(cache, mem) = DOMAIN mem.nodes
        /\ NodeCount(cache) = Cardinality(DOMAIN mem.nodes)
        /\ Transitions(cache, mem) = {<<e.from, e.to>> : e \in mem.edges}
        /\ DanglingNodes(cache, mem) = {n \in DOMAIN mem.nodes : \A e \in mem.edges : e.from # n}
        /\ \A n \in NodeId : GetAdjacent(cache, mem, n) = Adjacent(mem.edges, {n})
        /\ VectorHits(cache, mem) = [n \in DOMAIN mem.vectors |-> TRUE]
        /\ LexicalHits(cache, mem) = mem.lexical
        /\ ToSet(cache.order) = mem.edges /\ IsInjective(cache.order)

\* The pages a client has read of a generation hold no entry twice, and when
\* nextOffset is null they are all of its edges: also when batches opened and
\* failed, or the server restarted, between two pages.
PagesComplete ==
    pager.gen = gen =>
        /\ pager.got \subseteq durable.edges /\ Cardinality(pager.got) = pager.offset
        /\ pager.done => pager.got = durable.edges

\* Every stored fact is grounded in a stored passage and sourced by a document,
\* and a schema lists only stored facts: memory_delete_document removes a
\* shared fact whose every passage goes, and takes removed facts out of every
\* schema that lists them.
SnapshotGrounded ==
    LET M == mem IN
        /\ \A f \in DOMAIN M.facts : /\ M.facts[f].docs # <<>>
                                     /\ M.facts[f].passages # {}
                                     /\ M.facts[f].passages \subseteq M.passages
        /\ \A s \in DOMAIN M.schemas : M.schemas[s].facts \subseteq DOMAIN M.facts

\* A schema's frequency is never below the number of documents that support it,
\* and it is stable exactly when the frequency has reached the threshold: a
\* merge planned before another job's merge or delete never applies its old
\* count or state.
FrequencySupported ==
    LET M == mem IN \A s \in DOMAIN M.schemas :
        /\ M.schemas[s].freq >= Len(M.schemas[s].docs)
        /\ M.schemas[s].stable <=> M.schemas[s].freq >= Threshold

\* After memory_delete_document nothing names the document: not a fact's or a
\* schema's sources, a node, a vector's owner or a lexical passage; and no
\* later request of another job, planned before the delete, brings it back.
DeletedLeavesNoTrace ==
    LET M == mem IN \A w \in Doc \ M.live :
        /\ w \notin M.passages \union M.lexical \union Range(M.vectors)
        /\ \A f \in DOMAIN M.facts   : ~Lists(M.facts[f], w) /\ w \notin M.facts[f].passages
        /\ \A s \in DOMAIN M.schemas : ~Lists(M.schemas[s], w)
        /\ \A n \in DOMAIN M.nodes   : ~Lists(M.nodes[n], w)

\* In a committed generation a fact or schema node is a copy of the stored item,
\* and, unless raw deletions were sent, every passage, fact, entity of a fact and
\* supported schema has its node, and every entity a mention or co-occurrence.
GraphMirrorsMemory ==
    LET M == durable IN
    /\ \A n \in DOMAIN M.nodes :
         /\ n[1] = "fact"     => n[2] \in DOMAIN M.facts /\ M.nodes[n] = M.facts[n[2]]
         /\ n[1] = "ontology" => n[2] \in DOMAIN M.schemas /\ M.nodes[n] = M.schemas[n[2]]
    /\ M.raw \/
         /\ ({"passage"} \X M.passages) \union ({"fact"} \X DOMAIN M.facts)
              \union ({"entity"} \X Mentioned(DOMAIN M.facts)) \subseteq DOMAIN M.nodes
         /\ \A s \in DOMAIN M.schemas : M.schemas[s].docs # <<>> <=> <<"ontology", s>> \in DOMAIN M.nodes
         /\ \A n \in DOMAIN M.nodes : n[1] = "entity" =>
              \E e \in Adjacent(M.edges, {n}) : e.rel \in {"entity_mention", "entity_cooccurrence"}

\* The vector of a stored fact or schema names the item's first source, also
\* after that source was deleted and another took its place; unless raw
\* deletions were sent, there is a vector exactly for every passage, fact and
\* schema node.
VectorsNameFirstSource ==
    LET M == durable IN
    /\ \A n \in DOMAIN M.vectors :
         /\ n[1] = "fact" /\ n[2] \in DOMAIN M.facts => M.vectors[n] = M.facts[n[2]].docs[1]
         /\ n[1] = "ontology" => /\ n[2] \in DOMAIN M.schemas
                                 /\ M.vectors[n] = M.schemas[n[2]].docs[1]
    /\ M.raw \/ DOMAIN M.vectors = {n \in DOMAIN M.nodes : n[1] # "entity"}
=============================================================================
