------------------------- MODULE CorpusMemoryProofs -------------------------
(***************************************************************************)
(* What TLAPS proves of CorpusMemory, for any documents, facts, schemas    *)
(* and entities, any threshold, any order of the ids, any page size and    *)
(* any requests sent between the jobs.                                     *)
(***************************************************************************)
EXTENDS CorpusMemory, FiniteSetTheorems, SequenceTheorems, TLAPS

-----------------------------------------------------------------------------
(* The inductive invariant. *)

Partial(S, T) == UNION {[D -> T] : D \in SUBSET S}
Sources   == {q \in Seq(Doc) : IsInjective(q)}
FactRec   == [docs : Sources, passages : SUBSET Doc]
SchemaRec == [docs : Sources, freq : Nat, stable : BOOLEAN, facts : SUBSET Fact]
NodeRec   == FactRec \union SchemaRec \union [docs : Sources]
StateRec  ==
    [passages : SUBSET Doc, facts : Partial(Fact, FactRec), active : SUBSET Fact,
     schemas : Partial(Schema, SchemaRec), nodes : Partial(NodeId, NodeRec),
     edges : SUBSET EdgeKey, vectors : Partial(NodeId, Doc), values : SUBSET NodeId,
     lexical : SUBSET Doc, live : SUBSET Doc, raw : BOOLEAN]

\* What a node or a vector holds follows from the kind of its id.
Shapes(M) ==
    /\ \A n \in DOMAIN M.nodes :
         /\ n[1] = "passage"  => M.nodes[n].docs = <<n[2]>>
         /\ n[1] = "entity"   => M.nodes[n].docs = <<>>
         /\ n[1] = "fact"     => M.nodes[n] \in FactRec
         /\ n[1] = "ontology" => M.nodes[n] \in SchemaRec
    /\ \A n \in DOMAIN M.vectors : n[1] # "entity" /\ (n[1] = "passage" => M.vectors[n] = n[2])

\* Passages ground facts, and a schema lists exactly its stored facts and at
\* least their sources.
Grounded(M) ==
    /\ \A f \in DOMAIN M.facts :
         /\ M.facts[f].docs # <<>> /\ M.facts[f].passages # {}
         /\ M.facts[f].passages \subseteq M.passages \intersect ToSet(M.facts[f].docs)
         /\ SchemaOf[f] \in DOMAIN M.schemas
         /\ f \in M.schemas[SchemaOf[f]].facts
         /\ ToSet(M.facts[f].docs) \subseteq ToSet(M.schemas[SchemaOf[f]].docs)
    /\ \A s \in DOMAIN M.schemas : \A f \in M.schemas[s].facts :
         f \in DOMAIN M.facts /\ SchemaOf[f] = s
    /\ M.active \subseteq DOMAIN M.facts

Supported(M) ==
    \A s \in DOMAIN M.schemas :
        /\ M.schemas[s].freq >= Len(M.schemas[s].docs)
        /\ M.schemas[s].stable <=> M.schemas[s].freq >= Threshold

\* Whatever is named anywhere is live.
LiveOnly(M) ==
    /\ M.passages \union M.lexical \subseteq M.live
    /\ \A n \in DOMAIN M.vectors : M.vectors[n] \in M.live
    /\ \A f \in DOMAIN M.facts   : ToSet(M.facts[f].docs) \subseteq M.live
    /\ \A s \in DOMAIN M.schemas : ToSet(M.schemas[s].docs) \subseteq M.live
    /\ \A n \in DOMAIN M.nodes   : ToSet(M.nodes[n].docs) \subseteq M.live

Closed(M) ==
    /\ \A e \in M.edges : e.from \in DOMAIN M.nodes /\ e.to \in DOMAIN M.nodes
    /\ DOMAIN M.vectors \subseteq M.values

Coherent(M) ==
    M \in StateRec /\ Shapes(M) /\ Grounded(M) /\ Supported(M) /\ LiveOnly(M) /\ Closed(M)

\* The graph and the vectors follow the snapshot, but for the ids in N.
Cooccurrence(f) ==
    Link("entity_cooccurrence", <<"entity", Ends[f][1]>>, <<"entity", Ends[f][2]>>, f)
Holding == {"entity_mention", "entity_cooccurrence"}

NodesCopied(M, N) ==
    \A n \in DOMAIN M.nodes \ N :
        /\ n[1] = "fact"     => n[2] \in DOMAIN M.facts /\ M.nodes[n] = M.facts[n[2]]
        /\ n[1] = "ontology" => n[2] \in DOMAIN M.schemas /\ M.nodes[n] = M.schemas[n[2]]
NodesThere(M, N) ==
    /\ \A d \in M.passages : <<"passage", d>> \notin N => <<"passage", d>> \in DOMAIN M.nodes
    /\ \A f \in DOMAIN M.facts : <<"fact", f>> \notin N =>
         /\ <<"fact", f>> \in DOMAIN M.nodes
         /\ <<"entity", Ends[f][1]>> \in DOMAIN M.nodes
         /\ <<"entity", Ends[f][2]>> \in DOMAIN M.nodes
    /\ \A s \in DOMAIN M.schemas : <<"ontology", s>> \notin N =>
         (M.schemas[s].docs # <<>> <=> <<"ontology", s>> \in DOMAIN M.nodes)
EdgesThere(M, N) ==
    /\ \A f \in DOMAIN M.facts : <<"fact", f>> \notin N => Cooccurrence(f) \in M.edges
    /\ \A n \in DOMAIN M.nodes \ N : n[1] = "entity" =>
         \E e \in M.edges : (e.from = n \/ e.to = n) /\ e.rel \in Holding
VectorsNamed(M, N) ==
    \A n \in DOMAIN M.vectors \ N :
        /\ n[1] = "fact" /\ n[2] \in DOMAIN M.facts => M.vectors[n] = M.facts[n[2]].docs[1]
        /\ n[1] = "ontology" => /\ n[2] \in DOMAIN M.schemas
                                /\ M.schemas[n[2]].docs # <<>>
                                /\ M.vectors[n] = M.schemas[n[2]].docs[1]
VectorsThere(M, N) ==
    /\ DOMAIN M.vectors \subseteq DOMAIN M.nodes
    /\ \A n \in DOMAIN M.nodes \ N : n[1] # "entity" => n \in DOMAIN M.vectors

Fresh(M, N, E, V) ==
    /\ NodesCopied(M, N) /\ VectorsNamed(M, V)
    /\ M.raw \/ (NodesThere(M, N) /\ EdgesThere(M, E) /\ VectorsThere(M, V))

Settled(M) == Coherent(M) /\ Fresh(M, {}, {}, {})

\* What the job of d has merged and not sent to the graph or the vectors yet.
Pending(d) ==
    {<<"passage", d>>} \union ({"fact"} \X FactsSent(d)) \union ({"ontology"} \X SchemasOf(d))
      \union ({"entity"} \X Mentioned(FactsSent(d)))
Stale(i) == IF tx # None /\ tx.stage \in 2..i THEN Pending(tx.owner) ELSE {}

Merged(M, d) ==
    /\ plan[d] # None /\ d \in M.live
    /\ \A f \in FactsSent(d) : f \in DOMAIN M.facts
    /\ \A s \in SchemasOf(d) : /\ s \in DOMAIN M.schemas /\ M.schemas[s].docs # <<>>
                               /\ FirstSource(d, s) = M.schemas[s].docs[1]

MemInv == Coherent(mem) /\ Fresh(mem, Stale(2), Stale(3), Stale(4))

PlanRec(d) == [schemas : Partial(Schema, SchemaRec), facts : SUBSET Contributes[d]]
PlanInv ==
    /\ plan = [d \in Doc |-> plan[d]]
    /\ \A d \in Doc : plan[d] # None =>
         /\ plan[d] \in PlanRec(d) /\ Evidence[d] \subseteq plan[d].facts
         /\ \A f \in plan[d].facts \ Evidence[d] :
              SchemaOf[f] \in DOMAIN plan[d].schemas /\ f \in plan[d].schemas[SchemaOf[f]].facts

TxInv ==
    /\ gen \in 0..MaxGen
    /\ tx = None => mem = durable
    /\ tx # None =>
         /\ tx \in [owner : Doc \union {Operator}, stage : 1..6] /\ gen < MaxGen
         /\ tx.stage \in 2..5 => tx.owner \in Doc /\ Merged(mem, tx.owner)
         /\ tx.stage \in 3..5 => Pending(tx.owner) \subseteq DOMAIN mem.nodes

CacheInv == cache = Dirty \/ cache = Index(mem, TRUE)

PagerInv ==
    LET order == ProjectionOrder(durable.edges, TRUE) IN
    /\ pager \in [gen : Nat \union {None}, offset : Nat, got : SUBSET EdgeKey, done : BOOLEAN]
    /\ pager.gen = None => pager = NoPager
    /\ pager.gen # None => pager.gen <= gen
    /\ pager.gen = gen => /\ pager.offset <= Len(order) /\ pager.got = {order[i] : i \in 1..pager.offset}
                          /\ pager.done => pager.offset = Len(order)

Inv == MemInv /\ Settled(durable) /\ PlanInv /\ TxInv /\ CacheInv /\ PagerInv

-----------------------------------------------------------------------------
(* Sorting. *)

\* In a finite chain the number of elements before an element tells it from
\* the others, and every number below the size of the chain is taken.
LEMMA ChainRank ==
    ASSUME NEW S, IsFiniteSet(S), NEW before \in [S -> SUBSET S],
           \A x, y \in S : x \in before[y] => before[x] \subseteq before[y],
           \A x \in S : x \notin before[x],
           \A x, y \in S : x # y => x \in before[y] \/ y \in before[x]
    PROVE  /\ Cardinality(S) \in Nat
           /\ \A x \in S : Cardinality(before[x]) \in 0..(Cardinality(S) - 1)
           /\ \A x, y \in S : Cardinality(before[x]) = Cardinality(before[y]) => x = y
           /\ \A j \in 0..(Cardinality(S) - 1) : \E x \in S : Cardinality(before[x]) = j
<1> DEFINE n == Cardinality(S)
           f == [x \in S |-> Cardinality(before[x])]
<1>1. n \in Nat
  BY FS_CardinalityType
<1>2. ASSUME NEW x \in S
      PROVE  /\ IsFiniteSet(before[x]) /\ Cardinality(before[x]) \in Nat
             /\ Cardinality(before[x]) \in 0..(n - 1)
  <2>1. before[x] \subseteq S \ {x}
    OBVIOUS
  <2>2. IsFiniteSet(S \ {x}) /\ Cardinality(S \ {x}) = n - 1
    BY FS_RemoveElement
  <2>3. IsFiniteSet(before[x]) /\ Cardinality(before[x]) <= n - 1
    BY <2>1, <2>2, FS_Subset
  <2>4. Cardinality(before[x]) \in Nat
    BY <2>3, FS_CardinalityType
  <2>. QED BY <1>1, <2>3, <2>4
<1>3. ASSUME NEW x \in S, NEW y \in S, x \in before[y]
      PROVE  Cardinality(before[x]) # Cardinality(before[y])
  <2>1. before[x] \subseteq before[y] /\ before[x] # before[y]
    BY <1>3
  <2>. QED BY <1>2, <2>1, FS_Subset
<1>4. \A x, y \in S : Cardinality(before[x]) = Cardinality(before[y]) => x = y
  BY <1>3
<1>5. IsFiniteSet(0..(n - 1)) /\ Cardinality(0..(n - 1)) = n
  <2>1. 0 \in Int /\ n - 1 \in Int
    BY <1>1
  <2> HIDE DEF n
  <2>2. /\ IsFiniteSet(0..(n - 1))
        /\ Cardinality(0..(n - 1)) = IF 0 > n - 1 THEN 0 ELSE (n - 1) - 0 + 1
    BY <2>1, FS_Interval
  <2>. QED BY <1>1, <2>2
<1>6. f \in Injection(S, 0..(n - 1))
  BY <1>2, <1>4 DEF Injection, IsInjective
<1>7. f \in Surjection(S, 0..(n - 1))
  BY <1>5, <1>6, FS_Injection
<1>8. \A j \in 0..(n - 1) : \E x \in S : Cardinality(before[x]) = j
  BY <1>7 DEF Surjection
<1>. QED BY <1>1, <1>2, <1>4, <1>8

\* Sorted lists the domain of a rank, each element once, lowest rank first.
LEMMA SortedIs ==
    ASSUME NEW D, IsFiniteSet(D), NEW rank \in [D -> Nat], IsInjective(rank)
    PROVE  /\ Cardinality(D) \in Nat
           /\ Sorted(rank) \in [1..Cardinality(D) -> D]
           /\ \A x \in D : \E k \in 1..Cardinality(D) : Sorted(rank)[k] = x
           /\ IsInjective(Sorted(rank))
           /\ \A x \in D : (\A y \in D : rank[x] <= rank[y]) => Sorted(rank)[1] = x
<1> DEFINE ranked    == {<<rank[x], x>> : x \in D}
           Upto(p)   == Cardinality({q \in ranked : q[1] <= p[1]})
           place     == {<<Upto(p), p[2]>> : p \in ranked}
           n         == Cardinality(D)
           before    == [x \in D |-> {y \in D : rank[y] < rank[x]}]
           s         == [k \in 1..n |-> CHOOSE x \in D : <<k, x>> \in place]
<1>0. DOMAIN rank = D
  OBVIOUS
<1>1. Sorted(rank) = s
  BY <1>0 DEF Sorted
<1>2. /\ n \in Nat
      /\ \A x \in D : Cardinality(before[x]) \in 0..(n - 1)
      /\ \A x, y \in D : Cardinality(before[x]) = Cardinality(before[y]) => x = y
      /\ \A j \in 0..(n - 1) : \E x \in D : Cardinality(before[x]) = j
  <2>1. before \in [D -> SUBSET D]
    OBVIOUS
  <2>2. \A x, y \in D : x \in before[y] => before[x] \subseteq before[y]
    OBVIOUS
  <2>3. \A x \in D : x \notin before[x]
    OBVIOUS
  <2>4. \A x, y \in D : x # y => x \in before[y] \/ y \in before[x]
    BY DEF IsInjective
  <2> HIDE DEF before
  <2>. QED BY <2>1, <2>2, <2>3, <2>4, ChainRank
<1>3. ASSUME NEW x \in D
      PROVE  Upto(<<rank[x], x>>) = Cardinality(before[x]) + 1
  <2> DEFINE B == before[x] \union {x}
             g == [y \in B |-> <<rank[y], y>>]
             Q == {q \in ranked : q[1] <= rank[x]}
  <2>1. B \subseteq D /\ IsFiniteSet(B)
    <3>1. B \subseteq D
      OBVIOUS
    <3>. QED BY <3>1, FS_Subset
  <2>2. x \notin before[x] /\ IsFiniteSet(before[x])
    <3>1. before[x] \subseteq B
      OBVIOUS
    <3>. QED BY <2>1, <3>1, FS_Subset
  <2>3. Cardinality(B) = Cardinality(before[x]) + 1
    BY <2>2, FS_AddElement
  <2>4. g \in Bijection(B, Q)
    <3>1. g \in [B -> Q]
      BY <2>1
    <3>2. \A a, b \in B : g[a] = g[b] => a = b
      OBVIOUS
    <3>3. ASSUME NEW q \in Q PROVE \E y \in B : g[y] = q
      <4>1. PICK y \in D : q = <<rank[y], y>>
        OBVIOUS
      <4>2. rank[y] <= rank[x]
        BY <4>1
      <4>3. y \in B
        BY <4>2 DEF IsInjective
      <4>. QED BY <4>1, <4>3
    <3>. QED BY <3>1, <3>2, <3>3 DEF Bijection, Injection, Surjection, IsInjective
  <2>5. Cardinality(Q) = Cardinality(B)
    BY <2>1, <2>4, FS_Bijection DEF ExistsBijection
  <2>6. Upto(<<rank[x], x>>) = Cardinality(Q)
    <3>1. <<rank[x], x>>[1] = rank[x]
      OBVIOUS
    <3>2. {q \in ranked : q[1] <= <<rank[x], x>>[1]} = Q
      BY <3>1
    <3>. QED BY <3>2
  <2>. QED BY <2>3, <2>5, <2>6
<1>4. ASSUME NEW k, NEW x \in D
      PROVE  <<k, x>> \in place <=> k = Cardinality(before[x]) + 1
  <2>1. ASSUME <<k, x>> \in place PROVE k = Cardinality(before[x]) + 1
    <3>1. PICK p \in ranked : <<k, x>> = <<Upto(p), p[2]>>
      BY <2>1
    <3>2. PICK y \in D : p = <<rank[y], y>>
      OBVIOUS
    <3>3. y = x /\ k = Upto(p)
      BY <3>1, <3>2
    <3> HIDE DEF before, Upto, ranked, place
    <3>. QED BY <3>2, <3>3, <1>3
  <2>2. ASSUME k = Cardinality(before[x]) + 1 PROVE <<k, x>> \in place
    <3>1. <<rank[x], x>> \in ranked
      OBVIOUS
    <3>2. k = Upto(<<rank[x], x>>)
      <4> HIDE DEF before, Upto, ranked, place
      <4>. QED BY <2>2, <1>3
    <3>3. <<Upto(<<rank[x], x>>), <<rank[x], x>>[2]>> \in place
      BY <3>1
    <3>. QED BY <3>2, <3>3
  <2>. QED BY <2>1, <2>2
<1> HIDE DEF before, place
<1>5. ASSUME NEW k \in 1..n
      PROVE  s[k] \in D /\ k = Cardinality(before[s[k]]) + 1
  <2>1. k - 1 \in 0..(n - 1)
    BY <1>2
  <2>2. PICK x \in D : Cardinality(before[x]) = k - 1
    BY <1>2, <2>1
  <2>3. <<k, x>> \in place
    BY <2>2, <1>4
  <2>4. s[k] \in D /\ <<k, s[k]>> \in place
    BY <2>3
  <2>. QED BY <2>4, <1>4
<1>6. ASSUME NEW x \in D
      PROVE  /\ Cardinality(before[x]) + 1 \in 1..n
             /\ s[Cardinality(before[x]) + 1] = x
  <2>1. Cardinality(before[x]) \in 0..(n - 1) /\ n \in Nat
    BY <1>2
  <2>2. Cardinality(before[x]) + 1 \in 1..n
    <3> HIDE DEF n
    <3>. QED BY <2>1
  <2>3. /\ s[Cardinality(before[x]) + 1] \in D
        /\ Cardinality(before[x]) + 1 = Cardinality(before[s[Cardinality(before[x]) + 1]]) + 1
    BY <2>2, <1>5
  <2> DEFINE y == s[Cardinality(before[x]) + 1]
  <2>4. y \in D /\ Cardinality(before[y]) \in Int /\ Cardinality(before[x]) \in Int
    BY <2>3, <1>2
  <2>5. Cardinality(before[x]) + 1 = Cardinality(before[y]) + 1
    BY <2>3
  <2> HIDE DEF y, s
  <2>6. Cardinality(before[x]) = Cardinality(before[y])
    BY <2>4, <2>5
  <2>7. x = y
    BY <2>4, <2>6, <1>2
  <2>. QED BY <2>2, <2>7 DEF y
<1>7. s \in [1..n -> D]
  BY <1>5
<1>8. \A x \in D : \E k \in 1..n : s[k] = x
  <2> HIDE DEF s
  <2>. QED BY <1>6
<1>9. IsInjective(s)
  <2>1. DOMAIN s = 1..n
    OBVIOUS
  <2> HIDE DEF s
  <2>2. ASSUME NEW i \in 1..n, NEW j \in 1..n, s[i] = s[j] PROVE i = j
    BY <2>2, <1>5
  <2>. QED BY <2>1, <2>2 DEF IsInjective
<1>10. ASSUME NEW x \in D, \A y \in D : rank[x] <= rank[y] PROVE s[1] = x
  <2>1. before[x] = {}
    BY <1>10 DEF before
  <2>2. Cardinality(before[x]) + 1 = 1
    BY <2>1, FS_EmptySet
  <2> HIDE DEF s
  <2>. QED BY <2>2, <1>6
<1> HIDE DEF s
<1>. QED BY <1>1, <1>2, <1>7, <1>8, <1>9, <1>10

\* Every edge a job sends joins two nodes of the kinds its relation says.
LEMMA EdgeIs ==
    ASSUME NEW e \in EdgeKey
    PROVE  /\ e.from \in NodeId /\ e.to \in NodeId
           /\ e.rel \in Relation /\ e.fact \in Fact \union {None}
           /\ e = Link(e.rel, e.from, e.to, e.fact)
           /\ e.rel \in Holding => e.from[1] = "entity"
<1>1. PICK d \in Doc : e \in EdgesSent(d, Contributes[d])
  BY DEF EdgeKey
<1>2. Contributes[d] \subseteq Fact /\ Evidence[d] \subseteq Fact
  BY ShapesAssumption
<1>3. ASSUME NEW F, F \subseteq Fact, NEW x \in Mentioned(F) PROVE x \in Entity
  BY <1>3, ShapesAssumption DEF Mentioned
<1>4. CASE \E x \in Mentioned(Evidence[d]) :
             e = Link("entity_mention", <<"entity", x>>, <<"passage", d>>, None)
  <2>1. PICK x \in Mentioned(Evidence[d]) :
             e = Link("entity_mention", <<"entity", x>>, <<"passage", d>>, None)
    BY <1>4
  <2>2. x \in Entity
    BY <1>2, <1>3
  <2>. QED BY <2>1, <2>2 DEF Link, NodeId, Relation, Holding
<1>5. CASE \E f \in Evidence[d] : e = Link("fact_evidence", <<"fact", f>>, <<"passage", d>>, None)
  BY <1>2, <1>5 DEF Link, NodeId, Relation, Holding
<1>6. CASE \E f \in Contributes[d] :
             e = Link("schema_instance", <<"ontology", SchemaOf[f]>>, <<"fact", f>>, None)
  <2>1. \A f \in Fact : SchemaOf[f] \in Schema
    BY ShapesAssumption
  <2>. QED BY <1>2, <1>6, <2>1 DEF Link, NodeId, Relation, Holding
<1>7. CASE \E f \in Contributes[d] :
             e = Link("entity_cooccurrence", <<"entity", Ends[f][1]>>, <<"entity", Ends[f][2]>>, f)
  <2>1. \A f \in Fact : Ends[f][1] \in Entity /\ Ends[f][2] \in Entity
    BY ShapesAssumption
  <2>. QED BY <1>2, <1>7, <2>1 DEF Link, NodeId, Relation, Holding
<1>. QED BY <1>1, <1>4, <1>5, <1>6, <1>7 DEF EdgesSent

\* The edges a job may send are finitely many.
LEMMA EdgeKeysFinite == IsFiniteSet(EdgeKey)
<1>1. IsFiniteSet(NodeId)
  <2>1. ASSUME NEW k, NEW S, IsFiniteSet(S) PROVE IsFiniteSet({k} \X S)
    BY <2>1, FS_Singleton, FS_Product
  <2>2. /\ IsFiniteSet({"passage"} \X Doc) /\ IsFiniteSet({"fact"} \X Fact)
        /\ IsFiniteSet({"ontology"} \X Schema) /\ IsFiniteSet({"entity"} \X Entity)
    BY <2>1, ShapesAssumption
  <2>. QED BY <2>2, FS_Union DEF NodeId
<1> DEFINE R == (Relation \X NodeId) \X (NodeId \X (Fact \union {None}))
           g == [t \in R |-> Link(t[1][1], t[1][2], t[2][1], t[2][2])]
           T == {g[t] : t \in R}
<1>2. IsFiniteSet(R)
  <2>1. IsFiniteSet(Relation)
    <3>1. /\ IsFiniteSet({"entity_mention"}) /\ IsFiniteSet({"entity_cooccurrence"})
          /\ IsFiniteSet({"schema_instance"}) /\ IsFiniteSet({"fact_evidence"})
      BY FS_Singleton
    <3>2. Relation = (({"entity_mention"} \union {"entity_cooccurrence"}) \union {"schema_instance"})
                        \union {"fact_evidence"}
      BY DEF Relation
    <3>. QED BY <3>1, <3>2, FS_Union
  <2>2. IsFiniteSet(Fact \union {None})
    BY FS_AddElement, ShapesAssumption
  <2>3. IsFiniteSet(Relation \X NodeId) /\ IsFiniteSet(NodeId \X (Fact \union {None}))
    BY <1>1, <2>1, <2>2, FS_Product
  <2>. QED BY <2>3, FS_Product
<1>3. g \in Surjection(R, T)
  BY DEF Surjection
<1>4. IsFiniteSet(T)
  <2> HIDE DEF R, g, T
  <2>. QED BY <1>2, <1>3, FS_Surjection
<1>5. ASSUME NEW e \in EdgeKey PROVE e \in T
  <2> DEFINE t == <<<<e.rel, e.from>>, <<e.to, e.fact>>>>
  <2>1. t \in R
    BY EdgeIs
  <2>2. g[t] = Link(e.rel, e.from, e.to, e.fact)
    BY <2>1
  <2>3. g[t] = e
    BY <2>2, EdgeIs
  <2>. QED BY <2>1, <2>3
<1>6. EdgeKey \subseteq T
  BY <1>5
<1> HIDE DEF T
<1>. QED BY <1>4, <1>6, FS_Subset

\* No two edges have the same place in the order by source, target and key.
LEMMA EdgeRankIs == EdgeRank \in [EdgeKey -> Nat] /\ IsInjective(EdgeRank)
<1> DEFINE before == [b \in EdgeKey |-> {a \in EdgeKey : EdgeBefore(a, b)}]
<1>1. before \in [EdgeKey -> SUBSET EdgeKey]
  OBVIOUS
<1>2. ASSUME NEW e \in EdgeKey
      PROVE  /\ e.from \in NodeId /\ e.to \in NodeId /\ KeyRank[e] \in Nat
             /\ NodeRank[e.from] \in Nat /\ NodeRank[e.to] \in Nat
  BY EdgeIs, RanksAssumption
<1>3. \A a, b \in EdgeKey : EdgeBefore(a, b) \/ EdgeBefore(b, a) \/ a = b
  <2>1. \A a, b \in EdgeKey : KeyRank[a] = KeyRank[b] => a = b
    BY RanksAssumption DEF IsInjective
  <2>2. \A m, n \in NodeId : NodeRank[m] = NodeRank[n] => m = n
    BY RanksAssumption DEF IsInjective
  <2>3. ASSUME NEW a \in EdgeKey, NEW b \in EdgeKey
        PROVE  EdgeBefore(a, b) \/ EdgeBefore(b, a) \/ a = b
    <3>1. a.from = b.from \/ NodeRank[a.from] < NodeRank[b.from] \/ NodeRank[b.from] < NodeRank[a.from]
      BY <1>2, <2>2
    <3>2. a.to = b.to \/ NodeRank[a.to] < NodeRank[b.to] \/ NodeRank[b.to] < NodeRank[a.to]
      BY <1>2, <2>2
    <3>3. a = b \/ KeyRank[a] < KeyRank[b] \/ KeyRank[b] < KeyRank[a]
      BY <1>2, <2>1
    <3>. QED BY <3>1, <3>2, <3>3 DEF EdgeBefore
  <2>. QED BY <2>3
<1>4. \A a \in EdgeKey : ~EdgeBefore(a, a)
  BY <1>2 DEF EdgeBefore
<1>5. \A a, b, c \in EdgeKey : EdgeBefore(a, b) /\ EdgeBefore(b, c) => EdgeBefore(a, c)
  <2>1. ASSUME NEW a \in EdgeKey, NEW b \in EdgeKey, NEW c \in EdgeKey,
               EdgeBefore(a, b), EdgeBefore(b, c)
        PROVE  EdgeBefore(a, c)
    <3>1. /\ NodeRank[a.from] \in Nat /\ NodeRank[a.to] \in Nat /\ KeyRank[a] \in Nat
          /\ NodeRank[b.from] \in Nat /\ NodeRank[b.to] \in Nat /\ KeyRank[b] \in Nat
          /\ NodeRank[c.from] \in Nat /\ NodeRank[c.to] \in Nat /\ KeyRank[c] \in Nat
      BY <1>2
    <3>. QED BY <2>1, <3>1 DEF EdgeBefore
  <2>. QED BY <2>1
<1>6. /\ \A x, y \in EdgeKey : x \in before[y] => before[x] \subseteq before[y]
      /\ \A x \in EdgeKey : x \notin before[x]
      /\ \A x, y \in EdgeKey : x # y => x \in before[y] \/ y \in before[x]
  BY <1>3, <1>4, <1>5
<1>7. EdgeRank = [b \in EdgeKey |-> Cardinality(before[b])]
  BY DEF EdgeRank
<1> HIDE DEF before
<1>8. /\ Cardinality(EdgeKey) \in Nat
      /\ \A x \in EdgeKey : Cardinality(before[x]) \in 0..(Cardinality(EdgeKey) - 1)
      /\ \A x, y \in EdgeKey : Cardinality(before[x]) = Cardinality(before[y]) => x = y
  BY <1>1, <1>6, EdgeKeysFinite, ChainRank
<1>9. \A x \in EdgeKey : Cardinality(before[x]) \in Nat
  BY <1>8
<1>. QED BY <1>7, <1>8, <1>9 DEF IsInjective

\* The projection order lists each edge once.
LEMMA OrderIs ==
    ASSUME NEW E, E \subseteq EdgeKey, NEW up
    PROVE  /\ ProjectionOrder(E, up) = ProjectionOrder(E, TRUE)
           /\ ProjectionOrder(E, up) \in Seq(E)
           /\ ToSet(ProjectionOrder(E, up)) = E /\ IsInjective(ProjectionOrder(E, up))
<1> DEFINE rank == [e \in E |-> EdgeRank[e]]
           s    == Sorted(rank)
           n    == Cardinality(E)
<1>1. rank \in [E -> Nat] /\ IsInjective(rank)
  BY EdgeRankIs DEF IsInjective
<1>2. IsFiniteSet(E)
  BY EdgeKeysFinite, FS_Subset
<1>3. ProjectionOrder(E, up) = s /\ ProjectionOrder(E, TRUE) = s
  BY DEF ProjectionOrder
<1> HIDE DEF rank
<1>4. /\ n \in Nat /\ s \in [1..n -> E] /\ IsInjective(s)
      /\ \A x \in E : \E k \in 1..n : s[k] = x
  BY <1>1, <1>2, SortedIs
<1> HIDE DEF s, n
<1>5. s \in Seq(E) /\ DOMAIN s = 1..n
  BY <1>4
<1>6. ToSet(s) = E
  BY <1>4, <1>5 DEF ToSet
<1>. QED BY <1>3, <1>4, <1>5, <1>6

-----------------------------------------------------------------------------
(* Source lists. *)

\* A source list, read as a sequence and as a set.
LEMMA SourcesAre ==
    ASSUME NEW q \in Sources
    PROVE  /\ Len(q) \in Nat /\ DOMAIN q = 1..Len(q) /\ q \in Seq(Doc)
           /\ \A i, j \in 1..Len(q) : q[i] = q[j] => i = j
           /\ \A x : x \in ToSet(q) <=> \E i \in 1..Len(q) : q[i] = x
           /\ ToSet(q) \subseteq Doc
           /\ q = <<>> <=> ToSet(q) = {}
           /\ q # <<>> => Len(q) > 0 /\ q[1] \in ToSet(q)
<1>1. q \in Seq(Doc) /\ IsInjective(q)
  BY DEF Sources
<1>2. Len(q) \in Nat /\ DOMAIN q = 1..Len(q) /\ q \in [1..Len(q) -> Doc]
  BY <1>1, LenProperties
<1>3. \A x : x \in ToSet(q) <=> \E i \in 1..Len(q) : q[i] = x
  BY <1>2 DEF ToSet
<1>4. \A i, j \in 1..Len(q) : q[i] = q[j] => i = j
  BY <1>1, <1>2 DEF IsInjective
<1>5. ToSet(q) \subseteq Doc
  BY <1>2, <1>3
<1>6. q # <<>> => Len(q) \in Nat \ {0}
  BY <1>1, EmptySeq
<1>7. q # <<>> => Len(q) > 0 /\ q[1] \in ToSet(q)
  BY <1>2, <1>3, <1>6
<1>8. q = <<>> => ToSet(q) = {}
  <2>1. q = <<>> => Len(q) = 0
    OBVIOUS
  <2>. QED BY <1>2, <1>3, <2>1
<1>. QED BY <1>1, <1>2, <1>3, <1>4, <1>5, <1>7, <1>8

\* The source lists of an entity and of a passage.
LEMMA SourcesFew ==
    /\ <<>> \in Sources /\ ToSet(<<>>) = {}
    /\ \A d \in Doc : <<d>> \in Sources /\ ToSet(<<d>>) = {d} /\ <<d>> # <<>> /\ Len(<<d>>) = 1
<1>1. <<>> \in Seq(Doc) /\ DOMAIN <<>> = {}
  OBVIOUS
<1>2. <<>> \in Sources /\ ToSet(<<>>) = {}
  BY <1>1 DEF Sources, ToSet, IsInjective
<1>3. ASSUME NEW d \in Doc
      PROVE  <<d>> \in Sources /\ ToSet(<<d>>) = {d} /\ <<d>> # <<>> /\ Len(<<d>>) = 1
  <2>1. <<d>> \in Seq(Doc) /\ DOMAIN <<d>> = {1} /\ <<d>>[1] = d /\ Len(<<d>>) = 1 /\ <<d>> # <<>>
    OBVIOUS
  <2>. QED BY <2>1 DEF Sources, ToSet, IsInjective
<1>. QED BY <1>2, <1>3

\* A source added to a list that does not have it.
LEMMA SourcesAppend ==
    ASSUME NEW q \in Sources, NEW d \in Doc, d \notin ToSet(q)
    PROVE  /\ Append(q, d) \in Sources /\ ToSet(Append(q, d)) = ToSet(q) \union {d}
           /\ Len(Append(q, d)) = Len(q) + 1 /\ Append(q, d) # <<>>
           /\ Append(q, d)[1] = IF q = <<>> THEN d ELSE q[1]
<1> DEFINE r == Append(q, d)
<1>1. /\ Len(q) \in Nat /\ q \in Seq(Doc)
      /\ \A i, j \in 1..Len(q) : q[i] = q[j] => i = j
      /\ \A x : x \in ToSet(q) <=> \E i \in 1..Len(q) : q[i] = x
      /\ q # <<>> => Len(q) > 0
  BY SourcesAre
<1>2. /\ r \in Seq(Doc) /\ Len(r) = Len(q) + 1 /\ DOMAIN r = 1..Len(r)
      /\ \A i \in 1..Len(q) : r[i] = q[i]
      /\ r[Len(q) + 1] = d
  BY <1>1
<1>3. Len(r) \in Nat /\ r # <<>>
  BY <1>1, <1>2
<1> HIDE DEF r
<1>4. ASSUME NEW i \in 1..Len(r), NEW j \in 1..Len(r), r[i] = r[j] PROVE i = j
  <2>1. i \in 1..Len(q) \/ i = Len(q) + 1
    BY <1>1, <1>2
  <2>2. j \in 1..Len(q) \/ j = Len(q) + 1
    BY <1>1, <1>2
  <2>3. \A k \in 1..Len(q) : q[k] # d
    BY <1>1
  <2>. QED BY <1>1, <1>2, <1>4, <2>1, <2>2, <2>3
<1>5. r \in Sources
  BY <1>2, <1>4 DEF Sources, IsInjective
<1>6. \A x : x \in ToSet(r) <=> \E i \in 1..Len(r) : r[i] = x
  BY <1>5, SourcesAre
<1>7. \A i : i \in 1..Len(r) <=> i \in 1..Len(q) \/ i = Len(q) + 1
  BY <1>1, <1>2
<1>8. ToSet(r) = ToSet(q) \union {d}
  BY <1>1, <1>2, <1>6, <1>7
<1>9. r[1] = IF q = <<>> THEN d ELSE q[1]
  <2>1. CASE q = <<>>
    <3>1. Len(q) = 0
      BY <2>1
    <3>. QED BY <2>1, <3>1, <1>2
  <2>2. CASE q # <<>>
    BY <2>2, <1>1, <1>2
  <2>. QED BY <2>1, <2>2
<1>. QED BY <1>2, <1>3, <1>5, <1>8, <1>9 DEF r

\* A source taken out of a list: the others stay, in their order.
LEMMA SourcesWithout ==
    ASSUME NEW q \in Sources, NEW w
    PROVE  /\ Without(q, w) \in Sources /\ ToSet(Without(q, w)) = ToSet(q) \ {w}
           /\ Len(Without(q, w)) <= Len(q)
           /\ w \in ToSet(q) => Len(Without(q, w)) <= Len(q) - 1
           /\ q # <<>> /\ q[1] # w => Without(q, w) # <<>> /\ Without(q, w)[1] = q[1]
<1> DEFINE kept == {j \in DOMAIN q : q[j] # w}
           rank == [i \in kept |-> i]
           at   == Sorted(rank)
           n    == Cardinality(kept)
           r    == [k \in DOMAIN at |-> q[at[k]]]
<1>1. /\ Len(q) \in Nat /\ DOMAIN q = 1..Len(q) /\ q \in Seq(Doc)
      /\ \A i, j \in 1..Len(q) : q[i] = q[j] => i = j
      /\ \A x : x \in ToSet(q) <=> \E i \in 1..Len(q) : q[i] = x
      /\ ToSet(q) \subseteq Doc
      /\ q # <<>> => Len(q) > 0
  BY SourcesAre
<1>2. Without(q, w) = r
  BY DEF Without
<1>3. IsFiniteSet(1..Len(q)) /\ Cardinality(1..Len(q)) = Len(q)
  <2>1. /\ IsFiniteSet(1..Len(q))
        /\ Cardinality(1..Len(q)) = IF 1 > Len(q) THEN 0 ELSE Len(q) - 1 + 1
    BY <1>1, FS_Interval
  <2>. QED BY <1>1, <2>1
<1>4. kept \subseteq 1..Len(q) /\ rank \in [kept -> Nat] /\ IsInjective(rank)
  BY <1>1 DEF IsInjective
<1>5. IsFiniteSet(kept) /\ n \in Nat /\ n <= Len(q)
  <2>1. IsFiniteSet(kept) /\ Cardinality(kept) <= Cardinality(1..Len(q))
    BY <1>3, <1>4, FS_Subset
  <2>. QED BY <1>3, <2>1, FS_CardinalityType
<1>6. w \in ToSet(q) => n <= Len(q) - 1
  <2>1. ASSUME w \in ToSet(q) PROVE n # Len(q)
    <3>1. PICK i \in 1..Len(q) : q[i] = w
      BY <1>1, <2>1
    <3>2. kept # 1..Len(q)
      BY <3>1
    <3>3. Cardinality(1..Len(q)) = Cardinality(kept) => 1..Len(q) = kept
      <4> HIDE DEF kept
      <4>. QED BY <1>3, <1>4, FS_Subset
    <3>. QED BY <1>3, <3>2, <3>3
  <2>2. n \in Int /\ Len(q) \in Int /\ n <= Len(q)
    BY <1>1, <1>5
  <2> HIDE DEF n
  <2>. QED BY <2>1, <2>2
<1>7. /\ at \in [1..n -> kept] /\ IsInjective(at)
      /\ \A x \in kept : \E k \in 1..n : at[k] = x
      /\ \A x \in kept : (\A y \in kept : rank[x] <= rank[y]) => at[1] = x
  <2> HIDE DEF kept, rank
  <2>. QED BY <1>4, <1>5, SortedIs
<1>8. \A x \in kept : rank[x] = x
  OBVIOUS
<1>9. \A x \in kept : q[x] \in Doc /\ x \in 1..Len(q) /\ q[x] # w
  BY <1>1
<1>10. \A x \in 1..Len(q) : q[x] # w => x \in kept
  BY <1>1
<1> HIDE DEF kept, rank, at, n
<1>11. DOMAIN r = 1..n /\ \A k \in 1..n : r[k] = q[at[k]] /\ at[k] \in kept
  BY <1>7
<1>12. r \in Seq(Doc)
  <2>1. r \in [1..n -> Doc]
    BY <1>9, <1>11
  <2>. QED BY <1>5, <2>1
<1>13. IsInjective(r)
  <2>1. ASSUME NEW i \in 1..n, NEW j \in 1..n, r[i] = r[j] PROVE i = j
    <3>1. at[i] = at[j]
      BY <1>1, <1>9, <1>11, <2>1
    <3>. QED BY <1>7, <3>1 DEF IsInjective
  <2>. QED BY <1>11, <2>1 DEF IsInjective
<1> HIDE DEF r
<1>14. r \in Sources
  BY <1>12, <1>13 DEF Sources
<1>15. Len(r) = n
  BY <1>5, <1>11, <1>12, LenProperties
<1>16. ToSet(r) = ToSet(q) \ {w}
  <2>1. \A x : x \in ToSet(r) <=> \E k \in 1..n : r[k] = x
    BY <1>14, <1>15, SourcesAre
  <2>2. ASSUME NEW x \in ToSet(r) PROVE x \in ToSet(q) \ {w}
    BY <2>1, <1>1, <1>9, <1>11
  <2>3. ASSUME NEW x \in ToSet(q), x # w PROVE x \in ToSet(r)
    <3>1. PICK i \in 1..Len(q) : q[i] = x
      BY <1>1
    <3>2. i \in kept
      BY <1>10, <2>3, <3>1
    <3>3. PICK k \in 1..n : at[k] = i
      BY <1>7, <3>2
    <3>4. r[k] = x
      BY <1>11, <3>1, <3>3
    <3>. QED BY <2>1, <3>4
  <2>. QED BY <2>2, <2>3
<1>17. ASSUME q # <<>>, q[1] # w PROVE r # <<>> /\ r[1] = q[1]
  <2>1. 1 \in 1..Len(q) /\ 1 \in kept
    BY <1>1, <1>10, <1>17
  <2>2. \A y \in kept : rank[1] <= rank[y]
    BY <1>8, <1>9, <2>1
  <2>3. at[1] = 1
    BY <1>7, <2>1, <2>2
  <2>4. 1 \in 1..n
    <3>1. PICK k \in 1..n : at[k] = 1
      BY <1>7, <2>1
    <3>. QED BY <1>5
  <2>5. r[1] = q[1]
    BY <1>11, <2>3, <2>4
  <2>6. r # <<>>
    BY <1>5, <1>15, <2>4
  <2>. QED BY <2>5, <2>6
<1>. QED BY <1>2, <1>5, <1>6, <1>14, <1>15, <1>16, <1>17

-----------------------------------------------------------------------------
(* Functions with a changing domain. *)

\* A function on part of S, taken apart.
LEMMA PartialElim ==
    ASSUME NEW S, NEW T, NEW f \in Partial(S, T)
    PROVE  /\ DOMAIN f \subseteq S /\ f \in [DOMAIN f -> T]
           /\ \A x \in DOMAIN f : f[x] \in T
<1>1. PICK D \in SUBSET S : f \in [D -> T]
  BY DEF Partial
<1>. QED BY <1>1

\* A function on part of S.
LEMMA PartialIntro ==
    ASSUME NEW S, NEW T, NEW D, D \subseteq S, NEW f \in [D -> T]
    PROVE  f \in Partial(S, T)
BY DEF Partial

\* The empty section of a snapshot.
LEMMA PartialEmpty ==
    ASSUME NEW S, NEW T
    PROVE  <<>> \in Partial(S, T) /\ DOMAIN <<>> = {}
<1>1. <<>> \in [{} -> T]
  OBVIOUS
<1>. QED BY <1>1, PartialIntro

\* What a section holds after a merge by id.
LEMMA PutIs ==
    ASSUME NEW f, NEW g
    PROVE  /\ DOMAIN Put(f, g) = DOMAIN f \union DOMAIN g
           /\ \A x \in DOMAIN g : Put(f, g)[x] = g[x]
           /\ \A x \in DOMAIN f : x \notin DOMAIN g => Put(f, g)[x] = f[x]
BY DEF Put

\* What a section holds after a removal.
LEMMA DropIs ==
    ASSUME NEW f, NEW X
    PROVE  /\ DOMAIN Drop(f, X) = DOMAIN f \ X
           /\ \A x \in DOMAIN f : x \notin X => Drop(f, X)[x] = f[x]
BY DEF Drop

\* What a selection of a section holds.
LEMMA KeepIs ==
    ASSUME NEW f, NEW X
    PROVE  /\ DOMAIN Keep(f, X) = DOMAIN f \intersect X
           /\ \A x \in DOMAIN f : x \in X => Keep(f, X)[x] = f[x]
BY DEF Keep

\* Merges, removals and selections keep a section typed.
LEMMA PartialClosed ==
    ASSUME NEW S, NEW T, NEW f \in Partial(S, T)
    PROVE  /\ \A g \in Partial(S, T) : Put(f, g) \in Partial(S, T)
           /\ \A X : Drop(f, X) \in Partial(S, T) /\ Keep(f, X) \in Partial(S, T)
<1>1. DOMAIN f \subseteq S /\ \A x \in DOMAIN f : f[x] \in T
  BY PartialElim
<1>2. ASSUME NEW g \in Partial(S, T) PROVE Put(f, g) \in Partial(S, T)
  <2>1. DOMAIN g \subseteq S /\ \A x \in DOMAIN g : g[x] \in T
    BY PartialElim
  <2>2. Put(f, g) \in [DOMAIN f \union DOMAIN g -> T]
    BY <1>1, <2>1 DEF Put
  <2>. QED BY <1>1, <2>1, <2>2, PartialIntro
<1>3. ASSUME NEW X PROVE Drop(f, X) \in Partial(S, T) /\ Keep(f, X) \in Partial(S, T)
  <2>1. Drop(f, X) \in [DOMAIN f \ X -> T] /\ Keep(f, X) \in [DOMAIN f \intersect X -> T]
    BY <1>1 DEF Drop, Keep
  <2>2. DOMAIN f \ X \subseteq S /\ DOMAIN f \intersect X \subseteq S
    BY <1>1
  <2>. QED BY <2>1, <2>2, PartialIntro
<1>. QED BY <1>2, <1>3

-----------------------------------------------------------------------------
(* The parts of a state. *)

\* The types of the parts of a state.
LEMMA StateIs ==
    ASSUME NEW M \in StateRec
    PROVE  /\ M.passages \subseteq Doc /\ M.active \subseteq Fact /\ M.edges \subseteq EdgeKey
           /\ M.values \subseteq NodeId /\ M.lexical \subseteq Doc /\ M.live \subseteq Doc
           /\ M.raw \in BOOLEAN
           /\ M.facts \in Partial(Fact, FactRec) /\ DOMAIN M.facts \subseteq Fact
           /\ \A f \in DOMAIN M.facts : /\ M.facts[f] \in FactRec /\ M.facts[f].docs \in Sources
                                        /\ M.facts[f].passages \subseteq Doc
           /\ M.schemas \in Partial(Schema, SchemaRec) /\ DOMAIN M.schemas \subseteq Schema
           /\ \A s \in DOMAIN M.schemas :
                /\ M.schemas[s] \in SchemaRec /\ M.schemas[s].docs \in Sources
                /\ M.schemas[s].freq \in Nat /\ M.schemas[s].stable \in BOOLEAN
                /\ M.schemas[s].facts \subseteq Fact
           /\ M.nodes \in Partial(NodeId, NodeRec) /\ DOMAIN M.nodes \subseteq NodeId
           /\ \A n \in DOMAIN M.nodes : M.nodes[n] \in NodeRec /\ M.nodes[n].docs \in Sources
           /\ M.vectors \in Partial(NodeId, Doc) /\ DOMAIN M.vectors \subseteq NodeId
           /\ \A n \in DOMAIN M.vectors : M.vectors[n] \in Doc
<1>1. /\ M.passages \subseteq Doc /\ M.active \subseteq Fact /\ M.edges \subseteq EdgeKey
      /\ M.values \subseteq NodeId /\ M.lexical \subseteq Doc /\ M.live \subseteq Doc
      /\ M.raw \in BOOLEAN
      /\ M.facts \in Partial(Fact, FactRec) /\ M.schemas \in Partial(Schema, SchemaRec)
      /\ M.nodes \in Partial(NodeId, NodeRec) /\ M.vectors \in Partial(NodeId, Doc)
  BY DEF StateRec
<1>2. DOMAIN M.facts \subseteq Fact /\ \A f \in DOMAIN M.facts : M.facts[f] \in FactRec
  BY <1>1, PartialElim
<1>3. DOMAIN M.schemas \subseteq Schema /\ \A s \in DOMAIN M.schemas : M.schemas[s] \in SchemaRec
  BY <1>1, PartialElim
<1>4. DOMAIN M.nodes \subseteq NodeId /\ \A n \in DOMAIN M.nodes : M.nodes[n] \in NodeRec
  BY <1>1, PartialElim
<1>5. DOMAIN M.vectors \subseteq NodeId /\ \A n \in DOMAIN M.vectors : M.vectors[n] \in Doc
  BY <1>1, PartialElim
<1>6. \A r \in FactRec : r.docs \in Sources /\ r.passages \subseteq Doc
  BY DEF FactRec
<1>7. \A r \in SchemaRec : /\ r.docs \in Sources /\ r.freq \in Nat /\ r.stable \in BOOLEAN
                           /\ r.facts \subseteq Fact
  BY DEF SchemaRec
<1>8. \A r \in NodeRec : r.docs \in Sources
  BY DEF NodeRec, FactRec, SchemaRec
<1>. QED BY <1>1, <1>2, <1>3, <1>4, <1>5, <1>6, <1>7, <1>8

\* A state with one part replaced.
LEMMA StateSet ==
    ASSUME NEW M \in StateRec
    PROVE  /\ \A x \in SUBSET Doc : [M EXCEPT !.passages = x] \in StateRec
           /\ \A x \in SUBSET Doc : [M EXCEPT !.lexical = x] \in StateRec
           /\ \A x \in SUBSET Doc : [M EXCEPT !.live = x] \in StateRec
           /\ \A x \in SUBSET Fact : [M EXCEPT !.active = x] \in StateRec
           /\ \A x \in SUBSET EdgeKey : [M EXCEPT !.edges = x] \in StateRec
           /\ \A x \in SUBSET NodeId : [M EXCEPT !.values = x] \in StateRec
           /\ \A x \in BOOLEAN : [M EXCEPT !.raw = x] \in StateRec
           /\ \A x \in Partial(Fact, FactRec) : [M EXCEPT !.facts = x] \in StateRec
           /\ \A x \in Partial(Schema, SchemaRec) : [M EXCEPT !.schemas = x] \in StateRec
           /\ \A x \in Partial(NodeId, NodeRec) : [M EXCEPT !.nodes = x] \in StateRec
           /\ \A x \in Partial(NodeId, Doc) : [M EXCEPT !.vectors = x] \in StateRec
<1>1. \A x \in SUBSET Doc : [M EXCEPT !.passages = x] \in StateRec
  BY DEF StateRec
<1>2. \A x \in SUBSET Doc : [M EXCEPT !.lexical = x] \in StateRec
  BY DEF StateRec
<1>3. \A x \in SUBSET Doc : [M EXCEPT !.live = x] \in StateRec
  BY DEF StateRec
<1>4. \A x \in SUBSET Fact : [M EXCEPT !.active = x] \in StateRec
  BY DEF StateRec
<1>5. \A x \in SUBSET EdgeKey : [M EXCEPT !.edges = x] \in StateRec
  BY DEF StateRec
<1>6. \A x \in SUBSET NodeId : [M EXCEPT !.values = x] \in StateRec
  BY DEF StateRec
<1>7. \A x \in BOOLEAN : [M EXCEPT !.raw = x] \in StateRec
  BY DEF StateRec
<1>8. \A x \in Partial(Fact, FactRec) : [M EXCEPT !.facts = x] \in StateRec
  BY DEF StateRec
<1>9. \A x \in Partial(Schema, SchemaRec) : [M EXCEPT !.schemas = x] \in StateRec
  BY DEF StateRec
<1>10. \A x \in Partial(NodeId, NodeRec) : [M EXCEPT !.nodes = x] \in StateRec
  BY DEF StateRec
<1>11. \A x \in Partial(NodeId, Doc) : [M EXCEPT !.vectors = x] \in StateRec
  BY DEF StateRec
<1>. QED BY <1>1, <1>2, <1>3, <1>4, <1>5, <1>6, <1>7, <1>8, <1>9, <1>10, <1>11

\* The kinds of ids.
LEMMA NodeIdIs ==
    ASSUME NEW n \in NodeId
    PROVE  /\ n = <<n[1], n[2]>> /\ n[1] \in {"passage", "fact", "ontology", "entity"}
           /\ n[1] = "passage"  => n[2] \in Doc
           /\ n[1] = "fact"     => n[2] \in Fact
           /\ n[1] = "ontology" => n[2] \in Schema
           /\ n[1] = "entity"   => n[2] \in Entity
BY DEF NodeId

\* A source listed.
LEMMA ListsIs ==
    ASSUME NEW ref, NEW w
    PROVE  Lists(ref, w) <=> w \in ToSet(ref.docs)
BY DEF Lists

-----------------------------------------------------------------------------
(* The empty corpus. *)

\* An empty corpus satisfies the invariant.
LEMMA EmptySettled == Settled(Empty)
<1>1. Empty \in StateRec
  BY PartialEmpty DEF Empty, StateRec
<1>2. /\ DOMAIN Empty.facts = {} /\ DOMAIN Empty.schemas = {} /\ DOMAIN Empty.nodes = {}
      /\ DOMAIN Empty.vectors = {} /\ Empty.edges = {} /\ Empty.passages = {}
      /\ Empty.lexical = {} /\ Empty.active = {}
  BY PartialEmpty DEF Empty
<1>3. Coherent(Empty)
  BY <1>1, <1>2 DEF Coherent, Shapes, Grounded, Supported, LiveOnly, Closed
<1>4. Fresh(Empty, {}, {}, {})
  BY <1>2 DEF Fresh, NodesCopied, VectorsNamed, NodesThere, EdgesThere, VectorsThere
<1>. QED BY <1>3, <1>4 DEF Settled

-----------------------------------------------------------------------------
(* A job's merge. *)

\* What a job holds when it sends.
Planned(d) ==
    /\ plan[d] \in PlanRec(d) /\ Evidence[d] \subseteq plan[d].facts
    /\ \A f \in plan[d].facts \ Evidence[d] :
         SchemaOf[f] \in DOMAIN plan[d].schemas /\ f \in plan[d].schemas[SchemaOf[f]].facts

\* What the projections of a job determine.
LEMMA PlannedIs ==
    ASSUME NEW d \in Doc, Planned(d)
    PROVE  /\ FactsSent(d) \subseteq Fact /\ FactsSent(d) \subseteq Contributes[d]
           /\ Evidence[d] \subseteq FactsSent(d)
           /\ SchemasOf(d) \subseteq Schema
           /\ \A f \in FactsSent(d) : SchemaOf[f] \in SchemasOf(d) /\ f \in FactsIn(d, SchemaOf[f])
           /\ \A s \in SchemasOf(d) : FactsIn(d, s) \subseteq FactsSent(d)
           /\ \A s \in SchemasOf(d) : \A f \in FactsIn(d, s) : SchemaOf[f] = s
           /\ \A x \in Mentioned(FactsSent(d)) : x \in Entity
           /\ \A f \in FactsSent(d) : /\ Ends[f][1] \in Mentioned(FactsSent(d))
                                      /\ Ends[f][2] \in Mentioned(FactsSent(d))
           /\ plan[d].schemas \in Partial(Schema, SchemaRec)
<1>1. plan[d].facts \subseteq Contributes[d] /\ plan[d].schemas \in Partial(Schema, SchemaRec)
  BY DEF Planned, PlanRec
<1>2. Contributes[d] \subseteq Fact
  BY ShapesAssumption
<1>3. FactsSent(d) \subseteq Fact /\ FactsSent(d) \subseteq Contributes[d]
  BY <1>1, <1>2 DEF FactsSent
<1>4. \A f \in Fact : SchemaOf[f] \in Schema /\ Ends[f][1] \in Entity /\ Ends[f][2] \in Entity
  BY ShapesAssumption
<1>5. \A f \in FactsSent(d) : /\ SchemaOf[f] \in SchemasOf(d) /\ f \in FactsIn(d, SchemaOf[f])
  BY DEF SchemasOf, FactsIn
<1>6. \A s \in SchemasOf(d) : FactsIn(d, s) \subseteq FactsSent(d) /\ \A f \in FactsIn(d, s) : SchemaOf[f] = s
  BY DEF FactsIn
<1>7. SchemasOf(d) \subseteq Schema
  BY <1>3, <1>4 DEF SchemasOf
<1>8. \A x \in Mentioned(FactsSent(d)) : x \in Entity
  BY <1>3, <1>4 DEF Mentioned
<1>9. \A f \in FactsSent(d) : /\ Ends[f][1] \in Mentioned(FactsSent(d))
                              /\ Ends[f][2] \in Mentioned(FactsSent(d))
  BY DEF Mentioned
<1>10. Evidence[d] \subseteq FactsSent(d)
  BY DEF Planned, FactsSent
<1>. QED BY <1>1, <1>3, <1>5, <1>6, <1>7, <1>8, <1>9, <1>10

\* The fact a job sends keeps what is stored and adds its own document.
LEMMA FactItemIs ==
    ASSUME NEW M, Coherent(M), NEW d \in Doc, NEW f
    PROVE  /\ FactItem(M, d, f) \in FactRec /\ FactItem(M, d, f).docs # <<>>
           /\ ToSet(FactItem(M, d, f).docs) =
                (IF f \in DOMAIN M.facts THEN ToSet(M.facts[f].docs) ELSE {}) \union {d}
           /\ FactItem(M, d, f).passages =
                (IF f \in DOMAIN M.facts THEN M.facts[f].passages ELSE {})
                   \union (IF f \in Evidence[d] THEN {d} ELSE {})
<1> DEFINE old == IF f \in DOMAIN M.facts THEN M.facts[f] ELSE [docs |-> <<>>, passages |-> {}]
           docs == IF Lists(old, d) THEN old.docs ELSE Append(old.docs, d)
           new == old.passages \union (IF f \in Evidence[d] THEN {d} ELSE {})
<1>1. M \in StateRec
  BY DEF Coherent
<1>2. FactItem(M, d, f) = [docs |-> docs, passages |-> new]
  <2>2. /\ f \in DOMAIN Keep(M.facts, {f}) <=> f \in DOMAIN M.facts
        /\ f \in DOMAIN M.facts => Keep(M.facts, {f})[f] = M.facts[f]
    BY DEF Keep
  <2>3. old = IF f \in DOMAIN Keep(M.facts, {f}) THEN Keep(M.facts, {f})[f]
              ELSE [docs |-> <<>>, passages |-> {}]
    BY <2>2
  <2>4. FactItem(M, d, f) =
          LET o == IF f \in DOMAIN Keep(M.facts, {f}) THEN Keep(M.facts, {f})[f]
                   ELSE [docs |-> <<>>, passages |-> {}]
          IN  [docs     |-> IF Lists(o, d) THEN o.docs ELSE Append(o.docs, d),
               passages |-> o.passages \union (IF f \in Evidence[d] THEN {d} ELSE {})]
    BY DEF FactItem, GetFactsByIds
  <2> HIDE DEF old
  <2>. QED BY <2>3, <2>4
<1>3. old.docs \in Sources /\ old.passages \subseteq Doc
  <2>1. CASE f \in DOMAIN M.facts
    BY <1>1, <2>1, StateIs
  <2>2. CASE f \notin DOMAIN M.facts
    BY <2>2, SourcesFew
  <2>. QED BY <2>1, <2>2
<1>4. /\ ToSet(old.docs) = IF f \in DOMAIN M.facts THEN ToSet(M.facts[f].docs) ELSE {}
      /\ old.passages = IF f \in DOMAIN M.facts THEN M.facts[f].passages ELSE {}
  BY SourcesFew
<1>5. Lists(old, d) <=> d \in ToSet(old.docs)
  BY ListsIs
<1> HIDE DEF old
<1>6. docs \in Sources /\ docs # <<>> /\ ToSet(docs) = ToSet(old.docs) \union {d}
  <2>1. CASE d \in ToSet(old.docs)
    BY <1>3, <1>5, <2>1, SourcesAre
  <2>2. CASE d \notin ToSet(old.docs)
    BY <1>3, <1>5, <2>2, SourcesAppend
  <2>. QED BY <2>1, <2>2
<1> HIDE DEF docs
<1>7. [docs |-> docs, passages |-> new] \in FactRec
  BY <1>3, <1>6 DEF FactRec
<1>. QED BY <1>2, <1>4, <1>6, <1>7

\* The schema a valid intent gives: its list gains the job's document, its
\* frequency keeps up, and its first source is the one the job has read.
LEMMA MergedSchemaIs ==
    ASSUME NEW M, Coherent(M), NEW d \in Doc, Planned(d), NEW s \in SchemasOf(d),
           IntentApplies(M, d, s, Intent(d, s, plan[d].schemas)),
           NEW r, r = MergedSchema(M, d, s, Intent(d, s, plan[d].schemas))
    PROVE  /\ s \in DOMAIN M.schemas <=> s \in DOMAIN plan[d].schemas
           /\ s \in DOMAIN M.schemas => M.schemas[s] = plan[d].schemas[s]
           /\ r \in SchemaRec /\ r.docs # <<>>
           /\ ToSet(r.docs) =
                (IF s \in DOMAIN M.schemas THEN ToSet(M.schemas[s].docs) ELSE {}) \union {d}
           /\ r.facts = (IF s \in DOMAIN M.schemas THEN M.schemas[s].facts ELSE {}) \union FactsIn(d, s)
           /\ r.freq >= Len(r.docs) /\ (r.stable <=> r.freq >= Threshold)
           /\ FirstSource(d, s) = r.docs[1]
<1> DEFINE view == plan[d].schemas
           i    == Intent(d, s, view)
<1>1. M \in StateRec /\ Supported(M)
  BY DEF Coherent
<1>2. FactsIn(d, s) \subseteq Fact
  BY PlannedIs
<1>3. Occurrences[d] \in Nat /\ Occurrences[d] > 0 /\ Threshold \in Nat
  BY ShapesAssumption, ContributionsAssumption
<1>4. CASE s \notin DOMAIN view
  <2> DEFINE new == [docs |-> <<d>>, freq |-> Occurrences[d], stable |-> Occurrences[d] >= Threshold,
                     facts |-> FactsIn(d, s)]
  <2>1. i = [mode |-> "create", schema |-> new]
    BY <1>4 DEF Intent
  <2>2. i.mode = "create" /\ i.schema = new
    BY <2>1
  <2> HIDE DEF i
  <2>3. s \notin DOMAIN M.schemas
    BY <2>2 DEF IntentApplies, i
  <2>4. r = new
    BY <2>2 DEF MergedSchema, i
  <2>5. <<d>> \in Sources /\ ToSet(<<d>>) = {d} /\ <<d>> # <<>> /\ Len(<<d>>) = 1 /\ <<d>>[1] = d
    BY SourcesFew
  <2>6. r \in SchemaRec
    BY <1>2, <1>3, <2>4, <2>5 DEF SchemaRec
  <2>7. FirstSource(d, s) = d
    BY <1>4 DEF FirstSource
  <2>8. r.docs = <<d>> /\ r.freq = Occurrences[d] /\ r.facts = FactsIn(d, s)
        /\ r.stable = (Occurrences[d] >= Threshold)
    BY <2>4
  <2>9. r.freq >= Len(r.docs)
    BY <1>3, <2>5, <2>8
  <2>. QED BY <1>4, <2>3, <2>5, <2>6, <2>7, <2>8, <2>9
<1>5. CASE s \in DOMAIN view
  <2> DEFINE delta == IF Lists(view[s], d) THEN 0 ELSE Occurrences[d]
             old   == M.schemas[s]
             docs  == IF Lists(old, d) THEN old.docs ELSE Append(old.docs, d)
  <2>1. i = [mode |-> "merge", token |-> view[s], delta |-> delta,
             stable |-> view[s].freq + delta >= Threshold, facts |-> FactsIn(d, s)]
    BY <1>5 DEF Intent
  <2>2. /\ i.mode = "merge" /\ i.token = view[s] /\ i.delta = delta
        /\ i.stable = (view[s].freq + delta >= Threshold) /\ i.facts = FactsIn(d, s)
    BY <2>1
  <2> HIDE DEF i
  <2>3. i.mode # "create"
    BY <2>2
  <2>4. s \in DOMAIN M.schemas /\ M.schemas[s] = view[s]
    BY <2>2, <2>3 DEF IntentApplies, i
  <2>5. r = [docs |-> docs, freq |-> old.freq + delta, stable |-> old.freq + delta >= Threshold,
             facts |-> old.facts \union FactsIn(d, s)]
    BY <2>2, <2>3, <2>4 DEF MergedSchema, i
  <2>6. /\ old \in SchemaRec /\ old.docs \in Sources /\ old.freq \in Nat /\ old.facts \subseteq Fact
        /\ old.freq >= Len(old.docs) /\ Len(old.docs) \in Nat
    BY <1>1, <2>4, StateIs, SourcesAre DEF Supported
  <2>7. Lists(old, d) <=> d \in ToSet(old.docs)
    BY ListsIs
  <2>8. delta \in Nat /\ delta = (IF d \in ToSet(old.docs) THEN 0 ELSE Occurrences[d])
    BY <1>3, <2>4, <2>7
  <2>9. FirstSource(d, s) = IF old.docs # <<>> THEN old.docs[1] ELSE d
    BY <1>5, <2>4 DEF FirstSource
  <2> HIDE DEF delta, old
  <2>10. /\ docs \in Sources /\ docs # <<>> /\ ToSet(docs) = ToSet(old.docs) \union {d}
         /\ old.freq + delta >= Len(docs) /\ FirstSource(d, s) = docs[1]
    <3>1. CASE d \in ToSet(old.docs)
      <4>1. docs = old.docs /\ delta = 0 /\ old.docs # <<>>
        <5>1. old.docs # <<>>
          BY <3>1, SourcesFew
        <5>. QED BY <2>7, <2>8, <3>1, <5>1
      <4>2. old.freq + delta >= Len(docs)
        <5>1. Len(docs) = Len(old.docs)
          BY <4>1, Zenon
        <5> HIDE DEF docs
        <5>2. old.freq \in Nat /\ delta = 0
          BY <2>6, <4>1
        <5>. QED BY <2>6, <5>1, <5>2
      <4>. QED BY <2>6, <2>9, <3>1, <4>1, <4>2
    <3>2. CASE d \notin ToSet(old.docs)
      <4>1. docs = Append(old.docs, d) /\ delta = Occurrences[d]
        BY <2>7, <2>8, <3>2
      <4>2. /\ docs \in Sources /\ docs # <<>> /\ ToSet(docs) = ToSet(old.docs) \union {d}
            /\ Len(docs) = Len(old.docs) + 1 /\ docs[1] = IF old.docs = <<>> THEN d ELSE old.docs[1]
        BY <2>6, <3>2, <4>1, SourcesAppend
      <4>3. old.freq + delta >= Len(docs)
        BY <1>3, <2>6, <4>1, <4>2
      <4>. QED BY <2>9, <4>2, <4>3
    <3>. QED BY <3>1, <3>2
  <2> HIDE DEF docs
  <2>11. /\ r.docs = docs /\ r.freq = old.freq + delta /\ r.facts = old.facts \union FactsIn(d, s)
         /\ r.stable = (old.freq + delta >= Threshold)
    BY <2>5
  <2>12. r \in SchemaRec
    BY <1>2, <2>5, <2>6, <2>8, <2>10 DEF SchemaRec
  <2>. QED BY <1>5, <2>4, <2>10, <2>11, <2>12 DEF old
<1>. QED BY <1>4, <1>5

\* memory_upsert, part by part.
LEMMA UpsertIs ==
    ASSUME NEW M, Coherent(M), NEW d \in Doc, Planned(d), ValidMerges(M, d),
           NEW M2, M2 = MemoryUpsert(M, d)
    PROVE  /\ M2 \in StateRec
           /\ M2.passages = M.passages \union {d} /\ M2.live = M.live \union {d}
           /\ M2.active = M.active /\ M2.nodes = M.nodes /\ M2.edges = M.edges
           /\ M2.vectors = M.vectors /\ M2.values = M.values /\ M2.lexical = M.lexical
           /\ M2.raw = M.raw
           /\ DOMAIN M2.facts = DOMAIN M.facts \union FactsSent(d)
           /\ \A f \in FactsSent(d) : M2.facts[f] = FactItem(M, d, f)
           /\ \A f \in DOMAIN M.facts : f \notin FactsSent(d) => M2.facts[f] = M.facts[f]
           /\ DOMAIN M2.schemas = DOMAIN M.schemas \union SchemasOf(d)
           /\ \A s \in SchemasOf(d) :
                M2.schemas[s] = MergedSchema(M, d, s, Intent(d, s, plan[d].schemas))
           /\ \A s \in DOMAIN M.schemas : s \notin SchemasOf(d) => M2.schemas[s] = M.schemas[s]
<1> DEFINE G == [f \in FactsSent(d) |-> FactItem(M, d, f)]
           H == [s \in SchemasOf(d) |-> MergedSchema(M, d, s, Intent(d, s, plan[d].schemas))]
<1>1. M \in StateRec
  BY DEF Coherent
<1>2. M2 = [M EXCEPT !.passages = @ \union {d}, !.facts = Put(@, G), !.schemas = Put(@, H),
                     !.live = @ \union {d}]
  BY DEF MemoryUpsert
<1>3. G \in Partial(Fact, FactRec) /\ DOMAIN G = FactsSent(d)
  <2>1. \A f \in FactsSent(d) : FactItem(M, d, f) \in FactRec
    BY FactItemIs
  <2>2. G \in [FactsSent(d) -> FactRec] /\ FactsSent(d) \subseteq Fact
    BY <2>1, PlannedIs
  <2>. QED BY <2>2, PartialIntro
<1>4. H \in Partial(Schema, SchemaRec) /\ DOMAIN H = SchemasOf(d)
  <2>1. \A s \in SchemasOf(d) : IntentApplies(M, d, s, Intent(d, s, plan[d].schemas))
    BY DEF ValidMerges
  <2>2. \A s \in SchemasOf(d) : MergedSchema(M, d, s, Intent(d, s, plan[d].schemas)) \in SchemaRec
    BY <2>1, MergedSchemaIs
  <2>3. H \in [SchemasOf(d) -> SchemaRec] /\ SchemasOf(d) \subseteq Schema
    BY <2>2, PlannedIs
  <2>. QED BY <2>3, PartialIntro
<1>5. /\ \A f \in FactsSent(d) : G[f] = FactItem(M, d, f)
      /\ \A s \in SchemasOf(d) : H[s] = MergedSchema(M, d, s, Intent(d, s, plan[d].schemas))
  OBVIOUS
<1> HIDE DEF G, H
<1>6. /\ M2.passages = M.passages \union {d} /\ M2.live = M.live \union {d}
      /\ M2.active = M.active /\ M2.nodes = M.nodes /\ M2.edges = M.edges
      /\ M2.vectors = M.vectors /\ M2.values = M.values /\ M2.lexical = M.lexical
      /\ M2.raw = M.raw /\ M2.facts = Put(M.facts, G) /\ M2.schemas = Put(M.schemas, H)
  BY <1>1, <1>2 DEF StateRec
<1>7. Put(M.facts, G) \in Partial(Fact, FactRec) /\ Put(M.schemas, H) \in Partial(Schema, SchemaRec)
  BY <1>1, <1>3, <1>4, StateIs, PartialClosed
<1>8. M2 \in StateRec
  <2> DEFINE A == [M EXCEPT !.passages = M.passages \union {d}]
             B == [A EXCEPT !.facts = Put(M.facts, G)]
             C == [B EXCEPT !.schemas = Put(M.schemas, H)]
  <2>1. M.passages \union {d} \in SUBSET Doc /\ M.live \union {d} \in SUBSET Doc
    BY <1>1, StateIs
  <2>2. M2 = [C EXCEPT !.live = M.live \union {d}]
    BY <1>2
  <2>3. A \in StateRec
    BY <1>1, <2>1, StateSet
  <2> HIDE DEF A
  <2>4. B \in StateRec
    BY <1>7, <2>3, StateSet
  <2> HIDE DEF B
  <2>5. C \in StateRec
    BY <1>7, <2>4, StateSet
  <2> HIDE DEF C
  <2>. QED BY <2>1, <2>2, <2>5, StateSet
<1>9. /\ DOMAIN M2.facts = DOMAIN M.facts \union FactsSent(d)
      /\ \A f \in FactsSent(d) : M2.facts[f] = G[f]
      /\ \A f \in DOMAIN M.facts : f \notin FactsSent(d) => M2.facts[f] = M.facts[f]
  BY <1>3, <1>6 DEF Put
<1>10. /\ DOMAIN M2.schemas = DOMAIN M.schemas \union SchemasOf(d)
       /\ \A s \in SchemasOf(d) : M2.schemas[s] = H[s]
       /\ \A s \in DOMAIN M.schemas : s \notin SchemasOf(d) => M2.schemas[s] = M.schemas[s]
  BY <1>4, <1>6 DEF Put
<1>. QED BY <1>5, <1>6, <1>8, <1>9, <1>10

\* A merge planned on an older projection is applied only if it still fits:
\* every fact it sends has a passage, every schema its own documents.
LEMMA UpsertCoherent ==
    ASSUME NEW M, Coherent(M), NEW d \in Doc, Planned(d), ValidMerges(M, d),
           NEW M2, M2 = MemoryUpsert(M, d)
    PROVE  Coherent(M2)
<1>1. /\ M \in StateRec /\ Shapes(M) /\ Grounded(M) /\ Supported(M) /\ LiveOnly(M) /\ Closed(M)
  BY DEF Coherent
<1>2. /\ M2 \in StateRec
      /\ M2.passages = M.passages \union {d} /\ M2.live = M.live \union {d}
      /\ M2.active = M.active /\ M2.nodes = M.nodes /\ M2.edges = M.edges
      /\ M2.vectors = M.vectors /\ M2.values = M.values /\ M2.lexical = M.lexical
      /\ DOMAIN M2.facts = DOMAIN M.facts \union FactsSent(d)
      /\ \A f \in FactsSent(d) : M2.facts[f] = FactItem(M, d, f)
      /\ \A f \in DOMAIN M.facts : f \notin FactsSent(d) => M2.facts[f] = M.facts[f]
      /\ DOMAIN M2.schemas = DOMAIN M.schemas \union SchemasOf(d)
      /\ \A s \in SchemasOf(d) :
           M2.schemas[s] = MergedSchema(M, d, s, Intent(d, s, plan[d].schemas))
      /\ \A s \in DOMAIN M.schemas : s \notin SchemasOf(d) => M2.schemas[s] = M.schemas[s]
  BY UpsertIs
<1>3. ASSUME NEW s \in SchemasOf(d)
      PROVE  /\ s \in DOMAIN M.schemas <=> s \in DOMAIN plan[d].schemas
             /\ s \in DOMAIN M.schemas => M.schemas[s] = plan[d].schemas[s]
             /\ ToSet(M2.schemas[s].docs) =
                  (IF s \in DOMAIN M.schemas THEN ToSet(M.schemas[s].docs) ELSE {}) \union {d}
             /\ M2.schemas[s].facts =
                  (IF s \in DOMAIN M.schemas THEN M.schemas[s].facts ELSE {}) \union FactsIn(d, s)
             /\ M2.schemas[s].freq >= Len(M2.schemas[s].docs)
             /\ M2.schemas[s].stable <=> M2.schemas[s].freq >= Threshold
  <2>1. IntentApplies(M, d, s, Intent(d, s, plan[d].schemas))
    BY DEF ValidMerges
  <2>2. M2.schemas[s] = MergedSchema(M, d, s, Intent(d, s, plan[d].schemas))
    BY <1>2
  <2>. QED BY <2>1, <2>2, MergedSchemaIs
<1>4. ASSUME NEW f \in FactsSent(d)
      PROVE  /\ M2.facts[f].docs # <<>>
             /\ ToSet(M2.facts[f].docs) =
                  (IF f \in DOMAIN M.facts THEN ToSet(M.facts[f].docs) ELSE {}) \union {d}
             /\ M2.facts[f].passages =
                  (IF f \in DOMAIN M.facts THEN M.facts[f].passages ELSE {})
                     \union (IF f \in Evidence[d] THEN {d} ELSE {})
  <2>1. M2.facts[f] = FactItem(M, d, f)
    BY <1>2
  <2>. QED BY <2>1, FactItemIs
<1>5. ASSUME NEW f \in FactsSent(d), f \notin Evidence[d]
      PROVE  f \in DOMAIN M.facts
  <2>1. SchemaOf[f] \in DOMAIN plan[d].schemas /\ f \in plan[d].schemas[SchemaOf[f]].facts
    BY <1>5 DEF Planned, FactsSent
  <2>2. SchemaOf[f] \in SchemasOf(d)
    BY PlannedIs
  <2>3. SchemaOf[f] \in DOMAIN M.schemas /\ f \in M.schemas[SchemaOf[f]].facts
    BY <1>3, <2>1, <2>2
  <2>. QED BY <1>1, <2>3 DEF Grounded
<1>6. Shapes(M2)
  BY <1>1, <1>2 DEF Shapes
<1>7. Closed(M2)
  BY <1>1, <1>2 DEF Closed
<1>8. Supported(M2)
  <2>1. ASSUME NEW s \in DOMAIN M2.schemas
        PROVE  /\ M2.schemas[s].freq >= Len(M2.schemas[s].docs)
               /\ M2.schemas[s].stable <=> M2.schemas[s].freq >= Threshold
    <3>1. CASE s \in SchemasOf(d)
      BY <1>3, <3>1
    <3>2. CASE s \notin SchemasOf(d)
      <4>1. s \in DOMAIN M.schemas /\ M2.schemas[s] = M.schemas[s]
        BY <1>2, <3>2
      <4>. QED BY <1>1, <4>1 DEF Supported
    <3>. QED BY <3>1, <3>2
  <2>. QED BY <2>1 DEF Supported
<1>9. LiveOnly(M2)
  <2>1. \A f \in DOMAIN M2.facts : ToSet(M2.facts[f].docs) \subseteq M2.live
    <3>1. ASSUME NEW f \in DOMAIN M2.facts PROVE ToSet(M2.facts[f].docs) \subseteq M2.live
      <4>1. CASE f \in FactsSent(d)
        BY <1>1, <1>2, <1>4, <4>1 DEF LiveOnly
      <4>2. CASE f \notin FactsSent(d)
        BY <1>1, <1>2, <4>2 DEF LiveOnly
      <4>. QED BY <4>1, <4>2
    <3>. QED BY <3>1
  <2>2. \A s \in DOMAIN M2.schemas : ToSet(M2.schemas[s].docs) \subseteq M2.live
    <3>1. ASSUME NEW s \in DOMAIN M2.schemas PROVE ToSet(M2.schemas[s].docs) \subseteq M2.live
      <4>1. CASE s \in SchemasOf(d)
        BY <1>1, <1>2, <1>3, <4>1 DEF LiveOnly
      <4>2. CASE s \notin SchemasOf(d)
        BY <1>1, <1>2, <4>2 DEF LiveOnly
      <4>. QED BY <4>1, <4>2
    <3>. QED BY <3>1
  <2>3. /\ M2.passages \union M2.lexical \subseteq M2.live
        /\ \A n \in DOMAIN M2.vectors : M2.vectors[n] \in M2.live
        /\ \A n \in DOMAIN M2.nodes   : ToSet(M2.nodes[n].docs) \subseteq M2.live
    BY <1>1, <1>2 DEF LiveOnly
  <2>. QED BY <2>1, <2>2, <2>3 DEF LiveOnly
<1>10. Grounded(M2)
  <2>1. ASSUME NEW f \in DOMAIN M2.facts
        PROVE  /\ M2.facts[f].docs # <<>> /\ M2.facts[f].passages # {}
               /\ M2.facts[f].passages \subseteq M2.passages \intersect ToSet(M2.facts[f].docs)
    <3>1. CASE f \in FactsSent(d)
      <4>1. f \in DOMAIN M.facts =>
              /\ M.facts[f].passages # {}
              /\ M.facts[f].passages \subseteq M.passages \intersect ToSet(M.facts[f].docs)
        BY <1>1 DEF Grounded
      <4>. QED BY <1>2, <1>4, <1>5, <3>1, <4>1
    <3>2. CASE f \notin FactsSent(d)
      BY <1>1, <1>2, <3>2 DEF Grounded
    <3>. QED BY <3>1, <3>2
  <2>2. ASSUME NEW f \in DOMAIN M2.facts
        PROVE  /\ SchemaOf[f] \in DOMAIN M2.schemas
               /\ f \in M2.schemas[SchemaOf[f]].facts
               /\ ToSet(M2.facts[f].docs) \subseteq ToSet(M2.schemas[SchemaOf[f]].docs)
    <3> DEFINE s == SchemaOf[f]
    <3>1. f \in DOMAIN M.facts =>
            /\ s \in DOMAIN M.schemas /\ f \in M.schemas[s].facts
            /\ ToSet(M.facts[f].docs) \subseteq ToSet(M.schemas[s].docs)
      BY <1>1 DEF Grounded
    <3>2. f \in FactsSent(d) => s \in SchemasOf(d) /\ f \in FactsIn(d, s)
      BY PlannedIs
    <3> HIDE DEF s
    <3>3. CASE f \in FactsSent(d)
      <4>1. s \in SchemasOf(d) /\ f \in FactsIn(d, s)
        BY <3>2, <3>3
      <4>2. /\ ToSet(M2.schemas[s].docs) =
                  (IF s \in DOMAIN M.schemas THEN ToSet(M.schemas[s].docs) ELSE {}) \union {d}
            /\ M2.schemas[s].facts =
                  (IF s \in DOMAIN M.schemas THEN M.schemas[s].facts ELSE {}) \union FactsIn(d, s)
        BY <1>3, <4>1
      <4>3. ToSet(M2.facts[f].docs) =
                  (IF f \in DOMAIN M.facts THEN ToSet(M.facts[f].docs) ELSE {}) \union {d}
        BY <1>4, <3>3
      <4>4. s \in DOMAIN M2.schemas
        BY <1>2, <4>1
      <4>. QED BY <3>1, <4>1, <4>2, <4>3, <4>4 DEF s
    <3>4. CASE f \notin FactsSent(d) /\ s \in SchemasOf(d)
      BY <1>2, <1>3, <3>1, <3>4 DEF s
    <3>5. CASE f \notin FactsSent(d) /\ s \notin SchemasOf(d)
      BY <1>2, <3>1, <3>5 DEF s
    <3>. QED BY <3>3, <3>4, <3>5
  <2>3. ASSUME NEW s \in DOMAIN M2.schemas, NEW f \in M2.schemas[s].facts
        PROVE  f \in DOMAIN M2.facts /\ SchemaOf[f] = s
    <3>1. s \in DOMAIN M.schemas /\ f \in M.schemas[s].facts => f \in DOMAIN M.facts /\ SchemaOf[f] = s
      BY <1>1 DEF Grounded
    <3>2. s \in SchemasOf(d) /\ f \in FactsIn(d, s) => f \in FactsSent(d) /\ SchemaOf[f] = s
      BY PlannedIs
    <3>3. CASE s \in SchemasOf(d)
      <4>1. f \in FactsIn(d, s) \/ (s \in DOMAIN M.schemas /\ f \in M.schemas[s].facts)
        BY <1>3, <3>3
      <4>. QED BY <1>2, <3>1, <3>2, <3>3, <4>1
    <3>4. CASE s \notin SchemasOf(d)
      <4>1. s \in DOMAIN M.schemas /\ f \in M.schemas[s].facts
        BY <1>2, <3>4
      <4>. QED BY <1>2, <3>1, <4>1
    <3>. QED BY <3>3, <3>4
  <2>4. M2.active \subseteq DOMAIN M2.facts
    BY <1>1, <1>2 DEF Grounded
  <2>. QED BY <2>1, <2>2, <2>3, <2>4 DEF Grounded
<1>. QED BY <1>2, <1>6, <1>7, <1>8, <1>9, <1>10 DEF Coherent

\* The ids a job has yet to send, kind by kind.
LEMMA PendingIs ==
    ASSUME NEW d \in Doc, Planned(d)
    PROVE  /\ Pending(d) \subseteq NodeId
           /\ \A x : <<"passage", x>> \in Pending(d) <=> x = d
           /\ \A x : <<"fact", x>> \in Pending(d) <=> x \in FactsSent(d)
           /\ \A x : <<"ontology", x>> \in Pending(d) <=> x \in SchemasOf(d)
           /\ \A x : <<"entity", x>> \in Pending(d) <=> x \in Mentioned(FactsSent(d))
<1>1. /\ FactsSent(d) \subseteq Fact /\ SchemasOf(d) \subseteq Schema
      /\ \A x \in Mentioned(FactsSent(d)) : x \in Entity
  BY PlannedIs
<1>2. Pending(d) \subseteq NodeId
  BY <1>1 DEF Pending, NodeId
<1>3. \A x : <<"passage", x>> \in Pending(d) <=> x = d
  BY DEF Pending
<1>4. \A x : <<"fact", x>> \in Pending(d) <=> x \in FactsSent(d)
  BY DEF Pending
<1>5. \A x : <<"ontology", x>> \in Pending(d) <=> x \in SchemasOf(d)
  BY DEF Pending
<1>6. \A x : <<"entity", x>> \in Pending(d) <=> x \in Mentioned(FactsSent(d))
  BY DEF Pending
<1>. QED BY <1>2, <1>3, <1>4, <1>5, <1>6

\* After the merge the graph and the vectors lag only where the job sends next.
LEMMA UpsertFresh ==
    ASSUME NEW M, Settled(M), NEW d \in Doc, Planned(d), plan[d] # None, ValidMerges(M, d),
           NEW M2, M2 = MemoryUpsert(M, d)
    PROVE  Fresh(M2, Pending(d), Pending(d), Pending(d)) /\ Merged(M2, d)
<1> DEFINE P == Pending(d)
<1>1. Coherent(M) /\ Fresh(M, {}, {}, {}) /\ M \in StateRec
  BY DEF Settled, Coherent
<1>2. /\ M2.passages = M.passages \union {d} /\ M2.live = M.live \union {d}
      /\ M2.nodes = M.nodes /\ M2.edges = M.edges /\ M2.vectors = M.vectors /\ M2.raw = M.raw
      /\ DOMAIN M2.facts = DOMAIN M.facts \union FactsSent(d)
      /\ \A f \in DOMAIN M.facts : f \notin FactsSent(d) => M2.facts[f] = M.facts[f]
      /\ DOMAIN M2.schemas = DOMAIN M.schemas \union SchemasOf(d)
      /\ \A s \in SchemasOf(d) :
           M2.schemas[s] = MergedSchema(M, d, s, Intent(d, s, plan[d].schemas))
      /\ \A s \in DOMAIN M.schemas : s \notin SchemasOf(d) => M2.schemas[s] = M.schemas[s]
  BY <1>1, UpsertIs
<1>3. /\ \A x : <<"passage", x>> \in P <=> x = d
      /\ \A x : <<"fact", x>> \in P <=> x \in FactsSent(d)
      /\ \A x : <<"ontology", x>> \in P <=> x \in SchemasOf(d)
  BY PendingIs
<1>4. /\ DOMAIN M.nodes \subseteq NodeId /\ DOMAIN M.vectors \subseteq NodeId
  BY <1>1, StateIs
<1> HIDE DEF P
<1>5. NodesCopied(M2, P)
  <2>1. ASSUME NEW n \in DOMAIN M2.nodes \ P
        PROVE  /\ n[1] = "fact"     => n[2] \in DOMAIN M2.facts /\ M2.nodes[n] = M2.facts[n[2]]
               /\ n[1] = "ontology" => n[2] \in DOMAIN M2.schemas /\ M2.nodes[n] = M2.schemas[n[2]]
    <3>1. n \in DOMAIN M.nodes /\ n = <<n[1], n[2]>> /\ n \notin P
      BY <1>2, <1>4, NodeIdIs
    <3>2. /\ n[1] = "fact"     => n[2] \in DOMAIN M.facts /\ M.nodes[n] = M.facts[n[2]]
          /\ n[1] = "ontology" => n[2] \in DOMAIN M.schemas /\ M.nodes[n] = M.schemas[n[2]]
      BY <1>1, <3>1 DEF Fresh, NodesCopied
    <3>3. n[1] = "fact" => n[2] \notin FactsSent(d)
      BY <1>3, <3>1
    <3>4. n[1] = "ontology" => n[2] \notin SchemasOf(d)
      BY <1>3, <3>1
    <3>. QED BY <1>2, <3>2, <3>3, <3>4
  <2>. QED BY <2>1 DEF NodesCopied
<1>6. VectorsNamed(M2, P)
  <2>1. ASSUME NEW n \in DOMAIN M2.vectors \ P
        PROVE  /\ n[1] = "fact" /\ n[2] \in DOMAIN M2.facts => M2.vectors[n] = M2.facts[n[2]].docs[1]
               /\ n[1] = "ontology" => /\ n[2] \in DOMAIN M2.schemas
                                       /\ M2.schemas[n[2]].docs # <<>>
                                       /\ M2.vectors[n] = M2.schemas[n[2]].docs[1]
    <3>1. n \in DOMAIN M.vectors /\ n = <<n[1], n[2]>> /\ n \notin P
      BY <1>2, <1>4, NodeIdIs
    <3>2. /\ n[1] = "fact" /\ n[2] \in DOMAIN M.facts => M.vectors[n] = M.facts[n[2]].docs[1]
          /\ n[1] = "ontology" => /\ n[2] \in DOMAIN M.schemas
                                  /\ M.schemas[n[2]].docs # <<>>
                                  /\ M.vectors[n] = M.schemas[n[2]].docs[1]
      BY <1>1, <3>1 DEF Fresh, VectorsNamed
    <3>3. n[1] = "fact" => n[2] \notin FactsSent(d)
      BY <1>3, <3>1
    <3>4. n[1] = "ontology" => n[2] \notin SchemasOf(d)
      BY <1>3, <3>1
    <3>. QED BY <1>2, <3>2, <3>3, <3>4
  <2>. QED BY <2>1 DEF VectorsNamed
<1>7. ASSUME ~M.raw PROVE NodesThere(M2, P)
  <2>0. NodesThere(M, {})
    BY <1>1, <1>7 DEF Fresh
  <2>1. \A x \in M2.passages : <<"passage", x>> \notin P => <<"passage", x>> \in DOMAIN M2.nodes
    BY <1>2, <1>3, <2>0 DEF NodesThere
  <2>2. \A f \in DOMAIN M2.facts : <<"fact", f>> \notin P =>
          /\ <<"fact", f>> \in DOMAIN M2.nodes
          /\ <<"entity", Ends[f][1]>> \in DOMAIN M2.nodes
          /\ <<"entity", Ends[f][2]>> \in DOMAIN M2.nodes
    BY <1>2, <1>3, <2>0 DEF NodesThere
  <2>3. ASSUME NEW s \in DOMAIN M2.schemas, <<"ontology", s>> \notin P
        PROVE  M2.schemas[s].docs # <<>> <=> <<"ontology", s>> \in DOMAIN M2.nodes
    <3>1. s \in DOMAIN M.schemas /\ M2.schemas[s] = M.schemas[s]
      BY <1>2, <1>3, <2>3
    <3>2. M.schemas[s].docs # <<>> <=> <<"ontology", s>> \in DOMAIN M.nodes
      BY <2>0, <3>1 DEF NodesThere
    <3>. QED BY <1>2, <3>1, <3>2
  <2>. QED BY <2>1, <2>2, <2>3 DEF NodesThere
<1>8. ASSUME ~M.raw PROVE EdgesThere(M2, P)
  <2>0. EdgesThere(M, {})
    BY <1>1, <1>8 DEF Fresh
  <2>1. \A f \in DOMAIN M2.facts : <<"fact", f>> \notin P => Cooccurrence(f) \in M2.edges
    BY <1>2, <1>3, <2>0 DEF EdgesThere
  <2>2. \A n \in DOMAIN M2.nodes \ P : n[1] = "entity" =>
          \E e \in M2.edges : (e.from = n \/ e.to = n) /\ e.rel \in Holding
    BY <1>2, <2>0 DEF EdgesThere
  <2>. QED BY <2>1, <2>2 DEF EdgesThere
<1>9. ASSUME ~M.raw PROVE VectorsThere(M2, P)
  <2>0. VectorsThere(M, {})
    BY <1>1, <1>9 DEF Fresh
  <2>. QED BY <1>2, <2>0 DEF VectorsThere
<1>10. Merged(M2, d)
  <2>1. ASSUME NEW s \in SchemasOf(d)
        PROVE  /\ s \in DOMAIN M2.schemas /\ M2.schemas[s].docs # <<>>
               /\ FirstSource(d, s) = M2.schemas[s].docs[1]
    <3>1. IntentApplies(M, d, s, Intent(d, s, plan[d].schemas))
      BY DEF ValidMerges
    <3>2. /\ s \in DOMAIN M2.schemas
          /\ M2.schemas[s] = MergedSchema(M, d, s, Intent(d, s, plan[d].schemas))
      BY <1>2
    <3>. QED BY <1>1, <3>1, <3>2, MergedSchemaIs
  <2>2. d \in M2.live /\ \A f \in FactsSent(d) : f \in DOMAIN M2.facts
    BY <1>2
  <2>. QED BY <2>1, <2>2 DEF Merged
<1>. QED BY <1>2, <1>5, <1>6, <1>7, <1>8, <1>9, <1>10 DEF Fresh, P

-----------------------------------------------------------------------------
(* A job's other requests. *)

\* upsert_nodes, part by part: schema nodes are hydrated from the store.
LEMMA NodesIs ==
    ASSUME NEW M, Coherent(M), NEW d \in Doc, Planned(d), Merged(M, d),
           NEW M2, M2 = UpsertNodes(M, d)
    PROVE  /\ M2 \in StateRec
           /\ M2.passages = M.passages /\ M2.live = M.live /\ M2.facts = M.facts
           /\ M2.active = M.active /\ M2.schemas = M.schemas /\ M2.edges = M.edges
           /\ M2.vectors = M.vectors /\ M2.values = M.values /\ M2.lexical = M.lexical
           /\ M2.raw = M.raw
           /\ DOMAIN M2.nodes = DOMAIN M.nodes \union Pending(d)
           /\ \A n \in DOMAIN M.nodes : n \notin Pending(d) => M2.nodes[n] = M.nodes[n]
           /\ \A n \in Pending(d) :
                /\ n[1] = "passage"  => M2.nodes[n] = [docs |-> <<d>>] /\ n[2] = d
                /\ n[1] = "entity"   => M2.nodes[n] = [docs |-> <<>>]
                /\ n[1] = "fact"     => M2.nodes[n] = M.facts[n[2]] /\ n[2] \in FactsSent(d)
                /\ n[1] = "ontology" => M2.nodes[n] = M.schemas[n[2]] /\ n[2] \in SchemasOf(d)
<1> DEFINE P      == Pending(d)
           ref(n) == CASE n[1] = "passage"  -> [docs |-> <<d>>]
                       [] n[1] = "entity"   -> [docs |-> <<>>]
                       [] n[1] = "fact"     -> M.facts[n[2]]
                       [] n[1] = "ontology" -> M.schemas[n[2]]
           g      == [n \in P |-> ref(n)]
<1>1. M \in StateRec
  BY DEF Coherent
<1>2. M2 = [M EXCEPT !.nodes = Put(M.nodes, g)]
  <2>1. ({<<"passage", d>>} \union ({"fact"} \X FactsSent(d))
            \union ({"entity"} \X Mentioned(FactsSent(d)))) \union ({"ontology"} \X SchemasOf(d)) = P
    BY DEF Pending
  <2>. QED BY <2>1 DEF UpsertNodes
<1>3. ASSUME NEW n \in P
      PROVE  /\ n[1] = "passage"  => g[n] = [docs |-> <<d>>] /\ n[2] = d
             /\ n[1] = "entity"   => g[n] = [docs |-> <<>>]
             /\ n[1] = "fact"     => g[n] = M.facts[n[2]] /\ n[2] \in FactsSent(d)
             /\ n[1] = "ontology" => g[n] = M.schemas[n[2]] /\ n[2] \in SchemasOf(d)
             /\ g[n] \in NodeRec
  <2>1. n \in NodeId
    BY PendingIs
  <2>2. n = <<n[1], n[2]>> /\ n[1] \in {"passage", "fact", "ontology", "entity"}
    BY <2>1, NodeIdIs
  <2>3. g[n] = ref(n)
    OBVIOUS
  <2> HIDE DEF g
  <2>4. CASE n[1] = "passage"
    <3>1. g[n] = [docs |-> <<d>>]
      BY <2>3, <2>4
    <3>2. n[2] = d
      BY <2>2, <2>4, PendingIs
    <3>3. <<d>> \in Sources
      BY SourcesFew
    <3>4. g[n] \in NodeRec
      BY <3>1, <3>3 DEF NodeRec
    <3>. QED BY <2>4, <3>1, <3>2, <3>4
  <2>5. CASE n[1] = "entity"
    <3>1. g[n] = [docs |-> <<>>]
      BY <2>3, <2>5
    <3>3. <<>> \in Sources
      BY SourcesFew
    <3>4. g[n] \in NodeRec
      BY <3>1, <3>3 DEF NodeRec
    <3>. QED BY <2>5, <3>1, <3>4
  <2>6. CASE n[1] = "fact"
    <3>1. g[n] = M.facts[n[2]]
      BY <2>3, <2>6
    <3>2. n[2] \in FactsSent(d)
      BY <2>2, <2>6, PendingIs
    <3>3. n[2] \in DOMAIN M.facts
      BY <3>2 DEF Merged
    <3>4. g[n] \in NodeRec
      BY <1>1, <3>1, <3>3, StateIs DEF NodeRec
    <3>. QED BY <2>6, <3>1, <3>2, <3>4
  <2>7. CASE n[1] = "ontology"
    <3>1. g[n] = M.schemas[n[2]]
      BY <2>3, <2>7
    <3>2. n[2] \in SchemasOf(d)
      BY <2>2, <2>7, PendingIs
    <3>3. n[2] \in DOMAIN M.schemas
      BY <3>2 DEF Merged
    <3>4. g[n] \in NodeRec
      BY <1>1, <3>1, <3>3, StateIs DEF NodeRec
    <3>. QED BY <2>7, <3>1, <3>2, <3>4
  <2>. QED BY <2>2, <2>4, <2>5, <2>6, <2>7
<1>4. g \in [P -> NodeRec]
  <2>1. \A n \in P : ref(n) \in NodeRec
    BY <1>3
  <2>. QED BY <2>1
<1>5. g \in Partial(NodeId, NodeRec) /\ DOMAIN g = P
  BY <1>4, PendingIs, PartialIntro
<1> HIDE DEF g
<1>6. Put(M.nodes, g) \in Partial(NodeId, NodeRec)
  BY <1>1, <1>5, StateIs, PartialClosed
<1>7. M2 \in StateRec
  BY <1>1, <1>2, <1>6, StateSet
<1>8. /\ M2.passages = M.passages /\ M2.live = M.live /\ M2.facts = M.facts
      /\ M2.active = M.active /\ M2.schemas = M.schemas /\ M2.edges = M.edges
      /\ M2.vectors = M.vectors /\ M2.values = M.values /\ M2.lexical = M.lexical
      /\ M2.raw = M.raw /\ M2.nodes = Put(M.nodes, g)
  BY <1>1, <1>2 DEF StateRec
<1>9. /\ DOMAIN M2.nodes = DOMAIN M.nodes \union P
      /\ \A n \in P : M2.nodes[n] = g[n]
      /\ \A n \in DOMAIN M.nodes : n \notin P => M2.nodes[n] = M.nodes[n]
  BY <1>5, <1>8 DEF Put
<1>10. \A n \in P : /\ n[1] = "passage"  => M2.nodes[n] = [docs |-> <<d>>] /\ n[2] = d
                    /\ n[1] = "entity"   => M2.nodes[n] = [docs |-> <<>>]
                    /\ n[1] = "fact"     => M2.nodes[n] = M.facts[n[2]] /\ n[2] \in FactsSent(d)
                    /\ n[1] = "ontology" => M2.nodes[n] = M.schemas[n[2]] /\ n[2] \in SchemasOf(d)
  BY <1>3, <1>9
<1>. QED BY <1>7, <1>8, <1>9, <1>10

\* upsert_nodes brings the nodes up to date.
LEMMA NodesStep ==
    ASSUME NEW M, Coherent(M), NEW d \in Doc, Planned(d), Merged(M, d),
           Fresh(M, Pending(d), Pending(d), Pending(d)),
           NEW M2, M2 = UpsertNodes(M, d)
    PROVE  /\ Coherent(M2) /\ Fresh(M2, {}, Pending(d), Pending(d)) /\ Merged(M2, d)
           /\ Pending(d) \subseteq DOMAIN M2.nodes
<1> DEFINE P == Pending(d)
<1>1. /\ M \in StateRec /\ Shapes(M) /\ Grounded(M) /\ Supported(M) /\ LiveOnly(M) /\ Closed(M)
  BY DEF Coherent
<1>2. /\ M2 \in StateRec
      /\ M2.passages = M.passages /\ M2.live = M.live /\ M2.facts = M.facts
      /\ M2.active = M.active /\ M2.schemas = M.schemas /\ M2.edges = M.edges
      /\ M2.vectors = M.vectors /\ M2.values = M.values /\ M2.lexical = M.lexical
      /\ M2.raw = M.raw
      /\ DOMAIN M2.nodes = DOMAIN M.nodes \union Pending(d)
      /\ \A n \in DOMAIN M.nodes : n \notin Pending(d) => M2.nodes[n] = M.nodes[n]
      /\ \A n \in Pending(d) :
           /\ n[1] = "passage"  => M2.nodes[n] = [docs |-> <<d>>] /\ n[2] = d
           /\ n[1] = "entity"   => M2.nodes[n] = [docs |-> <<>>]
           /\ n[1] = "fact"     => M2.nodes[n] = M.facts[n[2]] /\ n[2] \in FactsSent(d)
           /\ n[1] = "ontology" => M2.nodes[n] = M.schemas[n[2]] /\ n[2] \in SchemasOf(d)
  BY NodesIs
<1>3. /\ DOMAIN M2.nodes = DOMAIN M.nodes \union P
      /\ \A n \in DOMAIN M.nodes : n \notin P => M2.nodes[n] = M.nodes[n]
  BY <1>2
<1>4. ASSUME NEW n \in P
      PROVE  /\ n[1] = "passage"  => M2.nodes[n] = [docs |-> <<d>>] /\ n[2] = d
             /\ n[1] = "entity"   => M2.nodes[n] = [docs |-> <<>>]
             /\ n[1] = "fact"     => M2.nodes[n] = M.facts[n[2]] /\ n[2] \in FactsSent(d)
             /\ n[1] = "ontology" => M2.nodes[n] = M.schemas[n[2]] /\ n[2] \in SchemasOf(d)
  BY <1>2
<1>5. /\ \A x : <<"passage", x>> \in P <=> x = d
      /\ \A x : <<"fact", x>> \in P <=> x \in FactsSent(d)
      /\ \A x : <<"ontology", x>> \in P <=> x \in SchemasOf(d)
      /\ \A x : <<"entity", x>> \in P <=> x \in Mentioned(FactsSent(d))
      /\ P \subseteq NodeId
  BY PendingIs
<1>6. /\ d \in M.live /\ \A f \in FactsSent(d) : f \in DOMAIN M.facts
      /\ \A s \in SchemasOf(d) : s \in DOMAIN M.schemas /\ M.schemas[s].docs # <<>>
  BY DEF Merged
<1>7. /\ \A f \in DOMAIN M.facts : M.facts[f] \in FactRec
      /\ \A s \in DOMAIN M.schemas : M.schemas[s] \in SchemaRec
  BY <1>1, StateIs
<1> HIDE DEF P
<1>8. Shapes(M2)
  <2>1. ASSUME NEW n \in DOMAIN M2.nodes
        PROVE  /\ n[1] = "passage"  => M2.nodes[n].docs = <<n[2]>>
               /\ n[1] = "entity"   => M2.nodes[n].docs = <<>>
               /\ n[1] = "fact"     => M2.nodes[n] \in FactRec
               /\ n[1] = "ontology" => M2.nodes[n] \in SchemaRec
    <3>1. CASE n \in P
      <4>1. n[1] = "passage" => M2.nodes[n].docs = <<n[2]>>
        BY <1>4, <3>1
      <4>2. n[1] = "entity" => M2.nodes[n].docs = <<>>
        BY <1>4, <3>1
      <4>3. n[1] = "fact" => M2.nodes[n] \in FactRec
        BY <1>4, <1>6, <1>7, <3>1
      <4>4. n[1] = "ontology" => M2.nodes[n] \in SchemaRec
        BY <1>4, <1>6, <1>7, <3>1
      <4>. QED BY <4>1, <4>2, <4>3, <4>4
    <3>2. CASE n \notin P
      BY <1>1, <1>3, <3>2 DEF Shapes
    <3>. QED BY <3>1, <3>2
  <2>2. \A n \in DOMAIN M2.vectors : n[1] # "entity" /\ (n[1] = "passage" => M2.vectors[n] = n[2])
    BY <1>1, <1>2 DEF Shapes
  <2>. QED BY <2>1, <2>2 DEF Shapes
<1>9. LiveOnly(M2)
  <2>1. ASSUME NEW n \in DOMAIN M2.nodes PROVE ToSet(M2.nodes[n].docs) \subseteq M2.live
    <3>1. CASE n \in P
      <4>0. n[1] \in {"passage", "fact", "ontology", "entity"}
        BY <1>5, <3>1, NodeIdIs
      <4>1. CASE n[1] = "passage"
        <5>1. M2.nodes[n].docs = <<d>>
          BY <1>4, <3>1, <4>1
        <5>. QED BY <1>2, <1>6, <5>1, SourcesFew
      <4>2. CASE n[1] = "entity"
        <5>1. M2.nodes[n].docs = <<>>
          BY <1>4, <3>1, <4>2
        <5>. QED BY <5>1, SourcesFew
      <4>3. CASE n[1] = "fact"
        BY <1>1, <1>2, <1>4, <1>6, <3>1, <4>3 DEF LiveOnly
      <4>4. CASE n[1] = "ontology"
        BY <1>1, <1>2, <1>4, <1>6, <3>1, <4>4 DEF LiveOnly
      <4>. QED BY <4>0, <4>1, <4>2, <4>3, <4>4
    <3>2. CASE n \notin P
      BY <1>1, <1>2, <1>3, <3>2 DEF LiveOnly
    <3>. QED BY <3>1, <3>2
  <2>. QED BY <1>1, <1>2, <2>1 DEF LiveOnly
<1>10. Grounded(M2) /\ Supported(M2)
  <2>1. /\ M2.facts = M.facts /\ M2.schemas = M.schemas
        /\ M2.passages = M.passages /\ M2.active = M.active
    BY <1>2
  <2>2. Grounded(M2)
    BY <1>1, <2>1 DEF Grounded
  <2>3. Supported(M2)
    BY <1>1, <2>1 DEF Supported
  <2>. QED BY <2>2, <2>3
<1>11. Closed(M2)
  BY <1>1, <1>2, <1>3 DEF Closed
<1>12. NodesCopied(M2, {})
  <2>1. ASSUME NEW n \in DOMAIN M2.nodes
        PROVE  /\ n[1] = "fact"     => n[2] \in DOMAIN M2.facts /\ M2.nodes[n] = M2.facts[n[2]]
               /\ n[1] = "ontology" => n[2] \in DOMAIN M2.schemas /\ M2.nodes[n] = M2.schemas[n[2]]
    <3>1. CASE n \in P
      BY <1>2, <1>4, <1>6, <3>1
    <3>2. CASE n \notin P
      <4>1. n \in DOMAIN M.nodes \ Pending(d)
        BY <1>3, <3>2 DEF P
      <4>. QED BY <1>2, <1>3, <3>2, <4>1 DEF Fresh, NodesCopied
    <3>. QED BY <3>1, <3>2
  <2>. QED BY <2>1 DEF NodesCopied
<1>13. VectorsNamed(M2, P)
  BY <1>2 DEF Fresh, VectorsNamed, P
<1>14. ASSUME ~M.raw PROVE NodesThere(M2, {})
  <2>0. NodesThere(M, P)
    BY <1>14 DEF Fresh, P
  <2>1. \A x \in M2.passages : <<"passage", x>> \in DOMAIN M2.nodes
    BY <1>2, <1>3, <2>0 DEF NodesThere
  <2>2. ASSUME NEW f \in DOMAIN M2.facts
        PROVE  /\ <<"fact", f>> \in DOMAIN M2.nodes
               /\ <<"entity", Ends[f][1]>> \in DOMAIN M2.nodes
               /\ <<"entity", Ends[f][2]>> \in DOMAIN M2.nodes
    <3>1. CASE f \in FactsSent(d)
      <4>1. Ends[f][1] \in Mentioned(FactsSent(d)) /\ Ends[f][2] \in Mentioned(FactsSent(d))
        BY <3>1, PlannedIs
      <4>. QED BY <1>3, <1>5, <3>1, <4>1
    <3>2. CASE f \notin FactsSent(d)
      BY <1>2, <1>3, <1>5, <2>0, <3>2 DEF NodesThere
    <3>. QED BY <3>1, <3>2
  <2>3. ASSUME NEW s \in DOMAIN M2.schemas
        PROVE  M2.schemas[s].docs # <<>> <=> <<"ontology", s>> \in DOMAIN M2.nodes
    <3>1. CASE s \in SchemasOf(d)
      BY <1>2, <1>3, <1>5, <1>6, <3>1
    <3>2. CASE s \notin SchemasOf(d)
      <4>1. <<"ontology", s>> \notin P
        BY <1>5, <3>2
      <4>. QED BY <1>2, <1>3, <2>0, <4>1 DEF NodesThere
    <3>. QED BY <3>1, <3>2
  <2>. QED BY <2>1, <2>2, <2>3 DEF NodesThere
<1>15. ASSUME ~M.raw PROVE EdgesThere(M2, P)
  <2>0. EdgesThere(M, P)
    BY <1>15 DEF Fresh, P
  <2>1. \A n \in DOMAIN M2.nodes \ P : n \in DOMAIN M.nodes \ P
    BY <1>3
  <2>. QED BY <1>2, <2>0, <2>1 DEF EdgesThere
<1>16. ASSUME ~M.raw PROVE VectorsThere(M2, P)
  <2>0. VectorsThere(M, P)
    BY <1>16 DEF Fresh, P
  <2>1. \A n \in DOMAIN M2.nodes \ P : n \in DOMAIN M.nodes \ P
    BY <1>3
  <2>2. DOMAIN M2.vectors \subseteq DOMAIN M2.nodes
    BY <1>2, <1>3, <2>0 DEF VectorsThere
  <2>. QED BY <1>2, <2>0, <2>1, <2>2 DEF VectorsThere
<1>17. Fresh(M2, {}, P, P)
  BY <1>2, <1>12, <1>13, <1>14, <1>15, <1>16 DEF Fresh
<1>18. Merged(M2, d)
  BY <1>2 DEF Merged
<1>19. P \subseteq DOMAIN M2.nodes
  BY <1>3
<1>. QED BY <1>2, <1>8, <1>9, <1>10, <1>11, <1>17, <1>18, <1>19 DEF Coherent, P

\* The edges a job sends are among those it may send, join nodes it has sent,
\* and hold a co-occurrence for each of its facts.
LEMMA EdgesSentAre ==
    ASSUME NEW d \in Doc, Planned(d)
    PROVE  /\ EdgesSent(d, FactsSent(d)) \subseteq EdgeKey
           /\ \A e \in EdgesSent(d, FactsSent(d)) : e.from \in Pending(d) /\ e.to \in Pending(d)
           /\ \A f \in FactsSent(d) : Cooccurrence(f) \in EdgesSent(d, FactsSent(d))
<1>1. /\ FactsSent(d) \subseteq Contributes[d] /\ Evidence[d] \subseteq FactsSent(d)
      /\ \A f \in FactsSent(d) : /\ SchemaOf[f] \in SchemasOf(d)
                                 /\ Ends[f][1] \in Mentioned(FactsSent(d))
                                 /\ Ends[f][2] \in Mentioned(FactsSent(d))
  BY PlannedIs
<1>2. EdgesSent(d, FactsSent(d)) \subseteq EdgeKey
  <2>1. EdgesSent(d, FactsSent(d)) \subseteq EdgesSent(d, Contributes[d])
    BY <1>1 DEF EdgesSent
  <2>. QED BY <2>1 DEF EdgeKey
<1>3. ASSUME NEW e \in EdgesSent(d, FactsSent(d)) PROVE e.from \in Pending(d) /\ e.to \in Pending(d)
  <2>0. /\ <<"passage", d>> \in Pending(d)
        /\ \A f \in FactsSent(d) : <<"fact", f>> \in Pending(d)
        /\ \A s \in SchemasOf(d) : <<"ontology", s>> \in Pending(d)
        /\ \A x \in Mentioned(FactsSent(d)) : <<"entity", x>> \in Pending(d)
    BY PendingIs
  <2>1. CASE \E x \in Mentioned(Evidence[d]) :
             e = Link("entity_mention", <<"entity", x>>, <<"passage", d>>, None)
    <3>1. Mentioned(Evidence[d]) \subseteq Mentioned(FactsSent(d))
      BY <1>1 DEF Mentioned
    <3>. QED BY <2>0, <2>1, <3>1 DEF Link
  <2>2. CASE \E f \in Evidence[d] : e = Link("fact_evidence", <<"fact", f>>, <<"passage", d>>, None)
    BY <1>1, <2>0, <2>2 DEF Link
  <2>3. CASE \E f \in FactsSent(d) :
             e = Link("schema_instance", <<"ontology", SchemaOf[f]>>, <<"fact", f>>, None)
    BY <1>1, <2>0, <2>3 DEF Link
  <2>4. CASE \E f \in FactsSent(d) :
             e = Link("entity_cooccurrence", <<"entity", Ends[f][1]>>, <<"entity", Ends[f][2]>>, f)
    BY <1>1, <2>0, <2>4 DEF Link
  <2>. QED BY <2>1, <2>2, <2>3, <2>4 DEF EdgesSent
<1>4. \A f \in FactsSent(d) : Cooccurrence(f) \in EdgesSent(d, FactsSent(d))
  BY DEF EdgesSent, Cooccurrence
<1>. QED BY <1>2, <1>3, <1>4

\* The edges follow the nodes.
LEMMA EdgesStep ==
    ASSUME NEW M, Coherent(M), NEW d \in Doc, Planned(d), Merged(M, d),
           Fresh(M, {}, Pending(d), Pending(d)), Pending(d) \subseteq DOMAIN M.nodes,
           NEW M2, M2 = UpsertEdges(M, d)
    PROVE  /\ Coherent(M2) /\ Fresh(M2, {}, {}, Pending(d)) /\ Merged(M2, d)
           /\ Pending(d) \subseteq DOMAIN M2.nodes
<1> DEFINE P == Pending(d)
           N == EdgesSent(d, FactsSent(d))
<1>1. /\ M \in StateRec /\ Shapes(M) /\ Grounded(M) /\ Supported(M) /\ LiveOnly(M) /\ Closed(M)
  BY DEF Coherent
<1>2. M2 = [M EXCEPT !.edges = M.edges \union N]
  BY DEF UpsertEdges
<1>3. /\ N \subseteq EdgeKey
      /\ \A e \in N : e.from \in P /\ e.to \in P
      /\ \A f \in FactsSent(d) : Cooccurrence(f) \in N
  BY EdgesSentAre
<1>4. /\ \A x : <<"fact", x>> \in P <=> x \in FactsSent(d)
      /\ \A x : <<"entity", x>> \in P <=> x \in Mentioned(FactsSent(d))
      /\ P \subseteq NodeId
  BY PendingIs
<1> HIDE DEF P, N
<1>5. M2 \in StateRec
  <2>1. M.edges \union N \in SUBSET EdgeKey
    BY <1>1, <1>3, StateIs
  <2>. QED BY <1>1, <1>2, <2>1, StateSet
<1>6. /\ M2.passages = M.passages /\ M2.live = M.live /\ M2.facts = M.facts
      /\ M2.active = M.active /\ M2.schemas = M.schemas /\ M2.nodes = M.nodes
      /\ M2.vectors = M.vectors /\ M2.values = M.values /\ M2.lexical = M.lexical
      /\ M2.raw = M.raw /\ M2.edges = M.edges \union N
  BY <1>1, <1>2 DEF StateRec
<1>7. Shapes(M2) /\ Grounded(M2) /\ Supported(M2) /\ LiveOnly(M2)
  <2>1. Shapes(M2)
    BY <1>1, <1>6 DEF Shapes
  <2>2. Grounded(M2)
    BY <1>1, <1>6 DEF Grounded
  <2>3. Supported(M2)
    BY <1>1, <1>6 DEF Supported
  <2>4. LiveOnly(M2)
    BY <1>1, <1>6 DEF LiveOnly
  <2>. QED BY <2>1, <2>2, <2>3, <2>4
<1>8. Closed(M2)
  BY <1>1, <1>3, <1>6 DEF Closed, P
<1>9. NodesCopied(M2, {}) /\ VectorsNamed(M2, P)
  BY <1>6 DEF Fresh, NodesCopied, VectorsNamed, P
<1>10. ASSUME ~M.raw PROVE NodesThere(M2, {}) /\ VectorsThere(M2, P)
  BY <1>6, <1>10 DEF Fresh, NodesThere, VectorsThere, P
<1>11. ASSUME ~M.raw PROVE EdgesThere(M2, {})
  <2>0. EdgesThere(M, P)
    BY <1>11 DEF Fresh, P
  <2>1. \A f \in DOMAIN M2.facts : Cooccurrence(f) \in M2.edges
    BY <1>3, <1>4, <1>6, <2>0 DEF EdgesThere
  <2>2. ASSUME NEW n \in DOMAIN M2.nodes, n[1] = "entity"
        PROVE  \E e \in M2.edges : (e.from = n \/ e.to = n) /\ e.rel \in Holding
    <3>1. CASE n \notin P
      BY <1>6, <2>0, <2>2, <3>1 DEF EdgesThere
    <3>2. CASE n \in P
      <4>1. n = <<"entity", n[2]>>
        BY <1>4, <2>2, <3>2, NodeIdIs
      <4>2. n[2] \in Mentioned(FactsSent(d))
        BY <1>4, <3>2, <4>1
      <4>3. PICK f \in FactsSent(d) : n[2] = Ends[f][1] \/ n[2] = Ends[f][2]
        BY <4>2 DEF Mentioned
      <4>4. /\ Cooccurrence(f) \in M2.edges /\ Cooccurrence(f).rel \in Holding
            /\ Cooccurrence(f).from = <<"entity", Ends[f][1]>>
            /\ Cooccurrence(f).to = <<"entity", Ends[f][2]>>
        BY <1>3, <1>6 DEF Cooccurrence, Link, Holding
      <4>. QED BY <4>1, <4>3, <4>4
    <3>. QED BY <3>1, <3>2
  <2>. QED BY <2>1, <2>2 DEF EdgesThere
<1>12. Fresh(M2, {}, {}, P)
  BY <1>6, <1>9, <1>10, <1>11 DEF Fresh
<1>13. Merged(M2, d) /\ P \subseteq DOMAIN M2.nodes
  BY <1>6 DEF Merged, P
<1>. QED BY <1>5, <1>7, <1>8, <1>12, <1>13 DEF Coherent, P


\* The owner of every vector a job sends.
SentVectors(d) == {<<"passage", d>>} \union ({"fact"} \X FactsSent(d))
                    \union ({"ontology"} \X SchemasOf(d))
Owner(M, d) ==
    [n \in SentVectors(d) |-> CASE n[1] = "passage"  -> d
                               [] n[1] = "fact"     -> M.facts[n[2]].docs[1]
                               [] n[1] = "ontology" -> FirstSource(d, n[2])]

\* The owners vector_upsert gives: the first sources, also for a schema.
LEMMA OwnerIs ==
    ASSUME NEW M, Coherent(M), NEW d \in Doc, Merged(M, d),
           NEW M2, M2 = VectorUpsert(M, d), NEW owner, owner = Owner(M, d)
    PROVE  /\ DOMAIN owner = SentVectors(d)
           /\ owner[<<"passage", d>>] = d
           /\ \A f \in FactsSent(d) : owner[<<"fact", f>>] = M.facts[f].docs[1]
           /\ \A s \in SchemasOf(d) : owner[<<"ontology", s>>] = M.schemas[s].docs[1]
           /\ M2.vectors = Put(M.vectors, owner) /\ M2.values = M.values \union DOMAIN owner
<1>0. owner = [n \in SentVectors(d) |-> CASE n[1] = "passage"  -> d
                                         [] n[1] = "fact"     -> M.facts[n[2]].docs[1]
                                         [] n[1] = "ontology" -> FirstSource(d, n[2])]
  BY DEF Owner
<1>1. M2 = [M EXCEPT !.vectors = Put(M.vectors, owner), !.values = M.values \union DOMAIN owner]
  BY DEF VectorUpsert, Owner, SentVectors
<1>2. DOMAIN owner = SentVectors(d)
  BY <1>0
<1>3. owner[<<"passage", d>>] = d
  <2>1. <<"passage", d>> \in SentVectors(d) /\ <<"passage", d>>[1] = "passage"
    BY DEF SentVectors
  <2>. QED BY <1>0, <2>1
<1>4. ASSUME NEW f \in FactsSent(d) PROVE owner[<<"fact", f>>] = M.facts[f].docs[1]
  <2>1. <<"fact", f>> \in SentVectors(d) /\ <<"fact", f>>[1] = "fact" /\ <<"fact", f>>[2] = f
    BY DEF SentVectors
  <2>. QED BY <1>0, <2>1
<1>5. ASSUME NEW s \in SchemasOf(d) PROVE owner[<<"ontology", s>>] = M.schemas[s].docs[1]
  <2>1. /\ <<"ontology", s>> \in SentVectors(d)
        /\ <<"ontology", s>>[1] = "ontology" /\ <<"ontology", s>>[2] = s
    BY DEF SentVectors
  <2>2. FirstSource(d, s) = M.schemas[s].docs[1]
    BY DEF Merged
  <2>3. owner[<<"ontology", s>>] = FirstSource(d, s)
    BY <1>0, <2>1
  <2>. QED BY <2>2, <2>3
<1>6. M \in StateRec
  BY DEF Coherent
<1>7. M2.vectors = Put(M.vectors, owner) /\ M2.values = M.values \union DOMAIN owner
  BY <1>1, <1>6 DEF StateRec
<1>. QED BY <1>2, <1>3, <1>4, <1>5, <1>7

\* The vectors name the first sources as they are now.
LEMMA VectorsStep ==
    ASSUME NEW M, Coherent(M), NEW d \in Doc, Planned(d), Merged(M, d),
           Fresh(M, {}, {}, Pending(d)), Pending(d) \subseteq DOMAIN M.nodes,
           NEW M2, M2 = VectorUpsert(M, d)
    PROVE  /\ Settled(M2) /\ Merged(M2, d) /\ Pending(d) \subseteq DOMAIN M2.nodes
<1> DEFINE P == Pending(d)
           D == SentVectors(d)
           owner == Owner(M, d)
<1>1. /\ M \in StateRec /\ Shapes(M) /\ Grounded(M) /\ Supported(M) /\ LiveOnly(M) /\ Closed(M)
  BY DEF Coherent
<1>2. /\ DOMAIN owner = D
      /\ owner[<<"passage", d>>] = d
      /\ \A f \in FactsSent(d) : owner[<<"fact", f>>] = M.facts[f].docs[1]
      /\ \A s \in SchemasOf(d) : owner[<<"ontology", s>>] = M.schemas[s].docs[1]
      /\ M2.vectors = Put(M.vectors, owner) /\ M2.values = M.values \union DOMAIN owner
  BY OwnerIs
<1>3. /\ \A x : <<"passage", x>> \in P <=> x = d
      /\ \A x : <<"fact", x>> \in P <=> x \in FactsSent(d)
      /\ \A x : <<"ontology", x>> \in P <=> x \in SchemasOf(d)
      /\ P \subseteq NodeId
  BY PendingIs
<1>4. /\ D \subseteq P
      /\ \A n \in P : n[1] # "entity" => n \in D
      /\ \A n \in D : \/ n = <<"passage", d>>
                      \/ \E f \in FactsSent(d) : n = <<"fact", f>>
                      \/ \E s \in SchemasOf(d) : n = <<"ontology", s>>
  BY DEF Pending, SentVectors
<1>5. /\ d \in M.live /\ \A f \in FactsSent(d) : f \in DOMAIN M.facts
      /\ \A s \in SchemasOf(d) : s \in DOMAIN M.schemas /\ M.schemas[s].docs # <<>>
  BY DEF Merged
<1> HIDE DEF P, D, owner
<1>6. /\ M2 = [M EXCEPT !.vectors = M2.vectors, !.values = M2.values]
      /\ M2.passages = M.passages /\ M2.live = M.live /\ M2.facts = M.facts
      /\ M2.active = M.active /\ M2.schemas = M.schemas /\ M2.nodes = M.nodes
      /\ M2.edges = M.edges /\ M2.lexical = M.lexical /\ M2.raw = M.raw
      /\ M2.vectors = Put(M.vectors, owner) /\ M2.values = M.values \union D
  <2>1. M2 = [M EXCEPT !.vectors = M2.vectors, !.values = M2.values]
    BY <1>1 DEF VectorUpsert, StateRec
  <2>. QED BY <1>1, <1>2, <2>1 DEF StateRec
<1>7. /\ DOMAIN M2.vectors = DOMAIN M.vectors \union D
      /\ \A n \in D : M2.vectors[n] = owner[n]
      /\ \A n \in DOMAIN M.vectors : n \notin D => M2.vectors[n] = M.vectors[n]
  BY <1>2, <1>6 DEF Put
<1>8. ASSUME NEW n \in D
      PROVE  /\ n \in NodeId /\ n[1] # "entity" /\ owner[n] \in M.live
             /\ n[1] = "passage"  => n[2] = d /\ owner[n] = d
             /\ n[1] = "fact"     => n[2] \in FactsSent(d) /\ owner[n] = M.facts[n[2]].docs[1]
             /\ n[1] = "ontology" => n[2] \in SchemasOf(d) /\ owner[n] = M.schemas[n[2]].docs[1]
  <2>0. n \in NodeId
    BY <1>3, <1>4
  <2>1. CASE n = <<"passage", d>>
    BY <1>2, <1>5, <2>0, <2>1
  <2>2. CASE \E f \in FactsSent(d) : n = <<"fact", f>>
    <3>1. PICK f \in FactsSent(d) : n = <<"fact", f>>
      BY <2>2
    <3>2. owner[n] = M.facts[f].docs[1] /\ f \in DOMAIN M.facts
      BY <1>2, <1>5, <3>1
    <3>3. M.facts[f].docs \in Sources /\ M.facts[f].docs # <<>>
      BY <1>1, <3>2, StateIs DEF Grounded
    <3>4. M.facts[f].docs[1] \in ToSet(M.facts[f].docs)
      BY <3>3, SourcesAre
    <3>5. M.facts[f].docs[1] \in M.live
      BY <1>1, <3>2, <3>4 DEF LiveOnly
    <3>. QED BY <2>0, <3>1, <3>2, <3>5
  <2>3. CASE \E s \in SchemasOf(d) : n = <<"ontology", s>>
    <3>1. PICK s \in SchemasOf(d) : n = <<"ontology", s>>
      BY <2>3
    <3>2. owner[n] = M.schemas[s].docs[1] /\ s \in DOMAIN M.schemas /\ M.schemas[s].docs # <<>>
      BY <1>2, <1>5, <3>1
    <3>3. M.schemas[s].docs \in Sources
      BY <1>1, <3>2, StateIs
    <3>4. M.schemas[s].docs[1] \in ToSet(M.schemas[s].docs)
      BY <3>2, <3>3, SourcesAre
    <3>5. M.schemas[s].docs[1] \in M.live
      BY <1>1, <3>2, <3>4 DEF LiveOnly
    <3>. QED BY <2>0, <3>1, <3>2, <3>5
  <2>. QED BY <1>4, <2>1, <2>2, <2>3
<1>9. M2 \in StateRec
  <2>1. M.live \subseteq Doc /\ M.values \union D \in SUBSET NodeId
    BY <1>1, <1>8, StateIs
  <2>2. M2.vectors \in Partial(NodeId, Doc)
    <3>1. DOMAIN M.vectors \subseteq NodeId /\ \A n \in DOMAIN M.vectors : M.vectors[n] \in Doc
      BY <1>1, StateIs
    <3>2. DOMAIN M2.vectors \subseteq NodeId /\ \A n \in DOMAIN M2.vectors : M2.vectors[n] \in Doc
      BY <1>7, <1>8, <2>1, <3>1
    <3>3. M2.vectors = [n \in DOMAIN M2.vectors |-> M2.vectors[n]]
      BY <1>6 DEF Put
    <3>. QED BY <3>2, <3>3 DEF Partial
  <2> DEFINE A == [M EXCEPT !.vectors = M2.vectors]
  <2>3. A \in StateRec
    BY <1>1, <2>2, StateSet
  <2>4. M2 = [A EXCEPT !.values = M.values \union D]
    BY <1>1, <1>6 DEF StateRec
  <2> HIDE DEF A
  <2>. QED BY <2>1, <2>3, <2>4, StateSet
<1>10. Shapes(M2)
  <2>1. \A n \in DOMAIN M2.nodes :
         /\ n[1] = "passage"  => M2.nodes[n].docs = <<n[2]>>
         /\ n[1] = "entity"   => M2.nodes[n].docs = <<>>
         /\ n[1] = "fact"     => M2.nodes[n] \in FactRec
         /\ n[1] = "ontology" => M2.nodes[n] \in SchemaRec
    BY <1>1, <1>6 DEF Shapes
  <2>2. \A n \in DOMAIN M2.vectors : n[1] # "entity" /\ (n[1] = "passage" => M2.vectors[n] = n[2])
    BY <1>1, <1>7, <1>8 DEF Shapes
  <2>. QED BY <2>1, <2>2 DEF Shapes
<1>11. Grounded(M2) /\ Supported(M2)
  <2>1. /\ M2.facts = M.facts /\ M2.schemas = M.schemas
        /\ M2.passages = M.passages /\ M2.active = M.active
    BY <1>6
  <2>2. Grounded(M2)
    BY <1>1, <2>1 DEF Grounded
  <2>3. Supported(M2)
    BY <1>1, <2>1 DEF Supported
  <2>. QED BY <2>2, <2>3
<1>12. LiveOnly(M2)
  <2>1. \A n \in DOMAIN M2.vectors : M2.vectors[n] \in M2.live
    BY <1>1, <1>6, <1>7, <1>8 DEF LiveOnly
  <2>. QED BY <1>1, <1>6, <2>1 DEF LiveOnly
<1>13. Closed(M2)
  BY <1>1, <1>6, <1>7 DEF Closed
<1>14. NodesCopied(M2, {})
  BY <1>6 DEF Fresh, NodesCopied
<1>15. VectorsNamed(M2, {})
  <2>1. ASSUME NEW n \in DOMAIN M2.vectors
        PROVE  /\ n[1] = "fact" /\ n[2] \in DOMAIN M2.facts => M2.vectors[n] = M2.facts[n[2]].docs[1]
               /\ n[1] = "ontology" => /\ n[2] \in DOMAIN M2.schemas
                                       /\ M2.schemas[n[2]].docs # <<>>
                                       /\ M2.vectors[n] = M2.schemas[n[2]].docs[1]
    <3>1. CASE n \in D
      BY <1>5, <1>6, <1>7, <1>8, <3>1
    <3>2. CASE n \notin D
      <4>1. n \in DOMAIN M.vectors /\ M2.vectors[n] = M.vectors[n]
        BY <1>7, <3>2
      <4>2. n \notin P
        BY <1>1, <1>4, <3>2, <4>1 DEF Shapes
      <4>3. VectorsNamed(M, P)
        BY DEF Fresh, P
      <4>. QED BY <1>6, <4>1, <4>2, <4>3 DEF VectorsNamed
    <3>. QED BY <3>1, <3>2
  <2>. QED BY <2>1 DEF VectorsNamed
<1>16. ASSUME ~M.raw PROVE NodesThere(M2, {}) /\ EdgesThere(M2, {})
  <2>1. NodesThere(M, {}) /\ EdgesThere(M, {})
    BY <1>16 DEF Fresh
  <2>2. NodesThere(M2, {})
    BY <1>6, <2>1 DEF NodesThere
  <2>3. EdgesThere(M2, {})
    BY <1>6, <2>1 DEF EdgesThere
  <2>. QED BY <2>2, <2>3
<1>17. ASSUME ~M.raw PROVE VectorsThere(M2, {})
  <2>1. VectorsThere(M, P)
    BY <1>17 DEF Fresh, P
  <2>2. DOMAIN M2.vectors \subseteq DOMAIN M2.nodes
    BY <1>4, <1>6, <1>7, <2>1 DEF VectorsThere, P
  <2>3. \A n \in DOMAIN M2.nodes : n[1] # "entity" => n \in DOMAIN M2.vectors
    BY <1>4, <1>6, <1>7, <2>1 DEF VectorsThere
  <2>. QED BY <2>2, <2>3 DEF VectorsThere
<1>18. Fresh(M2, {}, {}, {})
  BY <1>6, <1>14, <1>15, <1>16, <1>17 DEF Fresh
<1>19. Merged(M2, d) /\ P \subseteq DOMAIN M2.nodes
  BY <1>6 DEF Merged, P
<1>. QED BY <1>9, <1>10, <1>11, <1>12, <1>13, <1>18, <1>19 DEF Settled, Coherent, P

\* A change of active facts, lexical passages or the raw mark leaves the rest
\* of a settled state settled.
LEMMA SettledSame ==
    ASSUME NEW M, Settled(M), NEW M2 \in StateRec,
           M2.passages = M.passages, M2.facts = M.facts, M2.schemas = M.schemas,
           M2.nodes = M.nodes, M2.edges = M.edges, M2.vectors = M.vectors,
           M2.values = M.values, M2.live = M.live,
           M2.active \subseteq DOMAIN M.facts, M2.lexical \subseteq M.live, M.raw => M2.raw
    PROVE  Settled(M2)
<1>1. /\ Shapes(M) /\ Grounded(M) /\ Supported(M) /\ LiveOnly(M) /\ Closed(M)
      /\ NodesCopied(M, {}) /\ VectorsNamed(M, {})
      /\ M.raw \/ (NodesThere(M, {}) /\ EdgesThere(M, {}) /\ VectorsThere(M, {}))
  BY DEF Settled, Coherent, Fresh
<1>2. Shapes(M2)
  BY <1>1 DEF Shapes
<1>3. Grounded(M2)
  BY <1>1 DEF Grounded
<1>4. Supported(M2)
  BY <1>1 DEF Supported
<1>5. LiveOnly(M2)
  BY <1>1 DEF LiveOnly
<1>6. Closed(M2)
  BY <1>1 DEF Closed
<1>7. NodesCopied(M2, {})
  BY <1>1 DEF NodesCopied
<1>8. VectorsNamed(M2, {})
  BY <1>1 DEF VectorsNamed
<1>9. NodesThere(M, {}) => NodesThere(M2, {})
  BY DEF NodesThere
<1>10. EdgesThere(M, {}) => EdgesThere(M2, {})
  BY DEF EdgesThere
<1>11. VectorsThere(M, {}) => VectorsThere(M2, {})
  BY DEF VectorsThere
<1>12. Fresh(M2, {}, {}, {})
  BY <1>1, <1>7, <1>8, <1>9, <1>10, <1>11 DEF Fresh
<1>. QED BY <1>2, <1>3, <1>4, <1>5, <1>6, <1>12 DEF Settled, Coherent

\* The lexical passage is the job's last.
LEMMA LexicalStep ==
    ASSUME NEW M, Settled(M), NEW d \in Doc, d \in M.live, NEW M2, M2 = LexicalIndex(M, d)
    PROVE  Settled(M2)
<1>1. M \in StateRec /\ LiveOnly(M) /\ Grounded(M)
  BY DEF Settled, Coherent
<1>2. M2 = [M EXCEPT !.lexical = M.lexical \union {d}]
  BY DEF LexicalIndex
<1>3. M2 \in StateRec
  <2>1. M.lexical \union {d} \in SUBSET Doc
    BY <1>1, StateIs
  <2>. QED BY <1>1, <1>2, <2>1, StateSet
<1>4. /\ M2.passages = M.passages /\ M2.facts = M.facts /\ M2.schemas = M.schemas
      /\ M2.nodes = M.nodes /\ M2.edges = M.edges /\ M2.vectors = M.vectors
      /\ M2.values = M.values /\ M2.live = M.live /\ M2.active = M.active
      /\ M2.lexical = M.lexical \union {d} /\ M2.raw = M.raw
  BY <1>1, <1>2 DEF StateRec
<1>5. M2.active \subseteq DOMAIN M.facts /\ M2.lexical \subseteq M.live
  BY <1>1, <1>4 DEF Grounded, LiveOnly
<1>. QED BY <1>3, <1>4, <1>5, SettledSame

-----------------------------------------------------------------------------
(* memory_delete_document. *)

\* Facts that only the document's passage grounds, and what the others and the
\* schemas it supports become.
Lost(M, w)          == {f \in DOMAIN M.facts : M.facts[f].passages = {w}}
Backed(M, w)        == {s \in DOMAIN M.schemas : w \in ToSet(M.schemas[s].docs)}
FactLeft(M, w, f)   == PrunedSource(M.facts[f], w, {w})
SchemaLeft(M, w, s) == PruneSchema(M.schemas[s], w, Lost(M, w))

\* The passages removed: the document's own, if it is stored.
LEMMA DeletedPassages ==
    ASSUME NEW M, Settled(M), NEW w \in Doc, NEW P, P = RemovedPassages(M, w)
    PROVE  /\ P \subseteq {w} /\ (w \in M.passages => w \in P)
           /\ \A f \in DOMAIN M.facts :
                /\ M.facts[f].passages \ P = M.facts[f].passages \ {w}
                /\ M.facts[f].passages \subseteq P <=> M.facts[f].passages = {w}
<1>1. M \in StateRec /\ Shapes(M) /\ Grounded(M)
  BY DEF Settled, Coherent
<1>2. w \in M.passages => w \in P
  BY DEF RemovedPassages
<1>3. P \subseteq {w}
  <2>1. ASSUME NEW n \in NamingNodes(M, w), n[1] = "passage" PROVE n[2] = w
    <3>1. n \in DOMAIN M.nodes /\ w \in ToSet(M.nodes[n].docs)
      BY <2>1 DEF NamingNodes, Lists
    <3>2. n \in NodeId /\ M.nodes[n].docs = <<n[2]>>
      BY <1>1, <2>1, <3>1, StateIs DEF Shapes
    <3>3. n[2] \in Doc
      BY <2>1, <3>2, NodeIdIs
    <3>4. ToSet(<<n[2]>>) = {n[2]}
      BY <3>3, SourcesFew
    <3>. QED BY <3>1, <3>2, <3>4
  <2>. QED BY <2>1 DEF RemovedPassages
<1>4. ASSUME NEW f \in DOMAIN M.facts
      PROVE  /\ M.facts[f].passages \ P = M.facts[f].passages \ {w}
             /\ M.facts[f].passages \subseteq P <=> M.facts[f].passages = {w}
  <2>1. M.facts[f].passages # {} /\ M.facts[f].passages \subseteq M.passages
    BY <1>1 DEF Grounded
  <2>. QED BY <1>2, <1>3, <2>1
<1>. QED BY <1>2, <1>3, <1>4

\* A fact goes exactly when the document's passage is its only one; the graph
\* scan finds no other.
LEMMA DeletedFacts ==
    ASSUME NEW M, Settled(M), NEW w \in Doc, NEW P, P = RemovedPassages(M, w)
    PROVE  /\ Lost(M, w) \subseteq TouchedFacts(M, w)
           /\ DroppedFacts(M, w, P) = Lost(M, w) /\ RemovedFacts(M, w, P) = Lost(M, w)
           /\ DOMAIN FactPost(M, w, P) = TouchedFacts(M, w) \ Lost(M, w)
           /\ \A f \in TouchedFacts(M, w) \ Lost(M, w) : FactPost(M, w, P)[f] = FactLeft(M, w, f)
<1>1. M \in StateRec /\ Grounded(M) /\ NodesCopied(M, {})
  BY DEF Settled, Coherent, Fresh
<1>2. \A f \in DOMAIN M.facts :
        /\ M.facts[f].passages \ P = M.facts[f].passages \ {w}
        /\ M.facts[f].passages \subseteq P <=> M.facts[f].passages = {w}
  BY DeletedPassages
<1>3. \A f \in DOMAIN M.facts : /\ M.facts[f].passages # {}
                                /\ M.facts[f].passages \subseteq ToSet(M.facts[f].docs)
  BY <1>1 DEF Grounded
<1>4. ASSUME NEW f \in DOMAIN M.facts
      PROVE  /\ M.facts[f].passages = {w} => Lists(M.facts[f], w)
             /\ Lists(M.facts[f], w) =>
                  (Ungrounded(M.facts[f], w, P) <=> M.facts[f].passages = {w})
  BY <1>2, <1>3 DEF Lists, Ungrounded, LosesAllPassages
<1>5. Lost(M, w) \subseteq TouchedFacts(M, w)
  BY <1>4 DEF Lost, TouchedFacts
<1>6. DroppedFacts(M, w, P) = Lost(M, w)
  BY <1>4 DEF Lost, TouchedFacts, DroppedFacts
<1>7. RemovedFacts(M, w, P) = Lost(M, w)
  <2>1. ASSUME NEW n \in NamingNodes(M, w), n[1] = "fact", Ungrounded(M.nodes[n], w, P)
        PROVE  n[2] \in Lost(M, w)
    <3>1. n \in DOMAIN M.nodes /\ Lists(M.nodes[n], w)
      BY DEF NamingNodes
    <3>2. n[2] \in DOMAIN M.facts /\ M.nodes[n] = M.facts[n[2]]
      BY <1>1, <2>1, <3>1 DEF NodesCopied
    <3>. QED BY <1>4, <2>1, <3>1, <3>2 DEF Lost
  <2>. QED BY <1>6, <2>1 DEF RemovedFacts
<1>8. DOMAIN FactPost(M, w, P) = TouchedFacts(M, w) \ Lost(M, w)
  BY <1>6 DEF FactPost
<1>9. ASSUME NEW f \in TouchedFacts(M, w) \ Lost(M, w) PROVE FactPost(M, w, P)[f] = FactLeft(M, w, f)
  <2>1. FactPost(M, w, P)[f] = PrunedSource(M.facts[f], w, P)
    BY <1>6 DEF FactPost
  <2>2. M.facts[f].passages \ P = M.facts[f].passages \ {w}
    BY <1>2 DEF TouchedFacts
  <2>. QED BY <2>1, <2>2 DEF PrunedSource, FactLeft
<1>. QED BY <1>5, <1>6, <1>7, <1>8, <1>9

\* A fact that stays keeps its other sources and passages.
LEMMA FactLeftIs ==
    ASSUME NEW M, Settled(M), NEW w \in Doc, NEW f \in DOMAIN M.facts, f \notin Lost(M, w),
           NEW r, r = FactLeft(M, w, f)
    PROVE  /\ r \in FactRec /\ r.docs # <<>> /\ r.passages # {}
           /\ ToSet(r.docs) = ToSet(M.facts[f].docs) \ {w}
           /\ r.passages = M.facts[f].passages \ {w}
           /\ M.facts[f].docs[1] # w => r.docs[1] = M.facts[f].docs[1]
<1>1. M \in StateRec /\ Grounded(M)
  BY DEF Settled, Coherent
<1>2. M.facts[f].docs \in Sources /\ M.facts[f].passages \subseteq Doc
  BY <1>1, StateIs
<1>3. /\ M.facts[f].docs # <<>> /\ M.facts[f].passages # {}
      /\ M.facts[f].passages \subseteq ToSet(M.facts[f].docs)
  BY <1>1 DEF Grounded
<1>4. r = [docs |-> Without(M.facts[f].docs, w), passages |-> M.facts[f].passages \ {w}]
  BY DEF FactLeft, PrunedSource
<1> DEFINE q == M.facts[f].docs
<1>5. /\ Without(q, w) \in Sources /\ ToSet(Without(q, w)) = ToSet(q) \ {w}
      /\ q # <<>> /\ q[1] # w => Without(q, w) # <<>> /\ Without(q, w)[1] = q[1]
  <2>1. q \in Sources
    BY <1>2
  <2> HIDE DEF q
  <2>. QED BY <2>1, SourcesWithout
<1>6. r.passages # {}
  BY <1>3, <1>4 DEF Lost
<1>7. r.docs # <<>>
  <2>1. ToSet(r.docs) # {}
    BY <1>3, <1>4, <1>5, <1>6
  <2>. QED BY <1>4, <1>5, <2>1, SourcesAre
<1>8. r \in FactRec
  BY <1>2, <1>4, <1>5 DEF FactRec
<1>. QED BY <1>3, <1>4, <1>5, <1>6, <1>7, <1>8

\* A schema the document supports loses it, one from its frequency, and the
\* facts that go.
LEMMA SchemaLeftIs ==
    ASSUME NEW M, Settled(M), NEW w \in Doc, NEW s \in Backed(M, w),
           NEW r, r = SchemaLeft(M, w, s)
    PROVE  /\ r \in SchemaRec /\ ToSet(r.docs) = ToSet(M.schemas[s].docs) \ {w}
           /\ r.freq >= Len(r.docs) /\ (r.stable <=> r.freq >= Threshold)
           /\ r.facts = M.schemas[s].facts \ Lost(M, w)
           /\ M.schemas[s].docs # <<>>
           /\ M.schemas[s].docs[1] # w => r.docs # <<>> /\ r.docs[1] = M.schemas[s].docs[1]
<1>1. M \in StateRec /\ Supported(M) /\ s \in DOMAIN M.schemas /\ w \in ToSet(M.schemas[s].docs)
  BY DEF Settled, Coherent, Backed
<1> DEFINE q == M.schemas[s].docs
           k == M.schemas[s].freq
<1>2. q \in Sources /\ k \in Nat /\ M.schemas[s].facts \subseteq Fact
  BY <1>1, StateIs
<1>3. k >= Len(q) /\ w \in ToSet(q)
  BY <1>1 DEF Supported
<1>4. r = [docs |-> Without(q, w), freq |-> IF k = 0 THEN 0 ELSE k - 1,
           stable |-> (IF k = 0 THEN 0 ELSE k - 1) >= Threshold,
           facts |-> M.schemas[s].facts \ Lost(M, w)]
  BY DEF SchemaLeft, PruneSchema
<1> HIDE DEF q, k
<1>5. /\ Without(q, w) \in Sources /\ ToSet(Without(q, w)) = ToSet(q) \ {w}
      /\ w \in ToSet(q) => Len(Without(q, w)) <= Len(q) - 1
      /\ q # <<>> /\ q[1] # w => Without(q, w) # <<>> /\ Without(q, w)[1] = q[1]
  BY <1>2, SourcesWithout
<1>6. q # <<>> /\ Len(q) \in Nat /\ Len(q) > 0
  <2>1. q = <<>> <=> ToSet(q) = {}
    BY <1>2, SourcesAre
  <2>2. Len(q) \in Nat /\ (q # <<>> => Len(q) > 0)
    BY <1>2, SourcesAre
  <2>. QED BY <1>3, <2>1, <2>2
<1>7. Len(Without(q, w)) \in Nat /\ Len(Without(q, w)) <= Len(q) - 1
  <2>1. Len(Without(q, w)) \in Nat
    BY <1>5, SourcesAre
  <2>. QED BY <1>3, <1>5, <2>1
<1>8. k # 0 /\ k - 1 \in Nat /\ k - 1 >= Len(Without(q, w))
  BY <1>2, <1>3, <1>6, <1>7
<1>9. /\ r.docs = Without(q, w) /\ r.freq = k - 1 /\ r.facts = M.schemas[s].facts \ Lost(M, w)
      /\ r.stable = (r.freq >= Threshold)
  BY <1>4, <1>8
<1>10. r \in SchemaRec
  <2>1. r = [docs |-> r.docs, freq |-> r.freq, stable |-> r.stable, facts |-> r.facts]
    BY <1>4
  <2>2. r.stable \in BOOLEAN
    BY <1>9
  <2>3. r.docs \in Sources /\ r.freq \in Nat /\ r.facts \in SUBSET Fact
    BY <1>2, <1>5, <1>8, <1>9
  <2>. QED BY <2>1, <2>2, <2>3 DEF SchemaRec
<1>11. M.schemas[s].docs[1] # w => r.docs # <<>> /\ r.docs[1] = M.schemas[s].docs[1]
  BY <1>5, <1>6, <1>9 DEF q
<1>. QED BY <1>5, <1>6, <1>8, <1>9, <1>10, <1>11 DEF q

\* Only schemas that list the document are touched, and every vector or node
\* that needs one is theirs.
LEMMA DeletedSchemas ==
    ASSUME NEW M, Settled(M), NEW w \in Doc
    PROVE  /\ DOMAIN SchemaPost(M, w, Lost(M, w)) = Backed(M, w)
           /\ \A s \in Backed(M, w) : SchemaPost(M, w, Lost(M, w))[s] = SchemaLeft(M, w, s)
           /\ \A f \in TouchedFacts(M, w) : SchemaOf[f] \in Backed(M, w)
<1>1. M \in StateRec /\ Grounded(M) /\ NodesCopied(M, {}) /\ VectorsNamed(M, {})
  BY DEF Settled, Coherent, Fresh
<1>2. ASSUME NEW f \in TouchedFacts(M, w) PROVE SchemaOf[f] \in Backed(M, w)
  <2>1. f \in DOMAIN M.facts /\ w \in ToSet(M.facts[f].docs)
    BY DEF TouchedFacts, Lists
  <2>. QED BY <1>1, <2>1 DEF Grounded, Backed
<1>3. AffectedSchemas(M, w, Lost(M, w)) = Backed(M, w)
  <2>1. ASSUME NEW s \in DOMAIN M.schemas, NEW f \in M.schemas[s].facts, f \in Lost(M, w)
        PROVE  s \in Backed(M, w)
    <3>1. SchemaOf[f] = s
      BY <1>1 DEF Grounded
    <3>2. Lost(M, w) \subseteq TouchedFacts(M, w)
      BY DeletedFacts
    <3>. QED BY <1>2, <2>1, <3>1, <3>2
  <2>2. \A s \in DOMAIN M.schemas : Lists(M.schemas[s], w) <=> s \in Backed(M, w)
    BY DEF Backed, Lists
  <2>3. Backed(M, w) \subseteq DOMAIN M.schemas
    BY DEF Backed
  <2>. QED BY <1>2, <2>1, <2>2, <2>3 DEF AffectedSchemas
<1>4. ASSUME NEW n \in NamingOntology(M, w) PROVE n[2] \in Backed(M, w)
  <2>1. n \in DOMAIN M.nodes /\ n[1] = "ontology" /\ w \in ToSet(M.nodes[n].docs)
    BY DEF NamingOntology, Lists
  <2>. QED BY <1>1, <2>1 DEF NodesCopied, Backed
<1>5. ASSUME NEW m \in DOMAIN M.vectors, m[1] = "ontology", M.vectors[m] = w
      PROVE  m[2] \in Backed(M, w)
  <2>1. m[2] \in DOMAIN M.schemas /\ M.schemas[m[2]].docs # <<>> /\ w = M.schemas[m[2]].docs[1]
    BY <1>1, <1>5 DEF VectorsNamed
  <2>2. M.schemas[m[2]].docs \in Sources
    BY <1>1, <2>1, StateIs
  <2>3. w \in ToSet(M.schemas[m[2]].docs)
    BY <2>1, <2>2, SourcesAre
  <2>. QED BY <2>1, <2>3 DEF Backed
<1> DEFINE needed == {n[2] : n \in NamingOntology(M, w)}
             \union {n[2] : n \in {m \in DOMAIN M.vectors : m[1] = "ontology" /\ M.vectors[m] = w}}
<1>6. Backed(M, w) \union (needed \intersect DOMAIN M.schemas) = Backed(M, w)
  BY <1>4, <1>5
<1>7. SchemaPost(M, w, Lost(M, w)) =
        [s \in Backed(M, w) \union (needed \intersect DOMAIN M.schemas) |->
            IF s \in Backed(M, w) THEN PruneSchema(M.schemas[s], w, Lost(M, w)) ELSE M.schemas[s]]
  BY <1>3 DEF SchemaPost
<1> HIDE DEF needed
<1>8. SchemaPost(M, w, Lost(M, w)) = [s \in Backed(M, w) |-> PruneSchema(M.schemas[s], w, Lost(M, w))]
  BY <1>6, <1>7
<1>. QED BY <1>2, <1>8 DEF SchemaLeft

\* What goes with the document: its passage, lost facts, schemas it alone
\* supported, their edges, and the entities nothing mentions any more.
RemovedNodes(M, w) ==
    {n \in DOMAIN M.nodes :
        \/ n[1] = "passage" /\ n[2] = w
        \/ n[1] = "fact" /\ n[2] \in Lost(M, w)
        \/ n[1] = "ontology" /\ n[2] \in Backed(M, w) /\ SchemaLeft(M, w, n[2]).docs = <<>>}
Gone(M, w)     == RemovedEdges(M, RemovedNodes(M, w), Lost(M, w))
Orphaned(M, w) == Orphans(M, Gone(M, w))

\* A vector that names the document and whose item stays without it.
Rekeyed(M, w, m) ==
    \/ /\ m[1] = "fact" /\ m \in DOMAIN M.nodes
       /\ m[2] \in TouchedFacts(M, w) \ Lost(M, w)
    \/ m[1] = "ontology" /\ m[2] \in Backed(M, w) /\ SchemaLeft(M, w, m[2]).docs # <<>>

\* memory_delete_document, part by part.
LEMMA DeletionIs ==
    ASSUME NEW M, Settled(M), NEW w \in Doc, NEW M2, M2 = DeleteDocument(M, w)
    PROVE  /\ M2 \in StateRec
           /\ M2.passages = M.passages \ {w} /\ M2.active = M.active \ Lost(M, w)
           /\ M2.lexical = M.lexical \ {w} /\ M2.live = M.live \ {w} /\ M2.raw = M.raw
           /\ DOMAIN M2.facts = DOMAIN M.facts \ Lost(M, w)
           /\ \A f \in DOMAIN M2.facts :
                M2.facts[f] = IF f \in TouchedFacts(M, w) THEN FactLeft(M, w, f) ELSE M.facts[f]
           /\ DOMAIN M2.schemas = DOMAIN M.schemas
           /\ \A s \in DOMAIN M2.schemas :
                M2.schemas[s] = IF s \in Backed(M, w) THEN SchemaLeft(M, w, s) ELSE M.schemas[s]
           /\ DOMAIN M2.nodes = DOMAIN M.nodes \ (RemovedNodes(M, w) \union Orphaned(M, w))
           /\ \A n \in DOMAIN M2.nodes :
                M2.nodes[n] = IF n[1] = "fact" /\ n[2] \in TouchedFacts(M, w) THEN FactLeft(M, w, n[2])
                              ELSE IF n[1] = "ontology" /\ n[2] \in Backed(M, w) THEN SchemaLeft(M, w, n[2])
                              ELSE M.nodes[n]
           /\ M2.edges = (M.edges \ Gone(M, w)) \ Adjacent(M.edges, Orphaned(M, w))
           /\ DOMAIN M2.vectors = {m \in DOMAIN M.vectors \ (RemovedNodes(M, w) \union Orphaned(M, w)) :
                                     M.vectors[m] = w => Rekeyed(M, w, m)}
           /\ \A m \in DOMAIN M2.vectors :
                M2.vectors[m] = IF M.vectors[m] # w THEN M.vectors[m]
                                ELSE IF m[1] = "fact" THEN FactLeft(M, w, m[2]).docs[1]
                                ELSE SchemaLeft(M, w, m[2]).docs[1]
           /\ M2.values = M.values \ (DOMAIN M.vectors \ DOMAIN M2.vectors)
           /\ ~Deletion(M, w).changed =>
                /\ DOMAIN M2.nodes = DOMAIN M.nodes /\ M2.edges = M.edges
                /\ DOMAIN M2.vectors = DOMAIN M.vectors /\ M2.lexical = M.lexical
<1> DEFINE P          == RemovedPassages(M, w)
           F          == RemovedFacts(M, w, P)
           dropped    == DroppedFacts(M, w, P)
           factPost   == FactPost(M, w, P)
           schemaPost == SchemaPost(M, w, F)
           passages   == {n \in NamingNodes(M, w) : n[1] = "passage"}
           facts      == {n \in NamingNodes(M, w) : n[1] = "fact"}
           ontology   == OntologyNodes(M, w, schemaPost)
           after      == [n \in facts \union ontology |->
                            RefAfter(n, M.nodes[n], w, P, F, factPost, schemaPost)]
           removed    == passages \union {n \in facts : n[2] \in F}
                                  \union {n \in ontology : after[n].docs = <<>>}
           sources    == Put([n \in {"ontology"} \X DOMAIN schemaPost |-> schemaPost[n[2]]],
                             Drop(after, removed))
           rekey      == [n \in {m \in DOMAIN sources : sources[m].docs # <<>>} |-> sources[n].docs[1]]
           gone       == RemovedEdges(M, removed, F)
           orphans    == Orphans(M, gone)
           vectors    == VectorsAfter(M, w, removed \union orphans, rekey)
           T          == TouchedFacts(M, w)
           X          == Lost(M, w)
           B          == Backed(M, w)
<1>1. M \in StateRec /\ Shapes(M) /\ Grounded(M) /\ NodesCopied(M, {}) /\ VectorsNamed(M, {})
  BY DEF Settled, Coherent, Fresh
<1>2. M2 = [M EXCEPT !.passages = M.passages \ {w},
                     !.facts    = Put(Drop(M.facts, dropped), factPost),
                     !.active   = M.active \ dropped,
                     !.schemas  = Put(M.schemas, schemaPost),
                     !.nodes    = Drop(Put(M.nodes, after), removed \union orphans),
                     !.edges    = (M.edges \ gone) \ Adjacent(M.edges, orphans),
                     !.vectors  = vectors,
                     !.values   = M.values \ (DOMAIN M.vectors \ DOMAIN vectors),
                     !.lexical  = M.lexical \ {w},
                     !.live     = M.live \ {w}]
  BY DEF DeleteDocument, Deletion
<1>3. ASSUME ~Deletion(M, w).changed
      PROVE  w \notin M.lexical /\ passages \union DOMAIN after = {} /\ gone = {} /\ vectors = M.vectors
  BY <1>3 DEF Deletion
<1>4. /\ F = X /\ dropped = X /\ X \subseteq T /\ T \subseteq DOMAIN M.facts
      /\ DOMAIN factPost = T \ X /\ \A f \in T \ X : factPost[f] = FactLeft(M, w, f)
  <2>1. T \subseteq DOMAIN M.facts
    BY DEF TouchedFacts
  <2>. QED BY <2>1, DeletedFacts
<1>5. /\ DOMAIN schemaPost = B /\ \A s \in B : schemaPost[s] = SchemaLeft(M, w, s)
      /\ B \subseteq DOMAIN M.schemas
  <2>1. schemaPost = SchemaPost(M, w, Lost(M, w))
    BY <1>4
  <2>2. B \subseteq DOMAIN M.schemas
    BY DEF Backed
  <2> HIDE DEF schemaPost
  <2>. QED BY <2>1, <2>2, DeletedSchemas
<1>6. passages = {n \in DOMAIN M.nodes : n[1] = "passage" /\ n[2] = w}
  <2>1. ASSUME NEW n \in DOMAIN M.nodes, n[1] = "passage" PROVE Lists(M.nodes[n], w) <=> n[2] = w
    <3>1. n \in NodeId /\ M.nodes[n].docs = <<n[2]>>
      BY <1>1, <2>1, StateIs DEF Shapes
    <3>2. n[2] \in Doc
      BY <2>1, <3>1, NodeIdIs
    <3>3. ToSet(<<n[2]>>) = {n[2]}
      BY <3>2, SourcesFew
    <3>. QED BY <3>1, <3>3 DEF Lists
  <2>. QED BY <2>1 DEF NamingNodes
<1>7. facts = {n \in DOMAIN M.nodes : n[1] = "fact" /\ n[2] \in T}
  <2>1. ASSUME NEW n \in DOMAIN M.nodes, n[1] = "fact" PROVE Lists(M.nodes[n], w) <=> n[2] \in T
    <3>1. n[2] \in DOMAIN M.facts /\ M.nodes[n] = M.facts[n[2]]
      BY <1>1, <2>1 DEF NodesCopied
    <3>. QED BY <3>1 DEF TouchedFacts
  <2>. QED BY <2>1 DEF NamingNodes
<1>8. ontology = {n \in DOMAIN M.nodes : n[1] = "ontology" /\ n[2] \in B}
  <2>1. ASSUME NEW n \in NamingOntology(M, w)
        PROVE  n \in DOMAIN M.nodes /\ n[1] = "ontology" /\ n[2] \in B
    <3>1. n \in DOMAIN M.nodes /\ n[1] = "ontology" /\ w \in ToSet(M.nodes[n].docs)
      BY DEF NamingOntology, Lists
    <3>. QED BY <1>1, <3>1 DEF NodesCopied, Backed
  <2> HIDE DEF schemaPost, B
  <2>. QED BY <1>5, <2>1 DEF OntologyNodes
<1> HIDE DEF F, dropped, factPost, schemaPost, passages, facts, ontology, T, X, B
<1>9. /\ DOMAIN after = facts \union ontology
      /\ \A n \in facts : n[2] \notin X => after[n] = FactLeft(M, w, n[2])
      /\ \A n \in ontology : after[n] = SchemaLeft(M, w, n[2])
  <2>1. DOMAIN after = facts \union ontology
    OBVIOUS
  <2>2. ASSUME NEW n \in facts, n[2] \notin X PROVE after[n] = FactLeft(M, w, n[2])
    <3>1. n[1] = "fact" /\ n[2] \in DOMAIN factPost
      BY <1>4, <1>7, <2>2
    <3>2. after[n] = factPost[n[2]]
      BY <3>1 DEF RefAfter
    <3>. QED BY <1>4, <3>1, <3>2
  <2>3. ASSUME NEW n \in ontology PROVE after[n] = SchemaLeft(M, w, n[2])
    <3>1. n[1] = "ontology" /\ n[2] \in DOMAIN schemaPost
      BY <1>5, <1>8
    <3>2. after[n] = schemaPost[n[2]]
      BY <3>1 DEF RefAfter
    <3>. QED BY <1>5, <3>1, <3>2
  <2>. QED BY <2>1, <2>2, <2>3
<1> HIDE DEF after
<1>10. removed = RemovedNodes(M, w)
  <2>1. ASSUME NEW n PROVE n \in removed <=> n \in RemovedNodes(M, w)
    <3>1. n \in RemovedNodes(M, w) <=> /\ n \in DOMAIN M.nodes
                                       /\ \/ n[1] = "passage" /\ n[2] = w
                                          \/ n[1] = "fact" /\ n[2] \in X
                                          \/ n[1] = "ontology" /\ n[2] \in B /\ SchemaLeft(M, w, n[2]).docs = <<>>
      BY DEF RemovedNodes, X, B
    <3>2. n \in ontology => after[n].docs = SchemaLeft(M, w, n[2]).docs
      BY <1>9
    <3>3. n \in removed <=> \/ n \in passages
                            \/ n \in facts /\ n[2] \in F
                            \/ n \in ontology /\ after[n].docs = <<>>
      OBVIOUS
    <3> HIDE DEF removed
    <3>. QED BY <1>4, <1>6, <1>7, <1>8, <3>1, <3>2, <3>3
  <2>. QED BY <2>1
<1> HIDE DEF removed
<1>11. gone = Gone(M, w) /\ orphans = Orphaned(M, w)
  BY <1>4, <1>10 DEF Gone, Orphaned, X
<1> HIDE DEF gone, orphans
<1>12. orphans \subseteq DOMAIN M.nodes /\ \A n \in orphans : n[1] = "entity"
  BY <1>11 DEF Orphaned, Orphans
<1>13. /\ DOMAIN sources = ({"ontology"} \X B) \union ((facts \union ontology) \ removed)
       /\ \A n \in facts \ removed : sources[n] = FactLeft(M, w, n[2])
       /\ \A s \in B : sources[<<"ontology", s>>] = SchemaLeft(M, w, s)
  <2>1. DOMAIN sources = ({"ontology"} \X B) \union ((facts \union ontology) \ removed)
    BY <1>5, <1>9 DEF Put, Drop
  <2>2. ASSUME NEW n \in facts \ removed PROVE sources[n] = FactLeft(M, w, n[2])
    <3>1. sources[n] = after[n]
      BY <1>9 DEF Put, Drop
    <3>2. n[2] \notin X
      BY <1>7, <1>10 DEF RemovedNodes, X
    <3>. QED BY <1>9, <3>1, <3>2
  <2>3. ASSUME NEW s \in B PROVE sources[<<"ontology", s>>] = SchemaLeft(M, w, s)
    <3> DEFINE n == <<"ontology", s>>
    <3>1. CASE n \in DOMAIN after \ removed
      <4>1. sources[n] = after[n]
        BY <3>1 DEF Put, Drop
      <4>2. n \in ontology /\ n[2] = s
        BY <1>7, <1>9, <3>1
      <4>. QED BY <1>9, <4>1, <4>2
    <3>2. CASE n \notin DOMAIN after \ removed
      <4>1. n \in {"ontology"} \X DOMAIN schemaPost /\ n[2] = s
        BY <1>5
      <4>2. sources[n] = schemaPost[s]
        BY <3>2, <4>1 DEF Put, Drop
      <4>. QED BY <1>5, <4>2
    <3>. QED BY <3>1, <3>2
  <2>. QED BY <2>1, <2>2, <2>3
<1>14. ASSUME NEW m \in DOMAIN M.vectors \ (removed \union orphans), M.vectors[m] = w
       PROVE  /\ m \in DOMAIN rekey <=> Rekeyed(M, w, m)
              /\ m \in DOMAIN rekey =>
                   rekey[m] = IF m[1] = "fact" THEN FactLeft(M, w, m[2]).docs[1]
                              ELSE SchemaLeft(M, w, m[2]).docs[1]
  <2>0. m \in NodeId /\ m = <<m[1], m[2]>>
    BY <1>1, StateIs, NodeIdIs
  <2>1. /\ m \in DOMAIN rekey <=> m \in DOMAIN sources /\ sources[m].docs # <<>>
        /\ m \in DOMAIN rekey => rekey[m] = sources[m].docs[1]
    OBVIOUS
  <2>2. CASE m[1] = "fact"
    <3>1. m \in DOMAIN sources <=> m \in facts
      BY <1>8, <1>13, <1>14, <2>2
    <3>2. m \in facts <=> m \in DOMAIN M.nodes /\ m[2] \in T
      BY <1>7, <2>2
    <3>3. m \in facts => m[2] \notin X /\ sources[m] = FactLeft(M, w, m[2])
      BY <1>7, <1>10, <1>13, <1>14, <2>2 DEF RemovedNodes, X
    <3>4. ASSUME m \in facts PROVE sources[m].docs # <<>>
      <4>1. m[2] \in DOMAIN M.facts /\ m[2] \notin Lost(M, w)
        BY <1>4, <3>2, <3>3, <3>4 DEF X
      <4>2. FactLeft(M, w, m[2]).docs # <<>>
        BY <4>1, FactLeftIs
      <4>. QED BY <3>3, <3>4, <4>2
    <3>5. Rekeyed(M, w, m) <=> m \in DOMAIN M.nodes /\ m[2] \in T \ X
      BY <2>2 DEF Rekeyed, T, X
    <3> HIDE DEF sources, rekey
    <3>. QED BY <2>1, <2>2, <3>1, <3>2, <3>3, <3>4, <3>5
  <2>3. CASE m[1] = "ontology"
    <3>1. m \in DOMAIN sources <=> m[2] \in B
      BY <1>7, <1>8, <1>13, <2>0, <2>3
    <3>2. m[2] \in B => sources[m] = SchemaLeft(M, w, m[2])
      BY <1>13, <2>0, <2>3
    <3>3. Rekeyed(M, w, m) <=> m[2] \in B /\ SchemaLeft(M, w, m[2]).docs # <<>>
      BY <2>3 DEF Rekeyed, B
    <3> HIDE DEF sources, rekey
    <3>. QED BY <2>1, <2>3, <3>1, <3>2, <3>3
  <2>4. CASE m[1] \notin {"fact", "ontology"}
    <3>1. m \notin DOMAIN sources
      BY <1>7, <1>8, <1>13, <2>4
    <3>2. ~Rekeyed(M, w, m)
      BY <2>4 DEF Rekeyed
    <3> HIDE DEF sources, rekey
    <3>. QED BY <2>1, <3>1, <3>2
  <2>. QED BY <2>2, <2>3, <2>4
<1> HIDE DEF sources, rekey
<1>15. vectors = [m \in {k \in DOMAIN M.vectors \ (removed \union orphans) :
                           M.vectors[k] = w => k \in DOMAIN rekey} |->
                    IF M.vectors[m] = w THEN rekey[m] ELSE M.vectors[m]]
  BY DEF VectorsAfter
<1> HIDE DEF vectors
<1>16. /\ M2.passages = M.passages \ {w} /\ M2.facts = Put(Drop(M.facts, dropped), factPost)
       /\ M2.active = M.active \ dropped /\ M2.schemas = Put(M.schemas, schemaPost)
       /\ M2.nodes = Drop(Put(M.nodes, after), removed \union orphans)
       /\ M2.edges = (M.edges \ gone) \ Adjacent(M.edges, orphans)
       /\ M2.vectors = vectors /\ M2.values = M.values \ (DOMAIN M.vectors \ DOMAIN vectors)
       /\ M2.lexical = M.lexical \ {w} /\ M2.live = M.live \ {w} /\ M2.raw = M.raw
  BY <1>1, <1>2 DEF StateRec
<1>17. /\ DOMAIN M2.facts = DOMAIN M.facts \ Lost(M, w)
       /\ \A f \in DOMAIN M2.facts :
            M2.facts[f] = IF f \in TouchedFacts(M, w) THEN FactLeft(M, w, f) ELSE M.facts[f]
       /\ M2.facts \in Partial(Fact, FactRec)
  <2>1. DOMAIN M2.facts = DOMAIN M.facts \ X
    BY <1>4, <1>16 DEF Put, Drop
  <2>2. ASSUME NEW f \in DOMAIN M2.facts
        PROVE  M2.facts[f] = IF f \in T THEN FactLeft(M, w, f) ELSE M.facts[f]
    <3>1. CASE f \in T
      <4>1. f \in DOMAIN factPost
        BY <1>4, <2>1, <3>1
      <4>2. M2.facts[f] = factPost[f]
        BY <1>16, <4>1 DEF Put
      <4>. QED BY <1>4, <3>1, <4>1, <4>2
    <3>2. CASE f \notin T
      BY <1>4, <1>16, <2>1, <3>2 DEF Put, Drop
    <3>. QED BY <3>1, <3>2
  <2>3. ASSUME NEW f \in DOMAIN M2.facts PROVE M2.facts[f] \in FactRec /\ f \in Fact
    <3>1. f \in DOMAIN M.facts /\ f \notin Lost(M, w)
      BY <2>1 DEF X
    <3>2. FactLeft(M, w, f) \in FactRec
      BY <3>1, FactLeftIs
    <3>3. M.facts[f] \in FactRec /\ f \in Fact
      BY <1>1, <3>1, StateIs
    <3>. QED BY <2>2, <3>2, <3>3
  <2>4. M2.facts = [f \in DOMAIN M2.facts |-> M2.facts[f]]
    BY <1>16 DEF Put
  <2>5. M2.facts \in Partial(Fact, FactRec)
    BY <2>3, <2>4 DEF Partial
  <2>. QED BY <2>1, <2>2, <2>5 DEF T, X
<1>18. /\ DOMAIN M2.schemas = DOMAIN M.schemas
       /\ \A s \in DOMAIN M2.schemas :
            M2.schemas[s] = IF s \in Backed(M, w) THEN SchemaLeft(M, w, s) ELSE M.schemas[s]
       /\ M2.schemas \in Partial(Schema, SchemaRec)
  <2>1. DOMAIN M2.schemas = DOMAIN M.schemas
    BY <1>5, <1>16 DEF Put
  <2>2. \A s \in DOMAIN M2.schemas :
          M2.schemas[s] = IF s \in B THEN SchemaLeft(M, w, s) ELSE M.schemas[s]
    BY <1>5, <1>16, <2>1 DEF Put
  <2>3. ASSUME NEW s \in DOMAIN M2.schemas PROVE M2.schemas[s] \in SchemaRec /\ s \in Schema
    <3>1. s \in Backed(M, w) => SchemaLeft(M, w, s) \in SchemaRec
      BY SchemaLeftIs
    <3>2. M.schemas[s] \in SchemaRec /\ s \in Schema
      BY <1>1, <2>1, StateIs
    <3>. QED BY <2>2, <3>1, <3>2 DEF B
  <2>4. M2.schemas = [s \in DOMAIN M2.schemas |-> M2.schemas[s]]
    BY <1>16 DEF Put
  <2>5. M2.schemas \in Partial(Schema, SchemaRec)
    BY <2>3, <2>4 DEF Partial
  <2>. QED BY <2>1, <2>2, <2>5 DEF B
<1>19. /\ DOMAIN M2.nodes = DOMAIN M.nodes \ (RemovedNodes(M, w) \union Orphaned(M, w))
       /\ \A n \in DOMAIN M2.nodes :
            M2.nodes[n] = IF n[1] = "fact" /\ n[2] \in TouchedFacts(M, w) THEN FactLeft(M, w, n[2])
                          ELSE IF n[1] = "ontology" /\ n[2] \in Backed(M, w) THEN SchemaLeft(M, w, n[2])
                          ELSE M.nodes[n]
       /\ M2.nodes \in Partial(NodeId, NodeRec)
  <2>1. DOMAIN M2.nodes = DOMAIN M.nodes \ (removed \union orphans)
    BY <1>7, <1>8, <1>9, <1>16 DEF Put, Drop
  <2>2. ASSUME NEW n \in DOMAIN M2.nodes
        PROVE  M2.nodes[n] = IF n[1] = "fact" /\ n[2] \in T THEN FactLeft(M, w, n[2])
                             ELSE IF n[1] = "ontology" /\ n[2] \in B THEN SchemaLeft(M, w, n[2])
                             ELSE M.nodes[n]
    <3>0. /\ n \in DOMAIN after => M2.nodes[n] = after[n]
          /\ n \notin DOMAIN after => M2.nodes[n] = M.nodes[n]
      BY <1>16, <2>1 DEF Put, Drop
    <3>1. CASE n \in facts
      <4>1. n[1] = "fact" /\ n[2] \in T /\ n[2] \notin X
        BY <1>7, <1>10, <2>1, <3>1 DEF RemovedNodes, X
      <4>. QED BY <1>9, <3>0, <3>1, <4>1
    <3>2. CASE n \in ontology
      BY <1>8, <1>9, <3>0, <3>2
    <3>3. CASE n \notin facts \union ontology
      BY <1>7, <1>8, <1>9, <2>1, <3>0, <3>3
    <3>. QED BY <3>1, <3>2, <3>3
  <2>3. ASSUME NEW n \in DOMAIN M2.nodes PROVE M2.nodes[n] \in NodeRec /\ n \in NodeId
    <3>1. M.nodes[n] \in NodeRec /\ n \in NodeId
      BY <1>1, <2>1, StateIs
    <3>2. CASE n[1] = "fact" /\ n[2] \in T
      <4>1. n[2] \in DOMAIN M.facts /\ n[2] \notin Lost(M, w)
        BY <1>4, <1>10, <2>1, <3>2 DEF RemovedNodes
      <4>2. FactLeft(M, w, n[2]) \in FactRec
        BY <4>1, FactLeftIs
      <4>. QED BY <2>2, <3>1, <3>2, <4>2 DEF NodeRec
    <3>3. CASE n[1] = "ontology" /\ n[2] \in B
      <4>1. SchemaLeft(M, w, n[2]) \in SchemaRec
        BY <3>3, SchemaLeftIs DEF B
      <4>. QED BY <2>2, <3>1, <3>3, <4>1 DEF NodeRec
    <3>4. CASE ~(n[1] = "fact" /\ n[2] \in T) /\ ~(n[1] = "ontology" /\ n[2] \in B)
      BY <2>2, <3>1, <3>4
    <3>. QED BY <3>2, <3>3, <3>4
  <2>4. M2.nodes = [n \in DOMAIN M2.nodes |-> M2.nodes[n]]
    BY <1>16 DEF Drop
  <2>5. M2.nodes \in Partial(NodeId, NodeRec)
    BY <2>3, <2>4 DEF Partial
  <2>. QED BY <1>10, <1>11, <2>1, <2>2, <2>5 DEF T, B
<1>20. /\ DOMAIN M2.vectors = {m \in DOMAIN M.vectors \ (RemovedNodes(M, w) \union Orphaned(M, w)) :
                                 M.vectors[m] = w => Rekeyed(M, w, m)}
       /\ \A m \in DOMAIN M2.vectors :
            M2.vectors[m] = IF M.vectors[m] # w THEN M.vectors[m]
                            ELSE IF m[1] = "fact" THEN FactLeft(M, w, m[2]).docs[1]
                            ELSE SchemaLeft(M, w, m[2]).docs[1]
       /\ M2.vectors \in Partial(NodeId, Doc)
  <2>1. DOMAIN M2.vectors = {m \in DOMAIN M.vectors \ (removed \union orphans) :
                               M.vectors[m] = w => m \in DOMAIN rekey}
    BY <1>15, <1>16
  <2>2. DOMAIN M2.vectors = {m \in DOMAIN M.vectors \ (removed \union orphans) :
                               M.vectors[m] = w => Rekeyed(M, w, m)}
    BY <1>14, <2>1
  <2>3. ASSUME NEW m \in DOMAIN M2.vectors
        PROVE  M2.vectors[m] = IF M.vectors[m] # w THEN M.vectors[m]
                               ELSE IF m[1] = "fact" THEN FactLeft(M, w, m[2]).docs[1]
                               ELSE SchemaLeft(M, w, m[2]).docs[1]
    <3>1. /\ m \in DOMAIN M.vectors \ (removed \union orphans)
          /\ M.vectors[m] = w => m \in DOMAIN rekey
      BY <2>1
    <3>2. M2.vectors[m] = IF M.vectors[m] = w THEN rekey[m] ELSE M.vectors[m]
      BY <1>15, <1>16, <3>1
    <3>. QED BY <1>14, <3>1, <3>2
  <2>4. ASSUME NEW m \in DOMAIN M2.vectors PROVE M2.vectors[m] \in Doc /\ m \in NodeId
    <3>1. m \in DOMAIN M.vectors /\ m \in NodeId /\ M.vectors[m] \in Doc
      BY <1>1, <2>2, StateIs
    <3>2. CASE M.vectors[m] # w
      BY <2>3, <3>1, <3>2
    <3>3. CASE M.vectors[m] = w
      <4>1. Rekeyed(M, w, m)
        BY <2>2, <3>3
      <4>2. CASE m[1] = "fact"
        <5>1. m[2] \in DOMAIN M.facts /\ m[2] \notin Lost(M, w)
          BY <1>4, <4>1, <4>2 DEF Rekeyed, T
        <5>2. FactLeft(M, w, m[2]) \in FactRec /\ FactLeft(M, w, m[2]).docs # <<>>
          BY <5>1, FactLeftIs
        <5>3. FactLeft(M, w, m[2]).docs \in Sources
          BY <5>2 DEF FactRec
        <5>4. FactLeft(M, w, m[2]).docs[1] \in Doc
          BY <5>2, <5>3, SourcesAre
        <5>. QED BY <2>3, <3>1, <3>3, <4>2, <5>4
      <4>3. CASE m[1] # "fact"
        <5>1. m[2] \in Backed(M, w) /\ SchemaLeft(M, w, m[2]).docs # <<>>
          BY <4>1, <4>3 DEF Rekeyed
        <5>2. SchemaLeft(M, w, m[2]) \in SchemaRec
          BY <5>1, SchemaLeftIs
        <5>3. SchemaLeft(M, w, m[2]).docs \in Sources
          BY <5>2 DEF SchemaRec
        <5>4. SchemaLeft(M, w, m[2]).docs[1] \in Doc
          BY <5>1, <5>3, SourcesAre
        <5>. QED BY <2>3, <3>1, <3>3, <4>3, <5>4
      <4>. QED BY <4>2, <4>3
    <3>. QED BY <3>2, <3>3
  <2>5. M2.vectors = [m \in DOMAIN M2.vectors |-> M2.vectors[m]]
    BY <1>15, <1>16
  <2>6. M2.vectors \in Partial(NodeId, Doc)
    BY <2>4, <2>5 DEF Partial
  <2>. QED BY <1>10, <1>11, <2>2, <2>3, <2>6
<1>21. M2 \in StateRec
  <2>1. /\ M2.passages \in SUBSET Doc /\ M2.active \in SUBSET Fact /\ M2.edges \in SUBSET EdgeKey
        /\ M2.values \in SUBSET NodeId /\ M2.lexical \in SUBSET Doc /\ M2.live \in SUBSET Doc
        /\ M2.raw \in BOOLEAN
    BY <1>1, <1>16, StateIs
  <2>2. M2 = [passages |-> M2.passages, facts |-> M2.facts, active |-> M2.active,
              schemas |-> M2.schemas, nodes |-> M2.nodes, edges |-> M2.edges,
              vectors |-> M2.vectors, values |-> M2.values, lexical |-> M2.lexical,
              live |-> M2.live, raw |-> M2.raw]
    BY <1>1, <1>2, <1>16 DEF StateRec
  <2>. QED BY <1>17, <1>18, <1>19, <1>20, <2>1, <2>2 DEF StateRec
<1>22. ASSUME ~Deletion(M, w).changed
       PROVE  /\ DOMAIN M2.nodes = DOMAIN M.nodes /\ M2.edges = M.edges
              /\ DOMAIN M2.vectors = DOMAIN M.vectors /\ M2.lexical = M.lexical
  <2>1. /\ w \notin M.lexical /\ passages = {} /\ facts = {} /\ ontology = {}
        /\ gone = {} /\ vectors = M.vectors
    BY <1>3, <1>9, <1>22
  <2>2. removed = {}
    BY <2>1 DEF removed
  <2>3. orphans = {}
    BY <2>1 DEF orphans, Orphans, Adjacent
  <2>4. Adjacent(M.edges, orphans) = {}
    BY <2>3 DEF Adjacent
  <2>. QED BY <1>10, <1>11, <1>16, <1>19, <2>1, <2>2, <2>3, <2>4
<1>23. M2.edges = (M.edges \ Gone(M, w)) \ Adjacent(M.edges, Orphaned(M, w))
  BY <1>11, <1>16
<1>24. /\ M2.passages = M.passages \ {w} /\ M2.active = M.active \ Lost(M, w)
       /\ M2.lexical = M.lexical \ {w} /\ M2.live = M.live \ {w} /\ M2.raw = M.raw
       /\ M2.values = M.values \ (DOMAIN M.vectors \ DOMAIN M2.vectors)
  BY <1>4, <1>16 DEF X
<1>. QED BY <1>17, <1>18, <1>19, <1>20, <1>21, <1>22, <1>23, <1>24

\* Every fact and schema that stays, whether it listed the document or not.
FactsLeft(M, M2, w) ==
    \A f \in DOMAIN M2.facts :
        /\ f \in DOMAIN M.facts /\ f \notin Lost(M, w)
        /\ M2.facts[f].docs \in Sources /\ M2.facts[f].docs # <<>> /\ M2.facts[f].passages # {}
        /\ ToSet(M2.facts[f].docs) = ToSet(M.facts[f].docs) \ {w}
        /\ M2.facts[f].passages = M.facts[f].passages \ {w}
        /\ M.facts[f].docs[1] # w => M2.facts[f].docs[1] = M.facts[f].docs[1]
SchemasLeft(M, M2, w) ==
    \A s \in DOMAIN M2.schemas :
        /\ M2.schemas[s].docs \in Sources
        /\ ToSet(M2.schemas[s].docs) = ToSet(M.schemas[s].docs) \ {w}
        /\ M2.schemas[s].facts = M.schemas[s].facts \ Lost(M, w)
        /\ M2.schemas[s].freq >= Len(M2.schemas[s].docs)
        /\ M2.schemas[s].stable <=> M2.schemas[s].freq >= Threshold
        /\ M.schemas[s].docs # <<>> /\ M.schemas[s].docs[1] # w =>
             M2.schemas[s].docs # <<>> /\ M2.schemas[s].docs[1] = M.schemas[s].docs[1]

\* What a deletion makes of facts and schemas.
LEMMA DeletionItems ==
    ASSUME NEW M, Settled(M), NEW w \in Doc, NEW M2, M2 = DeleteDocument(M, w)
    PROVE  FactsLeft(M, M2, w) /\ SchemasLeft(M, M2, w)
<1>1. M \in StateRec /\ Grounded(M) /\ Supported(M)
  BY DEF Settled, Coherent
<1>2. /\ M2 \in StateRec
      /\ DOMAIN M2.facts = DOMAIN M.facts \ Lost(M, w)
      /\ \A f \in DOMAIN M2.facts :
           M2.facts[f] = IF f \in TouchedFacts(M, w) THEN FactLeft(M, w, f) ELSE M.facts[f]
      /\ DOMAIN M2.schemas = DOMAIN M.schemas
      /\ \A s \in DOMAIN M2.schemas :
           M2.schemas[s] = IF s \in Backed(M, w) THEN SchemaLeft(M, w, s) ELSE M.schemas[s]
  BY DeletionIs
<1>3. ASSUME NEW f \in DOMAIN M2.facts
      PROVE  /\ f \in DOMAIN M.facts /\ f \notin Lost(M, w)
             /\ M2.facts[f].docs \in Sources /\ M2.facts[f].docs # <<>> /\ M2.facts[f].passages # {}
             /\ ToSet(M2.facts[f].docs) = ToSet(M.facts[f].docs) \ {w}
             /\ M2.facts[f].passages = M.facts[f].passages \ {w}
             /\ M.facts[f].docs[1] # w => M2.facts[f].docs[1] = M.facts[f].docs[1]
  <2>1. f \in DOMAIN M.facts /\ f \notin Lost(M, w)
    BY <1>2
  <2>2. M2.facts[f].docs \in Sources
    BY <1>2, StateIs
  <2>3. CASE f \in TouchedFacts(M, w)
    <3>1. M2.facts[f] = FactLeft(M, w, f)
      BY <1>2, <2>3
    <3>2. /\ FactLeft(M, w, f).docs # <<>> /\ FactLeft(M, w, f).passages # {}
          /\ ToSet(FactLeft(M, w, f).docs) = ToSet(M.facts[f].docs) \ {w}
          /\ FactLeft(M, w, f).passages = M.facts[f].passages \ {w}
          /\ M.facts[f].docs[1] # w => FactLeft(M, w, f).docs[1] = M.facts[f].docs[1]
      BY <2>1, FactLeftIs
    <3>. QED BY <2>1, <2>2, <3>1, <3>2
  <2>4. CASE f \notin TouchedFacts(M, w)
    <3>1. M2.facts[f] = M.facts[f] /\ w \notin ToSet(M.facts[f].docs)
      BY <1>2, <2>1, <2>4 DEF TouchedFacts, Lists
    <3>2. /\ M.facts[f].docs # <<>> /\ M.facts[f].passages # {}
          /\ M.facts[f].passages \subseteq ToSet(M.facts[f].docs)
      BY <1>1, <2>1 DEF Grounded
    <3>. QED BY <2>1, <2>2, <3>1, <3>2
  <2>. QED BY <2>3, <2>4
<1>4. ASSUME NEW s \in DOMAIN M2.schemas
      PROVE  /\ M2.schemas[s].docs \in Sources
             /\ ToSet(M2.schemas[s].docs) = ToSet(M.schemas[s].docs) \ {w}
             /\ M2.schemas[s].facts = M.schemas[s].facts \ Lost(M, w)
             /\ M2.schemas[s].freq >= Len(M2.schemas[s].docs)
             /\ M2.schemas[s].stable <=> M2.schemas[s].freq >= Threshold
             /\ M.schemas[s].docs # <<>> /\ M.schemas[s].docs[1] # w =>
                  M2.schemas[s].docs # <<>> /\ M2.schemas[s].docs[1] = M.schemas[s].docs[1]
  <2>1. M2.schemas[s].docs \in Sources
    BY <1>2, StateIs
  <2>2. CASE s \in Backed(M, w)
    <3>1. M2.schemas[s] = SchemaLeft(M, w, s)
      BY <1>2, <2>2
    <3> DEFINE r == SchemaLeft(M, w, s)
    <3>2. /\ ToSet(r.docs) = ToSet(M.schemas[s].docs) \ {w}
          /\ r.freq >= Len(r.docs) /\ (r.stable <=> r.freq >= Threshold)
          /\ r.facts = M.schemas[s].facts \ Lost(M, w)
          /\ M.schemas[s].docs[1] # w => r.docs # <<>> /\ r.docs[1] = M.schemas[s].docs[1]
      BY <2>2, SchemaLeftIs
    <3> HIDE DEF r
    <3>3. M2.schemas[s] = r
      BY <3>1 DEF r
    <3>. QED BY <2>1, <3>2, <3>3
  <2>3. CASE s \notin Backed(M, w)
    <3>1. M2.schemas[s] = M.schemas[s] /\ w \notin ToSet(M.schemas[s].docs) /\ s \in DOMAIN M.schemas
      BY <1>2, <2>3 DEF Backed
    <3>2. \A f \in M.schemas[s].facts : f \notin Lost(M, w)
      <4>1. ASSUME NEW f \in M.schemas[s].facts, f \in Lost(M, w) PROVE FALSE
        <5>1. SchemaOf[f] = s
          BY <1>1, <3>1 DEF Grounded
        <5>2. Lost(M, w) \subseteq TouchedFacts(M, w)
          BY DeletedFacts
        <5>3. SchemaOf[f] \in Backed(M, w)
          BY <4>1, <5>2, DeletedSchemas
        <5>. QED BY <2>3, <5>1, <5>3
      <4>. QED BY <4>1
    <3>3. /\ M.schemas[s].freq >= Len(M.schemas[s].docs)
          /\ M.schemas[s].stable <=> M.schemas[s].freq >= Threshold
      BY <1>1, <3>1 DEF Supported
    <3>4. M.schemas[s].facts = M.schemas[s].facts \ Lost(M, w)
      BY <3>2
    <3>. QED BY <2>1, <3>1, <3>3, <3>4
  <2>. QED BY <2>2, <2>3
<1>. QED BY <1>3, <1>4 DEF FactsLeft, SchemasLeft

\* The nodes that stay are copies of what is stored afterwards.
LEMMA DeletionCopies ==
    ASSUME NEW M, Settled(M), NEW w \in Doc, NEW M2, M2 = DeleteDocument(M, w)
    PROVE  NodesCopied(M2, {})
<1>1. NodesCopied(M, {})
  BY DEF Settled, Fresh
<1>2. /\ DOMAIN M2.facts = DOMAIN M.facts \ Lost(M, w)
      /\ \A f \in DOMAIN M2.facts :
           M2.facts[f] = IF f \in TouchedFacts(M, w) THEN FactLeft(M, w, f) ELSE M.facts[f]
      /\ DOMAIN M2.schemas = DOMAIN M.schemas
      /\ \A s \in DOMAIN M2.schemas :
           M2.schemas[s] = IF s \in Backed(M, w) THEN SchemaLeft(M, w, s) ELSE M.schemas[s]
      /\ DOMAIN M2.nodes = DOMAIN M.nodes \ (RemovedNodes(M, w) \union Orphaned(M, w))
      /\ \A n \in DOMAIN M2.nodes :
           M2.nodes[n] = IF n[1] = "fact" /\ n[2] \in TouchedFacts(M, w) THEN FactLeft(M, w, n[2])
                         ELSE IF n[1] = "ontology" /\ n[2] \in Backed(M, w) THEN SchemaLeft(M, w, n[2])
                         ELSE M.nodes[n]
  BY DeletionIs
<1>3. ASSUME NEW n \in DOMAIN M2.nodes, n[1] = "fact"
      PROVE  n[2] \in DOMAIN M2.facts /\ M2.nodes[n] = M2.facts[n[2]]
  <2>1. n \in DOMAIN M.nodes /\ n \notin RemovedNodes(M, w)
    BY <1>2
  <2>2. n[2] \in DOMAIN M.facts /\ M.nodes[n] = M.facts[n[2]]
    BY <1>1, <1>3, <2>1 DEF NodesCopied
  <2>3. n[2] \notin Lost(M, w)
    BY <1>3, <2>1 DEF RemovedNodes
  <2>. QED BY <1>2, <1>3, <2>2, <2>3
<1>4. ASSUME NEW n \in DOMAIN M2.nodes, n[1] = "ontology"
      PROVE  n[2] \in DOMAIN M2.schemas /\ M2.nodes[n] = M2.schemas[n[2]]
  <2>1. n \in DOMAIN M.nodes
    BY <1>2
  <2>2. n[2] \in DOMAIN M.schemas /\ M.nodes[n] = M.schemas[n[2]]
    BY <1>1, <1>4, <2>1 DEF NodesCopied
  <2>. QED BY <1>2, <1>4, <2>2
<1>. QED BY <1>3, <1>4 DEF NodesCopied

\* Nothing that is left names the document, lacks a passage or dangles.
LEMMA DeletionCoherent ==
    ASSUME NEW M, Settled(M), NEW w \in Doc, NEW M2, M2 = DeleteDocument(M, w)
    PROVE  Coherent(M2)
<1>1. /\ M \in StateRec /\ Shapes(M) /\ Grounded(M) /\ Supported(M) /\ LiveOnly(M) /\ Closed(M)
  BY DEF Settled, Coherent
<1>2. /\ M2 \in StateRec
      /\ M2.passages = M.passages \ {w} /\ M2.active = M.active \ Lost(M, w)
      /\ M2.lexical = M.lexical \ {w} /\ M2.live = M.live \ {w} /\ M2.raw = M.raw
      /\ DOMAIN M2.facts = DOMAIN M.facts \ Lost(M, w)
      /\ DOMAIN M2.schemas = DOMAIN M.schemas
      /\ DOMAIN M2.nodes = DOMAIN M.nodes \ (RemovedNodes(M, w) \union Orphaned(M, w))
      /\ \A n \in DOMAIN M2.nodes :
           M2.nodes[n] = IF n[1] = "fact" /\ n[2] \in TouchedFacts(M, w) THEN FactLeft(M, w, n[2])
                         ELSE IF n[1] = "ontology" /\ n[2] \in Backed(M, w) THEN SchemaLeft(M, w, n[2])
                         ELSE M.nodes[n]
      /\ M2.edges = (M.edges \ Gone(M, w)) \ Adjacent(M.edges, Orphaned(M, w))
      /\ DOMAIN M2.vectors = {m \in DOMAIN M.vectors \ (RemovedNodes(M, w) \union Orphaned(M, w)) :
                                M.vectors[m] = w => Rekeyed(M, w, m)}
      /\ \A m \in DOMAIN M2.vectors :
           M2.vectors[m] = IF M.vectors[m] # w THEN M.vectors[m]
                           ELSE IF m[1] = "fact" THEN FactLeft(M, w, m[2]).docs[1]
                           ELSE SchemaLeft(M, w, m[2]).docs[1]
      /\ M2.values = M.values \ (DOMAIN M.vectors \ DOMAIN M2.vectors)
  BY DeletionIs
<1>0. FactsLeft(M, M2, w) /\ SchemasLeft(M, M2, w)
  BY DeletionItems
<1>3. \A f \in DOMAIN M2.facts :
        /\ f \in DOMAIN M.facts /\ f \notin Lost(M, w)
        /\ M2.facts[f].docs \in Sources /\ M2.facts[f].docs # <<>> /\ M2.facts[f].passages # {}
        /\ ToSet(M2.facts[f].docs) = ToSet(M.facts[f].docs) \ {w}
        /\ M2.facts[f].passages = M.facts[f].passages \ {w}
  BY <1>0 DEF FactsLeft
<1>4. \A s \in DOMAIN M2.schemas :
        /\ ToSet(M2.schemas[s].docs) = ToSet(M.schemas[s].docs) \ {w}
        /\ M2.schemas[s].facts = M.schemas[s].facts \ Lost(M, w)
        /\ M2.schemas[s].freq >= Len(M2.schemas[s].docs)
        /\ M2.schemas[s].stable <=> M2.schemas[s].freq >= Threshold
  BY <1>0 DEF SchemasLeft
<1>5. NodesCopied(M2, {})
  BY DeletionCopies
<1>6. /\ \A f \in DOMAIN M2.facts : M2.facts[f] \in FactRec
      /\ \A s \in DOMAIN M2.schemas : M2.schemas[s] \in SchemaRec
  BY <1>2, StateIs
<1>7. ASSUME NEW n \in DOMAIN M2.nodes
      PROVE  /\ n \in DOMAIN M.nodes
             /\ n[1] \in {"passage", "entity"} => M2.nodes[n] = M.nodes[n]
  BY <1>2
<1>8. ASSUME NEW m \in DOMAIN M2.vectors
      PROVE  /\ m \in DOMAIN M.vectors
             /\ M.vectors[m] # w => M2.vectors[m] = M.vectors[m]
             /\ M.vectors[m] = w => Rekeyed(M, w, m)
  BY <1>2
<1>9. Shapes(M2)
  <2>1. ASSUME NEW n \in DOMAIN M2.nodes
        PROVE  /\ n[1] = "passage"  => M2.nodes[n].docs = <<n[2]>>
               /\ n[1] = "entity"   => M2.nodes[n].docs = <<>>
               /\ n[1] = "fact"     => M2.nodes[n] \in FactRec
               /\ n[1] = "ontology" => M2.nodes[n] \in SchemaRec
    <3>1. n[1] = "passage" => M2.nodes[n].docs = <<n[2]>>
      BY <1>1, <1>7 DEF Shapes
    <3>2. n[1] = "entity" => M2.nodes[n].docs = <<>>
      BY <1>1, <1>7 DEF Shapes
    <3>3. n[1] = "fact" => M2.nodes[n] \in FactRec
      BY <1>5, <1>6 DEF NodesCopied
    <3>4. n[1] = "ontology" => M2.nodes[n] \in SchemaRec
      BY <1>5, <1>6 DEF NodesCopied
    <3>. QED BY <3>1, <3>2, <3>3, <3>4
  <2>2. ASSUME NEW m \in DOMAIN M2.vectors
        PROVE  m[1] # "entity" /\ (m[1] = "passage" => M2.vectors[m] = m[2])
    BY <1>1, <1>8 DEF Shapes, Rekeyed
  <2>. QED BY <2>1, <2>2 DEF Shapes
<1>10. Grounded(M2)
  <2>1. ASSUME NEW f \in DOMAIN M2.facts
        PROVE  /\ M2.facts[f].docs # <<>> /\ M2.facts[f].passages # {}
               /\ M2.facts[f].passages \subseteq M2.passages \intersect ToSet(M2.facts[f].docs)
               /\ SchemaOf[f] \in DOMAIN M2.schemas
               /\ f \in M2.schemas[SchemaOf[f]].facts
               /\ ToSet(M2.facts[f].docs) \subseteq ToSet(M2.schemas[SchemaOf[f]].docs)
    <3>1. f \in DOMAIN M.facts /\ f \notin Lost(M, w)
      BY <1>3
    <3>2. /\ M.facts[f].passages \subseteq M.passages \intersect ToSet(M.facts[f].docs)
          /\ SchemaOf[f] \in DOMAIN M.schemas
          /\ f \in M.schemas[SchemaOf[f]].facts
          /\ ToSet(M.facts[f].docs) \subseteq ToSet(M.schemas[SchemaOf[f]].docs)
      BY <1>1, <3>1 DEF Grounded
    <3>3. /\ ToSet(M2.facts[f].docs) = ToSet(M.facts[f].docs) \ {w}
          /\ M2.facts[f].passages = M.facts[f].passages \ {w}
      BY <1>3
    <3>4. SchemaOf[f] \in DOMAIN M2.schemas
      BY <1>2, <3>2
    <3>5. /\ ToSet(M2.schemas[SchemaOf[f]].docs) = ToSet(M.schemas[SchemaOf[f]].docs) \ {w}
          /\ M2.schemas[SchemaOf[f]].facts = M.schemas[SchemaOf[f]].facts \ Lost(M, w)
      BY <1>4, <3>4
    <3>. QED BY <1>2, <1>3, <3>1, <3>2, <3>3, <3>4, <3>5
  <2>2. ASSUME NEW s \in DOMAIN M2.schemas, NEW f \in M2.schemas[s].facts
        PROVE  f \in DOMAIN M2.facts /\ SchemaOf[f] = s
    <3>1. s \in DOMAIN M.schemas /\ f \in M.schemas[s].facts /\ f \notin Lost(M, w)
      BY <1>2, <1>4
    <3>. QED BY <1>1, <1>2, <3>1 DEF Grounded
  <2>3. M2.active \subseteq DOMAIN M2.facts
    BY <1>1, <1>2 DEF Grounded
  <2>. QED BY <2>1, <2>2, <2>3 DEF Grounded
<1>11. Supported(M2)
  BY <1>4 DEF Supported
<1>12. LiveOnly(M2)
  <2>1. M2.passages \union M2.lexical \subseteq M2.live
    BY <1>1, <1>2 DEF LiveOnly
  <2>2. ASSUME NEW f \in DOMAIN M2.facts PROVE ToSet(M2.facts[f].docs) \subseteq M2.live
    <3>1. f \in DOMAIN M.facts /\ ToSet(M2.facts[f].docs) = ToSet(M.facts[f].docs) \ {w}
      BY <1>3
    <3>2. ToSet(M.facts[f].docs) \subseteq M.live
      BY <1>1, <3>1 DEF LiveOnly
    <3>3. M2.live = M.live \ {w}
      BY <1>2
    <3>. QED BY <3>1, <3>2, <3>3
  <2>3. ASSUME NEW s \in DOMAIN M2.schemas PROVE ToSet(M2.schemas[s].docs) \subseteq M2.live
    <3>1. s \in DOMAIN M.schemas /\ ToSet(M2.schemas[s].docs) = ToSet(M.schemas[s].docs) \ {w}
      BY <1>2, <1>4
    <3>2. ToSet(M.schemas[s].docs) \subseteq M.live
      BY <1>1, <3>1 DEF LiveOnly
    <3>3. M2.live = M.live \ {w}
      BY <1>2
    <3>. QED BY <3>1, <3>2, <3>3
  <2>4. ASSUME NEW m \in DOMAIN M2.vectors PROVE M2.vectors[m] \in M2.live
    <3>1. CASE M.vectors[m] # w
      BY <1>1, <1>2, <1>8, <3>1 DEF LiveOnly
    <3>2. CASE M.vectors[m] = w /\ m[1] = "fact"
      <4>1. m[2] \in TouchedFacts(M, w) \ Lost(M, w) /\ M2.vectors[m] = FactLeft(M, w, m[2]).docs[1]
        BY <1>2, <1>8, <3>2 DEF Rekeyed
      <4>2. m[2] \in DOMAIN M.facts /\ m[2] \notin Lost(M, w)
        BY <4>1 DEF TouchedFacts
      <4> DEFINE q == FactLeft(M, w, m[2]).docs
      <4>3. FactLeft(M, w, m[2]) \in FactRec /\ q # <<>> /\ ToSet(q) = ToSet(M.facts[m[2]].docs) \ {w}
        BY <4>2, FactLeftIs
      <4>4. q \in Sources
        BY <4>3 DEF FactRec
      <4>5. q[1] \in ToSet(q)
        <5> HIDE DEF q
        <5>. QED BY <4>3, <4>4, SourcesAre
      <4>6. ToSet(M.facts[m[2]].docs) \subseteq M.live
        BY <1>1, <4>2 DEF LiveOnly
      <4>. QED BY <1>2, <4>1, <4>3, <4>5, <4>6
    <3>3. CASE M.vectors[m] = w /\ m[1] # "fact"
      <4>1. /\ m[2] \in Backed(M, w) /\ SchemaLeft(M, w, m[2]).docs # <<>>
            /\ M2.vectors[m] = SchemaLeft(M, w, m[2]).docs[1]
        BY <1>2, <1>8, <3>3 DEF Rekeyed
      <4> DEFINE q == SchemaLeft(M, w, m[2]).docs
      <4>3. SchemaLeft(M, w, m[2]) \in SchemaRec /\ ToSet(q) = ToSet(M.schemas[m[2]].docs) \ {w}
        BY <4>1, SchemaLeftIs
      <4>4. q \in Sources
        BY <4>3 DEF SchemaRec
      <4>5. q[1] \in ToSet(q)
        <5>1. q # <<>>
          BY <4>1
        <5> HIDE DEF q
        <5>. QED BY <4>4, <5>1, SourcesAre
      <4>6. ToSet(M.schemas[m[2]].docs) \subseteq M.live
        BY <1>1, <4>1 DEF LiveOnly, Backed
      <4>. QED BY <1>2, <4>1, <4>3, <4>5, <4>6
    <3>. QED BY <3>1, <3>2, <3>3
  <2>5. ASSUME NEW n \in DOMAIN M2.nodes PROVE ToSet(M2.nodes[n].docs) \subseteq M2.live
    <3>0. n \in NodeId /\ n \in DOMAIN M.nodes /\ n \notin RemovedNodes(M, w)
      BY <1>2, StateIs
    <3>1. CASE n[1] = "fact"
      BY <1>5, <2>2, <3>1 DEF NodesCopied
    <3>2. CASE n[1] = "ontology"
      BY <1>5, <2>3, <3>2 DEF NodesCopied
    <3>3. CASE n[1] = "entity"
      <4>1. M2.nodes[n].docs = <<>>
        BY <1>9, <3>3 DEF Shapes
      <4>. QED BY <4>1, SourcesFew
    <3>4. CASE n[1] = "passage"
      <4>1. M2.nodes[n] = M.nodes[n] /\ M.nodes[n].docs = <<n[2]>>
        BY <1>1, <1>7, <3>0, <3>4 DEF Shapes
      <4>2. n[2] # w /\ n[2] \in Doc
        BY <3>0, <3>4, NodeIdIs DEF RemovedNodes
      <4>3. ToSet(<<n[2]>>) = {n[2]}
        BY <4>2, SourcesFew
      <4>4. ToSet(M.nodes[n].docs) \subseteq M.live
        BY <1>1, <3>0 DEF LiveOnly
      <4>. QED BY <1>2, <4>1, <4>2, <4>3, <4>4
    <3>. QED BY <3>0, <3>1, <3>2, <3>3, <3>4, NodeIdIs
  <2>. QED BY <2>1, <2>2, <2>3, <2>4, <2>5 DEF LiveOnly
<1>13. Closed(M2)
  <2>1. ASSUME NEW e \in M2.edges PROVE e.from \in DOMAIN M2.nodes /\ e.to \in DOMAIN M2.nodes
    <3>1. /\ e \in M.edges /\ e \notin Adjacent(M.edges, RemovedNodes(M, w))
          /\ e \notin Adjacent(M.edges, Orphaned(M, w))
      BY <1>2 DEF Gone, RemovedEdges
    <3>. QED BY <1>1, <1>2, <3>1 DEF Closed, Adjacent
  <2>2. DOMAIN M2.vectors \subseteq M2.values
    BY <1>1, <1>2 DEF Closed
  <2>. QED BY <2>1, <2>2 DEF Closed
<1>. QED BY <1>2, <1>9, <1>10, <1>11, <1>12, <1>13 DEF Coherent

\* The graph and the vectors follow: no entity of a fact that stays is taken
\* for an orphan, and a vector that named the document is re-keyed.
LEMMA DeletionFresh ==
    ASSUME NEW M, Settled(M), NEW w \in Doc, NEW M2, M2 = DeleteDocument(M, w)
    PROVE  Fresh(M2, {}, {}, {})
<1>1. /\ M \in StateRec /\ Shapes(M) /\ Grounded(M) /\ Closed(M)
      /\ NodesCopied(M, {}) /\ VectorsNamed(M, {})
      /\ ~M.raw => NodesThere(M, {}) /\ EdgesThere(M, {}) /\ VectorsThere(M, {})
  BY DEF Settled, Coherent, Fresh
<1>2. /\ M2 \in StateRec
      /\ M2.passages = M.passages \ {w} /\ M2.raw = M.raw
      /\ DOMAIN M2.facts = DOMAIN M.facts \ Lost(M, w)
      /\ \A f \in DOMAIN M2.facts :
           M2.facts[f] = IF f \in TouchedFacts(M, w) THEN FactLeft(M, w, f) ELSE M.facts[f]
      /\ DOMAIN M2.schemas = DOMAIN M.schemas
      /\ \A s \in DOMAIN M2.schemas :
           M2.schemas[s] = IF s \in Backed(M, w) THEN SchemaLeft(M, w, s) ELSE M.schemas[s]
      /\ DOMAIN M2.nodes = DOMAIN M.nodes \ (RemovedNodes(M, w) \union Orphaned(M, w))
      /\ M2.edges = (M.edges \ Gone(M, w)) \ Adjacent(M.edges, Orphaned(M, w))
      /\ DOMAIN M2.vectors = {m \in DOMAIN M.vectors \ (RemovedNodes(M, w) \union Orphaned(M, w)) :
                                M.vectors[m] = w => Rekeyed(M, w, m)}
      /\ \A m \in DOMAIN M2.vectors :
           M2.vectors[m] = IF M.vectors[m] # w THEN M.vectors[m]
                           ELSE IF m[1] = "fact" THEN FactLeft(M, w, m[2]).docs[1]
                           ELSE SchemaLeft(M, w, m[2]).docs[1]
  BY DeletionIs
<1>3. FactsLeft(M, M2, w) /\ SchemasLeft(M, M2, w)
  BY DeletionItems
<1>4. /\ \A f \in DOMAIN M2.facts :
           /\ f \in DOMAIN M.facts /\ f \notin Lost(M, w)
           /\ M.facts[f].docs[1] # w => M2.facts[f].docs[1] = M.facts[f].docs[1]
      /\ \A s \in DOMAIN M2.schemas :
           M.schemas[s].docs # <<>> /\ M.schemas[s].docs[1] # w =>
             M2.schemas[s].docs # <<>> /\ M2.schemas[s].docs[1] = M.schemas[s].docs[1]
  BY <1>3 DEF FactsLeft, SchemasLeft
<1>5. NodesCopied(M2, {})
  BY DeletionCopies
<1>6. ASSUME NEW m \in DOMAIN M2.vectors
      PROVE  /\ m \in DOMAIN M.vectors
             /\ M.vectors[m] # w => M2.vectors[m] = M.vectors[m]
             /\ M.vectors[m] = w => Rekeyed(M, w, m)
             /\ M.vectors[m] = w /\ m[1] = "fact" => M2.vectors[m] = FactLeft(M, w, m[2]).docs[1]
             /\ M.vectors[m] = w /\ m[1] = "ontology" => M2.vectors[m] = SchemaLeft(M, w, m[2]).docs[1]
  BY <1>2
<1>7. VectorsNamed(M2, {})
  <2>1. ASSUME NEW m \in DOMAIN M2.vectors, m[1] = "fact", m[2] \in DOMAIN M2.facts
        PROVE  M2.vectors[m] = M2.facts[m[2]].docs[1]
    <3>1. CASE M.vectors[m] # w
      <4>1. M.vectors[m] = M.facts[m[2]].docs[1]
        BY <1>1, <1>4, <1>6, <2>1 DEF VectorsNamed
      <4>. QED BY <1>4, <1>6, <2>1, <3>1, <4>1
    <3>2. CASE M.vectors[m] = w
      <4>1. m[2] \in TouchedFacts(M, w)
        BY <1>6, <2>1, <3>2 DEF Rekeyed
      <4>2. M2.facts[m[2]] = FactLeft(M, w, m[2])
        BY <1>2, <2>1, <4>1
      <4>. QED BY <1>6, <2>1, <3>2, <4>2
    <3>. QED BY <3>1, <3>2
  <2>2. ASSUME NEW m \in DOMAIN M2.vectors, m[1] = "ontology"
        PROVE  /\ m[2] \in DOMAIN M2.schemas /\ M2.schemas[m[2]].docs # <<>>
               /\ M2.vectors[m] = M2.schemas[m[2]].docs[1]
    <3>0. /\ m[2] \in DOMAIN M.schemas /\ M.schemas[m[2]].docs # <<>>
          /\ M.vectors[m] = M.schemas[m[2]].docs[1]
      BY <1>1, <1>6, <2>2 DEF VectorsNamed
    <3>1. CASE M.vectors[m] # w
      BY <1>2, <1>4, <1>6, <3>0, <3>1
    <3>2. CASE M.vectors[m] = w
      <4>1. m[2] \in Backed(M, w) /\ SchemaLeft(M, w, m[2]).docs # <<>>
        BY <1>6, <2>2, <3>2 DEF Rekeyed
      <4>2. m[2] \in DOMAIN M2.schemas /\ M2.schemas[m[2]] = SchemaLeft(M, w, m[2])
        BY <1>2, <3>0, <4>1
      <4>. QED BY <1>6, <2>2, <3>2, <4>1, <4>2
    <3>. QED BY <3>1, <3>2
  <2>. QED BY <2>1, <2>2 DEF VectorsNamed
<1>8. ASSUME NEW n, n[1] = "entity" PROVE n \notin RemovedNodes(M, w)
  BY <1>8 DEF RemovedNodes
<1>9. ASSUME NEW o \in Orphaned(M, w)
      PROVE  /\ o \in DOMAIN M.nodes /\ o[1] = "entity"
             /\ \A e \in M.edges \ Gone(M, w) : e.rel \in Holding => e.from # o /\ e.to # o
  BY DEF Orphaned, Orphans, Adjacent, Holding
<1>10. ASSUME NEW n \in DOMAIN M.nodes, n[1] = "entity", n \notin Orphaned(M, w)
       PROVE  \/ \A e \in Gone(M, w) : e.from # n /\ e.to # n
              \/ \E e \in M.edges \ Gone(M, w) : e.rel \in Holding /\ (e.from = n \/ e.to = n)
  BY <1>10 DEF Orphaned, Orphans, Adjacent, Holding
<1>11. ASSUME NEW e \in M.edges \ Gone(M, w), e.rel \in Holding
       PROVE  e \in M2.edges /\ e.from \notin Orphaned(M, w) /\ e.to \notin Orphaned(M, w)
  <2>1. e.from \notin Orphaned(M, w) /\ e.to \notin Orphaned(M, w)
    BY <1>9, <1>11
  <2>. QED BY <1>2, <2>1 DEF Adjacent
<1>12. ASSUME NEW f \in DOMAIN M2.facts, ~M.raw
       PROVE  /\ Cooccurrence(f) \in M.edges \ Gone(M, w) /\ Cooccurrence(f).rel \in Holding
              /\ Cooccurrence(f).from = <<"entity", Ends[f][1]>>
              /\ Cooccurrence(f).to = <<"entity", Ends[f][2]>>
  <2>1. f \in DOMAIN M.facts /\ f \notin Lost(M, w)
    BY <1>4
  <2>2. Cooccurrence(f) \in M.edges
    BY <1>1, <1>12, <2>1 DEF EdgesThere
  <2>3. /\ Cooccurrence(f).rel = "entity_cooccurrence" /\ Cooccurrence(f).fact = f
        /\ Cooccurrence(f).from = <<"entity", Ends[f][1]>>
        /\ Cooccurrence(f).to = <<"entity", Ends[f][2]>>
    BY DEF Cooccurrence, Link
  <2>4. Cooccurrence(f).from \notin RemovedNodes(M, w) /\ Cooccurrence(f).to \notin RemovedNodes(M, w)
    BY <2>3 DEF RemovedNodes
  <2>5. Cooccurrence(f) \notin Gone(M, w)
    BY <2>1, <2>3, <2>4 DEF Gone, RemovedEdges, Adjacent
  <2>. QED BY <2>2, <2>3, <2>5 DEF Holding
<1>13. ASSUME ~M.raw PROVE EdgesThere(M2, {})
  <2>1. \A f \in DOMAIN M2.facts : Cooccurrence(f) \in M2.edges
    BY <1>11, <1>12, <1>13
  <2>2. ASSUME NEW n \in DOMAIN M2.nodes, n[1] = "entity"
        PROVE  \E e \in M2.edges : (e.from = n \/ e.to = n) /\ e.rel \in Holding
    <3>1. n \in DOMAIN M.nodes /\ n \notin Orphaned(M, w)
      BY <1>2
    <3>2. PICK e \in M.edges : (e.from = n \/ e.to = n) /\ e.rel \in Holding
      BY <1>1, <1>13, <2>2, <3>1 DEF EdgesThere
    <3>3. \E k \in M.edges \ Gone(M, w) : k.rel \in Holding /\ (k.from = n \/ k.to = n)
      BY <1>10, <2>2, <3>1, <3>2
    <3>. QED BY <1>11, <3>3
  <2>. QED BY <2>1, <2>2 DEF EdgesThere
<1>14. ASSUME ~M.raw PROVE NodesThere(M2, {})
  <2>0. NodesThere(M, {})
    BY <1>1, <1>14
  <2>1. ASSUME NEW d \in M2.passages PROVE <<"passage", d>> \in DOMAIN M2.nodes
    <3>1. d \in M.passages /\ d # w
      BY <1>2
    <3>2. <<"passage", d>> \in DOMAIN M.nodes
      BY <2>0, <3>1 DEF NodesThere
    <3>3. <<"passage", d>> \notin RemovedNodes(M, w)
      BY <3>1 DEF RemovedNodes
    <3>4. <<"passage", d>> \notin Orphaned(M, w)
      BY <1>9
    <3>. QED BY <1>2, <3>2, <3>3, <3>4
  <2>2. ASSUME NEW f \in DOMAIN M2.facts
        PROVE  /\ <<"fact", f>> \in DOMAIN M2.nodes
               /\ <<"entity", Ends[f][1]>> \in DOMAIN M2.nodes
               /\ <<"entity", Ends[f][2]>> \in DOMAIN M2.nodes
    <3>1. f \in DOMAIN M.facts /\ f \notin Lost(M, w)
      BY <1>4
    <3>2. /\ <<"fact", f>> \in DOMAIN M.nodes /\ <<"entity", Ends[f][1]>> \in DOMAIN M.nodes
          /\ <<"entity", Ends[f][2]>> \in DOMAIN M.nodes
      BY <2>0, <3>1 DEF NodesThere
    <3>3. <<"fact", f>> \notin RemovedNodes(M, w) /\ <<"fact", f>> \notin Orphaned(M, w)
      BY <1>9, <3>1 DEF RemovedNodes
    <3>4. /\ <<"entity", Ends[f][1]>> \notin Orphaned(M, w)
          /\ <<"entity", Ends[f][2]>> \notin Orphaned(M, w)
      BY <1>11, <1>12, <1>14
    <3>5. /\ <<"entity", Ends[f][1]>> \notin RemovedNodes(M, w)
          /\ <<"entity", Ends[f][2]>> \notin RemovedNodes(M, w)
      BY <1>8
    <3>. QED BY <1>2, <3>2, <3>3, <3>4, <3>5
  <2>3. ASSUME NEW s \in DOMAIN M2.schemas
        PROVE  M2.schemas[s].docs # <<>> <=> <<"ontology", s>> \in DOMAIN M2.nodes
    <3> DEFINE n == <<"ontology", s>>
    <3>0. n \notin Orphaned(M, w)
      BY <1>9
    <3>1. M.schemas[s].docs # <<>> <=> n \in DOMAIN M.nodes
      BY <1>2, <2>0 DEF NodesThere
    <3>2. CASE s \in Backed(M, w)
      <4>1. M2.schemas[s] = SchemaLeft(M, w, s)
        BY <1>2, <3>2
      <4>2. M.schemas[s].docs # <<>>
        BY <3>2, SchemaLeftIs
      <4>3. n \in RemovedNodes(M, w) <=> SchemaLeft(M, w, s).docs = <<>>
        BY <3>1, <3>2, <4>2 DEF RemovedNodes
      <4> HIDE DEF n
      <4>4. M2.schemas[s].docs # <<>> <=> n \in DOMAIN M2.nodes
        BY <1>2, <3>0, <3>1, <4>1, <4>2, <4>3
      <4>. QED BY <4>4 DEF n
    <3>3. CASE s \notin Backed(M, w)
      <4>1. M2.schemas[s] = M.schemas[s]
        BY <1>2, <3>3
      <4>2. n \notin RemovedNodes(M, w)
        BY <3>3 DEF RemovedNodes
      <4> HIDE DEF n
      <4>3. M2.schemas[s].docs # <<>> <=> n \in DOMAIN M2.nodes
        BY <1>2, <3>0, <3>1, <4>1, <4>2
      <4>. QED BY <4>3 DEF n
    <3>. QED BY <3>2, <3>3
  <2>. QED BY <2>1, <2>2, <2>3 DEF NodesThere
<1>15. ASSUME ~M.raw PROVE VectorsThere(M2, {})
  <2>0. VectorsThere(M, {})
    BY <1>1, <1>15
  <2>1. DOMAIN M2.vectors \subseteq DOMAIN M2.nodes
    BY <1>2, <2>0 DEF VectorsThere
  <2>2. ASSUME NEW n \in DOMAIN M2.nodes, n[1] # "entity" PROVE n \in DOMAIN M2.vectors
    <3>1. /\ n \in DOMAIN M.nodes /\ n \notin RemovedNodes(M, w) /\ n \notin Orphaned(M, w)
          /\ n \in NodeId
      BY <1>2, StateIs
    <3>2. n \in DOMAIN M.vectors
      BY <2>0, <2>2, <3>1 DEF VectorsThere
    <3>3. ASSUME M.vectors[n] = w PROVE Rekeyed(M, w, n)
      <4>1. CASE n[1] = "passage"
        <5>1. n[2] = w
          BY <1>1, <3>2, <3>3, <4>1 DEF Shapes
        <5>. QED BY <3>1, <4>1, <5>1 DEF RemovedNodes
      <4>2. CASE n[1] = "fact"
        <5>1. n[2] \in DOMAIN M.facts
          BY <1>1, <3>1, <4>2 DEF NodesCopied
        <5>2. M.facts[n[2]].docs[1] = w
          BY <1>1, <3>2, <3>3, <4>2, <5>1 DEF VectorsNamed
        <5>3. M.facts[n[2]].docs # <<>> /\ M.facts[n[2]].docs \in Sources
          BY <1>1, <5>1, StateIs DEF Grounded
        <5>4. w \in ToSet(M.facts[n[2]].docs)
          BY <5>2, <5>3, SourcesAre
        <5>5. n[2] \notin Lost(M, w)
          BY <3>1, <4>2 DEF RemovedNodes
        <5>. QED BY <3>1, <4>2, <5>1, <5>4, <5>5 DEF Rekeyed, TouchedFacts, Lists
      <4>3. CASE n[1] = "ontology"
        <5>1. /\ n[2] \in DOMAIN M.schemas /\ M.schemas[n[2]].docs # <<>>
              /\ M.schemas[n[2]].docs[1] = w
          BY <1>1, <3>2, <3>3, <4>3 DEF VectorsNamed
        <5>2. M.schemas[n[2]].docs \in Sources
          BY <1>1, <5>1, StateIs
        <5>3. w \in ToSet(M.schemas[n[2]].docs)
          BY <5>1, <5>2, SourcesAre
        <5>4. n[2] \in Backed(M, w)
          BY <5>1, <5>3 DEF Backed
        <5>. QED BY <3>1, <4>3, <5>4 DEF Rekeyed, RemovedNodes
      <4>. QED BY <2>2, <3>1, <4>1, <4>2, <4>3, NodeIdIs
    <3>. QED BY <1>2, <3>1, <3>2, <3>3
  <2>. QED BY <2>1, <2>2 DEF VectorsThere
<1>. QED BY <1>2, <1>5, <1>7, <1>13, <1>14, <1>15 DEF Fresh

\* Deleting a document leaves a settled state, and marks the indexes unless
\* what they list is unchanged.
LEMMA DeletionStep ==
    ASSUME NEW M, Settled(M), NEW w \in Doc, NEW M2, M2 = DeleteDocument(M, w)
    PROVE  /\ Settled(M2)
           /\ ~Deletion(M, w).changed => Index(M2, TRUE) = Index(M, TRUE)
<1>1. Settled(M2)
  BY DeletionCoherent, DeletionFresh DEF Settled
<1>2. ASSUME ~Deletion(M, w).changed
      PROVE  /\ DOMAIN M2.nodes = DOMAIN M.nodes /\ M2.edges = M.edges
             /\ DOMAIN M2.vectors = DOMAIN M.vectors /\ M2.lexical = M.lexical
  BY <1>2, DeletionIs
<1>. QED BY <1>1, <1>2 DEF Index

-----------------------------------------------------------------------------
(* Requests outside jobs. *)

\* A raw deletion leaves the snapshot alone and takes edges with their nodes.
Thinned(M, K) ==
    /\ K.passages = M.passages /\ K.facts = M.facts /\ K.schemas = M.schemas
    /\ K.active = M.active /\ K.live = M.live
    /\ DOMAIN K.nodes \subseteq DOMAIN M.nodes
    /\ \A n \in DOMAIN K.nodes : K.nodes[n] = M.nodes[n]
    /\ \A e \in K.edges : e \in M.edges /\ e.from \in DOMAIN K.nodes /\ e.to \in DOMAIN K.nodes
    /\ DOMAIN K.vectors \subseteq DOMAIN M.vectors /\ DOMAIN K.vectors \subseteq K.values
    /\ \A n \in DOMAIN K.vectors : K.vectors[n] = M.vectors[n]
    /\ K.lexical \subseteq M.lexical

\* A raw deletion only thins the graph and the vectors.
LEMMA RawStep ==
    ASSUME NEW M, Settled(M), NEW K \in StateRec, Thinned(M, K), NEW M2, M2 = Raw(K)
    PROVE  Settled(M2)
<1>0. /\ M2 \in StateRec /\ M2.raw = TRUE
      /\ M2.passages = M.passages /\ M2.facts = M.facts /\ M2.schemas = M.schemas
      /\ M2.active = M.active /\ M2.live = M.live
      /\ DOMAIN M2.nodes \subseteq DOMAIN M.nodes
      /\ \A n \in DOMAIN M2.nodes : M2.nodes[n] = M.nodes[n]
      /\ \A e \in M2.edges : e \in M.edges /\ e.from \in DOMAIN M2.nodes /\ e.to \in DOMAIN M2.nodes
      /\ DOMAIN M2.vectors \subseteq DOMAIN M.vectors /\ DOMAIN M2.vectors \subseteq M2.values
      /\ \A n \in DOMAIN M2.vectors : M2.vectors[n] = M.vectors[n]
      /\ M2.lexical \subseteq M.lexical
  <2>1. M2 \in StateRec
    BY StateSet DEF Raw
  <2>2. /\ M2.raw = TRUE
        /\ M2.passages = K.passages /\ M2.facts = K.facts /\ M2.schemas = K.schemas
        /\ M2.active = K.active /\ M2.live = K.live /\ M2.nodes = K.nodes
        /\ M2.edges = K.edges /\ M2.vectors = K.vectors /\ M2.values = K.values
        /\ M2.lexical = K.lexical
    BY DEF Raw, StateRec
  <2>. QED BY <2>1, <2>2 DEF Thinned
<1>1. /\ Shapes(M) /\ Grounded(M) /\ Supported(M) /\ LiveOnly(M) /\ Closed(M)
      /\ NodesCopied(M, {}) /\ VectorsNamed(M, {})
  BY DEF Settled, Coherent, Fresh
<1>2. Shapes(M2)
  <2>1. \A n \in DOMAIN M2.nodes : n \in DOMAIN M.nodes /\ M2.nodes[n] = M.nodes[n]
    BY <1>0
  <2>2. \A n \in DOMAIN M2.vectors : n \in DOMAIN M.vectors /\ M2.vectors[n] = M.vectors[n]
    BY <1>0
  <2>. QED BY <1>1, <2>1, <2>2 DEF Shapes
<1>3. Grounded(M2) /\ Supported(M2)
  <2>1. /\ M2.passages = M.passages /\ M2.facts = M.facts /\ M2.schemas = M.schemas
        /\ M2.active = M.active
    BY <1>0
  <2>2. Grounded(M) /\ Supported(M)
    BY <1>1
  <2>3. Grounded(M2)
    BY <2>1, <2>2 DEF Grounded
  <2>4. Supported(M2)
    BY <2>1, <2>2 DEF Supported
  <2>. QED BY <2>3, <2>4
<1>5. LiveOnly(M2)
  <2>1. M2.passages \union M2.lexical \subseteq M2.live
    BY <1>0, <1>1 DEF LiveOnly
  <2>2. \A n \in DOMAIN M2.vectors : M2.vectors[n] \in M2.live
    BY <1>0, <1>1 DEF LiveOnly
  <2>3. \A f \in DOMAIN M2.facts : ToSet(M2.facts[f].docs) \subseteq M2.live
    BY <1>0, <1>1 DEF LiveOnly
  <2>4. \A s \in DOMAIN M2.schemas : ToSet(M2.schemas[s].docs) \subseteq M2.live
    BY <1>0, <1>1 DEF LiveOnly
  <2>5. \A n \in DOMAIN M2.nodes : ToSet(M2.nodes[n].docs) \subseteq M2.live
    BY <1>0, <1>1 DEF LiveOnly
  <2>. QED BY <2>1, <2>2, <2>3, <2>4, <2>5 DEF LiveOnly
<1>6. Closed(M2)
  BY <1>0 DEF Closed
<1>7. NodesCopied(M2, {})
  BY <1>0, <1>1 DEF NodesCopied
<1>8. VectorsNamed(M2, {})
  BY <1>0, <1>1 DEF VectorsNamed
<1>9. Fresh(M2, {}, {}, {})
  BY <1>0, <1>7, <1>8 DEF Fresh
<1>. QED BY <1>0, <1>2, <1>3, <1>5, <1>6, <1>9 DEF Settled, Coherent

\* Nodes deleted, with their edges.
LEMMA DeleteNodesIs ==
    ASSUME NEW M, Coherent(M), NEW N, NEW K, K = DeleteNodes(M, N)
    PROVE  /\ K \in StateRec
           /\ K.passages = M.passages /\ K.facts = M.facts /\ K.schemas = M.schemas
           /\ K.active = M.active /\ K.live = M.live /\ K.vectors = M.vectors
           /\ K.values = M.values /\ K.lexical = M.lexical
           /\ DOMAIN K.nodes \subseteq DOMAIN M.nodes
           /\ \A n \in DOMAIN K.nodes : K.nodes[n] = M.nodes[n]
           /\ \A e \in K.edges : e \in M.edges /\ e.from \in DOMAIN K.nodes /\ e.to \in DOMAIN K.nodes
<1>1. M \in StateRec /\ Closed(M)
  BY DEF Coherent
<1>2. K = [M EXCEPT !.nodes = Drop(M.nodes, N), !.edges = M.edges \ Adjacent(M.edges, N)]
  BY DEF DeleteNodes
<1>3. K \in StateRec
  <2>1. Drop(M.nodes, N) \in Partial(NodeId, NodeRec)
    <3>1. M.nodes \in Partial(NodeId, NodeRec)
      BY <1>1, StateIs
    <3>. QED BY <3>1, PartialClosed
  <2>2. M.edges \ Adjacent(M.edges, N) \in SUBSET EdgeKey
    BY <1>1, StateIs
  <2> DEFINE A == [M EXCEPT !.nodes = Drop(M.nodes, N)]
  <2>3. A \in StateRec
    BY <1>1, <2>1, StateSet
  <2>4. K = [A EXCEPT !.edges = M.edges \ Adjacent(M.edges, N)]
    BY <1>1, <1>2 DEF StateRec
  <2> HIDE DEF A
  <2>. QED BY <2>2, <2>3, <2>4, StateSet
<1>4. /\ K.passages = M.passages /\ K.facts = M.facts /\ K.schemas = M.schemas
      /\ K.active = M.active /\ K.live = M.live /\ K.vectors = M.vectors
      /\ K.values = M.values /\ K.lexical = M.lexical
      /\ K.nodes = Drop(M.nodes, N) /\ K.edges = M.edges \ Adjacent(M.edges, N)
  BY <1>1, <1>2 DEF StateRec
<1>5. /\ DOMAIN K.nodes = DOMAIN M.nodes \ N
      /\ \A n \in DOMAIN K.nodes : K.nodes[n] = M.nodes[n]
  BY <1>4 DEF Drop
<1>6. \A e \in K.edges : e \in M.edges /\ e.from \in DOMAIN K.nodes /\ e.to \in DOMAIN K.nodes
  BY <1>1, <1>4, <1>5 DEF Closed, Adjacent
<1>. QED BY <1>3, <1>4, <1>5, <1>6

\* Vectors dropped with their values, and lexical passages.
DropVectors(K, S, L) ==
    [K EXCEPT !.vectors = Drop(@, S), !.values = @ \ S, !.lexical = L]

\* A deletion of vectors and lexical passages, part by part.
LEMMA DropVectorsIs ==
    ASSUME NEW K \in StateRec, NEW S, NEW L \in SUBSET Doc, NEW K2, K2 = DropVectors(K, S, L)
    PROVE  /\ K2 \in StateRec
           /\ K2.passages = K.passages /\ K2.facts = K.facts /\ K2.schemas = K.schemas
           /\ K2.active = K.active /\ K2.live = K.live /\ K2.nodes = K.nodes
           /\ K2.edges = K.edges /\ K2.values = K.values \ S /\ K2.lexical = L
           /\ DOMAIN K2.vectors = DOMAIN K.vectors \ S
           /\ \A n \in DOMAIN K2.vectors : K2.vectors[n] = K.vectors[n]
<1>1. K2 \in StateRec
  <2>1. Drop(K.vectors, S) \in Partial(NodeId, Doc)
    <3>1. K.vectors \in Partial(NodeId, Doc)
      BY StateIs
    <3>. QED BY <3>1, PartialClosed
  <2>2. K.values \ S \in SUBSET NodeId
    BY StateIs
  <2> DEFINE A == [K EXCEPT !.vectors = Drop(K.vectors, S)]
             B == [A EXCEPT !.values = K.values \ S]
  <2>3. A \in StateRec
    BY <2>1, StateSet
  <2>4. B \in StateRec
    <3> HIDE DEF A
    <3>. QED BY <2>2, <2>3, StateSet
  <2>5. K2 = [B EXCEPT !.lexical = L]
    BY DEF DropVectors, StateRec
  <2> HIDE DEF B
  <2>. QED BY <2>4, <2>5, StateSet
<1>2. /\ K2.passages = K.passages /\ K2.facts = K.facts /\ K2.schemas = K.schemas
      /\ K2.active = K.active /\ K2.live = K.live /\ K2.nodes = K.nodes
      /\ K2.edges = K.edges /\ K2.values = K.values \ S /\ K2.lexical = L
      /\ K2.vectors = Drop(K.vectors, S)
  BY DEF DropVectors, StateRec
<1>. QED BY <1>1, <1>2 DEF Drop

\* Every request leaves a settled state.
LEMMA ApplySettled ==
    ASSUME NEW M, Settled(M), NEW r \in Request, NEW M2, M2 = Apply(M, r)
    PROVE  Settled(M2)
<1>1. M \in StateRec /\ Coherent(M) /\ Closed(M) /\ Grounded(M) /\ LiveOnly(M)
  BY DEF Settled, Coherent
<1>2. CASE r.op = "delete_document"
  <2>1. M2 = DeleteDocument(M, r.doc) /\ r.doc \in Doc
    BY <1>2 DEF Apply, Request
  <2>. QED BY <2>1, DeletionStep
<1>3. CASE r.op = "delete_by_document"
  <2> DEFINE N == {n \in DOMAIN M.nodes : Lists(M.nodes[n], r.doc)}
             S == {n \in DOMAIN M.vectors : M.vectors[n] = r.doc}
             K == DeleteNodes(M, N)
             K2 == DropVectors(K, S, K.lexical \ {r.doc})
  <2>1. M2 = Raw(K2)
    BY <1>3 DEF Apply, DeleteByDocument, DropVectors
  <2> HIDE DEF N, S
  <2>2. /\ K \in StateRec
        /\ K.passages = M.passages /\ K.facts = M.facts /\ K.schemas = M.schemas
        /\ K.active = M.active /\ K.live = M.live /\ K.vectors = M.vectors
        /\ K.values = M.values /\ K.lexical = M.lexical
        /\ DOMAIN K.nodes \subseteq DOMAIN M.nodes
        /\ \A n \in DOMAIN K.nodes : K.nodes[n] = M.nodes[n]
        /\ \A e \in K.edges : e \in M.edges /\ e.from \in DOMAIN K.nodes /\ e.to \in DOMAIN K.nodes
    BY <1>1, DeleteNodesIs
  <2> HIDE DEF K
  <2>3. K.lexical \ {r.doc} \in SUBSET Doc
    BY <2>2, StateIs
  <2>4. /\ K2 \in StateRec
        /\ K2.passages = K.passages /\ K2.facts = K.facts /\ K2.schemas = K.schemas
        /\ K2.active = K.active /\ K2.live = K.live /\ K2.nodes = K.nodes
        /\ K2.edges = K.edges /\ K2.values = K.values \ S /\ K2.lexical = K.lexical \ {r.doc}
        /\ DOMAIN K2.vectors = DOMAIN K.vectors \ S
        /\ \A n \in DOMAIN K2.vectors : K2.vectors[n] = K.vectors[n]
    BY <2>2, <2>3, DropVectorsIs
  <2> HIDE DEF K2
  <2>5. Thinned(M, K2)
    BY <1>1, <2>2, <2>4 DEF Thinned, Closed
  <2>. QED BY <2>1, <2>4, <2>5, RawStep
<1>4. CASE r.op = "vector_delete"
  <2> DEFINE S == {n \in DOMAIN M.vectors : M.vectors[n] = r.doc}
             K == DropVectors(M, S, M.lexical)
  <2>1. M2 = Raw(K)
    BY <1>1, <1>4 DEF Apply, VectorDeleteByDocument, DropVectors, StateRec
  <2> HIDE DEF S
  <2>2. M.lexical \in SUBSET Doc
    BY <1>1, StateIs
  <2>3. /\ K \in StateRec
        /\ K.passages = M.passages /\ K.facts = M.facts /\ K.schemas = M.schemas
        /\ K.active = M.active /\ K.live = M.live /\ K.nodes = M.nodes
        /\ K.edges = M.edges /\ K.values = M.values \ S /\ K.lexical = M.lexical
        /\ DOMAIN K.vectors = DOMAIN M.vectors \ S
        /\ \A n \in DOMAIN K.vectors : K.vectors[n] = M.vectors[n]
    BY <1>1, <2>2, DropVectorsIs
  <2> HIDE DEF K
  <2>4. Thinned(M, K)
    BY <1>1, <2>3 DEF Thinned, Closed
  <2>. QED BY <2>1, <2>3, <2>4, RawStep
<1>5. CASE r.op = "lexical_delete"
  <2> DEFINE K == [M EXCEPT !.lexical = M.lexical \ {r.doc}]
  <2>1. M2 = Raw(K)
    BY <1>5 DEF Apply
  <2>2. K \in StateRec
    <3>1. M.lexical \ {r.doc} \in SUBSET Doc
      BY <1>1, StateIs
    <3>. QED BY <1>1, <3>1, StateSet
  <2>3. /\ K.passages = M.passages /\ K.facts = M.facts /\ K.schemas = M.schemas
        /\ K.active = M.active /\ K.live = M.live /\ K.nodes = M.nodes
        /\ K.edges = M.edges /\ K.vectors = M.vectors /\ K.values = M.values
        /\ K.lexical \subseteq M.lexical
    BY <1>1 DEF StateRec
  <2> HIDE DEF K
  <2>4. Thinned(M, K)
    BY <1>1, <2>3 DEF Thinned, Closed
  <2>. QED BY <2>1, <2>2, <2>4, RawStep
<1>6. CASE r.op = "delete_nodes"
  <2> DEFINE K == DeleteNodes(M, r.nodes)
  <2>1. M2 = Raw(K)
    BY <1>6 DEF Apply
  <2>2. /\ K \in StateRec
        /\ K.passages = M.passages /\ K.facts = M.facts /\ K.schemas = M.schemas
        /\ K.active = M.active /\ K.live = M.live /\ K.vectors = M.vectors
        /\ K.values = M.values /\ K.lexical = M.lexical
        /\ DOMAIN K.nodes \subseteq DOMAIN M.nodes
        /\ \A n \in DOMAIN K.nodes : K.nodes[n] = M.nodes[n]
        /\ \A e \in K.edges : e \in M.edges /\ e.from \in DOMAIN K.nodes /\ e.to \in DOMAIN K.nodes
    BY <1>1, DeleteNodesIs
  <2> HIDE DEF K
  <2>3. Thinned(M, K)
    BY <1>1, <2>2 DEF Thinned, Closed
  <2>. QED BY <2>1, <2>2, <2>3, RawStep
<1>7. CASE r.op = "delete_edges"
  <2> DEFINE E == {e \in M.edges : e.rel \notin r.rel}
             K == [M EXCEPT !.edges = E]
  <2>1. M2 = Raw(K)
    BY <1>7 DEF Apply
  <2>2. E \subseteq M.edges /\ E \in SUBSET EdgeKey
    BY <1>1, StateIs
  <2> HIDE DEF E
  <2>3. K \in StateRec
    BY <1>1, <2>2, StateSet
  <2>4. /\ K.passages = M.passages /\ K.facts = M.facts /\ K.schemas = M.schemas
        /\ K.active = M.active /\ K.live = M.live /\ K.nodes = M.nodes
        /\ K.vectors = M.vectors /\ K.values = M.values
        /\ K.lexical = M.lexical /\ K.edges \subseteq M.edges
    BY <1>1, <2>2 DEF StateRec
  <2> HIDE DEF K
  <2>5. Thinned(M, K)
    BY <1>1, <2>4 DEF Thinned, Closed
  <2>. QED BY <2>1, <2>3, <2>5, RawStep
<1>8. CASE r.op = "activate"
  <2> DEFINE A == M.active \union {f \in DOMAIN M.facts : SchemaOf[f] \in r.schemas}
  <2>1. M2 = [M EXCEPT !.active = A]
    BY <1>8 DEF Apply, ActivateFacts
  <2>2. A \subseteq DOMAIN M.facts /\ A \in SUBSET Fact
    BY <1>1, StateIs DEF Grounded
  <2> HIDE DEF A
  <2>3. M2 \in StateRec
    BY <1>1, <2>1, <2>2, StateSet
  <2>4. /\ M2.passages = M.passages /\ M2.facts = M.facts /\ M2.schemas = M.schemas
        /\ M2.nodes = M.nodes /\ M2.edges = M.edges /\ M2.vectors = M.vectors
        /\ M2.values = M.values /\ M2.live = M.live /\ M2.lexical = M.lexical
        /\ M2.raw = M.raw /\ M2.active = A
    BY <1>1, <2>1 DEF StateRec
  <2>5. M2.active \subseteq DOMAIN M.facts /\ M2.lexical \subseteq M.live
    BY <1>1, <2>2, <2>4 DEF LiveOnly
  <2>. QED BY <2>3, <2>4, <2>5, SettledSame
<1>9. CASE r.op = "save"
  <2>1. M2 = [M EXCEPT !.active = {}]
    BY <1>9 DEF Apply, MemorySave
  <2>3. M2 \in StateRec
    BY <1>1, <2>1, StateSet
  <2>4. /\ M2.passages = M.passages /\ M2.facts = M.facts /\ M2.schemas = M.schemas
        /\ M2.nodes = M.nodes /\ M2.edges = M.edges /\ M2.vectors = M.vectors
        /\ M2.values = M.values /\ M2.live = M.live /\ M2.lexical = M.lexical
        /\ M2.raw = M.raw /\ M2.active = {}
    BY <1>1, <2>1 DEF StateRec
  <2>5. M2.active \subseteq DOMAIN M.facts /\ M2.lexical \subseteq M.live
    BY <1>1, <2>4 DEF LiveOnly
  <2>. QED BY <2>3, <2>4, <2>5, SettledSame
<1>10. CASE r.op = "delete_by_corpus"
  <2>1. M2 = Empty
    BY <1>10 DEF Apply
  <2>. QED BY <2>1, EmptySettled
<1>11. r.op \in {"delete_document", "delete_by_document", "vector_delete", "lexical_delete",
                 "delete_nodes", "delete_edges", "activate", "save", "delete_by_corpus"}
  BY DEF Request
<1>. QED BY <1>2, <1>3, <1>4, <1>5, <1>6, <1>7, <1>8, <1>9, <1>10, <1>11

\* A request that does not mark the indexes changes nothing they list.
LEMMA ApplyMarks ==
    ASSUME NEW M, Settled(M), NEW r \in Request, ~Marked(M, r), NEW M2, M2 = Apply(M, r)
    PROVE  Index(M2, TRUE) = Index(M, TRUE)
<1>1. M \in StateRec
  BY DEF Settled, Coherent
<1>2. CASE r.op = "delete_document"
  <2>1. M2 = DeleteDocument(M, r.doc) /\ r.doc \in Doc /\ ~Deletion(M, r.doc).changed
    BY <1>2 DEF Apply, Request, Marked
  <2>. QED BY <2>1, DeletionStep
<1>3. CASE r.op # "delete_document"
  <2>1. r.op = "save"
    BY <1>3 DEF Marked
  <2>2. M2 = [M EXCEPT !.active = {}]
    BY <2>1 DEF Apply, MemorySave
  <2>3. /\ M2.nodes = M.nodes /\ M2.edges = M.edges /\ M2.vectors = M.vectors
        /\ M2.lexical = M.lexical
    BY <1>1, <2>2 DEF StateRec
  <2>. QED BY <2>3 DEF Index
<1>. QED BY <1>2, <1>3

-----------------------------------------------------------------------------
(* The invariant, action by action. *)

\* What an owner may be about to send, by its stage.
LEMMA AtIs ==
    ASSUME TxInv, NEW o, NEW i, At(o, i)
    PROVE  /\ tx # None /\ tx \in [owner : Doc \union {Operator}, stage : 1..6] /\ tx.owner = o
           /\ gen \in Nat /\ gen < MaxGen
           /\ i = "memory"  => tx.stage = 1
           /\ i = "nodes"   => tx.stage = 2
           /\ i = "edges"   => tx.stage = 3
           /\ i = "vectors" => tx.stage = 4
           /\ i = "lexical" => tx.stage = 5
           /\ i = "done"    => tx.stage = 6
<1>1. /\ tx # None /\ tx \in [owner : Doc \union {Operator}, stage : 1..6] /\ tx.owner = o
      /\ gen \in Nat /\ gen < MaxGen /\ Stage[tx.stage] = i
  BY DEF TxInv, At
<1>2. tx.stage \in 1..6
  BY <1>1
<1>3. \/ tx.stage = 1 /\ Stage[tx.stage] = "memory"
      \/ tx.stage = 2 /\ Stage[tx.stage] = "nodes"
      \/ tx.stage = 3 /\ Stage[tx.stage] = "edges"
      \/ tx.stage = 4 /\ Stage[tx.stage] = "vectors"
      \/ tx.stage = 5 /\ Stage[tx.stage] = "lexical"
      \/ tx.stage = 6 /\ Stage[tx.stage] = "done"
  BY <1>2 DEF Stage
<1>. QED BY <1>1, <1>3

\* Before a job's merge and after its vectors the state is settled.
LEMMA MemSettled ==
    ASSUME MemInv, tx = None \/ tx.stage \in {1, 5, 6}
    PROVE  Settled(mem)
<1>1. Stale(2) = {} /\ Stale(3) = {} /\ Stale(4) = {}
  BY DEF Stale
<1>. QED BY <1>1 DEF MemInv, Settled

\* A state that is settled is in the invariant where no job is under way.
LEMMA SettledMem ==
    ASSUME Settled(mem'), tx' = None \/ tx'.stage \in {1, 5, 6}
    PROVE  MemInv'
<1>1. Stale(2)' = {} /\ Stale(3)' = {} /\ Stale(4)' = {}
  BY DEF Stale
<1>2. Coherent(mem)' /\ Fresh(mem, {}, {}, {})'
  BY DEF Settled
<1>. QED BY <1>1, <1>2 DEF MemInv

\* A job whose projections did not change.
LEMMA PlanKept ==
    ASSUME NEW d, plan'[d] = plan[d]
    PROVE  /\ Pending(d)' = Pending(d)
           /\ Merged(mem, d)' <=> Merged(mem', d)
<1>1. Pending(d)' = Pending(d)
  BY DEF Pending, FactsSent, SchemasOf, Mentioned
<1>2. Merged(mem, d)' <=> Merged(mem', d)
  BY DEF Merged, FactsSent, SchemasOf, FirstSource
<1>. QED BY <1>1, <1>2

\* Projections that stay.
LEMMA PlanUnchanged ==
    ASSUME PlanInv, plan' = plan
    PROVE  PlanInv'
BY DEF PlanInv, PlanRec

\* The projections a job holds were read from a state in the invariant.
LEMMA PlannedFrom ==
    ASSUME PlanInv, NEW d \in Doc, plan[d] # None
    PROVE  Planned(d)
BY DEF PlanInv, Planned

\* A step the paging client does not see.
LEMMA PagerUnchanged ==
    ASSUME PagerInv, pager' = pager, gen' = gen, durable' = durable
    PROVE  PagerInv'
BY DEF PagerInv

\* The projections dropped when a batch ends.
LEMMA PlanDropped ==
    ASSUME PlanInv, plan' = [d \in Doc |-> plan'[d]],
           \A d \in Doc : plan'[d] = None \/ plan'[d] = plan[d]
    PROVE  PlanInv'
<1>2. ASSUME NEW d \in Doc, plan'[d] # None
      PROVE  plan'[d] = plan[d] /\ plan[d] # None
  BY <1>2
<1>3. ASSUME NEW d \in Doc, plan'[d] # None
      PROVE  /\ plan'[d] \in PlanRec(d) /\ Evidence[d] \subseteq plan'[d].facts
             /\ \A f \in plan'[d].facts \ Evidence[d] :
                  SchemaOf[f] \in DOMAIN plan'[d].schemas /\ f \in plan'[d].schemas[SchemaOf[f]].facts
  BY <1>2, <1>3 DEF PlanInv
<1>. QED BY <1>3 DEF PlanInv

\* A new corpus satisfies the invariant.
LEMMA InitInv == Init => Inv
<1> SUFFICES ASSUME Init PROVE Inv
  OBVIOUS
<1>1. mem = Empty /\ durable = Empty /\ tx = None /\ gen = 0 /\ cache = Dirty /\ pager = NoPager
  BY DEF Init
<1>2. Settled(mem) /\ Settled(durable)
  BY <1>1, EmptySettled
<1>3. MemInv
  <2>1. Stale(2) = {} /\ Stale(3) = {} /\ Stale(4) = {}
    BY <1>1 DEF Stale
  <2>. QED BY <1>2, <2>1 DEF MemInv, Settled
<1>4. PlanInv
  BY DEF Init, PlanInv
<1>5. TxInv
  BY <1>1, ShapesAssumption DEF TxInv
<1>6. CacheInv
  BY <1>1 DEF CacheInv
<1>7. PagerInv
  <2>1. pager = [gen |-> None, offset |-> 0, got |-> {}, done |-> FALSE] /\ None \notin Nat
    BY <1>1, ShapesAssumption DEF NoPager
  <2>2. /\ pager.gen = None /\ pager.gen # gen
        /\ pager \in [gen : Nat \union {None}, offset : Nat, got : SUBSET EdgeKey, done : BOOLEAN]
    BY <1>1, <2>1
  <2>. QED BY <1>1, <2>2 DEF PagerInv
<1>. QED BY <1>2, <1>3, <1>4, <1>5, <1>6, <1>7 DEF Inv

\* A batch and its projections are lost together.
LEMMA RestartInv ==
    ASSUME Inv, Restart, UNCHANGED <<durable, gen, pager>>
    PROVE  Inv'
<1>0. /\ Settled(durable) /\ PlanInv /\ TxInv /\ PagerInv
      /\ mem' = durable /\ tx' = None /\ cache' = Dirty
      /\ plan' = [d \in Doc |-> IF tx # None /\ tx.owner = d THEN None ELSE plan[d]]
  BY DEF Inv, Restart
<1>1. MemInv'
  BY <1>0, SettledMem
<1>2. Settled(durable)'
  BY <1>0
<1>3. PlanInv'
  <2>1. plan' = [d \in Doc |-> plan'[d]] /\ \A d \in Doc : plan'[d] = None \/ plan'[d] = plan[d]
    BY <1>0
  <2>. QED BY <1>0, <2>1, PlanDropped
<1>4. TxInv'
  BY <1>0 DEF TxInv
<1>5. CacheInv'
  BY <1>0 DEF CacheInv
<1>6. PagerInv'
  BY <1>0, PagerUnchanged
<1>. QED BY <1>1, <1>2, <1>3, <1>4, <1>5, <1>6 DEF Inv

\* A projection holds the schema of every other document's fact it mentions.
LEMMA ProjectInv ==
    ASSUME Inv, NEW d \in Doc, Project(d)
    PROVE  Inv'
<1>0. /\ MemInv /\ Settled(durable) /\ PlanInv /\ TxInv /\ CacheInv /\ PagerInv
      /\ plan[d] = None /\ plan' = [plan EXCEPT ![d] = SchemaProjection(mem, d)]
      /\ mem' = mem /\ durable' = durable /\ gen' = gen /\ tx' = tx /\ cache' = cache /\ pager' = pager
  BY DEF Inv, Project
<1>1. mem \in StateRec /\ Grounded(mem)
  BY <1>0 DEF MemInv, Coherent
<1>2. DOMAIN plan = Doc
  BY <1>0 DEF PlanInv
<1> DEFINE p == SchemaProjection(mem, d)
<1>3. /\ p \in PlanRec(d) /\ Evidence[d] \subseteq p.facts
      /\ \A f \in p.facts \ Evidence[d] :
           SchemaOf[f] \in DOMAIN p.schemas /\ f \in p.schemas[SchemaOf[f]].facts
  <2> DEFINE K == {SchemaOf[f] : f \in Contributes[d]}
  <2>1. /\ p = [schemas |-> Keep(mem.schemas, K),
                facts |-> {f \in Contributes[d] : f \in Evidence[d] \/ f \in DOMAIN mem.facts}]
    BY DEF SchemaProjection
  <2>2. p.schemas = Keep(mem.schemas, K) /\ p.facts \subseteq Contributes[d]
    BY <2>1
  <2>3. p.schemas \in Partial(Schema, SchemaRec)
    <3>1. mem.schemas \in Partial(Schema, SchemaRec)
      BY <1>1, StateIs
    <3> HIDE DEF p, K
    <3>. QED BY <2>2, <3>1, PartialClosed
  <2>4. p \in PlanRec(d)
    BY <2>1, <2>2, <2>3 DEF PlanRec
  <2>5. Evidence[d] \subseteq p.facts
    BY <2>1, ContributionsAssumption
  <2>6. ASSUME NEW f \in p.facts \ Evidence[d]
        PROVE  SchemaOf[f] \in DOMAIN p.schemas /\ f \in p.schemas[SchemaOf[f]].facts
    <3>1. f \in Contributes[d] /\ f \in DOMAIN mem.facts
      BY <2>1
    <3>2. SchemaOf[f] \in DOMAIN mem.schemas /\ f \in mem.schemas[SchemaOf[f]].facts
      BY <1>1, <3>1 DEF Grounded
    <3>3. SchemaOf[f] \in K
      BY <3>1
    <3>. QED BY <2>2, <3>2, <3>3 DEF Keep
  <2>. QED BY <2>4, <2>5, <2>6
<1> HIDE DEF p
<1>4. PlanInv'
  <2>1. plan' = [c \in Doc |-> IF c = d THEN p ELSE plan[c]]
    BY <1>0, <1>2 DEF p
  <2>2. plan' = [c \in Doc |-> plan'[c]]
    BY <2>1
  <2>3. ASSUME NEW c \in Doc, plan'[c] # None
        PROVE  /\ plan'[c] \in PlanRec(c) /\ Evidence[c] \subseteq plan'[c].facts
               /\ \A f \in plan'[c].facts \ Evidence[c] :
                    SchemaOf[f] \in DOMAIN plan'[c].schemas /\ f \in plan'[c].schemas[SchemaOf[f]].facts
    <3>1. CASE c = d
      BY <1>3, <2>1, <3>1
    <3>2. CASE c # d
      <4>1. plan'[c] = plan[c] /\ plan[c] # None
        BY <2>1, <2>3, <3>2
      <4>. QED BY <1>0, <4>1 DEF PlanInv
    <3>. QED BY <3>1, <3>2
  <2>. QED BY <2>2, <2>3 DEF PlanInv
<1>5. CASE tx # None /\ tx.stage \in 2..5
  <2>1. tx.owner \in Doc /\ Merged(mem, tx.owner)
    BY <1>0, <1>5 DEF TxInv
  <2>2. plan'[tx.owner] = plan[tx.owner]
    BY <1>0, <1>2, <2>1 DEF Merged
  <2>3. Pending(tx.owner)' = Pending(tx.owner) /\ Merged(mem, tx.owner)'
    <3>1. (Pending(tx.owner))' = Pending(tx.owner) /\ ((Merged(mem, tx.owner))' <=> Merged(mem', tx.owner))
      BY <1>0, <2>2 DEF Pending, FactsSent, SchemasOf, Mentioned, Merged, FirstSource
    <3>. QED BY <1>0, <2>1, <3>1
  <2>4. MemInv'
    BY <1>0, <2>3 DEF MemInv, Stale
  <2>5. TxInv'
    BY <1>0, <2>3 DEF TxInv
  <2>. QED BY <1>0, <1>4, <2>4, <2>5, PagerUnchanged DEF Inv, CacheInv
<1>6. CASE ~(tx # None /\ tx.stage \in 2..5)
  <2>1. tx = None \/ tx.stage \in {1, 5, 6}
    BY <1>0, <1>6 DEF TxInv
  <2>2. MemInv'
    <3>1. Settled(mem')
      BY <1>0, <2>1, MemSettled
    <3>. QED BY <1>0, <2>1, <3>1, SettledMem
  <2>3. TxInv'
    BY <1>0, <1>6 DEF TxInv
  <2>. QED BY <1>0, <1>4, <2>2, <2>3, PagerUnchanged DEF Inv, CacheInv
<1>. QED BY <1>5, <1>6

\* What the graph and the vectors lack after a step of the job of d.
LEMMA StaleNext ==
    ASSUME NEW d, NEW k \in 1..6, tx' = [owner |-> d, stage |-> k], tx' # None, plan' = plan
    PROVE  /\ Stale(2)' = IF k = 2 THEN Pending(d) ELSE {}
           /\ Stale(3)' = IF k \in {2, 3} THEN Pending(d) ELSE {}
           /\ Stale(4)' = IF k \in {2, 3, 4} THEN Pending(d) ELSE {}
<1>1. Pending(d)' = Pending(d)
  BY PlanKept
<1>2. tx'.owner = d /\ tx'.stage = k
  OBVIOUS
<1>3. Pending(tx.owner)' = Pending(d)
  BY <1>2 DEF Pending, FactsSent, SchemasOf, Mentioned
<1>4. \A i \in {2, 3, 4} : Stale(i)' = IF k \in 2..i THEN Pending(d) ELSE {}
  BY <1>2, <1>3 DEF Stale
<1>. QED BY <1>4

\* A step of a job leaves the other parts of the invariant alone.
LEMMA JobMoved ==
    ASSUME Inv, tx # None, NEW d \in Doc, tx.owner = d,
           NEW k \in 2..6, tx' = [tx EXCEPT !.stage = k],
           plan' = plan, durable' = durable, gen' = gen, pager' = pager, cache' = Dirty,
           Coherent(mem'),
           Fresh(mem', IF k = 2 THEN Pending(d) ELSE {}, IF k \in {2, 3} THEN Pending(d) ELSE {},
                       IF k \in {2, 3, 4} THEN Pending(d) ELSE {}),
           k \in 2..5 => Merged(mem', d),
           k \in 3..5 => Pending(d) \subseteq DOMAIN mem'.nodes
    PROVE  Inv'
<1>1. /\ Settled(durable) /\ PlanInv /\ TxInv /\ PagerInv
      /\ tx \in [owner : Doc \union {Operator}, stage : 1..6] /\ gen < MaxGen /\ gen \in 0..MaxGen
  BY DEF Inv, TxInv
<1>2. tx' = [owner |-> d, stage |-> k]
  BY <1>1
<1>3. tx' # None /\ tx' \in [owner : Doc \union {Operator}, stage : 1..6]
  <2>1. k \in Nat /\ k \in 1..6
    OBVIOUS
  <2>2. tx' \in [owner : Doc \union {Operator}, stage : Nat]
    BY <1>2, <2>1
  <2>3. tx' # None
    BY <2>2, ShapesAssumption
  <2>. QED BY <1>2, <2>1, <2>3
<1>4. /\ Stale(2)' = IF k = 2 THEN Pending(d) ELSE {}
      /\ Stale(3)' = IF k \in {2, 3} THEN Pending(d) ELSE {}
      /\ Stale(4)' = IF k \in {2, 3, 4} THEN Pending(d) ELSE {}
  <2>1. k \in 1..6
    OBVIOUS
  <2>. QED BY <1>2, <1>3, <2>1, StaleNext
<1>5. MemInv'
  <2>1. Coherent(mem)' /\ Fresh(mem, Stale(2), Stale(3), Stale(4))'
    BY <1>4
  <2>. QED BY <2>1 DEF MemInv
<1>6. TxInv'
  <2>1. Pending(d)' = Pending(d) /\ (Merged(mem, d)' <=> Merged(mem', d))
    BY PlanKept
  <2>2. tx'.owner = d /\ tx'.stage = k
    BY <1>2
  <2>3. tx'.stage \in 2..5 => tx'.owner \in Doc /\ Merged(mem, tx.owner)'
    <3>1. Merged(mem, tx.owner)' <=> Merged(mem, d)'
      BY <2>2 DEF Merged, FactsSent, SchemasOf, FirstSource
    <3>. QED BY <2>1, <2>2, <3>1
  <2>4. tx'.stage \in 3..5 => Pending(tx.owner)' \subseteq DOMAIN mem'.nodes
    <3>1. Pending(tx.owner)' = Pending(d)'
      BY <2>2 DEF Pending, FactsSent, SchemasOf, Mentioned
    <3>. QED BY <2>1, <2>2, <3>1
  <2>. QED BY <1>1, <1>3, <2>3, <2>4 DEF TxInv
<1>. QED BY <1>1, <1>5, <1>6, PlanUnchanged, PagerUnchanged DEF Inv, CacheInv

\* A new batch changes nothing yet.
LEMMA BeginInv ==
    ASSUME Inv, NEW o \in Doc \union {Operator}, Begin(o)
    PROVE  Inv'
<1>1. /\ MemInv /\ Settled(durable) /\ PlanInv /\ TxInv /\ CacheInv /\ PagerInv
      /\ tx = None /\ gen < (IF o = Operator THEN MaxOperatorGen ELSE MaxGen)
      /\ tx' = [owner |-> o, stage |-> 1]
      /\ mem' = mem /\ durable' = durable /\ gen' = gen /\ plan' = plan /\ cache' = cache /\ pager' = pager
  BY DEF Inv, Begin
<1>2. tx' # None /\ tx' \in [owner : Doc \union {Operator}, stage : 1..6] /\ tx'.stage = 1
  BY <1>1, ShapesAssumption
<1>3. gen \in 0..MaxGen /\ gen < MaxGen
  <2>1. gen \in 0..MaxGen
    BY <1>1 DEF TxInv
  <2>2. MaxGen \in Nat /\ MaxOperatorGen \in 0..MaxGen
    BY ShapesAssumption
  <2>3. CASE o = Operator
    BY <1>1, <2>1, <2>2, <2>3
  <2>4. CASE o # Operator
    BY <1>1, <2>1, <2>2, <2>4
  <2>. QED BY <2>1, <2>3, <2>4
<1>4. MemInv'
  <2>1. Settled(mem')
    BY <1>1, MemSettled
  <2>. QED BY <1>2, <2>1, SettledMem
<1>5. TxInv'
  BY <1>1, <1>2, <1>3 DEF TxInv
<1>. QED BY <1>1, <1>4, <1>5, PlanUnchanged, PagerUnchanged DEF Inv, CacheInv

\* memory_delete_document in the batch of the document's job.
LEMMA JobDeleteInv ==
    ASSUME Inv, NEW d \in Doc, JobDelete(d)
    PROVE  Inv'
<1>1. /\ MemInv /\ Settled(durable) /\ PlanInv /\ TxInv /\ CacheInv /\ PagerInv
      /\ At(d, "memory") /\ mem' = DeleteDocument(mem, d)
      /\ cache' = (IF Deletion(mem, d).changed THEN Dirty ELSE cache)
      /\ plan' = [plan EXCEPT ![d] = None]
      /\ durable' = durable /\ gen' = gen /\ tx' = tx /\ pager' = pager
  BY DEF Inv, JobDelete, DeleteDocument
<1>2. /\ tx # None /\ tx \in [owner : Doc \union {Operator}, stage : 1..6] /\ tx.stage = 1
      /\ gen \in Nat /\ gen < MaxGen
  BY <1>1, AtIs
<1>3. Settled(mem)
  BY <1>1, <1>2, MemSettled
<1>4. /\ Settled(mem')
      /\ ~Deletion(mem, d).changed => Index(mem', TRUE) = Index(mem, TRUE)
  <2>1. \A M2 : M2 = DeleteDocument(mem, d) =>
           /\ Settled(M2)
           /\ ~Deletion(mem, d).changed => Index(M2, TRUE) = Index(mem, TRUE)
    BY <1>3, DeletionStep
  <2>. QED BY <1>1, <2>1
<1>5. MemInv'
  BY <1>1, <1>2, <1>4, SettledMem
<1>6. PlanInv'
  <2>1. DOMAIN plan = Doc
    BY <1>1 DEF PlanInv
  <2>2. plan' = [c \in Doc |-> plan'[c]] /\ \A c \in Doc : plan'[c] = None \/ plan'[c] = plan[c]
    BY <1>1, <2>1
  <2>. QED BY <1>1, <2>2, PlanDropped
<1>7. TxInv'
  <2>1. tx' # None /\ tx'.stage = 1
    BY <1>1, <1>2
  <2>. QED BY <1>1, <1>2, <2>1 DEF TxInv
<1>8. CacheInv'
  <2>1. CASE Deletion(mem, d).changed
    BY <1>1, <2>1 DEF CacheInv
  <2>2. CASE ~Deletion(mem, d).changed
    <3>1. cache = Dirty \/ cache = Index(mem', TRUE)
      BY <1>1, <1>4, <2>2 DEF CacheInv
    <3>2. cache' = cache
      BY <1>1, <2>2
    <3>3. Index(mem, TRUE)' = Index(mem', TRUE)
      OBVIOUS
    <3>. QED BY <3>1, <3>2, <3>3 DEF CacheInv
  <2>. QED BY <2>1, <2>2
<1>. QED BY <1>1, <1>5, <1>6, <1>7, <1>8, PagerUnchanged DEF Inv

\* memory_upsert: the schema intents of the projections apply, or the process
\* ends.
LEMMA JobUpsertInv ==
    ASSUME Inv, NEW d \in Doc, JobUpsert(d)
    PROVE  Inv'
<1>1. /\ MemInv /\ Settled(durable) /\ PlanInv /\ TxInv /\ CacheInv /\ PagerInv
      /\ At(d, "memory") /\ plan[d] # None /\ durable' = durable /\ gen' = gen /\ pager' = pager
  BY DEF Inv, JobUpsert
<1>2. tx # None /\ tx.owner = d /\ tx.stage = 1
  BY <1>1, AtIs
<1>3. Settled(mem) /\ Planned(d)
  BY <1>1, <1>2, MemSettled, PlannedFrom
<1>4. CASE ValidMerges(mem, d)
  <2>1. /\ mem' = MemoryUpsert(mem, d) /\ cache' = Dirty
        /\ tx' = [tx EXCEPT !.stage = 2] /\ plan' = plan
    BY <1>4 DEF JobUpsert
  <2>2. Coherent(mem)
    BY <1>3 DEF Settled
  <2>3. Coherent(mem')
    <3>1. \A M2 : M2 = MemoryUpsert(mem, d) => Coherent(M2)
      BY <1>3, <1>4, <2>2, UpsertCoherent
    <3>. QED BY <2>1, <3>1
  <2>4. Fresh(mem', Pending(d), Pending(d), Pending(d)) /\ Merged(mem', d)
    <3>1. \A M2 : M2 = MemoryUpsert(mem, d) =>
             Fresh(M2, Pending(d), Pending(d), Pending(d)) /\ Merged(M2, d)
      BY <1>1, <1>3, <1>4, UpsertFresh
    <3>. QED BY <2>1, <3>1
  <2>5. Inv /\ 2 \in 2..6
    OBVIOUS
  <2>. QED BY <1>1, <1>2, <2>1, <2>3, <2>4, <2>5, JobMoved
<1>5. CASE ~ValidMerges(mem, d)
  <2>1. Restart
    BY <1>5 DEF JobUpsert
  <2>. QED BY <1>1, <2>1, RestartInv
<1>. QED BY <1>4, <1>5

\* What a job has done when its next request is due.
LEMMA JobAt ==
    ASSUME Inv, NEW d \in Doc, tx # None, tx.owner = d, NEW k \in 2..5, tx.stage = k
    PROVE  /\ Coherent(mem) /\ Planned(d) /\ Merged(mem, d)
           /\ Fresh(mem, IF k = 2 THEN Pending(d) ELSE {}, IF k \in {2, 3} THEN Pending(d) ELSE {},
                         IF k \in {2, 3, 4} THEN Pending(d) ELSE {})
           /\ k \in 3..5 => Pending(d) \subseteq DOMAIN mem.nodes
<1>1. MemInv /\ PlanInv /\ TxInv
  BY DEF Inv
<1>2. Merged(mem, d) /\ (k \in 3..5 => Pending(d) \subseteq DOMAIN mem.nodes)
  BY <1>1 DEF TxInv
<1>3. Planned(d)
  BY <1>1, <1>2, PlannedFrom DEF Merged
<1>4. /\ Stale(2) = IF k = 2 THEN Pending(d) ELSE {}
      /\ Stale(3) = IF k \in {2, 3} THEN Pending(d) ELSE {}
      /\ Stale(4) = IF k \in {2, 3, 4} THEN Pending(d) ELSE {}
  BY DEF Stale
<1>. QED BY <1>1, <1>2, <1>3, <1>4 DEF MemInv

\* upsert_nodes.
LEMMA JobNodesInv ==
    ASSUME Inv, NEW d \in Doc, JobNodes(d)
    PROVE  Inv'
<1>1. /\ At(d, "nodes") /\ mem' = UpsertNodes(mem, d) /\ cache' = Dirty
      /\ tx' = [tx EXCEPT !.stage = @ + 1]
      /\ durable' = durable /\ gen' = gen /\ plan' = plan /\ pager' = pager
  BY DEF JobNodes, JobStep
<1>2. tx # None /\ tx.owner = d /\ tx.stage = 2
  <2>1. TxInv
    BY DEF Inv
  <2>. QED BY <1>1, <2>1, AtIs
<1>3. /\ Coherent(mem) /\ Planned(d) /\ Merged(mem, d)
      /\ Fresh(mem, Pending(d), Pending(d), Pending(d))
  <2>1. 2 \in 2..5
    OBVIOUS
  <2>. QED BY <1>2, <2>1, JobAt
<1>4. /\ Coherent(mem') /\ Fresh(mem', {}, Pending(d), Pending(d)) /\ Merged(mem', d)
      /\ Pending(d) \subseteq DOMAIN mem'.nodes
  <2>1. \A M2 : M2 = UpsertNodes(mem, d) =>
           /\ Coherent(M2) /\ Fresh(M2, {}, Pending(d), Pending(d)) /\ Merged(M2, d)
           /\ Pending(d) \subseteq DOMAIN M2.nodes
    BY <1>3, NodesStep
  <2>. QED BY <1>1, <2>1
<1>5. tx' = [tx EXCEPT !.stage = 3] /\ 3 \in 2..6
  BY <1>1, <1>2
<1>. QED BY <1>1, <1>2, <1>4, <1>5, JobMoved

\* upsert_edges.
LEMMA JobEdgesInv ==
    ASSUME Inv, NEW d \in Doc, JobEdges(d)
    PROVE  Inv'
<1>1. /\ At(d, "edges") /\ mem' = UpsertEdges(mem, d) /\ cache' = Dirty
      /\ tx' = [tx EXCEPT !.stage = @ + 1]
      /\ durable' = durable /\ gen' = gen /\ plan' = plan /\ pager' = pager
  BY DEF JobEdges, JobStep
<1>2. tx # None /\ tx.owner = d /\ tx.stage = 3
  <2>1. TxInv
    BY DEF Inv
  <2>. QED BY <1>1, <2>1, AtIs
<1>3. /\ Coherent(mem) /\ Planned(d) /\ Merged(mem, d)
      /\ Fresh(mem, {}, Pending(d), Pending(d)) /\ Pending(d) \subseteq DOMAIN mem.nodes
  <2>1. 3 \in 2..5 /\ 3 \in 3..5
    OBVIOUS
  <2>. QED BY <1>2, <2>1, JobAt
<1>4. /\ Coherent(mem') /\ Fresh(mem', {}, {}, Pending(d)) /\ Merged(mem', d)
      /\ Pending(d) \subseteq DOMAIN mem'.nodes
  <2>1. \A M2 : M2 = UpsertEdges(mem, d) =>
           /\ Coherent(M2) /\ Fresh(M2, {}, {}, Pending(d)) /\ Merged(M2, d)
           /\ Pending(d) \subseteq DOMAIN M2.nodes
    BY <1>3, EdgesStep
  <2>. QED BY <1>1, <2>1
<1>5. tx' = [tx EXCEPT !.stage = 4] /\ 4 \in 2..6
  BY <1>1, <1>2
<1>. QED BY <1>1, <1>2, <1>4, <1>5, JobMoved

\* vector_upsert.
LEMMA JobVectorsInv ==
    ASSUME Inv, NEW d \in Doc, JobVectors(d)
    PROVE  Inv'
<1>1. /\ At(d, "vectors") /\ mem' = VectorUpsert(mem, d) /\ cache' = Dirty
      /\ tx' = [tx EXCEPT !.stage = @ + 1]
      /\ durable' = durable /\ gen' = gen /\ plan' = plan /\ pager' = pager
  BY DEF JobVectors, JobStep
<1>2. tx # None /\ tx.owner = d /\ tx.stage = 4
  <2>1. TxInv
    BY DEF Inv
  <2>. QED BY <1>1, <2>1, AtIs
<1>3. /\ Coherent(mem) /\ Planned(d) /\ Merged(mem, d)
      /\ Fresh(mem, {}, {}, Pending(d)) /\ Pending(d) \subseteq DOMAIN mem.nodes
  <2>1. 4 \in 2..5 /\ 4 \in 3..5
    OBVIOUS
  <2>. QED BY <1>2, <2>1, JobAt
<1>4. Settled(mem') /\ Merged(mem', d) /\ Pending(d) \subseteq DOMAIN mem'.nodes
  <2>1. \A M2 : M2 = VectorUpsert(mem, d) =>
           Settled(M2) /\ Merged(M2, d) /\ Pending(d) \subseteq DOMAIN M2.nodes
    BY <1>3, VectorsStep
  <2>. QED BY <1>1, <2>1
<1>5. tx' = [tx EXCEPT !.stage = 5] /\ 5 \in 2..6
  BY <1>1, <1>2
<1>6. Coherent(mem') /\ Fresh(mem', {}, {}, {})
  BY <1>4 DEF Settled
<1>. QED BY <1>1, <1>2, <1>4, <1>5, <1>6, JobMoved

\* lexical_index.
LEMMA JobLexicalInv ==
    ASSUME Inv, NEW d \in Doc, JobLexical(d)
    PROVE  Inv'
<1>1. /\ At(d, "lexical") /\ mem' = LexicalIndex(mem, d) /\ cache' = Dirty
      /\ tx' = [tx EXCEPT !.stage = @ + 1]
      /\ durable' = durable /\ gen' = gen /\ plan' = plan /\ pager' = pager
  BY DEF JobLexical, JobStep
<1>2. tx # None /\ tx.owner = d /\ tx.stage = 5
  <2>1. TxInv
    BY DEF Inv
  <2>. QED BY <1>1, <2>1, AtIs
<1>3. /\ Coherent(mem) /\ Merged(mem, d) /\ Fresh(mem, {}, {}, {})
  <2>1. 5 \in 2..5 /\ 5 \in 3..5
    OBVIOUS
  <2>. QED BY <1>2, <2>1, JobAt
<1>4. Settled(mem) /\ d \in mem.live
  BY <1>3 DEF Settled, Merged
<1>5. Settled(mem')
  <2>1. \A M2 : M2 = LexicalIndex(mem, d) => Settled(M2)
    BY <1>4, LexicalStep
  <2>. QED BY <1>1, <2>1
<1>6. tx' = [tx EXCEPT !.stage = 6] /\ 6 \in 2..6
  BY <1>1, <1>2
<1>7. Coherent(mem') /\ Fresh(mem', {}, {}, {})
  BY <1>5 DEF Settled
<1>. QED BY <1>1, <1>2, <1>6, <1>7, JobMoved

\* A request of the operator, in a batch of its own.
LEMMA OperateInv ==
    ASSUME Inv, NEW r \in Operations, Operate(r)
    PROVE  Inv'
<1>1. /\ MemInv /\ Settled(durable) /\ PlanInv /\ TxInv /\ CacheInv /\ PagerInv
      /\ At(Operator, "memory") /\ mem' = Apply(mem, r)
      /\ cache' = (IF Marked(mem, r) THEN Dirty ELSE cache)
      /\ tx' = [tx EXCEPT !.stage = Len(Stage)]
      /\ durable' = durable /\ gen' = gen /\ plan' = plan /\ pager' = pager
  BY DEF Inv, Operate
<1>2. /\ tx # None /\ tx \in [owner : Doc \union {Operator}, stage : 1..6] /\ tx.stage = 1
      /\ gen \in Nat /\ gen < MaxGen
  BY <1>1, AtIs
<1>3. Settled(mem) /\ r \in Request
  BY <1>1, <1>2, MemSettled, OperationsAssumption
<1>4. /\ Settled(mem')
      /\ ~Marked(mem, r) => Index(mem', TRUE) = Index(mem, TRUE)
  <2>1. \A M2 : M2 = Apply(mem, r) => Settled(M2)
    BY <1>3, ApplySettled
  <2>2. ~Marked(mem, r) => \A M2 : M2 = Apply(mem, r) => Index(M2, TRUE) = Index(mem, TRUE)
    BY <1>3, ApplyMarks
  <2>. QED BY <1>1, <2>1, <2>2
<1>5. tx' \in [owner : Doc \union {Operator}, stage : 1..6] /\ tx'.stage = 6 /\ tx' # None
  <2>1. Len(Stage) = 6
    BY DEF Stage
  <2>2. tx' = [owner |-> tx.owner, stage |-> 6]
    BY <1>1, <1>2, <2>1
  <2>3. tx' \in [owner : Doc \union {Operator}, stage : Nat]
    BY <1>2, <2>2
  <2>4. tx' # None
    BY <2>3, ShapesAssumption
  <2>. QED BY <1>2, <2>2, <2>4
<1>6. MemInv'
  BY <1>4, <1>5, SettledMem
<1>7. TxInv'
  <2>1. gen' \in 0..MaxGen /\ gen' < MaxGen
    BY <1>1, <1>2 DEF TxInv
  <2>2. tx'.stage \notin 2..5 /\ tx'.stage \notin 3..5
    BY <1>5
  <2>. QED BY <1>5, <2>1, <2>2 DEF TxInv
<1>8. CacheInv'
  <2>1. CASE Marked(mem, r)
    BY <1>1, <2>1 DEF CacheInv
  <2>2. CASE ~Marked(mem, r)
    <3>1. cache = Dirty \/ cache = Index(mem', TRUE)
      BY <1>1, <1>4, <2>2 DEF CacheInv
    <3>2. cache' = cache
      BY <1>1, <2>2
    <3>3. Index(mem, TRUE)' = Index(mem', TRUE)
      OBVIOUS
    <3>. QED BY <3>1, <3>2, <3>3 DEF CacheInv
  <2>. QED BY <2>1, <2>2
<1>. QED BY <1>1, <1>6, <1>7, <1>8, PlanUnchanged, PagerUnchanged DEF Inv

\* batch_commit: what was settled is the next generation.
LEMMA CommitInv ==
    ASSUME Inv, NEW o \in Doc \union {Operator}, Commit(o)
    PROVE  Inv'
<1>1. /\ MemInv /\ Settled(durable) /\ PlanInv /\ TxInv /\ CacheInv /\ PagerInv
      /\ At(o, "done") /\ durable' = mem /\ gen' = gen + 1 /\ tx' = None
      /\ plan' = [d \in Doc |-> IF d = o THEN None ELSE plan[d]]
      /\ mem' = mem /\ cache' = cache /\ pager' = pager
  BY DEF Inv, Commit
<1>2. tx # None /\ tx.stage = 6 /\ gen \in Nat /\ gen < MaxGen
  BY <1>1, AtIs
<1>3. Settled(mem)
  BY <1>1, <1>2, MemSettled
<1>4. Settled(mem') /\ Settled(durable)'
  BY <1>1, <1>3
<1>5. MemInv'
  BY <1>1, <1>4, SettledMem
<1>6. PlanInv'
  <2>1. plan' = [d \in Doc |-> plan'[d]] /\ \A d \in Doc : plan'[d] = None \/ plan'[d] = plan[d]
    BY <1>1
  <2>. QED BY <1>1, <2>1, PlanDropped
<1>7. TxInv'
  <2>1. gen' \in 0..MaxGen
    BY <1>1, <1>2, ShapesAssumption
  <2>. QED BY <1>1, <2>1 DEF TxInv
<1>8. CacheInv'
  BY <1>1 DEF CacheInv
<1>9. PagerInv'
  <2>1. /\ pager \in [gen : Nat \union {None}, offset : Nat, got : SUBSET EdgeKey, done : BOOLEAN]
        /\ pager.gen = None => pager = NoPager
        /\ pager.gen # None => pager.gen <= gen
    BY <1>1 DEF PagerInv
  <2>2. gen' # None
    BY <1>1, <1>2, ShapesAssumption
  <2>3. pager.gen # None => pager.gen <= gen' /\ pager.gen # gen'
    BY <1>1, <1>2, <2>1
  <2>4. pager'.gen # gen'
    BY <1>1, <2>2, <2>3
  <2>. QED BY <1>1, <2>1, <2>3, <2>4 DEF PagerInv, NoPager
<1>. QED BY <1>4, <1>5, <1>6, <1>7, <1>8, <1>9 DEF Inv

\* ensure_cache builds what the state holds, whatever order the keys came in.
LEMMA EnsureCacheIs ==
    ASSUME MemInv, CacheInv, EnsureCache
    PROVE  cache' = Index(mem, TRUE) \/ (cache' = cache /\ cache = Index(mem, TRUE))
<1>1. mem.edges \subseteq EdgeKey
  <2>1. mem \in StateRec
    BY DEF MemInv, Coherent
  <2>. QED BY <2>1, StateIs
<1>2. CASE cache = Dirty
  <2>1. PICK up \in BOOLEAN : cache' = Index(mem, up)
    BY <1>2 DEF EnsureCache
  <2>2. ProjectionOrder(mem.edges, up) = ProjectionOrder(mem.edges, TRUE)
    BY <1>1, OrderIs
  <2>. QED BY <2>1, <2>2 DEF Index
<1>3. CASE cache # Dirty
  BY <1>3 DEF EnsureCache, CacheInv
<1>. QED BY <1>2, <1>3

\* A read leaves every part but the indexes.
LEMMA ReadFrame ==
    ASSUME Inv, UNCHANGED <<mem, durable, gen, tx, plan>>
    PROVE  MemInv' /\ Settled(durable)' /\ PlanInv' /\ TxInv'
<1>1. /\ MemInv /\ Settled(durable) /\ PlanInv /\ TxInv
      /\ mem' = mem /\ durable' = durable /\ gen' = gen /\ tx' = tx /\ plan' = plan
  BY DEF Inv
<1>2. Settled(durable)'
  BY <1>1
<1>3. CASE tx # None /\ tx.stage \in 2..5
  <2>1. tx.owner \in Doc /\ Merged(mem, tx.owner)
    BY <1>1, <1>3 DEF TxInv
  <2>2. Pending(tx.owner)' = Pending(tx.owner) /\ Merged(mem, tx.owner)'
    <3>1. (Pending(tx.owner))' = Pending(tx.owner) /\ ((Merged(mem, tx.owner))' <=> Merged(mem', tx.owner))
      BY <1>1 DEF Pending, FactsSent, SchemasOf, Mentioned, Merged, FirstSource
    <3>. QED BY <1>1, <2>1, <3>1
  <2>3. MemInv'
    BY <1>1, <2>2 DEF MemInv, Stale
  <2>4. TxInv'
    BY <1>1, <2>2 DEF TxInv
  <2>. QED BY <1>1, <1>2, <2>3, <2>4, PlanUnchanged
<1>4. CASE ~(tx # None /\ tx.stage \in 2..5)
  <2>1. tx = None \/ tx.stage \in {1, 5, 6}
    BY <1>1, <1>4 DEF TxInv
  <2>2. MemInv'
    <3>1. Settled(mem')
      BY <1>1, <2>1, MemSettled
    <3>. QED BY <1>1, <2>1, <3>1, SettledMem
  <2>3. TxInv'
    BY <1>1, <1>4 DEF TxInv
  <2>. QED BY <1>1, <1>2, <2>2, <2>3, PlanUnchanged
<1>. QED BY <1>3, <1>4

\* A read that uses the indexes.
LEMMA ReadInv ==
    ASSUME Inv, Read
    PROVE  Inv'
<1>1. /\ MemInv /\ CacheInv /\ PagerInv /\ EnsureCache
      /\ mem' = mem /\ durable' = durable /\ gen' = gen /\ tx' = tx /\ plan' = plan /\ pager' = pager
  BY DEF Inv, Read
<1>2. MemInv' /\ Settled(durable)' /\ PlanInv' /\ TxInv'
  BY <1>1, ReadFrame
<1>3. cache' = Index(mem, TRUE)
  BY <1>1, EnsureCacheIs
<1>4. CacheInv'
  BY <1>1, <1>3 DEF CacheInv
<1>. QED BY <1>1, <1>2, <1>4, PagerUnchanged DEF Inv

\* A client that begins again.
LEMMA NoPagerInv ==
    ASSUME Inv, pager' = NoPager, gen' = gen
    PROVE  PagerInv'
<1>1. gen \in Nat /\ None \notin Nat
  BY ShapesAssumption DEF Inv, TxInv
<1>2. pager' = [gen |-> None, offset |-> 0, got |-> {}, done |-> FALSE]
  BY DEF NoPager
<1>3. /\ pager' \in [gen : Nat \union {None}, offset : Nat, got : SUBSET EdgeKey, done : BOOLEAN]
      /\ pager'.gen = None /\ pager'.gen # gen'
  BY <1>1, <1>2
<1>. QED BY <1>2, <1>3 DEF PagerInv, NoPager

\* A client that begins again changes nothing else.
LEMMA RereadInv ==
    ASSUME Inv, Reread
    PROVE  Inv'
<1>1. /\ MemInv /\ CacheInv /\ pager' = NoPager
      /\ mem' = mem /\ durable' = durable /\ gen' = gen /\ tx' = tx /\ plan' = plan /\ cache' = cache
  BY DEF Inv, Reread
<1>2. MemInv' /\ Settled(durable)' /\ PlanInv' /\ TxInv'
  BY <1>1, ReadFrame
<1>3. PagerInv'
  BY <1>1, NoPagerInv
<1>. QED BY <1>1, <1>2, <1>3 DEF Inv, CacheInv

\* The smaller of two numbers.
LEMMA MinIs ==
    ASSUME NEW a \in Int, NEW b \in Int
    PROVE  Min({a, b}) = IF a <= b THEN a ELSE b
<1>1. \E x \in {a, b} : \A y \in {a, b} : x <= y
  OBVIOUS
<1>2. Min({a, b}) \in {a, b} /\ Min({a, b}) <= a /\ Min({a, b}) <= b
  BY <1>1 DEF Min
<1>. QED BY <1>2

\* A page continues where the last one of the same generation ended.
LEMMA ReadPageInv ==
    ASSUME Inv, ReadPage
    PROVE  Inv'
<1>1. /\ MemInv /\ Settled(durable) /\ TxInv /\ CacheInv /\ PagerInv
      /\ mem' = mem /\ durable' = durable /\ gen' = gen /\ tx' = tx /\ plan' = plan
  BY DEF Inv, ReadPage
<1>2. MemInv' /\ Settled(durable)' /\ PlanInv' /\ TxInv'
  BY <1>1, ReadFrame
<1>3. CASE ~PageAllowed
  <2>1. pager' = NoPager /\ cache' = cache
    BY <1>3 DEF ReadPage
  <2>2. PagerInv'
    BY <1>1, <2>1, NoPagerInv
  <2>. QED BY <1>1, <1>2, <2>1, <2>2 DEF Inv, CacheInv
<1>4. CASE PageAllowed
  <2> DEFINE order == ProjectionOrder(durable.edges, TRUE)
             total == Len(order)
             next  == Min({pager.offset + PageSize, total})
  <2>1. EnsureCache /\ tx = None /\ pager.gen \in {None, gen} /\ mem = durable
    BY <1>1, <1>4 DEF ReadPage, PageAllowed, TxInv
  <2>2. cache' = Index(mem, TRUE)
    BY <1>1, <2>1, EnsureCacheIs
  <2>3. CacheInv'
    BY <1>1, <2>2 DEF CacheInv
  <2>4. cache'.order = order
    BY <2>1, <2>2 DEF Index
  <2>5. /\ pager \in [gen : Nat \union {None}, offset : Nat, got : SUBSET EdgeKey, done : BOOLEAN]
        /\ pager.gen = None => pager = NoPager
        /\ pager.gen = gen => pager.offset <= total /\ pager.got = {order[i] : i \in 1..pager.offset}
    BY <1>1 DEF PagerInv
  <2>6. durable.edges \subseteq EdgeKey
    <3>1. durable \in StateRec
      BY <1>1 DEF Settled, Coherent
    <3>. QED BY <3>1, StateIs
  <2>7. order \in Seq(durable.edges) /\ total \in Nat
    <3>1. order \in Seq(durable.edges)
      BY <2>6, OrderIs
    <3> HIDE DEF order
    <3>. QED BY <3>1, LenProperties
  <2>8. \A i \in 1..total : order[i] \in EdgeKey
    <3> HIDE DEF order
    <3>. QED BY <2>6, <2>7, ElementOfSeq
  <2>9. \/ pager' = NoPager
        \/ pager' = [gen |-> gen, offset |-> next, done |-> next = total,
                     got |-> pager.got \union {order[i] : i \in (pager.offset + 1)..next}]
    <3> HIDE DEF order
    <3>. QED BY <1>4, <2>4 DEF ReadPage
  <2> HIDE DEF order
  <2>10. CASE pager' = NoPager
    <3>1. PagerInv'
      BY <1>1, <2>10, NoPagerInv
    <3>. QED BY <1>2, <2>3, <3>1 DEF Inv
  <2>11. CASE pager' = [gen |-> gen, offset |-> next, done |-> next = total,
                        got |-> pager.got \union {order[i] : i \in (pager.offset + 1)..next}]
    <3>1. gen \in Nat /\ None \notin Nat /\ PageSize \in Nat
      BY <1>1, ShapesAssumption DEF TxInv
    <3>2. pager.offset \in Nat /\ pager.offset <= total /\ pager.got = {order[i] : i \in 1..pager.offset}
      <4>1. CASE pager.gen = gen
        BY <2>5, <4>1
      <4>2. CASE pager.gen = None
        <5>1. pager.offset = 0 /\ pager.got = {}
          BY <2>5, <4>2 DEF NoPager
        <5>2. 1..0 = {}
          OBVIOUS
        <5>. QED BY <2>7, <5>1, <5>2
      <4>. QED BY <2>1, <4>1, <4>2
    <3>3. next = IF pager.offset + PageSize <= total THEN pager.offset + PageSize ELSE total
      <4>1. pager.offset + PageSize \in Int /\ total \in Int
        BY <2>7, <3>1, <3>2
      <4> HIDE DEF total
      <4>. QED BY <4>1, MinIs
    <3>4. next \in Nat /\ pager.offset <= next /\ next <= total
      <4> HIDE DEF next, total
      <4>. QED BY <2>7, <3>1, <3>2, <3>3
    <3> HIDE DEF next
    <3>5. 1..next = (1..pager.offset) \union ((pager.offset + 1)..next)
      BY <3>2, <3>4
    <3>6. pager'.got = {order[i] : i \in 1..next}
      <4>1. pager'.got = {order[i] : i \in 1..pager.offset} \union
                           {order[i] : i \in (pager.offset + 1)..next}
        BY <2>11, <3>2
      <4>. QED BY <3>5, <4>1
    <3>7. pager'.got \subseteq EdgeKey
      <4>1. 1..next \subseteq 1..total
        <5> HIDE DEF total
        <5>. QED BY <2>7, <3>4
      <4>. QED BY <2>8, <3>6, <4>1
    <3>8. /\ pager' \in [gen : Nat \union {None}, offset : Nat, got : SUBSET EdgeKey, done : BOOLEAN]
          /\ pager'.gen = gen /\ pager'.offset = next /\ (pager'.done => next = total)
      BY <2>11, <3>1, <3>4, <3>7
    <3>9. PagerInv'
      <4>1. ProjectionOrder(durable.edges, TRUE)' = order
        BY <1>1 DEF order
      <4>2. pager'.gen # None /\ pager'.gen <= gen' /\ gen' = gen
        BY <1>1, <3>1, <3>8
      <4>. QED BY <3>4, <3>6, <3>8, <4>1, <4>2 DEF PagerInv
    <3>. QED BY <1>2, <2>3, <3>9 DEF Inv
  <2>. QED BY <2>9, <2>10, <2>11
<1>. QED BY <1>3, <1>4

\* Every step keeps the invariant.
LEMMA StepInv == Inv /\ [Next]_vars => Inv'
<1> SUFFICES ASSUME Inv, [Next]_vars PROVE Inv'
  OBVIOUS
<1>1. CASE \E d \in Doc : \/ Project(d) \/ JobDelete(d) \/ JobUpsert(d) \/ JobNodes(d)
                          \/ JobEdges(d) \/ JobVectors(d) \/ JobLexical(d)
  BY <1>1, ProjectInv, JobDeleteInv, JobUpsertInv, JobNodesInv, JobEdgesInv, JobVectorsInv,
     JobLexicalInv
<1>2. CASE \E o \in Doc \union {Operator} : Begin(o) \/ Commit(o)
  BY <1>2, BeginInv, CommitInv
<1>3. CASE \E r \in Operations : Operate(r)
  BY <1>3, OperateInv
<1>4. CASE Crash
  BY <1>4, RestartInv DEF Crash
<1>5. CASE Read
  BY <1>5, ReadInv
<1>6. CASE ReadPage
  BY <1>6, ReadPageInv
<1>7. CASE Reread
  BY <1>7, RereadInv
<1>8. CASE UNCHANGED vars
  <2>1. /\ mem' = mem /\ durable' = durable /\ gen' = gen /\ tx' = tx /\ plan' = plan
        /\ cache' = cache /\ pager' = pager
    BY <1>8 DEF vars
  <2>2. MemInv' /\ Settled(durable)' /\ PlanInv' /\ TxInv'
    BY <2>1, ReadFrame
  <2>. QED BY <2>1, <2>2, PagerUnchanged DEF Inv, CacheInv
<1>. QED BY <1>1, <1>2, <1>3, <1>4, <1>5, <1>6, <1>7, <1>8 DEF Next

-----------------------------------------------------------------------------
(* What follows from the invariant. *)

\* The invariant holds in every state.
LEMMA AlwaysInv == Spec => []Inv
BY InitInv, StepInv, PTL DEF Spec

\* The types of the invariant are the types of the model's TypeOK.
LEMMA CoherentIsState ==
    ASSUME NEW M, Coherent(M)
    PROVE  IsState(M)
<1>1. M \in StateRec /\ Shapes(M) /\ Grounded(M)
  BY DEF Coherent
<1>2. \A q \in Sources : q \in Seq(Doc) /\ IsInjective(q)
  BY DEF Sources
<1>3. \A r \in FactRec : IsFact(r)
  BY <1>2 DEF FactRec, IsFact
<1>4. \A r \in SchemaRec : IsSchema(r)
  BY <1>2 DEF SchemaRec, IsSchema
<1>5. M.passages \union M.lexical \union M.live \subseteq Doc
  BY <1>1, StateIs
<1>6. DOMAIN M.facts \subseteq Fact /\ \A f \in DOMAIN M.facts : IsFact(M.facts[f])
  BY <1>1, <1>3, StateIs
<1>7. M.active \subseteq DOMAIN M.facts
  BY <1>1 DEF Grounded
<1>8. DOMAIN M.schemas \subseteq Schema /\ \A s \in DOMAIN M.schemas : IsSchema(M.schemas[s])
  BY <1>1, <1>4, StateIs
<1>9. DOMAIN M.nodes \subseteq NodeId /\ \A n \in DOMAIN M.nodes : M.nodes[n].docs \in Sources
  BY <1>1, StateIs
<1>10. ASSUME NEW n \in DOMAIN M.nodes
       PROVE  CASE n[1] = "fact"     -> IsFact(M.nodes[n])
                [] n[1] = "ontology" -> IsSchema(M.nodes[n])
                [] OTHER             -> M.nodes[n].docs \in Seq(Doc)
  <2>1. n[1] = "fact" => IsFact(M.nodes[n])
    BY <1>1, <1>3 DEF Shapes
  <2>2. n[1] = "ontology" => IsSchema(M.nodes[n])
    BY <1>1, <1>4 DEF Shapes
  <2>3. M.nodes[n].docs \in Seq(Doc)
    BY <1>2, <1>9
  <2>. QED BY <2>1, <2>2, <2>3
<1>11. DOMAIN M.vectors \subseteq NodeId /\ Range(M.vectors) \subseteq Doc
  BY <1>1, StateIs DEF Range
<1>. QED BY <1>5, <1>6, <1>7, <1>8, <1>9, <1>10, <1>11 DEF IsState

\* Whatever the requests and failures, the state has the shape the handlers of
\* the native server index into: source lists without duplicates, and active
\* facts that exist.
THEOREM TypesKept == Spec => []TypeOK
<1>1. ASSUME Inv PROVE TypeOK
  <2>1. MemInv /\ PlanInv /\ TxInv
    BY <1>1 DEF Inv
  <2>2. IsState(mem)
    BY <2>1, CoherentIsState DEF MemInv
  <2>3. gen \in 0..MaxGen
    BY <2>1 DEF TxInv
  <2>4. tx = None \/ (tx.owner \in Doc \union {Operator} /\ tx.stage \in DOMAIN Stage)
    <3>1. DOMAIN Stage = 1..6
      BY DEF Stage
    <3>2. tx = None \/ tx \in [owner : Doc \union {Operator}, stage : 1..6]
      BY <2>1 DEF TxInv
    <3>. QED BY <3>1, <3>2
  <2>5. \A d \in Doc : plan[d] = None \/ plan[d].facts \subseteq Contributes[d]
    BY <2>1 DEF PlanInv, PlanRec
  <2>. QED BY <2>2, <2>3, <2>4, <2>5 DEF TypeOK
<1>. QED BY <1>1, AlwaysInv, PTL

\* mark_cache_dirty is called by every mutation that changes what the indexes
\* list, and ensure_cache rebuilds all of them: a read of the native server
\* gives what the state holds, and no edge outlives one of its nodes.
THEOREM ReadsAnswer == Spec => []ReadsAgree
<1>1. ASSUME Inv PROVE ReadsAgree
  <2>1. MemInv /\ CacheInv
    BY <1>1 DEF Inv
  <2>2. mem \in StateRec /\ Shapes(mem) /\ Closed(mem)
    BY <2>1 DEF MemInv, Coherent
  <2>3. mem.edges \subseteq EdgeKey
    BY <2>2, StateIs
  <2>4. CypherEdges(mem) = mem.edges
    BY <2>2 DEF CypherEdges, Closed
  <2>5. ASSUME cache # Dirty
        PROVE  /\ GetNodes(cache, mem) = DOMAIN mem.nodes
               /\ NodeCount(cache) = Cardinality(DOMAIN mem.nodes)
               /\ Transitions(cache, mem) = {<<e.from, e.to>> : e \in mem.edges}
               /\ DanglingNodes(cache, mem) = {n \in DOMAIN mem.nodes : \A e \in mem.edges : e.from # n}
               /\ \A n \in NodeId : GetAdjacent(cache, mem, n) = Adjacent(mem.edges, {n})
               /\ VectorHits(cache, mem) = [n \in DOMAIN mem.vectors |-> TRUE]
               /\ LexicalHits(cache, mem) = mem.lexical
               /\ ToSet(cache.order) = mem.edges /\ IsInjective(cache.order)
    <3>1. cache = Index(mem, TRUE)
      BY <2>1, <2>5 DEF CacheInv
    <3>2. /\ cache.nodes = DOMAIN mem.nodes /\ cache.edges = mem.edges
          /\ cache.vectors = DOMAIN mem.vectors /\ cache.lexical = mem.lexical
          /\ cache.order = ProjectionOrder(mem.edges, TRUE)
      BY <3>1 DEF Index
    <3>3. GetNodes(cache, mem) = DOMAIN mem.nodes /\ GetEdges(cache, mem) = mem.edges
      BY <3>2 DEF GetNodes, GetEdges
    <3>4. NodeCount(cache) = Cardinality(DOMAIN mem.nodes)
      BY <3>2 DEF NodeCount
    <3>5. Transitions(cache, mem) = {<<e.from, e.to>> : e \in mem.edges}
      BY <3>3 DEF Transitions
    <3>6. DanglingNodes(cache, mem) = {n \in DOMAIN mem.nodes : \A e \in mem.edges : e.from # n}
      BY <3>3 DEF DanglingNodes
    <3>7. \A n \in NodeId : GetAdjacent(cache, mem, n) = Adjacent(mem.edges, {n})
      BY <3>2 DEF GetAdjacent, Adjacent
    <3>8. VectorHits(cache, mem) = [n \in DOMAIN mem.vectors |-> TRUE]
      <4>1. \A n \in DOMAIN mem.vectors : (n \in mem.values) = TRUE
        BY <2>2 DEF Closed
      <4>. QED BY <3>2, <4>1 DEF VectorHits
    <3>9. LexicalHits(cache, mem) = mem.lexical
      BY <3>2 DEF LexicalHits
    <3>10. ToSet(cache.order) = mem.edges /\ IsInjective(cache.order)
      BY <2>3, <3>2, OrderIs
    <3>. QED BY <3>3, <3>4, <3>5, <3>6, <3>7, <3>8, <3>9, <3>10
  <2>. QED BY <2>4, <2>5 DEF ReadsAgree
<1>. QED BY <1>1, AlwaysInv, PTL

\* The first k entries of a sequence without duplicates are k entries.
LEMMA PrefixCount ==
    ASSUME NEW E, NEW q \in Seq(E), IsInjective(q), NEW k \in Nat, k <= Len(q)
    PROVE  Cardinality({q[i] : i \in 1..k}) = k
<1> DEFINE S == {q[i] : i \in 1..k}
           g == [i \in 1..k |-> q[i]]
<1>1. Len(q) \in Nat /\ DOMAIN q = 1..Len(q)
  BY LenProperties
<1>2. 1..k \subseteq DOMAIN q
  BY <1>1
<1>3. g \in Bijection(1..k, S)
  <2>1. g \in [1..k -> S]
    OBVIOUS
  <2>2. \A a, b \in 1..k : g[a] = g[b] => a = b
    BY <1>2 DEF IsInjective
  <2>3. \A s \in S : \E i \in 1..k : g[i] = s
    OBVIOUS
  <2>. QED BY <2>1, <2>2, <2>3 DEF Bijection, Injection, Surjection, IsInjective
<1>4. IsFiniteSet(1..k) /\ Cardinality(1..k) = k
  <2>1. /\ IsFiniteSet(1..k)
        /\ Cardinality(1..k) = IF 1 > k THEN 0 ELSE k - 1 + 1
    BY FS_Interval
  <2>. QED BY <2>1
<1> HIDE DEF S, g
<1>5. Cardinality(S) = k
  BY <1>3, <1>4, FS_Bijection DEF ExistsBijection
<1>. QED BY <1>5 DEF S

\* projection_get_transitions_page: offsets into a sorted projection of one
\* committed generation neither repeat nor skip an edge, through batches,
\* refusals and restarts.
THEOREM PagesWhole == Spec => []PagesComplete
<1>1. ASSUME Inv PROVE PagesComplete
  <2> SUFFICES ASSUME pager.gen = gen
               PROVE  /\ pager.got \subseteq durable.edges /\ Cardinality(pager.got) = pager.offset
                      /\ pager.done => pager.got = durable.edges
    BY DEF PagesComplete
  <2> DEFINE order == ProjectionOrder(durable.edges, TRUE)
  <2>1. /\ pager \in [gen : Nat \union {None}, offset : Nat, got : SUBSET EdgeKey, done : BOOLEAN]
        /\ pager.offset <= Len(order) /\ pager.got = {order[i] : i \in 1..pager.offset}
        /\ pager.done => pager.offset = Len(order)
    BY <1>1 DEF Inv, PagerInv
  <2>2. durable.edges \subseteq EdgeKey
    <3>1. durable \in StateRec
      BY <1>1 DEF Inv, Settled, Coherent
    <3>. QED BY <3>1, StateIs
  <2>3. order \in Seq(durable.edges) /\ ToSet(order) = durable.edges /\ IsInjective(order)
    BY <2>2, OrderIs
  <2> HIDE DEF order
  <2>4. Len(order) \in Nat /\ DOMAIN order = 1..Len(order) /\ pager.offset \in Nat
    BY <2>1, <2>3, LenProperties
  <2>5. 1..pager.offset \subseteq DOMAIN order
    BY <2>1, <2>4
  <2>6. pager.got \subseteq durable.edges
    BY <2>1, <2>3, <2>5 DEF ToSet
  <2>7. Cardinality(pager.got) = pager.offset
    BY <2>1, <2>3, <2>4, PrefixCount
  <2>8. pager.done => pager.got = durable.edges
    BY <2>1, <2>3, <2>4 DEF ToSet
  <2>. QED BY <2>6, <2>7, <2>8
<1>. QED BY <1>1, AlwaysInv, PTL

\* memory_upsert and memory_delete_document keep every stored fact grounded in
\* a stored passage and sourced by a document, and no schema lists a fact that
\* is gone.
THEOREM SnapshotStaysGrounded == Spec => []SnapshotGrounded
<1>1. ASSUME Inv PROVE SnapshotGrounded
  <2>1. Grounded(mem)
    BY <1>1 DEF Inv, MemInv, Coherent
  <2>. QED BY <2>1 DEF SnapshotGrounded, Grounded
<1>. QED BY <1>1, AlwaysInv, PTL

\* validate_schema_merge_intents and the deletion's schema updates keep every
\* frequency at or above the sources that support it, and the state in step
\* with the threshold.
THEOREM FrequencyStaysSupported == Spec => []FrequencySupported
<1>1. ASSUME Inv PROVE FrequencySupported
  <2>1. Supported(mem)
    BY <1>1 DEF Inv, MemInv, Coherent
  <2>. QED BY <2>1 DEF FrequencySupported, Supported
<1>. QED BY <1>1, AlwaysInv, PTL

\* Nothing names a document after memory_delete_document, and no job planned
\* before the delete brings it back.
THEOREM DeletionLeavesNoTrace == Spec => []DeletedLeavesNoTrace
<1>1. ASSUME Inv PROVE DeletedLeavesNoTrace
  <2>1. mem \in StateRec /\ Grounded(mem) /\ LiveOnly(mem)
    BY <1>1 DEF Inv, MemInv, Coherent
  <2> SUFFICES ASSUME NEW w \in Doc \ mem.live
               PROVE  /\ w \notin mem.passages \union mem.lexical \union Range(mem.vectors)
                      /\ \A f \in DOMAIN mem.facts   : ~Lists(mem.facts[f], w) /\ w \notin mem.facts[f].passages
                      /\ \A s \in DOMAIN mem.schemas : ~Lists(mem.schemas[s], w)
                      /\ \A n \in DOMAIN mem.nodes   : ~Lists(mem.nodes[n], w)
    BY DEF DeletedLeavesNoTrace
  <2>2. w \notin mem.passages \union mem.lexical \union Range(mem.vectors)
    BY <2>1 DEF LiveOnly, Range
  <2>3. \A f \in DOMAIN mem.facts : ~Lists(mem.facts[f], w) /\ w \notin mem.facts[f].passages
    <3>1. \A f \in DOMAIN mem.facts : w \notin ToSet(mem.facts[f].docs)
      BY <2>1 DEF LiveOnly
    <3>2. \A f \in DOMAIN mem.facts : mem.facts[f].passages \subseteq ToSet(mem.facts[f].docs)
      BY <2>1 DEF Grounded
    <3>. QED BY <3>1, <3>2, ListsIs
  <2>4. \A s \in DOMAIN mem.schemas : ~Lists(mem.schemas[s], w)
    BY <2>1, ListsIs DEF LiveOnly
  <2>5. \A n \in DOMAIN mem.nodes : ~Lists(mem.nodes[n], w)
    BY <2>1, ListsIs DEF LiveOnly
  <2>. QED BY <2>2, <2>3, <2>4, <2>5
<1>. QED BY <1>1, AlwaysInv, PTL

\* In every committed generation the graph says what the memory snapshot says:
\* the nodes a job hydrates and the ones a deletion rewrites are copies, and
\* none is missing unless raw deletions were sent.
THEOREM GraphMirrors == Spec => []GraphMirrorsMemory
<1>1. ASSUME Inv PROVE GraphMirrorsMemory
  <2> DEFINE M == durable
  <2>1. Settled(M) /\ M \in StateRec
    BY <1>1 DEF Inv, Settled, Coherent
  <2>2. NodesCopied(M, {}) /\ (M.raw \/ (NodesThere(M, {}) /\ EdgesThere(M, {})))
    BY <2>1 DEF Settled, Fresh
  <2>3. DOMAIN M.facts \subseteq Fact
    BY <2>1, StateIs
  <2>4. \A n \in DOMAIN M.nodes :
          /\ n[1] = "fact"     => n[2] \in DOMAIN M.facts /\ M.nodes[n] = M.facts[n[2]]
          /\ n[1] = "ontology" => n[2] \in DOMAIN M.schemas /\ M.nodes[n] = M.schemas[n[2]]
    BY <2>2 DEF NodesCopied
  <2>5. ASSUME ~M.raw
        PROVE  ({"passage"} \X M.passages) \union ({"fact"} \X DOMAIN M.facts)
                 \union ({"entity"} \X Mentioned(DOMAIN M.facts)) \subseteq DOMAIN M.nodes
    <3>1. {"passage"} \X M.passages \subseteq DOMAIN M.nodes
      BY <2>2, <2>5 DEF NodesThere
    <3>2. {"fact"} \X DOMAIN M.facts \subseteq DOMAIN M.nodes
      <4>1. \A f \in DOMAIN M.facts : <<"fact", f>> \in DOMAIN M.nodes
        BY <2>2, <2>5 DEF NodesThere
      <4> HIDE DEF M
      <4>. QED BY <4>1
    <3>3. ASSUME NEW x \in Mentioned(DOMAIN M.facts) PROVE <<"entity", x>> \in DOMAIN M.nodes
      <4>1. PICK f \in DOMAIN M.facts : x = Ends[f][1] \/ x = Ends[f][2]
        BY <3>3 DEF Mentioned
      <4>. QED BY <2>2, <2>5, <4>1 DEF NodesThere
    <3>. QED BY <3>1, <3>2, <3>3
  <2>6. ASSUME ~M.raw
        PROVE  \A s \in DOMAIN M.schemas : M.schemas[s].docs # <<>> <=> <<"ontology", s>> \in DOMAIN M.nodes
    BY <2>2, <2>6 DEF NodesThere
  <2>7. ASSUME ~M.raw, NEW n \in DOMAIN M.nodes, n[1] = "entity"
        PROVE  \E e \in Adjacent(M.edges, {n}) : e.rel \in {"entity_mention", "entity_cooccurrence"}
    <3>1. PICK e \in M.edges : (e.from = n \/ e.to = n) /\ e.rel \in Holding
      BY <2>2, <2>7 DEF EdgesThere
    <3>. QED BY <3>1 DEF Adjacent, Holding
  <2> HIDE DEF M
  <2>8. M = durable
    BY DEF M
  <2>. QED BY <2>4, <2>5, <2>6, <2>7, <2>8 DEF GraphMirrorsMemory
<1>. QED BY <1>1, AlwaysInv, PTL

\* In every committed generation a vector is attributed to the first source of
\* the item it stands for, also after vector_upsert from a projection and after
\* a deletion gave it another owner.
THEOREM VectorsFollowFirstSource == Spec => []VectorsNameFirstSource
<1>1. ASSUME Inv PROVE VectorsNameFirstSource
  <2> DEFINE M == durable
  <2>1. Settled(M) /\ Shapes(M)
    BY <1>1 DEF Inv, Settled, Coherent
  <2>2. VectorsNamed(M, {}) /\ (M.raw \/ VectorsThere(M, {}))
    BY <2>1 DEF Settled, Fresh
  <2>3. \A n \in DOMAIN M.vectors :
          /\ n[1] = "fact" /\ n[2] \in DOMAIN M.facts => M.vectors[n] = M.facts[n[2]].docs[1]
          /\ n[1] = "ontology" => /\ n[2] \in DOMAIN M.schemas
                                  /\ M.vectors[n] = M.schemas[n[2]].docs[1]
    BY <2>2 DEF VectorsNamed
  <2>4. \A n \in DOMAIN M.vectors : n[1] # "entity"
    BY <2>1 DEF Shapes
  <2>5. ~M.raw => DOMAIN M.vectors = {n \in DOMAIN M.nodes : n[1] # "entity"}
    BY <2>2, <2>4 DEF VectorsThere
  <2> HIDE DEF M
  <2>6. M = durable
    BY DEF M
  <2>. QED BY <2>3, <2>5, <2>6 DEF VectorsNameFirstSource
<1>. QED BY <1>1, AlwaysInv, PTL
=============================================================================
