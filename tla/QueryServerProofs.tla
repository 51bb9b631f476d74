------------------------- MODULE QueryServerProofs -------------------------
(***************************************************************************)
(* What TLAPS proves of QueryServer, for every set of connections, labels  *)
(* and queries, every start graph and every bound.                         *)
(***************************************************************************)
EXTENDS QueryServer, SequenceTheorems, WellFoundedInduction, TLAPS

-----------------------------------------------------------------------------
(* The inductive invariant. *)

\* Every id was handed out by next_node_seq.
Numbered(g) == \A id \in DOMAIN g.nodes : id <= g.seq

GraphInv ==
    /\ Intact(base) /\ Numbered(base) /\ Intact(disk) /\ Numbered(disk)
    /\ \A t \in DOMAIN sessions : Intact(sessions[t].graph) /\ Numbered(sessions[t].graph)

\* A session that would not conflict started from the base graph.
SerialInv ==
    \A t \in DOMAIN sessions :
        /\ sessions[t].version <= version
        /\ sessions[t].version = version => sessions[t].origin = base

\* g hands out none of the ids N names, and gives none of them to another node.
Consistent(N, g) ==
    \A a \in N : a[1] <= g.seq /\ (a[1] \in DOMAIN g.nodes => g.nodes[a[1]].by = a[2])

\* What may become the base graph is consistent with what base graphs have shown;
\* a session that would conflict need not be.
NamedInv ==
    /\ IdsNeverReused
    /\ Consistent(named, base) /\ Consistent(named, disk)
    /\ \A t \in DOMAIN sessions :
          sessions[t].version = version => Consistent(named, sessions[t].graph)

\* The transactions that have ended, and those of them that were not undone.
Ended ==
    {b \in TxName : \/ b[1] < starts
                    \/ b[1] = starts /\ b[2] <= txSeq /\ b[2] \notin DOMAIN sessions}
Settled == Ended \ undone

\* The nodes of g are of transactions in T.
MadeBy(g, T) == \A id \in DOMAIN g.nodes : g.nodes[id].by \in T

\* The base graph and the file hold nodes of settled transactions only, a session
\* its own too.  Only the session of a query that panicked is torn, and then
\* nothing is served.
UndoneInv ==
    /\ undone \subseteq Ended
    /\ ~base.torn /\ MadeBy(base, Settled) /\ ~disk.torn /\ MadeBy(disk, Settled)
    /\ \A t \in DOMAIN sessions :
          /\ MadeBy(sessions[t].graph, Settled \union {<<starts, t>>})
          /\ ~poisoned => ~sessions[t].graph.torn

-----------------------------------------------------------------------------
(* What a clause, a union and a query do to a graph. *)

\* h comes from g by a query of transaction by that creates at most n nodes.
Derived(g, h, by, n) ==
    /\ IsGraph(h) /\ g.seq <= h.seq /\ h.seq <= g.seq + n
    /\ Intact(g) => Intact(h)
    /\ h.torn = g.torn
    /\ \A id \in DOMAIN h.nodes :
          \/ id \in DOMAIN g.nodes /\ h.nodes[id].by = g.nodes[id].by
          \/ g.seq < id /\ id <= h.seq /\ h.nodes[id].by = by

\* A graph comes from itself.
LEMMA DerivedSame ==
    ASSUME NEW g, IsGraph(g), NEW by, NEW n \in Nat
    PROVE  Derived(g, g, by, n)
BY BoundsAssumption DEF Derived, IsGraph

\* One query after another.
LEMMA DerivedTrans ==
    ASSUME NEW g, IsGraph(g), NEW h, NEW k, NEW by, NEW m \in Nat, NEW n \in Nat,
           Derived(g, h, by, m), Derived(h, k, by, n)
    PROVE  Derived(g, k, by, m + n)
<1>1. g.seq \in Nat /\ h.seq \in Nat /\ k.seq \in Nat /\ DOMAIN k.nodes \subseteq Nat
  BY BoundsAssumption DEF Derived, IsGraph, NodeId
<1>2. g.seq <= k.seq /\ k.seq <= g.seq + (m + n)
  BY <1>1 DEF Derived
<1>3. ASSUME NEW id \in DOMAIN k.nodes
      PROVE  \/ id \in DOMAIN g.nodes /\ k.nodes[id].by = g.nodes[id].by
             \/ g.seq < id /\ id <= k.seq /\ k.nodes[id].by = by
  BY <1>1 DEF Derived
<1>. QED BY <1>2, <1>3 DEF Derived

\* create_node: one node more, under the next id.
LEMMA CreateNodeDerived ==
    ASSUME NEW g, IsGraph(g), g.seq < MaxNode, NEW label \in Label, NEW tagged \in BOOLEAN,
           NEW by \in TxName
    PROVE  LET h == CreateNode(g, label, tagged, by)
           IN  Derived(g, h, by, 1) /\ h.seq \in DOMAIN h.nodes
<1> DEFINE id == g.seq + 1
           N  == [i \in DOMAIN g.nodes \union {id} |->
                     IF i = id THEN [label |-> label, tagged |-> tagged, by |-> by] ELSE g.nodes[i]]
           h  == CreateNode(g, label, tagged, by)
<1>0. g.seq \in Nat /\ MaxNode \in Nat /\ id \in NodeId
  BY BoundsAssumption DEF IsGraph, NodeId
<1>1. /\ DOMAIN h = {"nodes", "edges", "seq", "torn"}
      /\ h.seq = id /\ h.nodes = N /\ h.edges = g.edges /\ h.torn = g.torn
  BY DEF CreateNode, IsGraph
<1>2. \A i \in DOMAIN N : N[i] \in Node
  <2>1. [label |-> label, tagged |-> tagged, by |-> by] \in Node
    BY DEF Node
  <2>2. \A i \in DOMAIN g.nodes : g.nodes[i] \in Node
    BY DEF IsGraph
  <2>. QED BY <2>1, <2>2
<1>3. IsGraph(h)
  <2>1. DOMAIN N \subseteq NodeId
    BY <1>0 DEF IsGraph
  <2>2. id \in 0..MaxNode /\ g.edges \subseteq Edge /\ g.torn \in BOOLEAN
    BY <1>0 DEF IsGraph, NodeId
  <2> HIDE DEF N, h, id
  <2>. QED BY <1>1, <1>2, <2>1, <2>2 DEF IsGraph
<1>4. Intact(g) => Intact(h)
  BY <1>1 DEF Intact
<1>5. ASSUME NEW i \in DOMAIN h.nodes
      PROVE  \/ i \in DOMAIN g.nodes /\ h.nodes[i].by = g.nodes[i].by
             \/ g.seq < i /\ i <= h.seq /\ h.nodes[i].by = by
  BY <1>0, <1>1
<1>6. g.seq <= h.seq /\ h.seq <= g.seq + 1
  BY <1>0, <1>1
<1>. QED BY <1>1, <1>3, <1>4, <1>5, <1>6 DEF Derived

\* A graph whose nodes are those of g but for labels and properties.
LEMMA RelabelDerived ==
    ASSUME NEW g, IsGraph(g), NEW N, NEW h, h = [g EXCEPT !.nodes = N], DOMAIN N = DOMAIN g.nodes,
           \A id \in DOMAIN N : N[id] \in Node /\ N[id].by = g.nodes[id].by, NEW by, NEW n \in Nat
    PROVE  Derived(g, h, by, n)
<1>1. /\ DOMAIN h = {"nodes", "edges", "seq", "torn"}
      /\ h.seq = g.seq /\ h.nodes = N /\ h.edges = g.edges /\ h.torn = g.torn
  BY DEF IsGraph
<1>2. g.seq \in Nat
  BY BoundsAssumption DEF IsGraph
<1>3. IsGraph(h)
  BY <1>1 DEF IsGraph
<1>. QED BY <1>1, <1>2, <1>3 DEF Derived, Intact

\* SET and REMOVE change a property of a node.
LEMMA TagDerived ==
    ASSUME NEW g, IsGraph(g), NEW id \in DOMAIN g.nodes, NEW b \in BOOLEAN, NEW by, NEW n \in Nat
    PROVE  Derived(g, Tag(g, id, b), by, n)
<1> DEFINE N == [g.nodes EXCEPT ![id] = [g.nodes[id] EXCEPT !.tagged = b]]
<1>1. Tag(g, id, b) = [g EXCEPT !.nodes = N]
  BY DEF Tag
<1>2. \A i \in DOMAIN g.nodes : g.nodes[i] \in Node
  BY DEF IsGraph
<1>3. [g.nodes[id] EXCEPT !.tagged = b] \in Node /\ [g.nodes[id] EXCEPT !.tagged = b].by = g.nodes[id].by
  BY <1>2 DEF Node
<1>4. DOMAIN N = DOMAIN g.nodes /\ \A i \in DOMAIN N : N[i] \in Node /\ N[i].by = g.nodes[i].by
  BY <1>2, <1>3
<1> HIDE DEF N
<1>. QED BY <1>1, <1>4, RelabelDerived

\* apoc.refactor.rename.label changes the labels of nodes.
LEMMA RenameDerived ==
    ASSUME NEW g, IsGraph(g), NEW from \in Label, NEW to \in Label, NEW by, NEW n \in Nat
    PROVE  Derived(g, RenameLabel(g, from, to), by, n)
<1> DEFINE N == [i \in DOMAIN g.nodes |-> IF g.nodes[i].label = from
                                          THEN [g.nodes[i] EXCEPT !.label = to] ELSE g.nodes[i]]
<1>1. RenameLabel(g, from, to) = [g EXCEPT !.nodes = N]
  BY DEF RenameLabel
<1>2. \A i \in DOMAIN g.nodes : g.nodes[i] \in Node
  BY DEF IsGraph
<1>3. \A x \in Node : [x EXCEPT !.label = to] \in Node /\ [x EXCEPT !.label = to].by = x.by
  BY DEF Node
<1>4. DOMAIN N = DOMAIN g.nodes /\ \A i \in DOMAIN N : N[i] \in Node /\ N[i].by = g.nodes[i].by
  BY <1>2, <1>3
<1> HIDE DEF N
<1>. QED BY <1>1, <1>4, RelabelDerived

\* delete_node_detach takes the edges of the node with it.
LEMMA DeleteDerived ==
    ASSUME NEW g, IsGraph(g), NEW id, NEW by, NEW n \in Nat
    PROVE  Derived(g, DeleteNodeDetach(g, id), by, n)
<1> DEFINE h == DeleteNodeDetach(g, id)
<1>1. /\ DOMAIN h = {"nodes", "edges", "seq", "torn"}
      /\ h.seq = g.seq /\ h.edges = g.edges \ Touching(g, id) /\ h.torn = g.torn
      /\ h.nodes = [i \in DOMAIN g.nodes \ {id} |-> g.nodes[i]]
  BY DEF DeleteNodeDetach, IsGraph
<1>2. IsGraph(h)
  BY <1>1 DEF IsGraph
<1>3. Intact(g) => Intact(h)
  BY <1>1 DEF Intact, Touching
<1>4. g.seq \in Nat
  BY BoundsAssumption DEF IsGraph
<1> HIDE DEF h
<1>5. Derived(g, h, by, n)
  BY <1>1, <1>2, <1>3, <1>4 DEF Derived
<1>. QED BY <1>5 DEF h

\* Whatever a clause does, fails at or panics in, it leaves a graph derived from
\* the one it found.
LEMMA ClauseDerived ==
    ASSUME NEW g, IsGraph(g), g.seq < MaxNode, NEW c \in Clause, NEW by \in TxName,
           NEW o \in ExecuteClause(g, c, by)
    PROVE  Derived(g, o.graph, by, 1)
<1>0. /\ \A h, r : \A x \in Out(h, r) : x.graph = h
      /\ Derived(g, g, by, 1)
  BY DerivedSame DEF Out
<1>1. CASE c.op = "create"
  <2>1. o \in ExecuteCreate(g, c, by) /\ c.label \in Label
    BY <1>1 DEF ExecuteClause, Clause
  <2>2. o.graph = CreateNode(g, c.label, FALSE, by)
    BY <1>0, <2>1 DEF ExecuteCreate
  <2>. QED BY <2>1, <2>2, CreateNodeDerived
<1>2. CASE c.op = "merge"
  <2>1. o \in ExecuteMerge(g, c, by) /\ c.label \in Label /\ c.tagged \in BOOLEAN
    BY <1>2 DEF ExecuteClause, Clause
  <2>2. CASE Matching(g, c) # {}
    <3>1. \/ o.graph = g
          \/ \E id \in DOMAIN g.nodes : o.graph = Tag(g, id, TRUE)
      <4>1. o \in IF c.tail = "bad" THEN Out(g, Error)
                  ELSE {[graph |-> IF c.tail = "set" THEN Tag(g, id, TRUE) ELSE g, res |-> Ack]
                           : id \in Matching(g, c)}
        BY <2>1, <2>2 DEF ExecuteMerge
      <4>2. CASE c.tail = "bad"
        BY <1>0, <4>1, <4>2
      <4>3. CASE c.tail # "bad"
        <5>1. PICK id \in Matching(g, c) :
                 o = [graph |-> IF c.tail = "set" THEN Tag(g, id, TRUE) ELSE g, res |-> Ack]
          BY <4>1, <4>3
        <5>2. id \in DOMAIN g.nodes
          BY <5>1 DEF Matching
        <5>. QED BY <5>1, <5>2
      <4>. QED BY <4>2, <4>3
    <3>. QED BY <1>0, <3>1, TagDerived
  <2>3. CASE Matching(g, c) = {}
    <3> DEFINE made == CreateNode(g, c.label, c.tagged, by)
    <3>1. o.graph = made \/ o.graph = Tag(made, made.seq, TRUE)
      <4>1. o \in Out(IF c.tail = "set" THEN Tag(made, made.seq, TRUE) ELSE made,
                     IF c.tail = "bad" THEN Error ELSE Ack)
        BY <2>1, <2>3 DEF ExecuteMerge
      <4> HIDE DEF made
      <4>2. o.graph = IF c.tail = "set" THEN Tag(made, made.seq, TRUE) ELSE made
        BY <1>0, <4>1
      <4>. QED BY <4>2
    <3>2. Derived(g, made, by, 1) /\ made.seq \in DOMAIN made.nodes
      BY <2>1, CreateNodeDerived
    <3> HIDE DEF made
    <3>3. Derived(made, Tag(made, made.seq, TRUE), by, 0)
      <4>1. IsGraph(made)
        BY <3>2 DEF Derived
      <4>. QED BY <3>2, <4>1, TagDerived
    <3>4. Derived(g, Tag(made, made.seq, TRUE), by, 1 + 0)
      BY <3>2, <3>3, DerivedTrans
    <3>5. 1 + 0 = 1
      OBVIOUS
    <3>. QED BY <3>1, <3>2, <3>4, <3>5
  <2>. QED BY <2>2, <2>3
<1>3. CASE c.op \in {"set", "remove"}
  <2>1. o \in ExecuteSet(g, c) /\ (c.op = "set") \in BOOLEAN
    BY <1>3 DEF ExecuteClause
  <2>2. o.graph = g \/ (c.id \in DOMAIN g.nodes /\ o.graph = Tag(g, c.id, c.op = "set"))
    BY <1>0, <2>1 DEF ExecuteSet
  <2>. QED BY <1>0, <2>1, <2>2, TagDerived
<1>4. CASE c.op = "delete"
  <2>1. o.graph = g \/ o.graph = DeleteNodeDetach(g, c.id)
    BY <1>0, <1>4 DEF ExecuteClause, ExecuteDelete
  <2>. QED BY <1>0, <2>1, DeleteDerived
<1>5. CASE c.op = "rename"
  <2>1. o \in ExecuteCall(g, c) /\ c.from \in Label /\ c.to \in Label
    BY <1>5 DEF ExecuteClause, Clause
  <2>2. o.graph = RenameLabel(g, c.from, c.to)
    BY <1>0, <2>1 DEF ExecuteCall
  <2>. QED BY <2>1, <2>2, RenameDerived
<1>6. CASE c.op \in {"match", "relationships", "case", "unwind", "unsupported", "panic"}
  <2>1. o.graph = g
    <3>1. CASE c.op = "match"
      BY <1>0, <3>1 DEF ExecuteClause, ExecuteMatch
    <3>2. CASE c.op = "relationships"
      BY <1>0, <3>2 DEF ExecuteClause, ExecuteMatchRelationship
    <3>3. CASE c.op = "case"
      BY <1>0, <3>3 DEF ExecuteClause, ExecuteReturnExpression
    <3>4. CASE c.op = "unwind"
      BY <1>0, <3>4 DEF ExecuteClause, ExecuteUnwind
    <3>5. CASE c.op = "unsupported"
      BY <1>0, <3>5 DEF ExecuteClause, Refuse
    <3>6. CASE c.op = "panic"
      BY <1>0, <3>6 DEF ExecuteClause
    <3>. QED BY <1>6, <3>1, <3>2, <3>3, <3>4, <3>5, <3>6
  <2>. QED BY <1>0, <2>1
<1>7. c.op \in {"create", "match", "merge", "set", "remove", "delete", "rename", "unwind",
                "relationships", "case", "unsupported", "panic"}
  BY DEF Clause
<1>. QED BY <1>1, <1>2, <1>3, <1>4, <1>5, <1>6, <1>7

\* Every nonempty set of naturals has a least element: induction for what follows.
LEMMA LeastNat ==
    ASSUME NEW T, T \subseteq Nat, T # {}
    PROVE  \E x \in T : \A y \in T : ~(y < x)
<1>1. PICK x \in T : \A y \in T : ~(<<y, x>> \in OpToRel(<, Nat))
  BY NatLessThanWellFounded, WFMin
<1>2. \A y \in T : y < x => <<y, x>> \in OpToRel(<, Nat)
  BY DEF OpToRel
<1>. QED BY <1>1, <1>2

\* The outcomes of the first n branches, which the recursion in ExecuteUnion names.
IsOuts(f, m, g, branches, by) ==
    f = [n \in 0..m |-> IF n = 0 THEN Out(g, Rows("none", FALSE))
                        ELSE RunBranch(f[n - 1], branches[n], by)]

\* They exist for every union.
LEMMA OutsExist ==
    ASSUME NEW g, NEW branches, NEW by, NEW m \in Nat
    PROVE  \E f : IsOuts(f, m, g, branches, by)
<1> DEFINE Bad == {k \in Nat : ~\E f : IsOuts(f, k, g, branches, by)}
<1> SUFFICES ASSUME Bad # {} PROVE FALSE
  OBVIOUS
<1>1. PICK k \in Bad : \A y \in Bad : ~(y < k)
  BY LeastNat
<1>2. k # 0
  <2>1. IsOuts([n \in 0..0 |-> Out(g, Rows("none", FALSE))], 0, g, branches, by)
    BY DEF IsOuts
  <2>. QED BY <2>1
<1>3. k - 1 \in Nat /\ k - 1 \notin Bad
  <2>1. k \in Nat
    OBVIOUS
  <2>2. k - 1 \in Nat /\ k - 1 < k
    BY <1>2, <2>1
  <2> HIDE DEF Bad
  <2>. QED BY <1>1, <2>2
<1>4. PICK f : IsOuts(f, k - 1, g, branches, by)
  BY <1>3
<1> DEFINE h == [n \in 0..k |-> IF n = k THEN RunBranch(f[k - 1], branches[k], by) ELSE f[n]]
<1>5. IsOuts(h, k, g, branches, by)
  <2>1. ASSUME NEW n \in 0..k
        PROVE  h[n] = IF n = 0 THEN Out(g, Rows("none", FALSE)) ELSE RunBranch(h[n - 1], branches[n], by)
    <3>1. CASE n = k
      BY <1>2, <1>3, <3>1
    <3>2. CASE n # k /\ n = 0
      BY <1>2, <1>3, <1>4, <3>2 DEF IsOuts
    <3>3. CASE n # k /\ n # 0
      <4>1. n \in 0..(k - 1) /\ n - 1 \in 0..k /\ n - 1 # k
        BY <1>3, <3>3
      <4>2. f[n] = RunBranch(f[n - 1], branches[n], by)
        BY <1>4, <3>3, <4>1 DEF IsOuts
      <4>. QED BY <3>3, <4>1, <4>2
    <3>. QED BY <3>1, <3>2, <3>3
  <2>. QED BY <2>1 DEF IsOuts
<1>. QED BY <1>1, <1>5

\* One more branch creates at most one more node.
LEMMA BranchDerived ==
    ASSUME NEW g, IsGraph(g), NEW n \in Nat, g.seq + n < MaxNode, NEW c \in Clause,
           NEW by \in TxName, NEW outs, \A o \in outs : Derived(g, o.graph, by, n),
           NEW o \in RunBranch(outs, c, by)
    PROVE  Derived(g, o.graph, by, n + 1)
<1>0. g.seq \in Nat /\ MaxNode \in Nat
  BY BoundsAssumption DEF IsGraph
<1>1. PICK p \in outs : o \in IF ~Done(p.res) THEN {p}
                              ELSE {[graph |-> x.graph, res |-> Join(p.res, x.res)]
                                       : x \in ExecuteClause(p.graph, c, by)}
  BY DEF RunBranch
<1>2. Derived(g, p.graph, by, n)
  BY <1>1
<1>3. IsGraph(p.graph) /\ p.graph.seq \in Nat /\ p.graph.seq < MaxNode
  BY <1>0, <1>2, BoundsAssumption DEF Derived, IsGraph
<1>4. CASE o = p
  <2>1. Derived(p.graph, p.graph, by, 1)
    BY <1>3, DerivedSame
  <2>. QED BY <1>2, <1>4, <2>1, DerivedTrans
<1>5. CASE \E x \in ExecuteClause(p.graph, c, by) : o.graph = x.graph
  <2>1. Derived(p.graph, o.graph, by, 1)
    BY <1>3, <1>5, ClauseDerived
  <2>. QED BY <1>2, <2>1, DerivedTrans
<1>. QED BY <1>1, <1>4, <1>5

\* A union leaves a graph derived from the one it found, wherever it stops.
LEMMA UnionDerived ==
    ASSUME NEW g, IsGraph(g), NEW branches \in Seq(Clause), g.seq + Len(branches) <= MaxNode,
           NEW by \in TxName, NEW o \in ExecuteUnion(g, branches, by)
    PROVE  Derived(g, o.graph, by, Len(branches))
<1> DEFINE L == Len(branches)
           F == CHOOSE f : IsOuts(f, L, g, branches, by)
<1>0. L \in Nat /\ g.seq \in Nat /\ MaxNode \in Nat /\ \A n \in 1..L : branches[n] \in Clause
  BY LenProperties, ElementOfSeq, BoundsAssumption DEF IsGraph
<1>1. IsOuts(F, L, g, branches, by)
  BY <1>0, OutsExist
<1>2. ExecuteUnion(g, branches, by) = F[L]
  BY DEF ExecuteUnion, IsOuts
<1> HIDE DEF F
<1> DEFINE Bad == {n \in 0..L : ~\A x \in F[n] : Derived(g, x.graph, by, n)}
<1>3. Bad = {}
  <2> SUFFICES ASSUME Bad # {} PROVE FALSE
    OBVIOUS
  <2>0. Bad \subseteq Nat
    BY <1>0
  <2>1. PICK k \in Bad : \A y \in Bad : ~(y < k)
    <3> HIDE DEF Bad
    <3>. QED BY <2>0, LeastNat
  <2>2. k \in 0..L /\ k \in Nat
    BY <1>0
  <2>3. CASE k = 0
    <3>1. F[0] = Out(g, Rows("none", FALSE))
      BY <1>0, <1>1 DEF IsOuts
    <3>2. \A x \in F[0] : x.graph = g
      BY <3>1 DEF Out
    <3>. QED BY <2>3, <3>2, DerivedSame
  <2>4. CASE k # 0
    <3>1. k - 1 \in 0..L /\ k - 1 < k /\ k - 1 \in Nat /\ g.seq + (k - 1) < MaxNode /\ (k - 1) + 1 = k
      BY <1>0, <2>2, <2>4
    <3>2. k - 1 \notin Bad
      <4> HIDE DEF Bad
      <4>. QED BY <2>1, <3>1
    <3>3. \A x \in F[k - 1] : Derived(g, x.graph, by, k - 1)
      BY <3>1, <3>2
    <3>4. F[k] = RunBranch(F[k - 1], branches[k], by)
      BY <1>1, <2>2, <2>4 DEF IsOuts
    <3>5. \A x \in F[k] : Derived(g, x.graph, by, (k - 1) + 1)
      BY <1>0, <2>2, <2>4, <3>1, <3>3, <3>4, BranchDerived
    <3>. QED BY <3>1, <3>5
  <2>. QED BY <2>3, <2>4
<1>. QED BY <1>0, <1>2, <1>3

\* So does every query, in whatever it is wrapped.
LEMMA QueryDerived ==
    ASSUME NEW g, IsGraph(g), NEW q \in Query, g.seq + Len(q.union) <= MaxNode,
           NEW by \in TxName, NEW o \in ExecuteQuery(g, q, by)
    PROVE  Derived(g, o.graph, by, Len(q.union))
<1> DEFINE n == Len(q.union)
<1>0. q.union \in Seq(Clause) /\ q.wrap \in Wrap /\ n \in Nat /\ g.seq \in Nat /\ MaxNode \in Nat
  BY LenProperties, BoundsAssumption DEF Query, IsGraph
<1>1. ASSUME NEW x \in ExecuteBody(g, q.union, by)
      PROVE  Derived(g, x.graph, by, n)
  <2>1. CASE n = 1
    <3>1. x \in ExecuteClause(g, q.union[1], by) /\ q.union[1] \in Clause
      BY <1>0, <2>1, ElementOfSeq DEF ExecuteBody
    <3>2. g.seq < MaxNode
      BY <1>0, <2>1
    <3>. QED BY <2>1, <3>1, <3>2, ClauseDerived
  <2>2. CASE n # 1
    <3>1. x \in ExecuteUnion(g, q.union, by)
      BY <2>2 DEF ExecuteBody
    <3>. QED BY <1>0, <3>1, UnionDerived
  <2>. QED BY <2>1, <2>2
<1>2. CASE q.wrap = "none"
  BY <1>1, <1>2 DEF ExecuteQuery
<1>3. CASE q.wrap = "exists"
  <2>1. o.graph = g
    BY <1>3 DEF ExecuteQuery, ExecuteExistsSubquery
  <2>. QED BY <1>0, <2>1, DerivedSame
<1>4. CASE q.wrap \notin {"none", "exists"}
  <2>1. o \in ExecuteCallSubquery(g, q, by)
    BY <1>4 DEF ExecuteQuery
  <2>2. \E x \in ExecuteBody(g, q.union, by) : o.graph = x.graph
    BY <2>1 DEF ExecuteCallSubquery
  <2>. QED BY <1>1, <2>2
<1>. QED BY <1>2, <1>3, <1>4

-----------------------------------------------------------------------------
(* The steps of the server, as far as the invariants look at them. *)

\* The nodes of a graph are named by ids and transactions.
LEMMA NamesType ==
    ASSUME NEW g, IsGraph(g)
    PROVE  Names(g) \subseteq NodeId \X TxName
<1>1. \A id \in DOMAIN g.nodes : id \in NodeId /\ g.nodes[id].by \in TxName
  BY DEF IsGraph, Node
<1>. QED BY <1>1 DEF Names

\* A session is named by its process and its number.
LEMMA OwnName ==
    ASSUME TypeOK, NEW t \in DOMAIN sessions
    PROVE  /\ <<starts, t>> \in TxName
           /\ starts \in Nat /\ t \in Nat /\ t <= txSeq /\ txSeq \in Nat
<1>1. starts \in 1..MaxStarts /\ t \in 1..txSeq /\ txSeq \in 0..MaxTx
  BY DEF TypeOK
<1>2. MaxStarts \in Nat /\ MaxTx \in Nat
  BY BoundsAssumption
<1>3. starts \in 0..MaxStarts /\ t \in 0..MaxTx /\ starts \in Nat /\ t \in Nat /\ t <= txSeq /\ txSeq \in Nat
  BY <1>1, <1>2
<1>. QED BY <1>3 DEF TxName

\* h is g after a query of transaction by, panic or not.
Follows(g, h, by) ==
    /\ IsGraph(h) /\ g.seq <= h.seq
    /\ Intact(g) => Intact(h)
    /\ \A id \in DOMAIN h.nodes :
          \/ id \in DOMAIN g.nodes /\ h.nodes[id].by = g.nodes[id].by
          \/ g.seq < id /\ id <= h.seq /\ h.nodes[id].by = by

\* A step of a connection alone: accept, close, handshake and auth.
Quiet(c) == Connect(c) \/ Disconnect(c) \/ Handshake(c) \/ Auth(c)

\* A query changes the graph of one session and nothing else of the manager.
LEMMA QueryStep ==
    ASSUME TypeOK, NEW c \in Conn, NEW t \in DOMAIN sessions, NEW q \in Queries, RunQuery(c, t, q)
    PROVE  /\ DOMAIN sessions' = DOMAIN sessions
           /\ \A u \in DOMAIN sessions \ {t} : sessions'[u] = sessions[u]
           /\ IsSession(sessions'[t])
           /\ Follows(sessions[t].graph, sessions'[t].graph, <<starts, t>>)
           /\ sessions'[t].version = sessions[t].version /\ sessions'[t].origin = sessions[t].origin
           /\ ~poisoned' => sessions'[t].graph.torn = sessions[t].graph.torn
<1> DEFINE g == sessions[t].graph
<1>1. PICK o \in ExecuteQuery(g, q, <<starts, t>>) :
          /\ sessions' = [sessions EXCEPT ![t].graph = Marked(@, o), ![t].runs = @ + 1]
          /\ poisoned' = (poisoned \/ o.res = Panic)
  BY DEF RunQuery
<1>2. IsSession(sessions[t]) /\ IsGraph(g) /\ q \in Query
  BY QueriesAssumption DEF TypeOK, IsSession
<1>3. g.seq + Len(q.union) <= MaxNode /\ sessions[t].runs < MaxRuns
  BY DEF RunQuery
<1>4. Derived(g, o.graph, <<starts, t>>, Len(q.union))
  <2> HIDE DEF g
  <2>. QED BY <1>1, <1>2, <1>3, OwnName, QueryDerived
<1> DEFINE h == Marked(g, o)
<1>5. /\ DOMAIN h = {"nodes", "edges", "seq", "torn"}
      /\ h.nodes = o.graph.nodes /\ h.edges = o.graph.edges /\ h.seq = o.graph.seq
      /\ h.torn = (o.graph.torn \/ (o.res = Panic /\ o.graph # g))
  BY <1>4 DEF Marked, Derived, IsGraph
<1>6. /\ DOMAIN sessions' = DOMAIN sessions
      /\ \A u \in DOMAIN sessions \ {t} : sessions'[u] = sessions[u]
      /\ sessions'[t] = [[sessions[t] EXCEPT !.graph = h] EXCEPT !.runs = sessions[t].runs + 1]
  <2> HIDE DEF h
  <2>1. sessions' = [sessions EXCEPT ![t].graph = h, ![t].runs = @ + 1]
    BY <1>1 DEF h
  <2>. QED BY <1>2, <2>1 DEF IsSession
<1>7. /\ DOMAIN sessions'[t] = {"graph", "version", "origin", "runs"}
      /\ sessions'[t].graph = h /\ sessions'[t].version = sessions[t].version
      /\ sessions'[t].origin = sessions[t].origin /\ sessions'[t].runs = sessions[t].runs + 1
  <2> HIDE DEF h
  <2>. QED BY <1>2, <1>6 DEF IsSession
<1> HIDE DEF g, h
<1>8. IsGraph(h)
  <2>1. IsGraph(o.graph)
    BY <1>4 DEF Derived
  <2>2. h.torn \in BOOLEAN
    BY <1>5
  <2>. QED BY <1>5, <2>1, <2>2 DEF IsGraph
<1>9. Follows(g, h, <<starts, t>>)
  BY <1>4, <1>5, <1>8 DEF Follows, Derived, Intact
<1>10. ~poisoned' => h.torn = g.torn
  <2>1. o.graph.torn = g.torn /\ g.torn \in BOOLEAN
    BY <1>2, <1>4 DEF Derived, IsGraph
  <2>. QED BY <1>1, <1>5, <2>1
<1>11. sessions[t].runs + 1 \in 0..MaxRuns
  BY <1>2, <1>3, BoundsAssumption DEF IsSession
<1>12. IsSession(sessions'[t])
  BY <1>2, <1>7, <1>8, <1>11 DEF IsSession
<1>. QED BY <1>6, <1>7, <1>9, <1>10, <1>12 DEF g

\* Dropping a session leaves the others.
LEMMA DropStep ==
    ASSUME NEW t, Drop(t)
    PROVE  /\ DOMAIN sessions' = DOMAIN sessions \ {t}
           /\ \A u \in DOMAIN sessions' : u \in DOMAIN sessions /\ sessions'[u] = sessions[u]
BY DEF Drop

\* Begin adds a session that holds the base graph, under a new number.
LEMMA BeginStep ==
    ASSUME TypeOK, NEW c \in Conn, BeginTx(c)
    PROVE  /\ txSeq' = txSeq + 1 /\ txSeq' \notin DOMAIN sessions
           /\ txSeq \in Nat /\ txSeq' \in 0..MaxTx
           /\ DOMAIN sessions' = DOMAIN sessions \union {txSeq'}
           /\ \A u \in DOMAIN sessions : sessions'[u] = sessions[u]
           /\ sessions'[txSeq'].graph = base /\ sessions'[txSeq'].version = version
           /\ sessions'[txSeq'].origin = base
           /\ IsSession(sessions'[txSeq'])
<1>1. txSeq \in Nat /\ txSeq < MaxTx /\ MaxTx \in Nat /\ DOMAIN sessions \subseteq 1..txSeq /\ txSeq' = txSeq + 1
  BY BoundsAssumption DEF TypeOK, BeginTx
<1>2. txSeq' \notin DOMAIN sessions /\ txSeq' \in 0..MaxTx
  BY <1>1
<1>3. /\ DOMAIN sessions' = DOMAIN sessions \union {txSeq'}
      /\ \A u \in DOMAIN sessions : sessions'[u] = sessions[u]
      /\ sessions'[txSeq'] = [graph |-> base, version |-> version, origin |-> base, runs |-> 0]
  BY <1>2 DEF BeginTx
<1>4. IsSession([graph |-> base, version |-> version, origin |-> base, runs |-> 0])
  BY BoundsAssumption DEF TypeOK, IsSession
<1>. QED BY <1>1, <1>2, <1>3, <1>4

-----------------------------------------------------------------------------
(* Types. *)

\* Every step keeps the types.
LEMMA TypeStep ==
    ASSUME TypeOK, [Next]_vars
    PROVE  TypeOK'
<1>0. /\ ctx \in [Conn -> {"closed", "Connected", "TlsOk", "AppReady"}]
      /\ IsGraph(base) /\ IsGraph(disk) /\ DOMAIN sessions \subseteq 1..txSeq
      /\ \A t \in DOMAIN sessions : IsSession(sessions[t]) /\ IsGraph(sessions[t].graph)
      /\ version \in Nat /\ starts \in 1..MaxStarts /\ commits \in Nat /\ txSeq \in 0..MaxTx
      /\ named \subseteq NodeId \X TxName /\ undone \subseteq TxName /\ poisoned \in BOOLEAN
  BY DEF TypeOK, IsSession
<1>1. CASE UNCHANGED vars
  BY <1>0, <1>1 DEF TypeOK, vars, manager, history
<1>2. CASE Restart
  <2>1. starts' \in 1..MaxStarts /\ version' \in Nat /\ txSeq' \in 0..MaxTx /\ commits' \in Nat
    BY <1>0, <1>2, BoundsAssumption DEF Restart
  <2>2. DOMAIN sessions' = {}
    BY <1>2 DEF Restart
  <2>3. named' \subseteq NodeId \X TxName
    BY <1>0, <1>2, NamesType DEF Restart
  <2>4. ctx' \in [Conn -> {"closed", "Connected", "TlsOk", "AppReady"}] /\ poisoned' \in BOOLEAN
    BY <1>2 DEF Restart
  <2>. QED BY <1>0, <1>2, <2>1, <2>2, <2>3, <2>4 DEF TypeOK, Restart
<1>3. ASSUME NEW c \in Conn, Quiet(c)
      PROVE  TypeOK'
  <2>1. ctx' \in [Conn -> {"closed", "Connected", "TlsOk", "AppReady"}]
    BY <1>0, <1>3 DEF Quiet, Connect, Disconnect, Handshake, Auth, Goto
  <2>2. UNCHANGED <<poisoned, manager, starts, history>>
    BY <1>3 DEF Quiet, Connect, Disconnect, Handshake, Auth
  <2>. QED BY <1>0, <2>1, <2>2 DEF TypeOK, manager, history
<1>4. ASSUME NEW c \in Conn, BeginTx(c)
      PROVE  TypeOK'
  <2>1. UNCHANGED <<ctx, poisoned, base, version, disk, starts, commits, named, undone>>
    BY <1>4 DEF BeginTx, history
  <2>2. DOMAIN sessions' \subseteq 1..txSeq' /\ txSeq' \in 0..MaxTx
    BY <1>0, <1>4, BeginStep
  <2>3. \A t \in DOMAIN sessions' : IsSession(sessions'[t])
    BY <1>0, <1>4, BeginStep
  <2>. QED BY <1>0, <2>1, <2>2, <2>3 DEF TypeOK
<1>5. ASSUME NEW c \in Conn, NEW t \in DOMAIN sessions, NEW q \in Queries, RunQuery(c, t, q)
      PROVE  TypeOK'
  <2>1. UNCHANGED <<base, version, disk, txSeq, starts, commits, named, undone>>
    BY <1>5 DEF RunQuery, history
  <2>2. ctx' \in [Conn -> {"closed", "Connected", "TlsOk", "AppReady"}] /\ poisoned' \in BOOLEAN
    BY <1>0, <1>5 DEF RunQuery, Goto
  <2>3. DOMAIN sessions' = DOMAIN sessions /\ \A u \in DOMAIN sessions' : IsSession(sessions'[u])
    BY <1>0, <1>5, QueryStep
  <2>. QED BY <1>0, <2>1, <2>2, <2>3 DEF TypeOK
<1>6. ASSUME NEW c \in Conn, NEW t \in DOMAIN sessions, RollbackTx(c, t)
      PROVE  TypeOK'
  <2>1. UNCHANGED <<ctx, poisoned, base, version, disk, txSeq, starts, commits, named>>
    BY <1>6 DEF RollbackTx
  <2>2. DOMAIN sessions' \subseteq DOMAIN sessions /\ \A u \in DOMAIN sessions' : IsSession(sessions'[u])
    BY <1>0, <1>6, DropStep DEF RollbackTx
  <2>3. undone' \subseteq TxName
    BY <1>0, <1>6, OwnName DEF RollbackTx
  <2>. QED BY <1>0, <2>1, <2>2, <2>3 DEF TypeOK
<1>7. ASSUME NEW c \in Conn, NEW t \in DOMAIN sessions, CommitTx(c, t)
      PROVE  TypeOK'
  <2>1. UNCHANGED <<ctx, poisoned, txSeq, starts, undone>>
    BY <1>7 DEF CommitTx
  <2>2. DOMAIN sessions' \subseteq DOMAIN sessions /\ \A u \in DOMAIN sessions' : IsSession(sessions'[u])
    BY <1>0, <1>7, DropStep DEF CommitTx
  <2>3. IsGraph(base') /\ disk' = base' /\ version' \in Nat /\ commits' \in Nat
    BY <1>0, <1>7 DEF CommitTx
  <2>4. named' \subseteq NodeId \X TxName
    BY <1>0, <1>7, <2>3, NamesType DEF CommitTx
  <2>. QED BY <1>0, <2>1, <2>2, <2>3, <2>4 DEF TypeOK
<1>8. ASSUME NEW c \in Conn, NEW t \in DOMAIN sessions, CommitRefused(c, t)
      PROVE  TypeOK'
  <2>1. UNCHANGED <<ctx, poisoned, base, version, txSeq, starts, commits, named>>
    BY <1>8 DEF CommitRefused
  <2>2. DOMAIN sessions' \subseteq DOMAIN sessions /\ \A u \in DOMAIN sessions' : IsSession(sessions'[u])
    BY <1>0, <1>8, DropStep DEF CommitRefused
  <2>3. IsGraph(disk') /\ undone' \subseteq TxName
    BY <1>0, <1>8, OwnName DEF CommitRefused
  <2>. QED BY <1>0, <2>1, <2>2, <2>3 DEF TypeOK
<1>. QED BY <1>1, <1>2, <1>3, <1>4, <1>5, <1>6, <1>7, <1>8 DEF Next, Request, Quiet

\* The server's variables have their types in every state the requests, queries,
\* panics and restarts reach: open sessions carry numbers this process has handed
\* out and well-formed graphs.
THEOREM WellTyped == Spec => []TypeOK
<1>1. Init => TypeOK
  <2> SUFFICES ASSUME Init PROVE TypeOK
    OBVIOUS
  <2>1. IsGraph(StartGraph) /\ Names(StartGraph) \subseteq NodeId \X TxName
    BY StartAssumption, NamesType
  <2>2. 1 \in 1..MaxStarts /\ 0 \in 0..MaxTx
    BY BoundsAssumption
  <2>3. DOMAIN sessions = {}
    BY DEF Init
  <2>4. ctx \in [Conn -> {"closed", "Connected", "TlsOk", "AppReady"}] /\ poisoned \in BOOLEAN
    BY DEF Init
  <2>. QED BY <2>1, <2>2, <2>3, <2>4 DEF Init, TypeOK
<1>. QED BY <1>1, TypeStep, PTL DEF Spec

-----------------------------------------------------------------------------
(* Edges and ids. *)

\* A query keeps ids below next_node_seq.
LEMMA FollowsNumbered ==
    ASSUME NEW g, IsGraph(g), NEW h, NEW by, Follows(g, h, by), Numbered(g)
    PROVE  Numbered(h)
<1>1. g.seq \in Nat /\ h.seq \in Nat /\ DOMAIN h.nodes \subseteq Nat /\ DOMAIN g.nodes \subseteq Nat
  BY BoundsAssumption DEF Follows, IsGraph, NodeId
<1>. QED BY <1>1 DEF Follows, Numbered

\* Every step keeps the edges of every graph between its nodes, and ids numbered.
LEMMA GraphStep ==
    ASSUME TypeOK, GraphInv, [Next]_vars
    PROVE  GraphInv'
<1> DEFINE Fine(g) == Intact(g) /\ Numbered(g)
<1>0. Fine(base) /\ Fine(disk) /\ \A t \in DOMAIN sessions : Fine(sessions[t].graph)
  BY DEF GraphInv
<1>00. SUFFICES Fine(base') /\ Fine(disk') /\ \A t \in DOMAIN sessions' : Fine(sessions'[t].graph)
  BY DEF GraphInv, Intact, Numbered
<1> HIDE DEF Fine
<1> DEFINE Goal == Fine(base') /\ Fine(disk') /\ \A t \in DOMAIN sessions' : Fine(sessions'[t].graph)
<1>1. ASSUME UNCHANGED vars
      PROVE  Goal
  BY <1>0, <1>1 DEF vars, manager
<1>2. ASSUME Restart
      PROVE  Goal
  <2>1. DOMAIN sessions' = {} /\ base' = disk /\ disk' = disk
    BY <1>2 DEF Restart
  <2>. QED BY <1>0, <2>1
<1>3. ASSUME NEW c \in Conn, Quiet(c)
      PROVE  Goal
  BY <1>0, <1>3 DEF Quiet, Connect, Disconnect, Handshake, Auth, manager
<1>4. ASSUME NEW c \in Conn, BeginTx(c)
      PROVE  Goal
  <2>1. base' = base /\ disk' = disk
    BY <1>4 DEF BeginTx
  <2>. QED BY <1>0, <1>4, <2>1, BeginStep
<1>5. ASSUME NEW c \in Conn, NEW t \in DOMAIN sessions, NEW q \in Queries, RunQuery(c, t, q)
      PROVE  Goal
  <2>1. base' = base /\ disk' = disk
    BY <1>5 DEF RunQuery
  <2>2. IsGraph(sessions[t].graph) /\ Intact(sessions[t].graph) /\ Numbered(sessions[t].graph)
    BY <1>0 DEF Fine, TypeOK, IsSession
  <2>3. Follows(sessions[t].graph, sessions'[t].graph, <<starts, t>>)
    BY <1>5, QueryStep
  <2>4. Fine(sessions'[t].graph)
    BY <2>2, <2>3, FollowsNumbered DEF Follows, Fine
  <2>. QED BY <1>0, <1>5, <2>1, <2>4, QueryStep
<1>6. ASSUME NEW c \in Conn, NEW t \in DOMAIN sessions, RollbackTx(c, t)
      PROVE  Goal
  BY <1>0, <1>6, DropStep DEF RollbackTx
<1>7. ASSUME NEW c \in Conn, NEW t \in DOMAIN sessions, CommitTx(c, t)
      PROVE  Goal
  BY <1>0, <1>7, DropStep DEF CommitTx
<1>8. ASSUME NEW c \in Conn, NEW t \in DOMAIN sessions, CommitRefused(c, t)
      PROVE  Goal
  BY <1>0, <1>8, DropStep DEF CommitRefused
<1>. QED BY <1>1, <1>2, <1>3, <1>4, <1>5, <1>6, <1>7, <1>8 DEF Next, Request, Quiet

\* The first state is sound.
LEMMA GraphInit == Init => GraphInv
<1> SUFFICES ASSUME Init PROVE GraphInv
  OBVIOUS
<1>1. DOMAIN sessions = {}
  BY DEF Init
<1>. QED BY <1>1, StartAssumption DEF Init, GraphInv, Numbered

\* No query leaves an edge without its two nodes, in a session, in the base graph
\* or in the file: delete_node refuses a node with edges and delete_node_detach
\* takes them along, also where the query fails or panics after that clause.
THEOREM EdgesIntact == Spec => []ReferentialIntegrity
<1>1. GraphInv => ReferentialIntegrity
  BY DEF GraphInv, ReferentialIntegrity
<1>. QED BY <1>1, GraphInit, GraphStep, WellTyped, PTL DEF Spec

-----------------------------------------------------------------------------
(* Serializability. *)

\* Every step keeps SerialInv.
LEMMA SerialStep ==
    ASSUME TypeOK, SerialInv, [Next]_vars
    PROVE  SerialInv'
<1>0. version \in Nat /\ \A t \in DOMAIN sessions : sessions[t].version \in Nat
  BY DEF TypeOK, IsSession
<1>1. CASE UNCHANGED vars
  BY <1>1 DEF SerialInv, vars, manager
<1>2. CASE Restart
  <2>1. DOMAIN sessions' = {}
    BY <1>2 DEF Restart
  <2>. QED BY <2>1 DEF SerialInv
<1>3. ASSUME NEW c \in Conn, Quiet(c)
      PROVE  SerialInv'
  BY <1>3 DEF SerialInv, Quiet, Connect, Disconnect, Handshake, Auth, manager
<1>4. ASSUME NEW c \in Conn, BeginTx(c)
      PROVE  SerialInv'
  <2>1. base' = base /\ version' = version
    BY <1>4 DEF BeginTx
  <2>. QED BY <1>0, <1>4, <2>1, BeginStep DEF SerialInv
<1>5. ASSUME NEW c \in Conn, NEW t \in DOMAIN sessions, NEW q \in Queries, RunQuery(c, t, q)
      PROVE  SerialInv'
  <2>1. base' = base /\ version' = version
    BY <1>5 DEF RunQuery
  <2>. QED BY <1>5, <2>1, QueryStep DEF SerialInv
<1>6. ASSUME NEW c \in Conn, NEW t \in DOMAIN sessions, RollbackTx(c, t)
      PROVE  SerialInv'
  BY <1>6, DropStep DEF SerialInv, RollbackTx
<1>7. ASSUME NEW c \in Conn, NEW t \in DOMAIN sessions, CommitTx(c, t)
      PROVE  SerialInv'
  <2>1. version' = version + 1
    BY <1>7 DEF CommitTx
  <2>2. \A u \in DOMAIN sessions' : u \in DOMAIN sessions /\ sessions'[u] = sessions[u]
    BY <1>7, DropStep DEF CommitTx
  <2>. QED BY <1>0, <2>1, <2>2 DEF SerialInv
<1>8. ASSUME NEW c \in Conn, NEW t \in DOMAIN sessions, CommitRefused(c, t)
      PROVE  SerialInv'
  BY <1>8, DropStep DEF SerialInv, CommitRefused
<1>. QED BY <1>1, <1>2, <1>3, <1>4, <1>5, <1>6, <1>7, <1>8 DEF Next, Request, Quiet

\* SERIALIZABLE: a commit installs a graph derived from the very base graph it
\* replaces.  The version the session remembers equals graph_version only as long
\* as no other transaction has committed since it began.
THEOREM CommitsAreSerial == Spec => CommitsSerial
<1> DEFINE A == commits' # commits =>
                  \E t \in DOMAIN sessions \ DOMAIN sessions' :
                      sessions[t].origin = base /\ sessions[t].graph = base'
<1>1. Init => SerialInv
  <2> SUFFICES ASSUME Init PROVE SerialInv
    OBVIOUS
  <2>1. DOMAIN sessions = {}
    BY DEF Init
  <2>. QED BY <2>1 DEF SerialInv
<1>2. ASSUME TypeOK, SerialInv, [Next]_vars
      PROVE  [A]_vars
  <2>1. CASE commits' = commits
    BY <2>1
  <2>2. CASE commits' # commits
    <3>1. PICK c \in Conn, t \in DOMAIN sessions : CommitTx(c, t)
      BY <1>2, <2>2 DEF Next, Request, Restart, Connect, Disconnect, Handshake, Auth, BeginTx, RunQuery,
                        RollbackTx, CommitRefused, vars, history
    <3>2. t \in DOMAIN sessions \ DOMAIN sessions'
      BY <3>1, DropStep DEF CommitTx
    <3>3. sessions[t].origin = base /\ sessions[t].graph = base'
      BY <1>2, <3>1 DEF SerialInv, CommitTx
    <3>. QED BY <3>2, <3>3
  <2>. QED BY <2>1, <2>2
<1>3. SerialInv /\ TypeOK /\ [Next]_vars => [A]_vars
  BY <1>2
<1>4. Spec => [][A]_vars
  BY <1>1, <1>3, SerialStep, WellTyped, PTL DEF Spec
<1>. QED BY <1>4 DEF CommitsSerial

-----------------------------------------------------------------------------
(* Node ids. *)

\* A query does not touch the names a base graph has shown.
LEMMA FollowsConsistent ==
    ASSUME NEW g, IsGraph(g), NEW h, NEW by, Follows(g, h, by), NEW N, N \subseteq NodeId \X TxName,
           Consistent(N, g)
    PROVE  Consistent(N, h)
<1>1. g.seq \in Nat /\ h.seq \in Nat
  BY BoundsAssumption DEF Follows, IsGraph
<1>2. ASSUME NEW a \in N
      PROVE  a[1] <= h.seq /\ (a[1] \in DOMAIN h.nodes => h.nodes[a[1]].by = a[2])
  <2>1. a[1] \in Nat
    BY DEF NodeId
  <2>2. a[1] <= g.seq /\ (a[1] \in DOMAIN g.nodes => g.nodes[a[1]].by = a[2])
    BY DEF Consistent
  <2>. QED BY <1>1, <2>1, <2>2 DEF Follows
<1>. QED BY <1>2 DEF Consistent

\* A graph that becomes the base graph adds its names.
LEMMA Absorb ==
    ASSUME NEW N, N \subseteq NodeId \X TxName, \A a, b \in N : a[1] = b[1] => a = b,
           NEW g, IsGraph(g), Numbered(g), Consistent(N, g)
    PROVE  /\ \A a, b \in N \union Names(g) : a[1] = b[1] => a = b
           /\ Consistent(N \union Names(g), g)
<1>1. \A a \in Names(g) : /\ a[1] \in DOMAIN g.nodes /\ a[2] = g.nodes[a[1]].by
                          /\ a = <<a[1], a[2]>> /\ a[1] <= g.seq
  BY DEF Names, Numbered
<1>2. \A a \in N : /\ a = <<a[1], a[2]>> /\ a[1] <= g.seq
                   /\ a[1] \in DOMAIN g.nodes => g.nodes[a[1]].by = a[2]
  BY DEF Consistent
<1>3. ASSUME NEW a \in N \union Names(g), NEW b \in N \union Names(g), a[1] = b[1]
      PROVE  a = b
  <2>1. CASE a \in N /\ b \in N
    BY <1>3, <2>1
  <2>2. CASE a \in N /\ b \in Names(g)
    BY <1>1, <1>2, <1>3, <2>2
  <2>3. CASE a \in Names(g) /\ b \in N
    BY <1>1, <1>2, <1>3, <2>3
  <2>4. CASE a \in Names(g) /\ b \in Names(g)
    BY <1>1, <1>3, <2>4
  <2>. QED BY <2>1, <2>2, <2>3, <2>4
<1>4. Consistent(N \union Names(g), g)
  BY <1>1, <1>2 DEF Consistent
<1>. QED BY <1>3, <1>4

\* Every step keeps NamedInv.
LEMMA NamedStep ==
    ASSUME TypeOK, GraphInv, SerialInv, NamedInv, [Next]_vars
    PROVE  NamedInv'
<1> DEFINE Unique(N) == \A a, b \in N : a[1] = b[1] => a = b
           Goal == /\ Unique(named') /\ Consistent(named', base') /\ Consistent(named', disk')
                   /\ \A t \in DOMAIN sessions' :
                         sessions'[t].version = version' => Consistent(named', sessions'[t].graph)
<1>0. /\ Unique(named) /\ Consistent(named, base) /\ Consistent(named, disk)
      /\ \A t \in DOMAIN sessions :
            sessions[t].version = version => Consistent(named, sessions[t].graph)
  BY DEF NamedInv, IdsNeverReused
<1>00. SUFFICES Goal
  BY DEF NamedInv, IdsNeverReused, Consistent
<1>T. /\ IsGraph(base) /\ IsGraph(disk) /\ Numbered(base) /\ Numbered(disk)
      /\ named \subseteq NodeId \X TxName /\ version \in Nat
      /\ \A t \in DOMAIN sessions : /\ IsGraph(sessions[t].graph) /\ Numbered(sessions[t].graph)
                                    /\ sessions[t].version \in Nat /\ sessions[t].version <= version
  BY DEF TypeOK, GraphInv, SerialInv, IsSession
<1>1. ASSUME UNCHANGED vars
      PROVE  Goal
  BY <1>0, <1>1 DEF vars, manager, history
<1>2. ASSUME Restart
      PROVE  Goal
  <2>1. DOMAIN sessions' = {} /\ base' = disk /\ disk' = disk /\ named' = named \union Names(disk)
    BY <1>2 DEF Restart
  <2>2. Unique(named \union Names(disk)) /\ Consistent(named \union Names(disk), disk)
    BY <1>0, <1>T, Absorb
  <2> HIDE DEF Unique
  <2>. QED BY <2>1, <2>2
<1>3. ASSUME NEW c \in Conn, Quiet(c)
      PROVE  Goal
  BY <1>0, <1>3 DEF Quiet, Connect, Disconnect, Handshake, Auth, manager, history
<1>4. ASSUME NEW c \in Conn, BeginTx(c)
      PROVE  Goal
  <2>1. base' = base /\ disk' = disk /\ version' = version /\ named' = named
    BY <1>4 DEF BeginTx, history
  <2> HIDE DEF Unique
  <2>. QED BY <1>0, <1>4, <2>1, BeginStep
<1>5. ASSUME NEW c \in Conn, NEW t \in DOMAIN sessions, NEW q \in Queries, RunQuery(c, t, q)
      PROVE  Goal
  <2>1. base' = base /\ disk' = disk /\ version' = version /\ named' = named
    BY <1>5 DEF RunQuery, history
  <2>2. Follows(sessions[t].graph, sessions'[t].graph, <<starts, t>>)
    BY <1>5, QueryStep
  <2>3. Consistent(named, sessions[t].graph) => Consistent(named, sessions'[t].graph)
    BY <1>T, <2>2, FollowsConsistent
  <2> HIDE DEF Unique
  <2>. QED BY <1>0, <1>5, <2>1, <2>3, QueryStep
<1>6. ASSUME NEW c \in Conn, NEW t \in DOMAIN sessions, RollbackTx(c, t)
      PROVE  Goal
  BY <1>0, <1>6, DropStep DEF RollbackTx
<1>7. ASSUME NEW c \in Conn, NEW t \in DOMAIN sessions, CommitTx(c, t)
      PROVE  Goal
  <2> DEFINE g == sessions[t].graph
  <2>1. base' = g /\ disk' = g /\ version' = version + 1 /\ named' = named \union Names(g)
    BY <1>7 DEF CommitTx
  <2>2. Unique(named \union Names(g)) /\ Consistent(named \union Names(g), g)
    <3>1. Consistent(named, g)
      BY <1>0, <1>7 DEF CommitTx
    <3>. QED BY <1>0, <1>T, <3>1, Absorb
  <2>3. \A u \in DOMAIN sessions' : u \in DOMAIN sessions /\ sessions'[u] = sessions[u]
    BY <1>7, DropStep DEF CommitTx
  <2>4. \A u \in DOMAIN sessions' : sessions'[u].version # version'
    BY <1>T, <2>1, <2>3
  <2> HIDE DEF Unique, g
  <2>. QED BY <2>1, <2>2, <2>4
<1>8. ASSUME NEW c \in Conn, NEW t \in DOMAIN sessions, CommitRefused(c, t)
      PROVE  Goal
  BY <1>0, <1>8, DropStep DEF CommitRefused
<1>. QED BY <1>1, <1>2, <1>3, <1>4, <1>5, <1>6, <1>7, <1>8 DEF Next, Request, Quiet

\* Init satisfies NamedInv.
LEMMA NamedInit == Init => NamedInv /\ SerialInv
<1> SUFFICES ASSUME Init PROVE NamedInv /\ SerialInv
  OBVIOUS
<1>1. DOMAIN sessions = {} /\ base = StartGraph /\ disk = StartGraph /\ named = Names(StartGraph)
  BY DEF Init
<1>2. IsGraph(StartGraph) /\ Numbered(StartGraph)
  BY StartAssumption DEF Numbered
<1>3. Consistent({}, StartGraph)
  BY DEF Consistent
<1>4. /\ \A a, b \in {} \union Names(StartGraph) : a[1] = b[1] => a = b
      /\ Consistent({} \union Names(StartGraph), StartGraph)
  BY <1>2, <1>3, Absorb
<1>5. {} \union Names(StartGraph) = Names(StartGraph)
  OBVIOUS
<1>. QED BY <1>1, <1>4, <1>5 DEF NamedInv, SerialInv, IdsNeverReused

\* A node id means one node: once a node has been visible in a base graph, no
\* other node of a later base graph has its id, deletions, refused commits and
\* restarts notwithstanding: next_node_seq is part of the graph and only grows.
THEOREM IdsAreUnique == Spec => []IdsNeverReused
<1>1. NamedInv => IdsNeverReused
  BY DEF NamedInv
<1>. QED BY <1>1, NamedInit, GraphInit, NamedStep, SerialStep, GraphStep, WellTyped, PTL DEF Spec

-----------------------------------------------------------------------------
(* Transactions that were undone. *)

\* A transaction with a session has not ended.
LEMMA OpenNotEnded ==
    ASSUME TypeOK, NEW t \in DOMAIN sessions
    PROVE  <<starts, t>> \in TxName /\ <<starts, t>> \notin Ended
<1>1. <<starts, t>> \in TxName /\ starts \in Nat
  BY OwnName
<1>. QED BY <1>1 DEF Ended

\* A transaction that has ended stays ended.
LEMMA EndedStep ==
    ASSUME TypeOK, [Next]_vars
    PROVE  Ended \subseteq Ended'
<1>0. starts \in Nat /\ txSeq \in Nat /\ \A b \in TxName : b[1] \in Nat /\ b[2] \in Nat
  BY BoundsAssumption DEF TypeOK, TxName
<1>1. CASE UNCHANGED <<starts, txSeq, sessions>>
  BY <1>1 DEF Ended
<1>2. CASE Restart
  BY <1>0, <1>2 DEF Ended, Restart
<1>3. ASSUME NEW c \in Conn, BeginTx(c)
      PROVE  Ended \subseteq Ended'
  <2>1. starts' = starts
    BY <1>3 DEF BeginTx
  <2>. QED BY <1>0, <1>3, <2>1, BeginStep DEF Ended
<1>4. CASE starts' = starts /\ txSeq' = txSeq /\ DOMAIN sessions' \subseteq DOMAIN sessions
  BY <1>0, <1>4 DEF Ended
<1>5. ASSUME NEW c \in Conn, NEW t \in DOMAIN sessions, NEW q \in Queries, RunQuery(c, t, q)
      PROVE  starts' = starts /\ txSeq' = txSeq /\ DOMAIN sessions' \subseteq DOMAIN sessions
  BY <1>5, QueryStep DEF RunQuery
<1>6. ASSUME NEW c \in Conn, NEW t \in DOMAIN sessions,
             RollbackTx(c, t) \/ CommitTx(c, t) \/ CommitRefused(c, t)
      PROVE  starts' = starts /\ txSeq' = txSeq /\ DOMAIN sessions' \subseteq DOMAIN sessions
  BY <1>6, DropStep DEF RollbackTx, CommitTx, CommitRefused
<1>7. ASSUME NEW c \in Conn, Quiet(c)
      PROVE  UNCHANGED <<starts, txSeq, sessions>>
  BY <1>7 DEF Quiet, Connect, Disconnect, Handshake, Auth, manager
<1>8. UNCHANGED vars => UNCHANGED <<starts, txSeq, sessions>>
  BY DEF vars, manager
<1>. QED BY <1>1, <1>2, <1>3, <1>4, <1>5, <1>6, <1>7, <1>8 DEF Next, Request, Quiet

\* A session that is dropped has ended.
LEMMA DropEnds ==
    ASSUME TypeOK, NEW t \in DOMAIN sessions, Drop(t), starts' = starts, txSeq' = txSeq
    PROVE  <<starts, t>> \in Ended'
<1>1. t \notin DOMAIN sessions'
  BY DropStep
<1>2. <<starts, t>> \in TxName /\ t <= txSeq
  BY OwnName
<1>. QED BY <1>1, <1>2 DEF Ended

\* A query adds nodes of its own transaction only.
LEMMA FollowsMadeBy ==
    ASSUME NEW g, NEW h, NEW by, Follows(g, h, by), NEW T, MadeBy(g, T \union {by})
    PROVE  MadeBy(h, T \union {by})
BY DEF Follows, MadeBy

\* Every step keeps UndoneInv.
LEMMA UndoneStep ==
    ASSUME TypeOK, UndoneInv, [Next]_vars
    PROVE  UndoneInv'
<1> DEFINE Sound(g, T) == ~g.torn /\ MadeBy(g, T)
           Goal == /\ undone' \subseteq Ended'
                   /\ Sound(base', Settled') /\ Sound(disk', Settled')
                   /\ \A t \in DOMAIN sessions' :
                         /\ MadeBy(sessions'[t].graph, Settled' \union {<<starts', t>>})
                         /\ ~poisoned' => ~sessions'[t].graph.torn
<1>0. /\ undone \subseteq Ended /\ Sound(base, Settled) /\ Sound(disk, Settled)
      /\ \A t \in DOMAIN sessions : /\ MadeBy(sessions[t].graph, Settled \union {<<starts, t>>})
                                    /\ ~poisoned => ~sessions[t].graph.torn
  BY DEF UndoneInv
<1>00. SUFFICES Goal
  BY DEF UndoneInv, MadeBy
<1>E. Ended \subseteq Ended'
  BY EndedStep
<1>M. \A g : \A S, T : S \subseteq T /\ MadeBy(g, S) => MadeBy(g, T)
  BY DEF MadeBy
<1>S. undone' = undone => Settled \subseteq Settled' /\ undone' \subseteq Ended'
  BY <1>0, <1>E DEF Settled
<1>W. ASSUME undone' = undone
      PROVE  /\ Sound(base, Settled') /\ Sound(disk, Settled')
             /\ \A t \in DOMAIN sessions : MadeBy(sessions[t].graph, Settled' \union {<<starts, t>>})
  <2>1. Settled \subseteq Settled'
    BY <1>S, <1>W
  <2>2. \A t : Settled \union {<<starts, t>>} \subseteq Settled' \union {<<starts, t>>}
    BY <2>1
  <2>. QED BY <1>0, <1>M, <2>1, <2>2
<1>1. ASSUME UNCHANGED <<poisoned, base, disk, sessions, starts, undone>>
      PROVE  Goal
  BY <1>0, <1>1, <1>S, <1>W
<1>2. ASSUME Restart
      PROVE  Goal
  <2>1. DOMAIN sessions' = {} /\ base' = disk /\ disk' = disk /\ undone' = undone
    BY <1>2 DEF Restart
  <2> HIDE DEF Sound
  <2>. QED BY <1>S, <1>W, <2>1
<1>3. ASSUME NEW c \in Conn, BeginTx(c)
      PROVE  Goal
  <2>1. UNCHANGED <<poisoned, base, disk, starts, undone>>
    BY <1>3 DEF BeginTx, history
  <2>2. \A u \in DOMAIN sessions' :
           \/ u \in DOMAIN sessions /\ sessions'[u] = sessions[u]
           \/ sessions'[u].graph = base
    BY <1>3, BeginStep
  <2>3. ASSUME NEW u \in DOMAIN sessions'
        PROVE  /\ MadeBy(sessions'[u].graph, Settled' \union {<<starts', u>>})
               /\ ~poisoned' => ~sessions'[u].graph.torn
    <3>1. CASE u \in DOMAIN sessions /\ sessions'[u] = sessions[u]
      BY <1>0, <1>W, <2>1, <3>1
    <3>2. CASE sessions'[u].graph = base
      BY <1>M, <1>W, <2>1, <3>2
    <3>. QED BY <2>2, <3>1, <3>2
  <2> HIDE DEF Sound
  <2>. QED BY <1>S, <1>W, <2>1, <2>3
<1>4. ASSUME NEW c \in Conn, NEW t \in DOMAIN sessions, NEW q \in Queries, RunQuery(c, t, q)
      PROVE  Goal
  <2>1. UNCHANGED <<base, disk, starts, undone>> /\ ~poisoned
    BY <1>4 DEF RunQuery, Serve, history
  <2>2. /\ DOMAIN sessions' = DOMAIN sessions
        /\ \A u \in DOMAIN sessions \ {t} : sessions'[u] = sessions[u]
        /\ Follows(sessions[t].graph, sessions'[t].graph, <<starts, t>>)
        /\ ~poisoned' => sessions'[t].graph.torn = sessions[t].graph.torn
    BY <1>4, QueryStep
  <2>3. MadeBy(sessions'[t].graph, Settled' \union {<<starts, t>>})
    BY <1>W, <2>1, <2>2, FollowsMadeBy
  <2> HIDE DEF Sound
  <2>. QED BY <1>0, <1>S, <1>W, <2>1, <2>2, <2>3
<1>5. ASSUME NEW t \in DOMAIN sessions, Drop(t), undone' = undone \union {<<starts, t>>},
             UNCHANGED <<poisoned, base, disk, starts, txSeq>>
      PROVE  Goal
  <2>1. <<starts, t>> \in Ended' /\ <<starts, t>> \notin Ended
    BY <1>5, DropEnds, OpenNotEnded
  <2>2. Settled \subseteq Settled' /\ undone' \subseteq Ended'
    BY <1>0, <1>5, <1>E, <2>1 DEF Settled
  <2>3. \A u : Settled \union {<<starts, u>>} \subseteq Settled' \union {<<starts, u>>}
    BY <2>2
  <2>4. \A u \in DOMAIN sessions' : u \in DOMAIN sessions /\ sessions'[u] = sessions[u]
    BY <1>5, DropStep
  <2>5. ASSUME NEW u \in DOMAIN sessions'
        PROVE  /\ MadeBy(sessions'[u].graph, Settled' \union {<<starts', u>>})
               /\ ~poisoned' => ~sessions'[u].graph.torn
    <3>1. MadeBy(sessions[u].graph, Settled' \union {<<starts, u>>})
      BY <1>0, <1>M, <2>3, <2>4
    <3>. QED BY <1>0, <1>5, <2>4, <3>1
  <2>6. Sound(base', Settled') /\ Sound(disk', Settled')
    BY <1>0, <1>5, <1>M, <2>2
  <2>. QED BY <2>2, <2>5, <2>6
<1>6. ASSUME NEW t \in DOMAIN sessions, Drop(t), ~poisoned, base' \in {base, sessions[t].graph},
             disk' \in {disk, sessions[t].graph}, UNCHANGED <<poisoned, starts, txSeq, undone>>
      PROVE  Goal
  <2>1. <<starts, t>> \in Ended' /\ <<starts, t>> \notin Ended
    BY <1>6, DropEnds, OpenNotEnded
  <2>2. <<starts, t>> \in Settled'
    BY <1>0, <1>6, <2>1 DEF Settled
  <2>3. Settled' \union {<<starts, t>>} = Settled'
    BY <2>2
  <2>4. Sound(sessions[t].graph, Settled')
    BY <1>0, <1>6, <1>W, <2>3
  <2>5. \A u \in DOMAIN sessions' : u \in DOMAIN sessions /\ sessions'[u] = sessions[u]
    BY <1>6, DropStep
  <2>6. \A u \in DOMAIN sessions' : /\ MadeBy(sessions'[u].graph, Settled' \union {<<starts', u>>})
                                    /\ ~sessions'[u].graph.torn
    BY <1>0, <1>6, <1>W, <2>5
  <2>7. undone' \subseteq Ended'
    BY <1>6, <1>S
  <2>8. Sound(base', Settled') /\ Sound(disk', Settled')
    <3> HIDE DEF Sound
    <3>. QED BY <1>6, <1>W, <2>4
  <2>. QED BY <2>6, <2>7, <2>8
<1>7. ASSUME NEW c \in Conn, Quiet(c)
      PROVE  UNCHANGED <<poisoned, base, disk, sessions, starts, undone>>
  BY <1>7 DEF Quiet, Connect, Disconnect, Handshake, Auth, manager, history
<1>8. UNCHANGED vars => UNCHANGED <<poisoned, base, disk, sessions, starts, undone>>
  BY DEF vars, manager, history
<1>9. ASSUME NEW c \in Conn, NEW t \in DOMAIN sessions, RollbackTx(c, t)
      PROVE  Goal
  <2> HIDE DEF Goal
  <2>. QED BY <1>5, <1>9 DEF RollbackTx
<1>10. ASSUME NEW c \in Conn, NEW t \in DOMAIN sessions, CommitTx(c, t)
       PROVE  Goal
  <2> HIDE DEF Goal
  <2>. QED BY <1>6, <1>10 DEF CommitTx, Serve
<1>11. ASSUME NEW c \in Conn, NEW t \in DOMAIN sessions, CommitRefused(c, t)
       PROVE  Goal
  <2> HIDE DEF Goal
  <2>. QED BY <1>5, <1>6, <1>11 DEF CommitRefused, Serve
<1> HIDE DEF Goal
<1>. QED BY <1>1, <1>2, <1>3, <1>4, <1>7, <1>8, <1>9, <1>10, <1>11 DEF Next, Request, Quiet

\* Nothing of a transaction that was rolled back, or whose commit was refused with
\* RETRYABLE_CONFLICT, and nothing of the half of a query that panicked, is in the
\* base graph or the file, whoever sent the rollback or the commit.
THEOREM UndoneIsGone == Spec => []UndoneLeavesNothing
<1>1. Init => UndoneInv
  <2> SUFFICES ASSUME Init PROVE UndoneInv
    OBVIOUS
  <2>1. DOMAIN sessions = {} /\ base = StartGraph /\ disk = StartGraph /\ undone = {} /\ starts = 1
    BY DEF Init
  <2>2. <<0, 0>> \in TxName
    BY BoundsAssumption DEF TxName
  <2>3. <<0, 0>> \in Settled
    BY <2>1, <2>2 DEF Settled, Ended
  <2>. QED BY <2>1, <2>3, StartAssumption DEF UndoneInv, MadeBy
<1>2. UndoneInv => UndoneLeavesNothing
  BY DEF UndoneInv, UndoneLeavesNothing, MadeBy, Settled
<1>. QED BY <1>1, <1>2, UndoneStep, WellTyped, PTL DEF Spec
=============================================================================
