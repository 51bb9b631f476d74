--------------------------- MODULE MCBoundedReads ---------------------------
(* Instances of BoundedReads for TLC. *)
EXTENDS BoundedReads

MCGraphs == {[nodes |-> 0, edges |-> 0, all |-> 3],
             [nodes |-> 1280000, edges |-> 4000000, all |-> 4000000],
             [nodes |-> 1500000, edges |-> 3270000, all |-> 4000000],
             [nodes |-> 1500000, edges |-> 4000000, all |-> 4000000],
             [nodes |-> 1500001, edges |-> 3000000, all |-> 3000000],
             [nodes |-> 2, edges |-> 1, all |-> 4000001]}

Vector(id, ns, score) == [id |-> id, ns |-> ns, score |-> score]
MCVectors == {Vector(1, "p", 5), Vector(2, "p", 5), Vector(3, "p", 7), Vector(4, "f", 5)}

Fact(id, score) == [id |-> id, score |-> score]
MCFacts == {Fact(1, 4), Fact(2, 4), Fact(3, 0 - 1), Fact(4, 0)}

Slot(ns, limit) == [ns |-> ns, threshold |-> 5, limit |-> limit]
Search(slots, gen) == [method |-> "search", id |-> 7, gen |-> gen, wellFormed |-> TRUE, slots |-> slots]
Expand(limit, well) == [method |-> "expand", id |-> 8, gen |-> 1, wellFormed |-> well,
                        limit |-> limit, excluded |-> {2}]
Ppr(passages, facts) == [method |-> "ppr", id |-> 9, gen |-> 1, wellFormed |-> TRUE,
                         passages |-> passages, facts |-> facts, iterations |-> 128]
Plain(method) == [method |-> method, id |-> 5]
Read(slot)    == [method |-> "read", id |-> 6, slots |-> <<slot>>]

MCRequests ==
    {Search(<<Slot("p", 2), Slot("f", 1)>>, 1), Search(<<Slot("p", 1)>>, 0),
     Search(<<Slot("p", 1), Slot("p", 1), Slot("f", 1)>>, 1), Search(<<>>, 1),
     Expand(2, TRUE), Expand(2, FALSE),
     Ppr(1, 1), Ppr(100, 29),
     Plain("garbage"), Read(Slot("p", 2)), Plain("mutation"), Plain("progress")}

MCSizes == {98, 2097144, 2097145}
=============================================================================
