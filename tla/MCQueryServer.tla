--------------------------- MODULE MCQueryServer ---------------------------
(* Model-checking instance of QueryServer: connections are interchangeable. *)
EXTENDS QueryServer, TLC

CONSTANTS A, B  \* labels

\* Two nodes and an edge between them.
MCStartGraph ==
    [nodes |-> [i \in 1..2 |-> [label |-> A, tagged |-> FALSE, by |-> <<0, 0>>]],
     edges |-> {[from |-> 1, to |-> 2]}, seq |-> 2, torn |-> FALSE]

One(c)    == [union |-> <<c>>, wrap |-> "none"]
Two(c, d) == [union |-> <<c, d>>, wrap |-> "none"]
In(w, q)  == [q EXCEPT !.wrap = w]

create   == [op |-> "create", label |-> A]
rename   == [op |-> "rename", from |-> A, to |-> B]
mergeBad == [op |-> "merge", label |-> B, tagged |-> FALSE, tail |-> "bad"]
mergeSet == [op |-> "merge", label |-> A, tagged |-> TRUE, tail |-> "set"]
match    == [op |-> "match", label |-> B]
rels     == [op |-> "relationships"]
delete2  == [op |-> "delete", id |-> 2, detach |-> FALSE]
detach2  == [op |-> "delete", id |-> 2, detach |-> TRUE]
delete3  == [op |-> "delete", id |-> 3, detach |-> FALSE]
set3     == [op |-> "set", id |-> 3]
remove1  == [op |-> "remove", id |-> 1]
refused  == [op |-> "unsupported"]
case     == [op |-> "case"]
unwind   == [op |-> "unwind", list |-> FALSE, aggregate |-> FALSE]
panic    == [op |-> "panic"]

\* Every clause, and the composites in which a clause has run when another
\* one, the union or the projection fails.
MCQueries ==
    {One(c) : c \in {create, mergeBad, mergeSet, delete2, detach2, delete3, set3, remove1,
                     rename, rels, refused, panic}}
      \union {Two(rename, rels), Two(rename, refused), Two(rename, panic), Two(case, case), Two(case, unwind)}
      \union {In("call", One(create)), In("call_count", One(create)), In("call_other", One(rename)),
              In("exists", One(create)), In("exists", One(match)), In("exists", One(unwind)), In("call_count", One(match))}

Symmetry == Permutations(Conn)
=============================================================================
