--------------------------- MODULE MCCorpusMemory ---------------------------
(* An instance of CorpusMemory: two documents that share two facts, one of *)
(* them grounded by the first document only.                               *)
EXTENDS CorpusMemory

CONSTANTS d1, d2, f1, f2, s1, s2, e1, e2, e3

MCSchemaOf    == (f1 :> s1) @@ (f2 :> s2)
MCEnds        == (f1 :> <<e1, e2>>) @@ (f2 :> <<e2, e3>>)
MCContributes == (d1 :> {f1, f2}) @@ (d2 :> {f1, f2})
MCEvidence    == (d1 :> {f1, f2}) @@ (d2 :> {f1})
MCOccurrences == (d1 :> 2) @@ (d2 :> 1)

\* Some order of the ids, and of the keys.
Listed(S)     == FoldSet(LAMBDA x, s : Append(s, x), <<>>, S)
Position(S)   == LET s == Listed(S) IN [x \in S |-> CHOOSE i \in DOMAIN s : s[i] = x]
MCNodeRank    == Position(NodeId)
MCKeyRank     == Position(EdgeKey)

MCOperations  ==
    [op : {"delete_document"}, doc : Doc]
      \union [op : {"delete_by_document", "vector_delete", "lexical_delete"}, doc : {d1}]
      \union [op : {"delete_nodes"}, nodes : {{<<"entity", e1>>, <<"ontology", s1>>}}]
      \union [op : {"delete_edges"}, rel : {{"entity_mention"}}]
      \union [op : {"activate"}, schemas : {{s1}}]
      \union [op : {"save", "delete_by_corpus"}]
=============================================================================
