-------------------------- MODULE MCVectorLineage --------------------------
(* Vectors for VectorLineage: two of one length, which only their content tells
   apart, or a short and a long one. *)
EXTENDS VectorLineage, TLC

SameLength == {[tag |-> "a", len |-> 2], [tag |-> "b", len |-> 2]}
ShortLong  == {[tag |-> "a", len |-> 2], [tag |-> "c", len |-> 8]}

Symmetry == Permutations(Key)
=============================================================================
