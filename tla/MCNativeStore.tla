--------------------------- MODULE MCNativeStore ---------------------------
(***************************************************************************)
(* NativeStore for TLC.  The instances are in the .cfg files; Symmetry is   *)
(* used by the safety run only.                                            *)
(***************************************************************************)
EXTENDS NativeStore, TLC

Symmetry == Permutations(Inode) \union Permutations(Mutation)
=============================================================================
