-------------------------- MODULE MCProgressFrames --------------------------
(* Policies for ProgressFrames: every one of a small range, so that both those
   admission refuses and those with exactly the frames it needs occur. *)
EXTENDS ProgressFrames

MCPolicies == [absolute : {3, 4, 6}, min : {1, 2}, heartbeat : {1, 2, 3}, earlyUnits : {1, 2}, earlyBytes : {2},
               frames : {5, 6, 7, 8}]
=============================================================================
