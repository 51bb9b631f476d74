------------------------- MODULE AtomicGenerations -------------------------
(***************************************************************************)
(* What the native store promises its clients, with no files, no log and   *)
(* no crashes: a sequence of generations, each one the previous plus one   *)
(* whole batch of mutations, published in a single step.  Readers see the  *)
(* current generation or nothing, and a batch is acknowledged only once it *)
(* is the current generation.                                              *)
(***************************************************************************)
EXTENDS Naturals, Sequences

VARIABLES
    number,     \* the durable generation
    data,       \* its content
    view,       \* the generations a reader is served: one, or none
    acked       \* generations whose commit token was returned

vars == <<number, data, view, acked>>

Init ==
    /\ number = 0
    /\ data = <<>>
    /\ view = {}
    /\ acked = {}

\* One whole batch becomes the next generation, out of sight of readers.
Publish ==
    /\ view = {} /\ view' = {}
    /\ number' = number + 1
    /\ Len(data') > Len(data) /\ SubSeq(data', 1, Len(data)) = data
    /\ UNCHANGED acked

\* Readers are served the current generation; its commit may be acknowledged
\* at the same time.
Serve ==
    /\ view = {}
    /\ view' = {[number |-> number, data |-> data]}
    /\ acked' \in {acked, acked \union {number}}
    /\ UNCHANGED <<number, data>>

\* A transaction begins, or the process is gone.
Withdraw ==
    /\ view' = {}
    /\ UNCHANGED <<number, data, acked>>

Next == Publish \/ Serve \/ Withdraw

Spec == Init /\ [][Next]_vars
=============================================================================
