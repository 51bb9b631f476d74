---------------------------- MODULE BoundedReads ----------------------------
(***************************************************************************)
(* The descriptor read mode of the native server: one committed generation *)
(* is opened from inherited descriptors, and bounded retrieval requests    *)
(* are answered one frame at a time under caps on objects, scan units,     *)
(* memory and time.                                                        *)
(*                                                                         *)
(* A session has one absolute deadline, which requests can only bring      *)
(* nearer.  A request is previewed against it, timed by a clock of its     *)
(* own, admitted, sized before any work, worked off with checkpoints,      *)
(* turned into objects and encoded; it fails with a structured error at    *)
(* any of these points.  Time is in ticks and passes between any two of    *)
(* them.                                                                   *)
(*                                                                         *)
(* Scores are numbers given by the items; scan units and bytes keep their  *)
(* real sizes.                                                             *)
(***************************************************************************)
EXTENDS Integers, Sequences, FiniteSets, SequencesExt

CONSTANTS
    None,
    Graphs,         \* the PPR graphs a store may hold: nodes, edges, edges of all corpora
    Vectors,        \* stored vectors: id, namespace, score against the query
    Facts,          \* stored facts: id, score by the best seed, negative if none matches
    Requests,       \* request frames clients send
    Generation,     \* the committed generation
    Budgets,        \* remaining budgets clients send
    Sizes,          \* lengths of success frames without the digits of their length
    MaxVectorComparisons, MaxFactsInspected, MaxGraphNodes, MaxGraphEdges, MaxIterations,
    MaxCombinedObjects, MaxReturned, MaxExpansion, MaxTransientBytes, MaxObjectBytes, MaxResponseBytes,
    MaxOperation,   \* MAX_OPERATION_DEADLINE_MS in ticks
    MaxFrames,      \* MAX_DESCRIPTOR_PROTOCOL_FRAMES
    MaxNow          \* bound: the clock

VARIABLES
    now,        \* the monotonic clock
    graph,      \* the store's PPR graph
    session,    \* owner's remaining budget and absolute deadline of the session
    first,      \* ghost: the deadline of the first admitted request
    frames,     \* frames read
    open,       \* whether the process still reads
    op,         \* the request being executed, or Idle
    reply       \* the last answer; None before the first

vars == <<now, graph, session, first, frames, open, op, reply>>

\* Stored ids are unique in their HashMap; ids and scores are totally ordered.
ASSUME StoreAssumption ==
    /\ \A g \in Graphs : g.nodes \in Nat /\ g.edges \in Nat /\ g.all \in Nat
    /\ IsFiniteSet(Vectors) /\ IsFiniteSet(Facts)
    /\ \A S \in {Vectors, Facts} : \A x, y \in S :
         x.id \in Int /\ x.score \in Int /\ (x.id = y.id => x = y)

\* The caps are what bounded_retrieval_contract.rs fixes, as far as the counting
\* of units and digits depends on them.
ASSUME CapsAssumption ==
    /\ {MaxVectorComparisons, MaxFactsInspected, MaxCombinedObjects, MaxOperation,
        MaxFrames, MaxNow, MaxResponseBytes} \subseteq Nat
    /\ MaxGraphNodes \in 0..2^21 /\ MaxGraphEdges \in 0..2^22
    /\ MaxIterations \in Nat \ {0} /\ MaxResponseBytes < 10^7
    /\ Budgets \subseteq Nat /\ Sizes \subseteq Nat

ASSUME NoneAssumption ==
    /\ None \notin {"CLIENT", "SIZE"} /\ None \notin 0..(MaxNow + MaxOperation)
    /\ None \notin [owner : Budgets, deadline : 0..(MaxNow + MaxOperation)]

-----------------------------------------------------------------------------
(* Scan units. *)

Passes(k) == CHOOSE l \in 0..31 : 2^l >= k /\ (l = 0 \/ 2^(l - 1) < k)

\* canonical_counted_sort: the scratch copy, a decision and a move per element
\* and pass, and a copy back after an odd number of passes.
SortUnits(k) == IF k < 2 THEN 0 ELSE k * (1 + 2 * Passes(k) + (Passes(k) % 2))

\* execute_ppr: collecting and sorting edges and endpoints; building degrees,
\* offsets, adjacency, damping, teleport and scores; iterating; ranking.
CollectUnits(g) == g.all + SortUnits(g.edges) + g.edges + g.nodes + SortUnits(g.nodes)
BuildUnits(g)   == 11 * g.nodes + 1 + 3 * g.edges
IterationUnits(g) == 4 * g.nodes + g.edges
RankUnits(g)    == g.nodes

\* Fault: the cap counts three node passes per iteration.
ScanUnitsOfThreePasses ==
    57 * MaxGraphNodes + 50 * MaxGraphEdges
      + MaxIterations * (3 * MaxGraphNodes + MaxGraphEdges) + 1

MaxGraphScanUnits ==
    57 * MaxGraphNodes + 50 * MaxGraphEdges
      + MaxIterations * (4 * MaxGraphNodes + MaxGraphEdges) + 1

\* WorkCounts, and the check every encoded counter record passes or fails.  Of the
\* iterations, nodes and edges in it, the request and the catalog bound each.
NoWork == [comparisons |-> 0, facts |-> 0, units |-> 0, objects |-> 0]
WorkFits(w) ==
    /\ w.comparisons <= MaxVectorComparisons /\ w.facts <= MaxFactsInspected
    /\ w.units <= MaxGraphScanUnits /\ w.objects <= MaxCombinedObjects

\* ensure_bounded_catalog, when the descriptors are opened.
CatalogOpens(g) == g.all <= MaxGraphEdges /\ g.nodes <= MaxGraphNodes

-----------------------------------------------------------------------------
(* Requests. *)

Limits(r)     == CASE r.method \in {"search", "read"} -> [i \in DOMAIN r.slots |-> r.slots[i].limit]
                   [] r.method = "expand" -> <<r.limit>>
                   [] r.method = "ppr"    -> <<r.passages, r.facts>>

\* The sum of the first n limits.
SumOfFirst(limits, n) ==
    LET sum[i \in 0..Len(limits)] == IF i = 0 THEN 0 ELSE sum[i - 1] + limits[i]
    IN  sum[n]
Objects(r) == SumOfFirst(Limits(r), Len(Limits(r)))

\* Limits and iterations are parsed as u64; vector_search asks for one namespace.
ASSUME RequestsAssumption ==
    \A r \in Requests :
        /\ r.method \in {"garbage", "read", "mutation", "progress", "search", "expand", "ppr"}
        /\ r.method \in {"search", "read", "expand", "ppr"} => Limits(r) \in Seq(Nat)
        /\ r.method = "read" => Len(Limits(r)) = 1
        /\ r.method = "ppr" => r.iterations \in Nat

\* ResourceUsage::for_request and its check.  The caps on search slots, vector
\* dimensions and seeds are part of wellFormed: nothing later depends on them.
UsageAdmitted(r) ==
    /\ \A i \in DOMAIN Limits(r) :
         Limits(r)[i] <= (IF r.method = "expand" THEN MaxExpansion ELSE MaxReturned)
    /\ Objects(r) <= MaxCombinedObjects
    /\ r.method = "ppr" => r.iterations <= MaxIterations

\* admit_request: the generation, the method's schema, the resource usage.
Admitted(r) == r.gen = Generation /\ r.wellFormed /\ UsageAdmitted(r)

\* AllocationInput: what the request may hold at its peak, but for the 8 bytes of
\* a vector value and 64 of a seed, at most 256 KiB and 32 KiB within their caps.
Bytes(r) ==
    128 * Objects(r) + MaxObjectBytes * Objects(r) + MaxResponseBytes
      + (IF r.method = "expand" THEN 6 * MaxObjectBytes ELSE 0)
      + (IF r.method = "ppr" THEN 216 * graph.nodes + 64 * graph.edges ELSE 0)

\* The usage with what the store adds, and the allocation, before any work.
Preflight(r) ==
    /\ Bytes(r) <= MaxTransientBytes
    /\ r.method = "search" => Cardinality(Vectors) * Len(Limits(r)) <= MaxVectorComparisons
    /\ r.method = "expand" => Cardinality(Facts) <= MaxFactsInspected
    /\ r.method = "ppr"    => graph.nodes <= MaxGraphNodes /\ graph.edges <= MaxGraphEdges

-----------------------------------------------------------------------------
(* Ranking. *)

\* ranked_cmp: higher score first, then the id.
Before(a, b) == a.score > b.score \/ (a.score = b.score /\ a.id < b.id)
Worst(heap)  == CHOOSE x \in heap : \A y \in heap : ~Before(x, y)

\* Fault: a tie never displaces what is already retained.
RetainFirstMet(heap, x, limit) ==
    IF limit = 0 THEN heap
    ELSE IF Cardinality(heap) < limit THEN heap \union {x}
    ELSE IF x.score > Worst(heap).score THEN (heap \ {Worst(heap)}) \union {x} ELSE heap

\* retain_bounded_ranked, retain_top_k.
Retain(heap, x, limit) ==
    IF limit = 0 THEN heap
    ELSE IF Cardinality(heap) < limit THEN heap \union {x}
    ELSE IF Before(x, Worst(heap)) THEN (heap \ {Worst(heap)}) \union {x} ELSE heap

\* What slot i of a search, or an expansion, keeps of an item it meets.
Keeps(r, i, x) == IF r.method = "expand" THEN x.id \notin r.excluded /\ x.score >= 0
                  ELSE x.ns = r.slots[i].ns /\ x.score >= r.slots[i].threshold
Items(r)       == IF r.method = "expand" THEN Facts ELSE Vectors

\* The ids of a heap, best first.
Ranked(heap) == [i \in 1..Cardinality(heap) |->
                   (CHOOSE x \in heap : Cardinality({y \in heap : Before(y, x)}) = i - 1).id]

\* The heap when the items of a sequence, as far as they are in `kept`, have
\* been met in order.
Retained(items, kept, limit) ==
    LET heap[n \in 0..Len(items)] ==
          IF n = 0 THEN {}
          ELSE IF items[n] \in kept THEN Retain(heap[n - 1], items[n], limit) ELSE heap[n - 1]
    IN  heap[Len(items)]

\* vector_search of the plain protocol (one slot): the keys of the namespace,
\* as the index lists them, are cut into chunks, each scanned by a thread into
\* a heap of its own; then what the heaps hold is merged, here in any order: the
\* code's is by chunks, and a heap yields its items in no particular one.
Chunk(keys, size, i) == SubSeq(keys, (i - 1) * size + 1, Min({i * size, Len(keys)}))
ScanChunk(keys, r)   == Retained(keys, {x \in Vectors : Keeps(r, 1, x)}, r.slots[1].limit)
VectorSearch(keys, size, r) ==
    LET partials == {ScanChunk(Chunk(keys, size, i), r) :
                       i \in 1..((Len(keys) + size - 1) \div size)}
    IN  {Ranked(Retained(merged, Vectors, r.slots[1].limit)) :
           merged \in SetToSeqs(UNION partials)}

-----------------------------------------------------------------------------
(* One request. *)

Idle == [stage |-> "idle"]
Late == now - op.start >= op.remaining

\* The error and success envelopes carry the counters, which must fit: a frame
\* that cannot be encoded is answered with the bare failure of request 0.
AnswerAfter(work, ok, class, found, size) ==
    /\ reply' = [id |-> IF WorkFits(work) THEN op.req.id ELSE 0, asked |-> op.req,
                 ok |-> ok, class |-> class, found |-> found, at |-> now, gap |-> op.gap,
                 size |-> size, before |-> op.before]
    /\ op' = Idle
FailAfter(work, class) == AnswerAfter(work, FALSE, class, <<>>, 0)
Fail(class) == FailAfter(op.work, class)

\* A checkpoint, then what follows it.
Checked(A) == IF Late THEN Fail("DEADLINE") ELSE A
To(stage)  == op' = [op EXCEPT !.stage = stage] /\ UNCHANGED reply
At(stage)  == op.stage = stage
Quiet      == UNCHANGED <<now, graph, session, first, frames, open>>

\* Fault: the budget is not capped.
PreviewUncapped(b) == IF session = None THEN now + b ELSE Min({session.deadline, now + b})

\* Fault: the deadline a request proposes replaces the session's.
PreviewAnew(b) == now + Min({b, MaxOperation})

\* preview_bounded_session_deadline: the nearer of the session's deadline and
\* the one the request proposes.
Preview(b) ==
    LET proposed == now + Min({b, MaxOperation})
    IN  IF session = None THEN proposed ELSE Min({session.deadline, proposed})

\* A frame answered without the bounded plane, or refused before it starts.
AnswerFrame(r, id, ok, class, found) ==
    /\ reply' = [id |-> id, asked |-> r, ok |-> ok, class |-> class, found |-> found,
                 at |-> now, gap |-> 0, size |-> 0, before |-> session]
    /\ UNCHANGED op

\* One frame: not a request envelope, a read or a mutation of the plain protocol, a
\* request for progress, which ends the process, or a bounded request, whose
\* envelope must parse and whose owner's budget must not grow.
ReadFrame(r, b) ==
    /\ open /\ At("idle") /\ frames < MaxFrames
    /\ frames' = frames + 1
    /\ open'   = (r.method # "progress")
    /\ CASE r.method = "garbage"  -> AnswerFrame(r, 0, FALSE, "CLIENT", <<>>)
         [] r.method = "read"     ->
              LET keyed == {x \in Vectors : x.ns = r.slots[1].ns}
              IN  \E keys \in SetToSeqs(keyed), size \in 1..Max({1, Cardinality(keyed)}) :
                    \E hits \in VectorSearch(keys, size, r) :
                       AnswerFrame(r, r.id, TRUE, None, <<hits>>)
         [] r.method \in {"mutation", "progress"} -> AnswerFrame(r, r.id, FALSE, "CLIENT", <<>>)
         [] OTHER ->
              IF session # None /\ b > session.owner THEN AnswerFrame(r, r.id, FALSE, "CLIENT", <<>>)
              ELSE /\ op' = [req |-> r, owner |-> b, deadline |-> Preview(b),
                             remaining |-> Max({0, Preview(b) - now}), start |-> now, gap |-> 0,
                             before |-> session, stage |-> "start", work |-> NoWork, slot |-> 1,
                             heap |-> {}, unseen |-> {}, found |-> <<>>]
                   /\ UNCHANGED reply
    /\ UNCHANGED <<now, graph, session, first>>

\* One frame more than the protocol allows, or the end of the input.
Close == open /\ At("idle") /\ open' = FALSE /\ UNCHANGED <<now, graph, session, first, frames, op, reply>>

\* ExecutionDeadline::new reads the clock again.
Start ==
    /\ At("start")
    /\ op' = [op EXCEPT !.stage = "admit", !.start = now, !.gap = now - op.start]
    /\ UNCHANGED reply /\ Quiet

\* Fault: the candidate is committed before admission has decided.
AdmitCommittingFirst ==
    /\ At("admit")
    /\ Checked(IF Admitted(op.req) THEN To("preflight") ELSE Fail("CLIENT"))
    /\ session' = [owner |-> op.owner, deadline |-> op.deadline]
    /\ first' = IF first = None THEN op.deadline ELSE first
    /\ UNCHANGED <<now, graph, frames, open>>

\* The session's deadline is committed only by an admitted request that is
\* still in time.
Admit ==
    /\ At("admit")
    /\ Checked(IF Admitted(op.req) THEN To("commit") ELSE Fail("CLIENT"))
    /\ Quiet
CommitDeadline ==
    /\ At("commit")
    /\ IF Late THEN Fail("DEADLINE") /\ UNCHANGED <<session, first>>
       ELSE /\ To("preflight")
            /\ session' = [owner |-> op.owner, deadline |-> op.deadline]
            /\ first'   = IF first = None THEN op.deadline ELSE first
    /\ UNCHANGED <<now, graph, frames, open>>

\* An empty graph, and a search without slots, are answered without work.
Size ==
    /\ At("preflight")
    /\ IF ~Preflight(op.req) THEN Fail("RESOURCE")
       ELSE Checked(CASE op.req.method = "ppr" -> To(IF graph.nodes = 0 THEN "validate" ELSE "collect")
                      [] Limits(op.req) = <<>> -> To("validate")
                      [] OTHER -> /\ op' = [op EXCEPT !.stage = "scan", !.unseen = Items(op.req)]
                                  /\ UNCHANGED reply)
    /\ Quiet

\* Every stored vector or fact is met once, in the HashMap's order.
Scan(x) ==
    /\ At("scan") /\ x \in op.unseen
    /\ LET work == IF op.req.method = "search" THEN [op.work EXCEPT !.comparisons = @ + 1]
                   ELSE [op.work EXCEPT !.facts = @ + 1]
           heap == IF Keeps(op.req, op.slot, x) THEN Retain(op.heap, x, Limits(op.req)[op.slot])
                   ELSE op.heap
       IN  op' = [op EXCEPT !.unseen = @ \ {x}, !.heap = heap, !.work = work]
    /\ UNCHANGED reply /\ Quiet

\* The clock is checked every 1024 items and before each slot's heap.
ScanExpired == At("scan") /\ Late /\ Fail("DEADLINE") /\ Quiet

\* What the store holds turns out to be unsound, or memory cannot be had.
StoreFault(class) ==
    /\ op.stage \in {"scan", "collect", "build", "iterate"}
    /\ Fail(class) /\ Quiet

\* materialize_domain_object for every hit of the slot: an object may be
\* missing from the catalog, unsound or too large.
FinishSlot(fault) ==
    /\ At("scan") /\ op.unseen = {}
    /\ LET k       == Cardinality(op.heap)
           work    == [op.work EXCEPT !.objects = @ + k]
           last    == op.slot = Len(Limits(op.req))
           next    == [op EXCEPT !.work   = work,
                                 !.found  = Append(@, Ranked(op.heap)),
                                 !.heap   = {},
                                 !.slot   = @ + 1,
                                 !.unseen = IF last THEN {} ELSE Items(op.req),
                                 !.stage  = IF last THEN "validate" ELSE "scan"]
       IN  IF ~WorkFits(work) THEN FailAfter(work, "RESOURCE")
           ELSE IF k > 0 /\ Late THEN Fail("DEADLINE")
           ELSE IF k > 0 /\ fault # None THEN Fail(fault)
           ELSE op' = next /\ UNCHANGED reply
    /\ Quiet

\* A stage of execute_ppr: all its units are counted, with checkpoints among
\* them.
Work(stage, next, units) ==
    /\ At(stage)
    /\ LET work == [op.work EXCEPT !.units = @ + units]
       IN  IF Late THEN FailAfter(work, "DEADLINE")
           ELSE op' = [op EXCEPT !.work = work, !.stage = next] /\ UNCHANGED reply
    /\ Quiet
Collect == Work("collect", "build", CollectUnits(graph))
Build   == Work("build", "iterate", BuildUnits(graph))

\* It converges after one iteration or not at all.
Iterate(n) == /\ At("iterate") /\ n <= op.req.iterations
              /\ Work("iterate", "rank", n * IterationUnits(graph))
Rank       == Work("rank", "objects", RankUnits(graph))

\* The ranked passages and facts become objects, as many as the limits allow.
RankedObjects(fault) ==
    /\ At("objects")
    /\ LET work == [op.work EXCEPT !.objects = Objects(op.req)]
       IN  IF ~WorkFits(work) THEN FailAfter(work, "RESOURCE")
           ELSE Checked(IF fault # None THEN Fail(fault)
                        ELSE op' = [op EXCEPT !.work = work, !.stage = "validate"] /\ UNCHANGED reply)
    /\ Quiet

\* validate_semantic_exchange.
Validate(sound) ==
    /\ At("validate")
    /\ Checked(IF sound THEN To("encode") ELSE Fail("INTEGRITY"))
    /\ Quiet

\* encode_success: the frame carries its own length, found by encoding again
\* with the length of the last attempt.
Digits(n) == CHOOSE d \in 1..10 : n < 10^d /\ (d = 1 \/ n >= 10^(d - 1))
EncodesWithin(size, attempts) ==
    LET length[n \in 0..attempts] == IF n = 0 THEN 0 ELSE size + Digits(length[n - 1])
    IN  \E n \in 1..attempts : /\ length[n] = length[n - 1]
                               /\ \A m \in 1..n : length[m] <= MaxResponseBytes

\* Fault: three attempts.
EncodesInThree(size) == EncodesWithin(size, 3)
Encodes(size)        == EncodesWithin(size, 8)

\* encode_success_before_deadline: checked before and after the encoding.
Encode(size) ==
    /\ At("encode")
    /\ Checked(IF Encodes(size) THEN To("encoded")
               ELSE AnswerAfter(op.work, FALSE, "SIZE", <<>>, size))
    /\ Quiet

Send ==
    /\ At("encoded")
    /\ Checked(AnswerAfter(op.work, TRUE, None, op.found, 0))
    /\ Quiet

Tick == now < MaxNow /\ now' = now + 1 /\ UNCHANGED <<graph, session, first, frames, open, op, reply>>

Init ==
    /\ now = 0 /\ graph \in {g \in Graphs : CatalogOpens(g)}
    /\ session = None /\ first = None /\ frames = 0 /\ open = TRUE /\ op = Idle /\ reply = None

Next ==
    \/ \E r \in Requests, b \in Budgets : ReadFrame(r, b)
    \/ Close \/ Start \/ Admit \/ CommitDeadline \/ Size
    \/ \E x \in Vectors \union Facts : Scan(x)
    \/ ScanExpired
    \/ \E class \in {"RESOURCE", "INTEGRITY"} : StoreFault(class)
    \/ \E fault \in {None, "RESOURCE", "INTEGRITY"} : FinishSlot(fault) \/ RankedObjects(fault)
    \/ Collect \/ Build \/ Rank
    \/ \E n \in {1, MaxIterations} : Iterate(n)
    \/ \E sound \in BOOLEAN : Validate(sound)
    \/ \E size \in Sizes : Encode(size)
    \/ Send \/ Tick

Spec == Init /\ [][Next]_vars

-----------------------------------------------------------------------------
(* Properties. *)

Bounded(r) == r.method \in {"search", "expand", "ppr"}

\* The session's deadline lies within one operation of the clock, a request is
\* never given more than MAX_OPERATION_DEADLINE_MS, and a slot's heap never
\* holds more than the limit it was admitted with.
TypeOK ==
    /\ now \in 0..MaxNow /\ frames \in 0..MaxFrames /\ open \in BOOLEAN
    /\ CatalogOpens(graph)
    /\ session # None => session.owner \in Budgets /\ session.deadline \in 0..(MaxNow + MaxOperation)
    /\ ~At("idle") =>
         /\ op.req \in Requests /\ op.remaining \in 0..MaxOperation
         /\ op.stage = "scan" => /\ op.slot \in DOMAIN Limits(op.req)
                                 /\ Cardinality(op.heap) <= Limits(op.req)[op.slot]

\* Whatever the store holds and wherever the request stops, its answer carries
\* its own id: no counter of admitted work outgrows the cap that encoding
\* checks (57 node passes, 50 edge passes and 4n + e per iteration bound every
\* graph the catalog opens), so no client waits for an answer sent as id 0.  And
\* a result is refused for its size only when its frame really exceeds the cap:
\* the search for the length the frame carries always ends.
AnswerEncodes ==
    reply # None =>
      /\ Bounded(reply.asked) => reply.id = reply.asked.id
      /\ reply.class = "SIZE" =>
           \A length \in (reply.size + 1)..(reply.size + 7) :
             length = reply.size + Digits(length) => length > MaxResponseBytes

\* A session never outlives the deadline its first admitted request set, by
\* more than the time between the two clock readings of one request, however
\* many requests are sent and whatever budgets they claim; and a request refused
\* for its content leaves the session as it found it: a stale generation or an
\* oversized request cannot shorten the time left to the requests that follow.
SessionDeadline ==
    reply # None =>
      /\ reply.ok /\ Bounded(reply.asked) => reply.at < first + reply.gap
      /\ reply.class = "CLIENT" /\ At("idle") => session = reply.before

\* A successful search or expansion returns, for each slot, exactly the best
\* `limit` of the stored items it keeps, best first and ties by id, whatever
\* order the hash map yielded them in and however many threads scanned them.
SearchExact ==
    reply # None /\ reply.ok /\ reply.asked.method \in {"search", "expand", "read"} =>
      LET r == reply.asked
      IN  /\ Len(reply.found) = Len(Limits(r))
          /\ \A i \in DOMAIN Limits(r) :
               LET kept == {x \in Items(r) : Keeps(r, i, x)}
                   rank(x) == 1 + Cardinality({y \in kept : Before(y, x)})
               IN  reply.found[i] =
                     [k \in 1..Min({Limits(r)[i], Cardinality(kept)}) |->
                        (CHOOSE x \in kept : rank(x) = k).id]
=============================================================================
