---------------------------- MODULE QueryServer ----------------------------
(***************************************************************************)
(* The TCP server of the library: one thread per connection (server.rs),   *)
(* all of them over one Mutex<ServerRuntime>, running Cypher queries       *)
(* (query.rs) on the graphs (graph.rs) of transaction sessions (tx.rs).    *)
(*                                                                         *)
(* A request reads its connection's own state, takes the lock and keeps it *)
(* until it has answered, so a request is one step.  A query changes its   *)
(* session's graph in place while it runs; it can answer with an error, or *)
(* panic, after some of its clauses have run.  What commit writes is the   *)
(* subject of SnapshotStore; here a commit persists or fails.              *)
(*                                                                         *)
(* Query texts are abstracted to the clauses they execute, results to      *)
(* their kind and whether they have rows.                                  *)
(***************************************************************************)
EXTENDS Naturals, Sequences, FiniteSets

CONSTANTS
    Conn,       \* connections
    Label,      \* node labels
    Queries,    \* query texts clients send, a subset of Query
    StartGraph, \* the graph in the database file at first
    MaxNode,    \* bound: next_node_seq
    MaxTx,      \* bound: tx_seq of one process
    MaxRuns,    \* bound: queries on one session
    MaxStarts   \* bound: processes started

ASSUME BoundsAssumption ==
    MaxNode \in Nat /\ MaxTx \in Nat /\ MaxRuns \in Nat /\ MaxStarts \in Nat \ {0}

VARIABLES
    ctx,        \* SessionState of each connection; closed: no thread
    poisoned,   \* the runtime lock: a thread panicked while holding it
    base,       \* base_graph
    version,    \* graph_version
    sessions,   \* sessions: transaction id -> TxSession
    txSeq,      \* tx_seq
    disk,       \* the graph the database file opens with
    starts,     \* processes started so far
    commits,    \* commits acknowledged so far, by all processes
    named,      \* <<id, creator>> of every node a base graph has held
    undone      \* transactions rolled back or refused with RETRYABLE_CONFLICT

manager == <<base, version, sessions, txSeq, disk>>
history == <<commits, named, undone>>
vars    == <<ctx, poisoned, manager, starts, history>>

-----------------------------------------------------------------------------
(* The graph store. *)

NodeId  == 1..MaxNode
TxName  == (0..MaxStarts) \X (0..MaxTx)
\* Not in the code: by, the process and transaction that created the node;
\* torn: the graph holds half of a query that panicked.
Node    == [label : Label, tagged : BOOLEAN, by : TxName]
Edge    == [from : NodeId, to : NodeId]
IsGraph(g) ==
    /\ DOMAIN g = {"nodes", "edges", "seq", "torn"}
    /\ DOMAIN g.nodes \subseteq NodeId /\ g.seq \in 0..MaxNode
    /\ \A id \in DOMAIN g.nodes : g.nodes[id] \in Node
    /\ g.edges \subseteq Edge /\ g.torn \in BOOLEAN

Intact(g)  == \A e \in g.edges : {e.from, e.to} \subseteq DOMAIN g.nodes

\* The database file at first: a graph the store can have written, its ids handed
\* out by next_node_seq, made by none of the transactions to come.
ASSUME StartAssumption ==
    /\ IsGraph(StartGraph) /\ Intact(StartGraph) /\ ~StartGraph.torn
    /\ \A id \in DOMAIN StartGraph.nodes :
          id <= StartGraph.seq /\ StartGraph.nodes[id].by = <<0, 0>>

Touching(g, id) == {e \in g.edges : id \in {e.from, e.to}}

\* Fault: the id is the number of nodes plus one.
CreateNodeByCount(g, label, tagged, by) ==
    LET id == Cardinality(DOMAIN g.nodes) + 1
    IN  [g EXCEPT !.nodes = [i \in DOMAIN @ \union {id} |->
             IF i = id THEN [label |-> label, tagged |-> tagged, by |-> by] ELSE @[i]]]

\* next_node_seq is part of the graph and only grows.
CreateNode(g, label, tagged, by) ==
    LET id == g.seq + 1
    IN  [g EXCEPT !.seq = id,
                  !.nodes = [i \in DOMAIN @ \union {id} |->
             IF i = id THEN [label |-> label, tagged |-> tagged, by |-> by] ELSE @[i]]]

DeleteNodeDetach(g, id) ==
    [g EXCEPT !.edges = @ \ Touching(g, id),
              !.nodes = [i \in DOMAIN @ \ {id} |-> @[i]]]

RenameLabel(g, from, to) ==
    [g EXCEPT !.nodes = [i \in DOMAIN @ |->
         IF @[i].label = from THEN [@[i] EXCEPT !.label = to] ELSE @[i]]]

-----------------------------------------------------------------------------
(* Clauses.  A clause yields the set of its possible outcomes: the graph it *)
(* leaves and its result.                                                   *)

Clause ==
    [op : {"create", "match"}, label : Label]
      \union [op : {"merge"}, label : Label, tagged : BOOLEAN, tail : {"none", "set", "bad"}]
      \union [op : {"set", "remove"}, id : NodeId]
      \union [op : {"delete"}, id : NodeId, detach : BOOLEAN]
      \union [op : {"rename"}, from : Label, to : Label]
      \union [op : {"unwind"}, list : BOOLEAN, aggregate : BOOLEAN]
      \union [op : {"relationships", "case", "unsupported", "panic"}]

\* Result kinds; every table kind stands for its columns.
Rows(k, some) == [kind |-> k, some |-> some]
Ack           == Rows("ack", FALSE)
Error         == Rows("error", FALSE)
Panic         == Rows("panic", FALSE)
Done(r)       == r.kind \notin {"error", "panic"}

Out(g, r)     == {[graph |-> g, res |-> r]}
Tag(g, id, b) == [g EXCEPT !.nodes[id].tagged = b]

\* CREATE (n:Label).
ExecuteCreate(g, c, by) == Out(CreateNode(g, c.label, FALSE, by), Ack)

\* The nodes find_node_by_label_and_props may return: the first one met in a
\* HashMap, so any of them.
Matching(g, c) ==
    {id \in DOMAIN g.nodes : g.nodes[id].label = c.label /\ (c.tagged => g.nodes[id].tagged)}

\* The SET clause is parsed only after a node has been found or created.
ExecuteMerge(g, c, by) ==
    IF Matching(g, c) # {}
    THEN IF c.tail = "bad" THEN Out(g, Error)
         ELSE {[graph |-> IF c.tail = "set" THEN Tag(g, id, TRUE) ELSE g, res |-> Ack]
                  : id \in Matching(g, c)}
    ELSE LET made == CreateNode(g, c.label, c.tagged, by)
         IN  Out(IF c.tail = "set" THEN Tag(made, made.seq, TRUE) ELSE made,
                 IF c.tail = "bad" THEN Error ELSE Ack)

\* SET NODE and REMOVE NODE name their node by id.
ExecuteSet(g, c) ==
    IF c.id \in DOMAIN g.nodes THEN Out(Tag(g, c.id, c.op = "set"), Ack) ELSE Out(g, Error)

\* Fault: edges are not looked at.
ExecuteDeleteBlind(g, c) ==
    Out(IF c.detach THEN DeleteNodeDetach(g, c.id)
        ELSE [g EXCEPT !.nodes = [i \in DOMAIN @ \ {c.id} |-> @[i]]], Ack)

ExecuteDelete(g, c) ==
    IF c.id \notin DOMAIN g.nodes THEN Out(g, Ack)
    ELSE IF Touching(g, c.id) # {} /\ ~c.detach THEN Out(g, Error)
    ELSE Out(DeleteNodeDetach(g, c.id), Ack)

ExecuteMatch(g, c) ==
    Out(g, Rows("nodes", \E id \in DOMAIN g.nodes : g.nodes[id].label = c.label))

\* n,r,m; an edge without its nodes is REFERENTIAL_INTEGRITY_VIOLATION.
ExecuteMatchRelationship(g) ==
    Out(g, IF Intact(g) THEN Rows("nrm", g.edges # {}) ELSE Error)

\* CALL apoc.refactor.rename.label.
ExecuteCall(g, c) == Out(RenameLabel(g, c.from, c.to), Rows("updatedNodeCount", TRUE))

\* RETURN CASE ... END: one row, and the graph is not looked at.
ExecuteReturnExpression(g) == Out(g, Rows("case", TRUE))

\* UNWIND list AS x RETURN x, or an aggregate of x, which has one row always.
ExecuteUnwind(g, c) ==
    Out(g, Rows(IF c.aggregate THEN "count" ELSE "x", c.aggregate \/ c.list))

\* Texts refused before they do anything: unsupported or malformed clauses.
Refuse(g) == Out(g, Error)

\* The dispatch on the first keyword.  One text panics: what stands in braces
\* is only reached by the UNION splitter when its branch runs, which then
\* slices it inside a character.
ExecuteClause(g, c, by) ==
    CASE c.op = "create"           -> ExecuteCreate(g, c, by)
      [] c.op = "merge"            -> ExecuteMerge(g, c, by)
      [] c.op \in {"set", "remove"} -> ExecuteSet(g, c)
      [] c.op = "delete"           -> ExecuteDelete(g, c)
      [] c.op = "match"            -> ExecuteMatch(g, c)
      [] c.op = "relationships"    -> ExecuteMatchRelationship(g)
      [] c.op = "rename"           -> ExecuteCall(g, c)
      [] c.op = "case"             -> ExecuteReturnExpression(g)
      [] c.op = "unwind"           -> ExecuteUnwind(g, c)
      [] c.op = "unsupported"      -> Refuse(g)
      [] c.op = "panic"            -> Out(g, Panic)

-----------------------------------------------------------------------------
(* Queries: one clause or a UNION of several, on its own or inside          *)
(* CALL { } RETURN *, CALL { } RETURN count(star), CALL { } with another    *)
(* projection, or MATCH ... WHERE EXISTS { }.                               *)

Wrap  == {"none", "call", "call_count", "call_other", "exists"}
Query == [union : Seq(Clause), wrap : Wrap]

ASSUME QueriesAssumption == Queries \subseteq Query

\* What the union has produced before a branch is joined to its result.
Join(acc, r) ==
    IF ~Done(r) THEN r
    ELSE IF r.kind = "ack" \/ (acc.kind # "none" /\ acc.kind # r.kind) THEN Error
    ELSE Rows(r.kind, acc.some \/ r.some)

\* The outcomes after one more branch: one that has failed stays as it is.
RunBranch(outs, c, by) ==
    UNION {IF ~Done(o.res) THEN {o}
           ELSE {[graph |-> n.graph, res |-> Join(o.res, n.res)] : n \in ExecuteClause(o.graph, c, by)}
              : o \in outs}

\* The branches run in order on the same graph; the first that fails ends it.
ExecuteUnion(g, branches, by) ==
    LET outs[n \in 0..Len(branches)] ==
           IF n = 0 THEN Out(g, Rows("none", FALSE)) ELSE RunBranch(outs[n - 1], branches[n], by)
    IN  outs[Len(branches)]

ExecuteBody(g, branches, by) ==
    IF Len(branches) = 1 THEN ExecuteClause(g, branches[1], by) ELSE ExecuteUnion(g, branches, by)

SubqueryRowCount(r) == IF r.kind = "ack" THEN Error ELSE Rows("count", TRUE)

\* The inner query has run when the projection is looked at.
ExecuteCallSubquery(g, q, by) ==
    {[graph |-> o.graph,
      res   |-> IF ~Done(o.res) THEN o.res
                ELSE CASE q.wrap = "call"       -> o.res
                       [] q.wrap = "call_count" -> SubqueryRowCount(o.res)
                       [] q.wrap = "call_other" -> Error] : o \in ExecuteBody(g, q.union, by)}

\* The subquery runs on a clone.
ExecuteExistsSubquery(g, q, by) ==
    {[graph |-> g,
      res   |-> IF ~Done(o.res) THEN o.res
                ELSE IF o.res.kind = "ack" THEN Error
                ELSE Rows("nodes", o.res.some /\ DOMAIN g.nodes # {})]
        : o \in ExecuteBody(g, q.union, by)}

ExecuteQuery(g, q, by) ==
    CASE q.wrap = "none"   -> ExecuteBody(g, q.union, by)
      [] q.wrap = "exists" -> ExecuteExistsSubquery(g, q, by)
      [] OTHER             -> ExecuteCallSubquery(g, q, by)

-----------------------------------------------------------------------------
(* The server. *)

IsSession(s) ==
    /\ DOMAIN s = {"graph", "version", "origin", "runs"}
    /\ IsGraph(s.graph) /\ IsGraph(s.origin) /\ s.version \in Nat /\ s.runs \in 0..MaxRuns

\* The server's state: every open session has an id this process has handed
\* out, and every graph is well-formed.
TypeOK ==
    /\ ctx \in [Conn -> {"closed", "Connected", "TlsOk", "AppReady"}]
    /\ poisoned \in BOOLEAN
    /\ IsGraph(base) /\ IsGraph(disk)
    /\ version \in Nat /\ starts \in 1..MaxStarts /\ commits \in Nat
    /\ txSeq \in 0..MaxTx
    /\ DOMAIN sessions \subseteq 1..txSeq
    /\ \A t \in DOMAIN sessions : IsSession(sessions[t])
    /\ named \subseteq NodeId \X TxName
    /\ undone \subseteq TxName

Names(g) == {<<id, g.nodes[id].by>> : id \in DOMAIN g.nodes}

Init ==
    /\ ctx = [c \in Conn |-> "closed"]
    /\ poisoned = FALSE
    /\ base = StartGraph /\ disk = StartGraph
    /\ version = 0 /\ sessions = <<>> /\ txSeq = 0
    /\ starts = 1 /\ commits = 0
    /\ named = Names(StartGraph) /\ undone = {}

Goto(c, s) == ctx' = [ctx EXCEPT ![c] = s]

\* accept: a new thread with a default ConnectionContext.
Connect(c) ==
    /\ ctx[c] = "closed" /\ Goto(c, "Connected")
    /\ UNCHANGED <<poisoned, manager, starts, history>>

\* read_line returns 0, or the answer cannot be written.  The sessions the
\* connection began stay in the manager.
Disconnect(c) ==
    /\ ctx[c] # "closed" /\ Goto(c, "closed")
    /\ UNCHANGED <<poisoned, manager, starts, history>>

\* Every request but Ping needs the lock.  A handshake on a connection that is
\* ready demotes it; one that is refused leaves it where it was.
Handshake(c) ==
    /\ ctx[c] # "closed" /\ ~poisoned
    /\ Goto(c, "TlsOk")
    /\ UNCHANGED <<poisoned, manager, starts, history>>

Auth(c) ==
    /\ ctx[c] = "TlsOk" /\ ~poisoned
    /\ Goto(c, "AppReady")
    /\ UNCHANGED <<poisoned, manager, starts, history>>

\* Fault: a poisoned lock is entered all the same.
ServePoisoned(c) == ctx[c] = "AppReady"

Serve(c) == ctx[c] = "AppReady" /\ ~poisoned

\* Fault: the id is taken before tx_seq is incremented.
BeginLateIncrement(c) ==
    /\ Serve(c) /\ txSeq < MaxTx
    /\ txSeq' = txSeq + 1
    /\ sessions' = [t \in DOMAIN sessions \union {txSeq} |->
           IF t = txSeq THEN [graph |-> base, version |-> version, origin |-> base, runs |-> 0]
           ELSE sessions[t]]
    /\ UNCHANGED <<ctx, poisoned, base, version, disk, starts, history>>

BeginTx(c) ==
    /\ Serve(c) /\ txSeq < MaxTx
    /\ txSeq' = txSeq + 1
    /\ sessions' = [t \in DOMAIN sessions \union {txSeq'} |->
           IF t = txSeq' THEN [graph |-> base, version |-> version, origin |-> base, runs |-> 0]
           ELSE sessions[t]]
    /\ UNCHANGED <<ctx, poisoned, base, version, disk, starts, history>>

\* The graph a query leaves behind.
Marked(g, o) == [o.graph EXCEPT !.torn = @ \/ (o.res = Panic /\ o.graph # g)]

\* A transaction id is any text the client sends: the session it names is not
\* tied to the connection.  A query that fails leaves what it has done; one
\* that panics takes its thread with it and poisons the lock.
RunQuery(c, t, q) ==
    /\ Serve(c) /\ t \in DOMAIN sessions
    /\ sessions[t].runs < MaxRuns /\ sessions[t].graph.seq + Len(q.union) <= MaxNode
    /\ \E o \in ExecuteQuery(sessions[t].graph, q, <<starts, t>>) :
          /\ sessions' = [sessions EXCEPT ![t].graph = Marked(@, o), ![t].runs = @ + 1]
          /\ poisoned' = (poisoned \/ o.res = Panic)
          /\ IF o.res = Panic THEN Goto(c, "closed") ELSE UNCHANGED ctx
    /\ UNCHANGED <<base, version, txSeq, disk, starts, history>>

Drop(t) == sessions' = [u \in DOMAIN sessions \ {t} |-> sessions[u]]

RollbackTx(c, t) ==
    /\ Serve(c) /\ t \in DOMAIN sessions
    /\ Drop(t)
    /\ undone' = undone \union {<<starts, t>>}
    /\ UNCHANGED <<ctx, poisoned, base, version, txSeq, disk, starts, commits, named>>

\* Fault: the version is not compared.
CommitUnchecked(c, t) ==
    /\ Serve(c) /\ t \in DOMAIN sessions
    /\ Drop(t)
    /\ base' = sessions[t].graph /\ disk' = base'
    /\ version' = version + 1 /\ commits' = commits + 1
    /\ named' = named \union Names(base')
    /\ UNCHANGED <<ctx, poisoned, txSeq, starts, undone>>

CommitTx(c, t) ==
    /\ Serve(c) /\ t \in DOMAIN sessions
    /\ sessions[t].version = version
    /\ Drop(t)
    /\ base' = sessions[t].graph /\ disk' = base'
    /\ version' = version + 1 /\ commits' = commits + 1
    /\ named' = named \union Names(base')
    /\ UNCHANGED <<ctx, poisoned, txSeq, starts, undone>>

\* Fault: the version is compared after the graph has been persisted.
CommitRefusedLate(c, t) ==
    /\ Serve(c) /\ t \in DOMAIN sessions
    /\ Drop(t)
    /\ \/ /\ sessions[t].version # version
          /\ undone' = undone \union {<<starts, t>>} /\ disk' = sessions[t].graph
       \/ /\ sessions[t].version = version
          /\ disk' \in {disk, sessions[t].graph} /\ UNCHANGED undone
    /\ UNCHANGED <<ctx, poisoned, base, version, txSeq, starts, commits, named>>

\* RETRYABLE_CONFLICT, or an error of persist_after_wal, which may have
\* replaced the file before it failed.  The session is gone either way.
CommitRefused(c, t) ==
    /\ Serve(c) /\ t \in DOMAIN sessions
    /\ Drop(t)
    /\ \/ /\ sessions[t].version # version
          /\ undone' = undone \union {<<starts, t>>} /\ UNCHANGED disk
       \/ /\ sessions[t].version = version
          /\ disk' \in {disk, sessions[t].graph} /\ UNCHANGED undone
    /\ UNCHANGED <<ctx, poisoned, base, version, txSeq, starts, commits, named>>

\* The process ends and a new one opens the file; tx_seq and graph_version
\* start again.
Restart ==
    /\ starts < MaxStarts /\ starts' = starts + 1
    /\ ctx' = [c \in Conn |-> "closed"]
    /\ poisoned' = FALSE
    /\ base' = disk /\ version' = 0 /\ sessions' = <<>> /\ txSeq' = 0
    /\ named' = named \union Names(disk)
    /\ UNCHANGED <<disk, commits, undone>>

Request(c) ==
    \/ Connect(c) \/ Disconnect(c) \/ Handshake(c) \/ Auth(c) \/ BeginTx(c)
    \/ \E t \in DOMAIN sessions :
          \/ \E q \in Queries : RunQuery(c, t, q)
          \/ RollbackTx(c, t) \/ CommitTx(c, t) \/ CommitRefused(c, t)

Next == Restart \/ \E c \in Conn : Request(c)

Spec == Init /\ [][Next]_vars

-----------------------------------------------------------------------------
(* Properties. *)

\* No query leaves an edge without its two nodes, in a session, in the base
\* graph or in the file: MATCH over relationships would fail on it for ever.
ReferentialIntegrity ==
    \A g \in {base, disk} \union {sessions[t].graph : t \in DOMAIN sessions} : Intact(g)

\* A node id means one node: once a node has been visible in a base graph, no
\* other node of a later base graph has its id, deletions, refused commits and
\* restarts notwithstanding.
IdsNeverReused == \A a, b \in named : a[1] = b[1] => a = b

\* Nothing of a transaction that was rolled back, or whose commit was refused
\* with RETRYABLE_CONFLICT, and nothing of the half of a query that panicked, is
\* in the base graph or the file, whoever sent the rollback or the commit.
UndoneLeavesNothing ==
    \A g \in {base, disk} : ~g.torn /\ \A id \in DOMAIN g.nodes : g.nodes[id].by \notin undone

\* SERIALIZABLE: a commit installs a graph derived from the very base graph it
\* replaces.
CommitsSerial ==
    [][commits' # commits =>
          \E t \in DOMAIN sessions \ DOMAIN sessions' :
              sessions[t].origin = base /\ sessions[t].graph = base']_vars
=============================================================================
