--------------------------- MODULE SnapshotStore ---------------------------
(***************************************************************************)
(* The embedded database of the library: StorageEngine (storage.rs), the   *)
(* TransactionManager (tx.rs), the write lock (lock.rs) and the runtimes   *)
(* that own them (runtime.rs).                                             *)
(*                                                                         *)
(* A process opens the database under a lock file, works on cloned graphs  *)
(* and commits a whole graph: first to the WAL, then over the snapshot.    *)
(* Both files are truncated and rewritten in place and never fsynced, so a *)
(* crash between two calls leaves what the calls so far have done.         *)
(*                                                                         *)
(* A graph is the sequence of edits that led to it; an edit names the      *)
(* transaction it belongs to, and Old is the content of a legacy database. *)
(***************************************************************************)
EXTENDS Naturals, Sequences, FiniteSets

CONSTANTS
    Process,    \* processes that may open the database
    Old,        \* the edit a legacy database holds
    Metadata,   \* cluster metadata an operator may persist
    NoMeta,     \* the empty catalog
    Env,        \* what the environment does, a subset of EnvEvent
    MaxTx,      \* bound: transactions begun
    MaxEdits,   \* bound: edits of one transaction
    MaxVersion  \* bound: graph_version reached by recover

EnvEvent == {"io_error", "power_loss", "operator", "metadata", "legacy"}

ASSUME ConstantsAssumption ==
    /\ NoMeta \notin Metadata
    /\ Env \subseteq EnvEvent
    /\ MaxTx \in Nat /\ MaxEdits \in Nat /\ MaxVersion \in Nat
    /\ Old \notin 1..MaxTx

VARIABLES
    db,         \* the snapshot file
    wal,        \* the WAL file
    lock,       \* the .write.lock file exists
    pc,         \* per process: closed, open, or a step of a call
    base,       \* base_graph
    version,    \* graph_version
    sessions,   \* sessions: transaction id -> TxSession
    pend,       \* the snapshot being written and the call that writes it
    begun,      \* transactions begun so far
    edits,      \* edits each transaction had when its commit was requested
    acked,      \* the graph of the last commit that returned Ok
    procAcked,  \* the same for each process since it opened the database
    disk        \* what the device holds of the two files

files    == <<db, wal, lock>>
memory   == <<base, version, sessions>>
history  == <<begun, edits, acked, procAcked, disk>>
vars     == <<files, pc, memory, pend, history>>

-----------------------------------------------------------------------------
Tx       == 1..MaxTx
Edit     == [tx : Tx \union {Old}, n : Nat]
Graph    == Seq(Edit)
Meta     == Metadata \union {NoMeta}

\* absent; empty: no record yet; torn: does not decode; legacy: the JSON format.
FileState == {"absent", "empty", "torn", "whole", "legacy"}
File      == [st : FileState, graph : Graph, meta : Meta]
NoData(s) == [st |-> s, graph |-> <<>>, meta |-> NoMeta]
Snapshot(g, m) == [st |-> "whole", graph |-> g, meta |-> m]

\* The call that writes a snapshot: init and migrate belong to opening; offline
\* is a StorageEngine call without a manager (recover, load_cluster_metadata),
\* meta persist_cluster_metadata and meta_migrate its load of a legacy file.
Caller   == {"init", "migrate", "commit", "recover", "offline", "meta", "meta_migrate", "none"}
Unmanaged == {"init", "migrate", "offline", "meta", "meta_migrate"}
Pending  == [call : Caller, graph : Graph, meta : Meta]
Nothing  == [call |-> "none", graph |-> <<>>, meta |-> NoMeta]

Pc == {"closed", "load", "open", "wal_truncate", "wal_write", "snap_truncate", "snap_write"}

Session == [graph : Graph, base : Nat]

TypeOK ==
    /\ db \in File /\ wal \in File /\ lock \in BOOLEAN
    /\ pc \in [Process -> Pc]
    /\ base \in [Process -> Graph]
    /\ version \in [Process -> Nat]
    /\ \A p \in Process : /\ DOMAIN sessions[p] \subseteq 1..begun
                          /\ \A t \in DOMAIN sessions[p] : sessions[p][t] \in Session
    /\ pend \in [Process -> Pending]
    /\ begun \in 0..MaxTx /\ edits \in [Tx -> Nat]
    /\ acked \in Graph /\ procAcked \in [Process -> Graph]
    /\ disk \in [db : File, wal : File]

LegacyGraph == <<[tx |-> Old, n |-> 1]>>

\* No database yet, or one an earlier release left in the JSON format.
Init ==
    /\ db = IF "legacy" \in Env
            THEN [NoData("legacy") EXCEPT !.graph = LegacyGraph]
            ELSE NoData("absent")
    /\ wal = NoData("absent") /\ lock = FALSE
    /\ pc = [p \in Process |-> "closed"]
    /\ base = [p \in Process |-> <<>>]
    /\ version = [p \in Process |-> 0]
    /\ sessions = [p \in Process |-> <<>>]
    /\ pend = [p \in Process |-> Nothing]
    /\ begun = 0 /\ edits = [t \in Tx |-> 0]
    /\ acked = db.graph /\ procAcked = [p \in Process |-> <<>>]
    /\ disk = [db |-> db, wal |-> wal]

Goto(p, step) == pc' = [pc EXCEPT ![p] = step]
Without(f, t) == [u \in DOMAIN f \ {t} |-> f[u]]

\* What the manager of p holds when it starts with graph g.
Manage(p, g) ==
    /\ base' = [base EXCEPT ![p] = g]
    /\ version' = [version EXCEPT ![p] = 0]
    /\ sessions' = [sessions EXCEPT ![p] = <<>>]
    /\ procAcked' = [procAcked EXCEPT ![p] = <<>>]

\* A process without a manager: its memory is forgotten.
Forget(p) == Manage(p, <<>>) /\ pend' = [pend EXCEPT ![p] = Nothing]

-----------------------------------------------------------------------------
(* Opening: acquire_write_lock, then TransactionManager::new. *)

\* Fault: the lock file is opened without create_new.
AcquireAnyway(p) ==
    /\ pc[p] = "closed" /\ Goto(p, "load")
    /\ lock' = TRUE
    /\ UNCHANGED <<db, wal, memory, pend, history>>

\* With the lock file present, open fails with WRITE_LOCK_CONFLICT.
AcquireWriteLock(p) ==
    /\ pc[p] = "closed" /\ Goto(p, "load")
    /\ ~lock /\ lock' = TRUE
    /\ UNCHANGED <<db, wal, memory, pend, history>>

\* load_or_init and load_graph; an error drops the lock guard.
LoadOrInit(p) ==
    /\ pc[p] = "load"
    /\ \/ /\ db.st = "absent" /\ Goto(p, "snap_truncate")
          /\ pend' = [pend EXCEPT ![p] = [Nothing EXCEPT !.call = "init"]]
          /\ UNCHANGED <<lock, memory, procAcked>>
       \/ /\ db.st = "whole" /\ Goto(p, "open")
          /\ Manage(p, db.graph)
          /\ UNCHANGED <<lock, pend>>
       \/ /\ db.st = "legacy" /\ Goto(p, "snap_truncate")
          /\ pend' = [pend EXCEPT ![p] = [call |-> "migrate", graph |-> db.graph, meta |-> db.meta]]
          /\ UNCHANGED <<lock, memory, procAcked>>
       \/ /\ db.st = "torn" /\ Goto(p, "closed")
          /\ lock' = FALSE
          /\ UNCHANGED <<memory, pend, procAcked>>
    /\ UNCHANGED <<db, wal, begun, edits, acked, disk>>

\* The runtime is dropped, and the lock guard with it.
Close(p) ==
    /\ pc[p] = "open" /\ Goto(p, "closed")
    /\ lock' = FALSE
    /\ Forget(p)
    /\ UNCHANGED <<db, wal, begun, edits, acked, disk>>

-----------------------------------------------------------------------------
(* Transactions. *)

\* Fault: the id is taken before tx_seq is incremented.
BeginLateIncrement(p) ==
    /\ pc[p] = "open" /\ begun < MaxTx
    /\ begun' = begun + 1
    /\ sessions' = [sessions EXCEPT ![p] =
          [t \in DOMAIN @ \union {begun} |->
              IF t = begun THEN [graph |-> base[p], base |-> version[p]] ELSE @[t]]]
    /\ UNCHANGED <<files, pc, base, version, pend, edits, acked, procAcked, disk>>

\* The ids of the model never repeat; tx_seq restarts with the process.
Begin(p) ==
    /\ pc[p] = "open" /\ begun < MaxTx
    /\ begun' = begun + 1
    /\ sessions' = [sessions EXCEPT ![p] =
          [t \in DOMAIN @ \union {begun'} |->
              IF t = begun' THEN [graph |-> base[p], base |-> version[p]] ELSE @[t]]]
    /\ UNCHANGED <<files, pc, base, version, pend, edits, acked, procAcked, disk>>

Own(t, g) == Cardinality({i \in 1..Len(g) : g[i].tx = t})

\* Fault: an edit made on the base graph instead of the session's clone.
EditBase(p, t) ==
    /\ pc[p] = "open" /\ t \in DOMAIN sessions[p]
    /\ Own(t, base[p]) < MaxEdits
    /\ base' = [base EXCEPT ![p] = Append(@, [tx |-> t, n |-> Own(t, @) + 1])]
    /\ UNCHANGED <<files, pc, version, sessions, pend, history>>

\* graph_mut: an edit on the session's own clone.
EditGraph(p, t) ==
    /\ pc[p] = "open" /\ t \in DOMAIN sessions[p]
    /\ Own(t, sessions[p][t].graph) < MaxEdits
    /\ sessions' = [sessions EXCEPT ![p][t].graph = Append(@, [tx |-> t, n |-> Own(t, @) + 1])]
    /\ UNCHANGED <<files, pc, base, version, pend, history>>

Rollback(p, t) ==
    /\ pc[p] = "open" /\ t \in DOMAIN sessions[p]
    /\ sessions' = [sessions EXCEPT ![p] = Without(@, t)]
    /\ UNCHANGED <<files, pc, base, version, pend, history>>

\* The session is removed first: whatever happens next, it is gone.
CommitConflict(p, t) ==
    /\ pc[p] = "open" /\ t \in DOMAIN sessions[p]
    /\ sessions[p][t].base # version[p]
    /\ sessions' = [sessions EXCEPT ![p] = Without(@, t)]
    /\ UNCHANGED <<files, pc, base, version, pend, history>>

\* persist_after_wal writes the session's graph with an empty catalog.
PersistFrom(p, t, step) ==
    /\ pc[p] = "open" /\ t \in DOMAIN sessions[p] /\ Goto(p, step)
    /\ sessions' = [sessions EXCEPT ![p] = Without(@, t)]
    /\ pend' = [pend EXCEPT ![p] = [call |-> "commit", graph |-> sessions[p][t].graph,
                                    meta |-> NoMeta]]
    /\ edits' = [edits EXCEPT ![t] = Own(t, sessions[p][t].graph)]
    /\ UNCHANGED <<files, base, version, begun, acked, procAcked, disk>>

\* Fault: base_version is not compared.
CommitUnchecked(p, t) == PersistFrom(p, t, "wal_truncate")

\* Fault: the snapshot is rewritten without the WAL.
CommitWithoutWal(p, t) ==
    t \in DOMAIN sessions[p] /\ sessions[p][t].base = version[p] /\ PersistFrom(p, t, "snap_truncate")

Commit(p, t) ==
    /\ t \in DOMAIN sessions[p] /\ sessions[p][t].base = version[p]
    /\ PersistFrom(p, t, "wal_truncate")

\* append_wal opens the WAL with truncate, then writes header and record.
WalTruncate(p) ==
    /\ pc[p] = "wal_truncate" /\ Goto(p, "wal_write")
    /\ wal' = NoData("empty")
    /\ UNCHANGED <<db, lock, memory, pend, history>>

WalWrite(p) ==
    /\ pc[p] = "wal_write" /\ Goto(p, "snap_truncate")
    /\ wal' = Snapshot(pend[p].graph, pend[p].meta)
    /\ UNCHANGED <<db, lock, memory, pend, history>>

\* fs::write truncates the snapshot, then writes it.
SnapTruncate(p) ==
    /\ pc[p] = "snap_truncate" /\ Goto(p, "snap_write")
    /\ db' = NoData("torn")
    /\ UNCHANGED <<wal, lock, memory, pend, history>>

\* The snapshot is written and the call that wrote it returns.
SnapWrite(p) ==
    /\ pc[p] = "snap_write"
    /\ db' = Snapshot(pend[p].graph, IF pend[p].call = "meta_migrate" THEN NoMeta ELSE pend[p].meta)
    /\ pend' = [pend EXCEPT ![p] = IF @.call = "meta_migrate" THEN [@ EXCEPT !.call = "meta"]
                                   ELSE Nothing]
    /\ \/ /\ pend[p].call = "init" /\ Goto(p, "load")
          /\ UNCHANGED <<memory, acked, procAcked>>
       \/ /\ pend[p].call = "migrate" /\ Goto(p, "open")
          /\ Manage(p, pend[p].graph)
          /\ UNCHANGED acked
       \/ /\ pend[p].call = "commit" /\ Goto(p, "open")
          /\ base' = [base EXCEPT ![p] = pend[p].graph]
          /\ version' = [version EXCEPT ![p] = @ + 1]
          /\ acked' = pend[p].graph
          /\ procAcked' = [procAcked EXCEPT ![p] = pend[p].graph]
          /\ UNCHANGED sessions
       \/ /\ pend[p].call = "recover" /\ Goto(p, "open")
          /\ base' = [base EXCEPT ![p] = pend[p].graph]
          /\ version' = [version EXCEPT ![p] = @ + 1]
          /\ sessions' = [sessions EXCEPT ![p] = <<>>]
          /\ UNCHANGED <<acked, procAcked>>
       \/ /\ pend[p].call = "offline" /\ Goto(p, "closed")
          /\ UNCHANGED <<memory, acked, procAcked>>
       \/ /\ pend[p].call = "meta_migrate" /\ Goto(p, "snap_truncate")
          /\ UNCHANGED <<memory, acked, procAcked>>
       \/ /\ pend[p].call = "meta" /\ Goto(p, "closed")
          /\ UNCHANGED <<memory, acked, procAcked>>
    /\ UNCHANGED <<wal, lock, begun, edits, disk>>

-----------------------------------------------------------------------------
(* recover: the WAL's snapshot overwrites the database. *)

\* The WAL holds no record: the snapshot is loaded again.
RecoverFromSnapshot(p) ==
    /\ pc[p] = "open" /\ version[p] < MaxVersion
    /\ wal.st \in {"absent", "empty"} /\ db.st = "whole"
    /\ base' = [base EXCEPT ![p] = db.graph]
    /\ version' = [version EXCEPT ![p] = @ + 1]
    /\ sessions' = [sessions EXCEPT ![p] = <<>>]
    /\ UNCHANGED <<files, pc, pend, history>>

RecoverFromWal(p) ==
    /\ pc[p] = "open" /\ version[p] < MaxVersion /\ Goto(p, "snap_truncate")
    /\ wal.st = "whole"
    /\ pend' = [pend EXCEPT ![p] = [call |-> "recover", graph |-> wal.graph, meta |-> wal.meta]]
    /\ UNCHANGED <<files, memory, history>>

NoWriter == \A p \in Process : pc[p] = "closed"

\* Before clearing a stale lock an operator may run StorageEngine::recover.
OfflineRecover(p) ==
    /\ "operator" \in Env /\ lock /\ NoWriter /\ Goto(p, "snap_truncate")
    /\ wal.st = "whole"
    /\ pend' = [pend EXCEPT ![p] = [call |-> "offline", graph |-> wal.graph, meta |-> wal.meta]]
    /\ UNCHANGED <<files, memory, history>>

\* Nothing in the code removes the lock file of a dead process: an operator does.
ClearLock ==
    /\ "operator" \in Env /\ lock /\ NoWriter
    /\ lock' = FALSE
    /\ UNCHANGED <<db, wal, pc, memory, pend, history>>

\* persist_cluster_metadata reads the graph and rewrites the snapshot, without
\* the lock and without the WAL.
PersistClusterMetadata(p, m) ==
    /\ "metadata" \in Env
    /\ pc[p] = "closed" /\ Goto(p, "snap_truncate")
    /\ db.st \in {"absent", "whole", "legacy"}
    /\ pend' = [pend EXCEPT ![p] = [call |-> IF db.st = "legacy" THEN "meta_migrate" ELSE "meta",
                                    graph |-> db.graph, meta |-> m]]
    /\ UNCHANGED <<files, memory, history>>

\* load_cluster_metadata reads without the lock; a legacy file it rewrites.
LoadClusterMetadata(p) ==
    /\ "metadata" \in Env
    /\ pc[p] = "closed" /\ Goto(p, "snap_truncate")
    /\ db.st = "legacy"
    /\ pend' = [pend EXCEPT ![p] = [call |-> "offline", graph |-> db.graph, meta |-> db.meta]]
    /\ UNCHANGED <<files, memory, history>>

-----------------------------------------------------------------------------
(* Failures. *)

Writing(p) == pc[p] \in {"wal_truncate", "wal_write", "snap_truncate", "snap_write"}

\* What the write in progress may leave when it stops half way.
PartialWrite(p) ==
    \/ pc[p] = "wal_write" /\ wal' \in {wal, NoData("torn")} /\ UNCHANGED db
    \/ pc[p] # "wal_write" /\ UNCHANGED <<db, wal>>

\* A file operation fails: opening fails and drops the lock, other calls return
\* an error and leave the manager as it was.
IoError(p) ==
    /\ "io_error" \in Env /\ (Writing(p) \/ pc[p] = "load")
    /\ PartialWrite(p)
    /\ pend' = [pend EXCEPT ![p] = Nothing]
    /\ \/ /\ pend[p].call \in {"commit", "recover"} /\ Goto(p, "open")
          /\ UNCHANGED lock
       \/ /\ pend[p].call \in {"init", "migrate", "none"} /\ Goto(p, "closed")
          /\ lock' = FALSE
       \/ /\ pend[p].call \in {"offline", "meta", "meta_migrate"} /\ Goto(p, "closed")
          /\ UNCHANGED lock
    /\ UNCHANGED <<memory, history>>

\* The process is killed: Drop does not run and the lock file stays.
Kill(p) ==
    /\ pc[p] # "closed" /\ Goto(p, "closed")
    /\ PartialWrite(p)
    /\ Forget(p)
    /\ UNCHANGED <<lock, begun, edits, acked, disk>>

\* The kernel writes a file's pages back when it likes; the code never asks.
WriteBack ==
    /\ "power_loss" \in Env
    /\ \/ disk' = [disk EXCEPT !.db = db]
       \/ disk' = [disk EXCEPT !.wal = wal]
    /\ UNCHANGED <<files, pc, memory, pend, begun, edits, acked, procAcked>>

\* A file not written back is as the device has it, torn, or as it was.
Survives(cached, stored) == {cached, stored} \union (IF cached = stored THEN {} ELSE {NoData("torn")})

PowerLoss ==
    /\ "power_loss" \in Env
    /\ pc' = [p \in Process |-> "closed"]
    /\ db' \in Survives(db, disk.db) /\ wal' \in Survives(wal, disk.wal)
    /\ disk' = [db |-> db', wal |-> wal']
    /\ lock' \in {lock, FALSE}
    /\ base' = [p \in Process |-> <<>>] /\ version' = [p \in Process |-> 0]
    /\ sessions' = [p \in Process |-> <<>>] /\ pend' = [p \in Process |-> Nothing]
    /\ procAcked' = [p \in Process |-> <<>>]
    /\ UNCHANGED <<begun, edits, acked>>

Next ==
    \/ \E p \in Process :
          \/ AcquireWriteLock(p) \/ LoadOrInit(p) \/ Close(p) \/ Begin(p)
          \/ \E t \in Tx : EditGraph(p, t) \/ Rollback(p, t) \/ CommitConflict(p, t) \/ Commit(p, t)
          \/ WalTruncate(p) \/ WalWrite(p) \/ SnapTruncate(p) \/ SnapWrite(p)
          \/ RecoverFromSnapshot(p) \/ RecoverFromWal(p) \/ OfflineRecover(p)
          \/ LoadClusterMetadata(p) \/ \E m \in Metadata : PersistClusterMetadata(p, m)
          \/ IoError(p) \/ Kill(p)
    \/ ClearLock \/ WriteBack \/ PowerLoss

Spec == Init /\ [][Next]_vars

-----------------------------------------------------------------------------
(* Properties. *)

IsPrefixOf(s, t) == Len(s) <= Len(t) /\ s = SubSeq(t, 1, Len(s))

Manager(p) == pc[p] \notin {"closed", "load"} /\ pend[p].call \notin Unmanaged

\* One writer: at most one process has a manager, and only under the lock file,
\* whatever processes died with or without removing theirs.
WriterExclusive ==
    \A p \in Process : Manager(p) => lock /\ \A q \in Process \ {p} : ~Manager(q)

\* All or nothing: what a manager serves and what the files hold contains, of
\* every transaction, all the edits its commit was requested with or none; so
\* neither a rolled-back, conflicting or open transaction nor a part of one is
\* ever visible or durable.
WholeTransactions(g) ==
    \A i \in 1..Len(g) : g[i].tx # Old => /\ edits[g[i].tx] > 0
                                          /\ Own(g[i].tx, g) = edits[g[i].tx]
OnlyWholeCommits ==
    /\ \A p \in Process : WholeTransactions(base[p])
    /\ WholeTransactions(db.graph) /\ WholeTransactions(wal.graph)

\* No lost update: as long as a process has the database open, its base graph
\* extends every commit it has acknowledged, whatever commits failed on the way
\* and whatever recover read back.
BaseExtendsAcked ==
    \A p \in Process : IsPrefixOf(procAcked[p], base[p])

\* An acknowledged commit survives: the snapshot or the WAL decodes to a graph
\* that extends it.
AckedRecoverable ==
    acked # <<>> => \E f \in {db, wal} : f.st \in {"whole", "legacy"} /\ IsPrefixOf(acked, f.graph)

\* Serializable: each acknowledged commit extends the one acknowledged before it,
\* across every crash, recovery and reopening.
CommitsChain == [][acked' # acked => IsPrefixOf(acked, acked')]_vars
=============================================================================
