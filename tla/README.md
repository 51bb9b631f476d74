# TLA+ verification of aira-graphdb

`aira-graphdb` is a small graph database in Rust.  It ships two stores that
share little code: the **native sidecar** (`src/bin/aira-graphdb-native.rs` and
the two files beside it), a single-threaded process that answers JSON requests
on stdin and publishes crash-atomic *generations*; and the **library**
(`storage.rs`, `tx.rs`, `lock.rs`, `runtime.rs`, `graph.rs`, `query.rs`,
`server.rs`), an embedded database with optimistic transactions and a TCP server
around it.  This directory holds the TLA+ model of the parts whose correctness
depends on order, crashes and failures, the TLC runs that check it, and TLAPS
proofs of the central results.  Paths below are relative to the repository.

## 1. Inventory

### Native sidecar

| part | state | operations | correct when |
|---|---|---|---|
| generation store | canonical JSON, vector blobs, one WAL, quarantined WALs; in memory `state`, `TransactionState`, WAL hasher and identity | startup (rename probe, temp cleanup, load, replay), `batch_begin`, mutations (WAL append, apply), `batch_prepare_commit`, `batch_commit`, `recovery_discard`, `health` | a generation is durable whole or not at all; what is acknowledged survives; an interrupted commit has one outcome a client can find out |
| vector lineage | blob segments linked by parent digest, `vector_blob_lineage`, `blobRef` of every vector | delta or compacting segment per commit, load and decode, enumeration for reclamation | every published vector reads back; ceilings are never passed |
| commit evidence | nonce, base, digest, counts | prepare, compare at commit, report in health | see the generation store |
| progress frames | phase, work reported and sent, frames emitted, clock of the last one | `enter_phase`, `advance` of a commit under an admitted policy | the frames still owed are always affordable; a commit that works is never silent for longer than a heartbeat |
| graph, vector, lexical handlers | nodes, edges, vectors with decoded values, lexical passages, derived indexes with a dirty mark | upsert, delete, search, projection pages | no dangling reference after a delete; an index is never read stale; pages of a generation fit together |
| memory snapshots, schema merges | passages, facts, schemas per corpus; schema tokens | upsert, save, compare-and-set merge, checkpoints | a merge is applied to the state its token names |
| `memory_delete_document` | all of the above | cascading removal of one document | nothing of the document is left, nothing else is removed |
| descriptor read mode, bounded retrieval | a generation opened from descriptors, the session's deadline, work counters | search, expansion and PPR requests in frames | the best items whatever the scan order; within caps and deadline, or a structured failure of the same request |

### Library

| part | state | operations | correct when |
|---|---|---|---|
| storage engine | snapshot file, WAL file | `load_or_init`, `persist_after_wal`, `recover`, metadata, migration of legacy JSON | an acknowledged commit is in the snapshot or in the WAL |
| transaction manager | `base_graph`, `graph_version`, sessions | `begin`, `graph_mut`, `commit`, `rollback`, `recover` | no lost update, no partial transaction |
| write lock | `.write.lock` | `acquire_write_lock`, `Drop` | one writer |
| runtimes | lock guard and manager | open, close | the lock is held as long as the manager lives |
| graph store, query engine | nodes, edges, ids; none | create, match, set, delete | edges have their end points |
| server sessions | a thread per connection, one `Mutex<ServerRuntime>` | handshake, auth, begin, query, commit, rollback | sessions of many connections never leak into each other, nor half a query into the database |
| authentication, protocol negotiation, audit log, watchdog, errors, contracts, unicode tables, conformance, benchmarks, SDKs | small or none | pure checks, I/O or tools | - |

### Interactions and hard behaviours

* The native process is single-threaded: what interleaves with its steps is the
  *environment*: a kill, an I/O error, a power loss that undoes any part of what
  was not fsynced, the restart, and a client that repeats a request because the
  answer was lost.  Directory entries and file contents become durable
  separately, so each file has two views.
* The vector lineage is read and written by the same commit; a third party (the
  owner of the directory) removes the blobs that the server reports as
  unreferenced.
* In the library, several processes meet at the lock file; several sessions of
  one process share `base_graph`.  Cluster metadata is read and written without
  the lock.  Files are truncated and rewritten in place, without fsync.
* In the server, a request holds the runtime lock from its start to its answer,
  but a transaction spans requests, any connection may name any transaction, and
  a query changes its session in place before it fails or panics.
* In the native memory handlers, several indexing jobs share a process: a job
  plans its merges on a projection it read before other batches committed.
* Time matters to commits (heartbeats) and bounded reads (deadlines); in both it
  may pass between any two steps.

`PROJECT.json` lists the hazards one by one, each at its line, with the
properties that would catch it, or a note saying why none does.

## 2. Modules

| module | models | lines of |
|---|---|---|
| `AtomicGenerations` | the promise of the native store: one step publishes one whole batch | (abstract) |
| `NativeStore` | the generation store, with every file, fsync and crash | `aira-graphdb-native.rs`, `native_persistence_contract.rs` |
| `VectorLineage` | the chain of vector blobs | `aira-graphdb-native.rs` |
| `SnapshotStore` | storage engine, transaction manager, lock, runtimes | `storage.rs`, `tx.rs`, `lock.rs`, `runtime.rs` |
| `QueryServer` | server sessions over the transaction manager, graph store, effects of queries | `server.rs`, `tx.rs`, `graph.rs`, `query.rs`, `runtime.rs` |
| `CorpusMemory` | the state of a corpus: memory snapshot, graph, vectors, indexes; schema merges; `memory_delete_document`; projection pages | `aira-graphdb-native.rs`, `memory_delete_document.rs` |
| `BoundedReads` | descriptor read mode and bounded retrieval; the parallel `vector_search` | `bounded_retrieval_runtime.rs`, `bounded_retrieval_contract.rs`, `aira-graphdb-native.rs` |
| `ProgressFrames` | policy and emitter of commit progress | `aira-graphdb-native.rs`, `native_persistence_contract.rs` |
| `MC...` | instances for TLC | |
| `NativeStoreProofs`, `NativeStoreWalProofs` | theorems about `NativeStore`: types, loadable crash states, whole batches and refinement; what the WAL and its copies hold | |
| `SnapshotStoreProofs`, `QueryServerProofs`, `VectorLineageProofs`, `CorpusMemoryProofs`, `BoundedReadsProofs`, `ProgressFramesProofs` | theorems about the module each is named after | |

The modules meet at the batch and at the commit.  A mutation that `NativeStore`
logs as an opaque record is a request of `CorpusMemory`, whose `Commit` and
`Crash` are the atomic publication and the loss of an open batch that
`RefinesAtomic` proves of `NativeStore`; `ProgressFrames` is the stream of one
`Commit`; `BoundedReads` serves one published generation.  A commit that
`QueryServer` shows as one step, which persists or fails, is the sequence of
writes of `SnapshotStore`.

The operators named `...Without...`, `...Only`, `...Unchecked` and so on that
follow a comment beginning with "Fault:" are wrong variants of the definition
below them.  No specification uses them; replacing the right definition by the
wrong one makes the property that is paired with it in `PROJECT.json` fail, which
shows that the property depends on that line of code.

### NativeStore

State: `canon`/`canonD` the canonical JSON as read and as it would survive a
power loss; likewise `blobs`, `walIno`/`walData` (the WAL path names an inode, so
that a rename to quarantine and the `wal_identity` check can be told), and
`quar`.  `pc` is `down`, `loop` (waiting for a request) or the step inside a
handler; `gen`, `content`, `lastEv`, `tx`, `walLog`, `held`, `ids` are the fields
of `Server`.  `nonce`, `acks`, `ackBase`, `prepared` and `tokens`
record what clients have been told; no guard reads them except the bound on
`nonce`, which stands for the transaction nonce.

The content of a generation is the sequence of its mutations and a digest is the
sequence it is a digest of (no collisions).  Mutations are opaque: what a handler
does to the graph is not in this module, that its record is durable before it is
applied is.

| actions | code |
|---|---|
| `Spawn`, `ProbeNoreplaceSupport`, `LoadState` | process start, the rename probe with its directory fsync, reading JSON and blobs |
| `ReplayNothing`, `ReplayResidue`, `ReplayPending`, `ReplayFailClosed`, `StartupZero`, `StartupZeroSync` | `replay_wal`: an empty WAL, one left by the generation just loaded (zeroed), one of an unpublished transaction (`RecoveryPending`), and one the scan refuses |
| `BatchBegin`, `RefuseMutation`, `AdmitMutation`, `WalOpenHeld`, `WalCreate`, `WalWrite`, `WalWritePartial`, `WalSyncData`, `WalSyncDir`, `ApplyMutation` | `batch_begin` and a mutation request |
| `PrepareCommit`, `CommitStart`, `WalVerify`, `VectorWrite` to `VectorDirSync`, `JsonWrite` to `JsonDirSync`, `WalZero`, `WalSync`, `Complete` | `batch_prepare_commit`, `batch_commit` and `persist`, one action per durable step |
| `DiscardStart`, `DiscardRename`, `DiscardDirSync` | `recovery_discard` |
| `IoError`, `Kill`, `PowerLoss` | a failing system call, a kill, a power loss |

`RefinesAtomic` maps the abstract generation to `canonD`, the view of readers to
the memory of a process that is in its loop outside a transaction, and the
acknowledged generations to the returned tokens.

### VectorLineage

A blob's name contains the digest of its bytes and its header the digest of its
parent, so a blob is modelled as the sequence of segments it reaches.  `canon`
and `prev` are the last two canonical files, each with the history field `live`,
the vectors it was published with.  `Open`, `VectorUpsert`, `DeleteVectors`,
`PersistRefused`, `PersistBlob`, `PersistCanonical`, `PersistComplete` and
`Crash` are the server's; `Reclaim` is the owner's, who keeps what
`protocol_info` and the lineage enumeration report.  `NativeStore` shows that the
publication of blob and JSON is atomic under power loss, so a commit here has
three steps and a crash only loses memory.  Sizes are counted in small units,
with the relations between the code's four limits kept as an assumption.

### SnapshotStore

A graph is the sequence of edits that led to it.  Each process is `closed`,
loading, `open`, or at a step of a call that writes; `pend` holds what it is
writing and for which call (`init`, `migrate`, `commit`, `recover`, `offline`,
`meta`, `meta_migrate`).  `fs::write` is two steps, a truncation and a write.
`disk` is what the device holds: since nothing is fsynced, the kernel writes back
when it likes (`WriteBack`) and a power loss keeps, for either file, the old
content, the new one or a torn one.  `Env` selects what the environment does in a
run.  Transaction ids are unique in the model, in the code they restart at `tx-1`
with every process (`QueryServer` has them as they are).

### QueryServer

`ctx` is the `SessionState` of each connection (despite its name `TlsOk` is
reached by the handshake of a plain TCP connection), `poisoned` the runtime lock,
`base`, `version`, `sessions`, `txSeq` the `TransactionManager`, `disk` what the
file would open with.  A graph has nodes, edges and `next_node_seq`; history
fields say which transaction created a node and whether the graph holds half of
a query that panicked.  A query is the list of clauses it executes, perhaps as
branches of a UNION inside `CALL { }` or `EXISTS { }`; each clause gives the
graph it leaves and the kind of its result, since an error of the UNION (branches
with different columns, a branch that acknowledges) or of the projection is found
when the clauses have run.  Actions: `Connect`, `Disconnect`, `Handshake`, `Auth`,
`BeginTx`, `RunQuery`, `CommitTx`, `CommitRefused`, `RollbackTx`, `Restart`.  Any
connection may use any transaction id, also one that an earlier process handed
out.

### CorpusMemory

`mem` is the process's `State` for one corpus and `durable` that of the last
generation; a job is a sequence of requests in one batch (`JobDelete`,
`JobUpsert`, `JobNodes`, `JobEdges`, `JobVectors`, `JobLexical`), an operator's
batch holds one request of any other kind (`Operate`).  `Project` reads the
schema projections a job plans its merges on, at any time.  What a job sends is
client code and marked external; what the server does with it is translated:
validation and application of merge intents, hydration of schema nodes, the
cascade of `memory_delete_document` (`Deletion` and the operators above it,
following the order of scans in `apply_memory_delete_document`), raw deletions,
activation and `memory_save`.  A token is a digest of the whole stored schema, so
it is the schema.  `cache` is `Dirty` or the indexes as last built; reads go
through it (`GetNodes` ... `LexicalHits`).  `NodeRank` and `KeyRank` say how node
ids and edge keys, which are strings, compare; the projection is sorted by them.  `pager` is a client reading
`projection_get_transitions_page` until `nextOffset` is null.  `live` and `raw`
are history.

### BoundedReads

One request at a time: `ReadFrame`, `Start` (the second clock), `Admit`,
`CommitDeadline`, `Size`, then `Scan` item by item in any order and `FinishSlot`,
or `Collect`, `Build`, `Iterate`, `Rank`, `RankedObjects` for PPR; `Validate`,
`Encode`, `Send`.  `Tick` may come between any two; `StoreFault` and the fault
parameters are stored items that prove unsound or too large, and memory that
cannot be had.  Scan units are counted as the code counts them, with the real
caps, on graphs at the caps.  A `read` frame is the plain protocol's
`vector_search`, with every order of the keys, every cut into chunks and every
order of merging the chunks' heaps.

### ProgressFrames

A policy is admitted or not (`PolicyAdmitted`), the phases are entered in order,
`Advance` reports work, which never falls behind the last report, because no
caller's count does.  A frame may take time to write, and the clock is read
again after it.  What the phases do is in `NativeStore`.

## 3. Runs

| run | checks | bounds | states |
|---|---|---|---|
| `native_safety` | `TypeOK`, `CrashLoadable`, `ServesDurable`, `TokenDurable`, `AckedSurvives`, `OutcomeDecided`, `PublishesWholeBatches`, `RefinesAtomic` | 2 mutations, 2 WAL records, 2 generations, 3 transactions, 4 inodes | 211,419 |
| `native_liveness` | `ReturnsToService` | 2 mutations, 1 record, 2 generations, 2 transactions | 24,486 |
| `snapshot_faults` | `TypeOK`, `WriterExclusive` | 2 processes, 2 transactions of up to 2 edits, metadata, legacy file, I/O errors | 71,162 |
| `snapshot_failed_writes` | `BaseExtendsAcked`, `OnlyWholeCommits` | 2 processes, 3 transactions, I/O errors and power loss | 1,025,200 |
| `snapshot_crashes` | `AckedRecoverable`, `CommitsChain` | 2 processes, 3 transactions, kills | 20,748 |
| `lineage_chain` | `TypeOK`, `PublishedReadsBack`, `PredecessorReadsBack` | 2 keys, 2 vectors of one length, 3 generations, three kinds of initial database | 794,175 |
| `lineage_ceilings` | `PublishedReadsBack`, `OnlyBytesRefuse` | 2 keys, a short and a long vector, 4 generations, close ceilings | 300,396 |
| `lineage_adjacent` | `PublishedReadsBack` (violated) | a legacy database with an adjacent blob | - |
| `server` | `TypeOK`, `ReferentialIntegrity`, `IdsNeverReused`, `UndoneLeavesNothing`, `CommitsSerial` | 2 connections, 2 transactions per process, 2 processes, 1 query per session out of 24 | 302,512 |
| `memory` | `TypeOK`, `ReadsAgree`, `PagesComplete`, `SnapshotGrounded`, `FrequencySupported`, `DeletedLeavesNoTrace`, `GraphMirrorsMemory`, `VectorsNameFirstSource` | 2 documents, 2 shared facts of 2 schemas, 3 entities, 4 generations (3 of the operator), pages of 7 entries | 338,738 |
| `bounded` | `TypeOK`, `AnswerEncodes`, `SessionDeadline`, `SearchExact` | 12 requests, 2 frames, 5 clock readings, 4 vectors, 4 facts, graphs at the real caps | 3,239,280 |
| `progress` | `TypeOK`, `NeverOverflows`, `HeartbeatsSent` | 4 phases, 2 units and bytes of work per phase, 8 clock readings, every small policy | 776,330 |

Why the bounds suffice to make the cases happen.  *Native store*: two generations
give residue of one and pending records of the next, and a base for a successor;
three transactions allow one that commits, one that crashes and is discarded and
one after it; two records make a prefix of a batch different from the batch;
four inodes cover the WAL, its predecessor that a power loss may bring back and
two quarantined ones.  *Snapshot store*: two processes contend for the lock, two
transactions conflict and the third commits after a failure; two edits make a
part of a transaction visible.  *Lineage*: two segments trigger a compaction and
the third generation lies beyond it; one orphan blob is left by a crashed commit;
vectors of one length can be told apart by content only, which is what a length
check misses; a short and a long one cross the byte ceiling in either order.
*Server*: two transactions of different connections conflict, and the ids of the
second process collide with those of the first; a query is up to two clauses, of
which the first changes the graph and the second, the union or the projection
fails.  *Memory*: the documents share both facts and ground one of them only in
the first, so that a delete leaves a fact with a source but no passage; the first
document alone makes a schema stable, the second does not; four generations,
the first three of them open to the operator, allow both jobs, a deletion and a
further job, or one job between deletions; pages of 7
entries make two of the nine to twelve edges.  *Bounded reads*: two
requests, the second shortened by the first's deadline; equal scores at the
limit; sizes at a digit boundary and on both sides of the frame cap.
*Progress*: policies with exactly the frames admission demands, where the reserve
has no slack.

Deadlock is checked in every run but two: a process can always be killed and
started again, a connection closed and opened.  `bounded` and `progress` model
one descriptor session and one commit, which end, so they turn the check off.

Symmetry is used in safety runs only, over sets whose members the specification
never tells apart.

### Fairness

`FairSpec` adds weak fairness of `ServerStep`: a process that has begun a
request or its startup takes its next step, and a process that is down is started
again.  The first is what a single-threaded loop does; the second is the work of
whoever supervises the sidecar (`bounded-retrieval-data-plane.md` names systemd;
`watchdog.rs` only observes and reports the exit), and is the only assumption
about the outside: a start limit that gives up is outside the model.  No fairness is assumed of clients, of
failures or of their absence: `ReturnsToService` says that *if* failures stop
then the process is in its loop again and again, unless it finds a WAL torn
inside a record, which startup refuses on purpose.

## 4. Proofs

TLAPS checks the theorems below for every value of the constants that the named
assumptions allow; the runs check the same formulas on the instances of section
3.  `PROJECT.json` ("theorems") pairs each theorem with its property.  All proofs
have the same shape: an inductive invariant, checked with TLC first, is shown to
hold initially and to be kept by every action, with one step per action, and the
property follows from it.

### Native store

Assumptions: `ConstantsAssumption` (`NoInode` is no inode, the limits are
naturals, a WAL may hold at least one record) and `NoEvidenceAssumption` (a
missing evidence is not an evidence).

`NativeStoreProofs`:

* `TypeCorrect` (`TypeOK`).  Alone `TypeOK` is not inductive: the type of the
  evidence depends on the state of the transaction.  `TypeInv` adds `TxInv`, which
  ties the transaction's state to the program counter.
* `CrashSafe` (`CrashLoadable`): whatever view of the directory a crash leaves,
  the canonical file in it names a blob that is there with its content.
* `WholeBatches` (`PublishesWholeBatches`) and `Refinement` (`RefinesAtomic`).

The last three rest on `GenInv`: `PreparedInv` (a prepared transaction's evidence
is that of the WAL and of the generation in memory), `CanonInv` (at each program
counter, the canonical file and its durable view are equal, or the first is the
successor of the second by one prepared batch, and memory is the canonical
content plus the log), `BlobInv` (durable blobs are visible, and before the JSON
is written the next blob is durable with its content) and `TokenInv` (tokens are
about durable generations).  Without `CanonInv` the step `JsonPublish` cannot be
seen to publish one batch; without `BlobInv` a power loss after it cannot be seen
to leave a loadable file.

`NativeStoreWalProofs` adds what is known of the WAL under its path and under its
quarantine names, in both views:

* `ServingAgreesWithDisk` (`ServesDurable`), from `WalInv`: the path and the
  quarantine never share an inode, the two views agree at every settled step
  (`DirInv`), and the WAL at the path is, by program counter, the log, the log and
  one record more, or empty (`LogInv`, `IdleInv`).
* `TokensAreDurable` (`TokenDurable`), from `RetiredInv`: no view of the WAL holds
  a record of a transaction whose token was returned.
* `AcknowledgedSurvive` (`AckedSurvives`), from `AckInv`: the acknowledged
  mutations of the latest transaction are published, or one inode holds them in
  both views and both views of the directory name that inode.
* `OutcomeIsDecided` (`OutcomeDecided`), from `OutcomeInv`: the latest prepared
  transaction is durably published, or whole in exactly one WAL; nonces order the
  transactions, so that no older one is mistaken for it.

### Snapshot store

Assumption: `ConstantsAssumption`.  `Env` stays a parameter, so each theorem
says which environment it holds in.

* `WellTyped` (`TypeOK`), `OneWriter` (`WriterExclusive`, from `LockInv`) and
  `AllOrNothing` (`OnlyWholeCommits`, from `WholeInv`: every graph in memory, in a
  file or on the device is a whole number of transactions, and a transaction is
  open in one process at most) hold in every environment.
* `NoLostUpdate` (`BaseExtendsAcked`) assumes `"metadata" \notin Env`:
  `persist_cluster_metadata` writes the snapshot without the lock, and a commit in
  between is lost (section 5).  The invariant is `SoloInv` (then at most one
  process is not closed) with `ManagerInv`: what the process acknowledged is a
  prefix of whatever it serves or may read back, and a session that would not
  conflict extends the base graph.
* `CommitsSurvive` (`AckedRecoverable`) and `CommitsSerialize` (`CommitsChain`)
  assume `Env \subseteq {"operator"}`, that is kills (which are always allowed) and
  an operator who clears locks and recovers offline: I/O errors, power loss and a legacy file do lose
  acknowledged commits (section 5).  `AckInv` says which file holds the last
  acknowledged graph at each step of a write.

### Query server

Assumptions: `BoundsAssumption`, `StartAssumption` (the graph the first process
opens has its edges' end points, and ids up to `next_node_seq`) and
`QueriesAssumption`.

`WellTyped`, `EdgesIntact` (`ReferentialIntegrity`), `CommitsAreSerial`
(`CommitsSerial`), `IdsAreUnique` (`IdsNeverReused`) and `UndoneIsGone`
(`UndoneLeavesNothing`), for any number of connections and any set of queries.
The work is in lemmas about what a clause, a union and a query do to a graph
(`Derived`): they keep edges intact, hand out fresh ids only and create nodes of
their own transaction.  `SerialInv` says that a session of the current version
started from the base graph; `NamedInv` must leave out sessions that would
conflict, because those do hand out ids another transaction has used;
`UndoneInv` says whose nodes each graph may hold, and that a torn session exists
only while the runtime lock is poisoned.

### Vector lineage

Assumptions: `ConstantsAssumption`, which keeps the order of the code's limits
(the compaction thresholds lie below the ceilings), and `NoRefAssumption`.

* `WellTyped` and `OnlyBytesRefuseCommits` (`OnlyBytesRefuse`): a commit is refused
  for its bytes only, never for the number of segments or for a compaction that
  does not match the live vectors.
* `PublishedIsReadable` (`PublishedReadsBack`) and `PredecessorIsReadable`
  (`PredecessorReadsBack`), assuming `"adjacent" \notin Stores`: that kind of initial
  database is the finding of section 5.  The invariant `WholeInv` says of the last
  two canonical files and of memory that the head is a chain whose parents are all
  on disk, with generations that decrease along it, and that the *first* segment of
  the generation a reference names holds the vector; `CommitInv` says how far a
  commit has come.  Decreasing generations are what makes the first segment found
  the right one after a compaction.

### Corpus memory

Assumptions: `ShapesAssumption` (the sets are finite, every fact has a schema and
two ends, counts are naturals), `RanksAssumption` (different ids, and different
keys, compare as different), `ContributionsAssumption` (a passage grounds only
facts its document contributes to, every fact is grounded by some document, a
contribution counts for at least one) and `OperationsAssumption` (the operator
sends requests of the listed kinds, with any parameters).

One invariant, `Inv`, carries all eight theorems.  `Settled` is what holds of a
state between two batches:

* `Coherent`, kept by every single request: the types, and what a node or a vector
  holds by the kind of its id (`Shapes`); a fact's sources are among its schema's
  and its passages are stored passages of its sources, and a schema lists exactly
  its stored facts (`Grounded`); `Supported`; whatever is named anywhere is live
  (`LiveOnly`); edges have both ends and vectors a decoded value (`Closed`).
* `Fresh(M, N, E, V)`: nodes are copies of what is stored, entities are held by an
  edge and vectors name first sources, but for the ids in `N`, `E` and `V`.  In the
  middle of a job these are the ids it has merged and not sent on yet
  (`Pending`, `Stale`), so the invariant can follow the graph catching up with the
  snapshot request by request, and is `Settled` again when the job commits.

`PlanInv` says what a projection holds (it contains the schema of every fact of
another document that it mentions), and `Merged` that what a job sent is still
there when it sends the rest.  The two inclusions in `Grounded` are what makes the
deletion cascade inductive: the cascade finds the facts that lose a passage, and
the schemas that lose a fact, through the sources they list.

* `DeletionIs` reduces the cascade of `memory_delete_document`, with its scans of
  graph and snapshot, to what it makes of each part of a settled state;
  `DeletionCoherent`, `DeletionFresh` and `DeletionStep` follow from it, and that
  a deletion which counts nothing changes nothing the indexes list.
* `MergedSchemaIs` says what an intent that passes the compare-and-set does: the
  token makes the stored schema the one the job read, so the job's count, state
  and first source are right.  `NodesStep`, `EdgesStep`, `VectorsStep` and
  `LexicalStep` are the rest of a job, `RawStep` the raw deletions.
* `SortedIs` (the domain of an injective rank, each element once) and `EdgeRankIs`
  give the projection order, by counting in finite chains (`ChainRank`).
* From `Inv`: `TypesKept` (`TypeOK`), `ReadsAnswer` (`ReadsAgree`), `PagesWhole`
  (`PagesComplete`), `SnapshotStaysGrounded` (`SnapshotGrounded`),
  `FrequencyStaysSupported` (`FrequencySupported`), `DeletionLeavesNoTrace`
  (`DeletedLeavesNoTrace`), `GraphMirrors` (`GraphMirrorsMemory`) and
  `VectorsFollowFirstSource` (`VectorsNameFirstSource`), for any number of jobs
  and any requests between them.

### Bounded reads

Assumptions: `StoreAssumption` (finite stores, unique ids, comparable scores),
`CapsAssumption` (at most 2^21 nodes, 2^22 edges and 10^7 - 1 response bytes,
which the code's 1,500,000, 4,000,000 and 2 MiB satisfy; any other caps),
`NoneAssumption` and `RequestsAssumption` (limits and iterations are naturals).

* `WellTyped`.
* `DeadlineHolds` (`SessionDeadline`), from `DeadlineInv`: what a request may still
  use is what is left of a deadline no later than the first one, and until it
  commits its deadline the request has seen the session as it is.
* `EveryAnswerEncodes` (`AnswerEncodes`): no counter outgrows its cap wherever a
  request stops.  `WorkInv` carries, at every stage, the work done with what is
  still to come; `UnitsFit` is the arithmetic behind `MAX_GRAPH_SCAN_UNITS`, with
  the passes of the merge sorts; `FixedPointFound` shows that eight attempts at a
  frame's own length find it whenever one within the cap exists.
* `SearchesExact` (`SearchExact`): `ScanInv` says that a slot's heap is the best of
  what was met (`IsTop`, kept by `RetainTop`), and `VectorSearchBest` does the same
  for chunks scanned by threads and merged in any order.

### Progress frames

Assumption: `ConstantsAssumption`.  `CountersConsistent` (`TypeOK`),
`NoProtocolOverflow` (`NeverOverflows`) and `DueHeartbeatsSent` (`HeartbeatsSent`).
The invariant is `OwedInv`: the frames sent, the entries of the phases to come and
one heartbeat per interval from the last frame to the absolute deadline are at
most what the policy grants.

### Induction over data

The library's induction theorems cannot be instantiated here, so facts about
sequences and recursive functions (a scan of a sequence, a sum, the sizes of a
chain) are proved by the least counterexample: the set of bad lengths, if not
empty, has a least element (`LeastNat`, from `NatLessThanWellFounded` and
`WFMin`), and the one before it is good.  `IteratesExist` gives, the same way, the
function a recursive definition chooses.

### Only model-checked

* `ReturnsToService`: liveness under fairness is out of the prover's reach.

Every other property of the passing runs is stated by a theorem.

## 5. What disagrees

One run ends in a violation on purpose; `PROJECT.json` ("findings") quotes the
documents.

* `lineage_adjacent`: the first commit of a legacy database with an adjacent
  `.vblob` publishes references its lineage does not hold, so that the next open
  fails; `native-atomic-generations.md` says such a pair is migrated.

The models reproduce further disagreements between code and documents, without a
run of their own.  The first three are what `AckedRecoverable` and `CommitsSurvive`
leave out of `Env`: with `power_loss`, `io_error` or `metadata` added to
`SnapshotStoreCrashes.cfg` (and one member of `Metadata`), TLC finds each in a
second.

* A COMMIT of the library returns before anything is fsynced (`storage.rs:312`), and
  a power loss keeps neither file.  `REQ-AIRA-GRAPHDB-001.md:499` wants stable
  storage first, 500 the update visible after a host restart.
* After a failed snapshot write the WAL is the only copy of an acknowledged commit,
  and the next commit truncates it (`storage.rs:281`); a kill there loses it, against
  line 500 again.
* `persist_cluster_metadata` rewrites the snapshot without the lock
  (`storage.rs:133`) while a commit of another process has truncated the WAL; neither
  file holds what was acknowledged before.
* A commit writes the cluster metadata back empty (`storage.rs:148`); line 732 wants
  the catalog to retain it.
* A commit of the native store answered with an error may have advanced the
  generation.
  `docs/design/native-atomic-generations.md:105`: "Generation never advances after
  any failed validation or durability step", and 197-198: a failing directory
  sync "leaves N readable and returns no token".  After `JsonPublish` the new
  generation is the one a restart loads, and `IoError` at the directory sync or
  the WAL's retirement (`aira-graphdb-native.rs:4327-4332`) answers with an error.
  What does hold is `OutcomeDecided`: the client can find out.
* A query that fails leaves what it has done in its session, and the client may
  commit it.  `spec/DES-AIRA-GRAPHDB-001.md:722-723` forbids partial execution and
  wants a rollback when a procedure with a side effect fails; in `QueryServer` a
  UNION of a rename and a refused clause changes the session and answers with an
  error (`query.rs:263`, `server.rs:271`), and `CommitTx` accepts it.  What holds
  is that the half of a query that *panicked* is never committed
  (`UndoneLeavesNothing`): the poisoned lock stops the server first, for every
  connection and until a restart.

Seen in the models, and claimed nowhere to the contrary:

* a killed process leaves its lock file, and a restart does not remove it
  (`lock.rs:11-31`; the model needs the operator's `ClearLock`);
* the migration of a legacy JSON database truncates the only copy
  (`storage.rs:107`), for which reason `snapshot_crashes` starts from a new one;
* `compaction_reason` weighs the lineage before the commit, so a commit may be
  refused at the byte ceiling although a compaction would have fitted
  (`aira-graphdb-native.rs:1963`);
* a closed connection leaves its sessions in the manager for the life of the
  process (`server.rs:129`);
* `memory_delete_document` takes one off a schema's frequency however many
  occurrences the document had added, so repeated replacement of a document lets
  the frequency drift upwards; `FrequencySupported` states the side that holds;
* after a raw `delete_by_document` the vector of a fact may outlive the fact when
  `memory_delete_document` no longer finds its node; `VectorsNameFirstSource` is
  therefore stated for stored facts.

## 6. What is not modelled

* The encodings (JSON, WAL line format, blob layout), digests beyond equality,
  temp-file names, audit events and error texts.
* Of the query engine, the parser, row contents, filters, ordering, aggregation
  and pattern lengths: pure functions of text and graph.  `create_edge`,
  `update_edge` and `delete_edge` of the graph store are reached by no query.
* Of bounded retrieval, the contract's semantic evaluator
  (`validate_semantic_exchange` and what it calls) and the verification of its
  pinned artifacts, which are pure functions of request, result and constants,
  and appear as the outcome of `Validate`; the arithmetic of cosine and PPR, of
  which the work is counted; the caps on slots, dimensions and seeds (part of
  `wellFormed`) and the at most 288 KiB of vector values and seeds in the
  allocation.  The counters of iterations, nodes and edges are left out of
  `WorkFits`: admission caps the first, and the other two are counted once per
  node and edge of a corpus that `CatalogOpens` has capped.
* Checkpoints (`memory_save_checkpoint`): opaque values under a job's name.
* What a `cypher_query` of the native server answers: it runs on a graph built
  for it (`CypherEdges` says which edges that has) and thrown away.
* The owner's side of progress and of reclamation, beyond what `Reclaim` keeps.
* The checks of tokens, versions and profiles (`auth.rs`, `protocol.rs`): pure
  predicates, present as the gates `Handshake` and `Auth`.
* Unicode tables, conformance, benchmarks, the watchdog, SDKs and scripts: tables,
  tools and clients.

## 7. What could come next

The model is complete in the sense of section 6 and every safety property that
the runs check is proved.  What a team would add with the code's next changes:

1. the checkpoints of `memory_save_checkpoint`, once they are more than opaque
   values under a name;
2. the owner's side of progress and reclamation, if it moves into this repository;
3. `SnapshotStore` with the lock around `persist_cluster_metadata` and the legacy
   migration, once `storage.rs` takes it: `NoLostUpdate` and `CommitsSurvive` would
   then need no restriction on `Env` for these two.
