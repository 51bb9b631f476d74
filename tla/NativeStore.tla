---------------------------- MODULE NativeStore ----------------------------
(***************************************************************************)
(* The crash-atomic generation store of the native sidecar                 *)
(* (src/bin/aira-graphdb-native.rs): one single-threaded process that owns *)
(* a canonical JSON file, content-addressed vector blobs and one WAL, all  *)
(* in one directory.                                                       *)
(*                                                                         *)
(* Every file has two views: the one path lookups and reads see (the page  *)
(* cache) and the one that survives power loss (suffix D).  A directory    *)
(* fsync makes the directory entries durable, a file fsync the content.    *)
(* Killing the process loses its memory only; power loss also loses any    *)
(* part of what has not been fsynced.                                      *)
(*                                                                         *)
(* The content of a generation is the sequence of mutations it holds; a    *)
(* digest is modelled by the sequence it is the digest of.                 *)
(***************************************************************************)
EXTENDS Naturals, Sequences, FiniteSets

CONSTANTS
    Mutation,       \* canonicalized mutation requests (request id and payload)
    Inode,          \* inodes a WAL file can have; NoInode is not one of them
    NoInode,
    NoEvidence,     \* commitEvidence: null
    MaxWalRecords,  \* MAX_WAL_RECORDS
    MaxGen,         \* bound: generations published
    MaxNonce        \* bound: transactions begun

ASSUME ConstantsAssumption ==
    /\ NoInode \notin Inode
    /\ MaxWalRecords \in Nat \ {0}
    /\ MaxGen \in Nat
    /\ MaxNonce \in Nat

\* PreparedCommitEvidence: transaction nonce, base generation and the WAL's
\* digest, byte count and record count.  The next generation is base + 1.
Evidence == [nonce : Nat, base : Nat, recs : Seq(Mutation)]

ASSUME NoEvidenceAssumption == NoEvidence \notin Evidence

VARIABLES
    \* --- the directory and its files ---
    canon, canonD,       \* canonical JSON at db_path
    blobs, blobsD,       \* vector blob entries (name = generation and hash)
    blobsSync,           \* blobs whose content has been fsynced
    walIno, walInoD,     \* inode at the WAL path, NoInode when absent
    walData, walDataD,   \* content of every WAL inode
    quar, quarD,         \* inodes renamed to .quarantine names
    \* --- the process ---
    pc,                  \* "down", "loop", or the step inside a handler
    gen, content, lastEv,\* Server.state: generation, logical content, evidence
    tx,                  \* TransactionState
    walLog,              \* wal_bytes / wal_record_count / wal_hasher
    held,                \* wal_identity
    ids,                 \* active_mutation_request_ids
    req,                 \* the mutation request being handled
    tmp,                 \* temp file of the commit: none, written, synced
    \* --- what clients have been told ---
    nonce,               \* transactions begun so far
    acks,                \* mutations of the latest transaction acknowledged
    ackBase,             \* its base generation
    prepared,            \* evidence handed out by batch_prepare_commit
    tokens               \* evidence of commits whose token was returned

dirVars   == <<canon, blobs, walIno, quar>>
durVars   == <<canonD, blobsD, walInoD, quarD>>
dataVars  == <<blobsSync, walData, walDataD>>
diskVars  == <<dirVars, durVars, dataVars>>
memVars   == <<gen, content, lastEv>>
walVars   == <<walLog, held, ids>>
stepVars  == <<req, tmp>>
histVars  == <<nonce, acks, ackBase, prepared, tokens>>
vars      == <<diskVars, pc, memVars, tx, walVars, stepVars, histVars>>

-----------------------------------------------------------------------------
\* WAL records carry the base generation; torn marks a partial last record.
Record    == [base : Nat, mut : Mutation]
WalFile   == [recs : Seq(Record), torn : BOOLEAN]
EmptyWal  == [recs |-> <<>>, torn |-> FALSE]

\* Canonical state: generation, content, commitEvidence, and whether the bytes
\* of the file are durable, in the page cache only, or lost.
Canonical == [gen : Nat, content : Seq(Mutation),
              ev : Evidence \union {NoEvidence},
              data : {"synced", "unsynced", "torn"}]
EmptyCanonical == [gen |-> 0, content |-> <<>>, ev |-> NoEvidence, data |-> "synced"]

\* A blob's basename holds its generation and the hash of its bytes, whose
\* header holds the parent: it stands for the content up to that generation.
BlobName  == [gen : Nat, content : Seq(Mutation)]
BlobOf(s) == [gen |-> s.gen, content |-> s.content]

TxState == {"Idle", "Active", "Prepared", "RecoveryPending"}
Transaction == [st : TxState, base : Nat, nonce : Nat, seen : BOOLEAN,
                ev : Evidence \union {NoEvidence}]
IdleTx == [st |-> "Idle", base |-> 0, nonce |-> 0, seen |-> FALSE, ev |-> NoEvidence]

StartupPc == {"probe", "load", "replay", "startup_zero", "startup_zero_sync"}
AppendPc  == {"wal_open", "wal_write", "wal_data_sync", "wal_dir_sync", "apply"}
CommitPc  == {"wal_verify", "vector_write", "vector_sync", "vector_publish",
              "vector_dir_sync", "json_write", "json_sync", "json_publish",
              "json_dir_sync", "wal_zero", "wal_sync", "complete"}
DiscardPc == {"discard_rename", "discard_dir_sync"}
Pc == {"down", "loop"} \union StartupPc \union AppendPc \union CommitPc \union DiscardPc

DiskTypeOK ==
    /\ canon \in Canonical /\ canonD \in Canonical
    /\ blobs \subseteq BlobName /\ blobsD \subseteq BlobName
    /\ blobsSync \subseteq BlobName
    /\ walIno \in Inode \union {NoInode} /\ walInoD \in Inode \union {NoInode}
    /\ walData \in [Inode -> WalFile] /\ walDataD \in [Inode -> WalFile]
    /\ quar \subseteq Inode /\ quarD \subseteq Inode

ProcTypeOK ==
    /\ pc \in Pc
    /\ gen \in Nat /\ content \in Seq(Mutation)
    /\ lastEv \in Evidence \union {NoEvidence}
    /\ tx \in Transaction
    /\ walLog \in Seq(Mutation)
    /\ held \in Inode \union {NoInode}
    /\ ids \subseteq Mutation
    /\ req \subseteq Mutation
    /\ tmp \in {"none", "written", "synced"}

HistTypeOK ==
    /\ nonce \in Nat
    /\ acks \in Seq(Mutation) /\ ackBase \in Nat
    /\ prepared \subseteq Evidence /\ tokens \subseteq Evidence

TypeOK == DiskTypeOK /\ ProcTypeOK /\ HistTypeOK

\* A database directory with no files and no process.
Init ==
    /\ canon = EmptyCanonical /\ canonD = EmptyCanonical
    /\ blobs = {} /\ blobsD = {} /\ blobsSync = {}
    /\ walIno = NoInode /\ walInoD = NoInode
    /\ walData = [i \in Inode |-> EmptyWal] /\ walDataD = [i \in Inode |-> EmptyWal]
    /\ quar = {} /\ quarD = {}
    /\ pc = "down"
    /\ gen = 0 /\ content = <<>> /\ lastEv = NoEvidence
    /\ tx = IdleTx
    /\ walLog = <<>> /\ held = NoInode /\ ids = {}
    /\ req = {} /\ tmp = "none"
    /\ nonce = 0 /\ acks = <<>> /\ ackBase = 0
    /\ prepared = {} /\ tokens = {}

-----------------------------------------------------------------------------
\* What a WAL scan reports.
Muts(f)      == [k \in 1..Len(f.recs) |-> f.recs[k].mut]
ScanOk(f)    == ~f.torn /\ \A k \in 1..Len(f.recs) : f.recs[k].base = f.recs[1].base
WalBase(f)   == f.recs[1].base

\* fsync of the parent directory: every entry of it becomes durable.
SyncParentDir ==
    /\ canonD' = canon
    /\ blobsD' = blobs
    /\ walInoD' = walIno
    /\ quarD' = quar

\* The process is gone and its memory with it.
Die ==
    /\ pc' = "down"
    /\ gen' = 0 /\ content' = <<>> /\ lastEv' = NoEvidence
    /\ tx' = IdleTx
    /\ walLog' = <<>> /\ held' = NoInode /\ ids' = {}
    /\ req' = {} /\ tmp' = "none"

At(step) == pc = step
Goto(step) == pc' = step

-----------------------------------------------------------------------------
(* Startup: run_normal, open_resolved, replay_wal. *)

Spawn ==
    /\ At("down") /\ Goto("probe")
    /\ UNCHANGED <<diskVars, memVars, tx, walVars, stepVars, histVars>>

\* Fault: a probe that does not fsync the directory.
ProbeWithoutSync ==
    /\ At("probe") /\ Goto("load")
    /\ UNCHANGED <<diskVars, memVars, tx, walVars, stepVars, histVars>>

\* The no-replace rename probe ends with a parent directory fsync.
ProbeNoreplaceSupport ==
    /\ At("probe") /\ Goto("load")
    /\ SyncParentDir
    /\ UNCHANGED <<dirVars, dataVars, memVars, tx, walVars, stepVars, histVars>>

\* The canonical file parses and the blob it names is there, intact.
Loadable(c, b) == c.data # "torn" /\ (c.gen = 0 \/ BlobOf(c) \in b)

LoadState ==
    /\ At("load")
    /\ IF Loadable(canon, blobs)
       THEN /\ Goto("replay")
            /\ gen' = canon.gen /\ content' = canon.content /\ lastEv' = canon.ev
            /\ UNCHANGED <<tx, walVars, stepVars>>
       ELSE Die
    /\ UNCHANGED <<diskVars, histVars>>

Wal == walData[walIno]

\* No WAL, or a zero-length one: serve as Idle.
ReplayNothing ==
    /\ At("replay") /\ Goto("loop")
    /\ walIno # NoInode => Wal = EmptyWal
    /\ held' = walIno
    /\ UNCHANGED <<diskVars, memVars, tx, walLog, ids, stepVars, histVars>>

\* Fault: records of the canonical generation taken for committed ones.
ResidueOfCurrentBase ==
    /\ walIno # NoInode /\ ScanOk(Wal) /\ Wal.recs # <<>>
    /\ WalBase(Wal) <= gen

\* Fault: the evidence compared with the base instead of the next generation.
ResidueOffByOne ==
    /\ walIno # NoInode /\ ScanOk(Wal) /\ Wal.recs # <<>>
    /\ WalBase(Wal) < gen
    /\ lastEv # NoEvidence => gen = lastEv.base /\ Muts(Wal) = lastEv.recs

\* Committed residue: the records' base is below the canonical generation and
\* the stored commit evidence, when there is some, is about exactly them.
IsResidue ==
    /\ walIno # NoInode /\ ScanOk(Wal) /\ Wal.recs # <<>>
    /\ WalBase(Wal) < gen
    /\ lastEv # NoEvidence => /\ WalBase(Wal) = lastEv.base
                              /\ gen = lastEv.base + 1
                              /\ Muts(Wal) = lastEv.recs

ReplayResidue ==
    /\ At("replay") /\ Goto("startup_zero")
    /\ IsResidue
    /\ UNCHANGED <<diskVars, memVars, tx, walVars, stepVars, histVars>>

\* Records of the canonical generation: an interrupted transaction, kept aside.
IsPending == walIno # NoInode /\ ScanOk(Wal) /\ Wal.recs # <<>> /\ WalBase(Wal) = gen

\* Fault: the interrupted transaction is replayed into memory.
ReplayPendingIntoMemory ==
    /\ At("replay") /\ Goto("loop")
    /\ IsPending
    /\ walLog' = Muts(Wal)
    /\ content' = content \o Muts(Wal)
    /\ tx' = [IdleTx EXCEPT !.st = "RecoveryPending", !.base = gen,
                            !.ev = [nonce |-> 0, base |-> gen, recs |-> Muts(Wal)]]
    /\ UNCHANGED <<diskVars, gen, lastEv, held, ids, stepVars, histVars>>

ReplayPending ==
    /\ At("replay") /\ Goto("loop")
    /\ IsPending
    /\ walLog' = Muts(Wal)
    /\ tx' = [IdleTx EXCEPT !.st = "RecoveryPending", !.base = gen,
                            !.ev = [nonce |-> 0, base |-> gen, recs |-> Muts(Wal)]]
    /\ UNCHANGED <<diskVars, memVars, held, ids, stepVars, histVars>>

\* Partial record, mixed or future base, residue the evidence does not match.
ReplayFailClosed ==
    /\ At("replay")
    /\ walIno # NoInode /\ Wal # EmptyWal /\ ~IsResidue /\ ~IsPending
    /\ Die
    /\ UNCHANGED <<diskVars, histVars>>

\* retire_wal_exact from startup: set_len(0), then sync_all.
StartupZero ==
    /\ At("startup_zero") /\ Goto("startup_zero_sync")
    /\ walData' = [walData EXCEPT ![walIno] = EmptyWal]
    /\ UNCHANGED <<dirVars, durVars, blobsSync, walDataD, memVars, tx, walVars,
                   stepVars, histVars>>

StartupZeroSync ==
    /\ At("startup_zero_sync") /\ Goto("loop")
    /\ walDataD' = [walDataD EXCEPT ![walIno] = walData[walIno]]
    /\ held' = walIno
    /\ UNCHANGED <<dirVars, durVars, blobsSync, walData, memVars, tx, walLog, ids,
                   stepVars, histVars>>

Startup ==
    \/ Spawn \/ ProbeNoreplaceSupport \/ LoadState
    \/ ReplayNothing \/ ReplayResidue \/ ReplayPending \/ ReplayFailClosed
    \/ StartupZero \/ StartupZeroSync

-----------------------------------------------------------------------------
(* batch_begin and mutations: wal_append, then apply. *)

\* An idle server holds no WAL evidence: either no WAL, or the zero-length one.
IdleWalClean ==
    /\ walLog = <<>> /\ ids = {}
    /\ held = NoInode \/ (held = walIno /\ walData[held] = EmptyWal)

BatchBegin ==
    /\ At("loop") /\ tx.st = "Idle"
    /\ nonce < MaxNonce /\ gen < MaxGen
    /\ IF IdleWalClean
       THEN /\ nonce' = nonce + 1
            /\ tx' = [IdleTx EXCEPT !.st = "Active", !.base = gen, !.nonce = nonce + 1]
            /\ acks' = <<>> /\ ackBase' = gen
            /\ UNCHANGED <<pc, memVars, walVars, stepVars>>
       ELSE /\ Die
            /\ UNCHANGED <<nonce, acks, ackBase>>
    /\ UNCHANGED <<diskVars, prepared, tokens>>

\* A mutation outside an active batch, a repeated request id or a full WAL is
\* answered with an error that ends the process; while recovery is pending it
\* is answered with an error only.
RefuseMutation(m) ==
    /\ At("loop") /\ tx.st # "RecoveryPending"
    /\ \/ tx.st # "Active"
       \/ m \in ids
       \/ Len(walLog) >= MaxWalRecords
    /\ Die
    /\ UNCHANGED <<diskVars, histVars>>

AdmitMutation(m) ==
    /\ At("loop") /\ Goto("wal_open")
    /\ tx.st = "Active" /\ m \notin ids /\ Len(walLog) < MaxWalRecords
    /\ req' = {m}
    /\ UNCHANGED <<diskVars, memVars, tx, walVars, tmp, histVars>>

\* The held WAL must still be the one at the WAL path and have the length the
\* server accounts for; without one a new file is created.
FreeInode == Inode \ ({walIno, walInoD} \union quar \union quarD)

WalOpenHeld ==
    /\ At("wal_open") /\ held # NoInode
    /\ IF held = walIno /\ Muts(Wal) = walLog /\ ~Wal.torn
       THEN Goto("wal_write") /\ UNCHANGED <<memVars, tx, walVars, stepVars>>
       ELSE Die
    /\ UNCHANGED <<diskVars, histVars>>

WalCreate ==
    /\ At("wal_open") /\ held = NoInode
    /\ \E i \in FreeInode :
         IF walIno = NoInode
         THEN /\ walIno' = i
              /\ walData' = [walData EXCEPT ![i] = EmptyWal]
              /\ walDataD' = [walDataD EXCEPT ![i] = EmptyWal]
              /\ Goto("wal_write")
              /\ UNCHANGED <<memVars, tx, walVars, stepVars>>
         ELSE Die /\ UNCHANGED <<walIno, walData, walDataD>>
    /\ UNCHANGED <<canon, blobs, quar, durVars, blobsSync, histVars>>

WalWrite ==
    /\ At("wal_write") /\ Goto("wal_data_sync")
    /\ \E m \in req :
         walData' = [walData EXCEPT ![walIno].recs = Append(@, [base |-> gen, mut |-> m])]
    /\ UNCHANGED <<dirVars, durVars, blobsSync, walDataD, memVars, tx, walVars,
                   stepVars, histVars>>

\* The write fails, or the process dies, inside the record.
WalWritePartial ==
    /\ At("wal_write")
    /\ walData' = [walData EXCEPT ![walIno].torn = TRUE]
    /\ Die
    /\ UNCHANGED <<dirVars, durVars, blobsSync, walDataD, histVars>>

\* wal_identity is still unset exactly when this append created the file
\* (wal_created): only then is the directory fsynced too.
WalSyncData ==
    /\ At("wal_data_sync") /\ Goto(IF held = NoInode THEN "wal_dir_sync" ELSE "apply")
    /\ walDataD' = [walDataD EXCEPT ![walIno] = walData[walIno]]
    /\ UNCHANGED <<dirVars, durVars, blobsSync, walData, memVars, tx, walVars,
                   stepVars, histVars>>

\* Fault: the entry of a new WAL is not fsynced.
WalWithoutDirSync ==
    /\ At("wal_dir_sync") /\ Goto("apply")
    /\ UNCHANGED <<diskVars, memVars, tx, walVars, stepVars, histVars>>

WalSyncDir ==
    /\ At("wal_dir_sync") /\ Goto("apply")
    /\ SyncParentDir
    /\ UNCHANGED <<dirVars, dataVars, memVars, tx, walVars, stepVars, histVars>>

\* The WAL accounting is updated, the mutation applied in memory and answered.
ApplyMutation ==
    /\ At("apply") /\ Goto("loop")
    /\ \E m \in req :
         /\ walLog' = Append(walLog, m)
         /\ ids' = ids \union {m}
         /\ content' = Append(content, m)
         /\ acks' = Append(acks, m)
    /\ held' = walIno
    /\ tx' = [tx EXCEPT !.seen = TRUE]
    /\ req' = {}
    /\ UNCHANGED <<diskVars, gen, lastEv, tmp, nonce, ackBase, prepared, tokens>>

Mutate ==
    \/ BatchBegin
    \/ \E m \in Mutation : RefuseMutation(m) \/ AdmitMutation(m)
    \/ WalOpenHeld \/ WalCreate \/ WalWrite \/ WalWritePartial
    \/ WalSyncData \/ WalSyncDir \/ ApplyMutation

-----------------------------------------------------------------------------
(* batch_prepare_commit and batch_commit: persist. *)

PrepareCommit ==
    /\ At("loop") /\ tx.st = "Active" /\ tx.seen
    /\ LET ev == [nonce |-> tx.nonce, base |-> tx.base, recs |-> walLog]
       IN IF tx.base = gen /\ held = walIno /\ held # NoInode /\ Muts(Wal) = walLog /\ walLog # <<>>
          THEN /\ tx' = [tx EXCEPT !.st = "Prepared", !.ev = ev]
               /\ prepared' = prepared \union {ev}
               /\ UNCHANGED <<pc, memVars, walVars, stepVars>>
          ELSE Die /\ UNCHANGED prepared
    /\ UNCHANGED <<diskVars, nonce, acks, ackBase, tokens>>

\* Evidence other than the prepared one is answered with an error only.
CommitStart(e) ==
    /\ At("loop") /\ Goto("wal_verify")
    /\ tx.st = "Prepared" /\ e = tx.ev
    /\ UNCHANGED <<diskVars, memVars, tx, walVars, stepVars, histVars>>

NextCanonical == [gen |-> gen + 1, content |-> content, ev |-> tx.ev,
                  data |-> IF tmp = "synced" THEN "synced" ELSE "unsynced"]

WalVerify ==
    /\ At("wal_verify")
    /\ IF /\ tx.ev.base = gen /\ walIno # NoInode /\ ScanOk(Wal) /\ Wal.recs # <<>>
          /\ WalBase(Wal) = gen /\ Muts(Wal) = tx.ev.recs
       THEN Goto("vector_write") /\ UNCHANGED <<memVars, tx, walVars, stepVars>>
       ELSE Die
    /\ UNCHANGED <<diskVars, nonce, acks, ackBase, prepared, tokens>>

VectorWrite ==
    /\ At("vector_write") /\ Goto("vector_sync")
    /\ tmp' = "written"
    /\ UNCHANGED <<diskVars, memVars, tx, walVars, req, histVars>>

VectorSync ==
    /\ At("vector_sync") /\ Goto("vector_publish")
    /\ tmp' = "synced"
    /\ UNCHANGED <<diskVars, memVars, tx, walVars, req, histVars>>

\* rename_noreplace of the temp to the content-addressed name.
VectorPublish ==
    /\ At("vector_publish") /\ Goto("vector_dir_sync")
    /\ BlobOf(NextCanonical) \notin blobs
    /\ blobs' = blobs \union {BlobOf(NextCanonical)}
    /\ blobsSync' = IF tmp = "synced" THEN blobsSync \union {BlobOf(NextCanonical)}
                                      ELSE blobsSync
    /\ tmp' = "none"
    /\ UNCHANGED <<canon, walIno, quar, durVars, walData, walDataD, memVars, tx, walVars,
                   req, histVars>>

\* The name is there already: validate it, fsync it, drop the temp.
VectorPublishExisting ==
    /\ At("vector_publish") /\ Goto("vector_dir_sync")
    /\ BlobOf(NextCanonical) \in blobs
    /\ blobsSync' = blobsSync \union {BlobOf(NextCanonical)}
    /\ tmp' = "none"
    /\ UNCHANGED <<dirVars, durVars, walData, walDataD, memVars, tx, walVars, req,
                   histVars>>

\* Fault: the blob's entry is not fsynced before the JSON names it.
VectorWithoutDirSync ==
    /\ At("vector_dir_sync") /\ Goto("json_write")
    /\ UNCHANGED <<diskVars, memVars, tx, walVars, stepVars, histVars>>

VectorDirSync ==
    /\ At("vector_dir_sync") /\ Goto("json_write")
    /\ SyncParentDir
    /\ UNCHANGED <<dirVars, dataVars, memVars, tx, walVars, stepVars, histVars>>

JsonWrite ==
    /\ At("json_write") /\ Goto("json_sync")
    /\ tmp' = "written"
    /\ UNCHANGED <<diskVars, memVars, tx, walVars, req, histVars>>

JsonSync ==
    /\ At("json_sync") /\ Goto("json_publish")
    /\ tmp' = "synced"
    /\ UNCHANGED <<diskVars, memVars, tx, walVars, req, histVars>>

JsonPublish ==
    /\ At("json_publish") /\ Goto("json_dir_sync")
    /\ canon' = NextCanonical
    /\ tmp' = "none"
    /\ UNCHANGED <<blobs, walIno, quar, durVars, dataVars, memVars, tx, walVars, req,
                   histVars>>

\* Fault: the WAL is retired before the canonical entry is durable.
JsonWithoutDirSync ==
    /\ At("json_dir_sync") /\ Goto("wal_zero")
    /\ UNCHANGED <<diskVars, memVars, tx, walVars, stepVars, histVars>>

JsonDirSync ==
    /\ At("json_dir_sync") /\ Goto("wal_zero")
    /\ SyncParentDir
    /\ UNCHANGED <<dirVars, dataVars, memVars, tx, walVars, stepVars, histVars>>

\* retire_wal_exact_progress: hash check and set_len(0), then sync_all.
WalZero ==
    /\ At("wal_zero")
    /\ IF Muts(Wal) = tx.ev.recs
       THEN /\ Goto("wal_sync")
            /\ walData' = [walData EXCEPT ![walIno] = EmptyWal]
            /\ UNCHANGED <<memVars, tx, walVars, stepVars>>
       ELSE Die /\ UNCHANGED walData
    /\ UNCHANGED <<dirVars, durVars, blobsSync, walDataD, nonce, acks, ackBase, prepared, tokens>>

WalSync ==
    /\ At("wal_sync") /\ Goto("complete")
    /\ walDataD' = [walDataD EXCEPT ![walIno] = walData[walIno]]
    /\ UNCHANGED <<dirVars, durVars, blobsSync, walData, memVars, tx, walVars, stepVars,
                   histVars>>

\* Live memory moves to the published generation and the token is returned.
Complete ==
    /\ At("complete") /\ Goto("loop")
    /\ gen' = gen + 1 /\ lastEv' = tx.ev
    /\ walLog' = <<>> /\ held' = walIno /\ ids' = {}
    /\ tx' = IdleTx
    /\ tokens' = tokens \union {tx.ev}
    /\ UNCHANGED <<diskVars, content, stepVars, nonce, acks, ackBase, prepared>>

Commit ==
    \/ PrepareCommit
    \/ \E e \in prepared : CommitStart(e)
    \/ WalVerify \/ VectorWrite \/ VectorSync \/ VectorPublish \/ VectorPublishExisting
    \/ VectorDirSync \/ JsonWrite \/ JsonSync \/ JsonPublish \/ JsonDirSync
    \/ WalZero \/ WalSync \/ Complete

-----------------------------------------------------------------------------
(* recovery_discard: quarantine the interrupted transaction's WAL. *)

\* Compare-and-swap on base generation and digest.
DiscardStart(base, digest) ==
    /\ At("loop") /\ Goto("discard_rename")
    /\ tx.st = "RecoveryPending"
    /\ base = tx.base /\ digest = tx.ev.recs
    /\ UNCHANGED <<diskVars, memVars, tx, walVars, stepVars, histVars>>

\* Fault: quarantine by wal_identity, which recovery leaves unset.
DiscardRenameHeld ==
    /\ At("discard_rename") /\ Goto("discard_dir_sync")
    /\ quar' = quar \union {held}
    /\ walIno' = NoInode
    /\ UNCHANGED <<canon, blobs, durVars, dataVars, memVars, tx, walVars, stepVars, histVars>>

DiscardRename ==
    /\ At("discard_rename") /\ Goto("discard_dir_sync")
    /\ quar' = quar \union {walIno}
    /\ walIno' = NoInode
    /\ UNCHANGED <<canon, blobs, durVars, dataVars, memVars, tx, walVars, stepVars, histVars>>

DiscardDirSync ==
    /\ At("discard_dir_sync") /\ Goto("loop")
    /\ SyncParentDir
    /\ walLog' = <<>> /\ held' = NoInode /\ ids' = {}
    /\ tx' = IdleTx
    /\ UNCHANGED <<dirVars, dataVars, memVars, stepVars, histVars>>

Discard == DiscardStart(tx.base, tx.ev.recs) \/ DiscardRename \/ DiscardDirSync

-----------------------------------------------------------------------------
(* Failures. *)

\* A filesystem call of the step in progress fails: the error is answered (in
\* normal service) and the process exits.
IoError ==
    /\ pc \notin {"down", "loop"}
    /\ Die
    /\ UNCHANGED <<diskVars, nonce, acks, ackBase, prepared, tokens>>

\* SIGKILL, a panic, or end of input: the page cache survives.
Kill ==
    /\ pc # "down"
    /\ Die
    /\ UNCHANGED <<diskVars, histVars>>

IsPrefixOf(s, t) == Len(s) <= Len(t) /\ s = SubSeq(t, 1, Len(s))

\* What a WAL inode may hold after power loss: the synced content, the written
\* content, or, when records were written, a torn mixture of the two.
WalSurvivors(i) ==
    {walDataD[i], walData[i]} \union
    (IF IsPrefixOf(walData[i].recs, walDataD[i].recs) THEN {}
     ELSE {[recs |-> IF IsPrefixOf(walDataD[i].recs, walData[i].recs)
                     THEN walDataD[i].recs ELSE <<>>, torn |-> TRUE]})

DirtyInode == {i \in Inode : walData[i] # walDataD[i]}

\* Power loss: each directory operation since the last directory fsync either
\* reached the disk or did not; content that was never fsynced may be lost.
PowerLoss ==
    /\ Die
    /\ \E c \in {canonD, canon} :
         /\ canon' \in {c} \union (IF c.data = "synced" THEN {} ELSE {[c EXCEPT !.data = "torn"]})
         /\ canonD' = canon'
    /\ \E b \in SUBSET blobs :
         /\ blobsD \intersect blobsSync \subseteq b
         /\ blobs' = b /\ blobsD' = b /\ blobsSync' = b
    /\ \E w \in {<<walInoD, quarD>>, <<walIno, quar>>} :
         /\ walIno' = w[1] /\ walInoD' = w[1]
         /\ quar' = w[2] /\ quarD' = w[2]
    /\ \E f \in [DirtyInode -> UNION {WalSurvivors(i) : i \in DirtyInode}] :
         /\ \A i \in DirtyInode : f[i] \in WalSurvivors(i)
         /\ walData' = [i \in Inode |-> IF i \in DirtyInode THEN f[i] ELSE walData[i]]
    /\ walDataD' = walData'
    /\ UNCHANGED histVars

Crash == IoError \/ Kill \/ PowerLoss

Server == Startup \/ Mutate \/ Commit \/ Discard

Next == Server \/ Crash

Spec == Init /\ [][Next]_vars

-----------------------------------------------------------------------------
(* Properties. *)

\* Blob before JSON: whatever a crash leaves behind, the canonical file that
\* startup will read is complete and the blob it names is durable.
CrashLoadable ==
    \A c \in {canon, canonD} :
        /\ c.data = "synced"
        /\ c.gen = 0 \/ BlobOf(c) \in blobsD \intersect blobsSync

\* A serving process agrees with the disk: outside a transaction it serves the
\* durable generation and nothing else, so the records of an interrupted
\* transaction are never visible; inside one it serves the durable generation
\* plus exactly the records of the durable WAL.
ServesDurable ==
    pc = "loop" =>
        /\ gen = canonD.gen /\ lastEv = canonD.ev
        /\ tx.st \in {"Idle", "RecoveryPending"} => content = canonD.content
        /\ tx.st \in {"Active", "Prepared"} =>
              /\ content = canonD.content \o walLog
              /\ walLog # <<>> => /\ walInoD # NoInode
                                 /\ ScanOk(walDataD[walInoD])
                                 /\ Muts(walDataD[walInoD]) = walLog
                                 /\ WalBase(walDataD[walInoD]) = gen

\* A returned commit token means a durable generation and a durable WAL that
\* holds no record startup could take for an interrupted transaction of it.
TokenDurable ==
    \A e \in tokens :
        /\ canonD.gen > e.base
        /\ walInoD # NoInode =>
              \A k \in 1..Len(walDataD[walInoD].recs) : walDataD[walInoD].recs[k].base > e.base

\* An acknowledged mutation is never lost: until its transaction is published
\* it is in the durable WAL, or in a durably quarantined one.
AckedSurvives ==
    \/ acks = <<>>
    \/ canonD.gen > ackBase
    \/ \E i \in {walInoD} \union quarD :
          i # NoInode /\ IsPrefixOf(acks, Muts(walDataD[i]))

\* The outcome of the latest prepared transaction, as a client sees it from
\* health after any number of crashes, is exactly one of: still prepared,
\* committed (lastCommitEvidence is its evidence), pending with its digest, or
\* discarded.
Outcomes(e) ==
    {o \in {"prepared", "committed", "pending", "discarded"} :
        \/ o = "prepared"  /\ tx.st = "Prepared" /\ tx.ev = e
        \/ o = "committed" /\ lastEv = e
        \/ o = "pending"   /\ tx.st = "RecoveryPending"
                           /\ tx.ev.base = e.base /\ tx.ev.recs = e.recs
        \/ o = "discarded" /\ tx.st = "Idle" /\ gen = e.base
                           /\ \E i \in quarD : Muts(walDataD[i]) = e.recs}

OutcomeDecided ==
    pc = "loop" => \A e \in prepared : e.nonce = nonce => Cardinality(Outcomes(e)) = 1

\* The durable generation moves only by one, and only by one whole transaction
\* that was prepared on top of it: no step, crash or recovery publishes part of
\* a batch, two batches, or takes a generation back.
PublishesWholeBatches ==
    [][canonD' # canonD =>
         /\ canonD'.gen = canonD.gen + 1
         /\ canonD'.ev \in prepared /\ canonD'.ev.base = canonD.gen
         /\ canonD'.content = canonD.content \o canonD'.ev.recs]_vars

-----------------------------------------------------------------------------
(* Refinement: the durable generation is the abstract one. *)

ServedView ==
    IF pc = "loop" /\ tx.st \in {"Idle", "RecoveryPending"}
    THEN {[number |-> gen, data |-> content]}
    ELSE {}

Atomic == INSTANCE AtomicGenerations WITH
            number <- canonD.gen,
            data   <- canonD.content,
            view   <- ServedView,
            acked  <- {e.base + 1 : e \in tokens}

\* The store, with all its files, steps and crashes, implements atomic
\* generations: a batch becomes durable in one step, what a process serves
\* outside a transaction is the durable generation, and only that generation
\* is ever acknowledged.
RefinesAtomic == Atomic!Spec

-----------------------------------------------------------------------------
(* Liveness. *)

\* The process is restarted and runs the request it has begun.
ServerStep ==
    \/ Startup \/ DiscardRename \/ DiscardDirSync
    \/ WalOpenHeld \/ WalCreate \/ WalWrite \/ WalSyncData \/ WalSyncDir \/ ApplyMutation
    \/ WalVerify \/ VectorWrite \/ VectorSync \/ VectorPublish \/ VectorPublishExisting
    \/ VectorDirSync \/ JsonWrite \/ JsonSync \/ JsonPublish \/ JsonDirSync
    \/ WalZero \/ WalSync \/ Complete

FairSpec == Spec /\ WF_vars(ServerStep)

TornWal == walIno # NoInode /\ walData[walIno].torn

\* Once crashes stop, a store whose WAL is not torn is served again: no order of
\* crashes leaves files that startup refuses, except inside a WAL record.
ReturnsToService ==
    <>[][Server /\ ~WalWritePartial]_vars => []<>(TornWal \/ pc = "loop")
=============================================================================
