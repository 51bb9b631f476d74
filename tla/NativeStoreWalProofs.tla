------------------------ MODULE NativeStoreWalProofs ------------------------
(***************************************************************************)
(* What TLAPS proves of the WAL of NativeStore, on top of the invariants   *)
(* of NativeStoreProofs: what the two views of the WAL path, of the        *)
(* quarantine names and of the WAL's content may be at each step of        *)
(* replay_wal, wal_append, persist, retire_wal_exact and discard_recovery. *)
(***************************************************************************)
EXTENDS NativeStoreProofs, FiniteSetTheorems

-----------------------------------------------------------------------------
(* The inductive invariant. *)

\* The WAL entries whose durable view may lag behind: a creation or a quarantine
\* whose directory fsync has not run yet, or was cut off by the end of the process.
Settled ==
    /\ pc \notin {"down", "probe", "discard_dir_sync"}
    /\ pc \in {"wal_write", "wal_data_sync", "wal_dir_sync"} => held # NoInode

\* The WAL path and the quarantine names never share an inode, in either view,
\* and the views agree at every settled step.
DirInv ==
    /\ walIno \notin quar /\ walInoD \notin quarD
    /\ Settled => walInoD = walIno /\ quarD = quar

\* f holds the mutations s, all on top of the loaded generation.
IsLog(f, s) ==
    /\ ~f.torn /\ Muts(f) = s
    /\ \A k \in 1..Len(f.recs) : f.recs[k].base = gen

InTx == tx.st \in {"Active", "Prepared"}

\* Steps of a transaction at which the WAL is what the server accounts for.
SteadyPc == {"loop", "wal_open", "wal_verify", "vector_write", "vector_sync", "vector_publish",
             "vector_dir_sync", "json_write", "json_sync", "json_publish", "json_dir_sync",
             "wal_zero"}
\* Steps at which it holds one record more.
AheadPc == {"wal_data_sync", "wal_dir_sync", "apply"}

\* What the WAL at the path holds while it is appended to, verified and retired.
LogInv ==
    /\ pc \in SteadyPc /\ InTx =>
          /\ held = walIno
          /\ walIno # NoInode => IsLog(walData[walIno], walLog)
          /\ walLog # <<>> => walIno # NoInode /\ walDataD[walIno] = walData[walIno]
    /\ pc \in AppendPc => \E m \in Mutation : req = {m}
    /\ pc = "wal_write" =>
          /\ IsLog(walData[walIno], walLog)
          /\ walLog # <<>> => walDataD[walIno] = walData[walIno]
    /\ pc \in AheadPc => \A m \in req : IsLog(walData[walIno], Append(walLog, m))
    /\ pc \in AheadPc \union {"wal_write"} =>
          walIno # NoInode /\ held \in {NoInode, walIno} /\ (walLog # <<>> => held # NoInode)
    /\ pc \in {"wal_dir_sync", "apply"} => walDataD[walIno] = walData[walIno]
    /\ pc \in {"wal_sync", "complete"} => walIno # NoInode /\ walData[walIno] = EmptyWal
    /\ pc = "complete" => walDataD[walIno] = EmptyWal

\* What the WAL at the path holds outside a transaction.
IdleInv ==
    /\ pc = "loop" /\ tx.st = "Idle" =>
          held = walIno /\ (walIno # NoInode => walData[walIno] = EmptyWal)
    /\ pc = "startup_zero" =>
          walIno # NoInode /\ walData[walIno].recs # <<>> /\ WalBase(walData[walIno]) < gen
    /\ pc = "startup_zero_sync" => walIno # NoInode /\ walData[walIno] = EmptyWal
    /\ pc = "discard_dir_sync" => walIno = NoInode
    /\ pc \in {"loop", "discard_rename"} /\ tx.st = "RecoveryPending" =>
          tx.ev.base = gen /\ tx.ev.recs = Muts(walData[walIno])

WalInv == DirInv /\ LogInv /\ IdleInv

\* No view of the WAL holds a record of a transaction whose token was returned.
RetiredInv ==
    \A e \in tokens, i \in {walIno, walInoD} \ {NoInode} :
       \A f \in {walData[i], walDataD[i]} :
          \A k \in 1..Len(f.recs) : f.recs[k].base > e.base

\* Inode i holds every acknowledged mutation of the latest transaction, in both
\* views, under the WAL path or a quarantine name.
Keeps(i) ==
    /\ walIno = i \/ i \in quar
    /\ walInoD = i \/ i \in quarD
    /\ IsPrefixOf(acks, Muts(walDataD[i]))
    /\ IsPrefixOf(walDataD[i].recs, walData[i].recs)
    /\ WalBase(walDataD[i]) = ackBase

AckInv ==
    /\ InTx => acks = walLog /\ ackBase = gen
    /\ \/ acks = <<>>
       \/ canonD.gen > ackBase
       \/ \E i \in Inode : Keeps(i)

\* Inode i holds exactly the records of the prepared transaction e, in both
\* views, under the WAL path or a quarantine name, and no other WAL exists.
Holds(i, e) ==
    /\ walIno = i \/ (walIno = NoInode /\ i \in quar)
    /\ walInoD = i \/ (walInoD = NoInode /\ i \in quarD)
    /\ walDataD[i] = walData[i]
    /\ Muts(walData[i]) = e.recs /\ walData[i].recs # <<>> /\ WalBase(walData[i]) = e.base

\* Nonces order the transactions; only the latest one can be open.
NonceInv ==
    /\ \A e \in prepared : e.nonce <= nonce
    /\ InTx => tx.nonce = nonce
    /\ tx.st = "Active" => \A e \in prepared : e.nonce # nonce
    /\ tx.st = "Prepared" => \A e \in prepared : e.nonce = nonce => e = tx.ev
    /\ \A c \in {canon, canonD} : c.ev # NoEvidence => c.gen = c.ev.base + 1

\* The latest prepared transaction is durably published, or still whole in one WAL.
Published(e) == canonD.ev = e /\ canon = canonD
Whole(e) ==
    /\ canonD.gen = e.base
    /\ canon = canonD \/ canon.ev = e
    /\ \E i \in Inode : Holds(i, e)

OutcomeInv ==
    /\ NonceInv
    /\ \A e \in prepared : e.nonce = nonce => Published(e) \/ Whole(e)

-----------------------------------------------------------------------------
(* The WAL entry of the directory. *)

\* Every step keeps the WAL path and the quarantine names apart, and the fsyncs
\* of probe, wal_append and discard_recovery settle both views.
LEMMA DirStep == TypeInv /\ DirInv /\ LogInv /\ [Next]_vars => DirInv'
<1> SUFFICES ASSUME TypeInv, DirInv, LogInv, [Next]_vars PROVE DirInv'
  OBVIOUS
<1> USE DEF At, Goto, Die, diskVars, dirVars, durVars, dataVars, memVars, walVars, stepVars, histVars
<1>ty. /\ pc \in Pc /\ quar \subseteq Inode /\ quarD \subseteq Inode /\ NoInode \notin Inode
       /\ walIno \in Inode \union {NoInode}
  BY ConstantsAssumption DEF TypeInv, TypeOK, ProcTypeOK, DiskTypeOK
<1>lg. /\ pc = "wal_open" => held = walIno
       /\ pc \in {"wal_write", "wal_data_sync", "wal_dir_sync"} => held \in {NoInode, walIno}
  BY DEF LogInv, InTx, TypeInv, TxInv, AppendPc, SteadyPc, AheadPc
<1>di. pc = "discard_rename" => walIno # NoInode
  BY <1>ty DEF TypeInv, TxInv, DiscardPc
<1>1. CASE Startup
  BY <1>1 DEF DirInv, Settled, Startup, Spawn, ProbeNoreplaceSupport, SyncParentDir, LoadState, ReplayNothing,
     ReplayResidue, ReplayPending, ReplayFailClosed, StartupZero, StartupZeroSync
<1>2. CASE Mutate
  <2>1. CASE WalCreate
    BY <1>ty, <2>1 DEF DirInv, Settled, WalCreate, FreeInode
  <2>. QED
    BY <1>2, <1>lg, <2>1 DEF DirInv, Settled, Mutate, BatchBegin, RefuseMutation, AdmitMutation, WalOpenHeld,
       WalWrite, WalWritePartial, WalSyncData, WalSyncDir, SyncParentDir, ApplyMutation
<1>3. CASE Commit
  BY <1>3 DEF DirInv, Settled, Commit, PrepareCommit, CommitStart, WalVerify, VectorWrite, VectorSync,
     VectorPublish, VectorPublishExisting, VectorDirSync, SyncParentDir, JsonWrite, JsonSync,
     JsonPublish, JsonDirSync, WalZero, WalSync, Complete
<1>4. CASE Discard
  BY <1>ty, <1>di, <1>4 DEF DirInv, Settled, Discard, DiscardStart, DiscardRename, DiscardDirSync, SyncParentDir
<1>5. CASE Crash
  BY <1>5 DEF DirInv, Settled, Crash, IoError, Kill, PowerLoss
<1>6. CASE UNCHANGED vars
  BY <1>6 DEF DirInv, Settled, vars
<1>. QED BY <1>1, <1>2, <1>3, <1>4, <1>5, <1>6 DEF Next, Server

-----------------------------------------------------------------------------
(* The content of the WAL. *)

\* A zero-length WAL holds no mutation, and only such a one does.
LEMMA EmptyLog ==
    /\ EmptyWal.recs = <<>> /\ ~EmptyWal.torn /\ Muts(EmptyWal) = <<>>
    /\ \A f \in WalFile : Muts(f) = <<>> <=> f.recs = <<>>
<1>1. EmptyWal.recs = <<>> /\ ~EmptyWal.torn /\ EmptyWal \in WalFile
  BY EmptyWalType DEF EmptyWal
<1>2. ASSUME NEW f \in WalFile PROVE Muts(f) = <<>> <=> f.recs = <<>>
  <2>1. f.recs \in Seq(Record) /\ Muts(f) \in Seq(Mutation) /\ Len(Muts(f)) = Len(f.recs)
    BY MutsType DEF Muts, WalFile
  <2>. QED BY <2>1, EmptySeq
<1>. QED BY <1>1, <1>2

\* Appending a record to a log appends its mutation.
LEMMA AppendLog ==
    ASSUME NEW f \in WalFile, NEW m \in Mutation, gen \in Nat, NEW s \in Seq(Mutation),
           IsLog(f, s), NEW g,
           g = [f EXCEPT !.recs = Append(@, [base |-> gen, mut |-> m])]
    PROVE  IsLog(g, Append(s, m)) /\ IsPrefixOf(f.recs, g.recs)
<1> DEFINE r == [base |-> gen, mut |-> m]
<1>1. r \in Record /\ f.recs \in Seq(Record) /\ g.recs = Append(f.recs, r) /\ g.torn = f.torn
  BY DEF Record, WalFile
<1>2. /\ g.recs \in Seq(Record) /\ Len(g.recs) = Len(f.recs) + 1
      /\ \A k \in 1..Len(f.recs) : g.recs[k] = f.recs[k]
      /\ g.recs[Len(f.recs) + 1] = r
  BY <1>1, AppendProperties
<1>3. Len(f.recs) \in Nat /\ Len(s) = Len(f.recs) /\ \A k \in 1..Len(f.recs) : s[k] = f.recs[k].mut
  BY <1>1, LenProperties DEF IsLog, Muts
<1>4. Muts(g) = Append(s, m)
  <2>1. /\ Append(s, m) \in Seq(Mutation) /\ Len(Append(s, m)) = Len(s) + 1
        /\ \A k \in 1..Len(s) : Append(s, m)[k] = s[k]
        /\ Append(s, m)[Len(s) + 1] = m
    BY AppendProperties
  <2>2. g \in WalFile
    BY AppendType
  <2>3. Muts(g) \in Seq(Mutation) /\ Len(Muts(g)) = Len(g.recs)
    BY <1>2, <2>2, MutsType DEF Muts
  <2>4. ASSUME NEW k \in 1..Len(g.recs) PROVE Muts(g)[k] = Append(s, m)[k]
    <3>1. Muts(g)[k] = g.recs[k].mut
      BY DEF Muts
    <3>2. CASE k \in 1..Len(f.recs)
      BY <1>2, <1>3, <2>1, <3>1, <3>2
    <3>3. CASE k = Len(f.recs) + 1
      BY <1>2, <1>3, <2>1, <3>1, <3>3
    <3>. QED BY <1>2, <1>3, <3>2, <3>3
  <2>. QED BY <1>2, <1>3, <2>1, <2>3, <2>4, SeqEqual
<1>5. \A k \in 1..Len(g.recs) : g.recs[k].base = gen
  <2>1. ASSUME NEW k \in 1..Len(g.recs) PROVE g.recs[k].base = gen
    <3>1. CASE k \in 1..Len(f.recs)
      BY <1>2, <3>1 DEF IsLog
    <3>2. CASE k = Len(f.recs) + 1
      BY <1>2, <3>2
    <3>. QED BY <1>2, <1>3, <3>1, <3>2
  <2>. QED BY <2>1
<1>6. IsPrefixOf(f.recs, g.recs)
  <2>1. SubSeq(g.recs, 1, Len(f.recs)) = f.recs
    BY <1>1, <1>2, <1>3
  <2>. QED BY <1>2, <1>3, <2>1 DEF IsPrefixOf
<1>. QED BY <1>1, <1>4, <1>5, <1>6 DEF IsLog

\* Nothing is claimed of the WAL's content once the process has ended.
LEMMA DieLog == Die => LogInv' /\ IdleInv'
BY DEF Die, LogInv, IdleInv, SteadyPc, AheadPc, AppendPc

\* Every step keeps what LogInv says of the WAL: wal_append writes and syncs the
\* record before it is accounted for, retire_wal_exact empties the whole file.
LEMMA LogStep ==
    ASSUME TypeInv, GenInv, LogInv, IdleInv, [Next]_vars
    PROVE  LogInv'
<1> USE DEF At, Goto, diskVars, dirVars, durVars, dataVars, memVars, walVars, stepVars, histVars
<1>ty. /\ walData \in [Inode -> WalFile] /\ walDataD \in [Inode -> WalFile]
       /\ walIno \in Inode \union {NoInode} /\ NoInode \notin Inode
       /\ gen \in Nat /\ walLog \in Seq(Mutation) /\ tx \in Transaction
  BY ConstantsAssumption DEF TypeInv, TypeOK, ProcTypeOK, DiskTypeOK
<1>tx. /\ pc \in AppendPc => tx.st = "Active"
       /\ pc \in CommitPc => tx.st = "Prepared" /\ tx.ev.recs = walLog /\ walLog # <<>>
       /\ pc \in StartupPc => tx.st = "Idle"
       /\ pc \in DiscardPc => tx.st = "RecoveryPending"
  BY IdleTxType DEF TypeInv, TxInv, GenInv, PreparedInv
<1>1. CASE Startup
  <2>1. CASE Die
    BY <2>1, DieLog
  <2>2. CASE pc' \in {"probe", "load", "replay", "startup_zero", "startup_zero_sync"}
    BY <2>2 DEF LogInv, SteadyPc, AheadPc, AppendPc
  <2>3. CASE pc' = "loop" /\ tx'.st \in {"Idle", "RecoveryPending"}
    BY <2>3 DEF LogInv, InTx, SteadyPc, AheadPc, AppendPc
  <2>. QED
    BY <1>1, <1>tx, <2>1, <2>2, <2>3
    DEF Startup, Spawn, ProbeNoreplaceSupport, LoadState, ReplayNothing, ReplayResidue,
        ReplayPending, ReplayFailClosed, StartupZero, StartupZeroSync, StartupPc, IdleTx
<1>2. CASE Mutate
  <2>1. CASE Die
    BY <2>1, DieLog
  <2>2. CASE BatchBegin /\ IdleWalClean
    <3>1. pc' = "loop" /\ tx'.st = "Active" /\ walLog' = <<>> /\ walLog = <<>> /\ gen' = gen
      BY <2>2 DEF BatchBegin, IdleWalClean, IdleTx
    <3>2. held = walIno /\ (walIno # NoInode => walData[walIno] = EmptyWal)
      BY <2>2 DEF BatchBegin, IdleInv
    <3>3. UNCHANGED <<held, walIno, walData, walDataD>>
      BY <2>2 DEF BatchBegin
    <3>4. IsLog(EmptyWal, <<>>)
      BY EmptyLog DEF IsLog
    <3>. QED BY <3>1, <3>2, <3>3, <3>4 DEF LogInv, IsLog, SteadyPc, AheadPc, AppendPc
  <2>3. ASSUME NEW m \in Mutation, AdmitMutation(m) PROVE LogInv'
    BY <2>3 DEF AdmitMutation, LogInv, InTx, IsLog, SteadyPc, AheadPc, AppendPc
  <2>4. CASE WalOpenHeld /\ ~Die
    BY <1>tx, <2>4 DEF WalOpenHeld, LogInv, InTx, IsLog, SteadyPc, AheadPc, AppendPc
  <2>5. CASE WalCreate /\ ~Die
    <3>1. PICK i \in Inode : /\ walIno' = i
                            /\ walData' = [walData EXCEPT ![i] = EmptyWal]
                            /\ walDataD' = [walDataD EXCEPT ![i] = EmptyWal]
      BY <2>5 DEF WalCreate, FreeInode
    <3>2. /\ pc = "wal_open" /\ pc' = "wal_write" /\ held = NoInode /\ walIno = NoInode
          /\ UNCHANGED <<gen, walLog, held, req>>
      BY <2>5 DEF WalCreate
    <3>3. walLog = <<>>
      BY <1>tx, <3>2 DEF LogInv, InTx, SteadyPc, AppendPc
    <3>4. walData'[walIno'] = EmptyWal /\ IsLog(EmptyWal, <<>>)
      BY <1>ty, <3>1, EmptyLog DEF IsLog
    <3>. QED BY <1>ty, <3>1, <3>2, <3>3, <3>4 DEF LogInv, IsLog, SteadyPc, AheadPc, AppendPc
  <2>6. CASE WalWrite
    <3>1. PICK m \in Mutation :
            /\ req = {m}
            /\ walData' = [walData EXCEPT ![walIno].recs = Append(@, [base |-> gen, mut |-> m])]
      BY <2>6 DEF WalWrite, LogInv, AppendPc
    <3>2. /\ pc = "wal_write" /\ pc' = "wal_data_sync"
          /\ UNCHANGED <<gen, walLog, held, req, walIno, walDataD>>
      BY <2>6 DEF WalWrite
    <3>3. walIno \in Inode /\ IsLog(walData[walIno], walLog)
      BY <1>ty, <3>2 DEF LogInv
    <3>4. walData'[walIno] =
            [walData[walIno] EXCEPT !.recs = Append(@, [base |-> gen, mut |-> m])]
      BY <1>ty, <3>1, <3>3
    <3>5. IsLog(walData'[walIno], Append(walLog, m))
      BY <1>ty, <3>3, <3>4, AppendLog
    <3>. QED BY <3>1, <3>2, <3>5 DEF LogInv, IsLog, SteadyPc, AheadPc, AppendPc
  <2>7. CASE WalSyncData
    BY <1>ty, <2>7 DEF WalSyncData, LogInv, IsLog, SteadyPc, AheadPc, AppendPc
  <2>8. CASE WalSyncDir
    BY <2>8 DEF WalSyncDir, LogInv, IsLog, SteadyPc, AheadPc, AppendPc
  <2>9. CASE ApplyMutation
    <3>1. PICK m \in Mutation : req = {m} /\ walLog' = Append(walLog, m)
      BY <2>9 DEF ApplyMutation, LogInv, AppendPc
    <3>2. /\ pc = "apply" /\ pc' = "loop" /\ held' = walIno
          /\ UNCHANGED <<gen, walIno, walData, walDataD>>
      BY <2>9 DEF ApplyMutation
    <3>. QED BY <3>1, <3>2 DEF LogInv, IsLog, SteadyPc, AheadPc, AppendPc
  <2>10. CASE WalWritePartial
    BY <2>1, <2>10 DEF WalWritePartial
  <2>. QED
    BY <1>2, <2>1, <2>2, <2>3, <2>4, <2>5, <2>6, <2>7, <2>8, <2>9, <2>10
    DEF Mutate, BatchBegin, RefuseMutation
<1>3. CASE Commit
  <2>1. CASE Die
    BY <2>1, DieLog
  <2>2. CASE WalZero /\ ~Die
    BY <1>ty, <1>tx, <2>2 DEF WalZero, CommitPc, LogInv, InTx, SteadyPc, AheadPc, AppendPc
  <2>3. CASE WalSync
    BY <1>ty, <2>3 DEF WalSync, LogInv, SteadyPc, AheadPc, AppendPc
  <2>4. CASE Complete
    BY <2>4, IdleTxType DEF Complete, LogInv, InTx, SteadyPc, AheadPc, AppendPc
  <2>5. CASE /\ pc \in SteadyPc /\ InTx /\ pc' \in SteadyPc \ {"wal_open"}
             /\ UNCHANGED <<gen, walLog, held, walIno, walData, walDataD>>
    BY <2>5 DEF LogInv, IsLog, SteadyPc, AheadPc, AppendPc
  <2>. QED
    BY <1>3, <1>tx, <2>1, <2>2, <2>3, <2>4, <2>5
    DEF Commit, PrepareCommit, CommitStart, WalVerify, VectorWrite, VectorSync, VectorPublish,
        VectorPublishExisting, VectorDirSync, JsonWrite, JsonSync, JsonPublish, JsonDirSync,
        CommitPc, SteadyPc, InTx
<1>4. CASE Discard
  BY <1>4, <1>tx, IdleTxType
  DEF Discard, DiscardStart, DiscardRename, DiscardDirSync, DiscardPc, LogInv, InTx, SteadyPc,
      AheadPc, AppendPc
<1>5. CASE Crash
  BY <1>5, DieLog DEF Crash, IoError, Kill, PowerLoss
<1>6. CASE UNCHANGED vars
  BY <1>6 DEF vars, LogInv, InTx, IsLog
<1>. QED BY <1>1, <1>2, <1>3, <1>4, <1>5, <1>6 DEF Next, Server

\* Every step keeps what IdleInv says: replay_wal tells the three kinds of WAL
\* apart, and an idle server is left with an empty WAL or none.
LEMMA IdleStep ==
    ASSUME TypeInv, LogInv, IdleInv, [Next]_vars
    PROVE  IdleInv'
<1> USE DEF At, Goto, diskVars, dirVars, durVars, dataVars, memVars, walVars, stepVars, histVars
<1>ty. /\ walData \in [Inode -> WalFile] /\ walIno \in Inode \union {NoInode}
       /\ NoInode \notin Inode /\ tx \in Transaction
  BY ConstantsAssumption DEF TypeInv, TypeOK, ProcTypeOK, DiskTypeOK
<1>tx. /\ pc \in AppendPc => tx.st = "Active"
       /\ pc \in CommitPc => tx.st = "Prepared"
       /\ pc \in StartupPc => tx = IdleTx
  BY DEF TypeInv, TxInv
<1>0. CASE Die
  BY <1>0, DieLog
<1>1. CASE Startup /\ ~Die
  <2>1. CASE ReplayPending
    <3>1. /\ pc' = "loop" /\ tx'.st = "RecoveryPending" /\ UNCHANGED <<gen, walIno, walData>>
          /\ tx'.ev = [nonce |-> 0, base |-> gen, recs |-> Muts(Wal)]
      BY <2>1 DEF ReplayPending, IdleTx
    <3>. QED BY <3>1 DEF IdleInv, Wal
  <2>2. CASE ReplayNothing
    BY <1>tx, <2>2, IdleTxType DEF ReplayNothing, Wal, StartupPc, IdleInv
  <2>3. CASE ReplayResidue
    BY <2>3 DEF ReplayResidue, IsResidue, Wal, IdleInv
  <2>4. CASE StartupZero
    BY <1>ty, <2>4 DEF StartupZero, IdleInv
  <2>5. CASE StartupZeroSync
    BY <1>tx, <2>5, IdleTxType DEF StartupZeroSync, StartupPc, IdleInv
  <2>6. CASE Spawn \/ ProbeNoreplaceSupport \/ LoadState
    BY <1>1, <2>6 DEF Spawn, ProbeNoreplaceSupport, LoadState, IdleInv
  <2>. QED
    BY <1>1, <2>1, <2>2, <2>3, <2>4, <2>5, <2>6 DEF Startup, ReplayFailClosed
<1>2. CASE Mutate /\ ~Die
  <2>1. pc' \in AppendPc \/ (pc' = "loop" /\ tx'.st = "Active")
    BY <1>ty, <1>tx, <1>2
    DEF Mutate, BatchBegin, RefuseMutation, AdmitMutation, WalOpenHeld, WalCreate, WalWrite,
        WalWritePartial, WalSyncData, WalSyncDir, ApplyMutation, AppendPc, IdleTx, Transaction
  <2>. QED BY <2>1 DEF IdleInv, AppendPc
<1>3. CASE Commit /\ ~Die
  <2>1. CASE Complete
    BY <2>1, IdleTxType DEF Complete, IdleInv, LogInv
  <2>2. CASE ~Complete
    <3>1. pc' \in CommitPc \/ (pc' = "loop" /\ tx'.st = "Prepared")
      BY <1>ty, <1>3, <2>2
      DEF Commit, PrepareCommit, CommitStart, WalVerify, VectorWrite, VectorSync, VectorPublish,
          VectorPublishExisting, VectorDirSync, JsonWrite, JsonSync, JsonPublish, JsonDirSync,
          WalZero, WalSync, CommitPc, Transaction
    <3>. QED BY <3>1 DEF IdleInv, CommitPc
  <2>. QED BY <2>1, <2>2
<1>4. CASE Discard
  BY <1>4, IdleTxType DEF Discard, DiscardStart, DiscardRename, DiscardDirSync, IdleInv
<1>5. CASE Crash
  BY <1>0, <1>5 DEF Crash, IoError, Kill, PowerLoss
<1>6. CASE UNCHANGED vars
  BY <1>6 DEF vars, IdleInv
<1>. QED BY <1>0, <1>1, <1>2, <1>3, <1>4, <1>5, <1>6 DEF Next, Server

\* The WAL invariant holds in every reachable state.
LEMMA WalInvariant == Spec => [](TypeInv /\ GenInv /\ WalInv)
<1>1. Init => WalInv
  BY IdleTxType
  DEF Init, WalInv, DirInv, LogInv, IdleInv, Settled, SteadyPc, AheadPc, AppendPc
<1>2. TypeInv /\ GenInv /\ WalInv /\ [Next]_vars => WalInv'
  BY DirStep, LogStep, IdleStep DEF WalInv
<1>. QED BY <1>1, <1>2, InvariantsHold, PTL DEF Spec

\* health, reads and mutations answered by a serving process agree with the disk:
\* outside a batch it serves the durable generation only, inside one also exactly
\* the records of the durable WAL, whatever crashes and recoveries came before.
THEOREM ServingAgreesWithDisk == Spec => []ServesDurable
<1>1. TypeInv /\ GenInv /\ WalInv => ServesDurable
  <2> SUFFICES ASSUME TypeInv, GenInv, WalInv, pc = "loop"
               PROVE  /\ gen = canonD.gen /\ lastEv = canonD.ev
                      /\ tx.st \in {"Idle", "RecoveryPending"} => content = canonD.content
                      /\ InTx =>
                            /\ content = canonD.content \o walLog
                            /\ walLog # <<>> => /\ walInoD # NoInode
                                               /\ ScanOk(walDataD[walInoD])
                                               /\ Muts(walDataD[walInoD]) = walLog
                                               /\ WalBase(walDataD[walInoD]) = gen
    BY DEF ServesDurable, InTx
  <2>1. gen = canonD.gen /\ lastEv = canonD.ev /\ content = canonD.content \o Log
    BY DEF GenInv, CanonInv, LoadedPc
  <2>2. canonD.content \o <<>> = canonD.content
    BY ConcatEmptySeq DEF TypeInv, TypeOK, DiskTypeOK, Canonical
  <2>3. ASSUME InTx, walLog # <<>>
        PROVE  /\ walInoD # NoInode
               /\ ScanOk(walDataD[walInoD])
               /\ Muts(walDataD[walInoD]) = walLog
               /\ WalBase(walDataD[walInoD]) = gen
    <3>1. walInoD = walIno
      BY DEF WalInv, DirInv, Settled
    <3>2. walIno # NoInode /\ walDataD[walIno] = walData[walIno] /\ IsLog(walData[walIno], walLog)
      BY <2>3 DEF WalInv, LogInv, SteadyPc
    <3>3. walData[walIno] \in WalFile
      BY <3>2 DEF TypeInv, TypeOK, DiskTypeOK
    <3>4. Len(walData[walIno].recs) \in Nat \ {0}
      <4>1. walData[walIno].recs # <<>> /\ walData[walIno].recs \in Seq(Record)
        BY <2>3, <3>2, <3>3, EmptyLog DEF IsLog, WalFile
      <4>. QED BY <4>1, EmptySeq, LenProperties
    <3>. QED BY <3>1, <3>2, <3>4 DEF IsLog, ScanOk, WalBase
  <2>. QED BY <2>1, <2>2, <2>3 DEF Log, InTx
<1>. QED BY <1>1, WalInvariant, PTL

-----------------------------------------------------------------------------
(* Retired records. *)

\* What power loss may leave of a WAL inode has the records of one of its views,
\* or none; when the synced records are a prefix of the written ones, they stay.
LEMMA SurvivorRecords ==
    ASSUME TypeInv, PowerLoss, NEW i \in Inode
    PROVE  /\ walData'[i].recs \in {walData[i].recs, walDataD[i].recs, <<>>}
           /\ IsPrefixOf(walDataD[i].recs, walData[i].recs) =>
                 walData'[i].recs \in {walData[i].recs, walDataD[i].recs}
           /\ walDataD[i] = walData[i] => walData'[i] = walData[i]
           /\ walDataD'[i] = walData'[i]
<1>1. PICK f : /\ \A j \in DirtyInode : f[j] \in WalSurvivors(j)
               /\ walData' = [j \in Inode |-> IF j \in DirtyInode THEN f[j] ELSE walData[j]]
  BY DEF PowerLoss
<1>2. walDataD' = walData'
  BY DEF PowerLoss
<1>3. CASE i \in DirtyInode
  <2>1. walData'[i] \in WalSurvivors(i) /\ walDataD[i] # walData[i]
    BY <1>1, <1>3 DEF DirtyInode
  <2>. QED BY <1>2, <2>1 DEF WalSurvivors
<1>4. CASE i \notin DirtyInode
  BY <1>1, <1>2, <1>4 DEF DirtyInode
<1>. QED BY <1>3, <1>4

\* A step changes the records found under the WAL path only by appending one
\* (wal_append), or by leaving one of the earlier views or an empty file.
LEMMA RecordsStep ==
    ASSUME TypeInv, IdleInv, LogInv, [Next]_vars, NEW i \in {walIno', walInoD'} \ {NoInode},
           NEW f \in {walData'[i], walDataD'[i]}
    PROVE  \/ f.recs = <<>>
           \/ i \in {walIno, walInoD} /\ f.recs \in {walData[i].recs, walDataD[i].recs}
           \/ /\ pc = "wal_write" /\ i = walIno
              /\ \E m \in Mutation : f.recs = Append(walData[i].recs, [base |-> gen, mut |-> m])
<1> USE DEF At, Goto, diskVars, dirVars, durVars, dataVars, memVars, walVars, stepVars, histVars
<1>ty. /\ walData \in [Inode -> WalFile] /\ walDataD \in [Inode -> WalFile]
       /\ walIno \in Inode \union {NoInode} /\ walInoD \in Inode \union {NoInode}
       /\ NoInode \notin Inode
  BY ConstantsAssumption DEF TypeInv, TypeOK, ProcTypeOK, DiskTypeOK
<1>1. CASE UNCHANGED <<walData, walDataD>> /\ {walIno', walInoD'} \subseteq {walIno, walInoD, NoInode}
  BY <1>1
<1>2. CASE Startup
  <2>1. CASE StartupZero
    BY <1>ty, <2>1, EmptyLog DEF StartupZero, IdleInv
  <2>2. CASE StartupZeroSync
    BY <1>ty, <2>2 DEF StartupZeroSync
  <2>. QED
    BY <1>1, <1>2, <2>1, <2>2
    DEF Startup, Spawn, ProbeNoreplaceSupport, SyncParentDir, LoadState, ReplayNothing,
        ReplayResidue, ReplayPending, ReplayFailClosed
<1>3. CASE Mutate
  <2>1. CASE WalCreate /\ walIno = NoInode
    <3>1. /\ walData' = [walData EXCEPT ![walIno'] = EmptyWal]
          /\ walDataD' = [walDataD EXCEPT ![walIno'] = EmptyWal]
          /\ walIno' \in Inode /\ walInoD' = walInoD
      BY <2>1 DEF WalCreate, FreeInode
    <3>. QED BY <1>ty, <3>1, EmptyLog
  <2>2. CASE WalWrite
    <3>1. PICK m \in Mutation :
            /\ walData' = [walData EXCEPT ![walIno].recs = Append(@, [base |-> gen, mut |-> m])]
            /\ pc = "wal_write" /\ UNCHANGED <<walIno, walInoD, walDataD>>
      BY <2>2 DEF WalWrite, TypeInv, TypeOK, ProcTypeOK
    <3>2. walIno \in Inode
      BY <1>ty, <3>1 DEF LogInv
    <3>3. walData'[walIno] = [walData[walIno] EXCEPT !.recs = Append(@, [base |-> gen, mut |-> m])]
      BY <1>ty, <3>1, <3>2
    <3>4. walData'[walIno].recs = Append(walData[walIno].recs, [base |-> gen, mut |-> m])
      BY <1>ty, <3>2, <3>3 DEF WalFile
    <3>. QED BY <1>ty, <3>1, <3>4
  <2>3. CASE WalWritePartial
    <3>1. ASSUME NEW j \in Inode PROVE walData'[j].recs = walData[j].recs
      BY <1>ty, <2>3 DEF WalWritePartial, WalFile
    <3>. QED BY <1>ty, <2>3, <3>1 DEF WalWritePartial
  <2>4. CASE WalSyncData
    BY <1>ty, <2>4 DEF WalSyncData
  <2>. QED
    BY <1>1, <1>3, <2>1, <2>2, <2>3, <2>4
    DEF Mutate, BatchBegin, RefuseMutation, AdmitMutation, WalOpenHeld, WalCreate, WalSyncDir,
        SyncParentDir, ApplyMutation
<1>4. CASE Commit
  <2>1. CASE WalZero
    <3>1. walDataD' = walDataD /\ UNCHANGED <<walIno, walInoD>>
      BY <2>1 DEF WalZero
    <3>2. walData' = walData \/ walData' = [walData EXCEPT ![walIno] = EmptyWal]
      BY <2>1 DEF WalZero
    <3>. QED BY <1>ty, <3>1, <3>2, EmptyLog
  <2>2. CASE WalSync
    BY <1>ty, <2>2 DEF WalSync
  <2>. QED
    BY <1>1, <1>4, <2>1, <2>2
    DEF Commit, PrepareCommit, CommitStart, WalVerify, VectorWrite, VectorSync, VectorPublish,
        VectorPublishExisting, VectorDirSync, SyncParentDir, JsonWrite, JsonSync, JsonPublish,
        JsonDirSync, Complete
<1>5. CASE Discard
  BY <1>1, <1>5 DEF Discard, DiscardStart, DiscardRename, DiscardDirSync, SyncParentDir
<1>6. CASE IoError \/ Kill
  BY <1>1, <1>6 DEF IoError, Kill
<1>7. CASE PowerLoss
  <2>1. {walIno', walInoD'} \subseteq {walIno, walInoD}
    BY <1>7 DEF PowerLoss
  <2>. QED BY <1>ty, <1>7, <2>1, SurvivorRecords
<1>8. CASE UNCHANGED vars
  BY <1>1, <1>8 DEF vars
<1>. QED BY <1>2, <1>3, <1>4, <1>5, <1>6, <1>7, <1>8 DEF Next, Server, Crash

\* Retired records stay retired: new records are on top of the durable generation,
\* and a token is returned only after the emptied WAL has been synced.
LEMMA RetiredStep ==
    ASSUME TypeInv, GenInv, WalInv, RetiredInv, [Next]_vars
    PROVE  RetiredInv'
<1> SUFFICES ASSUME NEW e \in tokens', NEW i \in {walIno', walInoD'} \ {NoInode},
                    NEW f \in {walData'[i], walDataD'[i]}, NEW k \in 1..Len(f.recs)
             PROVE  f.recs[k].base > e.base
  BY DEF RetiredInv
<1>ty. /\ walData \in [Inode -> WalFile] /\ walIno \in Inode \union {NoInode} /\ gen \in Nat
  BY DEF TypeInv, TypeOK, ProcTypeOK, DiskTypeOK
<1>0. f.recs # <<>>
  OBVIOUS
<1>1. CASE tokens' # tokens
  <2>1. pc = "complete" /\ pc' = "loop" /\ Complete
    <3>1. pc = "complete" /\ pc' = "loop"
      BY <1>1, TokenStep
    <3>. QED
      BY <3>1 DEF Next, Server, Startup, Mutate, Commit, Discard, Crash, vars, Spawn, At, Goto, Die,
         ProbeNoreplaceSupport, LoadState, ReplayNothing, ReplayResidue, ReplayPending,
         ReplayFailClosed, StartupZero, StartupZeroSync, BatchBegin, RefuseMutation, AdmitMutation,
         WalOpenHeld, WalCreate, WalWrite, WalWritePartial, WalSyncData, WalSyncDir, ApplyMutation,
         PrepareCommit, CommitStart, WalVerify, VectorWrite, VectorSync, VectorPublish,
         VectorPublishExisting, VectorDirSync, JsonWrite, JsonSync, JsonPublish, JsonDirSync,
         WalZero, WalSync, DiscardStart, DiscardRename, DiscardDirSync, IoError, Kill, PowerLoss
  <2>2. walInoD = walIno /\ walData[walIno] = EmptyWal /\ walDataD[walIno] = EmptyWal
    BY <2>1 DEF WalInv, DirInv, Settled, LogInv
  <2>3. UNCHANGED <<walIno, walInoD, walData, walDataD>>
    BY <2>1 DEF Complete, diskVars, dirVars, durVars, dataVars
  <2>. QED BY <1>0, <2>2, <2>3, EmptyLog
<1>2. CASE tokens' = tokens
  <2>1. CASE i \in {walIno, walInoD} /\ f.recs \in {walData[i].recs, walDataD[i].recs}
    BY <1>2, <2>1 DEF RetiredInv
  <2>2. ASSUME pc = "wal_write", i = walIno, NEW m \in Mutation,
               f.recs = Append(walData[i].recs, [base |-> gen, mut |-> m])
        PROVE  f.recs[k].base > e.base
    <3>1. e.base < gen /\ i \in Inode
      BY <1>ty, <1>2, <2>2 DEF GenInv, TokenInv, CanonInv, LoadedPc, AppendPc
    <3>2. walData[i].recs \in Seq(Record) /\ [base |-> gen, mut |-> m] \in Record
      BY <1>ty, <3>1 DEF WalFile, Record
    <3>3. CASE k \in 1..Len(walData[i].recs)
      <4>1. f.recs[k] = walData[i].recs[k]
        BY <2>2, <3>2, <3>3, AppendProperties
      <4>. QED BY <1>2, <2>2, <3>3, <4>1 DEF RetiredInv
    <3>4. CASE k \notin 1..Len(walData[i].recs)
      <4>1. Len(f.recs) = Len(walData[i].recs) + 1 /\ Len(walData[i].recs) \in Nat
        BY <2>2, <3>2, AppendProperties, LenProperties
      <4>2. k = Len(walData[i].recs) + 1
        BY <3>4, <4>1
      <4>3. f.recs[k] = [base |-> gen, mut |-> m]
        BY <2>2, <3>2, <4>2, AppendProperties
      <4>. QED BY <3>1, <4>3 DEF TypeInv, TypeOK, HistTypeOK, Evidence
    <3>. QED BY <3>3, <3>4
  <2>. QED BY <1>0, <2>1, <2>2, RecordsStep DEF WalInv
<1>. QED BY <1>1, <1>2

\* A token returned by batch_commit means a durable generation and a durable WAL
\* without any record that replay_wal could take for a transaction it covers.
THEOREM TokensAreDurable == Spec => []TokenDurable
<1>1. Init => RetiredInv
  BY DEF Init, RetiredInv
<1>2. TypeInv /\ GenInv /\ RetiredInv => TokenDurable
  <2> SUFFICES ASSUME TypeInv, GenInv, RetiredInv, NEW e \in tokens
               PROVE  /\ canonD.gen > e.base
                      /\ walInoD # NoInode =>
                            \A k \in 1..Len(walDataD[walInoD].recs) :
                               walDataD[walInoD].recs[k].base > e.base
    BY DEF TokenDurable
  <2>1. canonD.gen \in Nat /\ e.base \in Nat /\ e.base < canonD.gen
    BY DEF TypeInv, TypeOK, DiskTypeOK, HistTypeOK, Canonical, Evidence, GenInv, TokenInv
  <2>. QED BY <2>1 DEF RetiredInv
<1>. QED BY <1>1, <1>2, RetiredStep, WalInvariant, PTL DEF Spec

-----------------------------------------------------------------------------
(* Acknowledged mutations. *)

\* A prefix, element by element.
LEMMA PrefixPointwise ==
    ASSUME NEW S, NEW s \in Seq(S), NEW t \in Seq(S)
    PROVE  IsPrefixOf(s, t) <=> Len(s) <= Len(t) /\ \A k \in 1..Len(s) : s[k] = t[k]
<1>1. Len(s) \in Nat /\ Len(t) \in Nat
  BY LenProperties
<1>2. ASSUME Len(s) <= Len(t)
      PROVE  /\ SubSeq(t, 1, Len(s)) \in Seq(S) /\ Len(SubSeq(t, 1, Len(s))) = Len(s)
             /\ \A k \in 1..Len(s) : SubSeq(t, 1, Len(s))[k] = t[k]
  BY <1>1, <1>2
<1>3. ASSUME Len(s) <= Len(t), \A k \in 1..Len(s) : s[k] = t[k]
      PROVE  s = SubSeq(t, 1, Len(s))
  BY <1>2, <1>3, SeqEqual
<1>. QED BY <1>2, <1>3 DEF IsPrefixOf

\* A prefix of a prefix.
LEMMA PrefixTransitive ==
    ASSUME NEW S, NEW s \in Seq(S), NEW t \in Seq(S), NEW u \in Seq(S),
           IsPrefixOf(s, t), IsPrefixOf(t, u)
    PROVE  IsPrefixOf(s, u)
<1>1. Len(s) \in Nat /\ Len(t) \in Nat /\ Len(u) \in Nat
  BY LenProperties
<1>2. /\ Len(s) <= Len(t) /\ \A k \in 1..Len(s) : s[k] = t[k]
      /\ Len(t) <= Len(u) /\ \A k \in 1..Len(t) : t[k] = u[k]
  BY PrefixPointwise
<1>3. Len(s) <= Len(u) /\ \A k \in 1..Len(s) : s[k] = u[k]
  BY <1>1, <1>2
<1>. QED BY <1>3, PrefixPointwise

\* What holds every acknowledged mutation in its synced part also does as written.
LEMMA KeptWritten ==
    ASSUME acks \in Seq(Mutation), acks # <<>>, NEW f \in WalFile, NEW g \in WalFile,
           IsPrefixOf(acks, Muts(f)), IsPrefixOf(f.recs, g.recs), WalBase(f) = ackBase
    PROVE  /\ g.recs # <<>> /\ WalBase(g) = ackBase
           /\ IsPrefixOf(acks, Muts(g)) /\ IsPrefixOf(g.recs, g.recs)
           /\ IsPrefixOf(f.recs, f.recs)
<1>1. /\ f.recs \in Seq(Record) /\ g.recs \in Seq(Record)
      /\ Muts(f) \in Seq(Mutation) /\ Muts(g) \in Seq(Mutation)
      /\ Len(Muts(f)) = Len(f.recs) /\ Len(Muts(g)) = Len(g.recs)
  BY MutsType DEF WalFile, Muts
<1>2. Len(acks) \in Nat \ {0} /\ Len(f.recs) \in Nat /\ Len(g.recs) \in Nat
  BY <1>1, LenProperties, EmptySeq
<1>3. /\ Len(acks) <= Len(f.recs) /\ \A k \in 1..Len(acks) : acks[k] = Muts(f)[k]
      /\ Len(f.recs) <= Len(g.recs) /\ \A k \in 1..Len(f.recs) : f.recs[k] = g.recs[k]
  BY <1>1, PrefixPointwise
<1>4. \A k \in 1..Len(acks) : acks[k] = Muts(g)[k]
  <2>1. ASSUME NEW k \in 1..Len(acks) PROVE acks[k] = Muts(g)[k]
    <3>1. k \in 1..Len(f.recs) /\ k \in 1..Len(g.recs)
      BY <1>2, <1>3
    <3>2. Muts(f)[k] = f.recs[k].mut /\ Muts(g)[k] = g.recs[k].mut
      BY <3>1 DEF Muts
    <3>. QED BY <1>3, <3>1, <3>2
  <2>. QED BY <2>1
<1>5. IsPrefixOf(acks, Muts(g)) /\ IsPrefixOf(g.recs, g.recs) /\ IsPrefixOf(f.recs, f.recs)
  BY <1>1, <1>2, <1>3, <1>4, PrefixPointwise
<1>6. 1 \in 1..Len(f.recs)
  BY <1>2, <1>3
<1>7. g.recs # <<>>
  BY <1>1, <1>2, <1>3, EmptySeq
<1>. QED BY <1>3, <1>5, <1>6, <1>7 DEF WalBase

\* The durable generation never goes back.
LEMMA DurableGrows ==
    ASSUME TypeInv, GenInv, [Next]_vars
    PROVE  canonD.gen \in Nat /\ canonD'.gen \in Nat /\ canonD'.gen >= canonD.gen
<1>1. canonD \in Canonical /\ (canonD' = canonD \/ canonD' = canon)
  BY DurableStep DEF TypeInv, TypeOK, DiskTypeOK
<1>. QED BY <1>1, CanonTwoViews DEF IsSuccessor, Canonical

\* The inode that keeps the acknowledged mutations stays in both views of the
\* directory: creating and quarantining a WAL drop no other one.
LEMMA KeeperNamed ==
    ASSUME TypeInv, WalInv, [Next]_vars, NEW i \in Inode,
           walIno = i \/ i \in quar, walInoD = i \/ i \in quarD
    PROVE  (walIno' = i \/ i \in quar') /\ (walInoD' = i \/ i \in quarD')
<1> USE DEF At, Goto, diskVars, dirVars, durVars, dataVars, memVars, walVars, stepVars, histVars
<1>0. NoInode \notin Inode
  BY ConstantsAssumption
<1>1. CASE /\ UNCHANGED <<walIno, quar>>
           /\ <<walInoD', quarD'>> \in {<<walInoD, quarD>>, <<walIno, quar>>}
  BY <1>1
<1>2. CASE WalCreate
  BY <1>0, <1>2 DEF WalCreate
<1>3. CASE DiscardRename
  BY <1>3 DEF DiscardRename
<1>4. CASE PowerLoss
  BY <1>4 DEF PowerLoss
<1>5. CASE Startup
  BY <1>1, <1>5
  DEF Startup, Spawn, ProbeNoreplaceSupport, SyncParentDir, LoadState, ReplayNothing,
      ReplayResidue, ReplayPending, ReplayFailClosed, StartupZero, StartupZeroSync
<1>6. CASE Mutate
  BY <1>1, <1>2, <1>6
  DEF Mutate, BatchBegin, RefuseMutation, AdmitMutation, WalOpenHeld, WalWrite,
      WalWritePartial, WalSyncData, WalSyncDir, SyncParentDir, ApplyMutation
<1>7. CASE Commit
  BY <1>1, <1>7
  DEF Commit, PrepareCommit, CommitStart, WalVerify, VectorWrite, VectorSync, VectorPublish,
      VectorPublishExisting, VectorDirSync, SyncParentDir, JsonWrite, JsonSync, JsonPublish,
      JsonDirSync, WalZero, WalSync, Complete
<1>8. CASE DiscardStart(tx.base, tx.ev.recs) \/ DiscardDirSync \/ IoError \/ Kill
  BY <1>1, <1>8 DEF DiscardStart, DiscardDirSync, SyncParentDir, IoError, Kill
<1>9. CASE UNCHANGED vars
  BY <1>1, <1>9 DEF vars
<1>. QED BY <1>3, <1>4, <1>5, <1>6, <1>7, <1>8, <1>9 DEF Next, Server, Discard, Crash

\* Its content survives too, until the transaction is published: a WAL is emptied
\* only when its records are of an older generation than the durable one.
LEMMA KeepsStep ==
    ASSUME TypeInv, GenInv, WalInv, AckInv, [Next]_vars, NEW i \in Inode, Keeps(i), acks # <<>>,
           UNCHANGED <<acks, ackBase>>
    PROVE  Keeps(i)' \/ canonD'.gen > ackBase
<1> USE DEF At, Goto, diskVars, dirVars, durVars, dataVars, memVars, walVars, stepVars, histVars
<1> DEFINE Kept(f, g) == /\ IsPrefixOf(acks, Muts(f)) /\ IsPrefixOf(f.recs, g.recs)
                         /\ WalBase(f) = ackBase
<1>ty. /\ walData \in [Inode -> WalFile] /\ walDataD \in [Inode -> WalFile]
       /\ walIno \in Inode \union {NoInode} /\ NoInode \notin Inode /\ acks \in Seq(Mutation)
       /\ gen \in Nat /\ ackBase \in Nat /\ walLog \in Seq(Mutation)
  BY ConstantsAssumption DEF TypeInv, TypeOK, ProcTypeOK, DiskTypeOK, HistTypeOK
<1>k. Kept(walDataD[i], walData[i]) /\ walDataD[i] \in WalFile /\ walData[i] \in WalFile
  BY <1>ty DEF Keeps
<1>w. /\ walData[i].recs # <<>> /\ WalBase(walData[i]) = ackBase
      /\ Kept(walData[i], walData[i]) /\ Kept(walDataD[i], walDataD[i])
  BY <1>ty, <1>k, KeptWritten
<1>n. (walIno' = i \/ i \in quar') /\ (walInoD' = i \/ i \in quarD')
  BY KeeperNamed DEF Keeps
<1>s. SUFFICES ASSUME ~(canonD'.gen > ackBase) PROVE Kept(walDataD'[i], walData'[i])
  BY <1>n DEF Keeps
<1>g. ~(canonD.gen > ackBase)
  BY <1>ty, <1>s, DurableGrows
<1>c. pc \notin {"startup_zero_sync", "wal_zero", "wal_sync"} \/ i # walIno
  <2>1. CASE pc = "startup_zero_sync" /\ i = walIno
    BY <1>w, <2>1, EmptyLog DEF WalInv, IdleInv
  <2>2. CASE pc \in {"wal_zero", "wal_sync"}
    <3>1. canonD.gen = gen + 1 /\ InTx
      BY <2>2 DEF TypeInv, TxInv, GenInv, CanonInv, PublishedPc, CommitPc, InTx
    <3>. QED BY <1>ty, <1>g, <3>1 DEF AckInv
  <2>. QED BY <2>1, <2>2
<1>z. pc # "startup_zero" \/ i # walIno
  <2>1. CASE pc = "startup_zero" /\ i = walIno
    <3>1. ackBase < gen /\ gen = canonD.gen
      BY <1>w, <2>1 DEF WalInv, IdleInv, GenInv, CanonInv, LoadedPc
    <3>. QED BY <1>ty, <1>g, <3>1
  <2>. QED BY <2>1
<1>0. CASE walData'[i] = walData[i] /\ walDataD'[i] = walDataD[i]
  BY <1>0, <1>k
<1>1. CASE Startup
  BY <1>0, <1>1, <1>c, <1>z, <1>ty
  DEF Startup, Spawn, ProbeNoreplaceSupport, LoadState, ReplayNothing, ReplayResidue,
      ReplayPending, ReplayFailClosed, StartupZero, StartupZeroSync
<1>2. CASE Mutate
  <2>1. CASE WalCreate
    BY <1>0, <1>ty, <2>1 DEF WalCreate, FreeInode, Keeps
  <2>2. CASE WalWrite
    <3>1. PICK m \in Mutation :
            /\ walData' = [walData EXCEPT ![walIno].recs = Append(@, [base |-> gen, mut |-> m])]
            /\ pc = "wal_write" /\ UNCHANGED walDataD
      BY <2>2 DEF WalWrite, TypeInv, TypeOK, ProcTypeOK
    <3>2. CASE i = walIno
      <4>1. walData'[i] = [walData[i] EXCEPT !.recs = Append(@, [base |-> gen, mut |-> m])]
        BY <1>ty, <3>1, <3>2
      <4>2. IsPrefixOf(walData[i].recs, walData'[i].recs)
        BY <1>ty, <1>k, <3>1, <3>2, <4>1, AppendLog DEF WalInv, LogInv
      <4>3. walDataD[i].recs \in Seq(Record) /\ walData[i].recs \in Seq(Record)
            /\ walData'[i].recs \in Seq(Record)
        <5>1. walData'[i] \in WalFile
          BY <1>ty, <1>k, <4>1, AppendType
        <5>. QED BY <1>k, <5>1 DEF WalFile
      <4>4. IsPrefixOf(walDataD[i].recs, walData'[i].recs)
        <5>1. IsPrefixOf(walDataD[i].recs, walData[i].recs)
          BY <1>k
        <5>. QED BY <4>2, <4>3, <5>1, PrefixTransitive
      <4>. QED BY <1>k, <3>1, <4>4
    <3>3. CASE i # walIno
      BY <1>0, <1>ty, <3>1, <3>3
    <3>. QED BY <3>2, <3>3
  <2>3. CASE WalWritePartial
    <3>1. walData'[i].recs = walData[i].recs /\ UNCHANGED walDataD
      BY <1>ty, <2>3 DEF WalWritePartial, WalFile
    <3>. QED BY <1>k, <3>1
  <2>4. CASE WalSyncData
    BY <1>0, <1>ty, <1>w, <2>4 DEF WalSyncData
  <2>. QED
    BY <1>0, <1>2, <2>1, <2>2, <2>3, <2>4
    DEF Mutate, BatchBegin, RefuseMutation, AdmitMutation, WalOpenHeld, WalSyncDir, ApplyMutation
<1>3. CASE Commit
  BY <1>0, <1>3, <1>c, <1>ty
  DEF Commit, PrepareCommit, CommitStart, WalVerify, VectorWrite, VectorSync, VectorPublish,
      VectorPublishExisting, VectorDirSync, JsonWrite, JsonSync, JsonPublish, JsonDirSync,
      WalZero, WalSync, Complete
<1>4. CASE Discard \/ IoError \/ Kill
  BY <1>0, <1>4 DEF Discard, DiscardStart, DiscardRename, DiscardDirSync, IoError, Kill
<1>5. CASE PowerLoss
  <2>1. walDataD'[i] = walData'[i] /\ walData'[i].recs \in {walData[i].recs, walDataD[i].recs}
    BY <1>k, <1>5, SurvivorRecords
  <2>. QED BY <1>w, <2>1 DEF Muts, WalBase
<1>6. CASE UNCHANGED vars
  BY <1>0, <1>6 DEF vars
<1>. QED BY <1>1, <1>2, <1>3, <1>4, <1>5, <1>6 DEF Next, Server, Crash

\* Every step keeps the acknowledged mutations: apply acknowledges what is already
\* in the durable WAL, and nothing else adds to them.
LEMMA AckStep ==
    ASSUME TypeInv, GenInv, WalInv, AckInv, [Next]_vars
    PROVE  AckInv'
<1> USE DEF At, Goto, diskVars, dirVars, durVars, dataVars, memVars, walVars, stepVars, histVars
<1>ty. /\ walDataD \in [Inode -> WalFile] /\ walIno \in Inode \union {NoInode}
       /\ gen \in Nat /\ ackBase \in Nat /\ tx \in Transaction /\ walLog \in Seq(Mutation)
  BY DEF TypeInv, TypeOK, ProcTypeOK, DiskTypeOK, HistTypeOK
<1>tx. /\ pc \in AppendPc => tx.st = "Active"
       /\ pc \in StartupPc => tx.st = "Idle"
       /\ pc \in DiscardPc => tx.st = "RecoveryPending"
  BY IdleTxType DEF TypeInv, TxInv
<1>1. InTx' => acks' = walLog' /\ ackBase' = gen'
  <2>1. CASE tx' = IdleTx
    BY <2>1, IdleTxType DEF InTx
  <2>2. CASE InTx' = InTx /\ UNCHANGED <<acks, ackBase, walLog, gen>>
    BY <2>2 DEF AckInv
  <2>3. CASE Startup
    <3>1. CASE ReplayPending
      BY <3>1 DEF ReplayPending, InTx, IdleTx
    <3>2. CASE UNCHANGED tx
      BY <1>tx, <2>3, <3>2, IdleTxType
      DEF Startup, Spawn, ProbeNoreplaceSupport, LoadState, ReplayNothing, ReplayResidue,
          ReplayPending, ReplayFailClosed, StartupZero, StartupZeroSync, InTx, StartupPc, TypeInv,
          TxInv
    <3>. QED
      BY <2>1, <2>3, <3>1, <3>2
      DEF Startup, Spawn, ProbeNoreplaceSupport, LoadState, ReplayNothing, ReplayResidue,
          ReplayFailClosed, StartupZero, StartupZeroSync, Die
  <2>4. CASE Mutate
    <3>1. CASE BatchBegin
      BY <2>1, <3>1 DEF BatchBegin, Die, IdleWalClean
    <3>2. CASE ApplyMutation
      BY <1>tx, <3>2 DEF ApplyMutation, AckInv, InTx, AppendPc
    <3>. QED
      BY <2>1, <2>2, <2>4, <3>1, <3>2
      DEF Mutate, RefuseMutation, AdmitMutation, WalOpenHeld, WalCreate, WalWrite,
          WalWritePartial, WalSyncData, WalSyncDir, Die, InTx
  <2>5. CASE Commit
    <3>1. CASE PrepareCommit /\ ~Die
      BY <1>ty, <3>1 DEF PrepareCommit, AckInv, InTx, Transaction
    <3>. QED
      BY <2>1, <2>2, <2>5, <3>1
      DEF Commit, PrepareCommit, CommitStart, WalVerify, VectorWrite, VectorSync, VectorPublish,
          VectorPublishExisting, VectorDirSync, JsonWrite, JsonSync, JsonPublish, JsonDirSync,
          WalZero, WalSync, Complete, Die, InTx
  <2>6. CASE Discard
    BY <2>1, <2>2, <2>6 DEF Discard, DiscardStart, DiscardRename, DiscardDirSync, InTx
  <2>7. CASE Crash
    BY <2>1, <2>7 DEF Crash, IoError, Kill, PowerLoss, Die
  <2>8. CASE UNCHANGED vars
    BY <2>2, <2>8 DEF vars, InTx
  <2>. QED BY <2>3, <2>4, <2>5, <2>6, <2>7, <2>8 DEF Next, Server
<1>2. CASE ApplyMutation
  <2>1. PICK m \in Mutation : req = {m} /\ acks' = Append(acks, m)
    BY <1>2 DEF ApplyMutation, WalInv, LogInv, AppendPc
  <2>2. /\ pc = "apply"
        /\ UNCHANGED <<canonD, gen, ackBase, walIno, walInoD, walData, walDataD, quar, quarD>>
    BY <1>2 DEF ApplyMutation
  <2>3. /\ walIno \in Inode /\ walInoD = walIno /\ walDataD[walIno] = walData[walIno]
        /\ IsLog(walData[walIno], Append(walLog, m))
    BY <1>ty, <2>1, <2>2 DEF WalInv, DirInv, Settled, LogInv, AheadPc
  <2>4. acks = walLog /\ ackBase = gen
    BY <1>tx, <2>2 DEF AckInv, InTx, AppendPc
  <2>5. walData[walIno] \in WalFile
    BY <1>ty, <2>3
  <2>6. /\ acks' \in Seq(Mutation) /\ acks' # <<>> /\ Muts(walData[walIno]) = acks'
        /\ walData[walIno].recs \in Seq(Record)
    BY <1>ty, <2>1, <2>3, <2>4, <2>5, AppendProperties DEF IsLog, WalFile
  <2>7. IsPrefixOf(acks', Muts(walData[walIno])) /\ IsPrefixOf(walData[walIno].recs, walData[walIno].recs)
    BY <2>6, PrefixPointwise, LenProperties
  <2>8. WalBase(walData[walIno]) = ackBase
    <3>1. walData[walIno].recs # <<>>
      BY <2>5, <2>6, EmptyLog
    <3>2. Len(walData[walIno].recs) \in Nat \ {0}
      BY <2>6, <3>1, EmptySeq, LenProperties
    <3>. QED BY <2>3, <2>4, <3>2 DEF IsLog, WalBase
  <2>9. Keeps(walIno)'
    BY <2>2, <2>3, <2>7, <2>8 DEF Keeps
  <2>. QED BY <1>1, <2>2, <2>3, <2>9 DEF AckInv
<1>3. CASE acks' = <<>>
  BY <1>1, <1>3 DEF AckInv
<1>4. CASE UNCHANGED <<acks, ackBase>>
  <2>1. canonD.gen \in Nat /\ canonD'.gen \in Nat /\ canonD'.gen >= canonD.gen
    BY DurableGrows
  <2>2. CASE canonD.gen > ackBase
    BY <1>1, <1>4, <1>ty, <2>1, <2>2 DEF AckInv
  <2>3. ASSUME NEW i \in Inode, Keeps(i), acks # <<>> PROVE AckInv'
    BY <1>1, <1>4, <2>3, KeepsStep DEF AckInv
  <2>. QED BY <1>1, <1>3, <1>4, <2>2, <2>3 DEF AckInv
<1>. QED
  BY <1>2, <1>3, <1>4
  DEF Next, Server, Startup, Mutate, Commit, Discard, Crash, vars, Spawn,
      ProbeNoreplaceSupport, LoadState, ReplayNothing, ReplayResidue, ReplayPending,
      ReplayFailClosed, StartupZero, StartupZeroSync, BatchBegin, RefuseMutation, AdmitMutation,
      WalOpenHeld, WalCreate, WalWrite, WalWritePartial, WalSyncData, WalSyncDir,
      PrepareCommit, CommitStart, WalVerify, VectorWrite, VectorSync, VectorPublish,
      VectorPublishExisting, VectorDirSync, JsonWrite, JsonSync, JsonPublish, JsonDirSync,
      WalZero, WalSync, Complete, DiscardStart, DiscardRename, DiscardDirSync, IoError, Kill,
      PowerLoss

\* A mutation the sidecar has answered is never lost: through every crash, replay
\* and discard it is in the published generation, in the durable WAL, or in a
\* durably quarantined one.
THEOREM AcknowledgedSurvive == Spec => []AckedSurvives
<1>1. Init => AckInv
  BY IdleTxType DEF Init, AckInv, InTx
<1>2. AckInv => AckedSurvives
  BY ConstantsAssumption DEF AckInv, AckedSurvives, Keeps
<1>. QED BY <1>1, <1>2, AckStep, WalInvariant, PTL DEF Spec

-----------------------------------------------------------------------------
(* The outcome of a prepared transaction. *)

\* Prepared evidence and the nonce change only in batch_begin and batch_prepare_commit.
LEMMA PreparedStep ==
    ASSUME [Next]_vars
    PROVE  \/ UNCHANGED <<prepared, nonce>>
           \/ BatchBegin /\ IdleWalClean
           \/ PrepareCommit /\ ~Die
<1>1. PrepareCommit => UNCHANGED nonce /\ (Die => UNCHANGED prepared)
  BY DEF PrepareCommit, Die, At
<1>. QED
  BY <1>1
  DEF Next, Server, Startup, Mutate, Commit, Discard, Crash, vars, histVars, Spawn,
   ProbeNoreplaceSupport, LoadState, ReplayNothing, ReplayResidue, ReplayPending,
   ReplayFailClosed, StartupZero, StartupZeroSync, BatchBegin, RefuseMutation, AdmitMutation,
   WalOpenHeld, WalCreate, WalWrite, WalWritePartial, WalSyncData, WalSyncDir, ApplyMutation,
   CommitStart, WalVerify, VectorWrite, VectorSync, VectorPublish,
   VectorPublishExisting, VectorDirSync, JsonWrite, JsonSync, JsonPublish, JsonDirSync,
   WalZero, WalSync, Complete, DiscardStart, DiscardRename, DiscardDirSync, IoError, Kill,
   PowerLoss

\* What batch_prepare_commit hands out, when it does not refuse.
LEMMA PrepareEffect ==
    ASSUME TypeInv, GenInv, PrepareCommit, ~Die
    PROVE  /\ pc = "loop" /\ pc' = "loop" /\ tx.st = "Active" /\ tx'.st = "Prepared"
           /\ tx'.ev = [nonce |-> tx.nonce, base |-> gen, recs |-> walLog] /\ walLog # <<>>
           /\ prepared' = prepared \union {tx'.ev} /\ tx'.nonce = tx.nonce
           /\ UNCHANGED <<nonce, canon, canonD, gen, walIno, walInoD, quar, quarD, walData, walDataD>>
<1>1. tx \in Transaction
  BY DEF TypeInv, TypeOK, ProcTypeOK
<1>. QED
  BY <1>1 DEF PrepareCommit, At, Transaction, diskVars, dirVars, durVars, dataVars, memVars

\* The two views of the canonical file after a step.
LEMMA CanonStep ==
    ASSUME TypeInv, GenInv, [Next]_vars
    PROVE  \/ UNCHANGED <<canon, canonD>>
           \/ canon' = canon /\ canonD' = canon
           \/ canon' = canonD /\ canonD' = canonD
           \/ /\ pc = "json_publish" /\ canonD' = canonD /\ canon'.ev = tx.ev
              /\ canon'.gen = gen + 1 /\ UNCHANGED <<prepared, nonce>>
<1> USE DEF At, Goto, Die, diskVars, dirVars, durVars, dataVars, memVars, walVars, stepVars, histVars
<1>0. canon.data = "synced" /\ canonD.data = "synced"
  BY DEF GenInv, BlobInv, CrashLoadable
<1>1. CASE Startup
  BY <1>1
  DEF Startup, Spawn, ProbeNoreplaceSupport, SyncParentDir, LoadState, ReplayNothing,
      ReplayResidue, ReplayPending, ReplayFailClosed, StartupZero, StartupZeroSync
<1>2. CASE Mutate
  BY <1>2
  DEF Mutate, BatchBegin, RefuseMutation, AdmitMutation, WalOpenHeld, WalCreate, WalWrite,
      WalWritePartial, WalSyncData, WalSyncDir, SyncParentDir, ApplyMutation
<1>3. CASE Commit
  BY <1>3
  DEF Commit, PrepareCommit, CommitStart, WalVerify, VectorWrite, VectorSync, VectorPublish,
      VectorPublishExisting, VectorDirSync, SyncParentDir, JsonWrite, JsonSync, JsonPublish,
      NextCanonical, JsonDirSync, WalZero, WalSync, Complete
<1>4. CASE Discard
  BY <1>4 DEF Discard, DiscardStart, DiscardRename, DiscardDirSync, SyncParentDir
<1>5. CASE IoError \/ Kill
  BY <1>5 DEF IoError, Kill
<1>6. CASE PowerLoss
  BY <1>0, <1>6 DEF PowerLoss
<1>7. CASE UNCHANGED vars
  BY <1>7 DEF vars
<1>. QED BY <1>1, <1>2, <1>3, <1>4, <1>5, <1>6, <1>7 DEF Next, Server, Crash

\* How a step moves the transaction state.
LEMMA TxStep ==
    ASSUME TypeInv, [Next]_vars
    PROVE  \/ ~InTx'
           \/ tx'.st = tx.st /\ tx'.nonce = tx.nonce /\ tx'.ev = tx.ev
           \/ BatchBegin /\ IdleWalClean
           \/ PrepareCommit /\ ~Die
<1> USE DEF At, Goto, diskVars, dirVars, durVars, dataVars, memVars, walVars, stepVars, histVars
<1>0. CASE tx' = IdleTx
  BY <1>0, IdleTxType DEF InTx
<1>1. CASE UNCHANGED tx
  BY <1>1
<1>2. CASE ReplayPending
  BY <1>2 DEF ReplayPending, InTx, IdleTx
<1>3. CASE ApplyMutation
  BY <1>3 DEF ApplyMutation, TypeInv, TypeOK, ProcTypeOK, Transaction
<1>. QED
  BY <1>0, <1>1, <1>2, <1>3
  DEF Next, Server, Startup, Mutate, Commit, Discard, Crash, vars, Die, Spawn,
      ProbeNoreplaceSupport, LoadState, ReplayNothing, ReplayResidue,
      ReplayFailClosed, StartupZero, StartupZeroSync, BatchBegin, RefuseMutation, AdmitMutation,
      WalOpenHeld, WalCreate, WalWrite, WalWritePartial, WalSyncData, WalSyncDir,
      PrepareCommit, CommitStart, WalVerify, VectorWrite, VectorSync, VectorPublish,
      VectorPublishExisting, VectorDirSync, JsonWrite, JsonSync, JsonPublish, JsonDirSync,
      WalZero, WalSync, Complete, DiscardStart, DiscardRename, DiscardDirSync, IoError, Kill,
      PowerLoss

\* Every step keeps the order of the nonces and the generations of the evidence.
LEMMA NonceStep ==
    ASSUME TypeInv, GenInv, NonceInv, [Next]_vars
    PROVE  NonceInv'
<1>ty. nonce \in Nat /\ prepared \subseteq Evidence /\ \A e \in prepared : e.nonce \in Nat
  BY DEF TypeInv, TypeOK, HistTypeOK, Evidence
<1>1. (\A c \in {canon, canonD} : c.ev # NoEvidence => c.gen = c.ev.base + 1)'
  <2>1. pc = "json_publish" => tx.ev.base = gen
    BY DEF TypeInv, TxInv, CommitPc, GenInv, PreparedInv
  <2>. QED BY <2>1, CanonStep DEF NonceInv
<1>2. CASE BatchBegin /\ IdleWalClean
  <2>1. /\ nonce' = nonce + 1 /\ prepared' = prepared /\ tx'.st = "Active"
        /\ tx'.nonce = nonce + 1
    BY <1>2 DEF BatchBegin, IdleTx
  <2>2. \A e \in prepared : e.nonce <= nonce + 1 /\ e.nonce # nonce + 1
    BY <1>ty DEF NonceInv
  <2>. QED BY <1>1, <2>1, <2>2 DEF NonceInv, InTx
<1>3. CASE PrepareCommit /\ ~Die
  <2>1. /\ nonce' = nonce /\ prepared' = prepared \union {tx'.ev} /\ tx'.st = "Prepared"
        /\ tx'.nonce = tx.nonce /\ tx'.ev.nonce = tx.nonce /\ tx.st = "Active"
    BY <1>3, PrepareEffect
  <2>2. tx.nonce = nonce /\ \A e \in prepared : e.nonce <= nonce /\ e.nonce # nonce
    BY <2>1 DEF NonceInv, InTx
  <2>. QED BY <1>1, <1>ty, <2>1, <2>2 DEF NonceInv, InTx
<1>4. CASE ~(BatchBegin /\ IdleWalClean) /\ ~(PrepareCommit /\ ~Die)
  <2>1. UNCHANGED <<prepared, nonce>>
    BY <1>4, PreparedStep
  <2>2. ~InTx' \/ (tx'.st = tx.st /\ tx'.nonce = tx.nonce /\ tx'.ev = tx.ev)
    BY <1>4, TxStep
  <2>. QED BY <1>1, <2>1, <2>2 DEF NonceInv, InTx
<1>. QED BY <1>2, <1>3, <1>4

\* The one WAL that holds an undecided transaction is neither written nor emptied,
\* and stays under the WAL path or a quarantine name.
LEMMA HoldsStep ==
    ASSUME TypeInv, GenInv, WalInv, NonceInv, [Next]_vars, NEW e \in prepared, e.nonce = nonce,
           canonD.gen = e.base, NEW i \in Inode, Holds(i, e)
    PROVE  Holds(i, e)'
<1> USE DEF At, Goto, diskVars, dirVars, durVars, dataVars, memVars, walVars, stepVars, histVars
<1>ty. /\ walData \in [Inode -> WalFile] /\ walDataD \in [Inode -> WalFile] /\ gen \in Nat
       /\ e.base \in Nat /\ NoInode \notin Inode
  BY ConstantsAssumption DEF TypeInv, TypeOK, DiskTypeOK, ProcTypeOK, HistTypeOK, Evidence
<1>a. pc \notin AppendPc
  BY DEF TypeInv, TxInv, NonceInv
<1>d. /\ pc = "startup_zero" => walIno # i /\ walIno # NoInode
      /\ pc = "startup_zero_sync" => walIno # i /\ walIno # NoInode
      /\ pc \notin {"wal_zero", "wal_sync"}
  <2>1. pc = "startup_zero" => walIno # i /\ walIno # NoInode
    BY <1>ty DEF WalInv, IdleInv, Holds, GenInv, CanonInv, LoadedPc
  <2>2. pc = "startup_zero_sync" => walIno # i /\ walIno # NoInode
    BY EmptyLog DEF WalInv, IdleInv, Holds
  <2>3. ASSUME pc \in {"wal_zero", "wal_sync"} PROVE FALSE
    <3>1. tx.st = "Prepared" /\ canonD.gen = gen + 1
      BY <2>3 DEF TypeInv, TxInv, CommitPc, GenInv, CanonInv, PublishedPc
    <3>2. e.base = gen
      BY <3>1 DEF NonceInv, GenInv, PreparedInv
    <3>3. gen = gen + 1
      BY <3>1, <3>2
    <3>. QED BY <1>ty, <3>3
  <2>. QED BY <2>1, <2>2, <2>3
<1>1. walData'[i] = walData[i] /\ walDataD'[i] = walDataD[i]
  <2>1. CASE UNCHANGED <<walData, walDataD>>
    BY <2>1
  <2>2. CASE Startup
    BY <1>ty, <1>d, <2>1, <2>2
    DEF Startup, Spawn, ProbeNoreplaceSupport, LoadState, ReplayNothing, ReplayResidue,
        ReplayPending, ReplayFailClosed, StartupZero, StartupZeroSync
  <2>3. CASE Mutate
    BY <1>a, <2>1, <2>3
    DEF Mutate, BatchBegin, RefuseMutation, AdmitMutation, WalOpenHeld, WalCreate, WalWrite,
        WalWritePartial, WalSyncData, WalSyncDir, ApplyMutation, AppendPc
  <2>4. CASE Commit
    BY <1>d, <2>1, <2>4
    DEF Commit, PrepareCommit, CommitStart, WalVerify, VectorWrite, VectorSync, VectorPublish,
        VectorPublishExisting, VectorDirSync, JsonWrite, JsonSync, JsonPublish, JsonDirSync,
        WalZero, WalSync, Complete
  <2>5. CASE Discard \/ IoError \/ Kill
    BY <2>1, <2>5 DEF Discard, DiscardStart, DiscardRename, DiscardDirSync, IoError, Kill
  <2>6. CASE PowerLoss
    BY <2>6, SurvivorRecords DEF Holds
  <2>7. CASE UNCHANGED vars
    BY <2>1, <2>7 DEF vars
  <2>. QED BY <2>2, <2>3, <2>4, <2>5, <2>6, <2>7 DEF Next, Server, Crash
<1>2. /\ walIno' = i \/ (walIno' = NoInode /\ i \in quar')
      /\ walInoD' = i \/ (walInoD' = NoInode /\ i \in quarD')
  <2>0. CASE /\ UNCHANGED <<walIno, quar>>
             /\ <<walInoD', quarD'>> \in {<<walInoD, quarD>>, <<walIno, quar>>}
    BY <2>0 DEF Holds
  <2>1. CASE DiscardRename
    BY <2>1 DEF DiscardRename, Holds
  <2>2. CASE PowerLoss
    BY <2>2 DEF PowerLoss, Holds
  <2>3. CASE Startup
    BY <2>0, <2>3
    DEF Startup, Spawn, ProbeNoreplaceSupport, SyncParentDir, LoadState, ReplayNothing,
        ReplayResidue, ReplayPending, ReplayFailClosed, StartupZero, StartupZeroSync
  <2>4. CASE Mutate
    BY <1>a, <2>0, <2>4
    DEF Mutate, BatchBegin, RefuseMutation, AdmitMutation, WalOpenHeld, WalCreate, WalWrite,
        WalWritePartial, WalSyncData, WalSyncDir, SyncParentDir, ApplyMutation, AppendPc
  <2>5. CASE Commit
    BY <2>0, <2>5
    DEF Commit, PrepareCommit, CommitStart, WalVerify, VectorWrite, VectorSync, VectorPublish,
        VectorPublishExisting, VectorDirSync, SyncParentDir, JsonWrite, JsonSync, JsonPublish,
        JsonDirSync, WalZero, WalSync, Complete
  <2>6. CASE DiscardStart(tx.base, tx.ev.recs) \/ DiscardDirSync \/ IoError \/ Kill
    BY <2>0, <2>6 DEF DiscardStart, DiscardDirSync, SyncParentDir, IoError, Kill
  <2>7. CASE UNCHANGED vars
    BY <2>0, <2>7 DEF vars
  <2>. QED BY <2>1, <2>2, <2>3, <2>4, <2>5, <2>6, <2>7 DEF Next, Server, Discard, Crash
<1>. QED BY <1>1, <1>2 DEF Holds

\* Every step leaves the latest prepared transaction published or whole in one WAL.
LEMMA OutcomeStep ==
    ASSUME TypeInv, GenInv, WalInv, OutcomeInv, [Next]_vars
    PROVE  OutcomeInv'
<1>n. NonceInv /\ NonceInv'
  BY NonceStep DEF OutcomeInv
<1>ty. /\ gen \in Nat /\ nonce \in Nat /\ \A e \in prepared : e.nonce \in Nat /\ e.base \in Nat
       /\ prepared \subseteq Evidence
  BY DEF TypeInv, TypeOK, ProcTypeOK, HistTypeOK, Evidence
<1> SUFFICES ASSUME NEW e \in prepared', e.nonce = nonce' PROVE Published(e)' \/ Whole(e)'
  BY <1>n DEF OutcomeInv
<1>1. CASE BatchBegin /\ IdleWalClean
  <2>1. nonce' = nonce + 1 /\ e \in prepared
    BY <1>1 DEF BatchBegin
  <2>. QED BY <1>n, <1>ty, <2>1 DEF NonceInv
<1>2. CASE PrepareCommit /\ ~Die
  <2>1. /\ pc = "loop" /\ tx.st = "Active" /\ walLog # <<>> /\ prepared' = prepared \union {tx'.ev}
        /\ tx'.ev = [nonce |-> tx.nonce, base |-> gen, recs |-> walLog] /\ nonce' = nonce
        /\ UNCHANGED <<canon, canonD, gen, walIno, walInoD, quar, quarD, walData, walDataD>>
    BY <1>2, PrepareEffect
  <2>2. e.base = gen /\ e.recs = walLog
    BY <1>n, <2>1 DEF NonceInv
  <2>3. canonD.gen = gen /\ canon = canonD
    BY <2>1 DEF GenInv, CanonInv, LoadedPc
  <2>4. /\ walInoD = walIno /\ walIno # NoInode /\ walDataD[walIno] = walData[walIno]
        /\ IsLog(walData[walIno], walLog)
    BY <2>1 DEF WalInv, DirInv, Settled, LogInv, InTx, SteadyPc
  <2>5. walIno \in Inode /\ walData[walIno] \in WalFile
    BY <2>4 DEF TypeInv, TypeOK, DiskTypeOK
  <2>6. walData[walIno].recs # <<>> /\ WalBase(walData[walIno]) = gen
    <3>1. walData[walIno].recs # <<>> /\ walData[walIno].recs \in Seq(Record)
      BY <2>1, <2>4, <2>5, EmptyLog DEF IsLog, WalFile
    <3>2. Len(walData[walIno].recs) \in Nat \ {0}
      BY <3>1, EmptySeq, LenProperties
    <3>. QED BY <2>4, <3>1, <3>2 DEF IsLog, WalBase
  <2>7. Holds(walIno, e)'
    BY <2>1, <2>2, <2>4, <2>6 DEF Holds, IsLog
  <2>. QED BY <2>1, <2>2, <2>3, <2>5, <2>7 DEF Whole
<1>3. CASE UNCHANGED <<prepared, nonce>>
  <2>1. e \in prepared /\ e.nonce = nonce
    BY <1>3
  <2>2. pc = "json_publish" => e = tx.ev /\ e.base = gen /\ canonD.gen = gen
    BY <1>n, <2>1 DEF TypeInv, TxInv, CommitPc, NonceInv, GenInv, PreparedInv, CanonInv, LoadedPc
  <2>3. CASE Published(e)
    <3>1. canonD.gen = e.base + 1
      BY <1>n, <1>ty, <2>1, <2>3, NoEvidenceAssumption DEF Published, NonceInv
    <3>2. pc # "json_publish"
      BY <1>ty, <2>2, <3>1
    <3>. QED BY <2>3, <3>2, CanonStep DEF Published
  <2>4. ASSUME Whole(e) PROVE Published(e)' \/ Whole(e)'
    <3>1. PICK i \in Inode : Holds(i, e)
      BY <2>4 DEF Whole
    <3>2. Holds(i, e)'
      BY <1>n, <2>1, <2>4, <3>1, HoldsStep DEF Whole
    <3>3. CASE pc = "json_publish" /\ canonD' = canonD /\ canon'.ev = tx.ev
      BY <2>2, <2>4, <3>2, <3>3 DEF Whole
    <3>4. CASE UNCHANGED <<canon, canonD>> \/ (canon' = canonD /\ canonD' = canonD)
      BY <2>4, <3>2, <3>4 DEF Whole
    <3>5. CASE canon' = canon /\ canonD' = canon
      BY <2>4, <3>2, <3>5 DEF Whole, Published
    <3>. QED BY <3>3, <3>4, <3>5, CanonStep
  <2>. QED BY <2>1, <2>3, <2>4 DEF OutcomeInv
<1>. QED BY <1>1, <1>2, <1>3, PreparedStep

\* In a serving process the latest prepared transaction has exactly one outcome.
LEMMA OneOutcome ==
    ASSUME TypeInv, GenInv, WalInv, OutcomeInv, pc = "loop", NEW e \in prepared, e.nonce = nonce
    PROVE  \E o : Outcomes(e) = {o}
<1>ty. e \in Evidence /\ e.base \in Nat /\ e # NoEvidence /\ gen \in Nat /\ tx.st \in TxState
  BY NoEvidenceAssumption
  DEF TypeInv, TypeOK, ProcTypeOK, HistTypeOK, Evidence, Transaction
<1>1. gen = canonD.gen /\ lastEv = canonD.ev /\ canon = canonD
  BY DEF GenInv, CanonInv, LoadedPc
<1>2. /\ tx.st = "Prepared" => tx.ev = e /\ e.base = gen
      /\ tx.st # "Active"
      /\ canonD.ev # NoEvidence => canonD.gen = canonD.ev.base + 1
  BY DEF OutcomeInv, NonceInv, GenInv, PreparedInv
<1>3. tx.st = "RecoveryPending" =>
         tx.ev.base = gen /\ tx.ev.recs = Muts(walData[walIno]) /\ walIno \in Inode
  BY DEF WalInv, IdleInv, TypeInv, TxInv
<1>4. CASE Published(e)
  <2>1. gen = e.base + 1 /\ lastEv = e
    BY <1>1, <1>2, <1>4, <1>ty DEF Published
  <2>2. gen # e.base
    BY <1>ty, <2>1
  <2>3. Outcomes(e) = {"committed"}
    BY <1>2, <1>3, <2>1, <2>2 DEF Outcomes
  <2>. QED BY <2>3
<1>5. CASE Whole(e)
  <2>1. gen = e.base /\ lastEv # e
    <3>1. gen = e.base
      BY <1>1, <1>5 DEF Whole
    <3>2. canonD.ev = e => gen = e.base + 1
      BY <1>1, <1>2, <1>ty
    <3>. QED BY <1>1, <1>ty, <3>1, <3>2
  <2>2. PICK i \in Inode : Holds(i, e)
    BY <1>5 DEF Whole
  <2>3. CASE tx.st = "Prepared"
    <3>1. Outcomes(e) = {"prepared"}
      BY <1>2, <2>1, <2>3 DEF Outcomes
    <3>. QED BY <3>1
  <2>4. CASE tx.st = "RecoveryPending"
    <3>1. walIno = i
      BY <1>3, <2>2, <2>4, ConstantsAssumption DEF Holds
    <3>2. tx.ev.recs = e.recs /\ tx.ev.base = e.base
      BY <1>3, <2>1, <2>2, <2>4, <3>1 DEF Holds
    <3>3. Outcomes(e) = {"pending"}
      BY <2>1, <2>4, <3>2 DEF Outcomes
    <3>. QED BY <3>3
  <2>5. CASE tx.st = "Idle"
    <3>1. walIno # i
      BY <2>2, <2>5, EmptyLog, ConstantsAssumption DEF WalInv, IdleInv, Holds
    <3>2. quarD = quar
      BY DEF WalInv, DirInv, Settled
    <3>3. i \in quarD /\ Muts(walDataD[i]) = e.recs
      BY <2>2, <3>1, <3>2 DEF Holds
    <3>4. Outcomes(e) = {"discarded"}
      BY <2>1, <2>5, <3>3 DEF Outcomes
    <3>. QED BY <3>4
  <2>. QED BY <1>2, <1>ty, <2>3, <2>4, <2>5 DEF TxState
<1>. QED BY <1>4, <1>5 DEF OutcomeInv

\* After any number of crashes and restarts, health tells exactly one outcome of
\* the latest prepared transaction: still prepared, committed, pending or discarded.
THEOREM OutcomeIsDecided == Spec => []OutcomeDecided
<1>1. Init => OutcomeInv
  BY IdleTxType DEF Init, OutcomeInv, NonceInv, InTx, EmptyCanonical
<1>2. TypeInv /\ GenInv /\ WalInv /\ OutcomeInv => OutcomeDecided
  <2>1. ASSUME TypeInv, GenInv, WalInv, OutcomeInv, pc = "loop", NEW e \in prepared,
               e.nonce = nonce
        PROVE  Cardinality(Outcomes(e)) = 1
    <3>1. PICK o : Outcomes(e) = {o}
      BY <2>1, OneOutcome
    <3>. QED BY <3>1, FS_Singleton
  <2>. QED BY <2>1 DEF OutcomeDecided
<1>. QED BY <1>1, <1>2, OutcomeStep, WalInvariant, PTL DEF Spec
=============================================================================
