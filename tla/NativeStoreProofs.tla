------------------------- MODULE NativeStoreProofs -------------------------
(***************************************************************************)
(* What TLAPS proves of NativeStore, for every set of mutations and inodes *)
(* and every bound.  The argument has two inductive invariants:            *)
(*   TypeInv: types, and which transaction state goes with which step;     *)
(*   GenInv:  how the two views of the canonical file, the blobs, the      *)
(*            memory of the process and the prepared evidence are related. *)
(* From them follow CrashLoadable, PublishesWholeBatches and RefinesAtomic.*)
(***************************************************************************)
EXTENDS NativeStore, SequenceTheorems, TLAPS

-----------------------------------------------------------------------------
(* Types. *)

\* Which transaction state goes with which step of a handler.
TxInv ==
    /\ pc \in StartupPc \union {"down"} => tx = IdleTx
    /\ pc \in AppendPc => tx.st = "Active"
    /\ pc \in CommitPc => tx.st = "Prepared"
    /\ pc \in DiscardPc => tx.st = "RecoveryPending"
    /\ tx.st = "Prepared" => tx.ev \in Evidence
    /\ tx.st = "RecoveryPending" /\ pc # "discard_dir_sync" => walIno \in Inode

TypeInv == TypeOK /\ TxInv

\* The mutations a WAL scan reports are a sequence of mutations.
LEMMA MutsType ==
    ASSUME NEW f \in WalFile
    PROVE  Muts(f) \in Seq(Mutation)
<1>0. \A k \in 1..Len(f.recs) : f.recs[k] \in Record
  BY DEF WalFile
<1>1. Muts(f) \in [1..Len(f.recs) -> Mutation]
  BY <1>0 DEF Muts, Record
<1>2. Len(f.recs) \in Nat
  BY DEF WalFile
<1>3. Muts(f) \in UNION {[1..n -> Mutation] : n \in Nat}
  BY <1>1, <1>2
<1>. QED BY <1>3, SeqDef, Zenon

\* The idle transaction is well typed.
LEMMA IdleTxType == IdleTx \in Transaction /\ IdleTx.st = "Idle"
BY DEF IdleTx, Transaction, TxState

\* A zero-length WAL is well typed.
LEMMA EmptyWalType == EmptyWal \in WalFile
BY DEF EmptyWal, WalFile

\* Appending a record keeps a WAL file well typed.
LEMMA AppendType ==
    ASSUME NEW f \in WalFile, NEW m \in Mutation, NEW g \in Nat
    PROVE  [f EXCEPT !.recs = Append(@, [base |-> g, mut |-> m])] \in WalFile
<1>1. [base |-> g, mut |-> m] \in Record
  BY DEF Record
<1>2. Append(f.recs, [base |-> g, mut |-> m]) \in Seq(Record)
  BY <1>1 DEF WalFile
<1>. QED BY <1>2 DEF WalFile

\* The end of the process leaves well-typed, idle memory.
LEMMA DieType == Die => ProcTypeOK' /\ TxInv'
<1>. SUFFICES ASSUME Die PROVE ProcTypeOK' /\ TxInv'
  OBVIOUS
<1>1. ProcTypeOK'
  BY IdleTxType DEF Die, ProcTypeOK, Pc
<1>2. TxInv'
  BY IdleTxType DEF Die, TxInv, StartupPc, AppendPc, CommitPc, DiscardPc
<1>. QED BY <1>1, <1>2

\* Whatever power loss leaves of a WAL inode is a WAL file.
LEMMA SurvivorType ==
    ASSUME DiskTypeOK, NEW i \in Inode
    PROVE  WalSurvivors(i) \subseteq WalFile
<1>1. walData[i] \in WalFile /\ walDataD[i] \in WalFile
  BY DEF DiskTypeOK
<1>2. [recs |-> walDataD[i].recs, torn |-> TRUE] \in WalFile
  BY <1>1 DEF WalFile
<1>3. [recs |-> <<>>, torn |-> TRUE] \in WalFile
  BY DEF WalFile
<1>. QED
  BY <1>1, <1>2, <1>3 DEF WalSurvivors

\* An empty directory satisfies the type invariant.
LEMMA TypeInvInit == Init => TypeInv
BY ConstantsAssumption, IdleTxType, EmptyWalType
DEF Init, TypeInv, TypeOK, DiskTypeOK, ProcTypeOK, HistTypeOK, TxInv, EmptyCanonical,
    Canonical, Pc, StartupPc, AppendPc, CommitPc, DiscardPc

\* Every step of the store, crashes included, preserves the type invariant.
LEMMA TypeInvStep == TypeInv /\ [Next]_vars => TypeInv'
<1> SUFFICES ASSUME TypeInv, [Next]_vars PROVE TypeInv'
  OBVIOUS
<1> USE ConstantsAssumption, IdleTxType, DieType
    DEF TypeInv, TypeOK, DiskTypeOK, HistTypeOK, StartupPc, AppendPc, CommitPc, DiscardPc,
        At, Goto, diskVars, dirVars, durVars, dataVars, memVars, walVars, stepVars, histVars
\* Startup
<1>1. CASE Spawn
  BY <1>1 DEF Spawn, ProcTypeOK, TxInv, Pc
<1>2. CASE ProbeNoreplaceSupport
  BY <1>2 DEF ProbeNoreplaceSupport, SyncParentDir, ProcTypeOK, TxInv, Pc
<1>3. CASE LoadState
  <2>1. CASE Loadable(canon, blobs)
    BY <1>3, <2>1 DEF LoadState, ProcTypeOK, TxInv, Pc, Canonical
  <2>2. CASE ~Loadable(canon, blobs)
    BY <1>3, <2>2 DEF LoadState
  <2>. QED BY <2>1, <2>2
<1>4. CASE ReplayNothing
  BY <1>4 DEF ReplayNothing, ProcTypeOK, TxInv, Pc
<1>5. CASE ReplayResidue
  BY <1>5 DEF ReplayResidue, ProcTypeOK, TxInv, Pc
<1>6. CASE ReplayPending
  <2>1. walIno \in Inode /\ Muts(Wal) \in Seq(Mutation)
    BY <1>6, MutsType DEF ReplayPending, IsPending, Wal
  <2>2. tx' \in Transaction /\ tx'.st = "RecoveryPending"
    BY <1>6, <2>1 DEF ReplayPending, Evidence, IdleTx, Transaction, TxState, ProcTypeOK
  <2>. QED BY <1>6, <2>1, <2>2 DEF ReplayPending, ProcTypeOK, TxInv, Pc
<1>7. CASE ReplayFailClosed
  BY <1>7 DEF ReplayFailClosed
<1>8. CASE StartupZero
  BY <1>8, EmptyWalType DEF StartupZero, ProcTypeOK, TxInv, Pc
<1>9. CASE StartupZeroSync
  BY <1>9 DEF StartupZeroSync, ProcTypeOK, TxInv, Pc
\* Transactions and mutations
<1>10. CASE BatchBegin
  <2>1. CASE IdleWalClean
    <3>1. tx' = [st |-> "Active", base |-> gen, nonce |-> nonce + 1, seen |-> FALSE,
                 ev |-> NoEvidence]
      BY <1>10, <2>1 DEF BatchBegin, IdleTx
    <3>2. gen \in Nat /\ nonce + 1 \in Nat
      BY DEF ProcTypeOK
    <3>3. tx' \in Transaction /\ tx'.st = "Active"
      BY <3>1, <3>2 DEF Transaction, TxState
    <3>. QED BY <1>10, <2>1, <3>3 DEF BatchBegin, ProcTypeOK, TxInv, Pc
  <2>2. CASE ~IdleWalClean
    BY <1>10, <2>2 DEF BatchBegin
  <2>. QED BY <2>1, <2>2
<1>11. ASSUME NEW m \in Mutation, RefuseMutation(m) PROVE TypeInv'
  BY <1>11 DEF RefuseMutation
<1>12. ASSUME NEW m \in Mutation, AdmitMutation(m) PROVE TypeInv'
  BY <1>12 DEF AdmitMutation, ProcTypeOK, TxInv, Pc
<1>13. CASE WalOpenHeld
  <2>1. CASE pc' = "wal_write"
    BY <1>13, <2>1 DEF WalOpenHeld, Die, ProcTypeOK, TxInv, Pc
  <2>2. CASE pc' # "wal_write"
    BY <1>13, <2>2 DEF WalOpenHeld
  <2>. QED BY <2>1, <2>2
<1>14. CASE WalCreate
  <2>1. CASE walIno = NoInode
    <3>1. PICK i \in Inode : /\ walIno' = i
                            /\ walData' = [walData EXCEPT ![i] = EmptyWal]
                            /\ walDataD' = [walDataD EXCEPT ![i] = EmptyWal]
      BY <1>14, <2>1 DEF WalCreate, FreeInode
    <3>2. pc = "wal_open" /\ pc' = "wal_write"
      BY <1>14, <2>1 DEF WalCreate
    <3>3. UNCHANGED <<memVars, tx, walVars, stepVars, canon, blobs, quar, durVars, blobsSync, histVars>>
      BY <1>14, <2>1 DEF WalCreate
    <3>4. DiskTypeOK'
      BY <3>1, <3>3, EmptyWalType
    <3>5. ProcTypeOK' /\ HistTypeOK'
      BY <3>2, <3>3 DEF ProcTypeOK, Pc
    <3>6. TxInv'
      BY <3>1, <3>2, <3>3 DEF TxInv
    <3>. QED BY <3>4, <3>5, <3>6
  <2>2. CASE walIno # NoInode
    BY <1>14, <2>2 DEF WalCreate
  <2>. QED BY <2>1, <2>2
<1>15. CASE WalWrite
  <2>1. PICK m \in Mutation :
          walData' = [walData EXCEPT ![walIno].recs = Append(@, [base |-> gen, mut |-> m])]
    BY <1>15 DEF WalWrite, ProcTypeOK
  <2>2. ASSUME NEW i \in Inode PROVE walData'[i] \in WalFile
    <3>1. CASE i = walIno
      BY <2>1, <3>1, AppendType DEF ProcTypeOK
    <3>2. CASE i # walIno
      BY <2>1, <3>2
    <3>. QED BY <3>1, <3>2
  <2>3. walData' \in [Inode -> WalFile]
    BY <2>1, <2>2
  <2>. QED BY <1>15, <2>3 DEF WalWrite, ProcTypeOK, TxInv, Pc
<1>16. CASE WalWritePartial
  <2>1. walData' \in [Inode -> WalFile]
    BY <1>16 DEF WalWritePartial, WalFile
  <2>. QED BY <1>16, <2>1 DEF WalWritePartial
<1>17. CASE WalSyncData
  BY <1>17 DEF WalSyncData, ProcTypeOK, TxInv, Pc
<1>18. CASE WalSyncDir
  BY <1>18 DEF WalSyncDir, SyncParentDir, ProcTypeOK, TxInv, Pc
<1>19. CASE ApplyMutation
  <2>1. tx' \in Transaction /\ tx'.st = "Active"
    BY <1>19 DEF ApplyMutation, Transaction, TxState, ProcTypeOK, TxInv
  <2>. QED BY <1>19, <2>1 DEF ApplyMutation, ProcTypeOK, TxInv, Pc
\* Commit
<1>20. CASE PrepareCommit
  <2>1. CASE pc' = "loop"
    <3>1. prepared' = prepared \union {[nonce |-> tx.nonce, base |-> tx.base, recs |-> walLog]}
          /\ tx' = [tx EXCEPT !.st = "Prepared",
                            !.ev = [nonce |-> tx.nonce, base |-> tx.base, recs |-> walLog]]
      BY <1>20, <2>1 DEF PrepareCommit, Die
    <3>2. [nonce |-> tx.nonce, base |-> tx.base, recs |-> walLog] \in Evidence
      BY DEF Evidence, Transaction, ProcTypeOK
    <3>3. tx' \in Transaction /\ tx'.st = "Prepared" /\ tx'.ev \in Evidence
      BY <3>1, <3>2 DEF Transaction, TxState, ProcTypeOK
    <3>4. UNCHANGED <<memVars, walVars, stepVars, diskVars>>
      BY <1>20, <2>1 DEF PrepareCommit, Die
    <3>. QED BY <1>20, <2>1, <3>1, <3>2, <3>3, <3>4 DEF PrepareCommit, ProcTypeOK, TxInv, Pc
  <2>2. CASE pc' # "loop"
    BY <1>20, <2>2 DEF PrepareCommit
  <2>. QED BY <2>1, <2>2
<1>21. ASSUME NEW e \in prepared, CommitStart(e) PROVE TypeInv'
  BY <1>21 DEF CommitStart, ProcTypeOK, TxInv, Pc
<1>22. CASE WalVerify
  <2>1. CASE pc' = "vector_write"
    BY <1>22, <2>1 DEF WalVerify, Die, ProcTypeOK, TxInv, Pc
  <2>2. CASE pc' # "vector_write"
    BY <1>22, <2>2 DEF WalVerify, TxInv
  <2>. QED BY <2>1, <2>2
<1>23. CASE VectorWrite
  BY <1>23 DEF VectorWrite, ProcTypeOK, TxInv, Pc
<1>24. CASE VectorSync
  BY <1>24 DEF VectorSync, ProcTypeOK, TxInv, Pc
<1>25. BlobOf(NextCanonical) \in BlobName
  BY DEF BlobOf, NextCanonical, BlobName, ProcTypeOK
<1>26. CASE VectorPublish
  BY <1>25, <1>26 DEF VectorPublish, ProcTypeOK, TxInv, Pc
<1>27. CASE VectorPublishExisting
  BY <1>25, <1>27 DEF VectorPublishExisting, ProcTypeOK, TxInv, Pc
<1>28. CASE VectorDirSync
  BY <1>28 DEF VectorDirSync, SyncParentDir, ProcTypeOK, TxInv, Pc
<1>29. CASE JsonWrite
  BY <1>29 DEF JsonWrite, ProcTypeOK, TxInv, Pc
<1>30. CASE JsonSync
  BY <1>30 DEF JsonSync, ProcTypeOK, TxInv, Pc
<1>31. CASE JsonPublish
  <2>1. canon' \in Canonical
    BY <1>31 DEF JsonPublish, NextCanonical, Canonical, ProcTypeOK, Transaction
  <2>. QED BY <1>31, <2>1 DEF JsonPublish, ProcTypeOK, TxInv, Pc
<1>32. CASE JsonDirSync
  BY <1>32 DEF JsonDirSync, SyncParentDir, ProcTypeOK, TxInv, Pc
<1>33. CASE WalZero
  <2>1. CASE pc' = "wal_sync"
    BY <1>33, <2>1, EmptyWalType DEF WalZero, Die, ProcTypeOK, TxInv, Pc
  <2>2. CASE pc' # "wal_sync"
    BY <1>33, <2>2 DEF WalZero, TxInv
  <2>. QED BY <2>1, <2>2
<1>34. CASE WalSync
  BY <1>34 DEF WalSync, ProcTypeOK, TxInv, Pc
<1>35. CASE Complete
  BY <1>35 DEF Complete, ProcTypeOK, TxInv, Pc
\* Discard
<1>36. CASE DiscardStart(tx.base, tx.ev.recs)
  BY <1>36 DEF DiscardStart, ProcTypeOK, TxInv, Pc
<1>37. CASE DiscardRename
  BY <1>37 DEF DiscardRename, ProcTypeOK, TxInv, Pc
<1>38. CASE DiscardDirSync
  BY <1>38 DEF DiscardDirSync, SyncParentDir, ProcTypeOK, TxInv, Pc
\* Failures
<1>39. CASE IoError
  BY <1>39 DEF IoError, TxInv
<1>40. CASE Kill
  BY <1>40 DEF Kill
<1>41. CASE PowerLoss
  <2>1. canon' \in Canonical /\ canonD' \in Canonical
    <3>1. PICK c \in {canonD, canon} :
            /\ canon' \in {c} \union (IF c.data = "synced" THEN {} ELSE {[c EXCEPT !.data = "torn"]})
            /\ canonD' = canon'
      BY <1>41 DEF PowerLoss
    <3>2. c \in Canonical
      OBVIOUS
    <3>3. [c EXCEPT !.data = "torn"] \in Canonical
      BY <3>2 DEF Canonical
    <3>. QED BY <3>1, <3>2, <3>3
  <2>2. walData' \in [Inode -> WalFile] /\ walDataD' \in [Inode -> WalFile]
    <3>1. PICK f : /\ \A i \in DirtyInode : f[i] \in WalSurvivors(i)
                   /\ walData' = [i \in Inode |-> IF i \in DirtyInode THEN f[i] ELSE walData[i]]
      BY <1>41 DEF PowerLoss
    <3>2. \A i \in DirtyInode : f[i] \in WalFile
      BY <3>1, SurvivorType DEF DirtyInode
    <3>3. walDataD' = walData'
      BY <1>41 DEF PowerLoss
    <3>. QED BY <3>1, <3>2, <3>3
  <2>. QED BY <1>41, <2>1, <2>2 DEF PowerLoss
<1>42. CASE UNCHANGED vars
  BY <1>42 DEF vars, ProcTypeOK, TxInv
<1>. QED
  BY <1>1, <1>2, <1>3, <1>4, <1>5, <1>6, <1>7, <1>8, <1>9, <1>10, <1>11, <1>12, <1>13, <1>14,
     <1>15, <1>16, <1>17, <1>18, <1>19, <1>20, <1>21, <1>22, <1>23, <1>24, <1>26, <1>27,
     <1>28, <1>29, <1>30, <1>31, <1>32, <1>33, <1>34, <1>35, <1>36, <1>37, <1>38, <1>39,
     <1>40, <1>41, <1>42
  DEF Next, Server, Startup, Mutate, Commit, Discard, Crash

\* Every reachable state of the store is well typed: in particular
\* recovery_discard always finds a WAL inode to quarantine.
THEOREM TypeCorrect == Spec => []TypeOK
<1>1. TypeInv => TypeOK
  BY DEF TypeInv
<1>. QED BY <1>1, TypeInvInit, TypeInvStep, PTL DEF Spec

-----------------------------------------------------------------------------
(* The generation invariant. *)

\* What the open transaction has added to the loaded generation.
Log == IF tx.st \in {"Active", "Prepared"} THEN walLog ELSE <<>>

\* Steps at which memory is the canonical file plus the open transaction, and
\* steps after the canonical file was made durable.
LoadedPc == {"replay", "startup_zero", "startup_zero_sync", "loop", "wal_verify",
             "vector_write", "vector_sync", "vector_publish", "vector_dir_sync",
             "json_write", "json_sync", "json_publish"} \union AppendPc \union DiscardPc
PublishedPc == {"wal_zero", "wal_sync", "complete"}

\* d is c plus one whole prepared transaction.
IsSuccessor(c, d) ==
    /\ d.gen = c.gen + 1
    /\ d.ev \in prepared /\ d.ev.base = c.gen /\ d.ev.recs # <<>>
    /\ d.content = c.content \o d.ev.recs

\* A transaction is on top of the loaded generation; prepared, it is the WAL.
PreparedInv ==
    /\ tx.st \in {"Active", "Prepared"} => tx.base = gen
    /\ tx.st = "Prepared" => /\ tx.ev \in prepared /\ tx.ev.base = gen
                             /\ tx.ev.recs = walLog /\ walLog # <<>>

\* How the canonical file, its durable view and the memory are related.
CanonInv ==
    /\ pc \in {"down", "probe"} => canon = canonD \/ IsSuccessor(canonD, canon)
    /\ pc = "load" => canon = canonD
    /\ pc \in LoadedPc => /\ canon = canonD
                          /\ gen = canon.gen /\ lastEv = canon.ev
                          /\ content = canon.content \o Log
    /\ pc = "json_dir_sync" => IsSuccessor(canonD, canon) /\ gen = canonD.gen
    /\ pc \in PublishedPc => canon = canonD
    /\ pc \in PublishedPc \union {"json_dir_sync"} =>
          canon.gen = gen + 1 /\ canon.content = content /\ canon.ev = tx.ev

\* The blob the commit in progress publishes.
NextBlob == [gen |-> gen + 1, content |-> content]

\* CrashLoadable, strengthened by what each commit step has already made durable.
BlobInv ==
    /\ CrashLoadable
    /\ blobsD \subseteq blobs
    /\ pc \in {"vector_publish", "json_publish"} => tmp = "synced"
    /\ pc = "vector_dir_sync" => NextBlob \in blobs \intersect blobsSync
    /\ pc \in {"json_write", "json_sync", "json_publish"} => NextBlob \in blobsD \intersect blobsSync

\* Returned tokens are about durable generations.
TokenInv == \A e \in tokens : e.base < canonD.gen

GenInv == PreparedInv /\ CanonInv /\ BlobInv /\ TokenInv

\* Appending to the open transaction appends to the content it is part of.
LEMMA AppendConcat ==
    ASSUME NEW c \in Seq(Mutation), NEW w \in Seq(Mutation), NEW m \in Mutation
    PROVE  Append(c \o w, m) = c \o Append(w, m)
<1>1. c \o w \in Seq(Mutation) /\ <<m>> \in Seq(Mutation)
  BY ConcatProperties
<1>2. Append(c \o w, m) = (c \o w) \o <<m>>
  BY <1>1, AppendIsConcat
<1>3. Append(w, m) = w \o <<m>>
  BY AppendIsConcat
<1>. QED BY <1>1, <1>2, <1>3, ConcatAssociative

\* In every state the canonical file is the durable one or its successor.
LEMMA CanonTwoViews ==
    ASSUME TypeInv, GenInv
    PROVE  canon = canonD \/ IsSuccessor(canonD, canon)
BY DEF TypeInv, TypeOK, ProcTypeOK, GenInv, CanonInv, Pc, LoadedPc, PublishedPc, StartupPc,
       AppendPc, CommitPc, DiscardPc

\* The end of the process keeps the invariant when the files stay as they are.
LEMMA DieGen ==
    ASSUME TypeInv, GenInv, Die,
           UNCHANGED <<canon, canonD, blobs, blobsD, blobsSync, prepared, tokens>>
    PROVE  GenInv'
<1>1. canon = canonD \/ IsSuccessor(canonD, canon)
  BY CanonTwoViews
<1>2. PreparedInv'
  BY IdleTxType DEF Die, PreparedInv
<1>3. CanonInv'
  BY <1>1 DEF Die, CanonInv, IsSuccessor, LoadedPc, PublishedPc, AppendPc, DiscardPc
<1>4. BlobInv' /\ TokenInv'
  BY DEF Die, GenInv, BlobInv, TokenInv, CrashLoadable, BlobOf
<1>. QED BY <1>2, <1>3, <1>4 DEF GenInv

\* Every step of the store, crashes included, preserves the generation invariant.
LEMMA GenInvStep == TypeInv /\ GenInv /\ [Next]_vars => GenInv'
<1> SUFFICES ASSUME TypeInv, GenInv, [Next]_vars PROVE GenInv'
  OBVIOUS
<1> USE IdleTxType
    DEF At, Goto, diskVars, dirVars, durVars, dataVars, memVars, walVars, stepVars, histVars
<1>ty. /\ canon \in Canonical /\ canonD \in Canonical /\ gen \in Nat
       /\ content \in Seq(Mutation) /\ walLog \in Seq(Mutation) /\ canon.gen \in Nat
       /\ canon.content \in Seq(Mutation) /\ tx \in Transaction /\ pc \in Pc
  BY DEF TypeInv, TypeOK, DiskTypeOK, ProcTypeOK, Canonical
<1>em. canon.content \o <<>> = canon.content
  BY <1>ty, ConcatEmptySeq
<1>tk. \A e \in tokens : e.base < canon.gen /\ e.base < canonD.gen
  <2>1. canonD.gen \in Nat /\ (canon.gen = canonD.gen \/ canon.gen = canonD.gen + 1)
    BY <1>ty, CanonTwoViews DEF IsSuccessor, Canonical
  <2>2. \A e \in tokens : e.base \in Nat /\ e.base < canonD.gen
    BY DEF TypeInv, TypeOK, HistTypeOK, Evidence, GenInv, TokenInv
  <2>. QED BY <2>1, <2>2
<1> USE DEF GenInv, PreparedInv, CanonInv, BlobInv, TokenInv, CrashLoadable, IsSuccessor,
        NextBlob, BlobOf, Log, LoadedPc, PublishedPc, AppendPc, DiscardPc
<1>1. CASE Spawn
  BY <1>1 DEF Spawn
<1>2. CASE ProbeNoreplaceSupport
  BY <1>2, <1>tk DEF ProbeNoreplaceSupport, SyncParentDir
<1>3. CASE LoadState
  <2>1. CASE pc' = "replay"
    BY <1>3, <2>1, <1>em DEF LoadState, Die, TypeInv, TxInv, StartupPc
  <2>2. CASE pc' # "replay"
    BY <1>3, <2>2, DieGen DEF LoadState
  <2>. QED BY <2>1, <2>2
<1>4. CASE ReplayNothing
  BY <1>4 DEF ReplayNothing
<1>5. CASE ReplayResidue
  BY <1>5 DEF ReplayResidue
<1>6. CASE ReplayPending
  BY <1>6, <1>em DEF ReplayPending, TypeInv, TxInv, StartupPc, IdleTx
<1>7. CASE ReplayFailClosed
  BY <1>7, DieGen DEF ReplayFailClosed
<1>8. CASE StartupZero
  BY <1>8 DEF StartupZero
<1>9. CASE StartupZeroSync
  BY <1>9 DEF StartupZeroSync
<1>10. CASE BatchBegin
  <2>1. CASE pc' = "loop"
    BY <1>10, <2>1 DEF BatchBegin, Die, IdleWalClean, IdleTx
  <2>2. CASE pc' # "loop"
    BY <1>10, <2>2, DieGen DEF BatchBegin
  <2>. QED BY <2>1, <2>2
<1>11. ASSUME NEW m \in Mutation, RefuseMutation(m) PROVE GenInv'
  BY <1>11, DieGen DEF RefuseMutation
<1>12. ASSUME NEW m \in Mutation, AdmitMutation(m) PROVE GenInv'
  BY <1>12 DEF AdmitMutation
<1>13. CASE WalOpenHeld
  <2>1. CASE pc' = "wal_write"
    BY <1>13, <2>1 DEF WalOpenHeld, Die
  <2>2. CASE pc' # "wal_write"
    BY <1>13, <2>2, DieGen DEF WalOpenHeld
  <2>. QED BY <2>1, <2>2
<1>14. CASE WalCreate
  <2>1. CASE pc' = "wal_write"
    BY <1>14, <2>1 DEF WalCreate, Die
  <2>2. CASE pc' # "wal_write"
    BY <1>14, <2>2, DieGen DEF WalCreate
  <2>. QED BY <2>1, <2>2
<1>15. CASE WalWrite
  BY <1>15 DEF WalWrite
<1>16. CASE WalWritePartial
  BY <1>16, DieGen DEF WalWritePartial
<1>17. CASE WalSyncData
  BY <1>17 DEF WalSyncData
<1>18. CASE WalSyncDir
  BY <1>18 DEF WalSyncDir, SyncParentDir
<1>19. CASE ApplyMutation
  <2>1. PICK m \in Mutation : walLog' = Append(walLog, m) /\ content' = Append(content, m)
    BY <1>19 DEF ApplyMutation, TypeInv, TypeOK, ProcTypeOK
  <2>2. content' = canon.content \o walLog' /\ tx.st = "Active"
    BY <1>19, <1>ty, <2>1, AppendConcat DEF ApplyMutation, TypeInv, TxInv
  <2>3. tx'.st = tx.st /\ tx'.base = tx.base
    BY <1>19, <1>ty DEF ApplyMutation, Transaction
  <2>. QED BY <1>19, <2>2, <2>3 DEF ApplyMutation
<1>20. CASE PrepareCommit
  <2>1. CASE pc' = "loop"
    <3>1. /\ prepared' = prepared \union {tx'.ev}
          /\ tx'.ev = [nonce |-> tx.nonce, base |-> tx.base, recs |-> walLog]
          /\ tx'.st = "Prepared" /\ tx.st = "Active" /\ tx'.base = tx.base /\ walLog # <<>>
          /\ UNCHANGED <<pc, gen, content, lastEv, walLog, tmp, tokens>>
      BY <1>20, <2>1, <1>ty DEF PrepareCommit, Die, Transaction
    <3>2. UNCHANGED <<canon, canonD, blobs, blobsD, blobsSync>>
      BY <1>20 DEF PrepareCommit
    <3>. QED BY <1>20, <2>1, <3>1, <3>2 DEF PrepareCommit
  <2>2. CASE pc' # "loop"
    BY <1>20, <2>2, DieGen DEF PrepareCommit
  <2>. QED BY <2>1, <2>2
<1>21. ASSUME NEW e \in prepared, CommitStart(e) PROVE GenInv'
  BY <1>21 DEF CommitStart
<1>22. CASE WalVerify
  <2>1. CASE pc' = "vector_write"
    BY <1>22, <2>1 DEF WalVerify, Die
  <2>2. CASE pc' # "vector_write"
    BY <1>22, <2>2, DieGen DEF WalVerify
  <2>. QED BY <2>1, <2>2
<1>23. CASE VectorWrite
  BY <1>23 DEF VectorWrite
<1>24. CASE VectorSync
  BY <1>24 DEF VectorSync
<1>26. CASE VectorPublish
  BY <1>26 DEF VectorPublish, NextCanonical
<1>27. CASE VectorPublishExisting
  BY <1>27 DEF VectorPublishExisting, NextCanonical
<1>28. CASE VectorDirSync
  BY <1>28 DEF VectorDirSync, SyncParentDir
<1>29. CASE JsonWrite
  BY <1>29 DEF JsonWrite
<1>30. CASE JsonSync
  BY <1>30 DEF JsonSync
<1>31. CASE JsonPublish
  <2>1. tx.st = "Prepared" /\ canon' = [gen |-> gen + 1, content |-> content, ev |-> tx.ev,
                                       data |-> "synced"]
    BY <1>31 DEF JsonPublish, NextCanonical, TypeInv, TxInv, CommitPc
  <2>2. IsSuccessor(canonD, canon)' /\ canonD' = canonD
    <3>1. /\ gen = canonD.gen /\ content = canonD.content \o tx.ev.recs
          /\ tx.ev \in prepared /\ tx.ev.base = canonD.gen /\ tx.ev.recs # <<>>
      BY <1>31, <2>1 DEF JsonPublish
    <3>2. prepared' = prepared /\ canonD' = canonD
      BY <1>31 DEF JsonPublish
    <3>. QED BY <2>1, <3>1, <3>2
  <2>3. NextBlob' = NextBlob /\ BlobOf(canon)' = NextBlob
    BY <1>31, <2>1 DEF JsonPublish
  <2>4. BlobInv'
    BY <1>31, <2>1, <2>3 DEF JsonPublish
  <2>5. CanonInv'
    <3>1. gen' = gen /\ content' = content /\ tx' = tx /\ pc' = "json_dir_sync" /\ gen = canonD.gen
      BY <1>31 DEF JsonPublish
    <3>. QED BY <2>1, <2>2, <3>1
  <2>6. PreparedInv' /\ TokenInv'
    BY <1>31 DEF JsonPublish
  <2>. QED BY <2>4, <2>5, <2>6
<1>32. CASE JsonDirSync
  BY <1>32, <1>tk DEF JsonDirSync, SyncParentDir
<1>33. CASE WalZero
  <2>1. CASE pc' = "wal_sync"
    BY <1>33, <2>1 DEF WalZero, Die
  <2>2. CASE pc' # "wal_sync"
    BY <1>33, <2>2, DieGen DEF WalZero
  <2>. QED BY <2>1, <2>2
<1>34. CASE WalSync
  BY <1>34 DEF WalSync
<1>35. CASE Complete
  BY <1>35, <1>em, <1>ty DEF Complete, TypeInv, TxInv, CommitPc
<1>36. CASE DiscardStart(tx.base, tx.ev.recs)
  BY <1>36 DEF DiscardStart
<1>37. CASE DiscardRename
  BY <1>37 DEF DiscardRename
<1>38. CASE DiscardDirSync
  BY <1>38 DEF DiscardDirSync, SyncParentDir, TypeInv, TxInv
<1>39. CASE IoError
  BY <1>39, DieGen DEF IoError
<1>40. CASE Kill
  BY <1>40, DieGen DEF Kill
<1>41. CASE PowerLoss
  <2>1. PICK c \in {canonD, canon} :
          /\ canon' \in {c} \union (IF c.data = "synced" THEN {} ELSE {[c EXCEPT !.data = "torn"]})
          /\ canonD' = canon'
    BY <1>41 DEF PowerLoss
  <2>2. canon' = c /\ canonD' = c
    BY <2>1
  <2>3. /\ blobsD \intersect blobsSync \subseteq blobs' /\ blobsD' = blobs'
        /\ blobsSync' = blobs' /\ tokens' = tokens /\ pc' = "down" /\ tx' = IdleTx
    BY <1>41 DEF PowerLoss, Die
  <2>4. BlobInv'
    BY <2>2, <2>3
  <2>. QED BY <2>2, <2>3, <2>4, <1>tk
<1>42. CASE UNCHANGED vars
  BY <1>42 DEF vars
<1>. QED
  BY <1>1, <1>2, <1>3, <1>4, <1>5, <1>6, <1>7, <1>8, <1>9, <1>10, <1>11, <1>12, <1>13, <1>14,
     <1>15, <1>16, <1>17, <1>18, <1>19, <1>20, <1>21, <1>22, <1>23, <1>24, <1>26, <1>27,
     <1>28, <1>29, <1>30, <1>31, <1>32, <1>33, <1>34, <1>35, <1>36, <1>37, <1>38, <1>39,
     <1>40, <1>41, <1>42
  DEF Next, Server, Startup, Mutate, Commit, Discard, Crash

\* Both inductive invariants hold in every reachable state.
LEMMA InvariantsHold == Spec => [](TypeInv /\ GenInv)
<1>1. Init => GenInv
  BY IdleTxType
  DEF Init, GenInv, PreparedInv, CanonInv, BlobInv, TokenInv, CrashLoadable, EmptyCanonical,
      LoadedPc, PublishedPc, AppendPc, DiscardPc
<1>. QED BY <1>1, TypeInvInit, TypeInvStep, GenInvStep, PTL DEF Spec

\* Blob before JSON: at every step of open_resolved, wal_append, persist and
\* discard_recovery, and after any number of crashes, the canonical file that
\* startup would read is complete and the vector blob it names is durable.
THEOREM CrashSafe == Spec => []CrashLoadable
<1>1. GenInv => CrashLoadable
  BY DEF GenInv, BlobInv
<1>. QED BY <1>1, InvariantsHold, PTL

\* The durable canonical file changes only to the one path lookups already see,
\* while nothing is served and no token is returned.
LEMMA DurableStep ==
    ASSUME TypeInv, GenInv, [Next]_vars
    PROVE  \/ canonD' = canonD
           \/ canonD' = canon /\ pc # "loop" /\ pc' # "loop" /\ tokens' = tokens
<1> USE DEF At, Goto, Die, diskVars, dirVars, durVars, dataVars, memVars, walVars, stepVars, histVars
<1>0. /\ pc \in AppendPc \union DiscardPc \union {"loop", "vector_dir_sync"} => canon = canonD
      /\ canon.data = "synced" /\ canonD.data = "synced"
  BY DEF GenInv, CanonInv, BlobInv, CrashLoadable, LoadedPc
<1>1. CASE Startup
  BY <1>1 DEF Startup, Spawn, ProbeNoreplaceSupport, SyncParentDir, LoadState, ReplayNothing,
     ReplayResidue, ReplayPending, ReplayFailClosed, StartupZero, StartupZeroSync
<1>2. CASE Mutate
  BY <1>0, <1>2 DEF Mutate, BatchBegin, RefuseMutation, AdmitMutation, WalOpenHeld, WalCreate,
     WalWrite, WalWritePartial, WalSyncData, WalSyncDir, SyncParentDir, ApplyMutation, AppendPc
<1>3. CASE Commit
  BY <1>0, <1>3 DEF Commit, PrepareCommit, CommitStart, WalVerify, VectorWrite, VectorSync,
     VectorPublish, VectorPublishExisting, VectorDirSync, SyncParentDir, JsonWrite, JsonSync,
     JsonPublish, JsonDirSync, WalZero, WalSync, Complete
<1>4. CASE Discard
  BY <1>0, <1>4 DEF Discard, DiscardStart, DiscardRename, DiscardDirSync, SyncParentDir, DiscardPc
<1>5. CASE Crash
  <2>1. CASE IoError \/ Kill
    BY <2>1 DEF IoError, Kill
  <2>2. CASE PowerLoss
    <3>1. canonD' \in {canonD, canon}
      BY <1>0, <2>2 DEF PowerLoss
    <3>. QED BY <1>0, <2>2, <3>1 DEF PowerLoss
  <2>. QED BY <1>5, <2>1, <2>2 DEF Crash
<1>6. CASE UNCHANGED vars
  BY <1>6 DEF vars
<1>. QED BY <1>1, <1>2, <1>3, <1>4, <1>5, <1>6 DEF Next, Server

\* persist publishes exactly one whole prepared transaction on top of the durable
\* generation, whatever crash or recovery comes between; nothing else moves it.
THEOREM WholeBatches == Spec => PublishesWholeBatches
<1>1. TypeInv /\ GenInv /\ [Next]_vars =>
        [canonD' # canonD =>
           /\ canonD'.gen = canonD.gen + 1
           /\ canonD'.ev \in prepared /\ canonD'.ev.base = canonD.gen
           /\ canonD'.content = canonD.content \o canonD'.ev.recs]_vars
  BY DurableStep, CanonTwoViews DEF IsSuccessor
<1>. QED BY <1>1, InvariantsHold, PTL DEF Spec, PublishesWholeBatches

-----------------------------------------------------------------------------
(* Refinement. *)

\* A commit token is about the generation that is durable when it is returned.
LEMMA TokenStep ==
    ASSUME TypeInv, GenInv, [Next]_vars, tokens' # tokens
    PROVE  /\ tokens' = tokens \union {tx.ev} /\ tx.ev.base + 1 = canonD.gen
           /\ pc = "complete" /\ pc' = "loop" /\ tx' = IdleTx /\ canonD' = canonD
<1>1. Complete
  BY DEF Next, Server, Startup, Mutate, Commit, Discard, Crash, vars, histVars, Spawn,
     ProbeNoreplaceSupport, LoadState, ReplayNothing, ReplayResidue, ReplayPending,
     ReplayFailClosed, StartupZero, StartupZeroSync, BatchBegin, RefuseMutation, AdmitMutation,
     WalOpenHeld, WalCreate, WalWrite, WalWritePartial, WalSyncData, WalSyncDir, ApplyMutation,
     PrepareCommit, CommitStart, WalVerify, VectorWrite, VectorSync, VectorPublish,
     VectorPublishExisting, VectorDirSync, JsonWrite, JsonSync, JsonPublish, JsonDirSync,
     WalZero, WalSync, DiscardStart, DiscardRename, DiscardDirSync, IoError, Kill, PowerLoss
<1>2. tx.st = "Prepared"
  BY <1>1 DEF Complete, At, TypeInv, TxInv, CommitPc
<1>3. canonD.gen = gen + 1 /\ tx.ev.base = gen
  BY <1>1, <1>2 DEF Complete, At, GenInv, CanonInv, PreparedInv, PublishedPc
<1>. QED BY <1>1, <1>3 DEF Complete, At, Goto, diskVars, durVars

\* What is served outside a transaction is the durable generation.
LEMMA ViewIsDurable ==
    TypeInv /\ GenInv /\ ServedView # {} =>
        ServedView = {[number |-> canonD.gen, data |-> canonD.content]}
<1> SUFFICES ASSUME TypeInv, GenInv, ServedView # {}
             PROVE  ServedView = {[number |-> canonD.gen, data |-> canonD.content]}
  OBVIOUS
<1>1. pc = "loop" /\ tx.st \in {"Idle", "RecoveryPending"}
  BY DEF ServedView
<1>2. gen = canonD.gen /\ content = canonD.content \o <<>>
  BY <1>1 DEF GenInv, CanonInv, LoadedPc, Log
<1>3. canonD.content \o <<>> = canonD.content
  BY ConcatEmptySeq DEF TypeInv, TypeOK, DiskTypeOK, Canonical
<1>. QED BY <1>1, <1>2, <1>3 DEF ServedView

\* A nonempty batch makes the content longer and keeps what was there.
LEMMA ConcatExtends ==
    ASSUME NEW s \in Seq(Mutation), NEW t \in Seq(Mutation), t # <<>>
    PROVE  Len(s \o t) > Len(s) /\ SubSeq(s \o t, 1, Len(s)) = s
<1>1. s \o t \in Seq(Mutation) /\ Len(s \o t) = Len(s) + Len(t)
  BY ConcatProperties
<1>2. Len(t) \in Nat \ {0} /\ Len(s) \in Nat
  BY EmptySeq, LenProperties
<1>3. CASE s = <<>>
  BY <1>1, <1>2, <1>3
<1>4. CASE s # <<>>
  <2>1. 1 \in 1..Len(s) /\ Len(s) \in 1..Len(s)
    BY <1>2, <1>4, EmptySeq
  <2>2. SubSeq(s \o t, 1, Len(s)) = SubSeq(s, 1, Len(s))
    BY <2>1, SubSeqOfConcat1
  <2>3. SubSeq(s, 1, Len(s)) = s
    BY SubSeqFull
  <2>. QED BY <1>1, <1>2, <2>2, <2>3
<1>. QED BY <1>3, <1>4

\* A step of the store is a step or a stutter of the abstract generations.
LEMMA RefinementStep ==
    ASSUME TypeInv, GenInv, [Next]_vars, TypeInv', GenInv'
    PROVE  [Atomic!Next]_(Atomic!vars)
<1> DEFINE Acked == {e.base + 1 : e \in tokens}
<1>0. ServedView' # {} => ServedView' = {[number |-> canonD'.gen, data |-> canonD'.content]}
  <2>1. (TypeInv /\ GenInv /\ ServedView # {} =>
            ServedView = {[number |-> canonD.gen, data |-> canonD.content]})'
    BY ViewIsDurable, PTL
  <2>. QED BY <2>1
<1>1. CASE canonD' # canonD
  <2>1. canonD' = canon /\ pc # "loop" /\ pc' # "loop" /\ tokens' = tokens
    BY <1>1, DurableStep
  <2>2. ServedView = {} /\ ServedView' = {}
    BY <2>1 DEF ServedView
  <2>3. /\ canonD'.gen = canonD.gen + 1 /\ canonD'.content = canonD.content \o canonD'.ev.recs
        /\ canonD'.ev \in prepared /\ canonD'.ev.recs # <<>>
    BY <1>1, <2>1, CanonTwoViews DEF IsSuccessor
  <2>4. canonD.content \in Seq(Mutation) /\ canonD'.ev.recs \in Seq(Mutation)
    BY <2>3 DEF TypeInv, TypeOK, DiskTypeOK, HistTypeOK, Canonical, Evidence
  <2>5. /\ Len(canonD'.content) > Len(canonD.content)
        /\ SubSeq(canonD'.content, 1, Len(canonD.content)) = canonD.content
    BY <2>3, <2>4, ConcatExtends
  <2>7. Acked' = Acked
    BY <2>1
  <2>8. Atomic!Publish
    BY <2>2, <2>3, <2>5, <2>7 DEF Atomic!Publish
  <2>. QED BY <2>8 DEF Atomic!Next
<1>2. CASE canonD' = canonD /\ tokens' # tokens
  <2>1. /\ tokens' = tokens \union {tx.ev} /\ tx.ev.base + 1 = canonD.gen
        /\ pc = "complete" /\ pc' = "loop" /\ tx' = IdleTx
    BY <1>2, TokenStep
  <2>2. Acked' = Acked \union {canonD.gen}
    BY <2>1
  <2>3. ServedView = {} /\ ServedView' # {}
    BY <2>1, IdleTxType DEF ServedView
  <2>4. ServedView' = {[number |-> canonD.gen, data |-> canonD.content]}
    BY <1>0, <1>2, <2>3
  <2>5. Atomic!Serve
    BY <1>2, <2>2, <2>3, <2>4 DEF Atomic!Serve
  <2>. QED BY <2>5 DEF Atomic!Next
<1>3. CASE canonD' = canonD /\ tokens' = tokens
  <2>1. Acked' = Acked
    BY <1>3
  <2>2. CASE ServedView' = {}
    <3>1. Atomic!Withdraw
      BY <1>3, <2>1, <2>2 DEF Atomic!Withdraw
    <3>. QED BY <3>1 DEF Atomic!Next
  <2>3. CASE ServedView' # {}
    <3>1. ServedView' = {[number |-> canonD.gen, data |-> canonD.content]}
      BY <1>0, <1>3, <2>3
    <3>2. CASE ServedView = {}
      <4>1. Atomic!Serve
        BY <1>3, <2>1, <3>1, <3>2 DEF Atomic!Serve
      <4>. QED BY <4>1 DEF Atomic!Next
    <3>3. CASE ServedView # {}
      <4>1. ServedView' = ServedView
        BY <3>1, <3>3, ViewIsDurable
      <4>. QED BY <1>3, <2>1, <4>1 DEF Atomic!vars
    <3>. QED BY <3>2, <3>3
  <2>. QED BY <2>2, <2>3
<1>. QED BY <1>1, <1>2, <1>3

\* The store, with all its files, steps and crashes, implements atomic
\* generations: batch_commit is one indivisible publication, readers outside a
\* transaction see the durable generation, a token names a durable generation.
THEOREM Refinement == Spec => RefinesAtomic
<1>1. Init => Atomic!Init
  BY DEF Init, Atomic!Init, ServedView, EmptyCanonical
<1>2. TypeInv /\ GenInv /\ [Next]_vars /\ TypeInv' /\ GenInv' => [Atomic!Next]_(Atomic!vars)
  BY RefinementStep
<1>. QED BY <1>1, <1>2, InvariantsHold, PTL DEF Spec, RefinesAtomic, Atomic!Spec
=============================================================================
