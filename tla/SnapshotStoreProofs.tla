------------------------ MODULE SnapshotStoreProofs ------------------------
(***************************************************************************)
(* What TLAPS proves of SnapshotStore, for every set of processes, every   *)
(* bound and, where a theorem names none, every environment.               *)
(***************************************************************************)
EXTENDS SnapshotStore, SequenceTheorems, FiniteSetTheorems, TLAPS

-----------------------------------------------------------------------------
(* Types. *)

\* Which call a process is in at which step of it.
CallInv ==
    \A p \in Process :
        /\ pc[p] \in {"closed", "load", "open"} <=> pend[p].call = "none"
        /\ pc[p] \in {"wal_truncate", "wal_write"} => pend[p].call = "commit"

TypeInv == TypeOK /\ DOMAIN sessions = Process /\ CallInv

\* The number of edits of a transaction is a natural number.
LEMMA OwnType ==
    ASSUME NEW g \in Graph, NEW t
    PROVE  Own(t, g) \in Nat
<1>1. Len(g) \in Nat
  BY LenProperties DEF Graph
<1>2. IsFiniteSet(1..Len(g))
  BY <1>1, FS_Interval
<1>3. IsFiniteSet({i \in 1..Len(g) : g[i].tx = t})
  BY <1>2, FS_Subset
<1>. QED BY <1>3, FS_CardinalityType DEF Own

\* Files, snapshots and pending writes are well typed.
LEMMA FileTypes ==
    /\ \A s \in FileState : NoData(s) \in File
    /\ \A g \in Graph, m \in Meta : Snapshot(g, m) \in File
    /\ Nothing \in Pending /\ Nothing.call = "none"
    /\ <<>> \in Graph
BY DEF NoData, Snapshot, File, FileState, Graph, Meta, Nothing, Pending, Caller

\* No database and no process: well typed.
LEMMA TypeInit == Init => TypeInv
<1> SUFFICES ASSUME Init PROVE TypeInv
  OBVIOUS
<1> USE ConstantsAssumption
<1>1. LegacyGraph \in Graph
  BY DEF LegacyGraph, Graph, Edit
<1>2. db \in File /\ wal \in File
  <2>1. NoData("absent") \in File /\ NoData("legacy") \in File
    BY FileTypes DEF FileState
  <2>2. [NoData("legacy") EXCEPT !.graph = LegacyGraph] \in File
    BY <1>1, <2>1 DEF File
  <2>. QED BY <2>1, <2>2 DEF Init
<1>3. db.graph \in Graph
  BY <1>2 DEF File
<1>4. /\ pc \in [Process -> Pc] /\ base \in [Process -> Graph] /\ version \in [Process -> Nat]
      /\ pend \in [Process -> Pending] /\ procAcked \in [Process -> Graph]
  BY FileTypes DEF Init, Pc
<1>5. \A p \in Process : sessions[p] = <<>> /\ DOMAIN sessions[p] = {}
  BY DEF Init
<1>6. begun \in 0..MaxTx /\ edits \in [Tx -> Nat] /\ lock \in BOOLEAN
  <2>1. begun = 0 /\ edits = [t \in Tx |-> 0] /\ lock = FALSE
    BY DEF Init
  <2>2. 0 \in 0..MaxTx
    OBVIOUS
  <2>3. [t \in Tx |-> 0] \in [Tx -> Nat]
    OBVIOUS
  <2>. QED BY <2>1, <2>2, <2>3, Zenon
<1>7. disk \in [db : File, wal : File] /\ acked \in Graph
  BY <1>2, <1>3 DEF Init
<1>8. TypeOK
  BY <1>2, <1>4, <1>5, <1>6, <1>7 DEF TypeOK
<1>9. CallInv
  BY FileTypes DEF Init, CallInv
<1>. QED BY <1>8, <1>9 DEF Init, TypeInv

\* The sessions of a process are those of transactions begun, each with a graph.
SessionType(s, n) == DOMAIN s \subseteq 1..n /\ \A t \in DOMAIN s : s[t] \in Session

\* Begin, an edit, the end of a session and forgetting them all keep them so.
LEMMA SessionsStep ==
    ASSUME TypeInv, Next
    PROVE  /\ DOMAIN sessions' = Process
           /\ \A p \in Process : SessionType(sessions'[p], begun')
<1> USE ConstantsAssumption
<1>0. /\ DOMAIN sessions = Process /\ begun \in Nat
      /\ \A p \in Process : SessionType(sessions[p], begun) /\ base[p] \in Graph /\ version[p] \in Nat
  BY DEF TypeInv, TypeOK, SessionType
<1>1. CASE UNCHANGED <<sessions, begun>>
  BY <1>0, <1>1
<1>2. CASE \E p \in Process : sessions' = [sessions EXCEPT ![p] = <<>>] /\ UNCHANGED begun
  BY <1>0, <1>2 DEF SessionType
<1>3. CASE \E p \in Process, t \in Tx :
              sessions' = [sessions EXCEPT ![p] = Without(@, t)] /\ UNCHANGED begun
  BY <1>0, <1>3 DEF SessionType, Without
<1>4. ASSUME NEW p \in Process, Begin(p)
      PROVE  /\ DOMAIN sessions' = Process
             /\ \A q \in Process : SessionType(sessions'[q], begun')
  <2>1. [graph |-> base[p], base |-> version[p]] \in Session
    BY <1>0 DEF Session
  <2>2. SessionType(sessions'[p], begun')
    BY <1>0, <1>4, <2>1 DEF Begin, SessionType
  <2>3. \A q \in Process \ {p} : sessions'[q] = sessions[q]
    BY <1>0, <1>4 DEF Begin
  <2>4. DOMAIN sessions' = Process /\ begun' = begun + 1
    BY <1>0, <1>4 DEF Begin
  <2>. QED BY <1>0, <2>2, <2>3, <2>4 DEF SessionType
<1>5. ASSUME NEW p \in Process, NEW t \in Tx, EditGraph(p, t)
      PROVE  /\ DOMAIN sessions' = Process
             /\ \A q \in Process : SessionType(sessions'[q], begun')
  <2>1. t \in DOMAIN sessions[p] /\ sessions[p][t] \in Session
    BY <1>0, <1>5 DEF EditGraph, SessionType
  <2> DEFINE g == sessions[p][t].graph
             x == [tx |-> t, n |-> Own(t, g) + 1]
  <2>2. g \in Graph
    BY <2>1 DEF Session
  <2>3. x \in Edit
    BY <2>2, OwnType DEF Edit
  <2>4. Append(g, x) \in Graph
    BY <2>2, <2>3, AppendProperties DEF Graph
  <2>5. [sessions[p][t] EXCEPT !.graph = Append(g, x)] \in Session
    BY <2>1, <2>4 DEF Session
  <2>6. sessions' = [sessions EXCEPT ![p] =
                      [sessions[p] EXCEPT ![t] = [sessions[p][t] EXCEPT !.graph = Append(g, x)]]]
    BY <1>0, <1>5, <2>1 DEF EditGraph
  <2>7. SessionType(sessions'[p], begun)
    BY <1>0, <2>1, <2>5, <2>6 DEF SessionType
  <2>8. \A q \in Process \ {p} : sessions'[q] = sessions[q]
    BY <1>0, <2>6
  <2>9. DOMAIN sessions' = Process /\ begun' = begun
    BY <1>0, <1>5, <2>6 DEF EditGraph, history
  <2>. QED BY <1>0, <2>7, <2>8, <2>9
<1>6. CASE PowerLoss
  BY <1>0, <1>6 DEF PowerLoss, SessionType
<1>7. ASSUME NEW p \in Process, LoadOrInit(p) \/ SnapWrite(p)
      PROVE  UNCHANGED <<sessions, begun>> \/ (sessions' = [sessions EXCEPT ![p] = <<>>] /\ UNCHANGED begun)
  BY <1>7 DEF LoadOrInit, SnapWrite, memory, Manage
<1>. QED BY <1>1, <1>2, <1>3, <1>4, <1>5, <1>6, <1>7
     DEF Next, AcquireWriteLock, Close, Rollback, CommitConflict, Commit, PersistFrom, WalTruncate,
         WalWrite, SnapTruncate, RecoverFromSnapshot, RecoverFromWal, OfflineRecover, ClearLock,
         LoadClusterMetadata, PersistClusterMetadata, IoError, Kill, WriteBack, Forget, Manage,
         memory, history

\* The actions of a process, for case splits.
ProcNext(p) ==
    \/ AcquireWriteLock(p) \/ LoadOrInit(p) \/ Close(p) \/ Begin(p)
    \/ \E t \in Tx : EditGraph(p, t) \/ Rollback(p, t) \/ CommitConflict(p, t) \/ Commit(p, t)
    \/ WalTruncate(p) \/ WalWrite(p) \/ SnapTruncate(p) \/ SnapWrite(p)
    \/ RecoverFromSnapshot(p) \/ RecoverFromWal(p) \/ OfflineRecover(p)
    \/ LoadClusterMetadata(p) \/ \E m \in Metadata : PersistClusterMetadata(p, m)
    \/ IoError(p) \/ Kill(p)

\* What a write that stops half way leaves is a file again.
LEMMA PartialType ==
    ASSUME TypeOK, NEW p \in Process, PartialWrite(p)
    PROVE  db' \in File /\ wal' \in File
BY FileTypes DEF TypeOK, PartialWrite, FileState

\* The files stay files.
LEMMA FilesStep ==
    ASSUME TypeInv, Next
    PROVE  db' \in File /\ wal' \in File /\ lock' \in BOOLEAN /\ disk' \in [db : File, wal : File]
<1>0. /\ db \in File /\ wal \in File /\ lock \in BOOLEAN /\ disk \in [db : File, wal : File]
      /\ pend \in [Process -> Pending]
  BY DEF TypeInv, TypeOK
<1>1. ASSUME NEW p \in Process, AcquireWriteLock(p) \/ LoadOrInit(p) \/ Close(p)
      PROVE  UNCHANGED <<db, wal, disk>> /\ lock' \in BOOLEAN
  BY <1>0, <1>1 DEF AcquireWriteLock, LoadOrInit, Close, history
<1>2. ASSUME NEW p \in Process, WalTruncate(p) \/ WalWrite(p) \/ SnapTruncate(p) \/ SnapWrite(p)
      PROVE  db' \in File /\ wal' \in File /\ UNCHANGED <<lock, disk>>
  <2>1. pend[p].graph \in Graph /\ pend[p].meta \in Meta /\ NoMeta \in Meta
    BY <1>0 DEF Pending, Meta
  <2>2. NoData("empty") \in File /\ NoData("torn") \in File
    BY FileTypes DEF FileState
  <2>3. \A m \in Meta : Snapshot(pend[p].graph, m) \in File
    BY <2>1, FileTypes
  <2>. QED BY <1>0, <1>2, <2>1, <2>2, <2>3 DEF WalTruncate, WalWrite, SnapTruncate, SnapWrite, history
<1>3. ASSUME NEW p \in Process, IoError(p) \/ Kill(p)
      PROVE  db' \in File /\ wal' \in File /\ lock' \in BOOLEAN /\ UNCHANGED disk
  <2>1. db' \in File /\ wal' \in File
    BY <1>3, PartialType DEF TypeInv, IoError, Kill
  <2>. QED BY <1>0, <1>3, <2>1 DEF IoError, Kill, history
<1>4. CASE WriteBack
  BY <1>0, <1>4 DEF WriteBack, files
<1>5. CASE PowerLoss
  <2>1. NoData("torn") \in File
    BY FileTypes DEF FileState
  <2>2. disk.db \in File /\ disk.wal \in File
    BY <1>0
  <2>3. db' \in File /\ wal' \in File
    BY <1>0, <1>5, <2>1, <2>2 DEF PowerLoss, Survives
  <2>. QED BY <1>0, <1>5, <2>3 DEF PowerLoss
<1>6. CASE UNCHANGED <<db, wal, lock, disk>>
  BY <1>0, <1>6
<1>7. ASSUME NEW p \in Process, NEW t \in Tx,
             EditGraph(p, t) \/ Rollback(p, t) \/ CommitConflict(p, t) \/ Commit(p, t)
      PROVE  UNCHANGED <<db, wal, lock, disk>>
  BY <1>7 DEF EditGraph, Rollback, CommitConflict, Commit, PersistFrom, files, history
<1>8. ASSUME NEW p \in Process, Begin(p) \/ RecoverFromSnapshot(p) \/ RecoverFromWal(p)
                                \/ OfflineRecover(p) \/ LoadClusterMetadata(p)
                                \/ \E m \in Metadata : PersistClusterMetadata(p, m)
      PROVE  UNCHANGED <<db, wal, lock, disk>>
  BY <1>8 DEF Begin, RecoverFromSnapshot, RecoverFromWal, OfflineRecover, LoadClusterMetadata,
              PersistClusterMetadata, files, history
<1>9. CASE ClearLock
  BY <1>0, <1>9 DEF ClearLock, history
<1>. QED BY <1>0, <1>1, <1>2, <1>3, <1>4, <1>5, <1>6, <1>7, <1>8, <1>9 DEF Next

\* The step a process is at and the call it is in stay in agreement.
LEMMA CallStep ==
    ASSUME TypeInv, Next
    PROVE  pc' \in [Process -> Pc] /\ pend' \in [Process -> Pending] /\ CallInv'
<1> USE ConstantsAssumption, FileTypes
<1>0. /\ pc \in [Process -> Pc] /\ pend \in [Process -> Pending]
      /\ db.graph \in Graph /\ wal.graph \in Graph /\ db.meta \in Meta /\ wal.meta \in Meta
  BY DEF TypeInv, TypeOK, File
<1>1. ASSUME NEW p \in Process, NEW s \in Pc, NEW w \in Pending, Goto(p, s),
             pend' = [pend EXCEPT ![p] = w],
             s \in {"closed", "load", "open"} <=> w.call = "none",
             s \in {"wal_truncate", "wal_write"} => w.call = "commit"
      PROVE  pc' \in [Process -> Pc] /\ pend' \in [Process -> Pending] /\ CallInv'
  BY <1>0, <1>1 DEF Goto, CallInv, TypeInv
<1>2. CASE UNCHANGED <<pc, pend>>
  BY <1>0, <1>2 DEF TypeInv, CallInv
<1>3. CASE PowerLoss
  BY <1>3 DEF PowerLoss, CallInv, Pc
<1>4. ASSUME NEW p \in Process, UNCHANGED pend, NEW s \in Pc, Goto(p, s),
             s \in {"closed", "load", "open"} <=> pc[p] \in {"closed", "load", "open"},
             s \in {"wal_truncate", "wal_write"} => pend[p].call = "commit"
      PROVE  pc' \in [Process -> Pc] /\ pend' \in [Process -> Pending] /\ CallInv'
  BY <1>0, <1>4 DEF Goto, CallInv, TypeInv
<1>5. ASSUME NEW p \in Process, ProcNext(p)
      PROVE  pc' \in [Process -> Pc] /\ pend' \in [Process -> Pending] /\ CallInv'
  <2> DEFINE Goal == pc' \in [Process -> Pc] /\ pend' \in [Process -> Pending] /\ CallInv'
  <2>0. CallInv /\ NoMeta \in Meta /\ "commit" \in Caller
    BY DEF TypeInv, Meta, Caller
  <2>1. CASE AcquireWriteLock(p)
    BY <1>4, <2>1 DEF AcquireWriteLock, Pc
  <2>2. CASE LoadOrInit(p)
    <3>1. \A c \in Caller, g \in Graph, m \in Meta : [call |-> c, graph |-> g, meta |-> m] \in Pending
      BY DEF Pending
    <3>2. [Nothing EXCEPT !.call = "init"] \in Pending /\ [Nothing EXCEPT !.call = "init"].call = "init"
      BY DEF Pending, Nothing, Caller, Meta
    <3>3. [call |-> "migrate", graph |-> db.graph, meta |-> db.meta] \in Pending
      BY <1>0, <3>1 DEF Caller
    <3>. QED BY <1>1, <1>4, <2>2, <3>2, <3>3 DEF LoadOrInit, Pc
  <2>3. CASE Close(p) \/ Kill(p)
    BY <1>1, <2>3 DEF Close, Kill, Forget, Pc
  <2>4. ASSUME NEW t \in Tx, Commit(p, t)
        PROVE  Goal
    <3>1. sessions[p][t].graph \in Graph
      BY <2>4 DEF TypeInv, TypeOK, Session, Commit, PersistFrom
    <3>2. [call |-> "commit", graph |-> sessions[p][t].graph, meta |-> NoMeta] \in Pending
      BY <2>0, <3>1 DEF Pending
    <3>. QED BY <1>1, <2>4, <3>2 DEF Commit, PersistFrom, Pc
  <2>5. CASE WalTruncate(p) \/ WalWrite(p) \/ SnapTruncate(p)
    BY <1>4, <2>0, <2>5 DEF WalTruncate, WalWrite, SnapTruncate, Pc, CallInv
  <2>6. CASE SnapWrite(p)
    <3>1. CASE pend[p].call = "meta_migrate"
      <4>1. [pend[p] EXCEPT !.call = "meta"] \in Pending
        BY <1>0 DEF Pending, Caller
      <4>2. [pend[p] EXCEPT !.call = "meta"].call = "meta"
        BY <1>0 DEF Pending
      <4>. QED BY <1>1, <2>6, <3>1, <4>1, <4>2 DEF SnapWrite, Pc
    <3>2. CASE pend[p].call # "meta_migrate"
      <4>1. pend' = [pend EXCEPT ![p] = Nothing]
        BY <2>6, <3>2 DEF SnapWrite
      <4>2. \E s \in {"load", "open", "closed"} : Goto(p, s)
        BY <2>6, <3>2 DEF SnapWrite
      <4>. QED BY <1>1, <4>1, <4>2 DEF Pc
    <3>. QED BY <3>1, <3>2
  <2>7. CASE RecoverFromWal(p) \/ OfflineRecover(p)
    <3>1. \A c \in {"recover", "offline"} : [call |-> c, graph |-> wal.graph, meta |-> wal.meta] \in Pending
      BY <1>0 DEF Pending, Caller
    <3>. QED BY <1>1, <2>7, <3>1 DEF RecoverFromWal, OfflineRecover, Pc
  <2>8. CASE LoadClusterMetadata(p)
    <3>1. [call |-> "offline", graph |-> db.graph, meta |-> db.meta] \in Pending
      BY <1>0 DEF Pending, Caller
    <3>. QED BY <1>1, <2>8, <3>1 DEF LoadClusterMetadata, Pc
  <2>9. ASSUME NEW m \in Metadata, PersistClusterMetadata(p, m)
        PROVE  Goal
    <3> DEFINE w == [call |-> IF db.st = "legacy" THEN "meta_migrate" ELSE "meta",
                     graph |-> db.graph, meta |-> m]
    <3>1. w \in Pending /\ w.call \in {"meta", "meta_migrate"}
      BY <1>0 DEF Pending, Caller, Meta
    <3>. QED BY <1>1, <2>9, <3>1 DEF PersistClusterMetadata, Pc
  <2>10. CASE IoError(p)
    <3>1. \E s \in {"open", "closed"} : Goto(p, s)
      BY <2>10 DEF IoError
    <3>. QED BY <1>1, <2>10, <3>1 DEF IoError, Pc
  <2>. QED BY <1>2, <1>5, <2>1, <2>2, <2>3, <2>4, <2>5, <2>6, <2>7, <2>8, <2>9, <2>10
       DEF ProcNext, Begin, EditGraph, Rollback, CommitConflict, RecoverFromSnapshot
<1>. QED BY <1>2, <1>3, <1>5 DEF Next, ProcNext, ClearLock, WriteBack

\* What the managers hold and what was promised stay graphs.
LEMMA MemoryStep ==
    ASSUME TypeInv, Next
    PROVE  /\ base' \in [Process -> Graph] /\ version' \in [Process -> Nat]
           /\ begun' \in 0..MaxTx /\ edits' \in [Tx -> Nat]
           /\ acked' \in Graph /\ procAcked' \in [Process -> Graph]
<1> USE ConstantsAssumption
<1>0. /\ base \in [Process -> Graph] /\ version \in [Process -> Nat]
      /\ begun \in 0..MaxTx /\ edits \in [Tx -> Nat]
      /\ acked \in Graph /\ procAcked \in [Process -> Graph]
      /\ db.graph \in Graph /\ <<>> \in Graph /\ \A p \in Process : pend[p].graph \in Graph
  BY FileTypes DEF TypeInv, TypeOK, File, Pending
<1>1. CASE UNCHANGED <<base, version, begun, edits, acked, procAcked>>
  BY <1>0, <1>1
<1>2. ASSUME NEW p \in Process, NEW g \in Graph, Manage(p, g), UNCHANGED <<begun, edits, acked>>
      PROVE  /\ base' \in [Process -> Graph] /\ version' \in [Process -> Nat]
             /\ begun' \in 0..MaxTx /\ edits' \in [Tx -> Nat]
             /\ acked' \in Graph /\ procAcked' \in [Process -> Graph]
  BY <1>0, <1>2 DEF Manage
<1>3. ASSUME NEW p \in Process, NEW t \in Tx, Commit(p, t)
      PROVE  UNCHANGED <<base, version, begun, acked, procAcked>> /\ edits' \in [Tx -> Nat]
  <2>1. sessions[p][t].graph \in Graph
    BY <1>3 DEF TypeInv, TypeOK, Session, Commit, PersistFrom
  <2>. QED BY <1>0, <1>3, <2>1, OwnType DEF Commit, PersistFrom
<1>4. ASSUME NEW p \in Process, SnapWrite(p)
      PROVE  /\ base' \in [Process -> Graph] /\ version' \in [Process -> Nat]
             /\ begun' \in 0..MaxTx /\ edits' \in [Tx -> Nat]
             /\ acked' \in Graph /\ procAcked' \in [Process -> Graph]
  <2>1. CASE pend[p].call = "migrate"
    BY <1>0, <1>2, <1>4, <2>1 DEF SnapWrite
  <2>2. CASE pend[p].call \in {"commit", "recover"}
    <3>1. /\ base' = [base EXCEPT ![p] = pend[p].graph] /\ version' = [version EXCEPT ![p] = @ + 1]
          /\ UNCHANGED <<begun, edits>>
          /\ \/ acked' = pend[p].graph /\ procAcked' = [procAcked EXCEPT ![p] = pend[p].graph]
             \/ UNCHANGED <<acked, procAcked>>
      BY <1>4, <2>2 DEF SnapWrite
    <3>2. base' \in [Process -> Graph] /\ version' \in [Process -> Nat]
      BY <1>0, <3>1
    <3>3. acked' \in Graph /\ procAcked' \in [Process -> Graph]
      BY <1>0, <3>1
    <3>. QED BY <1>0, <3>1, <3>2, <3>3
  <2>3. CASE pend[p].call \notin {"migrate", "commit", "recover"}
    BY <1>1, <1>4, <2>3 DEF SnapWrite, memory
  <2>. QED BY <2>1, <2>2, <2>3
<1>5. CASE PowerLoss
  BY <1>0, <1>5 DEF PowerLoss
<1>6. ASSUME NEW p \in Process, RecoverFromSnapshot(p)
      PROVE  /\ base' \in [Process -> Graph] /\ version' \in [Process -> Nat]
             /\ UNCHANGED <<begun, edits, acked, procAcked>>
  BY <1>0, <1>6 DEF RecoverFromSnapshot, history
<1>7. ASSUME NEW p \in Process, Begin(p)
      PROVE  begun' \in 0..MaxTx /\ UNCHANGED <<base, version, edits, acked, procAcked>>
  BY <1>0, <1>7 DEF Begin
<1>8. ASSUME NEW p \in Process, LoadOrInit(p) \/ Close(p) \/ Kill(p)
      PROVE  /\ base' \in [Process -> Graph] /\ version' \in [Process -> Nat]
             /\ begun' \in 0..MaxTx /\ edits' \in [Tx -> Nat]
             /\ acked' \in Graph /\ procAcked' \in [Process -> Graph]
  BY <1>0, <1>1, <1>2, <1>8 DEF LoadOrInit, Close, Kill, Forget, memory
<1>. QED BY <1>0, <1>1, <1>3, <1>4, <1>5, <1>6, <1>7, <1>8
     DEF Next, AcquireWriteLock, EditGraph, Rollback, CommitConflict, WalTruncate, WalWrite,
         SnapTruncate, RecoverFromWal, OfflineRecover, LoadClusterMetadata,
         PersistClusterMetadata, IoError, ClearLock, WriteBack, memory, history

\* Every step keeps the types.
LEMMA TypeStep == TypeInv /\ [Next]_vars => TypeInv'
<1> SUFFICES ASSUME TypeInv, [Next]_vars PROVE TypeInv'
  OBVIOUS
<1>1. CASE Next
  <2>1. TypeOK'
    BY <1>1, SessionsStep, FilesStep, CallStep, MemoryStep DEF TypeOK, SessionType
  <2>. QED BY <1>1, <2>1, SessionsStep, CallStep DEF TypeInv
<1>2. CASE UNCHANGED vars
  BY <1>2 DEF TypeInv, TypeOK, CallInv, vars, files, memory, history
<1>. QED BY <1>1, <1>2

\* The files, the managers and their sessions are well typed in every environment:
\* an edit, a commit or a recover never makes something that is not a graph, and a
\* session belongs to a transaction that was begun.
THEOREM WellTyped == Spec => []TypeOK
<1>1. TypeInv => TypeOK
  BY DEF TypeInv
<1>. QED BY <1>1, TypeInit, TypeStep, PTL DEF Spec

\* A step of one process leaves what the others have in memory alone.
LEMMA ProcFrame ==
    ASSUME TypeInv, NEW p \in Process, ProcNext(p), NEW q \in Process \ {p}
    PROVE  /\ pc'[q] = pc[q] /\ pend'[q] = pend[q] /\ base'[q] = base[q]
           /\ version'[q] = version[q] /\ sessions'[q] = sessions[q] /\ procAcked'[q] = procAcked[q]
<1>0. /\ DOMAIN sessions = Process /\ pc \in [Process -> Pc] /\ pend \in [Process -> Pending]
      /\ base \in [Process -> Graph] /\ version \in [Process -> Nat] /\ procAcked \in [Process -> Graph]
  BY DEF TypeInv, TypeOK
<1>2. CASE LoadOrInit(p) \/ Close(p) \/ Kill(p)
  BY <1>0, <1>2 DEF LoadOrInit, Close, Kill, Forget, Manage, Goto, memory
<1>3. CASE SnapWrite(p)
  <2>1. pc'[q] = pc[q] /\ pend'[q] = pend[q]
    BY <1>0, <1>3 DEF SnapWrite, Goto
  <2>2. base'[q] = base[q] /\ version'[q] = version[q]
    BY <1>0, <1>3 DEF SnapWrite, Manage, memory
  <2>3. sessions'[q] = sessions[q] /\ procAcked'[q] = procAcked[q]
    BY <1>0, <1>3 DEF SnapWrite, Manage, memory
  <2>. QED BY <2>1, <2>2, <2>3
<1>4. CASE Begin(p) \/ RecoverFromSnapshot(p) \/ IoError(p)
  BY <1>0, <1>4 DEF Begin, RecoverFromSnapshot, IoError, Goto, memory, history
<1>5. ASSUME NEW t \in Tx, EditGraph(p, t) \/ Rollback(p, t) \/ CommitConflict(p, t) \/ Commit(p, t)
      PROVE  /\ pc'[q] = pc[q] /\ pend'[q] = pend[q] /\ base'[q] = base[q]
             /\ version'[q] = version[q] /\ sessions'[q] = sessions[q] /\ procAcked'[q] = procAcked[q]
  BY <1>0, <1>5 DEF EditGraph, Rollback, CommitConflict, Commit, PersistFrom, Goto, memory, history
<1>6. CASE \/ AcquireWriteLock(p) \/ WalTruncate(p) \/ WalWrite(p) \/ SnapTruncate(p)
           \/ RecoverFromWal(p) \/ OfflineRecover(p) \/ LoadClusterMetadata(p)
           \/ \E m \in Metadata : PersistClusterMetadata(p, m)
  BY <1>0, <1>6 DEF AcquireWriteLock, WalTruncate, WalWrite, SnapTruncate, RecoverFromWal,
     OfflineRecover, LoadClusterMetadata, PersistClusterMetadata, Goto, memory, history
<1>. QED BY <1>2, <1>3, <1>4, <1>5, <1>6 DEF ProcNext

-----------------------------------------------------------------------------
(* One writer. *)

\* p opens or has opened the database as a writer.
Holder(p) == pc[p] # "closed" /\ pend[p].call \notin {"offline", "meta", "meta_migrate"}

\* The lock file stands for at most one such process.
LockInv == \A p \in Process : Holder(p) => lock /\ \A q \in Process \ {p} : ~Holder(q)

\* Every step keeps at most one writer.
LEMMA LockStep == TypeInv /\ LockInv /\ [Next]_vars => LockInv'
<1> SUFFICES ASSUME TypeInv, LockInv, [Next]_vars PROVE LockInv'
  OBVIOUS
<1>1. ASSUME NEW p \in Process, ProcNext(p) PROVE LockInv'
  <2>0. /\ \A q \in Process \ {p} : Holder(q)' <=> Holder(q)
        /\ pc \in [Process -> Pc] /\ pend \in [Process -> Pending] /\ CallInv
    BY <1>1, ProcFrame DEF Holder, TypeInv, TypeOK
  <2>1. CASE lock' = lock /\ (Holder(p)' => Holder(p))
    BY <2>0, <2>1 DEF LockInv
  <2>2. CASE Holder(p) /\ ~Holder(p)'
    BY <2>0, <2>2 DEF LockInv
  <2>3. CASE ~lock /\ lock'
    BY <2>0, <2>3 DEF LockInv
  <2>4. CASE LoadOrInit(p)
    <3>1. Holder(p)
      BY <2>0, <2>4 DEF LoadOrInit, Holder, CallInv
    <3>2. CASE pc'[p] = "closed"
      BY <2>2, <3>1, <3>2 DEF Holder
    <3>3. CASE lock' = lock
      BY <2>1, <3>1, <3>3
    <3>. QED BY <2>0, <2>4, <3>2, <3>3 DEF LoadOrInit, Goto
  <2>5. CASE Close(p) \/ Kill(p)
    <3>1. ~Holder(p)'
      BY <2>0, <2>5 DEF Close, Kill, Holder, Goto
    <3>2. Close(p) => Holder(p)
      BY <2>0, <2>5 DEF Close, Holder, CallInv
    <3>. QED BY <2>1, <2>2, <2>5, <3>1, <3>2 DEF Kill
  <2>6. CASE SnapWrite(p)
    <3>1. CASE pend[p].call = "meta_migrate"
      <4>1. pend'[p].call = "meta"
        BY <2>0, <2>6, <3>1 DEF SnapWrite, Pending
      <4>. QED BY <2>1, <2>6, <4>1 DEF SnapWrite, Holder
    <3>2. CASE pend[p].call \in {"offline", "meta"}
      BY <2>0, <2>1, <2>6, <3>2 DEF SnapWrite, Holder, Goto
    <3>3. CASE pend[p].call \notin {"offline", "meta", "meta_migrate"}
      BY <2>1, <2>6, <3>3 DEF SnapWrite, Holder
    <3>. QED BY <3>1, <3>2, <3>3
  <2>7. CASE IoError(p)
    <3>1. CASE pend[p].call \in {"commit", "recover"}
      <4>1. Holder(p) /\ lock' = lock
        BY <2>0, <2>7, <3>1 DEF IoError, Holder, CallInv
      <4>. QED BY <2>1, <4>1
    <3>2. CASE pend[p].call \in {"init", "migrate", "none"}
      <4>1. Holder(p) /\ ~Holder(p)'
        BY <2>0, <2>7, <3>2 DEF IoError, Holder, CallInv, Writing, Goto
      <4>. QED BY <2>2, <4>1
    <3>3. CASE pend[p].call \in {"offline", "meta", "meta_migrate"}
      BY <2>0, <2>1, <2>7, <3>3 DEF IoError, Holder, Goto
    <3>. QED BY <2>7, <3>1, <3>2, <3>3 DEF IoError
  <2>8. CASE OfflineRecover(p) \/ LoadClusterMetadata(p)
             \/ \E m \in Metadata : PersistClusterMetadata(p, m)
    <3>1. ~Holder(p)' /\ lock' = lock
      BY <2>0, <2>8 DEF OfflineRecover, LoadClusterMetadata, PersistClusterMetadata, Holder, files
    <3>. QED BY <2>1, <3>1
  <2>9. CASE RecoverFromWal(p) \/ WalTruncate(p) \/ WalWrite(p) \/ SnapTruncate(p)
    BY <2>0, <2>1, <2>9 DEF RecoverFromWal, WalTruncate, WalWrite, SnapTruncate, Holder, CallInv, files
  <2>10. CASE Begin(p) \/ RecoverFromSnapshot(p)
    BY <2>1, <2>10 DEF Begin, RecoverFromSnapshot, Holder, files
  <2>11. ASSUME NEW t \in Tx, EditGraph(p, t) \/ Rollback(p, t) \/ CommitConflict(p, t) \/ Commit(p, t)
         PROVE  LockInv'
    <3>1. lock' = lock /\ (Holder(p)' => Holder(p))
      BY <2>0, <2>11 DEF EditGraph, Rollback, CommitConflict, Commit, PersistFrom, Holder, files, CallInv
    <3>. QED BY <2>1, <3>1
  <2>12. CASE AcquireWriteLock(p)
    BY <2>3, <2>12 DEF AcquireWriteLock
  <2>. QED BY <1>1, <2>4, <2>5, <2>6, <2>7, <2>8, <2>9, <2>10, <2>11, <2>12 DEF ProcNext
<1>2. CASE ClearLock
  BY <1>2 DEF ClearLock, NoWriter, LockInv, Holder
<1>3. CASE PowerLoss
  BY <1>3 DEF PowerLoss, LockInv, Holder
<1>4. CASE WriteBack \/ UNCHANGED vars
  BY <1>4 DEF WriteBack, LockInv, Holder, vars, files
<1>. QED BY <1>1, <1>2, <1>3, <1>4 DEF Next, ProcNext

\* One writer at a time, in every environment: however processes die, open fails and
\* stale locks are cleared, two managers never work on the database at once.
THEOREM OneWriter == Spec => []WriterExclusive
<1>1. Init => LockInv
  BY DEF Init, LockInv, Holder
<1>2. LockInv => WriterExclusive
  BY DEF LockInv, WriterExclusive, Holder, Manager, Unmanaged
<1>. QED BY <1>1, <1>2, TypeInit, TypeStep, LockStep, PTL DEF Spec

-----------------------------------------------------------------------------
(* All or nothing. *)

\* g holds of every transaction all the edits e counts for it, or none.
WholeIn(e, g) ==
    \A i \in 1..Len(g) : g[i].tx # Old => e[g[i].tx] > 0 /\ Own(g[i].tx, g) = e[g[i].tx]

\* The graph of an open session: edits of transaction t on top of whole transactions.
OnTop(e, t, g) ==
    \A i \in 1..Len(g) : g[i].tx \notin {Old, t} => e[g[i].tx] > 0 /\ Own(g[i].tx, g) = e[g[i].tx]

\* Every graph is whole, the device's and the ones being written too.
GraphsWhole ==
    /\ \A p \in Process : WholeIn(edits, base[p]) /\ WholeIn(edits, pend[p].graph)
    /\ WholeIn(edits, db.graph) /\ WholeIn(edits, wal.graph)
    /\ WholeIn(edits, disk.db.graph) /\ WholeIn(edits, disk.wal.graph)

\* A transaction is open in one process at most, and none of its edits counts
\* before its commit is requested.
SessionInv ==
    /\ \A t \in Tx : t > begun => edits[t] = 0
    /\ \A p \in Process : \A t \in DOMAIN sessions[p] :
          edits[t] = 0 /\ OnTop(edits, t, sessions[p][t].graph)
    /\ \A p, q \in Process : p # q => DOMAIN sessions[p] \cap DOMAIN sessions[q] = {}

WholeInv == GraphsWhole /\ SessionInv

\* An edit of another transaction does not change what a transaction has.
LEMMA OwnAppend ==
    ASSUME NEW g \in Graph, NEW x \in Edit, NEW u, x.tx # u
    PROVE  Own(u, Append(g, x)) = Own(u, g)
<1>1. /\ Len(g) \in Nat /\ Len(Append(g, x)) = Len(g) + 1 /\ Append(g, x)[Len(g) + 1] = x
      /\ \A i \in 1..Len(g) : Append(g, x)[i] = g[i]
  BY AppendProperties, LenProperties DEF Graph
<1>2. {i \in 1..Len(Append(g, x)) : Append(g, x)[i].tx = u} = {i \in 1..Len(g) : g[i].tx = u}
  BY <1>1
<1>. QED BY <1>2 DEF Own

\* A transaction with an edit has at least one.
LEMMA OwnPositive ==
    ASSUME NEW g \in Graph, NEW t, NEW i \in 1..Len(g), g[i].tx = t
    PROVE  Own(t, g) > 0
<1> DEFINE S == {k \in 1..Len(g) : g[k].tx = t}
<1>1. Len(g) \in Nat
  BY LenProperties DEF Graph
<1>2. IsFiniteSet(1..Len(g))
  BY <1>1, FS_Interval
<1>3. IsFiniteSet(S)
  BY <1>2, FS_Subset
<1>4. S # {}
  OBVIOUS
<1>5. Cardinality(S) \in Nat /\ Cardinality(S) # 0
  <2> HIDE DEF S
  <2>. QED BY <1>3, <1>4, FS_CardinalityType, FS_EmptySet
<1>. QED BY <1>5 DEF Own

\* The edits of a graph belong to transactions of the model.
LEMMA EditTx ==
    ASSUME NEW g \in Graph, NEW i \in 1..Len(g)
    PROVE  g[i].tx \in Tx \union {Old}
<1>1. g[i] \in Edit
  BY ElementOfSeq DEF Graph
<1>. QED BY <1>1 DEF Edit

\* Counting the edits of a transaction no graph holds yet leaves the graphs whole.
LEMMA WholeGrows ==
    ASSUME NEW e \in [Tx -> Nat], NEW f \in [Tx -> Nat], NEW t \in Tx, e[t] = 0,
           \A u \in Tx \ {t} : f[u] = e[u], NEW g \in Graph
    PROVE  /\ WholeIn(e, g) => WholeIn(f, g)
           /\ \A u : OnTop(e, u, g) => OnTop(f, u, g)
BY EditTx DEF WholeIn, OnTop

\* A session starts on a whole graph.
LEMMA WholeOnTop ==
    ASSUME NEW e, NEW g, NEW t, WholeIn(e, g)
    PROVE  OnTop(e, t, g)
BY DEF WholeIn, OnTop

\* It stays on top of whole transactions through its own edits.
LEMMA OnTopAppend ==
    ASSUME NEW e, NEW t \in Tx, NEW g \in Graph, NEW x \in Edit, x.tx = t, OnTop(e, t, g)
    PROVE  OnTop(e, t, Append(g, x))
<1>1. /\ Len(g) \in Nat /\ Len(Append(g, x)) = Len(g) + 1 /\ Append(g, x)[Len(g) + 1] = x
      /\ \A i \in 1..Len(g) : Append(g, x)[i] = g[i]
  BY AppendProperties, LenProperties DEF Graph
<1>2. ASSUME NEW i \in 1..Len(Append(g, x)), Append(g, x)[i].tx \notin {Old, t}
      PROVE  /\ e[Append(g, x)[i].tx] > 0
             /\ Own(Append(g, x)[i].tx, Append(g, x)) = e[Append(g, x)[i].tx]
  <2>1. i \in 1..Len(g) /\ Append(g, x)[i] = g[i]
    BY <1>1, <1>2
  <2>2. Own(g[i].tx, Append(g, x)) = Own(g[i].tx, g)
    BY <1>2, <2>1, OwnAppend
  <2>. QED BY <1>2, <2>1, <2>2 DEF OnTop
<1>. QED BY <1>2 DEF OnTop

\* And is whole once its edits count.
LEMMA OnTopCommit ==
    ASSUME NEW e \in [Tx -> Nat], NEW t \in Tx, e[t] = 0, NEW g \in Graph, OnTop(e, t, g)
    PROVE  WholeIn([e EXCEPT ![t] = Own(t, g)], g)
<1> DEFINE f == [e EXCEPT ![t] = Own(t, g)]
<1>1. ASSUME NEW i \in 1..Len(g), g[i].tx # Old
      PROVE  f[g[i].tx] > 0 /\ Own(g[i].tx, g) = f[g[i].tx]
  <2>1. CASE g[i].tx = t
    BY <2>1, OwnPositive
  <2>2. CASE g[i].tx # t
    BY <1>1, <2>2, EditTx DEF OnTop
  <2>. QED BY <2>1, <2>2
<1>. QED BY <1>1 DEF WholeIn

\* Sessions keep to themselves until their commit.
LEMMA SessionInvStep ==
    ASSUME TypeInv, WholeInv, Next
    PROVE  SessionInv'
<1> USE ConstantsAssumption
<1>0. /\ DOMAIN sessions = Process /\ begun \in 0..MaxTx /\ edits \in [Tx -> Nat]
      /\ \A p \in Process : SessionType(sessions[p], begun) /\ base[p] \in Graph
      /\ SessionInv /\ GraphsWhole
  BY DEF TypeInv, TypeOK, SessionType, WholeInv
<1>1. ASSUME UNCHANGED <<begun, edits>>,
             \A q \in Process : /\ DOMAIN sessions'[q] \subseteq DOMAIN sessions[q]
                                /\ \A t \in DOMAIN sessions'[q] : sessions'[q][t] = sessions[q][t]
      PROVE  SessionInv'
  BY <1>0, <1>1 DEF SessionInv
<1>2. ASSUME NEW p \in Process, sessions' = [sessions EXCEPT ![p] = <<>>], UNCHANGED <<begun, edits>>
      PROVE  SessionInv'
  BY <1>0, <1>1, <1>2
<1>3. ASSUME NEW p \in Process, NEW t \in Tx, sessions' = [sessions EXCEPT ![p] = Without(@, t)],
             UNCHANGED <<begun, edits>>
      PROVE  SessionInv'
  BY <1>0, <1>1, <1>3 DEF Without
<1>4. ASSUME UNCHANGED <<sessions, begun, edits>> PROVE SessionInv'
  BY <1>1, <1>4
<1>5. ASSUME NEW p \in Process, Begin(p) PROVE SessionInv'
  <2> DEFINE n == begun + 1
  <2>1. n \in Tx /\ begun' = n /\ edits' = edits /\ n > begun
    BY <1>0, <1>5 DEF Begin, Tx
  <2>2. /\ sessions'[p] = [t \in DOMAIN sessions[p] \union {n} |->
                              IF t = n THEN [graph |-> base[p], base |-> version[p]]
                              ELSE sessions[p][t]]
        /\ \A q \in Process \ {p} : sessions'[q] = sessions[q]
    BY <1>0, <1>5, <2>1 DEF Begin
  <2>3. edits[n] = 0 /\ OnTop(edits, n, base[p])
    BY <1>0, <2>1, WholeOnTop DEF SessionInv, GraphsWhole
  <2>4. \A q \in Process : n \notin DOMAIN sessions[q]
    BY <1>0, <2>1 DEF SessionType
  <2>5. \A t \in DOMAIN sessions'[p] : edits'[t] = 0 /\ OnTop(edits', t, sessions'[p][t].graph)
    BY <1>0, <2>1, <2>2, <2>3, <2>4 DEF SessionInv
  <2>6. \A q, r \in Process : q # r => DOMAIN sessions'[q] \cap DOMAIN sessions'[r] = {}
    BY <1>0, <2>2, <2>4 DEF SessionInv
  <2>7. \A t \in Tx : t > begun' => edits'[t] = 0
    <3>1. \A t \in Tx : t > n => t > begun
      BY <1>0 DEF Tx
    <3>. QED BY <1>0, <2>1, <3>1 DEF SessionInv
  <2>. QED BY <1>0, <2>1, <2>2, <2>5, <2>6, <2>7 DEF SessionInv
<1>6. ASSUME NEW p \in Process, NEW t \in Tx, EditGraph(p, t) PROVE SessionInv'
  <2>1. t \in DOMAIN sessions[p] /\ sessions[p][t] \in Session
    BY <1>0, <1>6 DEF EditGraph, SessionType
  <2> DEFINE g == sessions[p][t].graph
             x == [tx |-> t, n |-> Own(t, g) + 1]
  <2>2. g \in Graph /\ OnTop(edits, t, g)
    BY <1>0, <2>1 DEF Session, SessionInv
  <2>3. x \in Edit /\ x.tx = t
    BY <2>2, OwnType DEF Edit
  <2>4. OnTop(edits, t, Append(g, x))
    BY <2>2, <2>3, OnTopAppend
  <2>5. sessions' = [sessions EXCEPT ![p] =
                      [sessions[p] EXCEPT ![t] = [sessions[p][t] EXCEPT !.graph = Append(g, x)]]]
    BY <1>0, <1>6, <2>1 DEF EditGraph
  <2>6. [sessions[p][t] EXCEPT !.graph = Append(g, x)].graph = Append(g, x)
    BY <2>1 DEF Session
  <2>7. /\ \A q \in Process : DOMAIN sessions'[q] = DOMAIN sessions[q]
        /\ \A q \in Process \ {p} : sessions'[q] = sessions[q]
        /\ sessions'[p][t].graph = Append(g, x)
        /\ \A u \in DOMAIN sessions[p] \ {t} : sessions'[p][u] = sessions[p][u]
        /\ UNCHANGED <<begun, edits>>
    <3> HIDE DEF g, x
    <3>. QED BY <1>0, <1>6, <2>1, <2>5, <2>6 DEF EditGraph, history
  <2>8. \A q \in Process : \A u \in DOMAIN sessions'[q] :
           edits'[u] = 0 /\ OnTop(edits', u, sessions'[q][u].graph)
    <3> SUFFICES ASSUME NEW q \in Process, NEW u \in DOMAIN sessions'[q]
                 PROVE  edits'[u] = 0 /\ OnTop(edits', u, sessions'[q][u].graph)
      OBVIOUS
    <3>1. u \in DOMAIN sessions[q] /\ edits'[u] = 0
      BY <1>0, <2>7 DEF SessionInv
    <3>2. CASE q = p /\ u = t
      BY <2>4, <2>7, <3>1, <3>2
    <3>3. CASE q # p \/ u # t
      <4>1. sessions'[q][u] = sessions[q][u]
        BY <2>7, <3>1, <3>3
      <4>. QED BY <1>0, <2>7, <3>1, <4>1 DEF SessionInv
    <3>. QED BY <3>2, <3>3
  <2>9. \A q, r \in Process : q # r => DOMAIN sessions'[q] \cap DOMAIN sessions'[r] = {}
    BY <1>0, <2>7 DEF SessionInv
  <2>. QED BY <1>0, <2>7, <2>8, <2>9 DEF SessionInv
<1>7. ASSUME NEW p \in Process, NEW t \in Tx, Commit(p, t) PROVE SessionInv'
  <2> DEFINE g == sessions[p][t].graph
  <2>1. /\ t \in DOMAIN sessions[p] /\ g \in Graph /\ Own(t, g) \in Nat /\ edits[t] = 0
        /\ ~(t > begun)
    BY <1>0, <1>7, OwnType DEF Commit, SessionType, Session, SessionInv
  <2>2. /\ edits' = [edits EXCEPT ![t] = Own(t, g)] /\ begun' = begun
        /\ sessions'[p] = Without(sessions[p], t) /\ \A q \in Process \ {p} : sessions'[q] = sessions[q]
    BY <1>0, <1>7 DEF Commit, PersistFrom
  <2>7. edits' \in [Tx -> Nat] /\ \A u \in Tx \ {t} : edits'[u] = edits[u]
    BY <1>0, <2>1, <2>2
  <2>3. \A q \in Process : /\ DOMAIN sessions'[q] \subseteq DOMAIN sessions[q] \ {t}
                           /\ \A u \in DOMAIN sessions'[q] : sessions'[q][u] = sessions[q][u]
    BY <1>0, <2>1, <2>2 DEF Without, SessionInv
  <2>4. ASSUME NEW q \in Process, NEW u \in DOMAIN sessions'[q]
        PROVE  edits'[u] = 0 /\ OnTop(edits', u, sessions'[q][u].graph)
    <3>1. u \in DOMAIN sessions[q] /\ u # t /\ sessions'[q][u] = sessions[q][u]
      BY <2>3, <2>4
    <3>2. u \in Tx /\ sessions[q][u].graph \in Graph
      BY <1>0, <3>1 DEF SessionType, Session, Tx
    <3>3. OnTop(edits', u, sessions[q][u].graph)
      BY <1>0, <2>1, <2>7, <3>1, <3>2, WholeGrows DEF SessionInv
    <3>. QED BY <1>0, <2>2, <3>1, <3>2, <3>3 DEF SessionInv
  <2>5. \A u \in Tx : u > begun' => edits'[u] = 0
    BY <1>0, <2>1, <2>2, <2>7 DEF SessionInv
  <2>6. \A q, r \in Process : q # r => DOMAIN sessions'[q] \cap DOMAIN sessions'[r] = {}
    BY <1>0, <2>3 DEF SessionInv
  <2>. QED BY <2>4, <2>5, <2>6 DEF SessionInv
<1>8. CASE PowerLoss
  BY <1>0, <1>1, <1>8 DEF PowerLoss
<1>9. ASSUME NEW p \in Process, LoadOrInit(p) \/ SnapWrite(p)
      PROVE  /\ UNCHANGED <<begun, edits>>
             /\ UNCHANGED sessions \/ sessions' = [sessions EXCEPT ![p] = <<>>]
  BY <1>9 DEF LoadOrInit, SnapWrite, memory, Manage
<1>. QED BY <1>2, <1>3, <1>4, <1>5, <1>6, <1>7, <1>8, <1>9
     DEF Next, AcquireWriteLock, Close, Rollback, CommitConflict, WalTruncate, WalWrite, SnapTruncate,
         RecoverFromSnapshot, RecoverFromWal, OfflineRecover, ClearLock, LoadClusterMetadata,
         PersistClusterMetadata, IoError, Kill, WriteBack, Forget, Manage, memory, history

\* Every step keeps every graph whole.
LEMMA GraphsStep ==
    ASSUME TypeInv, WholeInv, Next
    PROVE  GraphsWhole'
<1> DEFINE W(g) == WholeIn(edits, g)
           Goal == GraphsWhole'
<1>0. /\ pend \in [Process -> Pending] /\ base \in [Process -> Graph] /\ edits \in [Tx -> Nat]
      /\ db \in File /\ wal \in File /\ disk \in [db : File, wal : File]
      /\ GraphsWhole /\ SessionInv /\ W(<<>>) /\ Nothing.graph = <<>>
      /\ \A s : NoData(s).graph = <<>>
  BY DEF TypeInv, TypeOK, WholeInv, WholeIn, Nothing, NoData
<1>1. ASSUME UNCHANGED <<edits, disk>>, W(db'.graph), W(wal'.graph),
             NEW p \in Process,
             base' = base \/ \E g : W(g) /\ base' = [base EXCEPT ![p] = g],
             pend' = pend \/ \E w : W(w.graph) /\ pend' = [pend EXCEPT ![p] = w]
      PROVE  Goal
  <2>1. \A q \in Process : W(base'[q]) /\ W(pend'[q].graph)
    BY <1>0, <1>1 DEF GraphsWhole
  <2>. QED BY <1>0, <1>1, <2>1 DEF GraphsWhole
<1>2. ASSUME NEW p \in Process, IoError(p) \/ Kill(p) PROVE Goal
  <2>1. W(db'.graph) /\ W(wal'.graph)
    BY <1>0, <1>2 DEF IoError, Kill, PartialWrite, GraphsWhole
  <2>2. pend' = [pend EXCEPT ![p] = Nothing] /\ UNCHANGED <<edits, disk>>
    BY <1>2 DEF IoError, Kill, Forget, history
  <2>3. base' = base \/ base' = [base EXCEPT ![p] = <<>>]
    BY <1>2 DEF IoError, Kill, Forget, Manage, memory
  <2>. QED BY <1>0, <1>1, <2>1, <2>2, <2>3
<1>3. ASSUME NEW p \in Process, SnapWrite(p) PROVE Goal
  <2>1. W(pend[p].graph) /\ db'.graph = pend[p].graph /\ UNCHANGED <<wal, edits, disk>>
    BY <1>0, <1>3 DEF SnapWrite, Snapshot, GraphsWhole
  <2>2. [pend[p] EXCEPT !.call = "meta"].graph = pend[p].graph
    BY <1>0 DEF Pending
  <2>3. \E w : W(w.graph) /\ pend' = [pend EXCEPT ![p] = w]
    BY <1>0, <1>3, <2>1, <2>2 DEF SnapWrite
  <2>4. base' = base \/ base' = [base EXCEPT ![p] = pend[p].graph]
    BY <1>3 DEF SnapWrite, Manage, memory
  <2>. QED BY <1>0, <1>1, <2>1, <2>3, <2>4 DEF GraphsWhole
<1>4. ASSUME NEW p \in Process, WalTruncate(p) \/ WalWrite(p) \/ SnapTruncate(p) PROVE Goal
  <2>1. W(db'.graph) /\ W(wal'.graph)
    BY <1>0, <1>4 DEF WalTruncate, WalWrite, SnapTruncate, Snapshot, GraphsWhole
  <2>. QED BY <1>1, <1>4, <2>1 DEF WalTruncate, WalWrite, SnapTruncate, memory, history
<1>5. ASSUME NEW p \in Process, LoadOrInit(p) \/ Close(p) PROVE Goal
  <2>1. /\ [Nothing EXCEPT !.call = "init"].graph = <<>>
        /\ [call |-> "migrate", graph |-> db.graph, meta |-> db.meta].graph = db.graph
    BY DEF Nothing
  <2>2. pend' = pend \/ \E w : W(w.graph) /\ pend' = [pend EXCEPT ![p] = w]
    BY <1>0, <1>5, <2>1 DEF LoadOrInit, Close, Forget, GraphsWhole
  <2>3. base' = base \/ \E g : W(g) /\ base' = [base EXCEPT ![p] = g]
    BY <1>0, <1>5 DEF LoadOrInit, Close, Forget, Manage, memory, GraphsWhole
  <2>. QED BY <1>0, <1>1, <1>5, <2>2, <2>3 DEF LoadOrInit, Close, GraphsWhole
<1>6. ASSUME NEW p \in Process, \/ RecoverFromWal(p) \/ OfflineRecover(p) \/ LoadClusterMetadata(p)
                                \/ \E m \in Metadata : PersistClusterMetadata(p, m)
      PROVE  Goal
  <2>1. \E w : W(w.graph) /\ pend' = [pend EXCEPT ![p] = w]
    BY <1>0, <1>6 DEF RecoverFromWal, OfflineRecover, LoadClusterMetadata, PersistClusterMetadata,
       GraphsWhole
  <2>2. UNCHANGED <<db, wal, base, edits, disk>>
    BY <1>6 DEF RecoverFromWal, OfflineRecover, LoadClusterMetadata, PersistClusterMetadata, files,
       memory, history
  <2>. QED BY <1>0, <1>1, <2>1, <2>2 DEF GraphsWhole
<1>7. ASSUME NEW p \in Process, RecoverFromSnapshot(p) PROVE Goal
  BY <1>0, <1>1, <1>7 DEF RecoverFromSnapshot, files, history, GraphsWhole
<1>8. ASSUME NEW p \in Process, NEW t \in Tx, Commit(p, t) PROVE Goal
  <2> DEFINE g == sessions[p][t].graph
  <2>1. t \in DOMAIN sessions[p] /\ g \in Graph /\ Own(t, g) \in Nat /\ edits[t] = 0 /\ OnTop(edits, t, g)
    BY <1>0, <1>8, OwnType DEF Commit, TypeInv, TypeOK, Session, SessionInv
  <2>2. /\ edits' = [edits EXCEPT ![t] = Own(t, g)] /\ UNCHANGED <<db, wal, base, disk>>
        /\ pend' = [pend EXCEPT ![p] = [call |-> "commit", graph |-> g, meta |-> NoMeta]]
    BY <1>8 DEF Commit, PersistFrom, files
  <2>3. WholeIn(edits', g)
    BY <1>0, <2>1, <2>2, OnTopCommit
  <2>4. ASSUME NEW h \in Graph, W(h) PROVE WholeIn(edits', h)
    <3>1. edits' \in [Tx -> Nat] /\ \A u \in Tx \ {t} : edits'[u] = edits[u]
      BY <1>0, <2>1, <2>2
    <3>. QED BY <1>0, <2>1, <2>4, <3>1, WholeGrows
  <2>5. /\ db.graph \in Graph /\ wal.graph \in Graph /\ disk.db.graph \in Graph /\ disk.wal.graph \in Graph
        /\ \A q \in Process : base[q] \in Graph /\ pend[q].graph \in Graph
    BY <1>0 DEF File, Pending
  <2>6. /\ WholeIn(edits', db.graph) /\ WholeIn(edits', wal.graph)
        /\ WholeIn(edits', disk.db.graph) /\ WholeIn(edits', disk.wal.graph)
    BY <1>0, <2>4, <2>5 DEF GraphsWhole
  <2>7. \A q \in Process : WholeIn(edits', base[q]) /\ WholeIn(edits', pend[q].graph)
    BY <1>0, <2>4, <2>5 DEF GraphsWhole
  <2>8. \A q \in Process : WholeIn(edits', pend'[q].graph)
    BY <1>0, <2>2, <2>3, <2>7
  <2>. QED BY <2>2, <2>6, <2>7, <2>8 DEF GraphsWhole
<1>9. CASE PowerLoss
  <2>1. W(db'.graph) /\ W(wal'.graph)
    BY <1>0, <1>9 DEF PowerLoss, Survives, GraphsWhole
  <2>2. disk'.db = db' /\ disk'.wal = wal' /\ edits' = edits
    BY <1>9 DEF PowerLoss
  <2>3. \A q \in Process : base'[q] = <<>> /\ pend'[q].graph = <<>>
    BY <1>0, <1>9 DEF PowerLoss
  <2>. QED BY <1>0, <2>1, <2>2, <2>3 DEF GraphsWhole
<1>10. CASE WriteBack
  <2>1. W(disk'.db.graph) /\ W(disk'.wal.graph)
    BY <1>0, <1>10 DEF WriteBack, GraphsWhole
  <2>. QED BY <1>0, <1>10, <2>1 DEF WriteBack, GraphsWhole, files, memory
<1>11. CASE UNCHANGED <<db, wal, base, pend, edits, disk>>
  BY <1>0, <1>11 DEF GraphsWhole
<1>. QED BY <1>2, <1>3, <1>4, <1>5, <1>6, <1>7, <1>8, <1>9, <1>10, <1>11
     DEF Next, AcquireWriteLock, Begin, EditGraph, Rollback, CommitConflict, ClearLock, files, memory,
         history

\* The empty database and a legacy one are whole.
LEMMA WholeInit == Init => WholeInv
<1> SUFFICES ASSUME Init PROVE WholeInv
  OBVIOUS
<1>1. \A g : Len(g) = 0 \/ g = LegacyGraph => WholeIn(edits, g)
  BY DEF WholeIn, LegacyGraph
<1>2. db.graph = <<>> \/ db.graph = LegacyGraph
  BY DEF Init, NoData
<1>3. wal.graph = <<>> /\ Nothing.graph = <<>>
  BY DEF Init, NoData, Nothing
<1>4. disk.db = db /\ disk.wal = wal /\ \A p \in Process : base[p] = <<>> /\ pend[p] = Nothing
  BY DEF Init
<1>5. GraphsWhole
  BY <1>1, <1>2, <1>3, <1>4 DEF GraphsWhole
<1>6. SessionInv
  BY DEF Init, SessionInv
<1>. QED BY <1>5, <1>6 DEF WholeInv

\* Every step keeps the graphs whole and the sessions apart.
LEMMA WholeStep == TypeInv /\ WholeInv /\ [Next]_vars => WholeInv'
<1>1. ASSUME WholeInv, UNCHANGED vars PROVE WholeInv'
  BY <1>1 DEF WholeInv, GraphsWhole, SessionInv, vars, files, memory, history
<1>. QED BY <1>1, SessionInvStep, GraphsStep DEF WholeInv

\* All or nothing, in every environment: through crashes, failed writes, power loss,
\* recoveries and writers that skip the lock, no manager serves and no file holds a
\* part of a transaction, or any edit of one whose commit was not requested.
THEOREM AllOrNothing == Spec => []OnlyWholeCommits
<1>1. WholeInv => OnlyWholeCommits
  BY DEF WholeInv, GraphsWhole, OnlyWholeCommits, WholeTransactions, WholeIn
<1>. QED BY <1>1, TypeInit, TypeStep, WholeInit, WholeStep, PTL DEF Spec

-----------------------------------------------------------------------------
(* No lost update. *)

\* A prefix, element by element.
LEMMA GraphPrefix ==
    ASSUME NEW s \in Graph, NEW t \in Graph
    PROVE  IsPrefixOf(s, t) <=> Len(s) <= Len(t) /\ \A k \in 1..Len(s) : s[k] = t[k]
<1>1. Len(s) \in Nat /\ Len(t) \in Nat
  BY LenProperties DEF Graph
<1>2. ASSUME Len(s) <= Len(t)
      PROVE  /\ SubSeq(t, 1, Len(s)) \in Seq(Edit) /\ Len(SubSeq(t, 1, Len(s))) = Len(s)
             /\ \A k \in 1..Len(s) : SubSeq(t, 1, Len(s))[k] = t[k]
  BY <1>1, <1>2 DEF Graph
<1>3. ASSUME Len(s) <= Len(t), \A k \in 1..Len(s) : s[k] = t[k]
      PROVE  s = SubSeq(t, 1, Len(s))
  BY <1>2, <1>3, SeqEqual DEF Graph
<1>. QED BY <1>2, <1>3 DEF IsPrefixOf

\* Prefixes form a partial order with the empty graph below everything.
LEMMA PrefixOrder ==
    /\ \A g \in Graph : IsPrefixOf(<<>>, g) /\ IsPrefixOf(g, g)
    /\ \A f, g, h \in Graph : IsPrefixOf(f, g) /\ IsPrefixOf(g, h) => IsPrefixOf(f, h)
<1>1. ASSUME NEW g \in Graph PROVE IsPrefixOf(<<>>, g) /\ IsPrefixOf(g, g)
  <2>1. Len(g) \in Nat /\ <<>> \in Graph /\ Len(<<>>) = 0
    BY LenProperties, FileTypes DEF Graph
  <2>. QED BY <2>1, GraphPrefix
<1>2. ASSUME NEW f \in Graph, NEW g \in Graph, NEW h \in Graph, IsPrefixOf(f, g), IsPrefixOf(g, h)
      PROVE  IsPrefixOf(f, h)
  <2>1. Len(f) \in Nat /\ Len(g) \in Nat /\ Len(h) \in Nat
    BY LenProperties DEF Graph
  <2>2. /\ Len(f) <= Len(g) /\ \A k \in 1..Len(f) : f[k] = g[k]
        /\ Len(g) <= Len(h) /\ \A k \in 1..Len(g) : g[k] = h[k]
    BY <1>2, GraphPrefix
  <2>3. Len(f) <= Len(h) /\ \A k \in 1..Len(f) : f[k] = h[k]
    BY <2>1, <2>2
  <2>. QED BY <2>3, GraphPrefix
<1>. QED BY <1>1, <1>2

\* An edit extends the graph it is made on.
LEMMA PrefixAppend ==
    ASSUME NEW g \in Graph, NEW x \in Edit
    PROVE  Append(g, x) \in Graph /\ IsPrefixOf(g, Append(g, x))
<1>1. /\ Len(g) \in Nat /\ Append(g, x) \in Seq(Edit) /\ Len(Append(g, x)) = Len(g) + 1
      /\ \A i \in 1..Len(g) : Append(g, x)[i] = g[i]
  BY AppendProperties, LenProperties DEF Graph
<1>2. Append(g, x) \in Graph
  BY <1>1 DEF Graph
<1>3. Len(g) <= Len(Append(g, x)) /\ \A i \in 1..Len(g) : g[i] = Append(g, x)[i]
  BY <1>1
<1> DEFINE h == Append(g, x)
<1> HIDE DEF h
<1>4. IsPrefixOf(g, h)
  BY <1>2, <1>3, GraphPrefix DEF h
<1>. QED BY <1>2, <1>4 DEF h

\* Without persist_cluster_metadata one process at a time is not closed.
SoloInv == \A p \in Process : pc[p] # "closed" => lock /\ \A q \in Process \ {p} : pc[q] = "closed"

\* What process p has acknowledged is in whatever it serves or may read back.
KeepsAcked(p) ==
    /\ IsPrefixOf(procAcked[p], base[p])
    /\ db.st = "whole" => IsPrefixOf(procAcked[p], db.graph)
    /\ wal.st = "whole" => IsPrefixOf(procAcked[p], wal.graph)
    /\ pend[p].call = "recover" => IsPrefixOf(procAcked[p], pend[p].graph)

\* The commit of p in progress extends the base graph, and its WAL record is
\* written before the snapshot is touched.
CommitInv(p) ==
    pend[p].call = "commit" =>
       /\ IsPrefixOf(base[p], pend[p].graph)
       /\ pc[p] \in {"snap_truncate", "snap_write"} => wal.st = "whole" /\ wal.graph = pend[p].graph

\* A session that would not conflict extends the base graph.
FreshInv(p) ==
    \A t \in DOMAIN sessions[p] :
       /\ sessions[p][t].base <= version[p]
       /\ sessions[p][t].base = version[p] => IsPrefixOf(base[p], sessions[p][t].graph)

\* A process without a manager has nothing in memory.
IdleInv(p) == ~Manager(p) => base[p] = <<>> /\ procAcked[p] = <<>> /\ DOMAIN sessions[p] = {}

ManagerInv == \A p \in Process : KeepsAcked(p) /\ CommitInv(p) /\ FreshInv(p) /\ IdleInv(p)

\* The lock keeps every other process out, recover by an operator included.
LEMMA SoloStep ==
    ASSUME "metadata" \notin Env, TypeInv, SoloInv, [Next]_vars
    PROVE  SoloInv'
<1>1. ASSUME NEW p \in Process, ProcNext(p) PROVE SoloInv'
  <2>0. /\ \A q \in Process \ {p} : pc'[q] = pc[q]
        /\ pc \in [Process -> Pc] /\ CallInv
    BY <1>1, ProcFrame DEF TypeInv, TypeOK
  <2>1. CASE pc[p] # "closed" /\ (lock' = lock \/ pc'[p] = "closed")
    BY <2>0, <2>1 DEF SoloInv
  <2>2. CASE AcquireWriteLock(p)
    BY <2>0, <2>2 DEF AcquireWriteLock, SoloInv
  <2>3. CASE OfflineRecover(p)
    BY <2>0, <2>3 DEF OfflineRecover, SoloInv, NoWriter, files
  <2>4. CASE LoadOrInit(p) \/ Close(p) \/ Kill(p)
    <3>1. pc[p] # "closed" /\ (lock' = lock \/ pc'[p] = "closed")
      BY <2>0, <2>4 DEF LoadOrInit, Close, Kill, Goto
    <3>. QED BY <2>1, <3>1
  <2>5. CASE SnapWrite(p) \/ IoError(p)
    <3>1. pc[p] # "closed" /\ (lock' = lock \/ pc'[p] = "closed")
      BY <2>0, <2>5 DEF SnapWrite, IoError, Writing, Goto
    <3>. QED BY <2>1, <3>1
  <2>6. CASE \/ Begin(p) \/ RecoverFromSnapshot(p) \/ RecoverFromWal(p)
             \/ WalTruncate(p) \/ WalWrite(p) \/ SnapTruncate(p)
    BY <2>1, <2>6 DEF Begin, RecoverFromSnapshot, RecoverFromWal, WalTruncate, WalWrite, SnapTruncate, files
  <2>7. ASSUME NEW t \in Tx, EditGraph(p, t) \/ Rollback(p, t) \/ CommitConflict(p, t) \/ Commit(p, t)
        PROVE  SoloInv'
    BY <2>1, <2>7 DEF EditGraph, Rollback, CommitConflict, Commit, PersistFrom, files
  <2>. QED BY <1>1, <2>2, <2>3, <2>4, <2>5, <2>6, <2>7
       DEF ProcNext, LoadClusterMetadata, PersistClusterMetadata
<1>2. CASE ClearLock
  BY <1>2 DEF ClearLock, NoWriter, SoloInv
<1>3. CASE PowerLoss
  BY <1>3 DEF PowerLoss, SoloInv
<1>4. CASE WriteBack \/ UNCHANGED vars
  BY <1>4 DEF WriteBack, SoloInv, vars, files
<1>. QED BY <1>1, <1>2, <1>3, <1>4 DEF Next, ProcNext

\* The graphs of a state are graphs.
LEMMA GraphTypes ==
    ASSUME TypeInv
    PROVE  /\ db.graph \in Graph /\ wal.graph \in Graph /\ acked \in Graph /\ <<>> \in Graph
           /\ \A p \in Process : base[p] \in Graph /\ pend[p].graph \in Graph /\ procAcked[p] \in Graph
           /\ \A p \in Process : version[p] \in Nat
           /\ \A p \in Process : \A t \in DOMAIN sessions[p] :
                 sessions[p][t].graph \in Graph /\ sessions[p][t].base \in Nat
BY FileTypes DEF TypeInv, TypeOK, File, Pending, Session

\* A process that has acknowledged nothing and has no session has nothing to keep.
EmptyKeeps ==
    \A p \in Process :
       procAcked[p] = <<>> /\ DOMAIN sessions[p] = {} /\ pend[p].call # "commit"
          /\ (base[p] = <<>> \/ Manager(p))
       => KeepsAcked(p) /\ CommitInv(p) /\ FreshInv(p) /\ IdleInv(p)

\* In any state, and so in the next one.
LEMMA NothingToKeep == TypeInv => EmptyKeeps
BY GraphTypes, PrefixOrder DEF EmptyKeeps, KeepsAcked, CommitInv, FreshInv, IdleInv

\* A step of a process that has a manager after it.
LEMMA ManagedStep ==
    ASSUME "metadata" \notin Env, TypeInv, TypeInv', ManagerInv, NEW p \in Process, ProcNext(p)
    PROVE  (KeepsAcked(p) /\ CommitInv(p) /\ FreshInv(p) /\ IdleInv(p))'
<1> DEFINE Goal == (KeepsAcked(p) /\ CommitInv(p) /\ FreshInv(p) /\ IdleInv(p))'
<1>0. /\ KeepsAcked(p) /\ CommitInv(p) /\ FreshInv(p) /\ IdleInv(p)
      /\ pc \in [Process -> Pc] /\ pend \in [Process -> Pending] /\ CallInv
      /\ DOMAIN sessions = Process /\ base \in [Process -> Graph]
      /\ version \in [Process -> Nat] /\ procAcked \in [Process -> Graph]
  BY DEF ManagerInv, TypeInv, TypeOK
<1>1. /\ db.graph \in Graph /\ wal.graph \in Graph /\ base[p] \in Graph /\ pend[p].graph \in Graph
      /\ procAcked[p] \in Graph /\ version[p] \in Nat /\ <<>> \in Graph
      /\ \A t \in DOMAIN sessions[p] : sessions[p][t].graph \in Graph /\ sessions[p][t].base \in Nat
  BY GraphTypes
<1>2. ASSUME procAcked'[p] = <<>>, DOMAIN sessions'[p] = {}, pend'[p].call # "commit",
             base'[p] = <<>> \/ Manager(p)'
      PROVE  Goal
  <2>1. EmptyKeeps'
    BY NothingToKeep, PTL
  <2>. QED BY <1>2, <2>1 DEF EmptyKeeps
<1>3. ASSUME ~Manager(p), base'[p] = base[p], procAcked'[p] = procAcked[p],
             DOMAIN sessions'[p] \in {{}, DOMAIN sessions[p]}, pend'[p].call # "commit"
      PROVE  Goal
  BY <1>0, <1>2, <1>3 DEF IdleInv
<1>4. CASE AcquireWriteLock(p) \/ OfflineRecover(p)
  <2>1. pc[p] = "closed" /\ UNCHANGED memory /\ UNCHANGED procAcked
    BY <1>4 DEF AcquireWriteLock, OfflineRecover, NoWriter, history
  <2>2. pend'[p].call # "commit"
    BY <1>0, <1>4, <2>1 DEF AcquireWriteLock, OfflineRecover, CallInv
  <2>. QED BY <1>3, <2>1, <2>2 DEF Manager, memory
<1>5. CASE LoadOrInit(p)
  <2>0. ~Manager(p) /\ pend[p].call = "none"
    BY <1>0, <1>5 DEF LoadOrInit, Manager, CallInv
  <2>1. CASE db.st = "whole"
    <3>1. /\ pc'[p] = "open" /\ pend'[p] = pend[p] /\ procAcked'[p] = <<>> /\ DOMAIN sessions'[p] = {}
      BY <1>0, <1>5, <2>1 DEF LoadOrInit, Goto, Manage
    <3>2. Manager(p)'
      BY <2>0, <3>1 DEF Manager, Unmanaged
    <3>. QED BY <1>2, <2>0, <3>1, <3>2
  <2>2. CASE db.st # "whole"
    <3>1. UNCHANGED <<memory, procAcked>>
      BY <1>5, <2>2 DEF LoadOrInit
    <3>2. pend'[p].call # "commit"
      BY <1>0, <1>5, <2>0, <2>2 DEF LoadOrInit, Nothing
    <3>. QED BY <1>3, <2>0, <3>1, <3>2 DEF memory
  <2>. QED BY <2>1, <2>2
<1>6. CASE Close(p) \/ Kill(p)
  <2>1. /\ procAcked'[p] = <<>> /\ DOMAIN sessions'[p] = {} /\ base'[p] = <<>> /\ pend'[p] = Nothing
    BY <1>0, <1>6 DEF Close, Kill, Forget, Manage
  <2>. QED BY <1>2, <2>1, FileTypes
<1>7. ASSUME UNCHANGED <<base, version, procAcked, pend, db, wal>>, Manager(p),
             pc'[p] = "open", pc[p] = "open", FreshInv(p)'
      PROVE  Goal
  BY <1>0, <1>7 DEF KeepsAcked, CommitInv, IdleInv, Manager
<1>8. CASE Begin(p)
  <2>1. /\ UNCHANGED <<pc, base, version, procAcked, pend, db, wal>> /\ pc[p] = "open"
        /\ \A t \in DOMAIN sessions'[p] : \/ t \in DOMAIN sessions[p] /\ sessions'[p][t] = sessions[p][t]
                                          \/ sessions'[p][t] = [graph |-> base[p], base |-> version[p]]
    BY <1>0, <1>8 DEF Begin, files
  <2>2. FreshInv(p)'
    <3>1. IsPrefixOf(base[p], base[p])
      BY <1>1, PrefixOrder
    <3>2. ASSUME NEW t \in DOMAIN sessions'[p]
          PROVE  /\ sessions'[p][t].base <= version[p]
                 /\ sessions'[p][t].base = version[p] => IsPrefixOf(base[p], sessions'[p][t].graph)
      <4>1. CASE t \in DOMAIN sessions[p] /\ sessions'[p][t] = sessions[p][t]
        BY <1>0, <4>1 DEF FreshInv
      <4>2. CASE sessions'[p][t] = [graph |-> base[p], base |-> version[p]]
        BY <1>1, <3>1, <4>2
      <4>. QED BY <2>1, <4>1, <4>2
    <3>. QED BY <2>1, <3>2 DEF FreshInv
  <2>3. Manager(p)
    BY <1>0, <2>1 DEF Manager, CallInv, Unmanaged
  <2>. QED BY <1>7, <2>1, <2>2, <2>3
<1>9. ASSUME NEW t \in Tx, EditGraph(p, t) PROVE Goal
  <2> DEFINE g == sessions[p][t].graph
             x == [tx |-> t, n |-> Own(t, g) + 1]
  <2>1. t \in DOMAIN sessions[p] /\ g \in Graph /\ sessions[p][t] \in Session
    <3>1. t \in DOMAIN sessions[p]
      BY <1>9 DEF EditGraph
    <3>2. sessions[p][t] \in Session
      BY <3>1 DEF TypeInv, TypeOK
    <3>. QED BY <1>1, <3>1, <3>2
  <2>2. x \in Edit
    BY <2>1, OwnType DEF Edit
  <2>3. Append(g, x) \in Graph /\ IsPrefixOf(g, Append(g, x))
    BY <2>1, <2>2, PrefixAppend
  <2>4. sessions' = [sessions EXCEPT ![p] =
                      [sessions[p] EXCEPT ![t] = [sessions[p][t] EXCEPT !.graph = Append(g, x)]]]
    BY <1>0, <1>9, <2>1 DEF EditGraph
  <2>5. /\ [sessions[p][t] EXCEPT !.graph = Append(g, x)].graph = Append(g, x)
        /\ [sessions[p][t] EXCEPT !.graph = Append(g, x)].base = sessions[p][t].base
    BY <2>1 DEF Session
  <2>6. /\ DOMAIN sessions'[p] = DOMAIN sessions[p]
        /\ sessions'[p][t].graph = Append(g, x) /\ sessions'[p][t].base = sessions[p][t].base
        /\ \A u \in DOMAIN sessions[p] \ {t} : sessions'[p][u] = sessions[p][u]
    <3> HIDE DEF g, x
    <3>. QED BY <1>0, <2>1, <2>4, <2>5
  <2>7. UNCHANGED <<pc, base, version, procAcked, pend, db, wal>> /\ pc[p] = "open"
    BY <1>9 DEF EditGraph, files, history
  <2>8. sessions[p][t].base = version[p] => IsPrefixOf(base[p], Append(g, x))
    BY <1>0, <1>1, <2>1, <2>3, PrefixOrder DEF FreshInv
  <2>9. FreshInv(p)'
    <3> HIDE DEF g, x
    <3>1. ASSUME NEW u \in DOMAIN sessions'[p]
          PROVE  /\ sessions'[p][u].base <= version'[p]
                 /\ sessions'[p][u].base = version'[p] => IsPrefixOf(base'[p], sessions'[p][u].graph)
      <4>1. CASE u = t
        BY <1>0, <2>1, <2>6, <2>7, <2>8, <4>1 DEF FreshInv
      <4>2. CASE u # t
        BY <1>0, <2>6, <2>7, <3>1, <4>2 DEF FreshInv
      <4>. QED BY <4>1, <4>2
    <3>. QED BY <3>1 DEF FreshInv
  <2>10. Manager(p)
    BY <1>0, <2>7 DEF Manager, CallInv, Unmanaged
  <2>. QED BY <1>7, <2>7, <2>9, <2>10
<1>10. ASSUME NEW t \in Tx, Rollback(p, t) \/ CommitConflict(p, t) PROVE Goal
  <2>1. /\ UNCHANGED <<pc, base, version, procAcked, pend, db, wal>> /\ pc[p] = "open"
        /\ sessions'[p] = Without(sessions[p], t)
    BY <1>0, <1>10 DEF Rollback, CommitConflict, files, history
  <2>2. FreshInv(p)'
    BY <1>0, <2>1 DEF FreshInv, Without
  <2>3. Manager(p)
    BY <1>0, <2>1 DEF Manager, CallInv, Unmanaged
  <2>. QED BY <1>7, <2>1, <2>2, <2>3
<1>11. ASSUME NEW t \in Tx, Commit(p, t) PROVE Goal
  <2> DEFINE g == sessions[p][t].graph
  <2>1. /\ t \in DOMAIN sessions[p] /\ sessions[p][t].base = version[p] /\ pc'[p] = "wal_truncate"
        /\ sessions'[p] = Without(sessions[p], t) /\ UNCHANGED <<base, version, procAcked, db, wal>>
        /\ pend'[p] = [call |-> "commit", graph |-> g, meta |-> NoMeta]
    BY <1>0, <1>11 DEF Commit, PersistFrom, Goto, files
  <2>2. FreshInv(p)'
    BY <1>0, <2>1 DEF FreshInv, Without
  <2>3. CommitInv(p)' /\ KeepsAcked(p)'
    BY <1>0, <2>1 DEF CommitInv, KeepsAcked, FreshInv
  <2>4. Manager(p)'
    BY <2>1 DEF Manager, Unmanaged
  <2>. QED BY <2>2, <2>3, <2>4 DEF IdleInv
<1>12. CASE WalTruncate(p) \/ WalWrite(p)
  <2>1. /\ UNCHANGED <<base, version, sessions, procAcked, pend, db>> /\ pend[p].call = "commit"
        /\ \/ wal'.st = "empty" /\ pc'[p] = "wal_write"
           \/ wal'.st = "whole" /\ wal'.graph = pend[p].graph /\ pc'[p] = "snap_truncate"
    BY <1>0, <1>12 DEF WalTruncate, WalWrite, NoData, Snapshot, Goto, memory, history, CallInv
  <2>2. IsPrefixOf(procAcked[p], pend[p].graph)
    BY <1>0, <1>1, <2>1, PrefixOrder DEF KeepsAcked, CommitInv
  <2>3. KeepsAcked(p)' /\ CommitInv(p)'
    BY <1>0, <2>1, <2>2 DEF KeepsAcked, CommitInv
  <2>4. Manager(p)'
    BY <2>1 DEF Manager, Unmanaged
  <2>. QED BY <1>0, <2>1, <2>3, <2>4 DEF FreshInv, IdleInv
<1>13. CASE SnapTruncate(p)
  <2>1. /\ UNCHANGED <<base, version, sessions, procAcked, pend, wal>> /\ db'.st = "torn"
        /\ pc[p] = "snap_truncate" /\ pc'[p] = "snap_write"
    BY <1>0, <1>13 DEF SnapTruncate, NoData, Goto, memory, history
  <2>. QED BY <1>0, <2>1 DEF KeepsAcked, CommitInv, FreshInv, IdleInv, Manager
<1>14. CASE SnapWrite(p)
  <2>0. pc[p] = "snap_write" /\ db'.st = "whole" /\ db'.graph = pend[p].graph /\ wal' = wal
    BY <1>14 DEF SnapWrite, Snapshot
  <2>1. CASE pend[p].call = "commit"
    <3>1. /\ base'[p] = pend[p].graph /\ procAcked'[p] = pend[p].graph /\ version'[p] = version[p] + 1
          /\ sessions' = sessions /\ pend'[p] = Nothing /\ pc'[p] = "open"
      BY <1>0, <1>14, <2>1 DEF SnapWrite, Goto
    <3>2. wal.graph = pend[p].graph /\ IsPrefixOf(pend[p].graph, pend[p].graph)
      BY <1>0, <1>1, <2>0, <2>1, PrefixOrder DEF CommitInv
    <3>3. KeepsAcked(p)'
      BY <2>0, <3>1, <3>2, FileTypes DEF KeepsAcked
    <3>4. FreshInv(p)'
      BY <1>0, <1>1, <3>1 DEF FreshInv
    <3>5. Manager(p)'
      BY <3>1, FileTypes DEF Manager, Unmanaged
    <3>. QED BY <3>1, <3>3, <3>4, <3>5, FileTypes DEF CommitInv, IdleInv
  <2>2. CASE pend[p].call = "recover"
    <3>1. /\ base'[p] = pend[p].graph /\ procAcked'[p] = procAcked[p]
          /\ DOMAIN sessions'[p] = {} /\ pend'[p] = Nothing /\ pc'[p] = "open"
      BY <1>0, <1>14, <2>2 DEF SnapWrite, Goto
    <3>2. KeepsAcked(p)'
      BY <1>0, <2>0, <2>2, <3>1, FileTypes DEF KeepsAcked
    <3>3. Manager(p)'
      BY <3>1, FileTypes DEF Manager, Unmanaged
    <3>. QED BY <3>1, <3>2, <3>3, FileTypes DEF CommitInv, FreshInv, IdleInv
  <2>3. CASE pend[p].call = "migrate"
    <3>1. /\ pc'[p] = "open" /\ pend'[p] = Nothing /\ procAcked'[p] = <<>> /\ DOMAIN sessions'[p] = {}
      BY <1>0, <1>14, <2>3 DEF SnapWrite, Goto, Manage
    <3>2. Manager(p)'
      BY <3>1, FileTypes DEF Manager, Unmanaged
    <3>. QED BY <1>2, <3>1, <3>2, FileTypes
  <2>4. CASE pend[p].call \notin {"commit", "recover", "migrate"}
    <3>1. UNCHANGED <<memory, procAcked>> /\ pend[p].call \in Unmanaged
      BY <1>14, <2>4 DEF SnapWrite, Unmanaged
    <3>2. pend'[p].call # "commit"
      BY <1>0, <1>14, FileTypes DEF SnapWrite, Pending
    <3>. QED BY <1>3, <3>1, <3>2 DEF Manager, memory
  <2>. QED BY <2>1, <2>2, <2>3, <2>4
<1>15. CASE RecoverFromSnapshot(p)
  <2>1. /\ base'[p] = db.graph /\ DOMAIN sessions'[p] = {} /\ UNCHANGED <<procAcked, pend, pc, db, wal>>
        /\ pc[p] = "open" /\ db.st = "whole"
    BY <1>0, <1>15 DEF RecoverFromSnapshot, files, history
  <2>2. pend[p].call = "none"
    BY <1>0, <2>1 DEF CallInv
  <2>. QED BY <1>0, <2>1, <2>2 DEF KeepsAcked, CommitInv, FreshInv, IdleInv, Manager, Unmanaged
<1>16. CASE RecoverFromWal(p)
  <2>1. /\ UNCHANGED <<base, version, sessions, procAcked, db, wal>> /\ wal.st = "whole"
        /\ pend'[p].call = "recover" /\ pend'[p].graph = wal.graph /\ pc'[p] = "snap_truncate"
    BY <1>0, <1>16 DEF RecoverFromWal, Goto, files, memory, history
  <2>. QED BY <1>0, <2>1 DEF KeepsAcked, CommitInv, FreshInv, IdleInv, Manager, Unmanaged
<1>17. CASE IoError(p)
  <2>0. /\ UNCHANGED <<base, version, sessions, procAcked, db>> /\ pend'[p] = Nothing
        /\ wal' = wal \/ wal'.st = "torn"
    BY <1>0, <1>17 DEF IoError, PartialWrite, NoData, memory, history
  <2>1. CASE pend[p].call \in {"commit", "recover"}
    <3>1. pc'[p] = "open"
      BY <1>0, <1>17, <2>1 DEF IoError, Goto
    <3>2. Manager(p)'
      BY <2>0, <3>1, FileTypes DEF Manager, Unmanaged
    <3>. QED BY <1>0, <2>0, <3>2, FileTypes DEF KeepsAcked, CommitInv, FreshInv, IdleInv
  <2>2. CASE pend[p].call \notin {"commit", "recover"}
    <3>1. ~Manager(p)
      BY <1>0, <1>17, <2>2 DEF IoError, Manager, Unmanaged, CallInv, Writing
    <3>. QED BY <1>3, <2>0, <3>1, FileTypes
  <2>. QED BY <2>1, <2>2
<1>. QED BY <1>4, <1>5, <1>6, <1>8, <1>9, <1>10, <1>11, <1>12, <1>13, <1>14, <1>15, <1>16, <1>17
     DEF ProcNext, LoadClusterMetadata, PersistClusterMetadata

\* A process that takes a step is not closed before and after it.
LEMMA ProcMoves ==
    ASSUME TypeInv, NEW p \in Process, ProcNext(p)
    PROVE  pc[p] # "closed" \/ pc'[p] # "closed"
<1>1. pc \in [Process -> Pc]
  BY DEF TypeInv, TypeOK
<1>. QED BY <1>1 DEF ProcNext, AcquireWriteLock, LoadOrInit, Close, Begin, EditGraph, Rollback,
     CommitConflict, Commit, PersistFrom, WalTruncate, WalWrite, SnapTruncate, SnapWrite,
     RecoverFromSnapshot, RecoverFromWal, OfflineRecover, LoadClusterMetadata,
     PersistClusterMetadata, IoError, Writing, Kill, Goto

\* Every step keeps what the managers hold.
LEMMA ManagerStep ==
    ASSUME "metadata" \notin Env, TypeInv, TypeInv', SoloInv, SoloInv', ManagerInv, [Next]_vars
    PROVE  ManagerInv'
<1>0. EmptyKeeps'
  BY NothingToKeep, PTL
<1>1. ASSUME NEW p \in Process, ProcNext(p) PROVE ManagerInv'
  <2>1. (KeepsAcked(p) /\ CommitInv(p) /\ FreshInv(p) /\ IdleInv(p))'
    BY <1>1, ManagedStep
  <2>2. pc[p] # "closed" \/ pc'[p] # "closed"
    BY <1>1, ProcMoves
  <2>3. ASSUME NEW q \in Process \ {p}
        PROVE  (KeepsAcked(q) /\ CommitInv(q) /\ FreshInv(q) /\ IdleInv(q))'
    <3>1. /\ pc'[q] = pc[q] /\ pend'[q] = pend[q] /\ base'[q] = base[q]
          /\ sessions'[q] = sessions[q] /\ procAcked'[q] = procAcked[q]
      BY <1>1, ProcFrame
    <3>2. pc[q] = "closed"
      BY <2>2, <3>1 DEF SoloInv
    <3>3. base[q] = <<>> /\ procAcked[q] = <<>> /\ DOMAIN sessions[q] = {} /\ pend[q].call = "none"
      BY <3>2 DEF ManagerInv, IdleInv, Manager, TypeInv, CallInv
    <3>. QED BY <1>0, <3>1, <3>3 DEF EmptyKeeps
  <2>. QED BY <2>1, <2>3 DEF ManagerInv
<1>2. CASE PowerLoss
  <2>1. ASSUME NEW q \in Process
        PROVE  (KeepsAcked(q) /\ CommitInv(q) /\ FreshInv(q) /\ IdleInv(q))'
    <3>1. base'[q] = <<>> /\ procAcked'[q] = <<>> /\ DOMAIN sessions'[q] = {} /\ pend'[q] = Nothing
      BY <1>2 DEF PowerLoss
    <3>. QED BY <1>0, <3>1, FileTypes DEF EmptyKeeps
  <2>. QED BY <2>1 DEF ManagerInv
<1>3. CASE ClearLock \/ WriteBack \/ UNCHANGED vars
  <2>1. UNCHANGED <<pc, pend, base, version, sessions, procAcked, db, wal>>
    BY <1>3 DEF ClearLock, WriteBack, vars, files, memory, history
  <2>. QED BY <2>1 DEF ManagerInv, KeepsAcked, CommitInv, FreshInv, IdleInv, Manager
<1>. QED BY <1>1, <1>2, <1>3 DEF Next, ProcNext

\* No process, nothing to keep.
LEMMA ManagerInit == Init => SoloInv /\ ManagerInv
<1> SUFFICES ASSUME Init PROVE SoloInv /\ ManagerInv
  OBVIOUS
<1>1. TypeInv
  BY TypeInit
<1>2. ASSUME NEW p \in Process
      PROVE  pc[p] = "closed" /\ KeepsAcked(p) /\ CommitInv(p) /\ FreshInv(p) /\ IdleInv(p)
  <2>1. /\ pc[p] = "closed" /\ base[p] = <<>> /\ procAcked[p] = <<>> /\ DOMAIN sessions[p] = {}
        /\ pend[p] = Nothing
    BY DEF Init
  <2>. QED BY <1>1, <2>1, NothingToKeep, FileTypes DEF EmptyKeeps
<1>. QED BY <1>2 DEF SoloInv, ManagerInv

\* No lost update wherever writers keep to the lock: while a process has the database
\* open, its base graph extends every commit it has acknowledged, through write
\* errors, power loss and whatever recover reads back.
THEOREM NoLostUpdate ==
    ASSUME "metadata" \notin Env
    PROVE  Spec => []BaseExtendsAcked
<1> DEFINE Inv == TypeInv /\ SoloInv /\ ManagerInv
<1>1. Init => Inv
  BY TypeInit, ManagerInit
<1>2. Inv /\ [Next]_vars => Inv'
  BY TypeStep, SoloStep, ManagerStep
<1>3. Inv => BaseExtendsAcked
  BY DEF ManagerInv, KeepsAcked, BaseExtendsAcked
<1>. QED BY <1>1, <1>2, <1>3, PTL DEF Spec

-----------------------------------------------------------------------------
(* An acknowledged commit survives. *)

\* What was acknowledged last is in every file that decodes, and one of them does.
FilesKeep ==
    /\ db.st = "whole" => IsPrefixOf(acked, db.graph)
    /\ wal.st = "whole" => IsPrefixOf(acked, wal.graph)
    /\ db.st \in {"absent", "torn", "whole"}
    /\ db.st = "absent" => acked = <<>>
    /\ db.st = "torn" => wal.st = "whole" \/ acked = <<>>

\* It is also in what a manager serves and in what a call is about to write; the
\* WAL is rewritten only over a whole snapshot and the snapshot over a whole WAL.
CallKeeps(p) ==
    /\ Manager(p) => IsPrefixOf(acked, base[p])
    /\ pc[p] \in {"open", "wal_truncate", "wal_write"} => db.st = "whole"
    /\ pend[p].call \in {"none", "init", "commit", "recover", "offline"}
    /\ pend[p].call \in {"recover", "offline"} => wal.st = "whole" /\ IsPrefixOf(acked, pend[p].graph)
    /\ pend[p].call = "init" => acked = <<>>

AckInv == FilesKeep /\ \A p \in Process : CallKeeps(p)

\* With nothing but crashes and operators, every step keeps the acknowledged commit,
\* and a new one extends it.
LEMMA AckStep ==
    ASSUME Env \subseteq {"operator"}, TypeInv, SoloInv, SoloInv', ManagerInv, AckInv, [Next]_vars
    PROVE  AckInv' /\ (acked' # acked => IsPrefixOf(acked, acked'))
<1>1. ASSUME NEW p \in Process, ProcNext(p)
      PROVE  AckInv' /\ (acked' # acked => IsPrefixOf(acked, acked'))
  <2> DEFINE Goal == FilesKeep' /\ CallKeeps(p)' /\ (acked' # acked => IsPrefixOf(acked, acked'))
  <2>0. /\ FilesKeep /\ CallKeeps(p) /\ KeepsAcked(p) /\ CommitInv(p)
        /\ pc \in [Process -> Pc] /\ pend \in [Process -> Pending] /\ CallInv
        /\ base \in [Process -> Graph]
    BY DEF AckInv, ManagerInv, TypeInv, TypeOK
  <2>1. /\ db.graph \in Graph /\ wal.graph \in Graph /\ base[p] \in Graph /\ pend[p].graph \in Graph
        /\ acked \in Graph
    BY GraphTypes
  <2>2. ASSUME AcquireWriteLock(p) PROVE Goal
    <3>1. /\ UNCHANGED <<db, wal, acked, pend>> /\ pc'[p] = "load" /\ pend[p].call = "none"
      BY <2>0, <2>2 DEF AcquireWriteLock, Goto, history, CallInv
    <3>. QED BY <2>0, <3>1 DEF FilesKeep, CallKeeps, Manager
  <2>3. ASSUME LoadOrInit(p) PROVE Goal
    <3>0. UNCHANGED <<db, wal, acked>> /\ pc[p] = "load" /\ pend[p].call = "none"
      BY <2>0, <2>3 DEF LoadOrInit, CallInv
    <3>1. CASE db.st = "absent"
      <4>1. pend'[p].call = "init" /\ pc'[p] = "snap_truncate"
        BY <2>0, <2>3, <3>1 DEF LoadOrInit, Goto, Nothing
      <4>. QED BY <2>0, <3>0, <3>1, <4>1 DEF FilesKeep, CallKeeps, Manager, Unmanaged
    <3>2. CASE db.st = "whole"
      <4>1. pend' = pend /\ pc'[p] = "open" /\ base'[p] = db.graph
        BY <2>0, <2>3, <3>2 DEF LoadOrInit, Goto, Manage
      <4>. QED BY <2>0, <3>0, <3>2, <4>1 DEF FilesKeep, CallKeeps
    <3>3. CASE db.st = "torn"
      <4>1. pend' = pend /\ pc'[p] = "closed"
        BY <2>0, <2>3, <3>3 DEF LoadOrInit, Goto
      <4>. QED BY <2>0, <3>0, <4>1 DEF FilesKeep, CallKeeps, Manager
    <3>. QED BY <2>0, <3>1, <3>2, <3>3 DEF FilesKeep
  <2>4. ASSUME Close(p) PROVE Goal
    <3>1. UNCHANGED <<db, wal, acked>> /\ pc'[p] = "closed" /\ pend'[p].call = "none"
      BY <2>0, <2>4, FileTypes DEF Close, Forget, Goto
    <3>. QED BY <2>0, <3>1 DEF FilesKeep, CallKeeps, Manager
  <2>5. ASSUME Kill(p) PROVE Goal
    <3>1. /\ UNCHANGED <<db, acked>> /\ pc'[p] = "closed" /\ pend'[p].call = "none"
          /\ wal' = wal \/ (wal'.st = "torn" /\ pc[p] = "wal_write")
      <4>1. PartialWrite(p) /\ NoData("torn").st = "torn"
        BY <2>5 DEF Kill, NoData
      <4>2. UNCHANGED db /\ (wal' = wal \/ (wal'.st = "torn" /\ pc[p] = "wal_write"))
        BY <4>1 DEF PartialWrite
      <4>3. pc'[p] = "closed" /\ pend'[p] = Nothing /\ acked' = acked
        BY <2>0, <2>5 DEF Kill, Forget, Goto
      <4>. QED BY <4>2, <4>3, FileTypes
    <3>. QED BY <2>0, <3>1 DEF FilesKeep, CallKeeps, Manager
  <2>6. ASSUME Begin(p) PROVE Goal
    BY <2>0, <2>6 DEF Begin, files, FilesKeep, CallKeeps, Manager
  <2>7. ASSUME NEW t \in Tx, EditGraph(p, t) \/ Rollback(p, t) \/ CommitConflict(p, t) PROVE Goal
    <3>1. UNCHANGED <<db, wal, acked, pend, pc, base>>
      BY <2>7 DEF EditGraph, Rollback, CommitConflict, files, history
    <3>. QED BY <2>0, <3>1 DEF FilesKeep, CallKeeps, Manager
  <2>8. ASSUME NEW t \in Tx, Commit(p, t) PROVE Goal
    <3>1. /\ UNCHANGED <<db, wal, acked, base>> /\ pc[p] = "open" /\ pc'[p] = "wal_truncate"
          /\ pend'[p].call = "commit"
      BY <2>0, <2>8 DEF Commit, PersistFrom, Goto, files
    <3>2. Manager(p)
      BY <2>0, <3>1 DEF Manager, CallInv, Unmanaged
    <3>. QED BY <2>0, <3>1, <3>2 DEF FilesKeep, CallKeeps
  <2>9. ASSUME WalTruncate(p) PROVE Goal
    <3>1. /\ UNCHANGED <<db, acked, base, pend>> /\ pc[p] = "wal_truncate" /\ pc'[p] = "wal_write"
          /\ pend[p].call = "commit" /\ wal'.st = "empty"
      BY <2>0, <2>9 DEF WalTruncate, Goto, NoData, memory, history, CallInv
    <3>. QED BY <2>0, <3>1 DEF FilesKeep, CallKeeps, Manager
  <2>10. ASSUME WalWrite(p) PROVE Goal
    <3>1. /\ UNCHANGED <<db, acked, base, pend>> /\ pc[p] = "wal_write" /\ pc'[p] = "snap_truncate"
          /\ pend[p].call = "commit" /\ wal'.st = "whole" /\ wal'.graph = pend[p].graph
      BY <2>0, <2>10 DEF WalWrite, Goto, Snapshot, memory, history, CallInv
    <3>2. Manager(p)
      BY <3>1 DEF Manager, Unmanaged
    <3>3. IsPrefixOf(acked, pend[p].graph)
      BY <2>0, <2>1, <3>1, <3>2, PrefixOrder DEF CallKeeps, CommitInv
    <3>. QED BY <2>0, <3>1, <3>2, <3>3 DEF FilesKeep, CallKeeps
  <2>11. ASSUME SnapTruncate(p) PROVE Goal
    <3>1. /\ UNCHANGED <<wal, acked, base, pend>> /\ pc[p] = "snap_truncate" /\ pc'[p] = "snap_write"
          /\ pend[p].call # "none" /\ db'.st = "torn"
      BY <2>0, <2>11 DEF SnapTruncate, Goto, NoData, memory, history, CallInv
    <3>2. wal.st = "whole" \/ acked = <<>>
      BY <2>0, <3>1 DEF CallKeeps, CommitInv
    <3>. QED BY <2>0, <3>1, <3>2 DEF FilesKeep, CallKeeps, Manager
  <2>12. ASSUME SnapWrite(p) PROVE Goal
    <3>0. /\ db'.st = "whole" /\ db'.graph = pend[p].graph /\ wal' = wal
          /\ pc[p] = "snap_write" /\ pend[p].call \in {"init", "commit", "recover", "offline"}
      BY <2>0, <2>12 DEF SnapWrite, Snapshot, CallKeeps, CallInv
    <3>1. pend'[p].call = "none"
      BY <2>0, <2>12, <3>0, FileTypes DEF SnapWrite
    <3>2. CASE pend[p].call = "commit"
      <4>1. acked' = pend[p].graph /\ base'[p] = pend[p].graph /\ pc'[p] = "open"
        BY <2>0, <2>12, <3>2 DEF SnapWrite, Goto
      <4>2. wal.graph = pend[p].graph /\ IsPrefixOf(base[p], pend[p].graph) /\ Manager(p)
        BY <2>0, <3>0, <3>2 DEF CommitInv, Manager, Unmanaged
      <4>3. IsPrefixOf(acked, pend[p].graph) /\ IsPrefixOf(pend[p].graph, pend[p].graph)
        BY <2>0, <2>1, <4>2, PrefixOrder DEF CallKeeps
      <4>. QED BY <3>0, <3>1, <4>1, <4>2, <4>3 DEF FilesKeep, CallKeeps
    <3>3. CASE pend[p].call = "recover"
      <4>1. acked' = acked /\ base'[p] = pend[p].graph /\ pc'[p] = "open"
        BY <2>0, <2>12, <3>3 DEF SnapWrite, Goto
      <4>. QED BY <2>0, <3>0, <3>1, <3>3, <4>1 DEF FilesKeep, CallKeeps
    <3>4. CASE pend[p].call \in {"init", "offline"}
      <4>1. acked' = acked /\ pc'[p] \in {"load", "closed"}
        BY <2>0, <2>12, <3>4 DEF SnapWrite, Goto
      <4>2. IsPrefixOf(acked, pend[p].graph)
        BY <2>0, <2>1, <3>4, PrefixOrder DEF CallKeeps
      <4>. QED BY <2>0, <3>0, <3>1, <4>1, <4>2 DEF FilesKeep, CallKeeps, Manager
    <3>. QED BY <3>0, <3>2, <3>3, <3>4
  <2>13. ASSUME RecoverFromSnapshot(p) PROVE Goal
    <3>1. UNCHANGED <<db, wal, acked, pend, pc>> /\ base'[p] = db.graph /\ db.st = "whole"
      BY <2>0, <2>13 DEF RecoverFromSnapshot, files, history
    <3>. QED BY <2>0, <3>1 DEF FilesKeep, CallKeeps, Manager
  <2>14. ASSUME RecoverFromWal(p) PROVE Goal
    <3>1. /\ UNCHANGED <<db, wal, acked, base>> /\ pc[p] = "open" /\ pend[p].call = "none"
          /\ wal.st = "whole"
          /\ pc'[p] = "snap_truncate" /\ pend'[p].call = "recover" /\ pend'[p].graph = wal.graph
      BY <2>0, <2>14 DEF RecoverFromWal, Goto, files, memory, history, CallInv
    <3>2. Manager(p)
      BY <3>1 DEF Manager, Unmanaged
    <3>. QED BY <2>0, <3>1, <3>2 DEF FilesKeep, CallKeeps
  <2>15. ASSUME OfflineRecover(p) PROVE Goal
    <3>1. /\ UNCHANGED <<db, wal, acked, base>> /\ wal.st = "whole"
          /\ pc'[p] = "snap_truncate" /\ pend'[p].call = "offline" /\ pend'[p].graph = wal.graph
      BY <2>0, <2>15 DEF OfflineRecover, Goto, files, memory, history
    <3>. QED BY <2>0, <3>1 DEF FilesKeep, CallKeeps, Manager, Unmanaged
  <2>16. Goal
    BY <1>1, <2>2, <2>3, <2>4, <2>5, <2>6, <2>7, <2>8, <2>9, <2>10, <2>11, <2>12, <2>13, <2>14, <2>15
       DEF ProcNext, LoadClusterMetadata, PersistClusterMetadata, IoError
  <2>17. ASSUME NEW q \in Process \ {p} PROVE CallKeeps(q)'
    <3>1. pc[p] # "closed" \/ pc'[p] # "closed"
      BY <1>1, ProcMoves
    <3>2. pc'[q] = pc[q] /\ pend'[q] = pend[q]
      BY <1>1, ProcFrame
    <3>3. pc[q] = "closed"
      BY <3>1, <3>2 DEF SoloInv
    <3>4. pend[q].call = "none"
      BY <2>0, <3>3 DEF CallInv
    <3>. QED BY <3>2, <3>3, <3>4 DEF CallKeeps, Manager
  <2>. QED BY <2>16, <2>17 DEF AckInv
<1>2. CASE ClearLock \/ UNCHANGED vars
  <2>1. UNCHANGED <<db, wal, acked, pend, pc, base>>
    BY <1>2 DEF ClearLock, vars, files, memory, history
  <2>. QED BY <2>1 DEF AckInv, FilesKeep, CallKeeps, Manager
<1>. QED BY <1>1, <1>2 DEF Next, ProcNext, WriteBack, PowerLoss

\* Nothing acknowledged, no database.
LEMMA AckInit ==
    ASSUME Env \subseteq {"operator"}, Init
    PROVE  AckInv
<1>1. db = NoData("absent") /\ wal = NoData("absent") /\ acked = <<>>
  BY DEF Init, NoData
<1>2. \A p \in Process : pc[p] = "closed" /\ pend[p].call = "none"
  BY FileTypes DEF Init
<1>. QED BY <1>1, <1>2 DEF AckInv, FilesKeep, CallKeeps, Manager, NoData

\* Killed processes and the operators that clean up after them lose nothing: as long
\* as writes do not fail and the machine stays up, one of the two files decodes to a
\* graph that extends the last acknowledged commit.
THEOREM CommitsSurvive ==
    ASSUME Env \subseteq {"operator"}
    PROVE  Spec => []AckedRecoverable
<1> DEFINE Inv == TypeInv /\ SoloInv /\ ManagerInv /\ AckInv
<1>1. Init => Inv
  BY TypeInit, ManagerInit, AckInit
<1>2. Inv /\ [Next]_vars => Inv'
  BY TypeStep, SoloStep, ManagerStep, AckStep
<1>3. Inv => AckedRecoverable
  BY DEF AckInv, FilesKeep, AckedRecoverable
<1>. QED BY <1>1, <1>2, <1>3, PTL DEF Spec

\* And the commits form one chain: each acknowledged graph extends the one before it,
\* whichever process made it and whatever crashed in between.
THEOREM CommitsSerialize ==
    ASSUME Env \subseteq {"operator"}
    PROVE  Spec => CommitsChain
<1> DEFINE Inv == TypeInv /\ SoloInv /\ ManagerInv /\ AckInv
           Chain == acked' # acked => IsPrefixOf(acked, acked')
<1>1. Init => Inv
  BY TypeInit, ManagerInit, AckInit
<1>2. Inv /\ [Next]_vars => Inv' /\ Chain
  BY TypeStep, SoloStep, ManagerStep, AckStep
<1>. QED BY <1>1, <1>2, PTL DEF Spec, CommitsChain
=============================================================================
