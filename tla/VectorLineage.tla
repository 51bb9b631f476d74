--------------------------- MODULE VectorLineage ---------------------------
(***************************************************************************)
(* The vector blobs of the native sidecar (src/bin/aira-graphdb-native.rs):*)
(* a generation publishes a segment with the vectors written since the     *)
(* last one, linked to its parent, or compacts the chain into a new base.  *)
(* NativeStore shows that a generation is published atomically; here a     *)
(* commit has three steps (blob, canonical JSON, memory), a crash may fall *)
(* between any two, and the question is whether every vector of every      *)
(* published generation can be read back from the blobs.                   *)
(*                                                                         *)
(* A blob's name holds the digest of its bytes, and its header the digest  *)
(* of its parent: the name stands for the whole chain, and a blob is the   *)
(* sequence of the segments it reaches, its own first.  The slice of a     *)
(* payload that a blobRef names is modelled as the vector stored there.    *)
(***************************************************************************)
EXTENDS Naturals, Sequences, FiniteSets, Functions, FiniteSetsExt

CONSTANTS
    Key,              \* vector keys (corpus and id)
    Value,            \* vectors: records with a tag and a len
    NoRef,            \* blobRef: null
    NoValue,          \* no inline values
    Stores,           \* the kinds of database found at first, subset of Store
    HeaderBytes,      \* size of a segment header
    CompactSegments,  \* COMPACT_AT_LINEAGE_SEGMENTS
    MaxLineage,       \* MAX_VECTOR_BLOB_LINEAGE
    CompactBytes,     \* COMPACT_AT_LINEAGE_BYTES
    CeilingBytes,     \* MAX_VECTOR_BLOB_LINEAGE_BYTES
    MaxGen,           \* bound: generations
    MaxOrphans        \* bound: blob files neither generation needs when a commit starts

Store == {"empty", "inline", "adjacent", "format1"}

\* The two comparisons are the code's compile-time assertions.
ASSUME ConstantsAssumption ==
    /\ \A v \in Value : v.len \in Nat
    /\ Stores \subseteq Store
    /\ HeaderBytes \in Nat /\ CompactBytes \in Nat /\ CeilingBytes \in Nat
    /\ CompactSegments \in Nat \ {0} /\ MaxLineage \in Nat
    /\ CompactSegments < MaxLineage /\ CompactBytes < CeilingBytes
    /\ MaxGen \in Nat /\ MaxOrphans \in Nat
    /\ NoValue \notin Value

VARIABLES
    canon,     \* the canonical JSON
    prev,      \* the generation before it
    files,     \* the blob files in the directory
    adjacent,  \* the vectors of the legacy .vblob next to the database
    pc,        \* down, open, or the publication a commit has reached
    gen, head, \* state.generation, state.vector_blob (<<>>: null)
    lineage,   \* vector_blob_lineage
    refs,      \* state.vectors: key -> blob_ref
    values,    \* vector_values
    refused    \* why the last commit was refused

disk == <<canon, prev, files, adjacent>>
mem  == <<gen, head, lineage, refs, values>>
vars == <<disk, pc, mem, refused>>

-----------------------------------------------------------------------------
NoGen    == 0   \* a format 1 blob has no generation, a blobRef into it no gen
Ref      == [gen : Nat, len : Nat]
Partial(S) == UNION {[K -> S] : K \in SUBSET Key}
Segment  == [gen : Nat, data : Partial(Value)]
Blob     == Seq(Segment)
VectorRecord == [ref : Ref \union {NoRef}, inline : Value \union {NoValue}]

ASSUME NoRefAssumption == NoRef \notin Ref

\* The records of a canonical JSON.  live is no part of the file: it is what the
\* generation was published with.
IsCanonical(c) ==
    /\ c.gen \in Nat /\ c.head \in Blob /\ c.live \in Partial(Value)
    /\ DOMAIN c.vectors \subseteq Key
    /\ \A k \in DOMAIN c.vectors : /\ c.vectors[k] \in VectorRecord
                                   /\ c.head # <<>> => c.vectors[k].ref # NoRef

TypeOK ==
    /\ IsCanonical(canon) /\ IsCanonical(prev)
    /\ files \subseteq Blob /\ adjacent \in Partial(Value)
    /\ pc \in {"down", "open", "blob", "json"}
    /\ gen \in Nat /\ head \in Blob /\ lineage \in Seq(Blob)
    /\ DOMAIN refs \subseteq Key /\ \A k \in DOMAIN refs : refs[k] \in Ref \union {NoRef}
    /\ values \in Partial(Value)
    /\ refused \in {"no", "count", "equivalence", "bytes"}

Put(f, k, v) == [x \in DOMAIN f \union {k} |-> IF x = k THEN v ELSE f[x]]
RefTo(g, v)  == [gen |-> g, len |-> v.len]

\* The size of a blob file and of the files of a lineage.
DataBytes(data)  == MapThenSumSet(LAMBDA k : data[k].len, DOMAIN data)
Size(b)          == HeaderBytes + DataBytes(b[1].data)
LineageBytes(bs) ==
    LET bytes[n \in 0..Len(bs)] ==   \* of the n oldest
           IF n = 0 THEN 0 ELSE Size(bs[Len(bs) + 1 - n]) + bytes[n - 1]
    IN  bytes[Len(bs)]

\* A blob and its ancestors, as the parent links name them.
LineageOf(b) == [i \in 1..Len(b) |-> SubSeq(b, i, Len(b))]

-----------------------------------------------------------------------------
(* Opening a generation. *)

\* load_vector_lineage: the chain is followed through the files to the base.
LineageLoads(c) ==
    LET ls == LineageOf(c.head)
    IN  /\ c.head # <<>>
        /\ Len(ls) <= MaxLineage /\ LineageBytes(ls) <= CeilingBytes
        /\ Range(ls) \subseteq files /\ IsInjective(ls)
        /\ c.head[1].gen \in {NoGen, c.gen}
        /\ \A i, j \in DOMAIN c.head :
              i < j /\ NoGen \notin {c.head[i].gen, c.head[j].gen} => c.head[j].gen < c.head[i].gen

\* The segments load_vector_values decodes from.
SegmentsOf(c) == IF c.gen > 0 THEN c.head ELSE <<[gen |-> NoGen, data |-> adjacent]>>

\* pending_vector_refs and apply_vector_segment: inline values first, then the
\* first segment of the generation a reference names.
HolderOf(c, k) ==
    {i \in DOMAIN SegmentsOf(c) :
        /\ SegmentsOf(c)[i].gen = c.vectors[k].ref.gen
        /\ \A j \in 1..(i - 1) : SegmentsOf(c)[j].gen # c.vectors[k].ref.gen}

Resolves(c, k) ==
    c.vectors[k].inline = NoValue =>
        \E i \in HolderOf(c, k) : /\ k \in DOMAIN SegmentsOf(c)[i].data
                                  /\ SegmentsOf(c)[i].data[k].len = c.vectors[k].ref.len

Decoded(c, k) ==
    IF c.vectors[k].inline # NoValue THEN c.vectors[k].inline
    ELSE SegmentsOf(c)[CHOOSE i \in HolderOf(c, k) : TRUE].data[k]

Loads(c) ==
    /\ c.gen > 0 => LineageLoads(c)
    /\ c.gen = 0 => c.head = <<>>
    /\ \A k \in DOMAIN c.vectors : Resolves(c, k)

LoadVectorValues(c) == [k \in DOMAIN c.vectors |-> Decoded(c, k)]

Open ==
    /\ pc = "down" /\ Loads(canon)
    /\ pc' = "open"
    /\ gen' = canon.gen /\ head' = canon.head
    /\ lineage' = LineageOf(canon.head)
    /\ refs' = [k \in DOMAIN canon.vectors |-> canon.vectors[k].ref]
    /\ values' = LoadVectorValues(canon)
    /\ UNCHANGED <<disk, refused>>

\* A new database, or one an earlier release left: values inline in the JSON,
\* in an adjacent .vblob, or in the single format 1 blob of generation 1, which
\* this release opens only below the ceiling.
Canon0(g, h, recs, live) == [gen |-> g, head |-> h, vectors |-> recs, live |-> live]
FormatOne(live) == <<[gen |-> NoGen, data |-> live]>>

InitStore(s, live) ==
    LET stored == [k \in DOMAIN live |-> [ref |-> RefTo(NoGen, live[k]), inline |-> NoValue]]
        inline == [k \in DOMAIN live |-> [ref |-> NoRef, inline |-> live[k]]]
    IN  /\ s = "empty" => live = <<>>
        /\ s = "format1" => LineageBytes(LineageOf(FormatOne(live))) <= CeilingBytes
        /\ canon = CASE s = "empty"    -> Canon0(0, <<>>, <<>>, <<>>)
                     [] s = "inline"   -> Canon0(0, <<>>, inline, live)
                     [] s = "adjacent" -> Canon0(0, <<>>, stored, live)
                     [] s = "format1"  -> Canon0(1, FormatOne(live), stored, live)
        /\ files = IF s = "format1" THEN {FormatOne(live)} ELSE {}
        /\ adjacent = IF s = "adjacent" THEN live ELSE <<>>

Forget ==
    /\ gen' = 0 /\ head' = <<>> /\ lineage' = <<>>
    /\ refs' = <<>> /\ values' = <<>>

Init ==
    /\ \E s \in Stores, live \in Partial(Value) : InitStore(s, live)
    /\ prev = canon
    /\ pc = "down" /\ refused = "no"
    /\ gen = 0 /\ head = <<>> /\ lineage = <<>> /\ refs = <<>> /\ values = <<>>

-----------------------------------------------------------------------------
(* Mutations. *)

\* Fault: the reference of the old values is kept.
UpsertKeepsRef(k, v) ==
    /\ pc = "open"
    /\ values' = Put(values, k, v)
    /\ refs' = IF k \in DOMAIN refs THEN refs ELSE Put(refs, k, NoRef)
    /\ UNCHANGED <<disk, pc, gen, head, lineage, refused>>

\* vector_upsert clears the reference: the vector belongs to the next delta.
VectorUpsert(k, v) ==
    /\ pc = "open"
    /\ values' = Put(values, k, v)
    /\ refs' = Put(refs, k, NoRef)
    /\ UNCHANGED <<disk, pc, gen, head, lineage, refused>>

\* delete_by_document, delete_by_corpus, vector_delete_by_document and
\* memory_delete_document drop the records and the values of some keys.
DeleteVectors(K) ==
    /\ pc = "open" /\ K # {} /\ K \subseteq DOMAIN refs
    /\ refs' = Restrict(refs, DOMAIN refs \ K)
    /\ values' = Restrict(values, DOMAIN values \ K)
    /\ UNCHANGED <<disk, pc, gen, head, lineage, refused>>

-----------------------------------------------------------------------------
(* persist. *)

LiveBytes == DataBytes([k \in DOMAIN refs |-> IF refs[k] # NoRef THEN refs[k] ELSE values[k]])

\* Fault: only the byte axis triggers a compaction.
CompactsOnBytesOnly ==
    LET bytes == LineageBytes(lineage)
    IN  head # <<>> /\ bytes >= CompactBytes /\ bytes >= LiveBytes + LiveBytes \div 8

\* compaction_reason; the difference of the byte axis saturates at zero.
Compacting ==
    LET bytes       == LineageBytes(lineage)
        reclaimable == IF bytes > LiveBytes THEN bytes - LiveBytes ELSE 0
    IN  /\ head # <<>>
        /\ \/ Len(lineage) >= CompactSegments
           \/ bytes >= CompactBytes /\ reclaimable >= LiveBytes \div 8

\* The vectors streamed into the new segment, and the blob it makes.
PublishKeys == IF Compacting THEN DOMAIN refs ELSE {k \in DOMAIN refs : refs[k] = NoRef}
NewSegment  == [gen |-> gen + 1, data |-> Restrict(values, PublishKeys)]
NewHead     == <<NewSegment>> \o (IF Compacting THEN <<>> ELSE head)
NewRefs     == LET published == PublishKeys
               IN  [k \in DOMAIN refs |-> IF k \in published THEN RefTo(gen + 1, values[k]) ELSE refs[k]]

\* Every published vector has live values, of the length its reference promises.
Equivalent ==
    \A k \in PublishKeys : /\ k \in DOMAIN values
                           /\ refs[k] # NoRef => values[k].len = refs[k].len

\* Fault: a delta is weighed without the chain it extends.
ProjectedSegmentOnly == Size(NewHead)

\* The lineage the next open would walk.
ProjectedBytes == Size(NewHead) + (IF Compacting THEN 0 ELSE LineageBytes(lineage))

\* The checks persist makes before it writes a byte, in its order.
Refusal ==
    CASE head # <<>> /\ ~Compacting /\ Len(lineage) >= MaxLineage -> "count"
      [] ~Equivalent                                              -> "equivalence"
      [] ~(ProjectedBytes <= CeilingBytes)                        -> "bytes"
      [] OTHER                                                    -> "no"

\* The commit fails and the process exits; NativeStore has what follows.
PersistRefused ==
    /\ pc = "open" /\ gen < MaxGen /\ Refusal # "no"
    /\ refused' = Refusal
    /\ pc' = "down" /\ Forget
    /\ UNCHANGED disk

Orphans == files \ (Range(LineageOf(canon.head)) \union Range(LineageOf(prev.head)))

\* The segment is streamed and renamed to its name, or found there already.
PersistBlob ==
    /\ pc = "open" /\ gen < MaxGen /\ Refusal = "no"
    /\ NewHead \in files \/ Cardinality(Orphans) <= MaxOrphans
    /\ files' = files \union {NewHead}
    /\ pc' = "blob"
    /\ UNCHANGED <<canon, prev, adjacent, mem, refused>>

\* Fault: the references in memory are serialized, not the prepared ones.
PersistCanonicalOldRefs ==
    /\ pc = "blob" /\ pc' = "json"
    /\ prev' = canon
    /\ canon' = [gen |-> gen + 1, head |-> NewHead, live |-> values,
                 vectors |-> [k \in DOMAIN refs |-> [ref |-> refs[k], inline |-> NoValue]]]
    /\ UNCHANGED <<files, adjacent, mem, refused>>

\* The canonical JSON names the new blob and the prepared references.
PersistCanonical ==
    /\ pc = "blob" /\ pc' = "json"
    /\ prev' = canon
    /\ canon' = [gen |-> gen + 1, head |-> NewHead, live |-> values,
                 vectors |-> [k \in DOMAIN refs |-> [ref |-> NewRefs[k], inline |-> NoValue]]]
    /\ UNCHANGED <<files, adjacent, mem, refused>>

PersistComplete ==
    /\ pc = "json" /\ pc' = "open"
    /\ gen' = gen + 1 /\ head' = NewHead /\ refs' = NewRefs
    /\ lineage' = <<NewHead>> \o (IF Compacting THEN <<>> ELSE lineage)
    /\ refused' = "no"
    /\ UNCHANGED <<disk, values>>

Crash ==
    /\ pc # "down" /\ pc' = "down" /\ Forget
    /\ UNCHANGED <<disk, refused>>

-----------------------------------------------------------------------------
(* Reclamation, by the owner of the database, of what the server reports. *)

\* Fault: the enumeration stops at the blob it was asked for.
EnumerateHeadOnly(b) == IF b = <<>> THEN {} ELSE {b}

\* enumerate_blob_lineage: the blobs the headers reach; it fails on a missing one.
EnumerateBlobLineage(b) == Range(LineageOf(b))

\* The owner keeps protocol_info's lineage and what the generation before needs.
Reclaim(b) ==
    /\ pc = "open" /\ b \in files
    /\ EnumerateBlobLineage(prev.head) \subseteq files
    /\ b \notin Range(lineage) \union EnumerateBlobLineage(prev.head)
    /\ files' = files \ {b}
    /\ UNCHANGED <<canon, prev, adjacent, pc, mem, refused>>

Next ==
    \/ Open \/ PersistRefused \/ PersistBlob \/ PersistCanonical \/ PersistComplete \/ Crash
    \/ \E k \in Key, v \in Value : VectorUpsert(k, v)
    \/ \E K \in SUBSET Key : DeleteVectors(K)
    \/ \E b \in files : Reclaim(b)

Spec == Init /\ [][Next]_vars

-----------------------------------------------------------------------------
(* Properties. *)

ReadsBack(c) == Loads(c) /\ LoadVectorValues(c) = c.live

\* Whatever crash, compaction or reclamation comes, the published generation
\* opens within the ceilings and reads back exactly the vectors it was
\* published with: none lost, none stale, none of a deleted key.
PublishedReadsBack == ReadsBack(canon)

\* The same for the generation before it, which reclamation must keep whole
\* even when a compaction has cut it off the current lineage.
PredecessorReadsBack == ReadsBack(prev)

\* The fail-closed checks on the segment count and on the equivalence of a
\* compaction are never what refuses a commit: compaction comes first, and the
\* live vectors always match their references.
OnlyBytesRefuse == refused \in {"no", "bytes"}
=============================================================================
