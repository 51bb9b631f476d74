------------------------ MODULE VectorLineageProofs ------------------------
(***************************************************************************)
(* What TLAPS proves of VectorLineage, for every set of keys and vectors,  *)
(* every threshold and ceiling and every bound: each generation published, *)
(* and the one before it, reads back exactly what it was published with.   *)
(***************************************************************************)
EXTENDS VectorLineage, SequenceTheorems, WellFoundedInduction, TLAPS

-----------------------------------------------------------------------------
(* The inductive invariant. *)

\* In memory a vector has values exactly when it has a record, and they have the
\* length its reference promises.
LenInv ==
    /\ DOMAIN refs = DOMAIN values
    /\ \A k \in DOMAIN refs : refs[k] # NoRef => values[k].len = refs[k].len

\* A vector that is inline in a canonical JSON has no reference.
RecordsInv ==
    \A c \in {canon, prev} : \A k \in DOMAIN c.vectors :
        c.vectors[k].inline # NoValue => c.vectors[k].ref = NoRef

\* The first segment of h of the generation r names holds v under k.
Holds(h, k, r, v) ==
    /\ r.len = v.len
    /\ \E i \in DOMAIN h : /\ h[i].gen = r.gen
                           /\ \A j \in 1..(i - 1) : h[j].gen # r.gen
                           /\ k \in DOMAIN h[i].data /\ h[i].data[k] = v

\* h, with its parents in F, is a chain that generation g opens.
Chain(h, g, F) ==
    /\ h # <<>>
    /\ Len(h) <= MaxLineage /\ LineageBytes(LineageOf(h)) <= CeilingBytes
    /\ Range(LineageOf(h)) \subseteq F
    /\ h[1].gen \in {NoGen, g}
    /\ \A i, j \in DOMAIN h : i < j /\ NoGen \notin {h[i].gen, h[j].gen} => h[j].gen < h[i].gen
    /\ \A i \in DOMAIN h : h[i].gen <= g

\* The generation c is whole: inline, or held by its chain.
Whole(c, F) ==
    /\ DOMAIN c.vectors = DOMAIN c.live
    /\ c.gen = 0 => /\ c.head = <<>>
                    /\ \A k \in DOMAIN c.live : /\ c.vectors[k].ref = NoRef
                                                /\ c.vectors[k].inline = c.live[k]
    /\ c.gen > 0 => /\ Chain(c.head, c.gen, F)
                    /\ \A k \in DOMAIN c.live : /\ c.vectors[k].inline = NoValue
                                                /\ c.vectors[k].ref.gen <= c.gen
                                                /\ Holds(c.head, k, c.vectors[k].ref, c.live[k])

\* What the process has in memory stands on such a chain too.
MemWhole ==
    /\ lineage = LineageOf(head)
    /\ gen = 0 => head = <<>>
    /\ gen > 0 => Chain(head, gen, files)
    /\ \A k \in DOMAIN refs : refs[k] # NoRef => /\ gen > 0 /\ refs[k].gen <= gen
                                                 /\ Holds(head, k, refs[k], values[k])

\* How far a commit has come.
Prepared ==
    [gen |-> gen + 1, head |-> NewHead, live |-> values,
     vectors |-> [k \in DOMAIN refs |-> [ref |-> NewRefs[k], inline |-> NoValue]]]
CommitInv ==
    /\ pc \in {"open", "blob"} => gen = canon.gen /\ head = canon.head
    /\ pc \in {"blob", "json"} => NewHead \in files /\ Refusal = "no"
    /\ pc = "json" => canon = Prepared

WholeInv ==
    /\ Whole(canon, files) /\ Whole(prev, files)
    /\ pc # "down" => MemWhole
    /\ CommitInv

-----------------------------------------------------------------------------
(* Partial functions, chains and their sizes. *)

\* A partial function from keys.
LEMMA PartialFacts ==
    ASSUME NEW S, NEW f
    PROVE  f \in Partial(S) <=> /\ f = [k \in DOMAIN f |-> f[k]] /\ DOMAIN f \subseteq Key
                                /\ \A k \in DOMAIN f : f[k] \in S
<1>1. ASSUME f \in Partial(S)
      PROVE  /\ f = [k \in DOMAIN f |-> f[k]] /\ DOMAIN f \subseteq Key
             /\ \A k \in DOMAIN f : f[k] \in S
  BY <1>1 DEF Partial
<1>2. ASSUME f = [k \in DOMAIN f |-> f[k]], DOMAIN f \subseteq Key, \A k \in DOMAIN f : f[k] \in S
      PROVE  f \in Partial(S)
  <2>1. f \in [DOMAIN f -> S]
    BY <1>2
  <2>2. DOMAIN f \in SUBSET Key
    BY <1>2
  <2>. QED BY <2>1, <2>2 DEF Partial
<1>. QED BY <1>1, <1>2

\* Every nonempty set of naturals has a least element: induction for what follows.
LEMMA LeastNat ==
    ASSUME NEW T, T \subseteq Nat, T # {}
    PROVE  \E x \in T : \A y \in T : ~(y < x)
<1>1. PICK x \in T : \A y \in T : ~(<<y, x>> \in OpToRel(<, Nat))
  BY NatLessThanWellFounded, WFMin
<1>2. \A y \in T : y < x => <<y, x>> \in OpToRel(<, Nat)
  BY DEF OpToRel
<1>. QED BY <1>1, <1>2

\* The sums of the n oldest blobs, which the recursion in LineageBytes names.
IsBytes(f, m, bs) ==
    f = [n \in 0..m |-> IF n = 0 THEN 0 ELSE Size(bs[Len(bs) + 1 - n]) + f[n - 1]]

\* They exist for every sequence of blobs.
LEMMA BytesExist ==
    ASSUME NEW bs, NEW m \in Nat
    PROVE  \E f : IsBytes(f, m, bs)
<1> DEFINE Bad == {k \in Nat : ~\E f : IsBytes(f, k, bs)}
<1> SUFFICES ASSUME Bad # {} PROVE FALSE
  OBVIOUS
<1>1. PICK k \in Bad : \A y \in Bad : ~(y < k)
  BY LeastNat
<1>2. k # 0
  <2>1. IsBytes([n \in 0..0 |-> 0], 0, bs)
    BY DEF IsBytes
  <2>. QED BY <2>1
<1>3. k - 1 \in Nat /\ k - 1 \notin Bad
  <2>1. k \in Nat
    OBVIOUS
  <2>2. k - 1 \in Nat /\ k - 1 < k
    BY <1>2, <2>1
  <2> HIDE DEF Bad
  <2>. QED BY <1>1, <2>2
<1>4. PICK f : IsBytes(f, k - 1, bs)
  BY <1>3
<1> DEFINE h == [n \in 0..k |-> IF n = k THEN Size(bs[Len(bs) + 1 - k]) + f[k - 1] ELSE f[n]]
<1>5. IsBytes(h, k, bs)
  <2>1. ASSUME NEW n \in 0..k
        PROVE  h[n] = IF n = 0 THEN 0 ELSE Size(bs[Len(bs) + 1 - n]) + h[n - 1]
    <3>1. CASE n = k
      BY <1>2, <1>3, <3>1
    <3>2. CASE n # k /\ n = 0
      BY <1>2, <1>3, <1>4, <3>2 DEF IsBytes
    <3>3. CASE n # k /\ n # 0
      <4>1. n \in 0..(k - 1) /\ n - 1 \in 0..k /\ n - 1 # k
        BY <1>3, <3>3
      <4>2. f[n] = Size(bs[Len(bs) + 1 - n]) + f[n - 1]
        BY <1>4, <3>3, <4>1 DEF IsBytes
      <4>. QED BY <3>3, <4>1, <4>2
    <3>. QED BY <3>1, <3>2, <3>3
  <2>. QED BY <2>1 DEF IsBytes
<1>. QED BY <1>1, <1>5

\* They depend on the n oldest blobs alone.
LEMMA BytesUnique ==
    ASSUME NEW bs, NEW cs, NEW m \in Nat, NEW l \in Nat, m <= l, NEW f, NEW h,
           IsBytes(f, m, bs), IsBytes(h, l, cs),
           \A n \in 1..m : bs[Len(bs) + 1 - n] = cs[Len(cs) + 1 - n]
    PROVE  f[m] = h[m]
<1> DEFINE Bad == {n \in 0..m : f[n] # h[n]}
<1>1. Bad \subseteq Nat
  OBVIOUS
<1>2. Bad = {}
  <2> SUFFICES ASSUME Bad # {} PROVE FALSE
    OBVIOUS
  <2>1. PICK k \in Bad : \A y \in Bad : ~(y < k)
    <3> HIDE DEF Bad
    <3>. QED BY <1>1, LeastNat
  <2>2. k \in 0..m /\ f[k] # h[k]
    OBVIOUS
  <2>3. k # 0
    BY <2>2 DEF IsBytes
  <2>4. k - 1 \in 0..m /\ k - 1 < k /\ k \in 1..m /\ k \in 0..l
    BY <2>2, <2>3
  <2>5. k - 1 \notin Bad
    <3> HIDE DEF Bad
    <3>. QED BY <2>1, <2>4
  <2>6. f[k - 1] = h[k - 1]
    BY <2>4, <2>5
  <2>7. f[k] = Size(bs[Len(bs) + 1 - k]) + f[k - 1] /\ h[k] = Size(cs[Len(cs) + 1 - k]) + h[k - 1]
    BY <2>3, <2>4 DEF IsBytes
  <2>8. bs[Len(bs) + 1 - k] = cs[Len(cs) + 1 - k]
    BY <2>4
  <2>. QED BY <2>2, <2>6, <2>7, <2>8
<1>. QED BY <1>2

\* The sums LineageBytes takes.
LEMMA BytesDef ==
    ASSUME NEW bs \in Seq(Blob)
    PROVE  \E f : IsBytes(f, Len(bs), bs) /\ LineageBytes(bs) = f[Len(bs)]
<1>1. Len(bs) \in Nat
  BY LenProperties
<1> DEFINE F == CHOOSE f : IsBytes(f, Len(bs), bs)
<1>2. IsBytes(F, Len(bs), bs)
  BY <1>1, BytesExist
<1>3. LineageBytes(bs) = F[Len(bs)]
  BY DEF LineageBytes, IsBytes
<1> HIDE DEF F
<1>. QED BY <1>2, <1>3

\* An empty lineage has no bytes; a blob in front adds its size.
LEMMA BytesCons ==
    /\ LineageBytes(<<>>) = 0
    /\ \A b \in Blob, bs \in Seq(Blob) : LineageBytes(<<b>> \o bs) = Size(b) + LineageBytes(bs)
<1>1. LineageBytes(<<>>) = 0
  <2>1. <<>> \in Seq(Blob) /\ Len(<<>>) = 0
    OBVIOUS
  <2>2. PICK f : IsBytes(f, 0, <<>>) /\ LineageBytes(<<>>) = f[0]
    BY <2>1, BytesDef
  <2>. QED BY <2>2 DEF IsBytes
<1>2. ASSUME NEW b \in Blob, NEW bs \in Seq(Blob)
      PROVE  LineageBytes(<<b>> \o bs) = Size(b) + LineageBytes(bs)
  <2> DEFINE cs == <<b>> \o bs
  <2>1. /\ cs \in Seq(Blob) /\ Len(bs) \in Nat /\ Len(cs) = Len(bs) + 1 /\ cs[1] = b
        /\ \A i \in 1..Len(bs) : cs[i + 1] = bs[i]
    OBVIOUS
  <2> HIDE DEF cs
  <2>2. PICK f : IsBytes(f, Len(bs), bs) /\ LineageBytes(bs) = f[Len(bs)]
    BY BytesDef
  <2>3. PICK h : IsBytes(h, Len(cs), cs) /\ LineageBytes(cs) = h[Len(cs)]
    BY <2>1, BytesDef
  <2>4. \A n \in 1..Len(bs) : bs[Len(bs) + 1 - n] = cs[Len(cs) + 1 - n]
    <3>1. ASSUME NEW n \in 1..Len(bs)
          PROVE  bs[Len(bs) + 1 - n] = cs[Len(cs) + 1 - n]
      <4>1. Len(bs) + 1 - n \in 1..Len(bs) /\ Len(cs) + 1 - n = (Len(bs) + 1 - n) + 1
        BY <2>1
      <4>. QED BY <2>1, <4>1
    <3>. QED BY <3>1
  <2>5. f[Len(bs)] = h[Len(bs)]
    <3>1. Len(cs) \in Nat /\ Len(bs) <= Len(cs)
      BY <2>1
    <3>2. IsBytes(f, Len(bs), bs) /\ IsBytes(h, Len(cs), cs)
      BY <2>2, <2>3
    <3>. QED BY <2>1, <2>4, <3>1, <3>2, BytesUnique
  <2>6. Len(cs) \in 0..Len(cs) /\ Len(cs) # 0 /\ Len(cs) - 1 = Len(bs) /\ Len(cs) + 1 - Len(cs) = 1
    BY <2>1
  <2>7. h[Len(cs)] = Size(cs[Len(cs) + 1 - Len(cs)]) + h[Len(cs) - 1]
    BY <2>3, <2>6 DEF IsBytes
  <2>8. LineageBytes(cs) = Size(b) + LineageBytes(bs)
    BY <2>1, <2>2, <2>3, <2>5, <2>6, <2>7
  <2>. QED BY <2>8 DEF cs
<1>. QED BY <1>1, <1>2

\* The lineage of a blob: its suffixes, which are all different.
LEMMA LineageFacts ==
    ASSUME NEW h \in Blob
    PROVE  /\ LineageOf(h) \in Seq(Blob) /\ Len(LineageOf(h)) = Len(h)
           /\ IsInjective(LineageOf(h))
           /\ h # <<>> => h \in Range(LineageOf(h))
<1>0. h \in Seq(Segment) /\ Len(h) \in Nat /\ \A i \in 1..Len(h) : h[i] \in Segment
  BY LenProperties, ElementOfSeq DEF Blob
<1>1. ASSUME NEW i \in 1..Len(h)
      PROVE  SubSeq(h, i, Len(h)) \in Blob /\ Len(SubSeq(h, i, Len(h))) = Len(h) - i + 1
  <2>1. i \in Int /\ Len(h) \in Int /\ i <= Len(h) /\ \A j \in i..Len(h) : h[j] \in Segment
    BY <1>0
  <2>. QED BY <2>1, SubSeqProperties DEF Blob
<1>2. LineageOf(h) = [i \in 1..Len(h) |-> SubSeq(h, i, Len(h))]
  BY DEF LineageOf
<1>3. LineageOf(h) \in Seq(Blob) /\ Len(LineageOf(h)) = Len(h) /\ DOMAIN LineageOf(h) = 1..Len(h)
  BY <1>0, <1>1, <1>2
<1>4. IsInjective(LineageOf(h))
  <2>1. ASSUME NEW i \in 1..Len(h), NEW j \in 1..Len(h), LineageOf(h)[i] = LineageOf(h)[j]
        PROVE  i = j
    <3>1. Len(h) - i + 1 = Len(h) - j + 1
      BY <1>1, <1>2, <2>1
    <3>. QED BY <1>0, <3>1
  <2>. QED BY <1>3, <2>1 DEF IsInjective
<1>5. h # <<>> => h \in Range(LineageOf(h))
  <2>1. h # <<>> => 1 \in 1..Len(h)
    BY <1>0
  <2>2. SubSeq(h, 1, Len(h)) = h
    BY <1>0, SubSeqFull
  <2>. QED BY <1>2, <1>3, <2>1, <2>2 DEF Range
<1>. QED BY <1>3, <1>4, <1>5

\* No blob has no lineage.
LEMMA LineageEmpty == <<>> \in Blob /\ LineageOf(<<>>) = <<>>
<1>1. <<>> \in Blob /\ Len(<<>>) = 0
  BY DEF Blob
<1>2. LineageOf(<<>>) \in Seq(Blob) /\ Len(LineageOf(<<>>)) = 0
  BY <1>1, LineageFacts
<1>. QED BY <1>1, <1>2, EmptySeq

\* A segment in front of a chain.
LEMMA LineageCons ==
    ASSUME NEW s \in Segment, NEW h \in Blob
    PROVE  /\ <<s>> \o h \in Blob /\ Len(<<s>> \o h) = Len(h) + 1 /\ (<<s>> \o h)[1] = s
           /\ DOMAIN (<<s>> \o h) = 1..(Len(h) + 1)
           /\ \A i \in 1..Len(h) : (<<s>> \o h)[i + 1] = h[i]
           /\ LineageOf(<<s>> \o h) = <<<<s>> \o h>> \o LineageOf(h)
<1> DEFINE n == <<s>> \o h
<1>0. h \in Seq(Segment) /\ Len(h) \in Nat /\ DOMAIN h = 1..Len(h)
  BY LenProperties DEF Blob
<1>1. /\ n \in Seq(Segment) /\ Len(n) = Len(h) + 1 /\ n[1] = s /\ DOMAIN n = 1..(Len(h) + 1)
      /\ \A i \in 1..Len(h) : n[i + 1] = h[i]
  BY <1>0
<1>2. n \in Blob
  BY <1>1 DEF Blob
<1> HIDE DEF n
<1>3. LineageOf(n) \in Seq(Blob) /\ Len(LineageOf(n)) = Len(h) + 1
  BY <1>1, <1>2, LineageFacts
<1>4. LineageOf(h) \in Seq(Blob) /\ Len(LineageOf(h)) = Len(h)
  BY LineageFacts
<1>5. /\ <<n>> \o LineageOf(h) \in Seq(Blob) /\ Len(<<n>> \o LineageOf(h)) = Len(h) + 1
      /\ (<<n>> \o LineageOf(h))[1] = n
      /\ \A i \in 1..Len(h) : (<<n>> \o LineageOf(h))[i + 1] = LineageOf(h)[i]
  BY <1>0, <1>2, <1>4
<1>6. LineageOf(n)[1] = n
  <2>1. LineageOf(n)[1] = SubSeq(n, 1, Len(n))
    BY <1>0, <1>1 DEF LineageOf
  <2>. QED BY <1>1, <2>1, SubSeqFull
<1>7. ASSUME NEW i \in 1..Len(h)
      PROVE  LineageOf(n)[i + 1] = LineageOf(h)[i]
  <2> DEFINE a == SubSeq(n, i + 1, Len(n))
             b == SubSeq(h, i, Len(h))
  <2>1. LineageOf(n)[i + 1] = a /\ LineageOf(h)[i] = b
    BY <1>0, <1>1 DEF LineageOf
  <2>2. i + 1 \in Int /\ Len(n) \in Int /\ i + 1 <= Len(n) /\ \A j \in (i + 1)..Len(n) : n[j] \in Segment
    BY <1>0, <1>1
  <2>3. /\ a \in Seq(Segment) /\ Len(a) = Len(n) - (i + 1) + 1
        /\ \A j \in 1..(Len(n) - (i + 1) + 1) : a[j] = n[(i + 1) + j - 1]
    BY <2>2, SubSeqProperties
  <2>4. i \in Int /\ Len(h) \in Int /\ i <= Len(h) /\ \A j \in i..Len(h) : h[j] \in Segment
    BY <1>0
  <2>5. /\ b \in Seq(Segment) /\ Len(b) = Len(h) - i + 1
        /\ \A j \in 1..(Len(h) - i + 1) : b[j] = h[i + j - 1]
    BY <2>4, SubSeqProperties
  <2> HIDE DEF a, b
  <2>6. Len(a) = Len(b) /\ Len(b) = Len(h) - i + 1
    BY <1>0, <1>1, <2>3, <2>5
  <2>7. ASSUME NEW j \in 1..Len(a)
        PROVE  a[j] = b[j]
    <3>1. j \in 1..(Len(h) - i + 1) /\ i + j - 1 \in 1..Len(h) /\ (i + 1) + j - 1 = (i + j - 1) + 1
          /\ j \in 1..(Len(n) - (i + 1) + 1)
      BY <1>0, <1>1, <2>6
    <3>. QED BY <1>1, <2>3, <2>5, <3>1
  <2>8. a = b
    BY <2>3, <2>5, <2>6, <2>7, SeqEqual
  <2>. QED BY <2>1, <2>8
<1>8. ASSUME NEW j \in 1..(Len(h) + 1)
      PROVE  LineageOf(n)[j] = (<<n>> \o LineageOf(h))[j]
  <2>1. CASE j = 1
    BY <1>5, <1>6, <2>1
  <2>2. CASE j # 1
    <3>1. j - 1 \in 1..Len(h) /\ (j - 1) + 1 = j
      BY <1>0, <2>2
    <3>. QED BY <1>5, <1>7, <3>1
  <2>. QED BY <2>1, <2>2
<1>9. LineageOf(n) = <<n>> \o LineageOf(h)
  BY <1>3, <1>5, <1>8, SeqEqual
<1>. QED BY <1>1, <1>2, <1>9 DEF n

-----------------------------------------------------------------------------
(* Types, and the checks that never refuse. *)

\* What a commit prepares is well-formed.
LEMMA PreparedType ==
    ASSUME TypeOK, LenInv
    PROVE  /\ NewSegment \in Segment /\ NewHead \in Blob /\ NewHead # <<>>
           /\ DOMAIN NewRefs = DOMAIN refs
           /\ \A k \in DOMAIN refs : NewRefs[k] \in Ref /\ NewRefs[k].len = values[k].len
           /\ gen + 1 \in Nat
<1>0. /\ gen \in Nat /\ head \in Seq(Segment) /\ DOMAIN refs \subseteq Key /\ DOMAIN values = DOMAIN refs
      /\ \A k \in DOMAIN refs : refs[k] \in Ref \union {NoRef}
      /\ \A k \in DOMAIN refs : refs[k] # NoRef => values[k].len = refs[k].len
      /\ \A k \in DOMAIN refs : values[k] \in Value /\ values[k].len \in Nat
  <2>1. \A k \in DOMAIN values : values[k] \in Value
    BY PartialFacts DEF TypeOK
  <2>. QED BY <2>1, ConstantsAssumption DEF TypeOK, LenInv, Blob
<1>1. gen + 1 \in Nat
  BY <1>0
<1>2. PublishKeys \subseteq DOMAIN refs
  BY DEF PublishKeys
<1>3. \A k \in DOMAIN refs : k \notin PublishKeys => refs[k] # NoRef
  BY DEF PublishKeys
<1>4. Restrict(values, PublishKeys) \in Partial(Value)
  <2> DEFINE f == Restrict(values, PublishKeys)
  <2>1. f = [k \in PublishKeys |-> values[k]]
    BY DEF Restrict
  <2>2. f = [k \in DOMAIN f |-> f[k]] /\ DOMAIN f \subseteq Key /\ \A k \in DOMAIN f : f[k] \in Value
    BY <1>0, <1>2, <2>1
  <2> HIDE DEF f
  <2>3. f \in Partial(Value)
    BY <2>2, PartialFacts
  <2>. QED BY <2>3 DEF f
<1>5. NewSegment \in Segment
  BY <1>1, <1>4 DEF NewSegment, Segment
<1>6. NewHead \in Blob /\ NewHead # <<>>
  <2>1. NewHead = <<NewSegment>> \o <<>> \/ NewHead = <<NewSegment>> \o head
    BY DEF NewHead
  <2>2. <<>> \in Blob /\ head \in Blob
    BY <1>0 DEF Blob
  <2>3. NewHead \in Blob /\ NewHead[1] = NewSegment /\ DOMAIN NewHead # {}
    <3>1. ASSUME NEW h \in Blob, NewHead = <<NewSegment>> \o h
          PROVE  NewHead \in Blob /\ NewHead[1] = NewSegment /\ DOMAIN NewHead # {}
      <4>1. Len(h) \in Nat
        BY LenProperties DEF Blob
      <4>2. /\ NewHead \in Blob /\ NewHead[1] = NewSegment /\ DOMAIN NewHead = 1..(Len(h) + 1)
        BY <1>5, <3>1, LineageCons
      <4>. QED BY <4>1, <4>2
    <3>. QED BY <2>1, <2>2, <3>1
  <2>. QED BY <2>3
<1>7. /\ DOMAIN NewRefs = DOMAIN refs
      /\ \A k \in DOMAIN refs : NewRefs[k] = IF k \in PublishKeys THEN RefTo(gen + 1, values[k]) ELSE refs[k]
  BY DEF NewRefs
<1>8. ASSUME NEW k \in DOMAIN refs
      PROVE  NewRefs[k] \in Ref /\ NewRefs[k].len = values[k].len
  <2>1. CASE k \in PublishKeys
    <3>1. NewRefs[k] = [gen |-> gen + 1, len |-> values[k].len]
      BY <1>7, <2>1 DEF RefTo
    <3>. QED BY <1>0, <1>1, <3>1 DEF Ref
  <2>2. CASE k \notin PublishKeys
    BY <1>0, <1>3, <1>7, <2>2
  <2>. QED BY <2>1, <2>2
<1>. QED BY <1>1, <1>5, <1>6, <1>7, <1>8

\* The canonical JSON a commit writes is well-formed.
LEMMA PreparedCanonical ==
    ASSUME TypeOK, LenInv
    PROVE  /\ IsCanonical(Prepared) /\ DOMAIN Prepared.vectors = DOMAIN refs
           /\ \A k \in DOMAIN refs : /\ Prepared.vectors[k].ref = NewRefs[k]
                                     /\ Prepared.vectors[k].inline = NoValue
<1> DEFINE V == [k \in DOMAIN refs |-> [ref |-> NewRefs[k], inline |-> NoValue]]
<1>1. /\ Prepared.gen = gen + 1 /\ Prepared.head = NewHead /\ Prepared.live = values
      /\ Prepared.vectors = V
  BY DEF Prepared
<1>2. \A k \in DOMAIN refs : V[k] \in VectorRecord /\ V[k].ref # NoRef
  BY PreparedType, NoRefAssumption DEF VectorRecord
<1>3. DOMAIN V = DOMAIN refs /\ DOMAIN refs \subseteq Key /\ values \in Partial(Value)
  BY DEF TypeOK
<1>. QED BY <1>1, <1>2, <1>3, PreparedType DEF IsCanonical

\* What an open decodes of a record.
LEMMA DecodedFacts ==
    ASSUME TypeOK, NEW c, IsCanonical(c), Loads(c), NEW k \in DOMAIN c.vectors
    PROVE  /\ Decoded(c, k) \in Value
           /\ c.vectors[k].inline = NoValue => Decoded(c, k).len = c.vectors[k].ref.len
<1>1. CASE c.vectors[k].inline # NoValue
  BY <1>1 DEF Decoded, IsCanonical, VectorRecord
<1>2. CASE c.vectors[k].inline = NoValue
  <2> DEFINE s == SegmentsOf(c)
  <2>1. PICK i \in HolderOf(c, k) : k \in DOMAIN s[i].data /\ s[i].data[k].len = c.vectors[k].ref.len
    BY <1>2 DEF Loads, Resolves
  <2>2. s \in Seq(Segment) /\ DOMAIN s = 1..Len(s) /\ Len(s) \in Nat
    <3>1. <<[gen |-> NoGen, data |-> adjacent]>> \in Seq(Segment)
      BY DEF TypeOK, Segment, NoGen
    <3>2. s \in Seq(Segment)
      BY <3>1 DEF SegmentsOf, IsCanonical, Blob
    <3>. QED BY <3>2, LenProperties
  <2>3. \A j \in HolderOf(c, k) : j = i
    <3>1. ASSUME NEW j \in HolderOf(c, k)
          PROVE  j = i
      <4>1. /\ i \in DOMAIN s /\ s[i].gen = c.vectors[k].ref.gen
            /\ \A l \in 1..(i - 1) : s[l].gen # c.vectors[k].ref.gen
        BY <2>1 DEF HolderOf
      <4>2. /\ j \in DOMAIN s /\ s[j].gen = c.vectors[k].ref.gen
            /\ \A l \in 1..(j - 1) : s[l].gen # c.vectors[k].ref.gen
        BY DEF HolderOf
      <4> HIDE DEF s
      <4>3. i \in Nat \ {0} /\ j \in Nat \ {0}
        BY <2>2, <4>1, <4>2
      <4>4. ~(i < j)
        BY <4>1, <4>2, <4>3
      <4>5. ~(j < i)
        BY <4>1, <4>2, <4>3
      <4>. QED BY <4>3, <4>4, <4>5
    <3>. QED BY <3>1
  <2>4. (CHOOSE j \in HolderOf(c, k) : TRUE) = i
    BY <2>1, <2>3
  <2>5. Decoded(c, k) = s[i].data[k]
    BY <1>2, <2>4 DEF Decoded
  <2>6. s[i] \in Segment
    <3>1. i \in DOMAIN s
      BY <2>1 DEF HolderOf
    <3> HIDE DEF s
    <3>. QED BY <2>2, <3>1, ElementOfSeq
  <2>7. s[i].data[k] \in Value
    <3>1. s[i].data \in Partial(Value)
      BY <2>6 DEF Segment
    <3> HIDE DEF s
    <3>. QED BY <2>1, <3>1, PartialFacts
  <2>. QED BY <2>1, <2>5, <2>7
<1>. QED BY <1>1, <1>2

TypeInv == TypeOK /\ LenInv /\ RecordsInv

\* A process that is down has nothing in memory.
LEMMA ForgetType ==
    ASSUME Forget
    PROVE  /\ gen' \in Nat /\ head' \in Blob /\ lineage' \in Seq(Blob)
           /\ DOMAIN refs' = {} /\ values' \in Partial(Value) /\ DOMAIN values' = {}
<1>1. head' \in Seq(Segment) /\ lineage' \in Seq(Blob) /\ DOMAIN refs' = {} /\ DOMAIN values' = {}
  BY DEF Forget
<1>2. values' = [k \in DOMAIN values' |-> values'[k]] /\ DOMAIN values' \subseteq Key
  BY DEF Forget
<1>3. values' \in Partial(Value)
  BY <1>1, <1>2, PartialFacts
<1>. QED BY <1>1, <1>3 DEF Forget, Blob

\* Every step keeps the types, the agreement of records and values, and the shape
\* of the canonical records.
LEMMA TypeStep ==
    ASSUME TypeInv, [Next]_vars
    PROVE  TypeInv'
<1> USE DEF TypeInv
<1>0. /\ IsCanonical(canon) /\ IsCanonical(prev) /\ files \subseteq Blob /\ adjacent \in Partial(Value)
      /\ gen \in Nat /\ head \in Blob /\ lineage \in Seq(Blob)
      /\ DOMAIN refs \subseteq Key /\ \A k \in DOMAIN refs : refs[k] \in Ref \union {NoRef}
      /\ values \in Partial(Value) /\ refused \in {"no", "count", "equivalence", "bytes"}
  BY DEF TypeOK
<1>L. /\ DOMAIN refs = DOMAIN values
      /\ \A k \in DOMAIN refs : refs[k] # NoRef => values[k].len = refs[k].len
  BY DEF LenInv
<1>V. values = [k \in DOMAIN values |-> values[k]] /\ \A k \in DOMAIN values : values[k] \in Value
  BY <1>0, PartialFacts
<1>1. CASE UNCHANGED vars
  BY <1>1 DEF TypeOK, LenInv, RecordsInv, IsCanonical, vars, disk, mem
<1>2. CASE Open
  <2>1. UNCHANGED <<canon, prev, files, adjacent, refused>> /\ pc' = "open"
    BY <1>2 DEF Open, disk
  <2>2. gen' \in Nat /\ head' \in Blob /\ lineage' \in Seq(Blob)
    BY <1>0, <1>2, LineageFacts DEF Open, IsCanonical
  <2>3. /\ DOMAIN refs' = DOMAIN canon.vectors /\ DOMAIN values' = DOMAIN canon.vectors
        /\ \A k \in DOMAIN canon.vectors : refs'[k] = canon.vectors[k].ref /\ values'[k] = Decoded(canon, k)
        /\ values' = [k \in DOMAIN values' |-> values'[k]]
    BY <1>2 DEF Open, LoadVectorValues
  <2>4. \A k \in DOMAIN canon.vectors : canon.vectors[k].ref \in Ref \union {NoRef} /\ k \in Key
    BY <1>0 DEF IsCanonical, VectorRecord
  <2>5. \A k \in DOMAIN canon.vectors :
           /\ Decoded(canon, k) \in Value
           /\ canon.vectors[k].inline = NoValue => Decoded(canon, k).len = canon.vectors[k].ref.len
    <3>1. Loads(canon)
      BY <1>2 DEF Open
    <3>. QED BY <1>0, <3>1, DecodedFacts
  <2>6. values' \in Partial(Value)
    BY <2>3, <2>4, <2>5, PartialFacts
  <2>7. TypeOK'
    BY <1>0, <2>1, <2>2, <2>3, <2>4, <2>6 DEF TypeOK, IsCanonical
  <2>8. LenInv'
    <3>1. \A k \in DOMAIN canon.vectors : canon.vectors[k].ref # NoRef => canon.vectors[k].inline = NoValue
      BY DEF RecordsInv
    <3>. QED BY <2>3, <2>5, <3>1 DEF LenInv
  <2>9. RecordsInv'
    BY <2>1 DEF RecordsInv
  <2>. QED BY <2>7, <2>8, <2>9
<1>3. CASE PersistRefused
  <2>1. UNCHANGED <<canon, prev, files, adjacent>> /\ pc' = "down" /\ Forget
    BY <1>3 DEF PersistRefused, disk
  <2>2. refused' \in {"no", "count", "equivalence", "bytes"}
    BY <1>3 DEF PersistRefused, Refusal
  <2>. QED BY <1>0, <2>1, <2>2, ForgetType DEF TypeOK, LenInv, RecordsInv, IsCanonical
<1>4. CASE PersistBlob
  <2>1. UNCHANGED <<canon, prev, adjacent, mem, refused>> /\ pc' = "blob" /\ files' = files \union {NewHead}
    BY <1>4 DEF PersistBlob
  <2>2. files' \subseteq Blob
    BY <1>0, <2>1, PreparedType
  <2>. QED BY <1>0, <1>L, <2>1, <2>2 DEF TypeOK, LenInv, RecordsInv, IsCanonical, mem
<1>5. CASE PersistCanonical
  <2>1. UNCHANGED <<files, adjacent, mem, refused>> /\ pc' = "json" /\ prev' = canon /\ canon' = Prepared
    BY <1>5 DEF PersistCanonical, Prepared
  <2>2. IsCanonical(canon') /\ IsCanonical(prev')
    <3>1. IsCanonical(Prepared)
      BY PreparedCanonical
    <3>. QED BY <1>0, <2>1, <3>1
  <2>3. RecordsInv'
    <3>1. \A k \in DOMAIN canon'.vectors : canon'.vectors[k].inline = NoValue
      BY <2>1, PreparedCanonical
    <3>. QED BY <2>1, <3>1 DEF RecordsInv
  <2>4. TypeOK'
    BY <1>0, <2>1, <2>2 DEF TypeOK, IsCanonical, mem
  <2>. QED BY <1>L, <2>1, <2>3, <2>4 DEF LenInv, mem
<1>6. CASE PersistComplete
  <2>1. UNCHANGED <<canon, prev, files, adjacent, values>> /\ pc' = "open" /\ refused' = "no"
    BY <1>6 DEF PersistComplete, disk
  <2>2. gen' \in Nat /\ head' \in Blob /\ refs' = NewRefs
    BY <1>6, PreparedType DEF PersistComplete
  <2>3. lineage' \in Seq(Blob)
    <3>1. NewHead \in Blob
      BY PreparedType
    <3>. QED BY <1>0, <1>6, <3>1 DEF PersistComplete
  <2>4. TypeOK'
    BY <1>0, <2>1, <2>2, <2>3, PreparedType DEF TypeOK, IsCanonical
  <2>5. LenInv'
    BY <1>L, <2>1, <2>2, PreparedType DEF LenInv
  <2>. QED BY <2>1, <2>4, <2>5 DEF RecordsInv
<1>7. CASE Crash
  <2>1. UNCHANGED <<canon, prev, files, adjacent, refused>> /\ pc' = "down" /\ Forget
    BY <1>7 DEF Crash, disk
  <2>. QED BY <1>0, <2>1, ForgetType DEF TypeOK, LenInv, RecordsInv, IsCanonical
<1>8. ASSUME NEW k \in Key, NEW v \in Value, VectorUpsert(k, v)
      PROVE  TypeInv'
  <2>1. UNCHANGED <<canon, prev, files, adjacent, pc, gen, head, lineage, refused>>
    BY <1>8 DEF VectorUpsert, disk
  <2>2. /\ DOMAIN refs' = DOMAIN refs \union {k} /\ DOMAIN values' = DOMAIN values \union {k}
        /\ \A x \in DOMAIN refs' : refs'[x] = IF x = k THEN NoRef ELSE refs[x]
        /\ \A x \in DOMAIN values' : values'[x] = IF x = k THEN v ELSE values[x]
        /\ values' = [x \in DOMAIN values' |-> values'[x]]
    BY <1>8 DEF VectorUpsert, Put
  <2>3. values' \in Partial(Value)
    BY <1>0, <1>L, <1>V, <2>2, PartialFacts
  <2>4. LenInv'
    BY <1>L, <2>2 DEF LenInv
  <2>5. \A x \in DOMAIN refs' : refs'[x] \in Ref \union {NoRef}
    BY <1>0, <2>2
  <2>6. TypeOK'
    <3>1. DOMAIN refs' \subseteq Key /\ pc \in {"down", "open", "blob", "json"}
      BY <1>0, <2>2 DEF TypeOK
    <3>. QED BY <1>0, <2>1, <2>3, <2>5, <3>1 DEF TypeOK, IsCanonical
  <2>. QED BY <2>1, <2>4, <2>6 DEF RecordsInv
<1>9. ASSUME NEW K \in SUBSET Key, DeleteVectors(K)
      PROVE  TypeInv'
  <2>1. UNCHANGED <<canon, prev, files, adjacent, pc, gen, head, lineage, refused>>
    BY <1>9 DEF DeleteVectors, disk
  <2>2. /\ DOMAIN refs' = DOMAIN refs \ K /\ DOMAIN values' = DOMAIN values \ K
        /\ \A x \in DOMAIN refs' : refs'[x] = refs[x]
        /\ \A x \in DOMAIN values' : values'[x] = values[x]
        /\ values' = [x \in DOMAIN values' |-> values'[x]]
    BY <1>9 DEF DeleteVectors, Restrict
  <2>3. values' \in Partial(Value)
    BY <1>0, <1>L, <1>V, <2>2, PartialFacts
  <2>4. LenInv'
    BY <1>L, <2>2 DEF LenInv
  <2>5. TypeOK'
    <3>1. DOMAIN refs' \subseteq Key /\ pc \in {"down", "open", "blob", "json"}
          /\ \A x \in DOMAIN refs' : refs'[x] \in Ref \union {NoRef}
      BY <1>0, <2>2 DEF TypeOK
    <3>. QED BY <1>0, <2>1, <2>3, <3>1 DEF TypeOK, IsCanonical
  <2>. QED BY <2>1, <2>4, <2>5 DEF RecordsInv
<1>10. ASSUME NEW b \in files, Reclaim(b)
       PROVE  TypeInv'
  <2>1. UNCHANGED <<canon, prev, adjacent, pc, mem, refused>> /\ files' \subseteq files
    BY <1>10 DEF Reclaim
  <2>2. TypeOK'
    BY <1>0, <2>1 DEF TypeOK, IsCanonical, mem
  <2>. QED BY <1>L, <2>1, <2>2 DEF LenInv, RecordsInv, mem
<1>. QED BY <1>1, <1>2, <1>3, <1>4, <1>5, <1>6, <1>7, <1>8, <1>9, <1>10 DEF Next

\* The databases found at first: every one is well-formed and, but for the
\* adjacent .vblob, whole.
LEMMA StoreInit ==
    ASSUME NEW s \in Stores, NEW live \in Partial(Value), InitStore(s, live)
    PROVE  /\ IsCanonical(canon) /\ files \subseteq Blob /\ adjacent \in Partial(Value)
           /\ \A k \in DOMAIN canon.vectors : canon.vectors[k].inline # NoValue => canon.vectors[k].ref = NoRef
           /\ s # "adjacent" => Whole(canon, files)
<1> DEFINE stored == [k \in DOMAIN live |-> [ref |-> RefTo(NoGen, live[k]), inline |-> NoValue]]
           inlined == [k \in DOMAIN live |-> [ref |-> NoRef, inline |-> live[k]]]
<1>0. /\ live = [k \in DOMAIN live |-> live[k]] /\ DOMAIN live \subseteq Key
      /\ \A k \in DOMAIN live : live[k] \in Value /\ live[k].len \in Nat /\ live[k] # NoValue
  BY PartialFacts, ConstantsAssumption
<1>1. s \in Store
  BY ConstantsAssumption
<1>2. /\ \A k \in DOMAIN live : stored[k] \in VectorRecord /\ stored[k].ref \in Ref /\ stored[k].ref # NoRef
      /\ \A k \in DOMAIN live : inlined[k] \in VectorRecord
  <2>1. \A k \in DOMAIN live : RefTo(NoGen, live[k]) \in Ref
    BY <1>0 DEF RefTo, Ref, NoGen
  <2>. QED BY <1>0, <2>1, NoRefAssumption DEF VectorRecord
<1>3. <<>> \in Partial(Value)
  <2>1. <<>> = [k \in DOMAIN <<>> |-> <<>>[k]] /\ DOMAIN <<>> = {}
    OBVIOUS
  <2>2. DOMAIN <<>> \subseteq Key /\ \A k \in DOMAIN <<>> : <<>>[k] \in Value
    BY <2>1
  <2>. QED BY <2>1, <2>2, PartialFacts
<1>4. [gen |-> NoGen, data |-> live] \in Segment /\ FormatOne(live) \in Blob /\ <<>> \in Blob
      /\ FormatOne(live) # <<>>
  <2>1. [gen |-> NoGen, data |-> live] \in Segment
    BY DEF Segment, NoGen
  <2>. QED BY <2>1 DEF FormatOne, Blob
<1>5. CASE s = "empty"
  <2>1. canon = Canon0(0, <<>>, <<>>, <<>>) /\ files = {} /\ adjacent = <<>>
    BY <1>5 DEF InitStore
  <2>2. canon.gen = 0 /\ canon.head = <<>> /\ canon.vectors = <<>> /\ canon.live = <<>>
    BY <2>1 DEF Canon0
  <2>3. DOMAIN canon.vectors = {} /\ DOMAIN canon.live = {}
    BY <2>2
  <2>. QED BY <1>3, <1>4, <2>1, <2>2, <2>3 DEF IsCanonical, Whole
<1>6. CASE s = "inline"
  <2>1. canon = Canon0(0, <<>>, inlined, live) /\ files = {} /\ adjacent = <<>>
    BY <1>6 DEF InitStore
  <2>2. canon.gen = 0 /\ canon.head = <<>> /\ canon.vectors = inlined /\ canon.live = live
    BY <2>1 DEF Canon0
  <2>3. DOMAIN inlined = DOMAIN live /\ \A k \in DOMAIN live : inlined[k].ref = NoRef /\ inlined[k].inline = live[k]
    OBVIOUS
  <2> HIDE DEF inlined
  <2>. QED BY <1>0, <1>2, <1>3, <1>4, <2>1, <2>2, <2>3 DEF IsCanonical, Whole
<1>7. CASE s = "adjacent"
  <2>1. canon = Canon0(0, <<>>, stored, live) /\ files = {} /\ adjacent = live
    BY <1>7 DEF InitStore
  <2>2. canon.gen = 0 /\ canon.head = <<>> /\ canon.vectors = stored /\ canon.live = live
    BY <2>1 DEF Canon0
  <2>3. DOMAIN stored = DOMAIN live /\ \A k \in DOMAIN live : stored[k].inline = NoValue
    OBVIOUS
  <2> HIDE DEF stored
  <2>. QED BY <1>0, <1>2, <1>4, <1>7, <2>1, <2>2, <2>3 DEF IsCanonical
<1>8. CASE s = "format1"
  <2> DEFINE h == FormatOne(live)
  <2>1. canon = Canon0(1, h, stored, live) /\ files = {h} /\ adjacent = <<>>
    BY <1>8 DEF InitStore
  <2>2. canon.gen = 1 /\ canon.head = h /\ canon.vectors = stored /\ canon.live = live
    BY <2>1 DEF Canon0
  <2>3. /\ DOMAIN stored = DOMAIN live
        /\ \A k \in DOMAIN live : /\ stored[k].inline = NoValue /\ stored[k].ref.gen = NoGen
                                  /\ stored[k].ref.len = live[k].len
    BY DEF RefTo
  <2>4. h = <<[gen |-> NoGen, data |-> live]>> \o <<>>
    BY DEF FormatOne
  <2>5. Len(h) = 1 /\ DOMAIN h = 1..1 /\ h[1].gen = NoGen /\ h[1].data = live
    BY DEF FormatOne
  <2> HIDE DEF h, stored
  <2>6. LineageOf(h) = <<h>> \o LineageOf(<<>>)
    BY <1>4, <2>4, LineageCons
  <2>7. LineageOf(<<>>) \in Seq(Blob) /\ Len(LineageOf(<<>>)) = 0 /\ h \in Blob
    BY <1>4, LineageFacts DEF h
  <2>8. LineageOf(h) = <<h>>
    <3>1. <<h>> \in Seq(Blob)
      BY <2>7
    <3>2. <<h>> \o <<>> = <<h>>
      BY <3>1, ConcatEmptySeq
    <3>. QED BY <2>6, <3>2, LineageEmpty
  <2>9. LineageBytes(LineageOf(h)) <= CeilingBytes
    BY <1>8 DEF InitStore, h
  <2>10. Chain(h, 1, {h})
    <3>1. 1 <= MaxLineage
      BY ConstantsAssumption
    <3>2. Range(LineageOf(h)) \subseteq {h}
      BY <2>8 DEF Range
    <3>. QED BY <1>4, <2>5, <2>9, <3>1, <3>2 DEF Chain, NoGen, h
  <2>11. \A k \in DOMAIN live : Holds(h, k, stored[k].ref, live[k]) /\ stored[k].ref.gen <= 1
    BY <2>3, <2>5 DEF Holds, NoGen
  <2>. QED BY <1>0, <1>2, <1>3, <1>4, <2>1, <2>2, <2>3, <2>7, <2>10, <2>11 DEF IsCanonical, Whole
<1>. QED BY <1>1, <1>5, <1>6, <1>7, <1>8 DEF Store

\* The first state has its types.
LEMMA TypeInit == Init => TypeInv
<1> SUFFICES ASSUME Init PROVE TypeInv
  OBVIOUS
<1>1. PICK s \in Stores, live \in Partial(Value) : InitStore(s, live)
  BY DEF Init
<1>2. IsCanonical(canon) /\ files \subseteq Blob /\ adjacent \in Partial(Value)
  BY <1>1, StoreInit
<1>3. RecordsInv
  BY <1>1, StoreInit DEF Init, RecordsInv
<1>4. head \in Blob /\ lineage \in Seq(Blob) /\ DOMAIN refs = {} /\ DOMAIN values = {} /\ gen \in Nat
  BY DEF Init, Blob
<1>5. values \in Partial(Value)
  <2>1. values = [k \in DOMAIN values |-> values[k]]
    BY DEF Init
  <2>. QED BY <1>4, <2>1, PartialFacts
<1>6. TypeOK
  BY <1>2, <1>4, <1>5 DEF Init, TypeOK
<1>7. LenInv
  BY <1>4 DEF LenInv
<1>. QED BY <1>3, <1>6, <1>7 DEF TypeInv

\* The sidecar's variables have their types, in every database that can be found
\* at first: in particular each record of a published generation with a blob has
\* a reference.
THEOREM WellTyped == Spec => []TypeOK
<1>1. TypeInv => TypeOK
  BY DEF TypeInv
<1>. QED BY <1>1, TypeInit, TypeStep, PTL DEF Spec

\* The fail-closed checks on the segment count and on the equivalence of a
\* compaction are never what refuses a commit: compaction comes first, and the
\* live vectors always match their references.
THEOREM OnlyBytesRefuseCommits == Spec => []OnlyBytesRefuse
<1>1. Init => OnlyBytesRefuse
  BY DEF Init, OnlyBytesRefuse
<1>2. TypeInv /\ OnlyBytesRefuse /\ [Next]_vars => OnlyBytesRefuse'
  <2> SUFFICES ASSUME TypeInv, OnlyBytesRefuse, [Next]_vars PROVE OnlyBytesRefuse'
    OBVIOUS
  <2>1. refused' \in {refused, "no", Refusal}
    BY DEF Next, vars, Open, PersistRefused, PersistBlob, PersistCanonical, PersistComplete, Crash,
           VectorUpsert, DeleteVectors, Reclaim
  <2>2. Equivalent
    <3>1. PublishKeys \subseteq DOMAIN refs
      BY DEF PublishKeys
    <3>. QED BY <3>1 DEF Equivalent, TypeInv, LenInv
  <2>3. head # <<>> /\ ~Compacting => ~(Len(lineage) >= MaxLineage)
    <3>1. Len(lineage) \in Nat
      BY LenProperties DEF TypeInv, TypeOK
    <3>2. head # <<>> /\ ~Compacting => ~(Len(lineage) >= CompactSegments)
      BY DEF Compacting
    <3>. QED BY <3>1, <3>2, ConstantsAssumption
  <2>4. Refusal \in {"no", "bytes"}
    BY <2>2, <2>3 DEF Refusal
  <2>. QED BY <2>1, <2>4 DEF OnlyBytesRefuse
<1>. QED BY <1>1, <1>2, TypeInit, TypeStep, PTL DEF Spec

-----------------------------------------------------------------------------
(* Reading back. *)

\* A whole generation opens and reads back what it was published with.
LEMMA WholeReadsBack ==
    ASSUME TypeOK, NEW c, IsCanonical(c), Whole(c, files)
    PROVE  ReadsBack(c)
<1>0. /\ c.gen \in Nat /\ DOMAIN c.vectors = DOMAIN c.live
      /\ c.live = [k \in DOMAIN c.live |-> c.live[k]] /\ \A k \in DOMAIN c.live : c.live[k] \in Value
  BY PartialFacts DEF IsCanonical, Whole
<1>1. CASE c.gen = 0
  <2>1. /\ c.head = <<>>
        /\ \A k \in DOMAIN c.live : c.vectors[k].inline = c.live[k] /\ c.vectors[k].inline # NoValue
    BY <1>0, <1>1, ConstantsAssumption DEF Whole
  <2>2. Loads(c)
    BY <1>0, <1>1, <2>1 DEF Loads, Resolves
  <2>3. LoadVectorValues(c) = c.live
    BY <1>0, <2>1 DEF LoadVectorValues, Decoded
  <2>. QED BY <2>2, <2>3 DEF ReadsBack
<1>2. CASE c.gen > 0
  <2>1. /\ Chain(c.head, c.gen, files)
        /\ \A k \in DOMAIN c.live : /\ c.vectors[k].inline = NoValue
                                    /\ Holds(c.head, k, c.vectors[k].ref, c.live[k])
    BY <1>2 DEF Whole
  <2>2. SegmentsOf(c) = c.head
    BY <1>2 DEF SegmentsOf
  <2>3. LineageLoads(c)
    <3>1. Len(LineageOf(c.head)) = Len(c.head) /\ IsInjective(LineageOf(c.head))
      BY LineageFacts DEF IsCanonical
    <3>. QED BY <2>1, <3>1 DEF Chain, LineageLoads
  <2>4. ASSUME NEW k \in DOMAIN c.vectors
        PROVE  Resolves(c, k) /\ Decoded(c, k) = c.live[k]
    <3> DEFINE r == c.vectors[k].ref
    <3>1. Holds(c.head, k, r, c.live[k]) /\ c.vectors[k].inline = NoValue
      BY <1>0, <2>1
    <3>2. PICK i \in DOMAIN c.head : /\ c.head[i].gen = r.gen
                                     /\ \A j \in 1..(i - 1) : c.head[j].gen # r.gen
                                     /\ k \in DOMAIN c.head[i].data /\ c.head[i].data[k] = c.live[k]
      BY <3>1 DEF Holds
    <3>3. i \in HolderOf(c, k)
      BY <2>2, <3>2 DEF HolderOf
    <3>4. ASSUME NEW j \in HolderOf(c, k)
          PROVE  j = i
      <4>1. DOMAIN c.head = 1..Len(c.head) /\ Len(c.head) \in Nat
        BY LenProperties DEF IsCanonical, Blob
      <4>2. j \in DOMAIN c.head /\ c.head[j].gen = r.gen /\ \A l \in 1..(j - 1) : c.head[l].gen # r.gen
        BY <2>2 DEF HolderOf
      <4> HIDE DEF r
      <4>3. i \in Nat \ {0} /\ j \in Nat \ {0}
        BY <3>2, <4>1, <4>2
      <4>4. ~(i < j)
        BY <3>2, <4>2, <4>3
      <4>5. ~(j < i)
        BY <3>2, <4>2, <4>3
      <4>. QED BY <4>3, <4>4, <4>5
    <3>5. (CHOOSE j \in HolderOf(c, k) : TRUE) = i
      BY <3>3, <3>4
    <3>6. Decoded(c, k) = c.live[k]
      BY <2>2, <3>1, <3>2, <3>5 DEF Decoded
    <3>7. r.len = c.live[k].len
      BY <3>1 DEF Holds
    <3>8. Resolves(c, k)
      BY <2>2, <3>2, <3>3, <3>7 DEF Resolves
    <3>. QED BY <3>6, <3>8
  <2>5. Loads(c)
    BY <1>2, <2>3, <2>4 DEF Loads
  <2>6. LoadVectorValues(c) = c.live
    BY <1>0, <2>4 DEF LoadVectorValues
  <2>. QED BY <2>5, <2>6 DEF ReadsBack
<1>. QED BY <1>0, <1>1, <1>2

\* A generation stays whole as long as the files of its chain are there.
LEMMA WholeFiles ==
    ASSUME NEW c, NEW F, NEW G, Whole(c, F), c.gen > 0 => Range(LineageOf(c.head)) \subseteq G
    PROVE  Whole(c, G)
BY DEF Whole, Chain

\* What a commit publishes is whole: the delta continues the chain in memory
\* below a new generation, the compaction holds every live vector itself, and
\* the checks kept the new chain within the ceilings.
LEMMA PublishWhole ==
    ASSUME TypeInv, MemWhole, NewHead \in files, Refusal = "no"
    PROVE  /\ Whole(Prepared, files)
           /\ LineageOf(NewHead) = <<NewHead>> \o (IF Compacting THEN <<>> ELSE lineage)
<1> DEFINE parent == IF Compacting THEN <<>> ELSE head
<1>0. /\ TypeOK /\ LenInv /\ gen \in Nat /\ head \in Blob /\ lineage \in Seq(Blob)
      /\ lineage = LineageOf(head) /\ parent \in Blob
      /\ NewSegment \in Segment /\ NewHead \in Blob /\ NewHead # <<>>
  BY PreparedType, LineageEmpty DEF TypeInv, TypeOK, MemWhole
<1>1. NewHead = <<NewSegment>> \o parent /\ NewSegment.gen = gen + 1
  BY DEF NewHead, NewSegment
<1>2. LineageOf(parent) = IF Compacting THEN <<>> ELSE lineage
  BY <1>0, LineageEmpty
<1>3. parent # <<>> => ~Compacting /\ parent = head /\ gen > 0 /\ Chain(head, gen, files)
  <2>1. parent # <<>> => ~Compacting /\ parent = head
    OBVIOUS
  <2>2. head # <<>> => gen > 0
    BY <1>0 DEF MemWhole
  <2>. QED BY <2>1, <2>2 DEF MemWhole
<1> HIDE DEF parent
<1>4. Len(parent) \in Nat /\ DOMAIN parent = 1..Len(parent) /\ (parent = <<>> => Len(parent) = 0)
      /\ \A i \in 1..Len(parent) : parent[i].gen \in Nat
  <2>1. parent \in Seq(Segment)
    BY <1>0 DEF Blob
  <2>2. Len(parent) \in Nat /\ DOMAIN parent = 1..Len(parent)
    BY <2>1, LenProperties
  <2>3. \A i \in 1..Len(parent) : parent[i].gen \in Nat
    <3>1. \A i \in 1..Len(parent) : parent[i] \in Segment
      BY <2>1, ElementOfSeq
    <3>. QED BY <3>1 DEF Segment
  <2>. QED BY <2>2, <2>3
<1>5. /\ Len(NewHead) = Len(parent) + 1 /\ NewHead[1] = NewSegment
      /\ DOMAIN NewHead = 1..(Len(parent) + 1)
      /\ \A i \in 1..Len(parent) : NewHead[i + 1] = parent[i]
      /\ LineageOf(NewHead) = <<NewHead>> \o LineageOf(parent)
  <2> DEFINE N == <<NewSegment>> \o parent
  <2>1. /\ Len(N) = Len(parent) + 1 /\ N[1] = NewSegment /\ DOMAIN N = 1..(Len(parent) + 1)
        /\ \A i \in 1..Len(parent) : N[i + 1] = parent[i]
        /\ LineageOf(N) = <<N>> \o LineageOf(parent)
    BY <1>0, LineageCons
  <2>2. NewHead = N
    BY <1>1
  <2> HIDE DEF N
  <2>. QED BY <2>1, <2>2
<1>6. Chain(NewHead, gen + 1, files)
  <2>1. Len(NewHead) <= MaxLineage
    <3>1. CASE parent = <<>>
      BY <1>4, <1>5, <3>1, ConstantsAssumption
    <3>2. CASE parent # <<>>
      <4>1. ~Compacting /\ head # <<>>
        BY <1>3, <3>2
      <4>2. Len(lineage) = Len(parent)
        BY <1>0, <1>3, <3>2, LineageFacts
      <4>3. ~(Len(lineage) >= CompactSegments)
        BY <4>1 DEF Compacting
      <4>. QED BY <1>4, <1>5, <4>2, <4>3, ConstantsAssumption
    <3>. QED BY <3>1, <3>2
  <2>2. LineageBytes(LineageOf(NewHead)) <= CeilingBytes
    <3>1. LineageOf(parent) \in Seq(Blob)
      BY <1>0, LineageFacts
    <3>2. LineageBytes(LineageOf(NewHead)) = Size(NewHead) + LineageBytes(LineageOf(parent))
      BY <1>0, <1>5, <3>1, BytesCons
    <3>3. LineageBytes(LineageOf(parent)) = IF Compacting THEN 0 ELSE LineageBytes(lineage)
      BY <1>2, BytesCons
    <3>4. ProjectedBytes <= CeilingBytes
      BY DEF Refusal
    <3>. QED BY <3>2, <3>3, <3>4 DEF ProjectedBytes
  <2>3. Range(LineageOf(NewHead)) \subseteq files
    <3>1. Range(LineageOf(parent)) \subseteq files
      <4>1. CASE parent = <<>>
        BY <4>1, LineageEmpty DEF Range
      <4>2. CASE parent # <<>>
        BY <1>3, <4>2 DEF Chain
      <4>. QED BY <4>1, <4>2
    <3>2. LineageOf(parent) \in Seq(Blob)
      BY <1>0, LineageFacts
    <3>3. Range(<<NewHead>> \o LineageOf(parent)) \subseteq {NewHead} \union Range(LineageOf(parent))
      BY <1>0, <3>2 DEF Range
    <3>. QED BY <1>5, <3>1, <3>3
  <2>4. NewHead[1].gen = gen + 1
    BY <1>1, <1>5
  <2>5. ASSUME NEW j \in DOMAIN NewHead, j # 1
        PROVE  /\ j - 1 \in 1..Len(parent) /\ NewHead[j] = parent[j - 1] /\ parent = head /\ parent # <<>>
               /\ NewHead[j].gen \in Nat /\ NewHead[j].gen <= gen
    <3>1. j - 1 \in 1..Len(parent) /\ (j - 1) + 1 = j
      BY <1>4, <1>5, <2>5
    <3>2. NewHead[j] = parent[j - 1]
      BY <1>5, <3>1
    <3>3. parent # <<>>
      BY <1>4, <3>1
    <3>. QED BY <1>3, <1>4, <3>1, <3>2, <3>3 DEF Chain
  <2>6. \A i \in DOMAIN NewHead : NewHead[i].gen <= gen + 1
    BY <1>0, <2>4, <2>5
  <2>7. ASSUME NEW i \in DOMAIN NewHead, NEW j \in DOMAIN NewHead, i < j,
               NoGen \notin {NewHead[i].gen, NewHead[j].gen}
        PROVE  NewHead[j].gen < NewHead[i].gen
    <3>1. i \in Nat /\ j \in Nat /\ j # 1
      BY <1>4, <1>5, <2>7
    <3>2. CASE i = 1
      BY <1>0, <2>4, <2>5, <3>1, <3>2
    <3>3. CASE i # 1
      <4>1. i - 1 \in DOMAIN head /\ j - 1 \in DOMAIN head /\ i - 1 < j - 1
        BY <1>4, <2>5, <2>7, <3>1, <3>3
      <4>2. NewHead[i] = head[i - 1] /\ NewHead[j] = head[j - 1] /\ Chain(head, gen, files)
        BY <1>3, <2>5, <3>1, <3>3
      <4>. QED BY <2>7, <4>1, <4>2 DEF Chain
    <3>. QED BY <3>2, <3>3
  <2>. QED BY <1>0, <2>1, <2>2, <2>3, <2>4, <2>6, <2>7 DEF Chain
<1>7. ASSUME NEW k \in DOMAIN refs
      PROVE  NewRefs[k].gen <= gen + 1 /\ Holds(NewHead, k, NewRefs[k], values[k])
  <2>0. NewRefs[k].len = values[k].len
    BY <1>0, PreparedType
  <2>1. CASE k \in PublishKeys
    <3>1. NewRefs[k].gen = gen + 1
      BY <2>1 DEF NewRefs, RefTo
    <3>2. k \in DOMAIN NewSegment.data /\ NewSegment.data[k] = values[k]
      BY <2>1 DEF NewSegment, Restrict
    <3>3. 1 \in DOMAIN NewHead /\ NewHead[1].gen = NewRefs[k].gen /\ 1..(1 - 1) = {}
      BY <1>1, <1>4, <1>5, <3>1
    <3>4. Holds(NewHead, k, NewRefs[k], values[k])
      BY <1>5, <2>0, <3>2, <3>3 DEF Holds
    <3>. QED BY <1>0, <3>1, <3>4
  <2>2. CASE k \notin PublishKeys
    <3>1. ~Compacting /\ refs[k] # NoRef /\ NewRefs[k] = refs[k]
      BY <2>2 DEF PublishKeys, NewRefs
    <3>2. parent = head
      BY <3>1 DEF parent
    <3>3. refs[k].gen <= gen /\ Holds(head, k, refs[k], values[k])
      BY <3>1 DEF MemWhole
    <3>4. refs[k].gen \in Nat
      BY <1>0, <3>1 DEF TypeOK, Ref
    <3>5. PICK i \in DOMAIN head : /\ head[i].gen = refs[k].gen
                                   /\ \A j \in 1..(i - 1) : head[j].gen # refs[k].gen
                                   /\ k \in DOMAIN head[i].data /\ head[i].data[k] = values[k]
      BY <3>3 DEF Holds
    <3>6. i + 1 \in DOMAIN NewHead /\ NewHead[i + 1] = head[i] /\ i \in Nat
      BY <1>4, <1>5, <3>2, <3>5
    <3>7. ASSUME NEW j \in 1..((i + 1) - 1)
          PROVE  NewHead[j].gen # refs[k].gen
      <4>1. CASE j = 1
        BY <1>0, <1>1, <1>5, <3>3, <3>4, <4>1
      <4>2. CASE j # 1
        <5>1. j - 1 \in 1..(i - 1) /\ j - 1 \in 1..Len(parent) /\ (j - 1) + 1 = j
          BY <1>4, <3>2, <3>5, <3>6, <4>2
        <5>2. NewHead[j] = head[j - 1]
          BY <1>5, <3>2, <5>1
        <5>. QED BY <3>5, <5>1, <5>2
      <4>. QED BY <4>1, <4>2
    <3>8. Holds(NewHead, k, refs[k], values[k])
      BY <2>0, <3>1, <3>5, <3>6, <3>7 DEF Holds
    <3>. QED BY <1>0, <3>1, <3>3, <3>4, <3>8
  <2>. QED BY <2>1, <2>2
<1>8. /\ Prepared.gen = gen + 1 /\ Prepared.head = NewHead /\ Prepared.live = values
      /\ DOMAIN Prepared.vectors = DOMAIN refs /\ DOMAIN values = DOMAIN refs
      /\ \A k \in DOMAIN refs : /\ Prepared.vectors[k].ref = NewRefs[k]
                                /\ Prepared.vectors[k].inline = NoValue
  BY <1>0, PreparedCanonical DEF Prepared, LenInv
<1>9. gen + 1 > 0 /\ gen + 1 # 0
  BY <1>0
<1>10. Whole(Prepared, files)
  BY <1>6, <1>7, <1>8, <1>9 DEF Whole
<1>. QED BY <1>2, <1>5, <1>10

\* What a commit prepares depends on memory alone.
LEMMA PreparedSame ==
    ASSUME UNCHANGED mem
    PROVE  NewHead' = NewHead /\ Refusal' = Refusal /\ Prepared' = Prepared
<1>0. gen' = gen /\ head' = head /\ lineage' = lineage /\ refs' = refs /\ values' = values
  BY DEF mem
<1>1. LiveBytes' = LiveBytes
  BY <1>0 DEF LiveBytes
<1>2. Compacting' = Compacting
  BY <1>0, <1>1 DEF Compacting
<1>3. PublishKeys' = PublishKeys
  BY <1>0, <1>2 DEF PublishKeys
<1>4. NewSegment' = NewSegment
  BY <1>0, <1>3 DEF NewSegment
<1>5. NewHead' = NewHead
  BY <1>0, <1>2, <1>4 DEF NewHead
<1>6. NewRefs' = NewRefs
  BY <1>0, <1>3 DEF NewRefs
<1>7. Equivalent' = Equivalent
  BY <1>0, <1>3 DEF Equivalent
<1>8. ProjectedBytes' = ProjectedBytes
  BY <1>0, <1>2, <1>5 DEF ProjectedBytes
<1>9. Refusal' = Refusal
  BY <1>0, <1>2, <1>7, <1>8 DEF Refusal
<1>10. Prepared' = Prepared
  BY <1>0, <1>5, <1>6 DEF Prepared
<1>. QED BY <1>5, <1>9, <1>10

\* Every step keeps both generations whole, and memory on the chain.
LEMMA WholeStep ==
    ASSUME TypeInv, WholeInv, [Next]_vars
    PROVE  WholeInv'
<1>T. /\ TypeOK /\ IsCanonical(canon) /\ IsCanonical(prev) /\ gen \in Nat /\ canon.gen \in Nat
      /\ pc \in {"down", "open", "blob", "json"}
  BY DEF TypeInv, TypeOK, IsCanonical
<1>W. Whole(canon, files) /\ Whole(prev, files) /\ (pc # "down" => MemWhole) /\ CommitInv
  BY DEF WholeInv
<1>G. SUFFICES /\ Whole(canon', files') /\ Whole(prev', files')
               /\ (pc' # "down" => MemWhole') /\ CommitInv'
  BY DEF WholeInv, Whole, Chain, Holds
<1> DEFINE Goal == /\ Whole(canon', files') /\ Whole(prev', files')
                   /\ (pc' # "down" => MemWhole') /\ CommitInv'
<1>1. ASSUME UNCHANGED vars
      PROVE  Goal
  <2>1. UNCHANGED mem /\ UNCHANGED <<canon, prev, files, pc>>
    BY <1>1 DEF vars, disk
  <2>2. MemWhole' = MemWhole /\ CommitInv' = CommitInv
    BY <2>1, PreparedSame DEF MemWhole, CommitInv, mem, Chain, Holds
  <2>. QED BY <1>W, <2>1, <2>2
<1>2. ASSUME Open
      PROVE  Goal
  <2>1. canon' = canon /\ prev' = prev /\ files' = files /\ pc' = "open"
    BY <1>2 DEF Open, disk
  <2>2. gen' = canon.gen /\ head' = canon.head /\ lineage' = LineageOf(canon.head)
    BY <1>2 DEF Open
  <2>3. values' = canon.live
    <3>1. ReadsBack(canon)
      BY <1>T, <1>W, WholeReadsBack
    <3>. QED BY <1>2, <3>1 DEF Open, ReadsBack
  <2>4. DOMAIN refs' = DOMAIN canon.live /\ \A k \in DOMAIN canon.live : refs'[k] = canon.vectors[k].ref
    BY <1>2, <1>W DEF Open, Whole
  <2>5. MemWhole'
    <3>1. canon.gen = 0 => \A k \in DOMAIN refs' : refs'[k] = NoRef
      BY <1>W, <2>4 DEF Whole
    <3>2. canon.gen > 0 =>
            /\ Chain(canon.head, canon.gen, files)
            /\ \A k \in DOMAIN refs' : /\ refs'[k].gen <= canon.gen
                                       /\ Holds(canon.head, k, refs'[k], canon.live[k])
      BY <1>W, <2>4 DEF Whole
    <3>3. canon.gen = 0 => canon.head = <<>>
      BY <1>W DEF Whole
    <3>4. canon.gen = 0 \/ canon.gen > 0
      BY <1>T
    <3>. QED BY <2>1, <2>2, <2>3, <3>1, <3>2, <3>3, <3>4 DEF MemWhole, Chain, Holds
  <2>6. CommitInv'
    BY <2>1, <2>2 DEF CommitInv
  <2>. QED BY <1>W, <2>1, <2>5, <2>6
<1>3. ASSUME PersistRefused \/ Crash
      PROVE  Goal
  <2>1. canon' = canon /\ prev' = prev /\ files' = files /\ pc' = "down"
    BY <1>3 DEF PersistRefused, Crash, disk
  <2>2. CommitInv'
    BY <2>1 DEF CommitInv
  <2>. QED BY <1>W, <2>1, <2>2
<1>4. ASSUME PersistBlob
      PROVE  Goal
  <2>1. /\ canon' = canon /\ prev' = prev /\ pc' = "blob" /\ pc = "open" /\ files' = files \union {NewHead}
        /\ UNCHANGED mem /\ Refusal = "no"
    BY <1>4 DEF PersistBlob
  <2>2. \A c \in {canon, prev} : Whole(c, files')
    <3>1. ASSUME NEW c \in {canon, prev}
          PROVE  Whole(c, files')
      <4>1. Whole(c, files)
        BY <1>W
      <4>2. c.gen > 0 => Range(LineageOf(c.head)) \subseteq files'
        BY <2>1, <4>1 DEF Whole, Chain
      <4>. QED BY <4>1, <4>2, WholeFiles
    <3>. QED BY <3>1
  <2>3. MemWhole'
    BY <1>W, <2>1 DEF MemWhole, mem, Chain, Holds
  <2>4. gen' = gen /\ head' = head /\ NewHead' = NewHead /\ Refusal' = "no"
    BY <2>1, PreparedSame DEF mem
  <2>5. CommitInv'
    BY <1>W, <2>1, <2>4 DEF CommitInv
  <2>. QED BY <2>1, <2>2, <2>3, <2>5
<1>5. ASSUME PersistCanonical
      PROVE  Goal
  <2>1. /\ canon' = Prepared /\ prev' = canon /\ pc' = "json" /\ pc = "blob" /\ files' = files
        /\ UNCHANGED mem
    BY <1>5 DEF PersistCanonical, Prepared
  <2>2. NewHead \in files /\ Refusal = "no" /\ MemWhole
    BY <1>W, <2>1 DEF CommitInv
  <2>3. Whole(Prepared, files)
    BY <2>2, PublishWhole
  <2>4. MemWhole'
    BY <2>1, <2>2 DEF MemWhole, mem, Chain, Holds
  <2>5. CommitInv'
    BY <2>1, <2>2, PreparedSame DEF CommitInv
  <2>. QED BY <1>W, <2>1, <2>3, <2>4, <2>5
<1>6. ASSUME PersistComplete
      PROVE  Goal
  <2>1. /\ canon' = canon /\ prev' = prev /\ files' = files /\ pc' = "open" /\ pc = "json"
        /\ gen' = gen + 1 /\ head' = NewHead /\ refs' = NewRefs /\ values' = values
        /\ lineage' = <<NewHead>> \o (IF Compacting THEN <<>> ELSE lineage)
    BY <1>6 DEF PersistComplete, disk
  <2>2. NewHead \in files /\ Refusal = "no" /\ MemWhole /\ canon = Prepared
    BY <1>W, <2>1 DEF CommitInv
  <2>3. lineage' = LineageOf(head') /\ Whole(Prepared, files)
    BY <2>1, <2>2, PublishWhole
  <2>4. Prepared.gen = gen + 1 /\ Prepared.head = NewHead /\ Prepared.live = values
    BY DEF Prepared
  <2>5. /\ DOMAIN NewRefs = DOMAIN values /\ gen + 1 > 0 /\ gen + 1 # 0
        /\ \A k \in DOMAIN NewRefs : Prepared.vectors[k].ref = NewRefs[k]
    BY <1>T, PreparedType, PreparedCanonical DEF TypeInv, LenInv
  <2>6. /\ Chain(NewHead, gen + 1, files)
        /\ \A k \in DOMAIN NewRefs : NewRefs[k].gen <= gen + 1 /\ Holds(NewHead, k, NewRefs[k], values[k])
    BY <2>3, <2>4, <2>5 DEF Whole
  <2>7. MemWhole'
    BY <2>1, <2>3, <2>5, <2>6 DEF MemWhole, Chain, Holds
  <2>8. CommitInv'
    BY <2>1, <2>2, <2>4 DEF CommitInv
  <2>. QED BY <1>W, <2>1, <2>7, <2>8
<1>7. ASSUME NEW k \in Key, NEW v \in Value, VectorUpsert(k, v)
      PROVE  Goal
  <2>1. /\ canon' = canon /\ prev' = prev /\ files' = files /\ pc' = pc /\ pc = "open"
        /\ gen' = gen /\ head' = head /\ lineage' = lineage
    BY <1>7 DEF VectorUpsert, disk
  <2>2. \A x \in DOMAIN refs' : refs'[x] # NoRef =>
           x \in DOMAIN refs /\ refs'[x] = refs[x] /\ values'[x] = values[x]
    BY <1>7 DEF VectorUpsert, Put, TypeInv, LenInv
  <2>3. MemWhole'
    BY <1>W, <2>1, <2>2 DEF MemWhole, Chain, Holds
  <2>4. CommitInv'
    BY <1>W, <2>1 DEF CommitInv
  <2>. QED BY <1>W, <2>1, <2>3, <2>4
<1>8. ASSUME NEW K \in SUBSET Key, DeleteVectors(K)
      PROVE  Goal
  <2>1. /\ canon' = canon /\ prev' = prev /\ files' = files /\ pc' = pc /\ pc = "open"
        /\ gen' = gen /\ head' = head /\ lineage' = lineage
    BY <1>8 DEF DeleteVectors, disk
  <2>2. \A x \in DOMAIN refs' : x \in DOMAIN refs /\ refs'[x] = refs[x] /\ values'[x] = values[x]
    BY <1>8 DEF DeleteVectors, Restrict, TypeInv, LenInv
  <2>3. MemWhole'
    BY <1>W, <2>1, <2>2 DEF MemWhole, Chain, Holds
  <2>4. CommitInv'
    BY <1>W, <2>1 DEF CommitInv
  <2>. QED BY <1>W, <2>1, <2>3, <2>4
<1>9. ASSUME NEW b \in files, Reclaim(b)
      PROVE  Goal
  <2>1. /\ canon' = canon /\ prev' = prev /\ files' = files \ {b} /\ pc' = pc /\ pc = "open" /\ UNCHANGED mem
        /\ b \notin Range(lineage) /\ b \notin Range(LineageOf(prev.head))
    BY <1>9 DEF Reclaim, EnumerateBlobLineage
  <2>2. lineage = LineageOf(canon.head) /\ head = canon.head /\ gen = canon.gen /\ MemWhole
    BY <1>W, <2>1 DEF MemWhole, CommitInv
  <2>3. \A c \in {canon, prev} : Whole(c, files')
    <3>1. ASSUME NEW c \in {canon, prev}
          PROVE  Whole(c, files')
      <4>1. Whole(c, files) /\ b \notin Range(LineageOf(c.head))
        BY <1>W, <2>1, <2>2
      <4>2. c.gen > 0 => Range(LineageOf(c.head)) \subseteq files'
        BY <2>1, <4>1 DEF Whole, Chain
      <4>. QED BY <4>1, <4>2, WholeFiles
    <3>. QED BY <3>1
  <2>4. canon.gen > 0 => Chain(canon.head, canon.gen, files')
    BY <2>3 DEF Whole
  <2>5. MemWhole'
    BY <2>1, <2>2, <2>4 DEF MemWhole, mem, Chain, Holds
  <2>6. CommitInv'
    BY <1>W, <2>1 DEF CommitInv, mem
  <2>. QED BY <2>1, <2>3, <2>5, <2>6
<1> HIDE DEF Goal
<1>10. Goal
  BY <1>1, <1>2, <1>3, <1>4, <1>5, <1>6, <1>7, <1>8, <1>9 DEF Next
<1>. QED BY <1>10 DEF Goal

\* A database that is not an adjacent .vblob is whole when it is found.
LEMMA WholeInit == ASSUME "adjacent" \notin Stores PROVE Init => WholeInv
<1> SUFFICES ASSUME Init PROVE WholeInv
  OBVIOUS
<1>1. PICK s \in Stores, live \in Partial(Value) : InitStore(s, live)
  BY DEF Init
<1>2. Whole(canon, files)
  BY <1>1, StoreInit
<1>. QED BY <1>2 DEF Init, WholeInv, CommitInv

\* Whatever crash, compaction or reclamation comes, the published generation opens
\* within the ceilings and reads back exactly the vectors it was published with:
\* none lost, none stale, none of a deleted key.  Databases with an adjacent .vblob
\* are left out: their first commit loses vectors, as the run lineage_adjacent shows.
THEOREM PublishedIsReadable ==
    ASSUME "adjacent" \notin Stores
    PROVE  Spec => []PublishedReadsBack
<1>1. TypeInv /\ WholeInv => PublishedReadsBack
  <2> SUFFICES ASSUME TypeInv, WholeInv PROVE PublishedReadsBack
    OBVIOUS
  <2>1. TypeOK /\ IsCanonical(canon) /\ Whole(canon, files)
    BY DEF TypeInv, TypeOK, WholeInv
  <2>. QED BY <2>1, WholeReadsBack DEF PublishedReadsBack
<1>. QED BY <1>1, TypeInit, TypeStep, WholeInit, WholeStep, PTL DEF Spec

\* The same for the generation before it: reclamation keeps it whole, even when a
\* compaction has cut it off the current lineage.
THEOREM PredecessorIsReadable ==
    ASSUME "adjacent" \notin Stores
    PROVE  Spec => []PredecessorReadsBack
<1>1. TypeInv /\ WholeInv => PredecessorReadsBack
  <2> SUFFICES ASSUME TypeInv, WholeInv PROVE PredecessorReadsBack
    OBVIOUS
  <2>1. TypeOK /\ IsCanonical(prev) /\ Whole(prev, files)
    BY DEF TypeInv, TypeOK, WholeInv
  <2>. QED BY <2>1, WholeReadsBack DEF PredecessorReadsBack
<1>. QED BY <1>1, TypeInit, TypeStep, WholeInit, WholeStep, PTL DEF Spec
=============================================================================
