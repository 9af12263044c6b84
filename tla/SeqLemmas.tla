----------------------------- MODULE SeqLemmas ------------------------------
(* Lemmas about splitting and counting buffers, and about replacing their   *)
(* elements, shared by the proofs about connections.                        *)
EXTENDS Integers, FrameSeqs, SequenceTheorems, FiniteSetTheorems, TLAPS

\* A read or a write takes a part of a buffer off its front; what was taken
\* and what is left make up the buffer.
LEMMA ReadSplits ==
  ASSUME NEW S, NEW s \in Seq(S), NEW k \in 1 .. Len(s)
  PROVE  /\ SubSeq(s, 1, k) \in Seq(S)
         /\ SubSeq(s, 1, k) # <<>>
         /\ SubSeq(s, k + 1, Len(s)) \in Seq(S)
         /\ SubSeq(s, 1, k) \o SubSeq(s, k + 1, Len(s)) = s
PROOF
<1>1. Len(s) \in Nat /\ \A i \in 1 .. Len(s) : s[i] \in S
  BY LenProperties, ElementOfSeq
<1>2. SubSeq(s, 1, k) \in Seq(S) /\ Len(SubSeq(s, 1, k)) = k
  BY <1>1, SubSeqProperties
<1>3. SubSeq(s, k + 1, Len(s)) \in Seq(S)
  BY <1>1, SubSeqProperties
<1>4. SubSeq(s, 1, k) \o SubSeq(s, k + 1, Len(s)) = SubSeq(s, 1, Len(s))
  BY <1>1, ConcatAdjacentSubSeq
<1> QED
  BY <1>2, <1>3, <1>4, SubSeqFull, EmptySeq

\* The first element and those behind it.
LEMMA HeadSplits ==
  ASSUME NEW S, NEW b \in Seq(S), b # <<>>
  PROVE  /\ Head(b) \in S
         /\ <<Head(b)>> \in Seq(S)
         /\ Tail(b) \in Seq(S)
         /\ <<Head(b)>> \o Tail(b) = b
PROOF
<1>1. /\ Head(b) \in S
      /\ Tail(b) \in Seq(S)
      /\ Len(Tail(b)) = Len(b) - 1
      /\ \A i \in 1 .. Len(Tail(b)) : Tail(b)[i] = b[i + 1]
  BY HeadTailProperties
<1>2. <<Head(b)>> \in Seq(S)
  BY <1>1
<1>3. /\ <<Head(b)>> \o Tail(b) \in Seq(S)
      /\ Len(<<Head(b)>> \o Tail(b)) = 1 + Len(Tail(b))
      /\ \A i \in 1 .. 1 + Len(Tail(b)) :
           (<<Head(b)>> \o Tail(b))[i]
             = IF i <= 1 THEN <<Head(b)>>[i] ELSE Tail(b)[i - 1]
  BY <1>1, <1>2, ConcatProperties
<1>4. Len(b) \in Nat \ {0}
  BY EmptySeq
<1>5. <<Head(b)>> \o Tail(b) = b
  BY <1>1, <1>3, <1>4, SeqEqual
<1> QED
  BY <1>1, <1>2, <1>5

\* The front part of a sequence, element by element.
LEMMA FrontAgrees ==
  ASSUME NEW S, NEW s \in Seq(S), NEW t \in Seq(S)
  PROVE  /\ Len(s \o t) = Len(s) + Len(t)
         /\ Len(t) \in Nat
         /\ \A i \in 1 .. Len(s) : (s \o t)[i] = s[i]
BY LenProperties, ConcatProperties

\* The front part of a sequence is the SubSeq of its length.
LEMMA FrontPart ==
  ASSUME NEW S, NEW s \in Seq(S), NEW t \in Seq(S)
  PROVE  s = SubSeq(s \o t, 1, Len(s))
PROOF
<1>1. /\ Len(s) \in Nat /\ Len(t) \in Nat
      /\ s \o t \in Seq(S)
      /\ Len(s \o t) = Len(s) + Len(t)
      /\ \A i \in 1 .. Len(s) : (s \o t)[i] = s[i]
      /\ \A i \in 1 .. Len(s) : s[i] \in S
  BY LenProperties, ConcatProperties, ElementOfSeq
<1>2. /\ SubSeq(s \o t, 1, Len(s)) \in Seq(S)
      /\ Len(SubSeq(s \o t, 1, Len(s))) = Len(s)
      /\ \A i \in 1 .. Len(s) : SubSeq(s \o t, 1, Len(s))[i] = (s \o t)[i]
  BY <1>1, SubSeqProperties
<1> QED
  BY <1>1, <1>2, SeqEqual

LEMMA FrontNone == \A s : SubSeq(s, 1, 0) = <<>> /\ Len(<<>>) = 0
OBVIOUS

\* A prefix stays one when more is appended.
LEMMA PrefixStays ==
  ASSUME NEW S, NEW s \in Seq(S), NEW m \in S, NEW n \in 0 .. Len(s)
  PROVE  SubSeq(Append(s, m), 1, n) = SubSeq(s, 1, n)
PROOF
<1>1. /\ Len(s) \in Nat
      /\ Append(s, m) \in Seq(S)
      /\ Len(Append(s, m)) = Len(s) + 1
      /\ \A i \in 1 .. Len(s) : Append(s, m)[i] = s[i]
      /\ \A i \in 1 .. Len(s) : s[i] \in S
  BY LenProperties, AppendProperties, ElementOfSeq
<1>2. /\ SubSeq(s, 1, n) \in Seq(S) /\ Len(SubSeq(s, 1, n)) = n
      /\ \A i \in 1 .. n : SubSeq(s, 1, n)[i] = s[i]
  BY <1>1, SubSeqProperties
<1>3. /\ SubSeq(Append(s, m), 1, n) \in Seq(S)
      /\ Len(SubSeq(Append(s, m), 1, n)) = n
      /\ \A i \in 1 .. n : SubSeq(Append(s, m), 1, n)[i] = Append(s, m)[i]
  <2> DEFINE a == Append(s, m)
  <2>1. \A i \in 1 .. n : a[i] \in S
    BY <1>1
  <2>2. a \in Seq(S) /\ n <= Len(a)
    BY <1>1
  <2> HIDE DEF a
  <2>3. /\ SubSeq(a, 1, n) \in Seq(S)
        /\ Len(SubSeq(a, 1, n)) = n
        /\ \A i \in 1 .. n : SubSeq(a, 1, n)[i] = a[i]
    BY <2>1, <2>2, SubSeqProperties
  <2> QED
    BY <2>3 DEF a
<1> QED
  BY <1>1, <1>2, <1>3, SeqEqual

\* A prefix, by its length and its last element.
LEMMA PrefixEnd ==
  ASSUME NEW S, NEW s \in Seq(S), NEW n \in 1 .. Len(s)
  PROVE  /\ Len(SubSeq(s, 1, n)) = n
         /\ SubSeq(s, 1, n)[n] = s[n]
         /\ SubSeq(s, 1, n) # <<>>
PROOF
<1>1. \A i \in 1 .. n : s[i] \in S
  BY LenProperties, ElementOfSeq
<1>2. /\ SubSeq(s, 1, n) \in Seq(S) /\ Len(SubSeq(s, 1, n)) = n
      /\ \A i \in 1 .. n : SubSeq(s, 1, n)[i] = s[i]
  BY <1>1, LenProperties, SubSeqProperties
<1> QED
  BY <1>2, EmptySeq

\* What the commands accepted are without those that wait.
LEMMA TakenPart ==
  ASSUME NEW S, NEW s \in Seq(S), NEW t \in Seq(S)
  PROVE  SubSeq(s \o t, 1, Len(s \o t) - Len(t)) = s
PROOF
<1>1. Len(s \o t) - Len(t) = Len(s)
  BY LenProperties, ConcatProperties
<1> QED
  BY <1>1, FrontPart

\* What was appended to a sequence is the part of it behind the sequence.
LEMMA AppendedPart ==
  ASSUME NEW S, NEW s \in Seq(S), NEW t \in Seq(S)
  PROVE  SubSeq(s \o t, Len(s) + 1, Len(s \o t)) = t
PROOF
<1> DEFINE st == s \o t
           m == Len(s)
           n == Len(st)
           u == SubSeq(st, m + 1, n)
<1>1. /\ m \in Nat /\ Len(t) \in Nat /\ st \in Seq(S) /\ n = m + Len(t)
      /\ \A i \in 1 .. n : st[i] = IF i <= m THEN s[i] ELSE t[i - m]
  BY LenProperties, ConcatProperties
<1>2. CASE Len(t) = 0
  <2>1. t = <<>>
    BY <1>2, EmptySeq
  <2>2. u = <<>>
    BY <1>1, <1>2, SubSeqEmpty
  <2> QED
    BY <2>1, <2>2
<1>3. CASE Len(t) # 0
  <2>1. /\ u \in Seq(S) /\ Len(u) = n - (m + 1) + 1
        /\ \A i \in 1 .. Len(u) : u[i] = st[m + 1 + i - 1]
    <3> HIDE DEF m, n, st
    <3> QED
      BY <1>1, <1>3, SubSeqProperties
  <2>2. Len(u) = Len(t)
    BY <1>1, <2>1
  <2>3. \A i \in 1 .. Len(t) : u[i] = t[i]
    <3> HIDE DEF m, n, st, u
    <3> QED
      BY <1>1, <2>1, <2>2
  <2> HIDE DEF u
  <2>4. u = t
    BY <2>1, <2>2, <2>3, SeqEqual
  <2> QED
    BY <2>4 DEF u
<1> QED
  BY <1>2, <1>3

\* Where x stands in q.
Places(x, q) == {i \in 1 .. Len(q) : q[i] = x}

LEMMA PlacesFinite ==
  ASSUME NEW S, NEW q \in Seq(S), NEW x
  PROVE  IsFiniteSet(Places(x, q)) /\ Cardinality(Places(x, q)) \in Nat
PROOF
<1>1. Len(q) \in Nat
  BY LenProperties
<1>2. IsFiniteSet(1 .. Len(q))
  BY <1>1, FS_Interval
<1>3. Places(x, q) \in SUBSET (1 .. Len(q))
  BY DEF Places
<1> QED
  BY <1>2, <1>3, FS_Subset, FS_CardinalityType

\* x stands in a concatenation as often as in its two parts.
LEMMA PlacesConcat ==
  ASSUME NEW S, NEW s \in Seq(S), NEW t \in Seq(S), NEW x
  PROVE  Cardinality(Places(x, s \o t))
           = Cardinality(Places(x, s)) + Cardinality(Places(x, t))
PROOF
<1> DEFINE m == Len(s)
           A == Places(x, s)
           B == Places(x, t)
           C == {j + m : j \in B}
           f == [j \in B |-> j + m]
<1>1. /\ m \in Nat /\ Len(t) \in Nat /\ Len(s \o t) = m + Len(t)
      /\ \A i \in 1 .. m + Len(t) :
           (s \o t)[i] = IF i <= m THEN s[i] ELSE t[i - m]
  BY LenProperties, ConcatProperties
<1>2. Places(x, s \o t) = A \cup C
  <2>1. ASSUME NEW i \in Places(x, s \o t) PROVE i \in A \cup C
    <3>1. i \in 1 .. m + Len(t) /\ (s \o t)[i] = x
      BY <1>1 DEF Places
    <3>2. CASE i <= m
      BY <1>1, <3>1, <3>2 DEF Places
    <3>3. CASE i > m
      <4>1. i - m \in 1 .. Len(t) /\ t[i - m] = x /\ (i - m) + m = i
        BY <1>1, <3>1, <3>3
      <4> QED
        BY <4>1 DEF Places
    <3> QED
      BY <1>1, <3>1, <3>2, <3>3
  <2>2. ASSUME NEW i \in A PROVE i \in Places(x, s \o t)
    BY <1>1 DEF Places
  <2>3. ASSUME NEW j \in B PROVE j + m \in Places(x, s \o t)
    <3>1. j \in 1 .. Len(t) /\ t[j] = x
      BY DEF Places
    <3>2. j + m \in 1 .. m + Len(t) /\ ~(j + m <= m) /\ (j + m) - m = j
      BY <1>1, <3>1
    <3> QED
      BY <1>1, <3>1, <3>2 DEF Places
  <2> QED
    BY <2>1, <2>2, <2>3
<1>3. A \cap C = {}
  BY <1>1 DEF Places
<1>4. f \in Bijection(B, C)
  <2>1. \A j \in B : j \in Int
    BY DEF Places
  <2>2. f \in [B -> C] /\ \A j \in C : \E k \in B : f[k] = j
    OBVIOUS
  <2>3. \A j, k \in B : f[j] = f[k] => j = k
    BY <1>1, <2>1
  <2> HIDE DEF f
  <2> QED
    BY <2>2, <2>3 DEF Bijection, Injection, Surjection, IsInjective
<1>5. /\ IsFiniteSet(A) /\ IsFiniteSet(B)
      /\ Cardinality(A) \in Nat /\ Cardinality(B) \in Nat
  BY PlacesFinite
<1>6. IsFiniteSet(C) /\ Cardinality(C) = Cardinality(B)
  <2>1. ExistsBijection(B, C)
    BY <1>4 DEF ExistsBijection
  <2> HIDE DEF B, C
  <2> QED
    BY <1>5, <2>1, FS_Bijection
<1>7. Cardinality(A \cup C) = Cardinality(A) + Cardinality(C) - Cardinality(A \cap C)
  <2> HIDE DEF A, C
  <2> QED
    BY <1>5, <1>6, FS_Union
<1>8. Cardinality(A \cap C) = 0
  BY <1>3, FS_EmptySet
<1> HIDE DEF A, B, C
<1>9. Cardinality(Places(x, s \o t)) = Cardinality(A) + Cardinality(B)
  BY <1>2, <1>5, <1>6, <1>7, <1>8
<1> QED
  BY <1>9 DEF A, B

LEMMA PlacesOne ==
  ASSUME NEW x, NEW y
  PROVE  /\ Cardinality(Places(x, <<>>)) = 0
         /\ Cardinality(Places(x, <<y>>)) = IF x = y THEN 1 ELSE 0
PROOF
<1>1. Places(x, <<>>) = {}
  BY DEF Places
<1>2. CASE x = y
  <2>1. Places(x, <<y>>) = {1}
    BY <1>2 DEF Places
  <2> QED
    BY <1>1, <1>2, <2>1, FS_EmptySet, FS_Singleton
<1>3. CASE x # y
  <2>1. Places(x, <<y>>) = {}
    BY <1>3 DEF Places
  <2> QED
    BY <1>1, <1>3, <2>1, FS_EmptySet
<1> QED
  BY <1>2, <1>3
LEMMA CountPlaces == \A f, s : Count(f, s) = Cardinality(Places(f, s))
BY DEF Count, Places

LEMMA CountConcat ==
  ASSUME NEW S, NEW s \in Seq(S), NEW t \in Seq(S), NEW f
  PROVE  /\ Count(f, s \o t) = Count(f, s) + Count(f, t)
         /\ Count(f, s) \in Nat /\ Count(f, t) \in Nat
BY CountPlaces, PlacesConcat, PlacesFinite

LEMMA CountShort ==
  /\ \A f : Count(f, <<>>) = 0
  /\ \A f, g : Count(f, <<g>>) = IF f = g THEN 1 ELSE 0
  /\ \A f, g, h : Count(f, <<g, h>>)
                    = (IF f = g THEN 1 ELSE 0) + (IF f = h THEN 1 ELSE 0)
PROOF
<1>1. \A f, g : Count(f, <<>>) = 0 /\ Count(f, <<g>>) = IF f = g THEN 1 ELSE 0
  BY CountPlaces, PlacesOne
<1>2. ASSUME NEW f, NEW g, NEW h
      PROVE  Count(f, <<g, h>>) = (IF f = g THEN 1 ELSE 0) + (IF f = h THEN 1 ELSE 0)
  <2>1. /\ Cardinality({}) = 0
        /\ Cardinality({1}) = 1 /\ Cardinality({2}) = 1
        /\ Cardinality({1, 2}) = 2
    <3> DEFINE S == {1}
    <3>1. IsFiniteSet(S) /\ Cardinality(S) = 1 /\ 2 \notin S
      BY FS_Singleton
    <3>2. S \cup {2} = {1, 2}
      OBVIOUS
    <3> HIDE DEF S
    <3>3. Cardinality(S \cup {2}) = Cardinality(S) + 1
      BY <3>1, FS_AddElement
    <3> QED
      BY <3>1, <3>2, <3>3, FS_EmptySet, FS_Singleton
  <2>2. Places(f, <<g, h>>)
          = (IF f = g THEN {1} ELSE {}) \cup (IF f = h THEN {2} ELSE {})
    BY DEF Places
  <2> QED
    BY <2>1, <2>2, CountPlaces
<1> QED
  BY <1>1, <1>2

LEMMA HasSplit ==
  ASSUME NEW f, NEW S, NEW s \in Seq(S), NEW t \in Seq(S)
  PROVE  Has(f, s \o t) <=> Has(f, s) \/ Has(f, t)
PROOF
<1>1. /\ Len(s) \in Nat /\ Len(t) \in Nat
      /\ Len(s \o t) = Len(s) + Len(t)
      /\ \A i \in 1 .. Len(s) + Len(t) :
           (s \o t)[i] = IF i <= Len(s) THEN s[i] ELSE t[i - Len(s)]
  BY LenProperties, ConcatProperties
<1>2. ASSUME Has(f, s) PROVE Has(f, s \o t)
  <2>1. PICK i \in 1 .. Len(s) : s[i] = f
    BY <1>2 DEF Has
  <2>2. i \in 1 .. Len(s \o t) /\ (s \o t)[i] = f
    BY <1>1, <2>1
  <2> QED
    BY <2>2 DEF Has
<1>3. ASSUME Has(f, t) PROVE Has(f, s \o t)
  <2>1. PICK i \in 1 .. Len(t) : t[i] = f
    BY <1>3 DEF Has
  <2>2. Len(s) + i \in 1 .. Len(s \o t) /\ (s \o t)[Len(s) + i] = f
    BY <1>1, <2>1
  <2> QED
    BY <2>2 DEF Has
<1>4. ASSUME Has(f, s \o t) PROVE Has(f, s) \/ Has(f, t)
  <2>1. PICK i \in 1 .. Len(s) + Len(t) : (s \o t)[i] = f
    BY <1>1, <1>4 DEF Has
  <2>2. CASE i <= Len(s)
    BY <1>1, <2>1, <2>2 DEF Has
  <2>3. CASE ~(i <= Len(s))
    <3>1. i - Len(s) \in 1 .. Len(t) /\ t[i - Len(s)] = f
      BY <1>1, <2>1, <2>3
    <3> QED
      BY <3>1 DEF Has
  <2> QED
    BY <2>2, <2>3
<1> QED
  BY <1>2, <1>3, <1>4

LEMMA HasOne ==
  /\ \A f : ~Has(f, <<>>)
  /\ \A f, g : Has(f, <<g>>) <=> f = g
BY DEF Has

-----------------------------------------------------------------------------
(* Induction, and what FlattenSeq and Expand compute.                      *)

\* Induction over the naturals.
LEMMA SetInduction ==
  ASSUME NEW P, 0 \in P, \A n \in Nat : n \in P => n + 1 \in P
  PROVE  \A n \in Nat : n \in P
PROOF
<1> SUFFICES ASSUME NEW k \in Nat, k \notin P PROVE FALSE
  OBVIOUS
<1> DEFINE S == (0 .. k) \cap P
           T == S \ {0}
           f == [n \in S |-> n + 1]
<1>1. IsFiniteSet(S) /\ 0 \in S
  <2>1. IsFiniteSet(0 .. k)
    BY FS_Interval
  <2>2. S \in SUBSET (0 .. k)
    OBVIOUS
  <2> QED
    BY <2>1, <2>2, FS_Subset
<1>2. IsFiniteSet(T) /\ Cardinality(T) = Cardinality(S) - 1 /\ Cardinality(S) \in Nat
  <2> HIDE DEF S
  <2> QED
  BY <1>1, FS_RemoveElement, FS_CardinalityType
<1>3. f \in Injection(S, T)
  <2>1. f \in [S -> T]
    OBVIOUS
  <2>2. \A m, n \in S : f[m] = f[n] => m = n
    OBVIOUS
  <2> HIDE DEF f, S, T
  <2> QED
    BY <2>1, <2>2 DEF Injection, IsInjective
<1>4. Cardinality(S) <= Cardinality(T)
  <2> HIDE DEF f, S, T
  <2> QED
    BY <1>2, <1>3, FS_Injection
<1> QED
  BY <1>2, <1>4

Flattens(F, ss, n) == F = [i \in 1 .. n |-> IF i = 1 THEN ss[i] ELSE F[i - 1] \o ss[i]]

LEMMA FlattenDef == ASSUME NEW ss, Len(ss) # 0
  PROVE FlattenSeq(ss) = (CHOOSE F : Flattens(F, ss, Len(ss)))[Len(ss)]
BY DEF FlattenSeq, Flattens

LEMMA FlattensAt ==
  ASSUME NEW ss, NEW n, NEW F, Flattens(F, ss, n), NEW i \in 1 .. n
  PROVE  F[i] = IF i = 1 THEN ss[i] ELSE F[i - 1] \o ss[i]
PROOF
<1>1. F = [j \in 1 .. n |-> IF j = 1 THEN ss[j] ELSE F[j - 1] \o ss[j]]
  BY DEF Flattens
<1> QED
  BY <1>1

LEMMA FlattensExists ==
  ASSUME NEW ss, Len(ss) \in Nat
  PROVE  \E F : Flattens(F, ss, Len(ss))
PROOF
<1> DEFINE P == {n \in Nat : \E F : Flattens(F, ss, n)}
<1>1. 0 \in P
  <2>1. Flattens([i \in 1 .. 0 |-> <<>>], ss, 0)
    BY DEF Flattens
  <2> QED
    BY <2>1
<1>2. ASSUME NEW n \in Nat, n \in P
      PROVE  n + 1 \in P
  <2>1. PICK F : F = [i \in 1 .. n |-> IF i = 1 THEN ss[i] ELSE F[i - 1] \o ss[i]]
    BY <1>2 DEF Flattens
  <2> DEFINE G == [i \in 1 .. n + 1 |->
                     IF i = n + 1 THEN (IF i = 1 THEN ss[i] ELSE F[i - 1] \o ss[i])
                                  ELSE F[i]]
  <2>2. \A i \in 1 .. n : G[i] = F[i]
    OBVIOUS
  <2>3. ASSUME NEW i \in 1 .. n + 1
        PROVE  G[i] = IF i = 1 THEN ss[i] ELSE G[i - 1] \o ss[i]
    <3>1. CASE i = 1 /\ n = 0
      BY <3>1
    <3>2. CASE i = 1 /\ n # 0
      BY <2>1, <3>2
    <3>3. CASE i # 1
      <4>1. i - 1 \in 1 .. n /\ G[i - 1] = F[i - 1]
        BY <2>2, <3>3
      <4>2. G[i] = F[i - 1] \o ss[i]
        <5>1. CASE i = n + 1
          BY <3>3, <5>1
        <5>2. CASE i # n + 1
          <6>1. i \in 1 .. n
            BY <5>2
          <6>2. F[i] = IF i = 1 THEN ss[i] ELSE F[i - 1] \o ss[i]
            BY <2>1, <6>1
          <6> QED
            BY <2>2, <3>3, <6>1, <6>2
        <5> QED
          BY <5>1, <5>2
      <4> QED
        BY <3>3, <4>1, <4>2
    <3> QED
      BY <3>1, <3>2, <3>3
  <2> HIDE DEF G
  <2>4. G = [i \in 1 .. n + 1 |-> G[i]]
    BY DEF G
  <2>5. G = [i \in 1 .. n + 1 |-> IF i = 1 THEN ss[i] ELSE G[i - 1] \o ss[i]]
    BY <2>3, <2>4
  <2>6. \E H : Flattens(H, ss, n + 1)
    BY <2>5 DEF Flattens
  <2> QED
    BY <2>6
<1> HIDE DEF P
<1>3. Len(ss) \in P
  BY <1>1, <1>2, SetInduction
<1> QED
  BY <1>3 DEF P

\* Where two sequences agree, so do the concatenations of their beginnings.
LEMMA FlattensUnique ==
  \A ss, tt, F, G : \A m, n \in Nat :
    (/\ Flattens(F, ss, m) /\ Flattens(G, tt, n) /\ m <= n
     /\ \A i \in 1 .. m : ss[i] = tt[i])
      => \A i \in 1 .. m : F[i] = G[i]
PROOF
<1> SUFFICES ASSUME NEW ss, NEW tt, NEW F, NEW G, NEW m \in Nat, NEW n \in Nat,
                    Flattens(F, ss, m), Flattens(G, tt, n), m <= n,
                    \A i \in 1 .. m : ss[i] = tt[i]
             PROVE  \A i \in 1 .. m : F[i] = G[i]
  OBVIOUS
<1> DEFINE P == {k \in Nat : k \in 1 .. m => F[k] = G[k]}
<1>1. 0 \in P
  OBVIOUS
<1>2. ASSUME NEW k \in Nat, k \in P
      PROVE  k + 1 \in P
  <2> SUFFICES ASSUME k + 1 \in 1 .. m
               PROVE  F[k + 1] = G[k + 1]
    OBVIOUS
  <2>1. /\ F[k + 1] = IF k + 1 = 1 THEN ss[k + 1] ELSE F[(k + 1) - 1] \o ss[k + 1]
        /\ G[k + 1] = IF k + 1 = 1 THEN tt[k + 1] ELSE G[(k + 1) - 1] \o tt[k + 1]
    BY FlattensAt
  <2>2. (k + 1) - 1 = k /\ ss[k + 1] = tt[k + 1]
    OBVIOUS
  <2>3. k # 0 => F[k] = G[k]
    BY <1>2
  <2> QED
    BY <2>1, <2>2, <2>3
<1> HIDE DEF P
<1>3. \A k \in Nat : k \in P
  BY <1>1, <1>2, SetInduction
<1> QED
  BY <1>3 DEF P

LEMMA FlattenValue ==
  ASSUME NEW ss, Len(ss) \in Nat, Len(ss) # 0
  PROVE  \E F : Flattens(F, ss, Len(ss)) /\ FlattenSeq(ss) = F[Len(ss)]
PROOF
<1> DEFINE F == CHOOSE H : Flattens(H, ss, Len(ss))
<1>1. Flattens(F, ss, Len(ss))
  BY FlattensExists
<1>2. FlattenSeq(ss) = F[Len(ss)]
  BY FlattenDef
<1> QED
  BY <1>1, <1>2

\* All that tells a concatenation: its type, and what one more part adds.
LEMMA FlattenTypes ==
  ASSUME NEW B, NEW ss \in Seq(Seq(B))
  PROVE  FlattenSeq(ss) \in Seq(B)
PROOF
<1>1. Len(ss) \in Nat /\ \A i \in 1 .. Len(ss) : ss[i] \in Seq(B)
  BY LenProperties, ElementOfSeq
<1>2. CASE Len(ss) = 0
  <2>1. ss = <<>>
    BY <1>2, EmptySeq
  <2> QED
    BY <1>2, <2>1, EmptySeq DEF FlattenSeq
<1>3. CASE Len(ss) # 0
  <2>1. PICK F : Flattens(F, ss, Len(ss)) /\ FlattenSeq(ss) = F[Len(ss)]
    BY <1>1, <1>3, FlattenValue
  <2> DEFINE P == {k \in Nat : k \in 1 .. Len(ss) => F[k] \in Seq(B)}
  <2>3. 0 \in P
    OBVIOUS
  <2>4. ASSUME NEW k \in Nat, k \in P
        PROVE  k + 1 \in P
    <3> SUFFICES ASSUME k + 1 \in 1 .. Len(ss)
                 PROVE  F[k + 1] \in Seq(B)
      OBVIOUS
    <3>1. F[k + 1] = IF k + 1 = 1 THEN ss[k + 1] ELSE F[(k + 1) - 1] \o ss[k + 1]
      BY <2>1, FlattensAt
    <3>2. ss[k + 1] \in Seq(B) /\ (k + 1) - 1 = k /\ (k # 0 => F[k] \in Seq(B))
      BY <1>1, <2>4
    <3>3. \A s, t \in Seq(B) : s \o t \in Seq(B)
      BY ConcatProperties
    <3> QED
      BY <3>1, <3>2, <3>3
  <2> HIDE DEF P
  <2>5. Len(ss) \in P
    BY <1>1, <2>3, <2>4, SetInduction
  <2> QED
    BY <1>1, <1>3, <2>1, <2>5 DEF P
<1> QED
  BY <1>2, <1>3

LEMMA FlattenAppend ==
  ASSUME NEW B, NEW ss \in Seq(Seq(B)), NEW t \in Seq(B)
  PROVE  FlattenSeq(Append(ss, t)) = FlattenSeq(ss) \o t
PROOF
<1> DEFINE tt == Append(ss, t)
           m == Len(ss)
<1>1. /\ m \in Nat /\ Len(tt) = m + 1
      /\ tt[m + 1] = t /\ \A i \in 1 .. m : ss[i] = tt[i]
  BY LenProperties, AppendProperties
<1> HIDE DEF tt
<1>2. PICK G : Flattens(G, tt, m + 1) /\ FlattenSeq(tt) = G[m + 1]
  <2>1. Len(tt) \in Nat /\ Len(tt) # 0
    BY <1>1
  <2> QED
    BY <1>1, <2>1, FlattenValue
<1>3. G[m + 1] = IF m + 1 = 1 THEN t ELSE G[(m + 1) - 1] \o t
  BY <1>1, <1>2, FlattensAt
<1>4. CASE m = 0
  <2>1. ss = <<>>
    BY <1>4, EmptySeq
  <2>2. FlattenSeq(ss) = <<>>
    BY <1>4, <2>1 DEF FlattenSeq
  <2> QED
    BY <1>2, <1>3, <1>4, <2>2, ConcatEmptySeq DEF tt
<1>5. CASE m # 0
  <2>1. PICK F : Flattens(F, ss, m) /\ FlattenSeq(ss) = F[m]
    BY <1>1, <1>5, FlattenValue
  <2> HIDE DEF m
  <2>2. m \in 1 .. m /\ (m + 1) - 1 = m /\ m + 1 # 1 /\ m + 1 \in Nat /\ m <= m + 1
    BY <1>1, <1>5
  <2>3. F[m] = G[m]
    <3>1. \A i \in 1 .. m : ss[i] = tt[i]
      BY <1>1
    <3>2. Flattens(F, ss, m) /\ Flattens(G, tt, m + 1)
      BY <1>2, <2>1
    <3>3. \A i \in 1 .. m : F[i] = G[i]
      <4> DEFINE n == m + 1
      <4>1. n \in Nat /\ m \in Nat /\ m <= n /\ Flattens(G, tt, n)
        BY <1>1, <2>2, <3>2
      <4> HIDE DEF n
      <4> QED
        BY <3>1, <3>2, <4>1, FlattensUnique
    <3> QED
      BY <2>2, <3>3
  <2> QED
    BY <1>2, <1>3, <2>1, <2>2, <2>3 DEF tt
<1> QED
  BY <1>4, <1>5

\* The library's fact, its quantifiers where the provers use them.
LEMMA Associative ==
  ASSUME NEW S
  PROVE  \A s, t, u \in Seq(S) : (s \o t) \o u = s \o (t \o u)
PROOF
<1> TAKE s, t, u \in Seq(S)
<1> QED
  BY ConcatAssociative

\* Expand, by its type and by the ends and the parts of its argument.
LEMMA ExpandTypes ==
  ASSUME NEW A, NEW B, NEW f \in [A -> Seq(B)], NEW s \in Seq(A)
  PROVE  /\ [i \in DOMAIN s |-> f[s[i]]] \in Seq(Seq(B))
         /\ Expand(f, s) \in Seq(B)
PROOF
<1> DEFINE fs == [i \in DOMAIN s |-> f[s[i]]]
<1>1. /\ Len(s) \in Nat /\ DOMAIN s = 1 .. Len(s)
      /\ \A i \in 1 .. Len(s) : s[i] \in A
  BY LenProperties, ElementOfSeq
<1>2. fs \in [1 .. Len(s) -> Seq(B)]
  BY <1>1
<1>3. fs \in Seq(Seq(B))
  <2> DEFINE C == Seq(B)
  <2>1. Len(s) \in Nat /\ fs \in [1 .. Len(s) -> C]
    BY <1>1, <1>2
  <2> HIDE DEF fs, C
  <2>2. \E n \in Nat : fs \in [1 .. n -> C]
    BY <2>1
  <2>3. Seq(C) = UNION {[1 .. n -> C] : n \in Nat}
    BY SeqDef
  <2>4. fs \in Seq(C)
    BY <2>2, <2>3, Zenon
  <2> QED
    BY <2>4 DEF C
<1>4. FlattenSeq(fs) \in Seq(B)
  <2> HIDE DEF fs
  <2> QED
    BY <1>3, FlattenTypes
<1> QED
  BY <1>3, <1>4 DEF Expand

LEMMA ExpandAppend ==
  ASSUME NEW A, NEW B, NEW f \in [A -> Seq(B)], NEW s \in Seq(A), NEW x \in A
  PROVE  Expand(f, Append(s, x)) = Expand(f, s) \o f[x]
PROOF
<1> DEFINE sx == Append(s, x)
           fs == [i \in DOMAIN s |-> f[s[i]]]
           fsx == [i \in DOMAIN sx |-> f[sx[i]]]
           m == Len(s)
<1>1. /\ m \in Nat /\ DOMAIN s = 1 .. m
      /\ sx \in Seq(A) /\ Len(sx) = m + 1 /\ DOMAIN sx = 1 .. m + 1
      /\ sx[m + 1] = x /\ \A i \in 1 .. m : sx[i] = s[i]
  BY LenProperties, AppendProperties
<1>2. fs \in Seq(Seq(B)) /\ fsx \in Seq(Seq(B)) /\ f[x] \in Seq(B)
  BY <1>1, ExpandTypes
<1>3. /\ Len(fs) = m /\ Len(fsx) = m + 1
      /\ \A i \in 1 .. m : fs[i] = f[s[i]]
      /\ \A i \in 1 .. m + 1 : fsx[i] = f[sx[i]]
  <2>1. DOMAIN fs = 1 .. m /\ DOMAIN fsx = 1 .. m + 1
    BY <1>1
  <2> HIDE DEF fs, fsx
  <2>2. Len(fs) = m /\ Len(fsx) = m + 1
    BY <1>1, <1>2, <2>1, LenProperties
  <2> QED
    BY <1>1, <2>2 DEF fs, fsx
<1>4. fsx = Append(fs, f[x])
  <2> HIDE DEF fs, fsx, sx, m
  <2>1. /\ Append(fs, f[x]) \in Seq(Seq(B)) /\ Len(Append(fs, f[x])) = m + 1
        /\ \A i \in 1 .. m : Append(fs, f[x])[i] = fs[i]
        /\ Append(fs, f[x])[m + 1] = f[x]
    BY <1>2, <1>3, AppendProperties
  <2>2. \A i \in 1 .. m + 1 : fsx[i] = Append(fs, f[x])[i]
    <3> TAKE i \in 1 .. m + 1
    <3>1. CASE i = m + 1
      BY <1>1, <1>3, <2>1, <3>1
    <3>2. CASE i # m + 1
      <4>1. i \in 1 .. m
        BY <1>1, <3>2
      <4> QED
        BY <1>1, <1>3, <2>1, <4>1
    <3> QED
      BY <3>1, <3>2
  <2> QED
    BY <1>2, <1>3, <2>1, <2>2, SeqEqual
<1> HIDE DEF fs, fsx, sx, m
<1>5. FlattenSeq(fsx) = FlattenSeq(fs) \o f[x]
  BY <1>2, <1>4, FlattenAppend
<1> QED
  BY <1>5 DEF Expand, fs, fsx, sx

LEMMA ExpandShort ==
  /\ \A f : Expand(f, <<>>) = <<>>
  /\ \A A, B : \A f \in [A -> Seq(B)] : \A x \in A : Expand(f, <<x>>) = f[x]
PROOF
<1>1. ASSUME NEW f
      PROVE  Expand(f, <<>>) = <<>>
  <2> DEFINE e == [i \in DOMAIN <<>> |-> f[<<>>[i]]]
  <2>1. e = <<>>
    OBVIOUS
  <2>2. FlattenSeq(<<>>) = <<>>
    BY DEF FlattenSeq
  <2> QED
    BY <2>1, <2>2 DEF Expand
<1>2. ASSUME NEW A, NEW B, NEW f \in [A -> Seq(B)], NEW x \in A
      PROVE  Expand(f, <<x>>) = f[x]
  <2>1. <<>> \in Seq(A) /\ Append(<<>>, x) = <<x>>
    BY EmptySeq
  <2>2. Expand(f, Append(<<>>, x)) = Expand(f, <<>>) \o f[x]
    BY <2>1, ExpandAppend
  <2>3. f[x] \in Seq(B)
    OBVIOUS
  <2> QED
    BY <1>1, <2>1, <2>2, <2>3, ConcatEmptySeq
<1> QED
  BY <1>1, <1>2

\* The last element and those before it.
LEMMA LastSplits ==
  ASSUME NEW S, NEW u \in Seq(S), NEW n \in Nat, Len(u) = n + 1
  PROVE  /\ SubSeq(u, 1, n) \in Seq(S)
         /\ Len(SubSeq(u, 1, n)) = n
         /\ u[n + 1] \in S
         /\ u = Append(SubSeq(u, 1, n), u[n + 1])
PROOF
<1> DEFINE v == SubSeq(u, 1, n)
           x == u[n + 1]
<1>1. x \in S /\ \A i \in 1 .. n + 1 : u[i] \in S
  BY ElementOfSeq
<1>2. v \in Seq(S) /\ Len(v) = n /\ \A i \in 1 .. n : v[i] = u[i]
  BY <1>1, SubSeqProperties
<1> HIDE DEF v
<1>3. /\ Append(v, x) \in Seq(S) /\ Len(Append(v, x)) = n + 1
      /\ \A i \in 1 .. n : Append(v, x)[i] = v[i]
      /\ Append(v, x)[n + 1] = x
  BY <1>1, <1>2, AppendProperties
<1>4. \A i \in 1 .. n + 1 : u[i] = Append(v, x)[i]
  <2> TAKE i \in 1 .. n + 1
  <2>1. CASE i = n + 1
    BY <1>3, <2>1
  <2>2. CASE i # n + 1
    <3>1. i \in 1 .. n
      BY <2>2
    <3> QED
      BY <1>2, <1>3, <3>1
  <2> QED
    BY <2>1, <2>2
<1>5. u = Append(v, x)
  BY <1>3, <1>4, SeqEqual
<1> QED
  BY <1>1, <1>2, <1>5 DEF v

\* What f replaces by nothing wherever it stands leaves nothing.
LEMMA ExpandNone ==
  ASSUME NEW A, NEW B, NEW f \in [A -> Seq(B)], NEW s \in Seq(A),
         \A i \in 1 .. Len(s) : f[s[i]] = <<>>
  PROVE  Expand(f, s) = <<>>
PROOF
<1> DEFINE C == {x \in A : f[x] = <<>>}
           P == {n \in Nat : \A u \in Seq(C) : Len(u) = n => Expand(f, u) = <<>>}
<1>1. Len(s) \in Nat /\ \A i \in 1 .. Len(s) : s[i] \in C
  BY LenProperties, ElementOfSeq
<1>2. s \in Seq(C)
  <2> HIDE DEF C
  <2> QED
    BY <1>1, SMT
<1>3. \A u \in Seq(C) : u \in Seq(A)
  OBVIOUS
<1>4. \A x \in C : x \in A /\ f[x] = <<>>
  OBVIOUS
<1> HIDE DEF C
<1>5. \A v \in Seq(A) : \A x \in A : Expand(f, Append(v, x)) = Expand(f, v) \o f[x]
  BY ExpandAppend
<1>6. 0 \in P
  <2> SUFFICES ASSUME NEW u \in Seq(C), Len(u) = 0
               PROVE  Expand(f, u) = <<>>
    OBVIOUS
  <2> QED
    BY EmptySeq, ExpandShort
<1>7. ASSUME NEW n \in Nat, n \in P
      PROVE  n + 1 \in P
  <2> SUFFICES ASSUME NEW u \in Seq(C), Len(u) = n + 1
               PROVE  Expand(f, u) = <<>>
    OBVIOUS
  <2> DEFINE v == SubSeq(u, 1, n)
             x == u[n + 1]
  <2>1. v \in Seq(C) /\ Len(v) = n /\ x \in C /\ u = Append(v, x)
    BY LastSplits
  <2> HIDE DEF v, x
  <2>2. Expand(f, v) = <<>>
    BY <1>7, <2>1
  <2>3. v \in Seq(A) /\ x \in A /\ f[x] = <<>>
    BY <1>3, <1>4, <2>1
  <2>4. Expand(f, Append(v, x)) = Expand(f, v) \o f[x]
    BY <1>5, <2>3
  <2>5. <<>> \o <<>> = <<>>
    BY EmptySeq, ConcatEmptySeq
  <2> QED
    BY <2>1, <2>2, <2>3, <2>4, <2>5
<1> HIDE DEF P
<1>8. \A n \in Nat : n \in P
  BY <1>6, <1>7, SetInduction
<1> QED
  BY <1>1, <1>2, <1>8 DEF P

LEMMA ExpandConcat ==
  ASSUME NEW A, NEW B, NEW f \in [A -> Seq(B)]
  PROVE  \A s, t \in Seq(A) : Expand(f, s \o t) = Expand(f, s) \o Expand(f, t)
PROOF
<1>a. \A p, q, r \in Seq(A) : (p \o q) \o r = p \o (q \o r)
  BY Associative
<1>b. \A p, q, r \in Seq(B) : (p \o q) \o r = p \o (q \o r)
  BY Associative
<1> TAKE s, t \in Seq(A)
<1> DEFINE P == {n \in Nat : \A u \in Seq(A) :
                   Len(u) = n => Expand(f, s \o u) = Expand(f, s) \o Expand(f, u)}
<1>0. Expand(f, s) \in Seq(B)
  BY ExpandTypes
<1>1. 0 \in P
  <2> SUFFICES ASSUME NEW u \in Seq(A), Len(u) = 0
               PROVE  Expand(f, s \o u) = Expand(f, s) \o Expand(f, u)
    OBVIOUS
  <2>1. u = <<>>
    BY EmptySeq
  <2>2. s \o u = s /\ Expand(f, u) = <<>>
    BY <2>1, ConcatEmptySeq, ExpandShort
  <2> QED
    BY <1>0, <2>2, ConcatEmptySeq
<1>2. ASSUME NEW n \in Nat, n \in P
      PROVE  n + 1 \in P
  <2> SUFFICES ASSUME NEW u \in Seq(A), Len(u) = n + 1
               PROVE  Expand(f, s \o u) = Expand(f, s) \o Expand(f, u)
    OBVIOUS
  <2> DEFINE v == SubSeq(u, 1, n)
             x == u[n + 1]
  <2>1. v \in Seq(A) /\ Len(v) = n /\ x \in A /\ u = Append(v, x)
    BY LastSplits
  <2> HIDE DEF v, x
  <2>2. Expand(f, s \o v) = Expand(f, s) \o Expand(f, v)
    BY <1>2, <2>1
  <2>3. s \o u = Append(s \o v, x) /\ s \o v \in Seq(A)
    <3>1. /\ s \o v \in Seq(A) /\ <<x>> \in Seq(A)
          /\ Append(v, x) = v \o <<x>> /\ Append(s \o v, x) = (s \o v) \o <<x>>
      BY <2>1, ConcatProperties, AppendIsConcat
    <3>2. \A q, r \in Seq(A) : (s \o q) \o r = s \o (q \o r)
      BY <1>a
    <3>3. (s \o v) \o <<x>> = s \o (v \o <<x>>)
      BY <2>1, <3>1, <3>2
    <3> QED
      BY <2>1, <3>1, <3>3
  <2>4. /\ Expand(f, Append(s \o v, x)) = Expand(f, s \o v) \o f[x]
        /\ Expand(f, Append(v, x)) = Expand(f, v) \o f[x]
    BY <2>1, <2>3, ExpandAppend
  <2>5. (Expand(f, s) \o Expand(f, v)) \o f[x] = Expand(f, s) \o (Expand(f, v) \o f[x])
    <3>1. Expand(f, v) \in Seq(B) /\ f[x] \in Seq(B)
      BY <2>1, ExpandTypes
    <3> QED
      BY <1>0, <1>b, <3>1
  <2> QED
    BY <2>1, <2>2, <2>3, <2>4, <2>5
<1> HIDE DEF P
<1>3. Len(t) \in Nat /\ \A n \in Nat : n \in P
  BY <1>1, <1>2, SetInduction, LenProperties
<1> QED
  BY <1>3 DEF P
=============================================================================
