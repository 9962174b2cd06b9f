-------------------------- MODULE FactCacheProofs --------------------------
(***************************************************************************)
(* Proofs about FactCache for any keys, sizes, batches and limits.         *)
(*                                                                         *)
(* The operators of the cache recur over sequences, so the proofs need     *)
(* induction over data.  It is stated for sets (Induction, SeqInduction)   *)
(* and applied to the set of the numbers or sequences that have the        *)
(* property in question.                                                   *)
(***************************************************************************)
EXTENDS FactCache, FiniteSetTheorems, SequenceTheorems, NaturalsInduction,
        WellFoundedInduction, TLAPS

\* A set of natural numbers with 0 and every successor is Nat.
LEMMA Induction ==
    ASSUME NEW S \in SUBSET Nat, 0 \in S, \A n \in S : n + 1 \in S
    PROVE  \A n \in Nat : n \in S
<1> DEFINE T == Nat \ S
<1> SUFFICES ASSUME T # {} PROVE FALSE OBVIOUS
<1>1. PICK x \in T : \A y \in T : ~(<<y, x>> \in OpToRel(<, Nat))
  BY WFMin, NatLessThanWellFounded, ZenonT(30)
<1>2. x # 0 /\ x - 1 \in Nat OBVIOUS
<1>3. <<x - 1, x>> \in OpToRel(<, Nat) BY <1>2 DEF OpToRel
<1>4. x - 1 \in S BY <1>1, <1>2, <1>3, ZenonT(30)
<1>5. QED BY <1>2, <1>4

\* A set of sequences with <<>> and everything appended to one of its members has
\* every sequence.
LEMMA SeqInduction ==
    ASSUME NEW S, NEW P \in SUBSET Seq(S), <<>> \in P,
           \A s \in P, e \in S : Append(s, e) \in P
    PROVE  \A s \in Seq(S) : s \in P
<1> DEFINE N == {n \in Nat : \A s \in Seq(S) : Len(s) = n => s \in P}
<1>1. 0 \in N OBVIOUS
<1>2. ASSUME NEW n \in N PROVE n + 1 \in N
  <2> SUFFICES ASSUME NEW s \in Seq(S), Len(s) = n + 1 PROVE s \in P OBVIOUS
  <2>0. s # <<>> OBVIOUS
  <2>1. PICK t \in Seq(S), e \in S : s = Append(t, e) BY <2>0, SequenceEmptyOrAppend, Zenon
  <2>2. Len(t) = n BY <2>1
  <2>3. QED BY <2>1, <2>2
<1> HIDE DEF N
<1>3. \A n \in Nat : n \in N BY <1>1, <1>2, Induction, Zenon DEF N
<1>4. QED BY <1>3 DEF N

\* A non-empty set of natural numbers has a least member.
LEMMA LeastMember ==
    ASSUME NEW T \in SUBSET Nat, T # {}
    PROVE  \E x \in T : \A y \in T : x <= y
<1>1. PICK x \in T : \A y \in T : ~(<<y, x>> \in OpToRel(<, Nat))
  BY WFMin, NatLessThanWellFounded, ZenonT(30)
<1>2. ASSUME NEW y \in T, y < x PROVE FALSE
  BY <1>1, <1>2, Zenon DEF OpToRel
<1>3. \A y \in T : x <= y BY <1>2
<1>4. QED BY <1>3
-----------------------------------------------------------------------------
\* SumBytes.

IsSum(f, s, n) == f = [i \in 0 .. n |-> IF i = 0 THEN 0 ELSE f[i - 1] + s[i].bytes]

Sized(S) == \A e \in S : e.bytes \in Nat

LEMMA SumExists ==
    ASSUME NEW S, NEW s \in Seq(S)
    PROVE  \E f : IsSum(f, s, Len(s))
<1> DEFINE N == {n \in Nat : n <= Len(s) => \E f : IsSum(f, s, n)}
<1>1. 0 \in N
  <2>1. IsSum([i \in 0 .. 0 |-> 0], s, 0) BY DEF IsSum
  <2>2. QED BY <2>1
<1>2. ASSUME NEW n \in N PROVE n + 1 \in N
  <2> SUFFICES ASSUME n + 1 <= Len(s) PROVE \E f : IsSum(f, s, n + 1) OBVIOUS
  <2>1. PICK f : IsSum(f, s, n) OBVIOUS
  <2> DEFINE g == [i \in 0 .. n + 1 |-> IF i = 0 THEN 0 ELSE f[i - 1] + s[i].bytes]
  <2>2. \A i \in 0 .. n : g[i] = f[i] BY <2>1 DEF IsSum
  <2>3. ASSUME NEW i \in 0 .. n + 1 PROVE g[i] = IF i = 0 THEN 0 ELSE g[i - 1] + s[i].bytes
    <3>1. CASE i = 0 BY <3>1
    <3>2. CASE i # 0
      <4>1. i - 1 \in 0 .. n BY <3>2
      <4>2. g[i] = f[i - 1] + s[i].bytes BY <3>2
      <4> HIDE DEF g
      <4>3. QED BY <2>2, <3>2, <4>1, <4>2
    <3>3. QED BY <3>1, <3>2
  <2>4. g = [i \in 0 .. n + 1 |-> g[i]] OBVIOUS
  <2> HIDE DEF g
  <2>5. IsSum(g, s, n + 1) BY <2>3, <2>4, Zenon DEF IsSum
  <2>6. QED BY <2>5
<1> HIDE DEF N
<1>3. \A n \in Nat : n \in N BY <1>1, <1>2, Induction, Zenon DEF N
<1>4. QED BY <1>3 DEF N

\* SumBytes has the value of its recursion.
LEMMA SumDef ==
    ASSUME NEW S, NEW s \in Seq(S)
    PROVE  \E f : IsSum(f, s, Len(s)) /\ SumBytes(s) = f[Len(s)]
BY SumExists, Zenon DEF SumBytes, IsSum

LEMMA SumEmpty == SumBytes(<<>>) = 0
<1>1. PICK f : IsSum(f, <<>>, Len(<<>>)) /\ SumBytes(<<>>) = f[Len(<<>>)]
  <2>1. <<>> \in Seq({}) OBVIOUS
  <2>2. QED BY <2>1, SumDef, Zenon
<1>2. QED BY <1>1 DEF IsSum

LEMMA SumAppend ==
    ASSUME NEW S, NEW s \in Seq(S), NEW e \in S
    PROVE  SumBytes(Append(s, e)) = SumBytes(s) + e.bytes
<1> DEFINE t == Append(s, e)
<1>1. t \in Seq(S) /\ Len(t) = Len(s) + 1 /\ t[Len(t)] = e /\ \A i \in 1 .. Len(s) : t[i] = s[i]
  OBVIOUS
<1> HIDE DEF t
<1>2. PICK f : IsSum(f, s, Len(s)) /\ SumBytes(s) = f[Len(s)] BY SumDef
<1>3. PICK g : IsSum(g, t, Len(t)) /\ SumBytes(t) = g[Len(t)] BY <1>1, SumDef
<1>4. Len(s) \in Nat OBVIOUS
<1> DEFINE N == {n \in Nat : n <= Len(s) => f[n] = g[n]}
<1>5. 0 \in N BY <1>1, <1>2, <1>3, <1>4 DEF IsSum
<1>6. ASSUME NEW n \in N PROVE n + 1 \in N
  <2> SUFFICES ASSUME n + 1 <= Len(s) PROVE f[n + 1] = g[n + 1] OBVIOUS
  <2>1. f[n] = g[n] /\ t[n + 1] = s[n + 1] BY <1>1
  <2>2. f[n + 1] = f[n] + s[n + 1].bytes BY <1>2, <1>4 DEF IsSum
  <2>3. g[n + 1] = g[n] + t[n + 1].bytes BY <1>1, <1>3, <1>4 DEF IsSum
  <2>4. QED BY <2>1, <2>2, <2>3, Zenon
<1>7. f[Len(s)] = g[Len(s)]
  <2> HIDE DEF N
  <2>1. \A n \in Nat : n \in N BY <1>5, <1>6, Induction, Zenon DEF N
  <2>2. QED BY <1>4, <2>1 DEF N
<1>8. g[Len(t)] = g[Len(s)] + t[Len(t)].bytes BY <1>1, <1>3, <1>4 DEF IsSum
<1>9. QED BY <1>1, <1>2, <1>3, <1>7, <1>8, Zenon DEF t

LEMMA SumNat ==
    ASSUME NEW S, Sized(S), NEW s \in Seq(S)
    PROVE  SumBytes(s) \in Nat
<1> DEFINE P == {t \in Seq(S) : SumBytes(t) \in Nat}
<1>1. <<>> \in P BY SumEmpty
<1>2. ASSUME NEW t \in P, NEW e \in S PROVE Append(t, e) \in P
  BY SumAppend DEF Sized
<1> HIDE DEF P
<1>3. \A t \in Seq(S) : t \in P BY <1>1, <1>2, SeqInduction, Zenon DEF P
<1>4. QED BY <1>3 DEF P

LEMMA SumConcat ==
    ASSUME NEW S, Sized(S), NEW s \in Seq(S), NEW t \in Seq(S)
    PROVE  SumBytes(s \o t) = SumBytes(s) + SumBytes(t)
<1> DEFINE P == {u \in Seq(S) : SumBytes(s \o u) = SumBytes(s) + SumBytes(u)}
<1>0. SumBytes(s) \in Nat BY SumNat
<1>1. <<>> \in P BY <1>0, SumEmpty, ConcatEmptySeq
<1>2. ASSUME NEW u \in P, NEW e \in S PROVE Append(u, e) \in P
  <2>1. s \o u \in Seq(S) BY ConcatProperties
  <2>2. s \o Append(u, e) = Append(s \o u, e)
    <3>1. Append(u, e) = u \o <<e>> BY AppendIsConcat
    <3>2. Append(s \o u, e) = (s \o u) \o <<e>> BY <2>1, AppendIsConcat
    <3>3. QED BY <3>1, <3>2, ConcatAssociative
  <2>3. SumBytes(Append(s \o u, e)) = SumBytes(s \o u) + e.bytes BY <2>1, SumAppend, Zenon
  <2>4. SumBytes(Append(u, e)) = SumBytes(u) + e.bytes BY SumAppend
  <2>5. SumBytes(u) \in Nat /\ e.bytes \in Nat BY SumNat DEF Sized
  <2>6. Append(u, e) \in Seq(S) OBVIOUS
  <2>7. SumBytes(s \o u) = SumBytes(s) + SumBytes(u) OBVIOUS
  <2>8. SumBytes(s \o Append(u, e)) = SumBytes(s) + SumBytes(Append(u, e))
    BY <1>0, <2>2, <2>3, <2>4, <2>5, <2>7
  <2>9. QED BY <2>6, <2>8
<1> HIDE DEF P
<1>3. \A u \in Seq(S) : u \in P BY <1>1, <1>2, SeqInduction, Zenon DEF P
<1>4. QED BY <1>3 DEF P

\* The bytes of a prefix and of the rest.
LEMMA SumSplit ==
    ASSUME NEW S, Sized(S), NEW s \in Seq(S), NEW k \in 0 .. Len(s)
    PROVE  /\ SubSeq(s, 1, k) \in Seq(S) /\ SubSeq(s, k + 1, Len(s)) \in Seq(S)
           /\ Len(SubSeq(s, k + 1, Len(s))) = Len(s) - k
           /\ SumBytes(SubSeq(s, 1, k)) + SumBytes(SubSeq(s, k + 1, Len(s))) = SumBytes(s)
<1>1. SubSeq(s, 1, k) \in Seq(S) /\ SubSeq(s, k + 1, Len(s)) \in Seq(S)
      /\ Len(SubSeq(s, k + 1, Len(s))) = Len(s) - k
  OBVIOUS
<1>2. SubSeq(s, 1, k) \o SubSeq(s, k + 1, Len(s)) = s
  <2>1. 1 \in 1 .. Len(s) + 1 /\ k \in 1 - 1 .. Len(s) /\ Len(s) \in k .. Len(s) OBVIOUS
  <2>2. SubSeq(s, 1, k) \o SubSeq(s, k + 1, Len(s)) = SubSeq(s, 1, Len(s))
    BY <2>1, ConcatAdjacentSubSeq, Zenon
  <2>3. QED BY <2>2, SubSeqFull, Zenon
<1>3. QED BY <1>1, <1>2, SumConcat, Zenon
-----------------------------------------------------------------------------
\* Only.

IsOnly(f, s, T, n) ==
    f = [i \in 0 .. n |-> IF i = 0 THEN <<>> ELSE Keep(f[i - 1], s[i], T)]

LEMMA OnlyExists ==
    ASSUME NEW S, NEW s \in Seq(S), NEW T
    PROVE  \E f : IsOnly(f, s, T, Len(s))
<1> DEFINE N == {n \in Nat : n <= Len(s) => \E f : IsOnly(f, s, T, n)}
<1>1. 0 \in N
  <2>1. IsOnly([i \in 0 .. 0 |-> <<>>], s, T, 0) BY DEF IsOnly
  <2>2. QED BY <2>1
<1>2. ASSUME NEW n \in N PROVE n + 1 \in N
  <2> SUFFICES ASSUME n + 1 <= Len(s) PROVE \E f : IsOnly(f, s, T, n + 1) OBVIOUS
  <2>1. PICK f : IsOnly(f, s, T, n) OBVIOUS
  <2> DEFINE g == [i \in 0 .. n + 1 |-> IF i = 0 THEN <<>> ELSE Keep(f[i - 1], s[i], T)]
  <2>2. \A i \in 0 .. n : g[i] = f[i] BY <2>1 DEF IsOnly
  <2>3. ASSUME NEW i \in 0 .. n + 1
        PROVE  g[i] = IF i = 0 THEN <<>> ELSE Keep(g[i - 1], s[i], T)
    <3>1. CASE i = 0 BY <3>1, Zenon
    <3>2. CASE i # 0
      <4>1. i - 1 \in 0 .. n BY <3>2
      <4>2. g[i] = Keep(f[i - 1], s[i], T) BY <3>2
      <4> HIDE DEF g
      <4>3. QED BY <2>2, <3>2, <4>1, <4>2, Zenon
    <3>3. QED BY <3>1, <3>2, Zenon
  <2>4. g = [i \in 0 .. n + 1 |-> g[i]] OBVIOUS
  <2> HIDE DEF g
  <2>5. IsOnly(g, s, T, n + 1) BY <2>3, <2>4, Zenon DEF IsOnly
  <2>6. QED BY <2>5
<1> HIDE DEF N
<1>3. \A n \in Nat : n \in N BY <1>1, <1>2, Induction, Zenon DEF N
<1>4. QED BY <1>3 DEF N

LEMMA OnlyDef ==
    ASSUME NEW S, NEW s \in Seq(S), NEW T
    PROVE  \E f : IsOnly(f, s, T, Len(s)) /\ Only(s, T) = f[Len(s)]
<1>1. \E f : IsOnly(f, s, T, Len(s)) BY OnlyExists, Zenon
<1>2. QED BY <1>1, Zenon DEF Only, IsOnly

LEMMA OnlyEmpty == ASSUME NEW T PROVE Only(<<>>, T) = <<>>
<1>1. PICK f : IsOnly(f, <<>>, T, Len(<<>>)) /\ Only(<<>>, T) = f[Len(<<>>)]
  <2>1. <<>> \in Seq({}) OBVIOUS
  <2>2. QED BY <2>1, OnlyDef, Zenon
<1>2. QED BY <1>1 DEF IsOnly

LEMMA OnlyAppend ==
    ASSUME NEW S, NEW s \in Seq(S), NEW e \in S, NEW T
    PROVE  Only(Append(s, e), T) = Keep(Only(s, T), e, T)
<1> DEFINE t == Append(s, e)
<1>1. t \in Seq(S) /\ Len(t) = Len(s) + 1 /\ t[Len(t)] = e /\ \A i \in 1 .. Len(s) : t[i] = s[i]
  OBVIOUS
<1> HIDE DEF t
<1>2. PICK f : IsOnly(f, s, T, Len(s)) /\ Only(s, T) = f[Len(s)] BY OnlyDef
<1>3. PICK g : IsOnly(g, t, T, Len(t)) /\ Only(t, T) = g[Len(t)] BY <1>1, OnlyDef
<1>4. Len(s) \in Nat OBVIOUS
<1> DEFINE N == {n \in Nat : n <= Len(s) => f[n] = g[n]}
<1>5. 0 \in N BY <1>1, <1>2, <1>3, <1>4 DEF IsOnly
<1>6. ASSUME NEW n \in N PROVE n + 1 \in N
  <2> SUFFICES ASSUME n + 1 <= Len(s) PROVE f[n + 1] = g[n + 1] OBVIOUS
  <2>1. f[n] = g[n] /\ t[n + 1] = s[n + 1] BY <1>1
  <2>2. f[n + 1] = Keep(f[n], s[n + 1], T)
    BY <1>2, <1>4 DEF IsOnly
  <2>3. g[n + 1] = Keep(g[n], t[n + 1], T)
    BY <1>1, <1>3, <1>4 DEF IsOnly
  <2>4. QED BY <2>1, <2>2, <2>3
<1>7. f[Len(s)] = g[Len(s)]
  <2> HIDE DEF N
  <2>1. \A n \in Nat : n \in N BY <1>5, <1>6, Induction DEF N
  <2>2. QED BY <1>4, <2>1 DEF N
<1>8. g[Len(t)] = Keep(g[Len(s)], t[Len(t)], T)
  BY <1>1, <1>3, <1>4 DEF IsOnly
<1>9. QED BY <1>1, <1>2, <1>3, <1>7, <1>8 DEF t
-----------------------------------------------------------------------------
\* The elements of a sequence, and sequences with one entry per key.

Elems(s) == {s[i] : i \in DOMAIN s}
Unique(s) == \A i, j \in DOMAIN s : s[i].key = s[j].key => i = j

LEMMA ElemsAppend ==
    ASSUME NEW S, NEW s \in Seq(S), NEW e \in S
    PROVE  Elems(Append(s, e)) = Elems(s) \cup {e}
<1> DEFINE t == Append(s, e)
<1>1. /\ DOMAIN t = 1 .. Len(s) + 1 /\ DOMAIN s = 1 .. Len(s) /\ Len(s) \in Nat
      /\ t[Len(s) + 1] = e /\ \A i \in 1 .. Len(s) : t[i] = s[i]
  OBVIOUS
<1> HIDE DEF t
<1>2. QED BY <1>1 DEF Elems, t

LEMMA ElemsType ==
    ASSUME NEW S, NEW s \in Seq(S) PROVE Elems(s) \subseteq S
BY DEF Elems

LEMMA UniqueAppend ==
    ASSUME NEW S, NEW s \in Seq(S), NEW e \in S
    PROVE  Unique(Append(s, e)) <=> Unique(s) /\ \A x \in Elems(s) : x.key # e.key
<1> DEFINE t == Append(s, e)
<1>1. /\ DOMAIN t = 1 .. Len(s) + 1 /\ DOMAIN s = 1 .. Len(s) /\ Len(s) \in Nat
      /\ t[Len(s) + 1] = e /\ \A i \in 1 .. Len(s) : t[i] = s[i]
  OBVIOUS
<1> HIDE DEF t
<1>2. ASSUME Unique(t) PROVE Unique(s) /\ \A x \in Elems(s) : x.key # e.key
  BY <1>1, <1>2 DEF Unique, Elems
<1>3. ASSUME Unique(s), \A x \in Elems(s) : x.key # e.key PROVE Unique(t)
  <2> SUFFICES ASSUME NEW i \in DOMAIN t, NEW j \in DOMAIN t, t[i].key = t[j].key PROVE i = j
    BY DEF Unique
  <2>1. CASE i \in 1 .. Len(s) /\ j \in 1 .. Len(s) BY <1>1, <1>3, <2>1, Zenon DEF Unique
  <2>2. CASE i = Len(s) + 1 /\ j \in 1 .. Len(s) BY <1>1, <1>3, <2>2, Zenon DEF Elems
  <2>3. CASE i \in 1 .. Len(s) /\ j = Len(s) + 1 BY <1>1, <1>3, <2>3, Zenon DEF Elems
  <2>4. CASE i = Len(s) + 1 /\ j = Len(s) + 1 BY <2>4, Zenon
  <2>5. QED BY <1>1, <2>1, <2>2, <2>3, <2>4
<1>4. QED BY <1>2, <1>3, Zenon DEF t

\* Only keeps a subsequence.
LEMMA OnlyFacts ==
    ASSUME NEW S, NEW s \in Seq(S), NEW T
    PROVE  /\ Only(s, T) \in Seq(S)
           /\ Len(Only(s, T)) <= Len(s)
           /\ Elems(Only(s, T)) = Elems(s) \cap T
           /\ Unique(s) => Unique(Only(s, T))
<1> DEFINE P == {t \in Seq(S) : /\ Only(t, T) \in Seq(S)
                                /\ Len(Only(t, T)) <= Len(t)
                                /\ Elems(Only(t, T)) = Elems(t) \cap T
                                /\ Unique(t) => Unique(Only(t, T))}
<1>1. <<>> \in P
  <2>1. Elems(<<>>) = {} BY DEF Elems
  <2>2. <<>> \in Seq(S) /\ Len(<<>>) = 0 OBVIOUS
  <2>3. Only(<<>>, T) = <<>> BY OnlyEmpty
  <2>4. Len(Only(<<>>, T)) <= Len(<<>>) BY <2>2, <2>3
  <2>5. Elems(Only(<<>>, T)) = Elems(<<>>) \cap T BY <2>1, <2>3, Zenon
  <2>6. Unique(<<>>) => Unique(Only(<<>>, T)) BY <2>3
  <2>7. Only(<<>>, T) \in Seq(S) BY <2>2, <2>3, Zenon
  <2>8. QED BY <2>2, <2>4, <2>5, <2>6, <2>7, Zenon
<1>2. ASSUME NEW t \in P, NEW e \in S PROVE Append(t, e) \in P
  <2> DEFINE u == Only(t, T)
  <2>0. /\ u \in Seq(S) /\ Len(u) <= Len(t) /\ Elems(u) = Elems(t) \cap T
        /\ Unique(t) => Unique(u)
    OBVIOUS
  <2>1. Append(t, e) \in Seq(S) /\ Append(u, e) \in Seq(S)
        /\ Len(Append(t, e)) = Len(t) + 1 /\ Len(Append(u, e)) = Len(u) + 1
    BY <2>0
  <2>2. Elems(Append(t, e)) = Elems(t) \cup {e} /\ Elems(Append(u, e)) = Elems(u) \cup {e}
    BY <2>0, ElemsAppend
  <2>3. /\ Unique(Append(t, e)) <=> Unique(t) /\ \A x \in Elems(t) : x.key # e.key
        /\ Unique(Append(u, e)) <=> Unique(u) /\ \A x \in Elems(u) : x.key # e.key
    BY <2>0, UniqueAppend
  <2>4. Only(Append(t, e), T) = Keep(u, e, T) BY OnlyAppend
  <2>5. Len(t) \in Nat /\ Len(u) \in Nat BY <2>0
  <2> HIDE DEF u
  <2>6. CASE e \in T
    <3>1. Only(Append(t, e), T) = Append(u, e) BY <2>4, <2>6 DEF Keep
    <3>2. Elems(Append(u, e)) = Elems(Append(t, e)) \cap T BY <2>0, <2>2, <2>6
    <3>3. Unique(Append(t, e)) => Unique(Append(u, e)) BY <2>0, <2>3
    <3>4. Len(Append(u, e)) <= Len(Append(t, e)) BY <2>0, <2>1, <2>5
    <3>5. QED BY <2>1, <3>1, <3>2, <3>3, <3>4, Zenon
  <2>7. CASE e \notin T
    <3>1. Only(Append(t, e), T) = u BY <2>4, <2>7, Zenon DEF Keep
    <3>2. Elems(u) = Elems(Append(t, e)) \cap T BY <2>0, <2>2, <2>7, Zenon
    <3>3. Unique(Append(t, e)) => Unique(u) BY <2>0, <2>3, Zenon
    <3>4. QED BY <2>0, <2>1, <2>5, <3>1, <3>2, <3>3
  <2>8. QED BY <2>6, <2>7
<1> HIDE DEF P
<1>3. \A t \in Seq(S) : t \in P BY <1>1, <1>2, SeqInduction, Zenon DEF P
<1>4. QED BY <1>3 DEF P

\* What Only keeps and what it leaves have the bytes, and the length, of the whole.
LEMMA OnlySplit ==
    ASSUME NEW S, Sized(S), NEW s \in Seq(S), NEW T, NEW U, \A e \in S : e \in T <=> e \notin U
    PROVE  /\ SumBytes(Only(s, T)) + SumBytes(Only(s, U)) = SumBytes(s)
           /\ Len(Only(s, T)) + Len(Only(s, U)) = Len(s)
<1> DEFINE P == {t \in Seq(S) : /\ SumBytes(Only(t, T)) + SumBytes(Only(t, U)) = SumBytes(t)
                                /\ Len(Only(t, T)) + Len(Only(t, U)) = Len(t)}
<1>1. <<>> \in P BY OnlyEmpty, SumEmpty
<1>2. ASSUME NEW t \in P, NEW e \in S PROVE Append(t, e) \in P
  <2> DEFINE u == Only(t, T)
             v == Only(t, U)
  <2>0. SumBytes(u) + SumBytes(v) = SumBytes(t) /\ Len(u) + Len(v) = Len(t) OBVIOUS
  <2>1. t \in Seq(S) /\ u \in Seq(S) /\ v \in Seq(S) BY OnlyFacts
  <2>2. /\ Only(Append(t, e), T) = Keep(u, e, T)
        /\ Only(Append(t, e), U) = Keep(v, e, U)
    BY OnlyAppend
  <2> HIDE DEF u, v, P
  <2>3. /\ SumBytes(u) \in Nat /\ SumBytes(v) \in Nat /\ SumBytes(t) \in Nat /\ e.bytes \in Nat
        /\ Len(u) \in Nat /\ Len(v) \in Nat /\ Len(t) \in Nat
    BY <2>1, SumNat DEF Sized
  <2>4. /\ SumBytes(Append(u, e)) = SumBytes(u) + e.bytes
        /\ SumBytes(Append(v, e)) = SumBytes(v) + e.bytes
        /\ SumBytes(Append(t, e)) = SumBytes(t) + e.bytes
    BY <2>1, SumAppend, Zenon
  <2>5. /\ Len(Append(u, e)) = Len(u) + 1 /\ Len(Append(v, e)) = Len(v) + 1
        /\ Len(Append(t, e)) = Len(t) + 1 /\ Append(t, e) \in Seq(S)
    BY <2>1
  <2>6. CASE e \in T
    <3>1. Keep(u, e, T) = Append(u, e) /\ Keep(v, e, U) = v BY <2>6 DEF Keep
    <3>2. SumBytes(Append(u, e)) + SumBytes(v) = SumBytes(Append(t, e)) BY <2>0, <2>3, <2>4
    <3>3. Len(Append(u, e)) + Len(v) = Len(Append(t, e))
      <4>1. (Len(u) + 1) + Len(v) = Len(t) + 1 BY <2>0, <2>3, SMTT(30), ZenonT(30)
      <4>2. QED BY <2>5, <4>1
    <3>4. QED BY <2>2, <2>5, <3>1, <3>2, <3>3, Zenon DEF P
  <2>7. CASE e \notin T
    <3>1. Keep(u, e, T) = u /\ Keep(v, e, U) = Append(v, e) BY <2>7 DEF Keep
    <3>2. SumBytes(u) + SumBytes(Append(v, e)) = SumBytes(Append(t, e)) BY <2>0, <2>3, <2>4
    <3>3. Len(u) + Len(Append(v, e)) = Len(Append(t, e))
      <4>1. Len(u) + (Len(v) + 1) = Len(t) + 1 BY <2>0, <2>3
      <4>2. QED BY <2>5, <4>1
    <3>4. QED BY <2>2, <2>5, <3>1, <3>2, <3>3, Zenon DEF P
  <2>8. QED BY <2>6, <2>7
<1> HIDE DEF P
<1>3. \A t \in Seq(S) : t \in P BY <1>1, <1>2, SeqInduction, Zenon DEF P
<1>4. QED BY <1>3 DEF P

\* With one entry per key there are as many keys as entries.
LEMMA UniqueCount ==
    ASSUME NEW S, NEW s \in Seq(S), Unique(s)
    PROVE  Cardinality(KeysOf(s)) = Len(s)
<1> DEFINE K(t) == {x.key : x \in Elems(t)}
           P == {t \in Seq(S) : Unique(t) => IsFiniteSet(K(t)) /\ Cardinality(K(t)) = Len(t)}
<1>1. <<>> \in P
  <2>1. K(<<>>) = {} BY DEF Elems
  <2> HIDE DEF K
  <2>2. IsFiniteSet(K(<<>>)) /\ Cardinality(K(<<>>)) = 0 BY <2>1, FS_EmptySet, Zenon
  <2>3. <<>> \in Seq(S) /\ Len(<<>>) = 0 OBVIOUS
  <2>4. QED BY <2>2, <2>3
<1>2. ASSUME NEW t \in P, NEW e \in S PROVE Append(t, e) \in P
  <2> SUFFICES ASSUME Unique(Append(t, e))
               PROVE  /\ IsFiniteSet(K(Append(t, e)))
                      /\ Cardinality(K(Append(t, e))) = Len(Append(t, e))
    OBVIOUS
  <2>1. Unique(t) /\ \A x \in Elems(t) : x.key # e.key BY UniqueAppend, Zenon
  <2>2. K(Append(t, e)) = K(t) \cup {e.key} BY ElemsAppend
  <2>3. e.key \notin K(t) BY <2>1, Zenon
  <2>4. IsFiniteSet(K(t)) /\ Cardinality(K(t)) = Len(t) BY <2>1
  <2>5. Len(Append(t, e)) = Len(t) + 1 OBVIOUS
  <2> HIDE DEF K
  <2> DEFINE L == K(t)
             M == L \cup {e.key}
  <2> HIDE DEF L
  <2>6. IsFiniteSet(M) /\ Cardinality(M) = Cardinality(L) + 1
    BY <2>3, <2>4, FS_AddElement, Zenon DEF L
  <2> HIDE DEF M
  <2>7. K(Append(t, e)) = M BY <2>2 DEF L, M
  <2>8. QED BY <2>4, <2>5, <2>6, <2>7, Zenon DEF L
<1> HIDE DEF P
<1>3. \A t \in Seq(S) : t \in P BY <1>1, <1>2, SeqInduction, Zenon DEF P
<1>4. K(s) = KeysOf(s) BY DEF Elems, KeysOf
<1>5. QED BY <1>3, <1>4, Zenon DEF P

LEMMA ConcatFacts ==
    ASSUME NEW S, NEW s \in Seq(S), NEW t \in Seq(S)
    PROVE  /\ Elems(s \o t) = Elems(s) \cup Elems(t)
           /\ Unique(s) /\ Unique(t) /\ (\A x \in Elems(s), y \in Elems(t) : x.key # y.key)
                => Unique(s \o t)
<1> DEFINE u == s \o t
<1>1. /\ DOMAIN u = 1 .. Len(s) + Len(t) /\ DOMAIN s = 1 .. Len(s) /\ DOMAIN t = 1 .. Len(t)
      /\ Len(s) \in Nat /\ Len(t) \in Nat
      /\ \A i \in 1 .. Len(s) : u[i] = s[i]
      /\ \A i \in Len(s) + 1 .. Len(s) + Len(t) : u[i] = t[i - Len(s)]
  OBVIOUS
<1> HIDE DEF u
<1>2. Elems(u) = Elems(s) \cup Elems(t)
  <2>1. ASSUME NEW i \in DOMAIN s PROVE s[i] \in Elems(u) BY <1>1 DEF Elems
  <2>2. ASSUME NEW i \in DOMAIN t PROVE t[i] \in Elems(u)
    <3>1. i + Len(s) \in DOMAIN u /\ u[i + Len(s)] = t[i] BY <1>1, SMTT(30), ZenonT(30)
    <3>2. QED BY <3>1, Zenon DEF Elems
  <2>3. ASSUME NEW i \in DOMAIN u PROVE u[i] \in Elems(s) \cup Elems(t)
    <3>1. CASE i \in 1 .. Len(s) BY <1>1, <3>1 DEF Elems
    <3>2. CASE i \in Len(s) + 1 .. Len(s) + Len(t)
      <4>1. i - Len(s) \in DOMAIN t /\ u[i] = t[i - Len(s)] BY <1>1, <3>2
      <4>2. QED BY <4>1 DEF Elems
    <3>3. QED BY <1>1, <3>1, <3>2
  <2>4. QED BY <2>1, <2>2, <2>3, Zenon DEF Elems
<1>3. ASSUME Unique(s), Unique(t), \A x \in Elems(s), y \in Elems(t) : x.key # y.key
      PROVE  Unique(u)
  <2> SUFFICES ASSUME NEW i \in DOMAIN u, NEW j \in DOMAIN u, u[i].key = u[j].key PROVE i = j
    BY DEF Unique
  <2>1. ASSUME NEW k \in DOMAIN u PROVE \/ k \in 1 .. Len(s) /\ u[k] = s[k] /\ s[k] \in Elems(s)
                                       \/ /\ k - Len(s) \in 1 .. Len(t) /\ u[k] = t[k - Len(s)]
                                          /\ t[k - Len(s)] \in Elems(t)
    BY <1>1, SMTT(30), ZenonT(30) DEF Elems
  <2>2. CASE u[i] = s[i] /\ u[j] = s[j] /\ i \in 1 .. Len(s) /\ j \in 1 .. Len(s)
    BY <1>1, <1>3, <2>2 DEF Unique
  <2>3. CASE /\ u[i] = t[i - Len(s)] /\ u[j] = t[j - Len(s)]
             /\ i - Len(s) \in 1 .. Len(t) /\ j - Len(s) \in 1 .. Len(t)
    <3>1. i - Len(s) = j - Len(s) BY <1>1, <1>3, <2>3, Zenon DEF Unique
    <3>2. QED BY <1>1, <3>1
  <2>4. QED BY <1>3, <2>1, <2>2, <2>3, Zenon
<1>4. QED BY <1>2, <1>3 DEF u

\* A part of a sequence with one entry per key.
LEMMA SubSeqFacts ==
    ASSUME NEW S, NEW s \in Seq(S), NEW k \in 0 .. Len(s)
    PROVE  /\ Elems(SubSeq(s, k + 1, Len(s))) \subseteq Elems(s)
           /\ Unique(s) => Unique(SubSeq(s, k + 1, Len(s)))
<1> DEFINE u == SubSeq(s, k + 1, Len(s))
<1>1. /\ DOMAIN u = 1 .. Len(s) - k /\ DOMAIN s = 1 .. Len(s) /\ Len(s) \in Nat
      /\ \A i \in 1 .. Len(s) - k : u[i] = s[i + k]
  OBVIOUS
<1> HIDE DEF u
<1>2. ASSUME NEW i \in DOMAIN u PROVE i + k \in DOMAIN s /\ u[i] = s[i + k]
  BY <1>1
<1>3. Elems(u) \subseteq Elems(s) BY <1>2 DEF Elems
<1>4. ASSUME Unique(s), NEW i \in DOMAIN u, NEW j \in DOMAIN u, u[i].key = u[j].key PROVE i = j
  <2>1. i + k = j + k BY <1>2, <1>4 DEF Unique
  <2>2. QED BY <1>1, <2>1
<1>5. QED BY <1>3, <1>4, Zenon DEF u, Unique
-----------------------------------------------------------------------------
\* The operations on the cache.

CacheOK(c) ==
    /\ c.entries \in Seq(Entries)
    /\ c.bytes = SumBytes(c.entries) /\ c.bytes <= MaxBytes
    /\ Len(c.entries) <= MaxEntries
    /\ Unique(c.entries)

LEMMA SizedEntries == Sized(Entries) /\ Sized(Responses)
BY CacheAssumption, Zenon DEF Sized, Entries, Responses

LEMMA CacheFields ==
    ASSUME NEW s, NEW b PROVE Cache(s, b).entries = s /\ Cache(s, b).bytes = b
BY DEF Cache

\* Removing entries, and their bytes from the count.
LEMMA OnlyCache ==
    ASSUME NEW c, CacheOK(c), NEW T,
           NEW d, d = Cache(Only(c.entries, T),
                            c.bytes - (SumBytes(c.entries) - SumBytes(Only(c.entries, T))))
    PROVE  /\ CacheOK(d)
           /\ Elems(d.entries) = Elems(c.entries) \cap T
           /\ Len(d.entries) <= Len(c.entries) /\ d.bytes <= c.bytes
<1> DEFINE s == c.entries
           kept == Only(s, T)
           gone == Only(s, Entries \ T)
<1>1. s \in Seq(Entries) /\ c.bytes = SumBytes(s) /\ c.bytes <= MaxBytes /\ Len(s) <= MaxEntries
      /\ Unique(s)
  BY DEF CacheOK
<1> HIDE DEF s
<1>2. kept \in Seq(Entries) /\ Len(kept) <= Len(s) /\ Elems(kept) = Elems(s) \cap T
      /\ Unique(kept)
      /\ gone \in Seq(Entries)
  BY <1>1, OnlyFacts
<1>3. SumBytes(kept) + SumBytes(gone) = SumBytes(s)
  BY <1>1, OnlySplit, SizedEntries
<1> HIDE DEF kept, gone
<1>4. SumBytes(kept) \in Nat /\ SumBytes(gone) \in Nat /\ SumBytes(s) \in Nat
      /\ Len(s) \in Nat /\ Len(kept) \in Nat
  BY <1>1, <1>2, SumNat, SizedEntries
<1>5. d.entries = kept /\ d.bytes = c.bytes - (SumBytes(s) - SumBytes(kept))
  BY CacheFields, ZenonT(30) DEF s, kept
<1>6. d.bytes = SumBytes(kept) /\ d.bytes <= c.bytes
  <2>1. SumBytes(s) - (SumBytes(s) - SumBytes(kept)) = SumBytes(kept) BY <1>4
  <2>2. SumBytes(kept) <= SumBytes(s) BY <1>3, <1>4
  <2>3. QED BY <1>1, <1>5, <2>1, <2>2, Zenon
<1>7. d.bytes <= MaxBytes /\ Len(kept) <= MaxEntries
  BY <1>1, <1>2, <1>4, <1>6, CacheAssumption
<1>8. CacheOK(d) BY <1>2, <1>5, <1>6, <1>7, Zenon DEF CacheOK
<1>9. QED BY <1>2, <1>5, <1>6, <1>8 DEF s

\* #prune keeps exactly the fresh entries.
LEMMA PruneFacts ==
    ASSUME CacheOK(Cache(entries, bytes)), NEW now
    PROVE  /\ CacheOK(Prune(now))
           /\ Elems(Prune(now).entries) = {e \in Elems(entries) : Fresh(e.observedAt, now)}
           /\ Len(Prune(now).entries) <= Len(entries) /\ Prune(now).bytes <= bytes
<1> DEFINE c == Cache(entries, bytes)
           T == {e \in Entries : Fresh(e.observedAt, now)}
<1>1. c.entries = entries /\ c.bytes = bytes BY CacheFields, Zenon
<1>2. Elems(entries) \subseteq Entries BY <1>1, ElemsType, Zenon DEF CacheOK
<1>3. Prune(now) = Cache(Only(c.entries, T),
                         c.bytes - (SumBytes(c.entries) - SumBytes(Only(c.entries, T))))
  BY <1>1, Zenon DEF Prune
<1> HIDE DEF c, T
<1>4. /\ CacheOK(Prune(now)) /\ Elems(Prune(now).entries) = Elems(c.entries) \cap T
      /\ Len(Prune(now).entries) <= Len(c.entries) /\ Prune(now).bytes <= c.bytes
  BY <1>3, OnlyCache, Zenon DEF c
<1>5. QED BY <1>1, <1>2, <1>4, Zenon DEF T

LEMMA RemoveFacts ==
    ASSUME NEW c, CacheOK(c), NEW key
    PROVE  /\ CacheOK(RemoveKey(c, key))
           /\ Elems(RemoveKey(c, key).entries) = {e \in Elems(c.entries) : e.key # key}
           /\ Len(RemoveKey(c, key).entries) <= Len(c.entries)
           /\ RemoveKey(c, key).bytes <= c.bytes
<1> DEFINE T == {e \in Entries : e.key # key}
<1>1. Elems(c.entries) \subseteq Entries BY ElemsType DEF CacheOK
<1>2. RemoveKey(c, key) = Cache(Only(c.entries, T),
                                c.bytes - (SumBytes(c.entries) - SumBytes(Only(c.entries, T))))
  BY DEF RemoveKey, Without
<1> HIDE DEF T
<1>3. /\ CacheOK(RemoveKey(c, key)) /\ Elems(RemoveKey(c, key).entries) = Elems(c.entries) \cap T
      /\ Len(RemoveKey(c, key).entries) <= Len(c.entries)
      /\ RemoveKey(c, key).bytes <= c.bytes
  BY <1>2, OnlyCache, Zenon
<1>4. QED BY <1>1, <1>3 DEF T

\* The loop that makes room ends with room for the new entry, and evicts nothing when
\* there was room.
LEMMA RoomFacts ==
    ASSUME NEW c, CacheOK(c), NEW size \in Nat, size <= MaxBytes
    PROVE  /\ CacheOK(Room(c, size))
           /\ Elems(Room(c, size).entries) \subseteq Elems(c.entries)
           /\ Len(Room(c, size).entries) < MaxEntries
           /\ Room(c, size).bytes + size <= MaxBytes
           /\ Len(Room(c, size).entries) <= Len(c.entries) /\ Room(c, size).bytes <= c.bytes
           /\ Len(c.entries) < MaxEntries /\ c.bytes + size <= MaxBytes
                => Room(c, size).entries = c.entries
<1> DEFINE s == c.entries
           n == Len(s)
           Cut(k) == SumBytes(SubSeq(s, 1, k))
           Fits(k) == n - k < MaxEntries /\ size <= MaxBytes - (c.bytes - Cut(k))
           Stop(k) == (Fits(k) \/ k = n) /\ \A j \in 0 .. k - 1 : ~Fits(j)
           gone == CHOOSE k \in 0 .. n : Stop(k)
           rest == SubSeq(s, gone + 1, n)
<1>1. s \in Seq(Entries) /\ c.bytes = SumBytes(s) /\ c.bytes <= MaxBytes /\ n <= MaxEntries
      /\ Unique(s) /\ n \in Nat
  BY DEF CacheOK
<1>2. Room(c, size) = Cache(rest, c.bytes - Cut(gone)) BY Zenon DEF Room
<1> HIDE DEF s, n
<1>3. gone \in 0 .. n /\ Stop(gone)
  <2> DEFINE T == {k \in 0 .. n : Fits(k) \/ k = n}
  <2> HIDE DEF Fits
  <2>1. T \in SUBSET Nat /\ n \in T BY <1>1
  <2>2. PICK x \in T : \A y \in T : x <= y BY <2>1, LeastMember, Zenon
  <2>3. \A j \in 0 .. x - 1 : ~Fits(j) BY <1>1, <2>2
  <2>4. \E k \in 0 .. n : Stop(k) BY <2>2, <2>3
  <2>5. QED BY <2>4, Zenon
<1> HIDE DEF gone
<1>4. /\ SubSeq(s, 1, gone) \in Seq(Entries) /\ rest \in Seq(Entries) /\ Len(rest) = n - gone
      /\ Cut(gone) + SumBytes(rest) = SumBytes(s)
  BY <1>1, <1>3, SumSplit, SizedEntries DEF n
<1>5. Elems(rest) \subseteq Elems(s) /\ Unique(rest)
  BY <1>1, <1>3, SubSeqFacts DEF n
<1>6. Cut(gone) \in Nat /\ SumBytes(rest) \in Nat /\ SumBytes(s) \in Nat
  BY <1>1, <1>4, SumNat, SizedEntries, Zenon
<1>7. Fits(0) => gone = 0
  BY <1>1, <1>3
<1>8. ASSUME n < MaxEntries, c.bytes + size <= MaxBytes PROVE rest = s
  <2>1. SubSeq(s, 1, 0) = <<>> BY SubSeqEmpty
  <2>2. Cut(0) = 0 BY <2>1, SumEmpty, Zenon
  <2>3. Fits(0) BY <1>1, <1>6, <1>8, <2>2, CacheAssumption
  <2>4. gone = 0 BY <1>7, <2>3
  <2>5. QED BY <1>1, <2>4, SubSeqFull DEF n
<1>9. c.bytes - Cut(gone) = SumBytes(rest) BY <1>1, <1>4, <1>6
<1>10. n - gone < MaxEntries /\ size <= MaxBytes - (c.bytes - Cut(gone))
  <2>1. CASE Fits(gone) BY <2>1, Zenon
  <2>2. CASE gone = n
    <3>1. rest = <<>> BY <1>1, <2>2, SubSeqEmpty
    <3>2. SumBytes(rest) = 0 BY <3>1, SumEmpty, Zenon
    <3>3. n - gone = 0 BY <1>1, <2>2
    <3>4. QED BY <1>6, <1>9, <3>2, <3>3, CacheAssumption
  <2>3. QED BY <1>3, <2>1, <2>2, Zenon
<1> HIDE DEF rest, Cut
<1>11. Room(c, size).entries = rest /\ Room(c, size).bytes = SumBytes(rest)
  BY <1>2, <1>9, CacheFields
<1>12. /\ SumBytes(rest) <= c.bytes /\ Len(rest) <= n /\ Len(rest) < MaxEntries
       /\ SumBytes(rest) + size <= MaxBytes
  BY <1>1, <1>3, <1>4, <1>6, <1>9, <1>10, CacheAssumption, SMTT(30), ZenonT(30)
<1>13. SumBytes(rest) <= MaxBytes /\ Len(rest) <= MaxEntries
  BY <1>1, <1>3, <1>4, <1>6, <1>12, CacheAssumption, SMTT(30), ZenonT(30)
<1>14. CacheOK(Room(c, size)) BY <1>4, <1>5, <1>11, <1>13, Zenon DEF CacheOK
<1>15. QED BY <1>5, <1>8, <1>11, <1>12, <1>14 DEF s, n

Kept(r) == [key |-> r.key, observedAt |-> r.observedAt, bytes |-> r.bytes]

Stored(d, c, r, now) ==
    /\ CacheOK(d)
    /\ \A x \in Elems(d.entries) :
          x \in Elems(c.entries) \/ (x = Kept(r) /\ Fresh(r.observedAt, now))
    /\ Len(c.entries) < MaxEntries /\ c.bytes + r.bytes <= MaxBytes =>
          /\ Len(d.entries) <= Len(c.entries) + 1 /\ d.bytes <= c.bytes + r.bytes
          /\ \A x \in Elems(c.entries) : \E y \in Elems(d.entries) :
                y.key = x.key /\ x.observedAt <= y.observedAt

\* One turn of put()'s loop: the cache stays accounted, gains nothing but this response
\* if it is fresh, and loses no observation to an older one while nothing has to go.
LEMMA StoreFacts ==
    ASSUME NEW c, CacheOK(c), NEW r \in Responses, NEW now
    PROVE  Stored(Store(c, r, now), c, r, now)
<1> DEFINE d == Store(c, r, now)
           cut == RemoveKey(c, r.key)
           room == Room(cut, r.bytes)
           e == Kept(r)
<1>0. /\ Len(c.entries) \in Nat /\ r.bytes \in Nat /\ c.bytes \in Nat
      /\ Elems(c.entries) \subseteq Entries /\ c.entries \in Seq(Entries)
      /\ \A x \in Elems(c.entries) : x.observedAt \in Nat
  <2>1. c.entries \in Seq(Entries) /\ c.bytes = SumBytes(c.entries) BY DEF CacheOK
  <2>2. Elems(c.entries) \subseteq Entries BY <2>1, ElemsType, Zenon
  <2>3. r.bytes \in Nat BY SizedEntries, Zenon DEF Sized
  <2>4. c.bytes \in Nat BY <2>1, SumNat, SizedEntries, Zenon
  <2>5. QED BY <2>1, <2>2, <2>3, <2>4 DEF Entries
<1>1. CASE d = c
  <2>1. Len(c.entries) <= Len(c.entries) + 1 /\ c.bytes <= c.bytes + r.bytes BY <1>0
  <2>2. \A x \in Elems(c.entries) : x.observedAt <= x.observedAt BY <1>0
  <2>3. \A x \in Elems(c.entries) : \E y \in Elems(c.entries) :
           y.key = x.key /\ x.observedAt <= y.observedAt
    BY <2>2, Zenon
  <2>4. Stored(c, c, r, now) BY <2>1, <2>3, Zenon DEF Stored
  <2>5. QED BY <1>1, <2>4, Zenon
<1>2. CASE d # c
  <2>1. /\ r.kind # "skipped" /\ Fresh(r.observedAt, now) /\ ~(r.bytes > MaxBytes)
        /\ ~\E i \in DOMAIN c.entries :
              c.entries[i].key = r.key /\ c.entries[i].observedAt > r.observedAt
        /\ d = Cache(Append(room.entries, e), room.bytes + r.bytes)
    BY <1>2, Zenon DEF Store, Kept
  <2>2. r.bytes <= MaxBytes BY <1>0, <2>1, CacheAssumption
  <2>3. \A x \in Elems(c.entries) : x.key = r.key => x.observedAt <= r.observedAt
    <3>1. r.observedAt \in Nat BY DEF Responses
    <3>2. QED BY <1>0, <2>1, <3>1 DEF Elems
  <2> HIDE DEF d
  <2>4. /\ CacheOK(cut) /\ Elems(cut.entries) = {x \in Elems(c.entries) : x.key # r.key}
        /\ Len(cut.entries) <= Len(c.entries) /\ cut.bytes <= c.bytes
    BY RemoveFacts, ZenonT(30)
  <2> HIDE DEF cut
  <2>5. /\ CacheOK(room) /\ Elems(room.entries) \subseteq Elems(cut.entries)
        /\ Len(room.entries) < MaxEntries /\ room.bytes + r.bytes <= MaxBytes
        /\ Len(room.entries) <= Len(cut.entries) /\ room.bytes <= cut.bytes
        /\ Len(cut.entries) < MaxEntries /\ cut.bytes + r.bytes <= MaxBytes
             => room.entries = cut.entries
    BY <1>0, <2>2, <2>4, RoomFacts, Zenon
  <2> HIDE DEF room
  <2>6. /\ room.entries \in Seq(Entries) /\ room.bytes = SumBytes(room.entries)
        /\ Unique(room.entries) /\ Len(room.entries) \in Nat /\ room.bytes \in Nat
        /\ Len(cut.entries) \in Nat /\ cut.bytes \in Nat
    BY <2>4, <2>5, SumNat, SizedEntries DEF CacheOK
  <2>7. e \in Entries /\ e.bytes = r.bytes /\ e.key = r.key /\ e.observedAt = r.observedAt
    BY DEF Kept, Entries, Responses
  <2> HIDE DEF e
  <2>8. d.entries = Append(room.entries, e) /\ d.bytes = room.bytes + r.bytes
    BY <2>1, CacheFields, Zenon
  <2>9. Elems(d.entries) = Elems(room.entries) \cup {e} BY <2>6, <2>7, <2>8, ElemsAppend
  <2>10. Unique(d.entries)
    BY <2>4, <2>5, <2>6, <2>7, <2>8, UniqueAppend
  <2>11. d.bytes = SumBytes(d.entries) BY <2>6, <2>7, <2>8, SumAppend, Zenon
  <2>12. d.entries \in Seq(Entries) /\ Len(d.entries) = Len(room.entries) + 1 BY <2>6, <2>7, <2>8
  <2>13. d.bytes <= MaxBytes /\ Len(d.entries) <= MaxEntries
    BY <2>5, <2>6, <2>8, <2>12, CacheAssumption
  <2>14. CacheOK(d) BY <2>10, <2>11, <2>12, <2>13, Zenon DEF CacheOK
  <2>15. \A x \in Elems(d.entries) : x \in Elems(c.entries) \/ (x = e /\ Fresh(r.observedAt, now))
    BY <2>1, <2>4, <2>5, <2>9, Zenon
  <2>16. ASSUME Len(c.entries) < MaxEntries, c.bytes + r.bytes <= MaxBytes
         PROVE  /\ Len(d.entries) <= Len(c.entries) + 1 /\ d.bytes <= c.bytes + r.bytes
                /\ \A x \in Elems(c.entries) : \E y \in Elems(d.entries) :
                      y.key = x.key /\ x.observedAt <= y.observedAt
    <3>1. Len(d.entries) <= Len(c.entries) + 1 /\ d.bytes <= c.bytes + r.bytes
      <4>1. Len(room.entries) <= Len(c.entries) BY <1>0, <2>4, <2>5, <2>6, SMTT(30), ZenonT(30)
      <4>2. Len(d.entries) <= Len(c.entries) + 1 BY <1>0, <2>6, <2>12, <4>1
      <4>3. room.bytes <= c.bytes BY <1>0, <2>4, <2>5, <2>6
      <4>4. d.bytes <= c.bytes + r.bytes BY <1>0, <2>6, <2>8, <4>3, SMTT(30), ZenonT(30)
      <4>5. QED BY <4>2, <4>4, Zenon
    <3>2. Len(cut.entries) < MaxEntries /\ cut.bytes + r.bytes <= MaxBytes
      BY <1>0, <2>4, <2>6, <2>16, CacheAssumption, SMTT(30), ZenonT(30)
    <3>3. Elems(room.entries) = {x \in Elems(c.entries) : x.key # r.key} BY <2>4, <2>5, <3>2
    <3>4. ASSUME NEW x \in Elems(c.entries)
          PROVE  \E y \in Elems(d.entries) : y.key = x.key /\ x.observedAt <= y.observedAt
      <4>1. CASE x.key = r.key BY <2>3, <2>7, <2>9, <4>1, Zenon
      <4>2. CASE x.key # r.key
        <5>1. x \in Elems(d.entries) /\ x.observedAt \in Nat BY <1>0, <2>9, <3>3, <4>2, Zenon
        <5>2. QED BY <5>1
      <4>3. QED BY <4>1, <4>2, Zenon
    <3>5. QED BY <3>1, <3>4, Zenon
  <2>17. QED BY <2>14, <2>15, <2>16, Zenon DEF e, d, Stored
<1>3. QED BY <1>1, <1>2, Zenon
-----------------------------------------------------------------------------
\* StoreAll.

IsStored(f, c, batch, now, n) ==
    f = [i \in 0 .. n |-> IF i = 0 THEN c ELSE Store(f[i - 1], batch[i], now)]

LEMMA StoredExists ==
    ASSUME NEW S, NEW batch \in Seq(S), NEW c, NEW now
    PROVE  \E f : IsStored(f, c, batch, now, Len(batch))
<1> DEFINE N == {n \in Nat : n <= Len(batch) => \E f : IsStored(f, c, batch, now, n)}
<1>1. 0 \in N
  <2>1. IsStored([i \in 0 .. 0 |-> c], c, batch, now, 0) BY DEF IsStored
  <2>2. QED BY <2>1
<1>2. ASSUME NEW n \in N PROVE n + 1 \in N
  <2> SUFFICES ASSUME n + 1 <= Len(batch) PROVE \E f : IsStored(f, c, batch, now, n + 1) OBVIOUS
  <2>1. PICK f : IsStored(f, c, batch, now, n) OBVIOUS
  <2> DEFINE g == [i \in 0 .. n + 1 |-> IF i = 0 THEN c ELSE Store(f[i - 1], batch[i], now)]
  <2>2. \A i \in 0 .. n : g[i] = f[i] BY <2>1 DEF IsStored
  <2>3. ASSUME NEW i \in 0 .. n + 1
        PROVE  g[i] = IF i = 0 THEN c ELSE Store(g[i - 1], batch[i], now)
    <3>1. CASE i = 0 BY <3>1, Zenon
    <3>2. CASE i # 0
      <4>1. i - 1 \in 0 .. n BY <3>2
      <4>2. g[i] = Store(f[i - 1], batch[i], now) BY <3>2, Zenon
      <4> HIDE DEF g
      <4>3. QED BY <2>2, <3>2, <4>1, <4>2, Zenon
    <3>3. QED BY <3>1, <3>2, Zenon
  <2>4. g = [i \in 0 .. n + 1 |-> g[i]] OBVIOUS
  <2> HIDE DEF g
  <2>5. IsStored(g, c, batch, now, n + 1) BY <2>3, <2>4, Zenon DEF IsStored
  <2>6. QED BY <2>5, Zenon
<1> HIDE DEF N
<1>3. \A n \in Nat : n \in N BY <1>1, <1>2, Induction, Zenon DEF N
<1>4. QED BY <1>3 DEF N

\* The loop passes from its start to its result by turns of StoreFacts.
LEMMA StoreAllSteps ==
    ASSUME NEW batch \in Seq(Responses), NEW c, NEW now
    PROVE  \E f : /\ f[0] = c /\ StoreAll(c, batch, now) = f[Len(batch)]
                  /\ \A i \in 1 .. Len(batch) : f[i] = Store(f[i - 1], batch[i], now)
<1>1. \E f : IsStored(f, c, batch, now, Len(batch)) BY StoredExists, Zenon
<1>2. \E f : IsStored(f, c, batch, now, Len(batch)) /\ StoreAll(c, batch, now) = f[Len(batch)]
  BY <1>1, Zenon DEF StoreAll, IsStored
<1>3. PICK f : IsStored(f, c, batch, now, Len(batch)) /\ StoreAll(c, batch, now) = f[Len(batch)]
  BY <1>2
<1>4. Len(batch) \in Nat OBVIOUS
<1>5. f[0] = c BY <1>3, <1>4 DEF IsStored
<1>6. \A i \in 1 .. Len(batch) : f[i] = Store(f[i - 1], batch[i], now)
  BY <1>3, <1>4, SMTT(30), ZenonT(30) DEF IsStored
<1>7. QED BY <1>3, <1>5, <1>6

Filled(d, c, batch, now) ==
    /\ CacheOK(d)
    /\ \A x \in Elems(d.entries) :
          \/ x \in Elems(c.entries)
          \/ \E r \in Elems(batch) : x = Kept(r) /\ Fresh(r.observedAt, now)

\* After put()'s loop the cache is accounted and holds nothing but what it held and the
\* fresh responses of the batch.
LEMMA StoreAllFacts ==
    ASSUME NEW c, CacheOK(c), NEW batch \in Seq(Responses), NEW now
    PROVE  Filled(StoreAll(c, batch, now), c, batch, now)
<1>1. PICK f : /\ f[0] = c /\ StoreAll(c, batch, now) = f[Len(batch)]
               /\ \A i \in 1 .. Len(batch) : f[i] = Store(f[i - 1], batch[i], now)
  BY StoreAllSteps
<1> DEFINE N == {n \in Nat : n <= Len(batch) => Filled(f[n], c, batch, now)}
<1>2. 0 \in N BY <1>1, Zenon DEF Filled
<1>3. ASSUME NEW n \in N PROVE n + 1 \in N
  <2> SUFFICES ASSUME n + 1 <= Len(batch) PROVE Filled(f[n + 1], c, batch, now) OBVIOUS
  <2>1. n + 1 \in 1 .. Len(batch) /\ (n + 1) - 1 = n /\ n <= Len(batch) OBVIOUS
  <2>2. f[n + 1] = Store(f[n], batch[n + 1], now) BY <1>1, <2>1, Zenon
  <2>3. batch[n + 1] \in Responses /\ batch[n + 1] \in Elems(batch) BY <2>1 DEF Elems
  <2>4. Filled(f[n], c, batch, now) BY <2>1, Zenon
  <2>5. Stored(f[n + 1], f[n], batch[n + 1], now)
    BY <2>2, <2>3, <2>4, StoreFacts, Zenon DEF Filled
  <2>6. QED BY <2>3, <2>4, <2>5, Zenon DEF Filled, Stored
<1>4. Filled(f[Len(batch)], c, batch, now)
  <2> HIDE DEF N
  <2>1. \A n \in Nat : n \in N BY <1>2, <1>3, Induction, Zenon DEF N
  <2>2. Len(batch) \in Nat OBVIOUS
  <2>3. QED BY <2>1, <2>2 DEF N
<1>5. QED BY <1>1, <1>4
\* Nothing in c is lost to an older observation on the way to d.
NotOlder(d, c) ==
    \A x \in Elems(c.entries) : \E y \in Elems(d.entries) :
        y.key = x.key /\ x.observedAt <= y.observedAt

LEMMA PrefixSum ==
    ASSUME NEW batch \in Seq(Responses), NEW n \in Nat, n + 1 <= Len(batch)
    PROVE  /\ SumBytes(SubSeq(batch, 1, n + 1))
                = SumBytes(SubSeq(batch, 1, n)) + batch[n + 1].bytes
           /\ SumBytes(SubSeq(batch, 1, n)) \in Nat
           /\ SumBytes(SubSeq(batch, 1, n + 1)) <= SumBytes(batch)
           /\ batch[n + 1] \in Responses /\ batch[n + 1].bytes \in Nat
<1>0. n \in 0 .. Len(batch) /\ n + 1 \in 0 .. Len(batch) /\ Len(batch) \in Nat OBVIOUS
<1>1. batch[n + 1] \in Responses /\ batch[n + 1].bytes \in Nat BY <1>0, SizedEntries DEF Sized
<1>2. SubSeq(batch, 1, n) \in Seq(Responses) BY <1>0, SumSplit, SizedEntries
<1>3. SubSeq(batch, 1, n + 1) = Append(SubSeq(batch, 1, n), batch[n + 1]) BY <1>0
<1>4. SumBytes(SubSeq(batch, 1, n + 1)) = SumBytes(SubSeq(batch, 1, n)) + batch[n + 1].bytes
  BY <1>1, <1>2, <1>3, SumAppend, Zenon
<1>5. SumBytes(SubSeq(batch, 1, n)) \in Nat BY <1>2, SumNat, SizedEntries, Zenon
<1>6. SumBytes(SubSeq(batch, 1, n + 1)) <= SumBytes(batch)
  <2> DEFINE m == n + 1
             u == SubSeq(batch, 1, m)
             v == SubSeq(batch, m + 1, Len(batch))
  <2>1. u \in Seq(Responses) /\ v \in Seq(Responses)
        /\ SumBytes(u) + SumBytes(v) = SumBytes(batch)
    BY <1>0, SumSplit, SizedEntries, Zenon
  <2> HIDE DEF u, v
  <2>2. SumBytes(u) \in Nat /\ SumBytes(v) \in Nat BY <2>1, SumNat, SizedEntries, Zenon
  <2>3. SumBytes(u) <= SumBytes(batch) BY <2>1, <2>2
  <2>4. QED BY <2>3, Zenon DEF u
<1>7. QED BY <1>1, <1>4, <1>5, <1>6

\* A batch that fits beside what is held displaces none of it.
LEMMA StoreAllForward ==
    ASSUME NEW c, CacheOK(c), NEW batch \in Seq(Responses), NEW now,
           Len(c.entries) + Len(batch) <= MaxEntries, c.bytes + SumBytes(batch) <= MaxBytes
    PROVE  NotOlder(StoreAll(c, batch, now), c)
<1>0. /\ Len(c.entries) \in Nat /\ c.bytes \in Nat /\ Len(batch) \in Nat
      /\ MaxEntries \in Nat /\ MaxBytes \in Nat /\ SumBytes(batch) \in Nat
      /\ \A d : CacheOK(d) => /\ Len(d.entries) \in Nat /\ d.bytes \in Nat
                               /\ \A x \in Elems(d.entries) : x.observedAt \in Nat
  <2>1. ASSUME NEW d, CacheOK(d) PROVE Len(d.entries) \in Nat /\ d.bytes \in Nat
    BY <2>1, SumNat, SizedEntries DEF CacheOK
  <2>2. ASSUME NEW d, CacheOK(d) PROVE \A x \in Elems(d.entries) : x.observedAt \in Nat
    <3>1. Elems(d.entries) \subseteq Entries BY <2>2, ElemsType, Zenon DEF CacheOK
    <3>2. QED BY <3>1 DEF Entries
  <2>3. QED BY <2>1, <2>2, SumNat, SizedEntries, CacheAssumption
<1>1. PICK f : /\ f[0] = c /\ StoreAll(c, batch, now) = f[Len(batch)]
               /\ \A i \in 1 .. Len(batch) : f[i] = Store(f[i - 1], batch[i], now)
  BY StoreAllSteps
<1> DEFINE Good(n) == /\ CacheOK(f[n]) /\ NotOlder(f[n], c)
                      /\ Len(f[n].entries) <= Len(c.entries) + n
                      /\ f[n].bytes <= c.bytes + SumBytes(SubSeq(batch, 1, n))
           N == {n \in Nat : n <= Len(batch) => Good(n)}
<1>2. 0 \in N
  <2>1. SubSeq(batch, 1, 0) = <<>> OBVIOUS
  <2>2. SumBytes(SubSeq(batch, 1, 0)) = 0 BY <2>1, SumEmpty, Zenon
  <2>3. NotOlder(c, c)
    <3>1. \A x \in Elems(c.entries) : x.observedAt <= x.observedAt BY <1>0
    <3>2. QED BY <3>1, Zenon DEF NotOlder
  <2>4. Good(0) BY <1>0, <1>1, <2>2, <2>3
  <2>5. QED BY <2>4, Zenon
<1>3. ASSUME NEW n \in N PROVE n + 1 \in N
  <2>0. n \in Nat /\ (n <= Len(batch) => Good(n)) BY Zenon
  <2> HIDE DEF Good
  <2> SUFFICES ASSUME n + 1 <= Len(batch) PROVE Good(n + 1) BY <2>0
  <2> DEFINE r == batch[n + 1]
             p == SumBytes(SubSeq(batch, 1, n))
             q == SumBytes(SubSeq(batch, 1, n + 1))
             d == f[n]
             e == f[n + 1]
  <2> HIDE DEF N
  <2>1. n + 1 \in 1 .. Len(batch) /\ (n + 1) - 1 = n /\ n <= Len(batch) /\ n \in Nat
    BY <1>0, <2>0
  <2>2. e = Store(d, r, now) BY <1>1, <2>1, Zenon
  <2>3. q = p + r.bytes /\ p \in Nat /\ q <= SumBytes(batch) /\ r \in Responses /\ r.bytes \in Nat
    BY <2>1, PrefixSum, Zenon
  <2>4. /\ CacheOK(d) /\ NotOlder(d, c)
        /\ Len(d.entries) <= Len(c.entries) + n /\ d.bytes <= c.bytes + p
    BY <2>0, <2>1, Zenon DEF Good
  <2> HIDE DEF p, q, r, d, e
  <2>5. Stored(e, d, r, now) BY <2>2, <2>3, <2>4, StoreFacts, Zenon
  <2>6. Len(d.entries) < MaxEntries /\ d.bytes + r.bytes <= MaxBytes
    <3>1. Len(d.entries) \in Nat /\ d.bytes \in Nat BY <1>0, <2>4, Zenon
    <3>2. Len(d.entries) < MaxEntries BY <1>0, <2>1, <2>4, <3>1, SMTT(30), ZenonT(30)
    <3>3. d.bytes + r.bytes <= MaxBytes
      <4>1. d.bytes <= c.bytes + p /\ c.bytes + SumBytes(batch) <= MaxBytes BY <2>4, Zenon
      <4>2. p + r.bytes <= SumBytes(batch) BY <2>3, Zenon
      <4>3. c.bytes \in Nat /\ p \in Nat /\ r.bytes \in Nat
            /\ SumBytes(batch) \in Nat /\ MaxBytes \in Nat
        BY <1>0, <2>3, Zenon
      <4>4. QED BY <3>1, <4>1, <4>2, <4>3, SMTT(30), ZenonT(30)
    <3>4. QED BY <3>2, <3>3, Zenon
  <2>7. /\ CacheOK(e) /\ Len(e.entries) <= Len(d.entries) + 1 /\ e.bytes <= d.bytes + r.bytes
        /\ NotOlder(e, d)
    BY <2>5, <2>6, Zenon DEF Stored, NotOlder
  <2>8. NotOlder(e, c)
    <3> SUFFICES ASSUME NEW x \in Elems(c.entries)
                 PROVE  \E y \in Elems(e.entries) : y.key = x.key /\ x.observedAt <= y.observedAt
      BY Zenon DEF NotOlder
    <3>1. PICK z \in Elems(d.entries) : z.key = x.key /\ x.observedAt <= z.observedAt
      BY <2>4, Zenon DEF NotOlder
    <3>2. PICK y \in Elems(e.entries) : y.key = z.key /\ z.observedAt <= y.observedAt
      BY <2>7, Zenon DEF NotOlder
    <3>3. x.observedAt \in Nat /\ z.observedAt \in Nat /\ y.observedAt \in Nat
      BY <1>0, <2>4, <2>7, Zenon
    <3>4. x.observedAt <= y.observedAt BY <3>1, <3>2, <3>3
    <3>5. QED BY <3>1, <3>2, <3>4, Zenon
  <2>9. Len(e.entries) <= Len(c.entries) + (n + 1) /\ e.bytes <= c.bytes + q
    <3>1. /\ Len(d.entries) \in Nat /\ d.bytes \in Nat
          /\ Len(e.entries) \in Nat /\ e.bytes \in Nat
      BY <1>0, <2>4, <2>7, Zenon
    <3>2. Len(e.entries) <= Len(c.entries) + (n + 1)
      <4> DEFINE start == Len(c.entries)
                 held == Len(d.entries)
                 grown == Len(e.entries)
      <4>1. start \in Nat /\ held \in Nat /\ grown \in Nat /\ n \in Nat BY <1>0, <2>1, <3>1, Zenon
      <4>2. held <= start + n /\ grown <= held + 1 BY <2>4, <2>7, Zenon
      <4> HIDE DEF start, held, grown
      <4>3. held + 1 <= (start + n) + 1 BY <4>1, <4>2
      <4>4. (start + n) + 1 = start + (n + 1) BY <4>1
      <4>5. grown <= start + (n + 1) BY <4>1, <4>2, <4>3, <4>4
      <4>6. QED BY <4>5, Zenon DEF start, grown
    <3>3. e.bytes <= c.bytes + q
      <4>1. c.bytes \in Nat BY <1>0
      <4>2. d.bytes <= c.bytes + p /\ e.bytes <= d.bytes + r.bytes BY <2>4, <2>7
      <4>3. p \in Nat /\ r.bytes \in Nat /\ q = p + r.bytes BY <2>3, Zenon
      <4>4. d.bytes + r.bytes <= (c.bytes + p) + r.bytes BY <3>1, <4>1, <4>2, <4>3
      <4>5. (c.bytes + p) + r.bytes = c.bytes + q BY <4>1, <4>3
      <4>6. QED BY <3>1, <4>1, <4>2, <4>3, <4>4, <4>5, SMTT(30), ZenonT(30)
    <3>4. QED BY <3>2, <3>3, Zenon
  <2>10. QED BY <2>7, <2>8, <2>9, Zenon DEF e, q, Good
<1>4. NotOlder(f[Len(batch)], c)
  <2>1. \A n \in Nat : n \in N
    <3> HIDE DEF N
    <3>1. QED BY <1>2, <1>3, Induction, Zenon DEF N
  <2>2. Good(Len(batch)) BY <1>0, <2>1
  <2>3. QED BY <2>2, Zenon
<1>5. QED BY <1>1, <1>4, Zenon
-----------------------------------------------------------------------------
\* The invariant.

FreshAt(s, now) == \A x \in Elems(s) : Fresh(x.observedAt, now)

IInv ==
    /\ CacheOK(Cache(entries, bytes))
    /\ lastNow \in Nat \cup {NoTime}
    /\ entries # <<>> => lastNow # NoTime
    /\ FreshAt(entries, lastNow)
    /\ hit # NoHit => Fresh(hit.observedAt, hit.at)

LEMMA EmptyOK == CacheOK(Cache(<<>>, 0)) /\ Elems(<<>>) = {}
<1>1. <<>> \in Seq(Entries) /\ Len(<<>>) = 0 /\ Unique(<<>>) /\ Elems(<<>>) = {}
  BY DEF Unique, Elems
<1> DEFINE c == Cache(<<>>, 0)
<1>2. c.entries = <<>> /\ c.bytes = 0 BY CacheFields, Zenon
<1> HIDE DEF c
<1>3. 0 <= MaxBytes /\ 0 <= MaxEntries BY CacheAssumption
<1>4. CacheOK(c) BY <1>1, <1>2, <1>3, SumEmpty, Zenon DEF CacheOK
<1>5. QED BY <1>1, <1>4 DEF c

\* put() reaches a prefix of the batch.
LEMMA ReachedFacts ==
    ASSUME NEW batch \in Seq(Responses)
    PROVE  /\ Reached(batch) \in Seq(Responses)
           /\ Len(Reached(batch)) <= Len(batch)
           /\ Elems(Reached(batch)) \subseteq Elems(batch)
           /\ SumBytes(Reached(batch)) <= SumBytes(batch)
<1> DEFINE throws == {i \in DOMAIN batch : batch[i].kind = "throws"}
<1>0. SumBytes(batch) \in Nat /\ Len(batch) \in Nat BY SumNat, SizedEntries
<1>1. CASE throws = {}
  <2>1. Reached(batch) = batch BY <1>1, Zenon DEF Reached
  <2>2. QED BY <1>0, <2>1
<1>2. CASE throws # {}
  <2> DEFINE k == Min(throws) - 1
  <2>1. throws \in SUBSET Nat /\ throws \subseteq 1 .. Len(batch) OBVIOUS
  <2>2. PICK x \in throws : \A y \in throws : x <= y BY <1>2, <2>1, LeastMember, Zenon
  <2>3. Min(throws) \in throws
    <3> HIDE DEF throws
    <3>1. QED BY <2>2 DEF Min
  <2>4. k \in 0 .. Len(batch) BY <2>1, <2>3
  <2>5. Reached(batch) = SubSeq(batch, 1, k) BY <1>2, Zenon DEF Reached
  <2> HIDE DEF k
  <2>6. /\ SubSeq(batch, 1, k) \in Seq(Responses)
        /\ SubSeq(batch, k + 1, Len(batch)) \in Seq(Responses)
        /\ SumBytes(SubSeq(batch, 1, k)) + SumBytes(SubSeq(batch, k + 1, Len(batch)))
             = SumBytes(batch)
    BY <2>4, SumSplit, SizedEntries
  <2>7. /\ SumBytes(SubSeq(batch, 1, k)) \in Nat
        /\ SumBytes(SubSeq(batch, k + 1, Len(batch))) \in Nat
    BY <2>6, SumNat, SizedEntries, Zenon
  <2>8. SumBytes(SubSeq(batch, 1, k)) <= SumBytes(batch) BY <1>0, <2>6, <2>7
  <2>9. Len(SubSeq(batch, 1, k)) = k /\ \A i \in 1 .. k : SubSeq(batch, 1, k)[i] = batch[i]
    BY <2>4
  <2>10. Elems(SubSeq(batch, 1, k)) \subseteq Elems(batch)
    BY <1>0, <2>4, <2>6, <2>9 DEF Elems
  <2>11. QED BY <2>4, <2>5, <2>6, <2>8, <2>9, <2>10
<1>3. QED BY <1>1, <1>2, Zenon

\* A reading that #observe rejects forgets everything.
LEMMA ForgetKeeps ==
    ASSUME IInv, NEW now \in ClockReadings, Forget(now), hit' = NoHit
    PROVE  IInv'
<1>1. entries' = <<>> /\ bytes' = 0 /\ lastNow' \in Nat \cup {NoTime}
  BY CacheAssumption DEF Forget, ClockReadings
<1>2. QED BY <1>1, EmptyOK, Zenon DEF IInv, FreshAt

\* A hit moves to the end and nothing else changes.
LEMMA MoveToEnd ==
    ASSUME NEW c, CacheOK(c), NEW key
    PROVE  LET s == Without(c.entries, key) \o Found(c.entries, key) IN
           /\ CacheOK(Cache(s, c.bytes))
           /\ Elems(s) = Elems(c.entries)
           /\ Found(c.entries, key) \in Seq(Entries)
           /\ Elems(Found(c.entries, key)) \subseteq Elems(c.entries)
<1> DEFINE T == {e \in Entries : e.key # key}
           U == {e \in Entries : e.key = key}
           t == Only(c.entries, T)
           u == Only(c.entries, U)
<1>1. /\ c.entries \in Seq(Entries) /\ c.bytes = SumBytes(c.entries) /\ c.bytes <= MaxBytes
      /\ Len(c.entries) <= MaxEntries /\ Unique(c.entries)
  BY Zenon DEF CacheOK
<1>2. Elems(c.entries) \subseteq Entries BY <1>1, ElemsType, Zenon
<1>3. /\ t \in Seq(Entries) /\ Elems(t) = Elems(c.entries) \cap T /\ Unique(t)
      /\ u \in Seq(Entries) /\ Elems(u) = Elems(c.entries) \cap U /\ Unique(u)
  BY <1>1, OnlyFacts
<1>4. SumBytes(t) + SumBytes(u) = SumBytes(c.entries) /\ Len(t) + Len(u) = Len(c.entries)
  <2>1. \A e \in Entries : e \in T <=> e \notin U BY Zenon
  <2> HIDE DEF T, U
  <2>2. QED BY <1>1, <2>1, OnlySplit, SizedEntries
<1>5. t = Without(c.entries, key) /\ u = Found(c.entries, key) BY Zenon DEF Without, Found
<1>6. \A x \in Elems(t), y \in Elems(u) : x.key # y.key BY <1>3, Zenon
<1>7. Elems(c.entries) = Elems(t) \cup Elems(u) BY <1>2, <1>3, ZenonT(30)
<1> HIDE DEF t, u
<1>8. t \o u \in Seq(Entries) /\ Len(t \o u) = Len(c.entries)
      /\ SumBytes(t \o u) = SumBytes(c.entries)
      /\ Elems(t \o u) = Elems(c.entries) /\ Unique(t \o u)
  BY <1>3, <1>4, <1>6, <1>7, SumConcat, SizedEntries, ConcatFacts, ConcatProperties
<1>9. CacheOK(Cache(t \o u, c.bytes))
  <2> DEFINE s == t \o u
  <2> HIDE DEF s
  <2>1. s \in Seq(Entries) /\ Len(s) <= MaxEntries /\ c.bytes = SumBytes(s) /\ Unique(s)
    BY <1>1, <1>8, Zenon DEF s
  <2>2. CacheOK(Cache(s, c.bytes)) BY <1>1, <2>1, CacheFields DEF CacheOK
  <2>3. QED BY <2>2, Zenon DEF s
<1>10. QED BY <1>3, <1>5, <1>8, <1>9, Zenon

\* get() keeps the invariant: what it returns was fresh at its reading.
LEMMA GetKeeps ==
    ASSUME IInv, NEW key \in Keys, NEW now \in ClockReadings, Get(key, now)
    PROVE  IInv'
<1>1. CASE Forget(now)
  <2>1. hit' = NoHit BY <1>1, Zenon DEF Forget, Get, Lookup
  <2>2. QED BY <1>1, <2>1, ForgetKeeps, Zenon
<1>2. CASE ~Forget(now)
  <2> DEFINE c == Prune(now)
  <2>1. /\ Observe(now) /\ lastNow' = now /\ bytes' = c.bytes
        /\ entries' = Without(c.entries, key) \o Found(c.entries, key)
    BY <1>2, Zenon DEF Get, Touch
  <2>2. CacheOK(c) /\ FreshAt(c.entries, now) BY PruneFacts, Zenon DEF IInv, FreshAt
  <2>3. Lookup(key, now) = Found(c.entries, key) BY <2>1, Zenon DEF Lookup
  <2> HIDE DEF c
  <2>4. /\ CacheOK(Cache(entries', bytes')) /\ Elems(entries') = Elems(c.entries)
        /\ Found(c.entries, key) \in Seq(Entries)
        /\ Elems(Found(c.entries, key)) \subseteq Elems(c.entries)
    BY <2>1, <2>2, MoveToEnd, Zenon
  <2>5. FreshAt(entries', lastNow') BY <2>1, <2>2, <2>4 DEF FreshAt
  <2>6. lastNow' \in Nat /\ lastNow' # NoTime BY <2>1, CacheAssumption DEF ClockReadings
  <2>7. hit' # NoHit => Fresh(hit'.observedAt, hit'.at)
    <3> SUFFICES ASSUME hit' # NoHit PROVE Fresh(hit'.observedAt, hit'.at) BY Zenon
    <3> DEFINE found == Found(c.entries, key)
    <3>1. found # <<>> /\ hit' = [key |-> key, observedAt |-> found[1].observedAt, at |-> now]
      BY <2>3, Zenon DEF Get
    <3> HIDE DEF found
    <3>2. found[1] \in Elems(found)
      <4>1. found \in Seq(Entries) BY <2>4, Zenon DEF found
      <4>2. 1 \in DOMAIN found BY <3>1, <4>1
      <4>3. QED BY <4>2, Zenon DEF Elems
    <3>3. found[1] \in Elems(c.entries) BY <2>4, <3>2, Zenon DEF found
    <3>4. Fresh(found[1].observedAt, now) BY <2>2, <3>3, Zenon DEF FreshAt
    <3>5. hit'.observedAt = found[1].observedAt /\ hit'.at = now BY <3>1, Zenon
    <3>6. QED BY <3>4, <3>5, Zenon
  <2>8. QED BY <2>4, <2>5, <2>6, <2>7, Zenon DEF IInv
<1>3. QED BY <1>1, <1>2, Zenon

\* put() keeps the invariant: what it stores was fresh at its reading.
LEMMA PutKeeps ==
    ASSUME IInv, NEW batch \in Seq(Responses), NEW copied \in BOOLEAN, NEW now \in ClockReadings,
           Put(batch, copied, now)
    PROVE  IInv'
<1>0. hit' = NoHit BY Zenon DEF Put
<1>1. CASE Forget(now) BY <1>0, <1>1, ForgetKeeps, Zenon
<1>2. CASE ~Forget(now)
  <2> DEFINE p == Prune(now)
             c == IF copied /\ Len(batch) <= MaxEntries
                  THEN StoreAll(p, Reached(batch), now) ELSE p
  <2>1. Observe(now) /\ lastNow' = now /\ entries' = c.entries /\ bytes' = c.bytes
    BY <1>2, Zenon DEF Put
  <2>2. CacheOK(p) /\ FreshAt(p.entries, now) BY PruneFacts, Zenon DEF IInv, FreshAt
  <2> HIDE DEF p
  <2>3. CacheOK(c) /\ FreshAt(c.entries, now)
    <3>1. CASE c = p BY <2>2, <3>1, Zenon
    <3>2. CASE c = StoreAll(p, Reached(batch), now)
      <4>1. batch \in Seq(Responses) BY CacheAssumption, Zenon
      <4>2. Reached(batch) \in Seq(Responses) BY <4>1, ReachedFacts, Zenon
      <4>3. Filled(c, p, Reached(batch), now) BY <2>2, <3>2, <4>2, StoreAllFacts, Zenon
      <4> HIDE DEF c
      <4>4. CacheOK(c) BY <4>3, Zenon DEF Filled
      <4>5. ASSUME NEW x \in Elems(c.entries) PROVE Fresh(x.observedAt, now)
        <5>1. CASE x \in Elems(p.entries) BY <2>2, <5>1, Zenon DEF FreshAt
        <5>2. CASE \E r \in Elems(Reached(batch)) : x = Kept(r) /\ Fresh(r.observedAt, now)
          BY <5>2 DEF Kept
        <5>3. QED BY <4>3, <5>1, <5>2, Zenon DEF Filled
      <4>6. QED BY <4>4, <4>5, Zenon DEF FreshAt
    <3>3. QED BY <3>1, <3>2, Zenon
  <2> HIDE DEF c
  <2>4. CacheOK(Cache(entries', bytes')) BY <2>1, <2>3, CacheFields DEF CacheOK
  <2>5. FreshAt(entries', lastNow') BY <2>1, <2>3, Zenon DEF FreshAt
  <2>6. lastNow' \in Nat /\ lastNow' # NoTime BY <2>1, CacheAssumption DEF ClockReadings
  <2>7. QED BY <1>0, <2>4, <2>5, <2>6, Zenon DEF IInv
<1>3. QED BY <1>1, <1>2, Zenon

\* For the callers of the cache: get() adds nothing, and put() only what it was given.
LEMMA TouchTakes ==
    ASSUME CacheOK(Cache(entries, bytes)), NEW key, NEW now, Touch(key, now)
    PROVE  /\ CacheOK(Cache(entries', bytes')) /\ Elems(entries') \subseteq Elems(entries)
           /\ Lookup(key, now) # <<>> => Lookup(key, now)[1] \in Entries
<1>1. CASE Forget(now) BY <1>1, EmptyOK, Zenon DEF Forget, Lookup
<1>2. CASE ~Forget(now)
  <2> DEFINE c == Prune(now)
             found == Found(c.entries, key)
  <2>1. /\ Observe(now) /\ bytes' = c.bytes
        /\ entries' = Without(c.entries, key) \o found
    BY <1>2, Zenon DEF Touch
  <2>2. CacheOK(c) /\ Elems(c.entries) \subseteq Elems(entries) BY PruneFacts, Zenon
  <2>3. Lookup(key, now) = found BY <2>1, Zenon DEF Lookup
  <2> HIDE DEF c
  <2>4. /\ CacheOK(Cache(entries', bytes')) /\ Elems(entries') = Elems(c.entries)
        /\ found \in Seq(Entries)
    BY <2>1, <2>2, MoveToEnd, Zenon
  <2> HIDE DEF found
  <2>5. found # <<>> => found[1] \in Entries BY <2>4
  <2>6. QED BY <2>2, <2>3, <2>4, <2>5, Zenon
<1>3. QED BY <1>1, <1>2, Zenon

LEMMA PutAdds ==
    ASSUME CacheOK(Cache(entries, bytes)), NEW batch \in Seq(Responses), NEW copied \in BOOLEAN,
           NEW now, Put(batch, copied, now)
    PROVE  /\ CacheOK(Cache(entries', bytes'))
           /\ \A x \in Elems(entries') :
                x \in Elems(entries) \/ \E r \in Elems(batch) : x = Kept(r)
<1>1. CASE Forget(now) BY <1>1, EmptyOK, Zenon DEF Forget
<1>2. CASE ~Forget(now)
  <2> DEFINE p == Prune(now)
             b == Reached(batch)
             c == IF copied /\ Len(batch) <= MaxEntries THEN StoreAll(p, b, now) ELSE p
  <2>1. entries' = c.entries /\ bytes' = c.bytes BY <1>2, Zenon DEF Put
  <2>2. CacheOK(p) /\ Elems(p.entries) \subseteq Elems(entries) BY PruneFacts, Zenon
  <2>3. b \in Seq(Responses) /\ Elems(b) \subseteq Elems(batch) BY ReachedFacts, Zenon
  <2> HIDE DEF p, b
  <2>4. Filled(StoreAll(p, b, now), p, b, now) BY <2>2, <2>3, StoreAllFacts, Zenon
  <2>5. c = p \/ c = StoreAll(p, b, now) BY Zenon
  <2> HIDE DEF c
  <2>6. CacheOK(c) BY <2>2, <2>4, <2>5, ZenonT(30) DEF Filled
  <2>7. CacheOK(Cache(entries', bytes')) BY <2>1, <2>6, CacheFields DEF CacheOK
  <2>8. ASSUME NEW x \in Elems(entries')
        PROVE  x \in Elems(entries) \/ \E r \in Elems(batch) : x = Kept(r)
    <3>1. x \in Elems(c.entries) BY <2>1, <2>8, Zenon
    <3>2. CASE c = p BY <2>2, <3>1, <3>2, Zenon
    <3>3. CASE c = StoreAll(p, b, now) BY <2>2, <2>3, <2>4, <3>1, <3>3, Zenon DEF Filled
    <3>4. QED BY <2>5, <3>2, <3>3, Zenon
  <2>9. QED BY <2>7, <2>8, Zenon
<1>3. QED BY <1>1, <1>2

\* The cache is accounted, and everything it holds or has returned was fresh at the
\* reading of that moment.
THEOREM CacheInvariant == Spec => []IInv
<1>1. Init => IInv
  <2>1. Init => Elems(entries) = {} BY EmptyOK, Zenon DEF Init
  <2>2. QED BY <2>1, EmptyOK, Zenon DEF Init, IInv, FreshAt
<1>2. IInv /\ [Next]_vars => IInv'
  <2> SUFFICES ASSUME IInv, [Next]_vars PROVE IInv' BY Zenon
  <2>1. CASE Clear BY <2>1, EmptyOK, Zenon DEF Clear, IInv, FreshAt
  <2>2. CASE UNCHANGED vars BY <2>2, Zenon DEF vars, IInv, FreshAt, CacheOK
  <2>3. QED BY <2>1, <2>2, GetKeeps, PutKeeps, CacheAssumption DEF Next
<1>3. QED BY <1>1, <1>2, PTL DEF Spec

\* #bytes is the sum of what is held and within the limit, through every replacement,
\* eviction, expiry and clearing; and there is one entry per key.
THEOREM BytesAreAccounted == Spec => []BytesAccounted
<1>1. IInv => BytesAccounted
  <2> SUFFICES ASSUME IInv PROVE BytesAccounted BY Zenon
  <2>1. /\ entries \in Seq(Entries) /\ bytes = SumBytes(entries) /\ bytes <= MaxBytes
        /\ Len(entries) <= MaxEntries /\ Unique(entries)
    BY CacheFields DEF IInv, CacheOK
  <2>2. Cardinality(KeysOf(entries)) = Len(entries) BY <2>1, UniqueCount, Zenon
  <2>3. QED BY <2>1, <2>2, Zenon DEF BytesAccounted
<1>2. QED BY <1>1, CacheInvariant, PTL

\* Nothing is held that the last reading proved stale, and a hit is fresh.
THEOREM FactsAreFresh == Spec => []FactsFresh
<1>1. IInv => FactsFresh
  <2> SUFFICES ASSUME IInv PROVE FactsFresh OBVIOUS
  <2>1. ASSUME NEW i \in DOMAIN entries
        PROVE  lastNow # NoTime /\ Fresh(entries[i].observedAt, lastNow)
    <3>1. entries # <<>> BY <2>1
    <3>2. entries[i] \in Elems(entries) BY DEF Elems
    <3>3. QED BY <3>1, <3>2, Zenon DEF IInv, FreshAt
  <2>2. QED BY <2>1, Zenon DEF IInv, FactsFresh
<1>2. QED BY <1>1, CacheInvariant, PTL

\* A put() that needs no room puts no older observation over a newer one: an entry it
\* drops as stale is older than every fresh response.
LEMMA PutForward ==
    ASSUME IInv, NEW batch \in Seq(Responses), NEW copied \in BOOLEAN, NEW now \in ClockReadings,
           FitsBeside(batch), Put(batch, copied, now)
    PROVE  ForwardOnly
<1>1. CASE Forget(now) BY <1>1 DEF Forget, ForwardOnly
<1>2. CASE ~Forget(now)
  <2> DEFINE p == Prune(now)
             b == Reached(batch)
             c == IF copied /\ Len(batch) <= MaxEntries THEN StoreAll(p, b, now) ELSE p
  <2>1. Observe(now) /\ lastNow' = now /\ entries' = c.entries /\ bytes' = c.bytes
    BY <1>2, Zenon DEF Put
  <2>2. IInv' BY PutKeeps, Zenon
  <2>3. /\ CacheOK(p) /\ Elems(p.entries) = {x \in Elems(entries) : Fresh(x.observedAt, now)}
        /\ Len(p.entries) <= Len(entries) /\ p.bytes <= bytes
    BY PruneFacts, Zenon DEF IInv
  <2>4. /\ entries \in Seq(Entries) /\ bytes = SumBytes(entries)
        /\ entries' \in Seq(Entries) /\ Unique(entries')
    BY <2>2, CacheFields, Zenon DEF IInv, CacheOK
  <2>5. b \in Seq(Responses) /\ Len(b) <= Len(batch) /\ SumBytes(b) <= SumBytes(batch)
        /\ batch \in Seq(Responses)
    BY CacheAssumption, ReachedFacts, Zenon
  <2> HIDE DEF p, b
  <2>6. NotOlder(c, p)
    <3>1. CASE c = p
      <4>1. Elems(p.entries) \subseteq Entries BY <2>3, ElemsType, Zenon DEF CacheOK
      <4>2. \A x \in Elems(p.entries) : x.observedAt <= x.observedAt BY <4>1 DEF Entries
      <4>3. NotOlder(p, p) BY <4>2, Zenon DEF NotOlder
      <4>4. QED BY <3>1, <4>3, Zenon
    <3>2. CASE c = StoreAll(p, b, now)
      <4>1. /\ SumBytes(entries) \in Nat /\ SumBytes(batch) \in Nat /\ SumBytes(b) \in Nat
            /\ Len(entries) \in Nat /\ Len(batch) \in Nat /\ Len(b) \in Nat
            /\ Len(p.entries) \in Nat /\ p.bytes \in Nat /\ MaxEntries \in Nat /\ MaxBytes \in Nat
        BY <2>3, <2>4, <2>5, SumNat, SizedEntries, CacheAssumption, SMTT(30), ZenonT(30)
          DEF CacheOK
      <4>2. Len(p.entries) + Len(b) <= MaxEntries BY <2>3, <2>5, <4>1 DEF FitsBeside
      <4>3. p.bytes + SumBytes(b) <= MaxBytes
        BY <2>3, <2>4, <2>5, <4>1, SMTT(30), ZenonT(30) DEF FitsBeside
      <4>4. QED BY <2>3, <2>5, <3>2, <4>2, <4>3, StoreAllForward
    <3>3. QED BY <3>1, <3>2, Zenon
  <2> HIDE DEF c
  <2>7. ASSUME NEW i \in DOMAIN entries, NEW j \in DOMAIN entries',
               entries[i].key = entries'[j].key
        PROVE  entries[i].observedAt <= entries'[j].observedAt
    <3> DEFINE x == entries[i]
               y == entries'[j]
    <3>1. x \in Elems(entries) /\ y \in Elems(entries') /\ y \in Elems(c.entries)
      BY <2>1, Zenon DEF Elems
    <3>2. x.observedAt \in Nat /\ y.observedAt \in Nat
      <4>1. Elems(entries) \subseteq Entries BY <2>4, ElemsType, Zenon
      <4>2. Elems(entries') \subseteq Entries BY <2>4, ElemsType, Zenon
      <4>3. QED BY <3>1, <4>1, <4>2 DEF Entries
    <3>3. CASE Fresh(x.observedAt, now)
      <4>1. x \in Elems(p.entries) BY <2>3, <3>1, <3>3, Zenon
      <4>2. PICK z \in Elems(c.entries) : z.key = x.key /\ x.observedAt <= z.observedAt
        BY <2>6, <4>1, Zenon DEF NotOlder
      <4>3. PICK k \in DOMAIN entries' : z = entries'[k] BY <2>1, <4>2, Zenon DEF Elems
      <4>4. k = j BY <2>4, <2>7, <4>2, <4>3, Zenon DEF Unique
      <4>5. QED BY <4>2, <4>3, <4>4, Zenon
    <3>4. CASE ~Fresh(x.observedAt, now)
      <4>1. entries # <<>> OBVIOUS
      <4>2. Fresh(x.observedAt, lastNow) /\ lastNow \in Nat /\ lastNow <= now /\ now \in Nat
        BY <2>1, <3>1, <4>1, CacheAssumption DEF IInv, FreshAt, Observe, ClockReadings
      <4>3. Fresh(y.observedAt, now) BY <2>1, <2>2, <3>1, Zenon DEF IInv, FreshAt
      <4> HIDE DEF x, y
      <4>4. x.observedAt <= y.observedAt
        BY <3>2, <3>4, <4>2, <4>3, CacheAssumption, SMTT(30), ZenonT(30) DEF Fresh
      <4>5. QED BY <4>4, Zenon DEF x, y
    <3>5. QED BY <3>3, <3>4, Zenon
  <2>8. QED BY <2>7, Zenon DEF ForwardOnly
<1>3. QED BY <1>1, <1>2, Zenon

\* Checks that finish in reverse order never put an older observation over a newer one
\* while put() has to make no room, whatever the batch and the limits.
THEOREM NewestIsKept == Spec => NewestObservationKept
<1>1. IInv => (\/ ForwardOnly
               \/ \A batch \in Batches, copied \in BOOLEAN, now \in ClockReadings :
                     FitsBeside(batch) => ~Put(batch, copied, now))
  BY PutForward, CacheAssumption, Zenon
<1>2. QED BY <1>1, CacheInvariant, PTL DEF NewestObservationKept
=============================================================================
