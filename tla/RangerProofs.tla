---------------------------- MODULE RangerProofs ----------------------------
(***************************************************************************)
(* What the algorithm of ranger.rs needs of its store (the trait Store     *)
(* there), and that the store of fs.rs provides it, whatever the keys, the *)
(* authors and the records are: an iterator yields every entry once, in    *)
(* order; a put supersedes and prunes; and the pieces that a range is      *)
(* split into cover it, for every split_factor of at least 2.              *)
(***************************************************************************)
EXTENDS Reconcile, FiniteSetTheorems, TLAPS

-----------------------------------------------------------------------------
(* Natural numbers                                                         *)

LEMMA HasMin ==
    ASSUME NEW S \in SUBSET Nat, S # {}
    PROVE  \E i \in S : \A j \in S : i <= j
<1> DEFINE R == OpToRel(<, Nat)
<1>1. IsWellFoundedOn(R, Nat)
  BY NatLessThanWellFounded, Zenon
<1>2. PICK i \in S : \A j \in S : ~ (<<j, i>> \in R)
  <2> HIDE DEF R
  <2> QED
    BY <1>1, WFMin, Zenon
<1>3. \A j \in S : ~ (j < i)
  BY <1>2, Zenon DEF OpToRel
<1> QED
  BY <1>3

LEMMA HasMax ==
    ASSUME NEW n \in Nat, NEW S \in SUBSET (0 .. n), S # {}
    PROVE  \E i \in S : \A j \in S : j <= i
<1> DEFINE R == OpToRel(<, Nat)
           T == {k \in Nat : \E i \in S : k = n - i}
<1>1. IsWellFoundedOn(R, Nat)
  BY NatLessThanWellFounded, Zenon
<1>2. \A i \in S : i \in Int /\ n - i \in Nat /\ n - i \in T
  OBVIOUS
<1>3. PICK x \in T : \A y \in T : ~ (<<y, x>> \in R)
  <2>1. T \subseteq Nat /\ T # {}
    BY <1>2, Zenon
  <2> HIDE DEF R, T
  <2> QED
    BY <1>1, <2>1, WFMin, Zenon
<1>4. \A y \in T : ~ (y < x)
  BY <1>3, Zenon DEF OpToRel
<1>5. PICK i \in S : x = n - i
  BY Zenon
<1>6. ASSUME NEW j \in S PROVE j <= i
  <2>1. ~ (n - j < n - i)
    BY <1>2, <1>4, <1>5, Zenon
  <2> QED
    BY <1>2, <2>1
<1> QED
  BY <1>6, Zenon

\* Induction, for a set of numbers.
LEMMA UpTo ==
    ASSUME NEW n \in Nat, NEW T, 0 \in T, \A i \in 1 .. n : i - 1 \in T => i \in T
    PROVE  \A i \in 0 .. n : i \in T
<1> SUFFICES ASSUME NEW m \in 0 .. n, m \notin T PROVE FALSE
  BY Zenon
<1> DEFINE S == {i \in 0 .. n : i \notin T}
<1>1. S \in SUBSET Nat /\ S # {}
  OBVIOUS
<1>2. PICK i \in S : \A j \in S : i <= j
  <2> HIDE DEF S
  <2> QED
    BY <1>1, HasMin, Zenon
<1>3. i \in 1 .. n /\ i - 1 \in 0 .. n /\ ~ (i <= i - 1)
  <2>1. i \in 0 .. n /\ i # 0
    BY Zenon
  <2> QED
    BY <2>1
<1>4. i - 1 \in T
  BY <1>2, <1>3, Zenon
<1> QED
  BY <1>3, <1>4, Zenon

-----------------------------------------------------------------------------
(* Byte strings                                                            *)

LEMMA SameChars ==
    ASSUME NEW S, NEW j \in Seq(S), NEW k \in Seq(S), Len(j) = Len(k),
           \A i \in 1 .. Len(j) : j[i] = k[i]
    PROVE  j = k
  OBVIOUS

LEMMA FirstChars ==
    ASSUME NEW S, NEW k \in Seq(S), NEW n \in Nat, n <= Len(k)
    PROVE  /\ Len(SubSeq(k, 1, n)) = n /\ SubSeq(k, 1, n) \in Seq(S)
           /\ \A i \in 1 .. n : SubSeq(k, 1, n)[i] = k[i]
<1>1. Len(SubSeq(k, 1, n)) = n
  OBVIOUS
<1>2. SubSeq(k, 1, n) \in Seq(S)
  OBVIOUS
<1>3. \A i \in 1 .. n : SubSeq(k, 1, n)[i] = k[i]
  OBVIOUS
<1> QED
  BY <1>1, <1>2, <1>3, Zenon

LEMMA PrefixChars ==
    ASSUME NEW p \in Seq(0 .. MaxByte), NEW k \in Seq(0 .. MaxByte)
    PROVE  IsPrefixOf(p, k) <=> Len(p) <= Len(k) /\ \A i \in 1 .. Len(p) : p[i] = k[i]
<1>1. Len(p) \in Nat
  OBVIOUS
<1>2. ASSUME Len(p) <= Len(k)
      PROVE  /\ Len(SubSeq(k, 1, Len(p))) = Len(p)
             /\ SubSeq(k, 1, Len(p)) \in Seq(0 .. MaxByte)
             /\ \A i \in 1 .. Len(p) : SubSeq(k, 1, Len(p))[i] = k[i]
  BY <1>1, <1>2, FirstChars, Zenon
<1>3. ASSUME Len(p) <= Len(k)
      PROVE  p = SubSeq(k, 1, Len(p)) <=> \A i \in 1 .. Len(p) : p[i] = k[i]
  BY <1>2, <1>3, SameChars, Zenon
<1> QED
  BY <1>3, Zenon DEF IsPrefixOf

LEMMA OwnPrefix == \A k \in Keys : IsPrefixOf(k, k)
<1> TAKE k \in Keys
<1>1. k \in Seq(0 .. MaxByte) /\ Len(k) \in Nat
  BY EntriesAssumption
<1> QED
  BY <1>1, PrefixChars

LEMMA PrefixOrder ==
    ASSUME NEW j \in Keys, NEW k \in Keys, IsPrefixOf(j, k)
    PROVE  /\ IsPrefixOf(k, j) => j = k
           /\ \A l \in Keys : IsPrefixOf(k, l) => IsPrefixOf(j, l)
<1>1. j \in Seq(0 .. MaxByte) /\ k \in Seq(0 .. MaxByte) /\ Len(j) \in Nat /\ Len(k) \in Nat
  BY EntriesAssumption
<1>2. Len(j) <= Len(k) /\ \A i \in 1 .. Len(j) : j[i] = k[i]
  BY <1>1, PrefixChars, Zenon
<1>3. ASSUME IsPrefixOf(k, j) PROVE j = k
  <2>1. Len(k) <= Len(j)
    BY <1>1, <1>3, PrefixChars, Zenon
  <2>2. Len(j) = Len(k)
    BY <1>1, <1>2, <2>1
  <2> QED
    BY <1>1, <1>2, <2>2, SameChars, Zenon
<1>4. ASSUME NEW l \in Keys, IsPrefixOf(k, l) PROVE IsPrefixOf(j, l)
  <2>1. l \in Seq(0 .. MaxByte) /\ Len(l) \in Nat
    BY EntriesAssumption
  <2>2. Len(k) <= Len(l) /\ \A i \in 1 .. Len(k) : k[i] = l[i]
    BY <1>1, <1>4, <2>1, PrefixChars, Zenon
  <2>3. Len(j) <= Len(l) /\ \A i \in 1 .. Len(j) : j[i] = l[i]
    BY <1>1, <1>2, <2>1, <2>2
  <2> QED
    BY <1>1, <2>1, <2>3, PrefixChars, Zenon
<1> QED
  BY <1>3, <1>4, Zenon

\* The order of keys, by the bytes.
LEMMA KeyLessChars ==
    ASSUME NEW j \in Keys, NEW k \in Keys
    PROVE  /\ Len(j) \in Nat /\ Len(k) \in Nat
           /\ \A i \in 1 .. Len(j) : j[i] \in Int
           /\ \A i \in 1 .. Len(k) : k[i] \in Int
           /\ KeyLess(j, k) <=>
                 \/ Len(j) < Len(k) /\ \A h \in 1 .. Len(j) : j[h] = k[h]
                 \/ \E i \in 1 .. Len(j) : /\ i <= Len(k) /\ j[i] < k[i]
                                           /\ \A h \in 1 .. i - 1 : j[h] = k[h]
<1>1. j \in Seq(0 .. MaxByte) /\ k \in Seq(0 .. MaxByte) /\ MaxByte \in Nat
  BY EntriesAssumption, Zenon
<1>2. /\ Len(j) \in Nat /\ Len(k) \in Nat /\ DOMAIN j = 1 .. Len(j) /\ DOMAIN k = 1 .. Len(k)
      /\ \A i \in 1 .. Len(j) : j[i] \in Int
      /\ \A i \in 1 .. Len(k) : k[i] \in Int
  BY <1>1
<1>3. IsPrefixOf(j, k) /\ j # k <=> Len(j) < Len(k) /\ \A h \in 1 .. Len(j) : j[h] = k[h]
  <2>1. IsPrefixOf(j, k) <=> Len(j) <= Len(k) /\ \A h \in 1 .. Len(j) : j[h] = k[h]
    BY <1>1, PrefixChars, Zenon
  <2>2. Len(j) = Len(k) /\ (\A h \in 1 .. Len(j) : j[h] = k[h]) => j = k
    BY <1>1, SameChars, Zenon
  <2>3. j = k => Len(j) = Len(k)
    BY Zenon
  <2> QED
    <3> DEFINE Same == \A h \in 1 .. Len(j) : j[h] = k[h]
    <3>1. Len(j) \in Nat /\ Len(k) \in Nat
      BY <1>2, Zenon
    <3>2. /\ Len(j) <= Len(k) <=> (Len(j) < Len(k) \/ Len(j) = Len(k))
          /\ ~ (Len(j) < Len(k) /\ Len(j) = Len(k))
      BY <3>1
    <3> HIDE DEF Same
    <3> QED
      BY <2>1, <2>2, <2>3, <3>1, <3>2, Zenon DEF Same
<1>4. \A i : i \in DOMAIN j \cap DOMAIN k <=> i \in 1 .. Len(j) /\ i <= Len(k)
  BY <1>2
<1> QED
  BY <1>2, <1>3, <1>4, Zenon DEF KeyLess

LEMMA KeyLessIrreflexive == \A k \in Keys : ~ KeyLess(k, k)
<1> TAKE k \in Keys
<1> QED
  BY KeyLessChars

LEMMA KeyLessTotal ==
    ASSUME NEW j \in Keys, NEW k \in Keys, j # k
    PROVE  KeyLess(j, k) \/ KeyLess(k, j)
<1>1. j \in Seq(0 .. MaxByte) /\ k \in Seq(0 .. MaxByte)
  BY EntriesAssumption, Zenon
<1>2. /\ Len(j) \in Nat /\ Len(k) \in Nat
      /\ \A i \in 1 .. Len(j) : j[i] \in Int
      /\ \A i \in 1 .. Len(k) : k[i] \in Int
  BY KeyLessChars, Zenon
<1> DEFINE D == {i \in 1 .. Len(j) : i <= Len(k) /\ j[i] # k[i]}
<1>3. CASE D = {}
  <2>1. \A i \in 1 .. Len(j) : i <= Len(k) => j[i] = k[i]
    BY <1>3, Zenon
  <2>2. CASE Len(j) = Len(k)
    <3>1. \A i \in 1 .. Len(j) : j[i] = k[i]
      BY <1>2, <2>1, <2>2
    <3> QED
      BY <1>1, <2>2, <3>1, SameChars, Zenon
  <2>3. CASE Len(j) < Len(k)
    BY <1>2, <2>1, <2>3, KeyLessChars
  <2>4. CASE Len(k) < Len(j)
    <3>1. \A i \in 1 .. Len(k) : k[i] = j[i]
      BY <1>2, <2>1, <2>4
    <3> QED
      BY <2>4, <3>1, KeyLessChars, Zenon
  <2> QED
    BY <1>2, <2>2, <2>3, <2>4
<1>4. CASE D # {}
  <2>1. D \in SUBSET Nat
    BY <1>2
  <2>2. PICK i \in D : \A h \in D : i <= h
    <3> HIDE DEF D
    <3> QED
      BY <1>4, <2>1, HasMin, Zenon
  <2>3. \A h \in 1 .. i - 1 : j[h] = k[h]
    BY <1>2, <2>2
  <2>4. i \in 1 .. Len(j) /\ i \in 1 .. Len(k) /\ i <= Len(j) /\ i <= Len(k)
    BY <1>2
  <2>5. j[i] < k[i] \/ k[i] < j[i]
    BY <1>2, <2>4
  <2>6. CASE j[i] < k[i]
    BY <2>3, <2>4, <2>6, KeyLessChars, Zenon
  <2>7. CASE k[i] < j[i]
    <3>1. \A h \in 1 .. i - 1 : k[h] = j[h]
      BY <2>3, Zenon
    <3> QED
      BY <2>4, <2>7, <3>1, KeyLessChars, Zenon
  <2> QED
    BY <2>5, <2>6, <2>7, Zenon
<1> QED
  BY <1>3, <1>4, Zenon

LEMMA KeyLessTransitive ==
    ASSUME NEW j \in Keys, NEW k \in Keys, NEW l \in Keys, KeyLess(j, k), KeyLess(k, l)
    PROVE  KeyLess(j, l)
<1>1. /\ Len(j) \in Nat /\ Len(k) \in Nat /\ Len(l) \in Nat
      /\ \A i \in 1 .. Len(j) : j[i] \in Int
      /\ \A i \in 1 .. Len(k) : k[i] \in Int
      /\ \A i \in 1 .. Len(l) : l[i] \in Int
  BY KeyLessChars, Zenon
<1> DEFINE Pre(a, b) == Len(a) < Len(b) /\ \A h \in 1 .. Len(a) : a[h] = b[h]
           At(a, b, i) == /\ i \in 1 .. Len(a) /\ i <= Len(b) /\ a[i] < b[i]
                          /\ \A h \in 1 .. i - 1 : a[h] = b[h]
<1>2. (Pre(j, k) \/ \E i : At(j, k, i)) /\ (Pre(k, l) \/ \E i : At(k, l, i))
  BY KeyLessChars, Zenon
<1>3. ASSUME Pre(j, l) \/ \E i : At(j, l, i) PROVE KeyLess(j, l)
  BY <1>3, KeyLessChars, Zenon
<1>4. CASE Pre(j, k) /\ Pre(k, l)
  <2>1. Pre(j, l)
    BY <1>1, <1>4
  <2> QED
    BY <1>3, <2>1, Zenon
<1>5. ASSUME NEW i, Pre(j, k), At(k, l, i) PROVE KeyLess(j, l)
  <2>1. CASE i <= Len(j)
    <3>1. At(j, l, i)
      BY <1>1, <1>5, <2>1
    <3> QED
      BY <1>3, <3>1, Zenon
  <2>2. CASE Len(j) < i
    <3>1. Pre(j, l)
      BY <1>1, <1>5, <2>2
    <3> QED
      BY <1>3, <3>1, Zenon
  <2> QED
    BY <1>1, <1>5, <2>1, <2>2
<1>6. ASSUME NEW i, At(j, k, i), Pre(k, l) PROVE KeyLess(j, l)
  <2>1. At(j, l, i)
    BY <1>1, <1>6
  <2> QED
    BY <1>3, <2>1, Zenon
<1>7. ASSUME NEW i, NEW m, At(j, k, i), At(k, l, m) PROVE KeyLess(j, l)
  <2>1. i \in Int /\ m \in Int
    BY <1>7
  <2>2. CASE i < m
    <3>1. At(j, l, i)
      BY <1>1, <1>7, <2>1, <2>2
    <3> QED
      BY <1>3, <3>1, Zenon
  <2>3. CASE m < i
    <3>1. At(j, l, m)
      BY <1>1, <1>7, <2>1, <2>3
    <3> QED
      BY <1>3, <3>1, Zenon
  <2>4. CASE i = m
    <3>1. At(j, l, i)
      BY <1>1, <1>7, <2>1, <2>4
    <3> QED
      BY <1>3, <3>1, Zenon
  <2> QED
    BY <2>1, <2>2, <2>3, <2>4
<1> HIDE DEF Pre, At
<1> QED
  BY <1>2, <1>4, <1>5, <1>6, <1>7, Zenon

\* The keys that start with p are in the range the bounds of p describe.
LEMMA PrefixInRange ==
    ASSUME NEW p \in Keys, NEW k \in Keys, IsPrefixOf(p, k)
    PROVE  k \in author_prefix[p]
<1>1. p \in Seq(0 .. MaxByte) /\ k \in Seq(0 .. MaxByte) /\ MaxByte \in Nat
  BY EntriesAssumption, Zenon
<1>2. /\ Len(p) \in Nat /\ Len(k) \in Nat /\ DOMAIN p = 1 .. Len(p) /\ DOMAIN k = 1 .. Len(k)
      /\ \A i \in 1 .. Len(p) : p[i] \in 0 .. MaxByte /\ p[i] \in Int
  BY <1>1
<1>3. Len(p) <= Len(k) /\ \A i \in 1 .. Len(p) : p[i] = k[i]
  BY <1>1, PrefixChars, Zenon
<1>4. ~ KeyLess(k, p)
  <2>1. ~ (IsPrefixOf(k, p) /\ k # p)
    <3> SUFFICES ASSUME IsPrefixOf(k, p) PROVE k = p
      BY Zenon
    <3>1. Len(k) <= Len(p)
      BY <1>1, PrefixChars, Zenon
    <3>2. Len(k) = Len(p)
      <4>1. Len(p) \in Int /\ Len(k) \in Int /\ Len(p) <= Len(k)
        BY <1>2, <1>3
      <4> QED
        BY <3>1, <4>1
    <3> QED
      <4>1. \A i \in 1 .. Len(p) : p[i] = k[i]
        BY <1>3, Zenon
      <4>2. Len(p) = Len(k)
        BY <3>2, Zenon
      <4> QED
        BY <1>1, <4>1, <4>2, SameChars, Zenon
  <2>2. ASSUME NEW i \in DOMAIN k \cap DOMAIN p, k[i] < p[i] PROVE FALSE
    BY <1>2, <1>3, <2>2
  <2> QED
    BY <2>1, <2>2, Zenon DEF KeyLess
<1>5. ASSUME BelowMax(p) # {} PROVE KeyLess(k, increment_by_one(p))
  <2>1. BelowMax(p) \in SUBSET (1 .. Len(p)) /\ BelowMax(p) \in SUBSET (0 .. Len(p))
    BY <1>2 DEF BelowMax
  <2>2. \E i \in BelowMax(p) : \A j \in BelowMax(p) : j <= i
    BY <1>2, <1>5, <2>1, HasMax, Zenon
  <2> DEFINE i == CHOOSE i \in BelowMax(p) : \A j \in BelowMax(p) : j <= i
  <2>3. i \in BelowMax(p)
    BY <2>2, Zenon
  <2>4. increment_by_one(p) =
            [j \in DOMAIN p |-> IF j < i THEN p[j] ELSE IF j = i THEN p[j] + 1 ELSE 0]
    BY Zenon DEF increment_by_one
  <2> HIDE DEF i
  <2>5. /\ i \in 1 .. Len(p) /\ i \in DOMAIN k /\ i \in DOMAIN increment_by_one(p)
        /\ increment_by_one(p)[i] = p[i] + 1
        /\ \A h \in 1 .. i - 1 : increment_by_one(p)[h] = p[h] /\ h \in 1 .. Len(p)
    BY <1>2, <1>3, <2>1, <2>3, <2>4
  <2>6. k[i] < increment_by_one(p)[i] /\ \A h \in 1 .. i - 1 : k[h] = increment_by_one(p)[h]
    BY <1>2, <1>3, <2>5
  <2> QED
    BY <2>5, <2>6, Zenon DEF KeyLess
<1> QED
  BY <1>4, <1>5, Zenon DEF author_prefix

-----------------------------------------------------------------------------
(* The order of records                                                    *)

LEMMA RecordFields ==
    ASSUME NEW r \in Records \cup {NoRecord}, NEW s \in Records \cup {NoRecord}
    PROVE  /\ r.ts \in Int /\ s.ts \in Int /\ r.hash \in Int /\ s.hash \in Int
           /\ r.ts = s.ts /\ r.hash = s.hash => r = s
<1>1. Hashes \subseteq Int /\ EmptyHash \in Int
  BY EntriesAssumption
<1>2. Records \cup {NoRecord} \subseteq [ts : Int, hash : Int]
  <2>1. NoRecord \in [ts : Int, hash : Int]
    BY <1>1 DEF NoRecord
  <2>2. ASSUME NEW q \in Records PROVE q \in [ts : Int, hash : Int]
    <3>1. q = [ts |-> q.ts, hash |-> q.hash] /\ q.ts \in 1 .. MaxTime /\ q.hash \in Hashes
      BY Zenon DEF Records
    <3>2. q.ts \in Int /\ q.hash \in Int
      BY <1>1, <3>1, EntriesAssumption
    <3> QED
      BY <3>1, <3>2, Zenon
  <2> QED
    BY <2>1, <2>2, Zenon
<1>3. r \in [ts : Int, hash : Int] /\ s \in [ts : Int, hash : Int]
  BY <1>2, Zenon
<1>4. r = [ts |-> r.ts, hash |-> r.hash] /\ s = [ts |-> s.ts, hash |-> s.hash]
  BY <1>3, Zenon
<1>5. r.ts \in Int /\ s.ts \in Int /\ r.hash \in Int /\ s.hash \in Int
  BY <1>3, Zenon
<1>6. r.ts = s.ts /\ r.hash = s.hash => r = s
  BY <1>4, Zenon
<1> QED
  BY <1>5, <1>6, Zenon

LEMMA RecordOrder ==
    ASSUME NEW r \in Records \cup {NoRecord}, NEW s \in Records \cup {NoRecord}
    PROVE  /\ ~ RecordLeq(r, s) <=> RecordLess(s, r)
           /\ RecordLess(s, r) => RecordLeq(s, r)
  BY RecordFields DEF RecordLeq, RecordLess

LEMMA RecordLeqOrder ==
    ASSUME NEW r \in Records \cup {NoRecord}, NEW s \in Records \cup {NoRecord}
    PROVE  /\ RecordLeq(r, r)
           /\ RecordLeq(r, s) /\ RecordLeq(s, r) => r = s
           /\ \A q \in Records \cup {NoRecord} :
                 RecordLeq(r, s) /\ RecordLeq(s, q) => RecordLeq(r, q)
<1>1. RecordLeq(r, r)
  BY Zenon DEF RecordLeq
<1>2. RecordLeq(r, s) /\ RecordLeq(s, r) => r = s
  BY RecordFields DEF RecordLeq, RecordLess
<1>3. ASSUME NEW q \in Records \cup {NoRecord}, RecordLeq(r, s), RecordLeq(s, q)
      PROVE  RecordLeq(r, q)
  <2>1. q.ts \in Int /\ q.hash \in Int /\ r.ts \in Int /\ r.hash \in Int /\ s.ts \in Int
        /\ s.hash \in Int
    BY RecordFields, Zenon
  <2> QED
    BY <1>3, <2>1 DEF RecordLeq, RecordLess
<1> QED
  BY <1>1, <1>2, <1>3, Zenon

-----------------------------------------------------------------------------
(* The pruning rule                                                        *)

LEMMA FewerPruned ==
    ASSUME NEW tab, NEW less, Pruned(tab), \A id \in Ids : less[id] \in {tab[id], NoRecord}
    PROVE  Pruned(less)
  BY Zenon DEF Pruned, Present

LEMMA PutPrunes ==
    ASSUME NEW tab \in RecordTables, Pruned(tab), NEW id \in Ids, NEW r \in Records,
           would_insert(tab, id, r)
    PROVE  /\ Pruned(remove_prefix_filtered(tab, id, r))
           /\ Pruned([remove_prefix_filtered(tab, id, r) EXCEPT ![id] = r])
<1> DEFINE rem == remove_prefix_filtered(tab, id, r)
           new == [rem EXCEPT ![id] = r]
<1>1. rem \in RecordTables
  BY Zenon DEF RecordTables, remove_prefix_filtered
<1>2. \A i \in Ids : rem[i] \in {tab[i], NoRecord}
  BY Zenon DEF remove_prefix_filtered
<1>3. Pruned(rem)
  <2> HIDE DEF rem
  <2> QED
    BY <1>2, FewerPruned, Zenon
<1>4. \A i \in Ids : new[i] = IF i = id THEN r ELSE rem[i]
  BY <1>1, Zenon DEF RecordTables
<1>5. \A i \in Ids : tab[i] \in Records \cup {NoRecord} /\ i[1] \in Authors /\ i[2] \in Keys
  BY Zenon DEF RecordTables, Ids
<1>6. ASSUME NEW child \in Ids, child[1] = id[1], IsPrefixOf(id[2], child[2]), Present(rem, child)
      PROVE  RecordLess(r, rem[child])
  <2>1. child[2] \in author_prefix[id[2]]
    BY <1>5, <1>6, PrefixInRange, Zenon
  <2>2. ~ RecordLeq(tab[child], r) /\ rem[child] = tab[child]
    BY <1>6, <2>1, Zenon DEF Present, remove_prefix_filtered
  <2> QED
    BY <1>5, <2>2, RecordOrder, Zenon
<1>7. ASSUME NEW i \in Ids, i[1] = id[1], i[2] # << >>, IsPrefixOf(i[2], id[2]),
             Present(rem, i), ~ IsEmpty(rem[i])
      PROVE  RecordLess(rem[i], r)
  <2>1. rem[i] = tab[i] /\ Present(tab, i)
    BY <1>2, <1>7, Zenon DEF Present
  <2>2. i = <<id[1], i[2]>>
    BY <1>7 DEF Ids
  <2>3. i[2] \in prefixes_of(tab, id)
    BY <1>5, <1>7, <2>1, <2>2, Zenon DEF prefixes_of, parents
  <2>4. ~ RecordLeq(r, tab[i])
    BY <2>2, <2>3, Zenon DEF would_insert
  <2> QED
    BY <1>5, <2>1, <2>4, RecordOrder, Zenon
<1>8. Pruned(new)
  <2> SUFFICES ASSUME NEW i \in Ids, NEW child \in Ids,
                      child[1] = i[1], i[2] # << >>, child # i, IsPrefixOf(i[2], child[2]),
                      Present(new, i), ~ IsEmpty(new[i]), Present(new, child)
               PROVE  RecordLess(new[i], new[child])
    BY Zenon DEF Pruned
  <2> HIDE DEF rem, new
  <2>1. CASE i = id
    BY <1>4, <1>6, <2>1, Zenon DEF Present
  <2>2. CASE child = id
    BY <1>4, <1>7, <2>2, Zenon DEF Present
  <2>3. CASE i # id /\ child # id
    BY <1>3, <1>4, <2>3, Zenon DEF Pruned, Present
  <2> QED
    BY <2>1, <2>2, <2>3, Zenon
<1> QED
  BY <1>3, <1>8, Zenon

-----------------------------------------------------------------------------
(* The order of ids                                                        *)

LEMMA IdsTyped ==
    ASSUME NEW i \in Ids
    PROVE  i[1] \in Int /\ i[1] \in Authors /\ i[2] \in Keys /\ i = <<i[1], i[2]>>
<1>1. i[1] \in Authors /\ i[2] \in Keys /\ i = <<i[1], i[2]>>
  BY DEF Ids
<1>2. Authors \subseteq Nat
  BY ReconcileAssumption, Zenon
<1> QED
  BY <1>1, <1>2

LEMMA IdLessDef ==
    ASSUME NEW i \in Ids, NEW j \in Ids
    PROVE  IdLess(i, j) <=> (i[1] < j[1] \/ (i[1] = j[1] /\ KeyLess(i[2], j[2])))
  BY ReconcileAssumption, Zenon DEF IdOrder, IdLess

LEMMA DefaultIsFirst ==
    ASSUME NEW i \in Bounds
    PROVE  ~ IdLess(i, DefaultId) /\ (i # DefaultId => i \in Ids /\ IdLess(DefaultId, i))
  BY Zenon DEF IdLess, Bounds

LEMMA IdLessIrreflexive == \A i \in Bounds : ~ IdLess(i, i)
<1> TAKE i \in Bounds
<1>1. CASE i = DefaultId
  BY <1>1, Zenon DEF IdLess
<1>2. CASE i \in Ids
  BY <1>2, IdsTyped, IdLessDef, KeyLessIrreflexive
<1> QED
  BY <1>1, <1>2, Zenon DEF Bounds

LEMMA IdLessTotal ==
    ASSUME NEW i \in Bounds, NEW j \in Bounds, i # j
    PROVE  IdLess(i, j) \/ IdLess(j, i)
<1>1. CASE i = DefaultId \/ j = DefaultId
  BY <1>1, DefaultIsFirst, Zenon
<1>2. CASE i \in Ids /\ j \in Ids
  <2>1. /\ i[1] \in Int /\ i[2] \in Keys /\ i = <<i[1], i[2]>>
        /\ j[1] \in Int /\ j[2] \in Keys /\ j = <<j[1], j[2]>>
    BY <1>2, IdsTyped, Zenon
  <2>2. CASE i[1] # j[1]
    BY <1>2, <2>1, <2>2, IdLessDef
  <2>3. CASE i[1] = j[1]
    BY <1>2, <2>1, <2>3, KeyLessTotal, IdLessDef, Zenon
  <2> QED
    BY <2>2, <2>3, Zenon
<1> QED
  BY <1>1, <1>2, Zenon DEF Bounds

LEMMA IdLessTransitive ==
    ASSUME NEW i \in Bounds, NEW j \in Bounds, NEW k \in Bounds, IdLess(i, j), IdLess(j, k)
    PROVE  IdLess(i, k)
<1>1. j # DefaultId /\ k # DefaultId /\ j \in Ids /\ k \in Ids
  BY DefaultIsFirst, Zenon
<1>2. CASE i = DefaultId
  BY <1>1, <1>2, DefaultIsFirst, Zenon
<1>3. CASE i \in Ids
  BY <1>1, <1>3, IdsTyped, IdLessDef, KeyLessTransitive
<1> QED
  BY <1>2, <1>3, Zenon DEF Bounds

\* What the order is used through.
LEMMA IdLessOrder ==
    /\ \A i \in Bounds : ~ IdLess(i, i)
    /\ \A i, j \in Bounds : i = j \/ IdLess(i, j) \/ IdLess(j, i)
    /\ \A i, j, k \in Bounds : IdLess(i, j) /\ IdLess(j, k) => IdLess(i, k)
  BY IdLessIrreflexive, IdLessTotal, IdLessTransitive, Zenon

-----------------------------------------------------------------------------
(* The contract                                                            *)

\* A view of a store: finitely many entries, one of an id.
IsView(S) == /\ S \subseteq Entry /\ IsFiniteSet(S)
             /\ \A e, f \in S : e.id = f.id => e = f

\* Whether an id is in the range x..y.
Under(i, x, y) ==
    \/ x = y
    \/ IdLess(x, y) /\ ~ IdLess(i, x) /\ IdLess(i, y)
    \/ x # y /\ ~ IdLess(x, y) /\ (~ IdLess(i, x) \/ IdLess(i, y))

\* The table has the entry, or one that supersedes it.
Holds(t, e) == \E f \in EntriesOf(t) : Supersedes(f, e)

\* Among these entries a put removes only what the new entry supersedes.
Exact(S) ==
    \A e, f \in S :
        /\ f.id = e.id /\ ~ Visible(f) => RecordLeq(f.r, e.r)
        /\ f.id[1] = e.id[1] /\ f.id[2] \in author_prefix[e.id[2]]
              => IsPrefixOf(e.id[2], f.id[2])

Induction ==
    \A n \in Nat : \A T :
        0 \in T /\ (\A i \in 1 .. n : i - 1 \in T => i \in T) => \A i \in 0 .. n : i \in T

SupersedesOrder ==
    /\ \A e \in Entry : Supersedes(e, e)
    /\ \A e, f \in Entry : e.id = f.id /\ RecordLeq(f.r, e.r) => Supersedes(e, f)
    /\ \A e, f \in Entry : Supersedes(e, f) /\ Supersedes(f, e) => e = f
    /\ \A e, f, g \in Entry : Supersedes(e, f) /\ Supersedes(f, g) => Supersedes(e, g)

PutTyped ==
    \A t \in RecordTables : \A e \in Entry :
        /\ put(t, e.id, e.r) \in RecordTables
        /\ EntriesOf(put(t, e.id, e.r)) \subseteq EntriesOf(t) \cup {e}
        /\ Pruned(t) => Pruned(put(t, e.id, e.r))
        /\ Holds(put(t, e.id, e.r), e)

\* What a table has superseded stays superseded.
PutKeeps ==
    \A t \in RecordTables : \A e \in Entry : \A S :
        Exact(S) /\ e \in S /\ EntriesOf(t) \subseteq S =>
            \A g \in Entry : Holds(t, g) => Holds(put(t, e.id, e.r), g)

Views ==
    /\ \A t \in RecordTables : IsView(EntriesOf(t))
    /\ \A S : IsView(S) => \A T \in SUBSET S : IsView(T)

\* An iterator yields each entry, at the place that is the number of those below.
Places ==
    \A S : IsView(S) =>
        /\ Cardinality(S) \in Nat
        /\ \A n \in Nat : n < Cardinality(S) => Nth(S, n) \in S
        /\ \A e \in S : /\ Below(S, e.id) \in Nat /\ Below(S, e.id) < Cardinality(S)
                        /\ Nth(S, Below(S, e.id)) = e

Ranges ==
    \A V : \A x, y \in Bounds :
        \A e : e \in get_range(V, x, y) <=> (e \in V /\ Under(e.id, x, y))

\* The pieces of a split cover the range and are bounded by ids of it.
CoveredBySplit(S, x, y) ==
    /\ DOMAIN Split(S, x, y) \subseteq 1 .. split_factor
    /\ \A i \in DOMAIN Split(S, x, y) :
          /\ Split(S, x, y)[i][1] \in ({x, y} \cup {e.id : e \in S}) \cap Bounds
          /\ Split(S, x, y)[i][2] \in ({x, y} \cup {e.id : e \in S}) \cap Bounds
    /\ \A z \in Bounds : Under(z, x, y) =>
          \E i \in DOMAIN Split(S, x, y) : Under(z, Split(S, x, y)[i][1], Split(S, x, y)[i][2])

SplitCovers ==
    \A V : \A x, y \in Bounds :
        IsView(V) /\ Cardinality(get_range(V, x, y)) > 1
            => CoveredBySplit(get_range(V, x, y), x, y)

Contract ==
    /\ Induction
    /\ SupersedesOrder /\ PutTyped /\ PutKeeps
    /\ Views /\ Places /\ Ranges /\ SplitCovers

-----------------------------------------------------------------------------
(* Entries and views                                                       *)

LEMMA EntriesOfTyped ==
    ASSUME NEW t \in RecordTables
    PROVE  /\ \A e : e \in EntriesOf(t) <=> (e \in Entry /\ t[e.id] = e.r)
           /\ \A e \in EntriesOf(t) : e.id \in Ids /\ e.r \in Records /\ t[e.id] # NoRecord
<1>1. NoRecord \notin Records
  BY EntriesAssumption DEF NoRecord, Records
<1>2. \A i \in Ids : t[i] \in Records \cup {NoRecord}
  BY Zenon DEF RecordTables
<1>3. ASSUME NEW e, e \in EntriesOf(t)
      PROVE  e \in Entry /\ t[e.id] = e.r /\ e.id \in Ids /\ e.r \in Records /\ t[e.id] # NoRecord
  <2>1. PICK i \in Ids : t[i] # NoRecord /\ e = [id |-> i, r |-> t[i]]
    BY <1>3, Zenon DEF EntriesOf, Present
  <2> QED
    BY <1>2, <2>1, Zenon DEF Entry
<1>4. ASSUME NEW e \in Entry, t[e.id] = e.r PROVE e \in EntriesOf(t)
  BY <1>1, <1>4, Zenon DEF Entry, Present, EntriesOf
<1> QED
  BY <1>3, <1>4, Zenon

LEMMA InView ==
    ASSUME NEW S, IsView(S), NEW e \in S
    PROVE  e \in Entry /\ e.id \in Ids /\ e.id \in Bounds /\ e.r \in Records
  BY Zenon DEF IsView, Entry, Bounds

-----------------------------------------------------------------------------
(* Views: finite sets of entries, one of an id                             *)

LEMMA IdsFinite == IsFiniteSet(Ids)
  BY FS_Product, ReconcileAssumption, Zenon DEF Ids

LEMMA SubView ==
    ASSUME NEW S, IsView(S), NEW T \in SUBSET S
    PROVE  IsView(T)
  BY FS_Subset, Zenon DEF IsView

LEMMA TableIsView ==
    ASSUME NEW t \in RecordTables
    PROVE  IsView(EntriesOf(t))
<1>1. EntriesOf(t) \subseteq Entry
  BY EntriesOfTyped, Zenon
<1>2. \A e, f \in EntriesOf(t) : e.id = f.id => e = f
  <2> TAKE e, f \in EntriesOf(t)
  <2>1. e = [id |-> e.id, r |-> e.r] /\ f = [id |-> f.id, r |-> f.r]
    BY <1>1, Zenon DEF Entry
  <2>2. e.r = t[e.id] /\ f.r = t[f.id]
    BY EntriesOfTyped, Zenon
  <2> QED
    BY <2>1, <2>2, Zenon
<1>3. IsFiniteSet(EntriesOf(t))
  <2> DEFINE J == {j \in Ids : Present(t, j)}
             g == [i \in J |-> [id |-> i, r |-> t[i]]]
  <2>1. IsFiniteSet(J)
    BY IdsFinite, FS_Subset, Zenon
  <2>2. EntriesOf(t) = {g[i] : i \in J}
    BY Zenon DEF EntriesOf
  <2>3. g \in Surjection(J, EntriesOf(t))
    BY <2>2, Zenon DEF Surjection
  <2> HIDE DEF g, J
  <2> QED
    BY <2>1, <2>3, FS_Surjection, Zenon
<1> QED
  BY <1>1, <1>2, <1>3, Zenon DEF IsView

-----------------------------------------------------------------------------
(* The n-th entry                                                          *)

LEMMA BelowType ==
    ASSUME NEW S, IsView(S), NEW x
    PROVE  /\ Cardinality(S) \in Nat
           /\ Below(S, x) \in 0 .. Cardinality(S)
           /\ \A e \in S : ~ IdLess(e.id, x) => Below(S, x) < Cardinality(S)
<1> DEFINE B == {e \in S : IdLess(e.id, x)}
<1>1. IsFiniteSet(S) /\ B \in SUBSET S
  BY Zenon DEF IsView
<1>2. Cardinality(S) \in Nat
  BY <1>1, FS_CardinalityType, Zenon
<1>3. /\ Cardinality(B) \in Nat /\ Cardinality(B) <= Cardinality(S)
      /\ Cardinality(B) = Cardinality(S) => B = S
  <2> HIDE DEF B
  <2>1. IsFiniteSet(B)
    BY <1>1, FS_Subset, Zenon
  <2>2. Cardinality(B) \in Nat
    BY <2>1, FS_CardinalityType, Zenon
  <2> QED
    BY <1>1, <2>1, <2>2, FS_Subset, Zenon
<1>4. \A e \in S : ~ IdLess(e.id, x) => B # S
  BY Zenon
<1>5. Below(S, x) = Cardinality(B)
  BY Zenon DEF Below
<1> HIDE DEF B
<1> QED
  BY <1>2, <1>3, <1>4, <1>5

\* The order of two entries is the order of their places.
LEMMA BelowMonotone ==
    ASSUME NEW S, IsView(S), NEW x \in Bounds, NEW y \in Bounds
    PROVE  /\ ~ IdLess(y, x) => Below(S, x) <= Below(S, y)
           /\ \A e \in S : e.id = x /\ IdLess(x, y) => Below(S, x) < Below(S, y)
<1> DEFINE B == {e \in S : IdLess(e.id, x)}
           C == {e \in S : IdLess(e.id, y)}
<1>1. IsFiniteSet(B) /\ IsFiniteSet(C)
  BY FS_Subset, Zenon DEF IsView
<1>2. \A e \in S : e.id \in Bounds
  BY InView, Zenon
<1>3. ~ IdLess(y, x) => B \subseteq C
  BY <1>2, IdLessOrder, Zenon
<1>4. ASSUME NEW e \in S, e.id = x, IdLess(x, y) PROVE e \in C /\ e \notin B /\ ~ IdLess(y, x)
  BY <1>4, IdLessOrder, Zenon
<1>5. Below(S, x) = Cardinality(B) /\ Below(S, y) = Cardinality(C)
  BY Zenon DEF Below
<1> HIDE DEF B, C
<1>6. Cardinality(B) \in Nat /\ Cardinality(C) \in Nat
  BY <1>1, FS_CardinalityType, Zenon
<1>7. B \subseteq C => /\ Cardinality(B) <= Cardinality(C)
                       /\ Cardinality(B) = Cardinality(C) => B = C
  BY <1>1, FS_Subset, Zenon
<1> QED
  BY <1>3, <1>4, <1>5, <1>6, <1>7

\* An iterator yields an entry at each place.
LEMMA HasNth ==
    ASSUME NEW S, IsView(S), NEW n \in Nat, n < Cardinality(S)
    PROVE  \E e \in S : Below(S, e.id) = n
<1> SUFFICES ASSUME \A e \in S : Below(S, e.id) # n PROVE FALSE
  BY Zenon
<1> DEFINE N == Cardinality(S)
           T == (0 .. N - 1) \ {n}
           g == [e \in S |-> Below(S, e.id)]
<1>1. N \in Nat /\ IsFiniteSet(S)
  BY BelowType, Zenon DEF IsView
<1>2. \A e \in S : Below(S, e.id) \in 0 .. N /\ Below(S, e.id) < N
  BY BelowType, InView, IdLessOrder, Zenon
<1>3. g \in [S -> T]
  BY <1>1, <1>2
<1>4. IsFiniteSet(T) /\ Cardinality(T) = N - 1
  <2>1. IsFiniteSet(0 .. N - 1) /\ Cardinality(0 .. N - 1) = N
    <3>1. 0 \in Int /\ N - 1 \in Int
      BY <1>1
    <3>2. ~ (0 > N - 1) /\ (N - 1) - 0 + 1 = N
      BY <1>1
    <3> HIDE DEF N
    <3> QED
      BY <1>1, <3>1, <3>2, FS_Interval, Zenon
  <2>2. n \in 0 .. N - 1
    BY <1>1
  <2> HIDE DEF N
  <2> QED
    BY <2>1, <2>2, FS_RemoveElement, Zenon
<1>5. PICK e \in S, f \in S : e # f /\ g[e] = g[f]
  <2>1. Cardinality(T) < Cardinality(S)
    BY <1>1, <1>4
  <2> HIDE DEF T, g, N
  <2> QED
    BY <1>1, <1>3, <1>4, <2>1, FS_PigeonHole, Zenon
<1>6. Below(S, e.id) = Below(S, f.id)
  BY <1>5, Zenon
<1>7. e.id # f.id /\ e.id \in Bounds /\ f.id \in Bounds
  BY <1>5, InView, Zenon DEF IsView
<1>8. Below(S, e.id) < Below(S, f.id) \/ Below(S, f.id) < Below(S, e.id)
  BY <1>7, IdLessOrder, BelowMonotone, Zenon
<1> QED
  BY <1>2, <1>6, <1>8

LEMMA NthIs ==
    ASSUME NEW S, IsView(S), NEW n \in Nat, n < Cardinality(S)
    PROVE  Nth(S, n) \in S /\ Below(S, Nth(S, n).id) = n
  BY HasNth, Zenon DEF Nth

LEMMA NthOf ==
    ASSUME NEW S, IsView(S), NEW e \in S
    PROVE  /\ Below(S, e.id) \in Nat /\ Below(S, e.id) < Cardinality(S)
           /\ Nth(S, Below(S, e.id)) = e
<1>1. Below(S, e.id) \in Nat /\ Below(S, e.id) < Cardinality(S)
  BY BelowType, InView, IdLessOrder
<1> DEFINE f == Nth(S, Below(S, e.id))
<1>2. f \in S /\ Below(S, f.id) = Below(S, e.id)
  BY <1>1, NthIs, Zenon
<1> HIDE DEF f
<1>3. e.id \in Bounds /\ f.id \in Bounds
  BY <1>2, InView, Zenon
<1>4. e.id = f.id
  BY <1>1, <1>2, <1>3, IdLessOrder, BelowMonotone
<1>5. f = e
  BY <1>2, <1>4, Zenon DEF IsView
<1> QED
  BY <1>1, <1>5, Zenon DEF f

-----------------------------------------------------------------------------
(* Ranges                                                                  *)

LEMMA RangeOf ==
    ASSUME NEW V, NEW x \in Bounds, NEW y \in Bounds
    PROVE  \A e : e \in get_range(V, x, y) <=> (e \in V /\ Under(e.id, x, y))
  BY IdLessOrder, Zenon DEF get_range, Under

LEMMA RangeInView ==
    ASSUME NEW V, IsView(V), NEW x \in Bounds, NEW y \in Bounds
    PROVE  IsView(get_range(V, x, y)) /\ get_range(V, x, y) \subseteq V
  BY RangeOf, SubView, Zenon

LEMMA UnderEnds ==
    ASSUME NEW x \in Bounds, NEW y \in Bounds, x # y
    PROVE  Under(x, x, y) /\ ~ Under(y, x, y)
  BY IdLessOrder, Zenon DEF Under

\* However a range is cut, the pieces cover it.
LEMMA ChainCovers ==
    ASSUME NEW n \in Nat, NEW q \in [0 .. n -> Bounds], NEW z \in Bounds,
           IF q[0] = q[n] THEN \E i \in 1 .. n : q[i - 1] # q[i] ELSE Under(z, q[0], q[n])
    PROVE  \E i \in 1 .. n : q[i - 1] # q[i] /\ Under(z, q[i - 1], q[i])
<1> SUFFICES ASSUME \A i \in 1 .. n : q[i - 1] # q[i] => ~ Under(z, q[i - 1], q[i])
             PROVE  FALSE
  BY Zenon
<1> DEFINE At(i) == ~ IdLess(z, q[i])
<1>0. /\ \A i \in 0 .. n : q[i] \in Bounds
      /\ \A i \in 1 .. n : /\ i \in 0 .. n /\ i - 1 \in 0 .. n
                           /\ q[i] \in Bounds /\ q[i - 1] \in Bounds
      /\ 0 \in 0 .. n /\ n \in 0 .. n /\ q[0] \in Bounds /\ q[n] \in Bounds
  OBVIOUS
<1>1. ASSUME NEW i \in 1 .. n
      PROVE  /\ At(i - 1) => At(i)
             /\ (At(i) => At(i - 1)) => ~ IdLess(q[i], q[i - 1])
  <2> DEFINE a == q[i - 1]
             b == q[i]
  <2>1. a \in Bounds /\ b \in Bounds /\ (a # b => ~ Under(z, a, b))
    BY <1>0, Zenon
  <2> HIDE DEF a, b
  <2>2. /\ ~ IdLess(z, a) => ~ IdLess(z, b)
        /\ (~ IdLess(z, b) => ~ IdLess(z, a)) => ~ IdLess(b, a)
    <3>1. CASE a = b
      BY <2>1, <3>1, IdLessOrder, Zenon
    <3>2. CASE a # b /\ IdLess(a, b)
      BY <2>1, <3>2, IdLessOrder, Zenon DEF Under
    <3>3. CASE a # b /\ ~ IdLess(a, b)
      BY <2>1, <3>3, IdLessOrder, Zenon DEF Under
    <3> QED
      BY <3>1, <3>2, <3>3, Zenon
  <2> QED
    BY <2>2, Zenon DEF a, b
<1>2. \A i \in 0 .. n : At(0) => At(i)
  <2> DEFINE T == {i \in 0 .. n : At(0) => At(i)}
  <2>1. 0 \in T /\ \A i \in 1 .. n : i - 1 \in T => i \in T
    BY <1>0, <1>1, Zenon
  <2>2. \A i \in 0 .. n : i \in T
    <3> HIDE DEF T
    <3> QED
      BY <2>1, UpTo, Zenon
  <2> QED
    BY <2>2, Zenon
<1>3. \A i \in 0 .. n : At(i) => At(n)
  <2> DEFINE T == {i \in 0 .. n : \A j \in 0 .. i : At(j) => At(i)}
  <2>1. 0 \in T
    OBVIOUS
  <2>2. ASSUME NEW i \in 1 .. n, i - 1 \in T PROVE i \in T
    BY <1>0, <1>1, <2>2
  <2>3. \A i \in 0 .. n : i \in T
    <3> HIDE DEF T
    <3> QED
      BY <2>1, <2>2, UpTo, Zenon
  <2> QED
    BY <2>3
<1>4. CASE At(0) <=> At(n)
  <2>1. \A i \in 0 .. n : At(i) <=> At(0)
    BY <1>0, <1>2, <1>3, <1>4, Zenon
  <2>2. \A i \in 1 .. n : ~ IdLess(q[i], q[i - 1])
    BY <1>0, <1>1, <2>1, Zenon
  <2> DEFINE T == {i \in 0 .. n : \A j \in 0 .. i : ~ IdLess(q[i], q[j])}
  <2>3. 0 \in T
    BY <1>0, IdLessOrder
  <2>4. ASSUME NEW i \in 1 .. n, i - 1 \in T PROVE i \in T
    <3> SUFFICES ASSUME NEW j \in 0 .. i PROVE ~ IdLess(q[i], q[j])
      OBVIOUS
    <3>1. CASE j = i
      BY <1>0, <3>1, IdLessOrder, Zenon
    <3>2. CASE j # i
      BY <1>0, <2>2, <2>4, <3>2, IdLessOrder
    <3> QED
      BY <3>1, <3>2, Zenon
  <2>5. \A i \in 0 .. n : i \in T
    <3> HIDE DEF T
    <3> QED
      BY <2>3, <2>4, UpTo, Zenon
  <2>6. \A i \in 0 .. n : ~ IdLess(q[i], q[0]) /\ ~ IdLess(q[n], q[i])
    BY <2>5
  <2>7. CASE q[0] = q[n]
    <3>1. PICK i \in 1 .. n : q[i - 1] # q[i]
      BY <2>7, Zenon
    <3>2. IdLess(q[i - 1], q[i])
      BY <1>0, <2>2, <3>1, IdLessOrder, Zenon
    <3>3. ~ IdLess(q[i - 1], q[0]) /\ ~ IdLess(q[0], q[i])
      BY <1>0, <2>6, <2>7, Zenon
    <3> QED
      BY <1>0, <3>2, <3>3, IdLessOrder, Zenon
  <2>8. CASE q[0] # q[n]
    BY <1>0, <1>4, <2>6, <2>8, IdLessOrder, Zenon DEF Under
  <2> QED
    BY <2>7, <2>8, Zenon
<1>5. CASE ~ At(0) /\ At(n)
  BY <1>0, <1>5, IdLessOrder, Zenon DEF Under
<1> QED
  BY <1>0, <1>2, <1>4, <1>5, Zenon

-----------------------------------------------------------------------------
(* The split of a range                                                    *)

LEMMA PivotPlaces ==
    ASSUME NEW N \in Nat, N > 1, NEW start \in 0 .. N
    PROVE  /\ \A i \in Nat : PivotIndex(N, start, i) \in 0 .. N - 1
           /\ PivotIndex(N, start, split_factor) = PivotIndex(N, start, 0)
           /\ PivotIndex(N, start, split_factor - 1) = start % N
           /\ start < N => start % N = start
           /\ start = N => start % N = 0
           /\ PivotIndex(N, start, split_factor - 2) # start % N
<1> DEFINE s == split_factor
<1>1. s \in Nat /\ s >= 2
  BY ReconcileAssumption, Zenon
<1>2. \A i \in Nat : PivotIndex(N, start, i) \in 0 .. N - 1
  <2> TAKE i \in Nat
  <2>1. i % s \in 0 .. s - 1
    BY <1>1
  <2> DEFINE r == i % s
  <2>2. r + 1 \in Nat
    BY <1>1, <2>1
  <2> HIDE DEF r
  <2>3. N * (r + 1) \in Nat
    BY <2>2
  <2> DEFINE m == N * (r + 1)
  <2> HIDE DEF m
  <2>4. m \div s \in Nat
    BY <1>1, <2>3 DEF m
  <2>5. start + m \div s \in Nat
    BY <2>4
  <2> DEFINE k == start + m \div s
  <2> HIDE DEF k
  <2>6. k % N \in 0 .. N - 1
    BY <2>5 DEF k
  <2> QED
    BY <2>6, Zenon DEF PivotIndex, k, m, r
<1>3. s % s = 0 /\ 0 % s = 0 /\ (s - 1) % s = s - 1 /\ (s - 2) % s = s - 2
  BY <1>1
<1>4. PivotIndex(N, start, s) = PivotIndex(N, start, 0)
  BY <1>3, Zenon DEF PivotIndex
<1>5. start < N => start % N = start
  OBVIOUS
<1>6. start = N => start % N = 0
  OBVIOUS
<1>7. PivotIndex(N, start, s - 1) = start % N
  <2>1. (s - 1) + 1 = s /\ (N * s) \div s = N
    BY <1>1
  <2>2. (start + N) % N = start % N
    <3>1. CASE start < N
      BY <3>1
    <3>2. CASE start = N
      BY <3>2
    <3> QED
      BY <3>1, <3>2
  <2> QED
    BY <1>3, <2>1, <2>2, Zenon DEF PivotIndex
<1>8. PivotIndex(N, start, s - 2) # start % N
  <2> DEFINE d == (N * (s - 1)) \div s
  <2>1. d \in Int /\ d >= 1 /\ d < N
    BY <1>1
  <2>2. PivotIndex(N, start, s - 2) = (start + d) % N
    BY <1>1, <1>3 DEF PivotIndex
  <2> HIDE DEF d
  <2>3. CASE start < N /\ start + d < N
    BY <1>5, <2>1, <2>2, <2>3
  <2>4. CASE start < N /\ start + d >= N
    BY <1>5, <2>1, <2>2, <2>4
  <2>5. CASE start = N
    BY <1>6, <2>1, <2>2, <2>5
  <2> QED
    BY <2>1, <2>3, <2>4, <2>5
<1> HIDE DEF s
<1> QED
  BY <1>2, <1>4, <1>5, <1>6, <1>7, <1>8, Zenon DEF s

\* A pivot is the id of an entry of the range.
LEMMA PivotIn ==
    ASSUME NEW S, IsView(S), Cardinality(S) > 1, NEW x, NEW i \in Nat
    PROVE  \E e \in S : /\ Pivot(S, x, i) = e.id
                        /\ Below(S, e.id) = PivotIndex(Cardinality(S), Below(S, x), i)
<1> DEFINE N == Cardinality(S)
           m == PivotIndex(N, Below(S, x), i)
<1>1. N \in Nat /\ N > 1 /\ Below(S, x) \in 0 .. N
  BY BelowType, Zenon
<1>2. m \in 0 .. N - 1
  <2> HIDE DEF N
  <2> QED
    BY <1>1, PivotPlaces, Zenon
<1>3. m \in Nat /\ m < N
  BY <1>1, <1>2
<1>4. Nth(S, m) \in S /\ Below(S, Nth(S, m).id) = m
  <2> HIDE DEF m
  <2> QED
    BY <1>3, NthIs, Zenon
<1> QED
  BY <1>4, Zenon DEF Pivot

LEMMA CutTyped ==
    ASSUME NEW S, IsView(S), Cardinality(S) > 1, NEW x \in Bounds, NEW y \in Bounds,
           NEW i \in 0 .. split_factor
    PROVE  Cut(S, x, y, i) \in {x, y} \cup {e.id : e \in S} /\ Cut(S, x, y, i) \in Bounds
<1>1. split_factor \in Nat /\ i \in Nat
  BY ReconcileAssumption
<1>2. \A j \in Nat : Pivot(S, x, j) \in {e.id : e \in S}
  BY PivotIn
<1>3. \A e \in S : e.id \in Bounds
  BY InView, Zenon
<1>4. Cut(S, x, y, i) \in {x, y} \cup {e.id : e \in S}
  <2>1. CASE x = y
    BY <1>1, <1>2, <2>1, Zenon DEF Cut
  <2>2. CASE x # y /\ (i = 0 \/ i = split_factor)
    BY <2>2, Zenon DEF Cut
  <2>3. CASE x # y /\ i # 0 /\ i # split_factor
    BY <1>1, <1>2, <2>3 DEF Cut
  <2> QED
    BY <2>1, <2>2, <2>3, Zenon
<1> QED
  BY <1>3, <1>4, Zenon

\* The last two cuts: the piece that ends with them has an entry of the range, and
\* lacks one.
LEMMA LastPiece ==
    ASSUME NEW V, IsView(V), NEW x \in Bounds, NEW y \in Bounds, NEW S, S = get_range(V, x, y),
           Cardinality(S) > 1
    PROVE  \E i \in DOMAIN Split(S, x, y), e \in S, f \in S :
               /\ Under(e.id, Split(S, x, y)[i][1], Split(S, x, y)[i][2])
               /\ ~ Under(f.id, Split(S, x, y)[i][1], Split(S, x, y)[i][2])
<1> DEFINE s == split_factor
           N == Cardinality(S)
           start == Below(S, x)
<1>1. s \in Nat /\ s >= 2 /\ s - 2 \in Nat /\ s - 1 \in Nat /\ s - 1 \in 1 .. s /\ s \in 1 .. s
  BY ReconcileAssumption
<1>2. IsView(S) /\ S \subseteq V
  BY RangeInView, Zenon
<1>3. N \in Nat /\ N > 1 /\ start \in 0 .. N
  BY <1>2, BelowType, Zenon
<1>4. PICK e \in S : Pivot(S, x, s - 2) = e.id /\ Below(S, e.id) = PivotIndex(N, start, s - 2)
  BY <1>1, <1>2, <1>3, PivotIn, Zenon
<1>5. PICK f \in S : Pivot(S, x, s - 1) = f.id /\ Below(S, f.id) = PivotIndex(N, start, s - 1)
  BY <1>1, <1>2, <1>3, PivotIn, Zenon
<1>6. /\ Below(S, f.id) = start % N /\ Below(S, e.id) # start % N
      /\ start < N => start % N = start
      /\ start = N => start % N = 0
  <2> HIDE DEF N, start, s
  <2> QED
    BY <1>3, <1>4, <1>5, PivotPlaces, Zenon DEF s
<1>7. e.id # f.id /\ e.id \in Bounds /\ f.id \in Bounds
  BY <1>2, <1>6, InView, Zenon
<1>8. Under(e.id, x, y) /\ Under(f.id, x, y)
  BY RangeOf, Zenon
<1>9. CASE x = y
  <2>1. Cut(S, x, y, (s - 1) - 1) = e.id /\ Cut(S, x, y, s - 1) = f.id
    BY <1>1, <1>4, <1>5, <1>9 DEF Cut
  <2>2. s - 1 \in DOMAIN Split(S, x, y) /\ Split(S, x, y)[s - 1] = <<e.id, f.id>>
    BY <1>1, <1>7, <2>1, Zenon DEF Split
  <2>3. Under(e.id, e.id, f.id) /\ ~ Under(f.id, e.id, f.id)
    BY <1>7, UnderEnds, Zenon
  <2> QED
    BY <2>2, <2>3
<1>10. CASE x # y
  <2>1. Cut(S, x, y, s - 1) = e.id /\ Cut(S, x, y, s) = y
    BY <1>1, <1>4, <1>10 DEF Cut
  <2>2. s \in DOMAIN Split(S, x, y) /\ Split(S, x, y)[s] = <<e.id, y>>
    BY <1>1, <1>10, <2>1, Zenon DEF Split
  <2>3. e.id # y
    BY <1>8, <1>10, UnderEnds, Zenon
  <2>4. Under(e.id, e.id, y)
    BY <1>7, <2>3, UnderEnds, Zenon
  <2>5. \A g \in S : ~ IdLess(x, g.id) => Below(S, g.id) <= start
    BY <1>2, InView, BelowMonotone, Zenon
  <2>6. Below(S, f.id) < Below(S, e.id) => IdLess(f.id, e.id)
    BY <1>2, <1>7, BelowMonotone, NthOf
  <2>7. Below(S, e.id) \in Nat /\ Below(S, f.id) \in Nat
    BY <1>2, NthOf, Zenon
  <2>8. CASE IdLess(x, y)
    <3>1. start = 0
      BY <1>10, <2>8, RangeOf, FS_EmptySet, Zenon DEF Under, Below
    <3>2. IdLess(f.id, e.id)
      BY <1>3, <1>6, <2>6, <2>7, <3>1
    <3>3. IdLess(e.id, y)
      BY <1>8, <1>10, <2>8, IdLessOrder, Zenon DEF Under
    <3>4. ~ Under(f.id, e.id, y)
      BY <2>3, <3>2, <3>3, Zenon DEF Under
    <3> QED
      BY <2>2, <2>4, <3>4
  <2>9. CASE IdLess(y, x) /\ start < N
    <3>1. Below(S, f.id) = start
      BY <1>6, <2>9, Zenon
    <3>2. ~ IdLess(f.id, x)
      BY <1>2, <1>3, <1>7, <3>1, BelowMonotone
    <3>3. ~ IdLess(f.id, y)
      BY <1>7, <2>9, <3>2, IdLessOrder, Zenon
    <3>4. ~ IdLess(e.id, y) => IdLess(f.id, e.id)
      <4> SUFFICES ASSUME ~ IdLess(e.id, y) PROVE IdLess(f.id, e.id)
        BY Zenon
      <4>1. ~ IdLess(e.id, x)
        BY <1>7, <1>8, <1>10, <2>9, IdLessOrder, Zenon DEF Under
      <4>2. start <= Below(S, e.id)
        BY <1>2, <1>7, <4>1, BelowMonotone, Zenon
      <4>3. Below(S, f.id) < Below(S, e.id)
        BY <1>3, <1>6, <2>7, <2>9, <3>1, <4>2
      <4> QED
        BY <2>6, <4>3, Zenon
    <3>5. ~ Under(f.id, e.id, y)
      BY <1>7, <2>3, <3>3, <3>4, IdLessOrder, Zenon DEF Under
    <3> QED
      BY <2>2, <2>4, <3>5
  <2>10. CASE IdLess(y, x) /\ start = N
    <3>1. IdLess(f.id, e.id)
      BY <1>3, <1>6, <2>6, <2>7, <2>10
    <3>2. IdLess(e.id, x)
      BY <1>2, <1>3, <2>10, BelowType
    <3>3. IdLess(e.id, y)
      BY <1>7, <1>8, <1>10, <2>10, <3>2, IdLessOrder, ZenonT(30) DEF Under
    <3>4. ~ Under(f.id, e.id, y)
      BY <2>3, <3>1, <3>3, Zenon DEF Under
    <3> QED
      BY <2>2, <2>4, <3>4
  <2> QED
    BY <1>3, <1>10, <2>8, <2>9, <2>10, IdLessOrder
<1> QED
  BY <1>9, <1>10, Zenon

\* The pieces of a split cover the range and are bounded by ids of it.
LEMMA PiecesCover ==
    ASSUME NEW V, IsView(V), NEW x \in Bounds, NEW y \in Bounds, NEW S, S = get_range(V, x, y),
           Cardinality(S) > 1
    PROVE  CoveredBySplit(S, x, y)
<1> DEFINE s == split_factor
           q == [i \in 0 .. s |-> Cut(S, x, y, i)]
           D == {i \in 1 .. s : q[i - 1] # q[i] \/ (x # y /\ i \in {1, s})}
<1>1. s \in Nat /\ s >= 2
  BY ReconcileAssumption, Zenon
<1>2. IsView(S) /\ S \subseteq V
  BY RangeInView, Zenon
<1>3. \A i \in 1 .. s : i \in 0 .. s /\ i - 1 \in 0 .. s
  BY <1>1
<1>4. \A i \in 0 .. s : q[i] \in {x, y} \cup {e.id : e \in S} /\ q[i] \in Bounds
  BY <1>2, CutTyped, Zenon
<1>5. DOMAIN Split(S, x, y) = D /\ \A i \in D : Split(S, x, y)[i] = <<q[i - 1], q[i]>>
  BY <1>3, Zenon DEF Split
<1>6. q \in [0 .. s -> Bounds]
  BY <1>4, Zenon
<1>7. ASSUME NEW z \in Bounds, Under(z, x, y)
      PROVE  \E i \in D : Under(z, q[i - 1], q[i])
  <2>1. CASE x # y
    <3>1. q[0] = x /\ q[s] = y
      BY <1>1, <2>1 DEF Cut
    <3> HIDE DEF q
    <3>2. PICK i \in 1 .. s : q[i - 1] # q[i] /\ Under(z, q[i - 1], q[i])
      BY <1>1, <1>6, <1>7, <2>1, <3>1, ChainCovers, Zenon
    <3> QED
      BY <3>2, Zenon
  <2>2. CASE x = y
    <3>1. q[0] = q[s]
      <4>1. PivotIndex(Cardinality(S), Below(S, x), s) = PivotIndex(Cardinality(S), Below(S, x), 0)
        BY <1>2, BelowType, PivotPlaces, Zenon
      <4> QED
        BY <1>1, <2>2, <4>1 DEF Cut, Pivot
    <3>2. \E i \in 1 .. s : q[i - 1] # q[i]
      <4>1. PICK i \in DOMAIN Split(S, x, y), e \in S, f \in S :
               /\ Under(e.id, Split(S, x, y)[i][1], Split(S, x, y)[i][2])
               /\ ~ Under(f.id, Split(S, x, y)[i][1], Split(S, x, y)[i][2])
        BY LastPiece, Zenon
      <4>2. i \in D /\ ~ Under(f.id, q[i - 1], q[i])
        BY <1>5, <4>1
      <4> QED
        BY <4>2, Zenon DEF Under
    <3> HIDE DEF q
    <3>3. PICK i \in 1 .. s : q[i - 1] # q[i] /\ Under(z, q[i - 1], q[i])
      BY <1>1, <1>6, <3>1, <3>2, ChainCovers, Zenon
    <3> QED
      BY <3>3, Zenon
  <2> QED
    BY <2>1, <2>2, Zenon
<1> HIDE DEF q
<1>8. \A i \in D : i \in 1 .. s /\ q[i - 1] \in ({x, y} \cup {e.id : e \in S}) \cap Bounds
                   /\ q[i] \in ({x, y} \cup {e.id : e \in S}) \cap Bounds
  BY <1>3, <1>4, Zenon
<1> HIDE DEF D, s
<1> QED
  BY <1>5, <1>7, <1>8 DEF s, CoveredBySplit

\* A range that is split falls into at least two pieces that are not empty.
LEMMA SplitProper ==
    ASSUME NEW V, IsView(V), NEW x \in Bounds, NEW y \in Bounds, NEW S, S = get_range(V, x, y),
           Cardinality(S) > 1
    PROVE  Cardinality(NonEmpty(V, Split(S, x, y))) > 1
<1> DEFINE r == Split(S, x, y)
           P == {j \in DOMAIN r : get_range(V, r[j][1], r[j][2]) # {}}
<1>1. IsView(S) /\ S \subseteq V
  BY RangeInView, Zenon
<1>2. /\ DOMAIN r \subseteq 1 .. split_factor
      /\ \A i \in DOMAIN r : r[i][1] \in Bounds /\ r[i][2] \in Bounds
      /\ \A z \in Bounds : Under(z, x, y) => \E i \in DOMAIN r : Under(z, r[i][1], r[i][2])
  BY PiecesCover, Zenon DEF CoveredBySplit
<1>3. PICK i \in DOMAIN r, e \in S, f \in S : /\ Under(e.id, r[i][1], r[i][2])
                                              /\ ~ Under(f.id, r[i][1], r[i][2])
  BY LastPiece, Zenon
<1> HIDE DEF r
<1>4. f.id \in Bounds /\ Under(f.id, x, y)
  BY <1>1, InView, RangeOf, Zenon
<1>5. PICK j \in DOMAIN r : Under(f.id, r[j][1], r[j][2])
  BY <1>2, <1>4, Zenon
<1>6. \A k \in DOMAIN r, g \in S : Under(g.id, r[k][1], r[k][2]) => k \in P
  BY <1>1, <1>2, RangeOf
<1>7. i \in P /\ j \in P /\ i # j
  BY <1>3, <1>5, <1>6, Zenon
<1>8. IsFiniteSet(P)
  <2>1. IsFiniteSet(1 .. split_factor)
    BY FS_Interval, ReconcileAssumption
  <2>2. P \in SUBSET (1 .. split_factor)
    BY <1>2, Zenon
  <2> HIDE DEF P
  <2> QED
    BY <2>1, <2>2, FS_Subset, Zenon
<1> HIDE DEF P
<1>9. Cardinality({i, j}) = 2
  <2>1. IsFiniteSet({i}) /\ Cardinality({i}) = 1
    BY FS_Singleton, Zenon
  <2>2. {i, j} = {i} \cup {j} /\ j \notin {i}
    BY <1>7, Zenon
  <2>3. Cardinality({i} \cup {j}) = Cardinality({i}) + 1
    BY <2>1, <2>2, FS_AddElement, Zenon
  <2> QED
    BY <2>1, <2>2, <2>3
<1>10. Cardinality({i, j}) <= Cardinality(P)
  BY <1>7, <1>8, FS_Subset, Zenon
<1>11. Cardinality(P) \in Nat
  BY <1>8, FS_CardinalityType, Zenon
<1>12. Cardinality(P) > 1
  BY <1>9, <1>10, <1>11
<1> QED
  BY <1>12, Zenon DEF NonEmpty, P, r

-----------------------------------------------------------------------------
(* What put does to a table                                                *)

LEMMA SupersedesIsOrder ==
    ASSUME NEW e \in Entry, NEW f \in Entry
    PROVE  /\ Supersedes(e, e)
           /\ Supersedes(e, f) /\ Supersedes(f, e) => e = f
           /\ \A g \in Entry : Supersedes(e, f) /\ Supersedes(f, g) => Supersedes(e, g)
<1>1. \A h \in Entry : /\ h.id \in Ids /\ h.r \in Records /\ h = [id |-> h.id, r |-> h.r]
                       /\ h.id[2] \in Keys /\ h.id = <<h.id[1], h.id[2]>>
                       /\ h.r \in Records \cup {NoRecord}
  BY IdsTyped DEF Entry
<1>2. Supersedes(e, e)
  BY <1>1, OwnPrefix, RecordLeqOrder, Zenon DEF Supersedes
<1>3. ASSUME Supersedes(e, f), Supersedes(f, e) PROVE e = f
  BY <1>1, <1>3, PrefixOrder, RecordLeqOrder DEF Supersedes
<1>4. ASSUME NEW g \in Entry, Supersedes(e, f), Supersedes(f, g) PROVE Supersedes(e, g)
  BY <1>1, <1>4, PrefixOrder, RecordLeqOrder DEF Supersedes
<1> QED
  BY <1>2, <1>3, <1>4, Zenon

LEMMA PutTable ==
    ASSUME NEW t \in RecordTables, NEW e \in Entry, would_insert(t, e.id, e.r)
    PROVE  /\ put(t, e.id, e.r) \in RecordTables
           /\ \A i \in Ids : put(t, e.id, e.r)[i] =
                 IF i = e.id THEN e.r
                 ELSE IF i[1] = e.id[1] /\ i[2] \in author_prefix[e.id[2]] /\ RecordLeq(t[i], e.r)
                 THEN NoRecord ELSE t[i]
<1>1. e.id \in Ids /\ e.r \in Records
  BY Zenon DEF Entry
<1> DEFINE rem == remove_prefix_filtered(t, e.id, e.r)
<1>2. rem \in RecordTables
  BY Zenon DEF RecordTables, remove_prefix_filtered
<1>3. \A i \in Ids : rem[i] =
          IF i[1] = e.id[1] /\ i[2] \in author_prefix[e.id[2]] /\ RecordLeq(t[i], e.r)
          THEN NoRecord ELSE t[i]
  BY Zenon DEF remove_prefix_filtered
<1>4. put(t, e.id, e.r) = [rem EXCEPT ![e.id] = e.r]
  BY Zenon DEF put
<1> HIDE DEF rem
<1>5. put(t, e.id, e.r) \in RecordTables
  BY <1>1, <1>2, <1>4, Zenon DEF RecordTables
<1>6. \A i \in Ids : put(t, e.id, e.r)[i] = IF i = e.id THEN e.r ELSE rem[i]
  BY <1>1, <1>2, <1>4, Zenon DEF RecordTables
<1> QED
  BY <1>3, <1>5, <1>6, Zenon

LEMMA PutIsTyped ==
    ASSUME NEW t \in RecordTables, NEW e \in Entry
    PROVE  /\ put(t, e.id, e.r) \in RecordTables
           /\ EntriesOf(put(t, e.id, e.r)) \subseteq EntriesOf(t) \cup {e}
           /\ Pruned(t) => Pruned(put(t, e.id, e.r))
           /\ Holds(put(t, e.id, e.r), e)
<1> DEFINE u == put(t, e.id, e.r)
<1>1. e.id \in Ids /\ e.r \in Records /\ e = [id |-> e.id, r |-> e.r]
  BY Zenon DEF Entry
<1>2. CASE would_insert(t, e.id, e.r)
  <2>1. u \in RecordTables
    BY <1>2, PutTable, Zenon
  <2>2. \A i \in Ids : u[i] = IF i = e.id THEN e.r ELSE IF u[i] = t[i] THEN t[i] ELSE NoRecord
    BY <1>2, PutTable, Zenon
  <2>3. Pruned(t) => Pruned(u)
    BY <1>1, <1>2, PutPrunes, Zenon DEF put
  <2> HIDE DEF u
  <2>4. ASSUME NEW f \in EntriesOf(u) PROVE f \in EntriesOf(t) \cup {e}
    <3>1. f \in Entry /\ u[f.id] = f.r /\ f.id \in Ids /\ f.r # NoRecord
      BY <2>1, EntriesOfTyped, Zenon
    <3>2. CASE f.id = e.id
      BY <1>1, <2>2, <3>1, <3>2, Zenon DEF Entry
    <3>3. CASE f.id # e.id
      BY <2>2, <3>1, <3>3, EntriesOfTyped, Zenon
    <3> QED
      BY <3>2, <3>3, Zenon
  <2>5. e \in EntriesOf(u)
    BY <1>1, <2>1, <2>2, EntriesOfTyped, Zenon
  <2>6. Holds(u, e)
    BY <2>5, SupersedesIsOrder, Zenon DEF Holds
  <2> QED
    BY <2>1, <2>3, <2>4, <2>6, Zenon DEF u
<1>3. CASE ~ would_insert(t, e.id, e.r)
  <2>1. u = t
    BY <1>3, Zenon DEF put
  <2>2. PICK k \in prefixes_of(t, e.id) : RecordLeq(e.r, t[<<e.id[1], k>>])
    BY <1>3, Zenon DEF would_insert
  <2>3. /\ k \in Keys /\ IsPrefixOf(k, e.id[2]) /\ Present(t, <<e.id[1], k>>)
        /\ e.id[1] \in Authors
    BY <1>1, IdsTyped, Zenon DEF prefixes_of, parents
  <2> DEFINE f == [id |-> <<e.id[1], k>>, r |-> t[<<e.id[1], k>>]]
  <2>4. <<e.id[1], k>> \in Ids
    BY <2>3, Zenon DEF Ids
  <2>5. f \in EntriesOf(t)
    BY <2>3, <2>4, Zenon DEF EntriesOf
  <2>6. Supersedes(f, e)
    BY <2>2, <2>3, Zenon DEF Supersedes
  <2> QED
    BY <2>1, <2>5, <2>6, Zenon DEF Holds
<1> QED
  BY <1>2, <1>3, Zenon

\* What a table has superseded stays superseded.
LEMMA PutIsExact ==
    ASSUME NEW t \in RecordTables, NEW e \in Entry, NEW S, Exact(S), e \in S,
           EntriesOf(t) \subseteq S, NEW g \in Entry, Holds(t, g)
    PROVE  Holds(put(t, e.id, e.r), g)
<1> DEFINE u == put(t, e.id, e.r)
<1>1. CASE ~ would_insert(t, e.id, e.r)
  BY <1>1, Zenon DEF put
<1>2. CASE would_insert(t, e.id, e.r)
  <2>1. PICK f \in EntriesOf(t) : Supersedes(f, g)
    BY Zenon DEF Holds
  <2>2. /\ f \in Entry /\ t[f.id] = f.r /\ f.id \in Ids /\ f.r \in Records /\ f.r # NoRecord
        /\ f \in S
    BY EntriesOfTyped, Zenon
  <2>3. e.id \in Ids /\ e.r \in Records
    BY Zenon DEF Entry
  <2>4. u \in RecordTables /\ \A i \in Ids : u[i] =
            IF i = e.id THEN e.r
            ELSE IF i[1] = e.id[1] /\ i[2] \in author_prefix[e.id[2]] /\ RecordLeq(t[i], e.r)
            THEN NoRecord ELSE t[i]
    BY <1>2, PutTable, Zenon
  <2> HIDE DEF u
  <2>5. e \in EntriesOf(u)
    BY <2>3, <2>4, EntriesOfTyped, Zenon
  <2>6. ASSUME Supersedes(e, f) PROVE Holds(u, g)
    BY <2>1, <2>2, <2>5, <2>6, SupersedesIsOrder, Zenon DEF Holds
  <2>7. CASE f.id = e.id
    <3>1. RecordLeq(f.r, e.r)
      <4>1. CASE ~ Visible(f)
        BY <2>2, <2>7, <4>1, Zenon DEF Exact
      <4>2. CASE Visible(f)
        <5>1. f.id[2] \in prefixes_of(t, e.id)
          BY <2>2, <2>7, <4>2, IdsTyped, OwnPrefix, Zenon
             DEF parents, Visible, prefixes_of, Present
        <5>2. t[<<e.id[1], f.id[2]>>] = f.r
          BY <2>2, <2>7, IdsTyped, Zenon
        <5>3. ~ RecordLeq(e.r, f.r)
          BY <1>2, <5>1, <5>2, Zenon DEF would_insert
        <5> QED
          BY <2>2, <2>3, <5>3, RecordOrder, Zenon
      <4> QED
        BY <4>1, <4>2, Zenon
    <3>2. Supersedes(e, f)
      BY <2>3, <2>7, <3>1, IdsTyped, OwnPrefix, Zenon DEF Supersedes
    <3> QED
      BY <2>6, <3>2, Zenon DEF u
  <2>8. CASE f.id # e.id /\ f.id[1] = e.id[1] /\ f.id[2] \in author_prefix[e.id[2]]
             /\ RecordLeq(f.r, e.r)
    BY <2>2, <2>6, <2>8, Zenon DEF Exact, Supersedes, u
  <2>9. CASE /\ f.id # e.id
             /\ ~ (/\ f.id[1] = e.id[1] /\ f.id[2] \in author_prefix[e.id[2]]
                   /\ RecordLeq(f.r, e.r))
    BY <2>1, <2>2, <2>4, <2>9, EntriesOfTyped, Zenon DEF Holds, u
  <2> QED
    BY <2>7, <2>8, <2>9, Zenon DEF u
<1> QED
  BY <1>1, <1>2, Zenon

-----------------------------------------------------------------------------
(* The contract is met                                                     *)

LEMMA ContractMet == Contract
<1>1. Induction
  BY UpTo, Zenon DEF Induction
<1>2. SupersedesOrder
  <2>1. \A e, f \in Entry : e.id = f.id /\ RecordLeq(f.r, e.r) => Supersedes(e, f)
    <3> SUFFICES ASSUME NEW e \in Entry, NEW f \in Entry, e.id = f.id, RecordLeq(f.r, e.r)
                 PROVE  Supersedes(e, f)
      BY Zenon
    <3>1. e.id \in Ids /\ e.id[2] \in Keys
      BY IdsTyped, Zenon DEF Entry
    <3> QED
      BY <3>1, OwnPrefix, Zenon DEF Supersedes
  <2> QED
    BY <2>1, SupersedesIsOrder, Zenon DEF SupersedesOrder
<1>3. PutTyped
  BY PutIsTyped, Zenon DEF PutTyped
<1>4. PutKeeps
  BY PutIsExact, Zenon DEF PutKeeps
<1>5. Views
  BY TableIsView, SubView, Zenon DEF Views
<1>6. Places
  <2> SUFFICES ASSUME NEW S, IsView(S)
               PROVE  /\ Cardinality(S) \in Nat
                      /\ \A n \in Nat : n < Cardinality(S) => Nth(S, n) \in S
                      /\ \A e \in S : /\ Below(S, e.id) \in Nat
                                      /\ Below(S, e.id) < Cardinality(S)
                                      /\ Nth(S, Below(S, e.id)) = e
    BY Zenon DEF Places
  <2> QED
    BY BelowType, NthIs, NthOf, Zenon
<1>7. Ranges
  BY RangeOf, Zenon DEF Ranges
<1>8. SplitCovers
  BY PiecesCover, Zenon DEF SplitCovers
<1> QED
  BY <1>1, <1>2, <1>3, <1>4, <1>5, <1>6, <1>7, <1>8, Zenon DEF Contract
=============================================================================
