---------------------------- MODULE ResolveProofs ----------------------------
(***************************************************************************)
(* Which vaults a directory composes with, for any tree, checkouts,        *)
(* worktrees and vaults.                                                   *)
(***************************************************************************)
EXTENDS Resolve, SequenceTheorems, FiniteSetTheorems, WellFoundedInduction,
        TLAPS

-----------------------------------------------------------------------------
(* Numbers                                                                 *)

Lower == {z \in Nat \X Nat : z[1] < z[2]}

LEMMA LowerWellFounded == IsWellFoundedOn(Lower, Nat)
BY NatLessThanWellFounded DEF Lower, OpToRel

\* A nonempty set of numbers has a least element, and Min is it.
LEMMA MinIsLeast ==
    ASSUME NEW S, S \subseteq Nat, S # {}
    PROVE  Min(S) \in S /\ \A y \in S : Min(S) <= y
<1>1. PICK x \in S : \A y \in S : ~(<<y, x>> \in Lower)
  BY LowerWellFounded, WFMin
<1>2. \A y \in S : x <= y
  <2> TAKE y \in S
  <2>1. x \in Nat /\ y \in Nat
    OBVIOUS
  <2>2. <<y, x>> \in Nat \X Nat /\ <<y, x>>[1] = y /\ <<y, x>>[2] = x
    BY <2>1
  <2>3. y < x => <<y, x>> \in Lower
    BY <2>2, SMT DEF Lower
  <2> QED
    BY <1>1, <2>1, <2>3
<1> QED
  BY <1>2 DEF Min

\* A nonempty set of numbers with a bound has a greatest, and Max is it.
LEMMA MaxIsGreatest ==
    ASSUME NEW S, S \subseteq Nat, S # {}, NEW n \in Nat, \A x \in S : x <= n
    PROVE  Max(S) \in S /\ \A y \in S : y <= Max(S)
<1> DEFINE T == {n - x : x \in S}
<1>1. T \subseteq Nat /\ T # {}
  <2>1. \A x \in S : x \in Nat /\ n - x \in Nat
    OBVIOUS
  <2> QED
    BY <2>1
<1>2. Min(T) \in T /\ \A y \in T : Min(T) <= y
  BY <1>1, MinIsLeast
<1>3. PICK x \in S : Min(T) = n - x
  BY <1>2
<1>4. \A y \in S : x >= y
  <2> TAKE y \in S
  <2>1. n - y \in T
    OBVIOUS
  <2>2. n - x <= n - y
    BY <1>2, <1>3, <2>1
  <2> QED
    BY <2>2
<1> QED
  BY <1>4 DEF Max

\* How many of S come no later than x.
Rank(S, x) == Cardinality({y \in S : y <= x})

LEMMA RankIncreases ==
    ASSUME NEW S, S \subseteq Nat, IsFiniteSet(S)
    PROVE  /\ \A x \in S : Rank(S, x) \in 1 .. Cardinality(S)
           /\ \A x, y \in S : x < y => Rank(S, x) < Rank(S, y)
<1> DEFINE upto(x) == {y \in S : y <= x}
<1>1. ASSUME NEW x \in S
      PROVE  /\ IsFiniteSet(upto(x)) /\ Cardinality(upto(x)) \in Nat
             /\ Cardinality(upto(x)) <= Cardinality(S)
             /\ Cardinality(upto(x)) # 0
  <2>1. upto(x) \in SUBSET S /\ x \in upto(x)
    OBVIOUS
  <2>2. IsFiniteSet(upto(x)) /\ Cardinality(upto(x)) <= Cardinality(S)
    BY <2>1, FS_Subset
  <2> QED
    BY <2>1, <2>2, FS_CardinalityType, FS_EmptySet
<1>2. Cardinality(S) \in Nat
  BY FS_CardinalityType
<1>3. ASSUME NEW x \in S, NEW y \in S, x < y
      PROVE  Cardinality(upto(x)) < Cardinality(upto(y))
  <2>1. upto(x) \in SUBSET upto(y) /\ y \in upto(y) /\ y \notin upto(x)
    <3>1. x \in Int /\ y \in Int /\ \A z \in S : z \in Int
      OBVIOUS
    <3>2. \A z \in S : z <= x => z <= y
      BY <1>3, <3>1
    <3>3. y <= y /\ ~(y <= x)
      BY <1>3, <3>1
    <3> QED
      BY <3>2, <3>3
  <2>2. /\ Cardinality(upto(x)) <= Cardinality(upto(y))
        /\ Cardinality(upto(y)) = Cardinality(upto(x)) => upto(y) = upto(x)
    BY <1>1, <2>1, FS_Subset
  <2> HIDE DEF upto
  <2> QED
    BY <1>1, <2>1, <2>2
<1> QED
  BY <1>1, <1>2, <1>3 DEF Rank

\* Ascending lists a finite set of numbers, each once, the least first.
LEMMA AscendingLists ==
    ASSUME NEW S, S \subseteq Nat, IsFiniteSet(S)
    PROVE  /\ Ascending(S) \in [1 .. Cardinality(S) -> S]
           /\ Cardinality(S) \in Nat
           /\ \A j, k \in 1 .. Cardinality(S) :
                 j < k => Ascending(S)[j] < Ascending(S)[k]
           /\ \A x \in S : \E k \in 1 .. Cardinality(S) : Ascending(S)[k] = x
<1> DEFINE n == Cardinality(S)
           r == [x \in S |-> Rank(S, x)]
           s == [k \in 1 .. n |-> CHOOSE x \in S : r[x] = k]
<1>1. n \in Nat /\ IsFiniteSet(1 .. n) /\ Cardinality(1 .. n) = n
  <2>1. n \in Nat
    BY FS_CardinalityType
  <2> QED
    BY <2>1, FS_Interval
<1>2. r \in [S -> 1 .. n] /\ \A x, y \in S : x < y => r[x] < r[y]
  BY RankIncreases
<1>3. r \in Injection(S, 1 .. n)
  <2>1. \A x, y \in S : r[x] = r[y] => x = y
    <3> SUFFICES ASSUME NEW x \in S, NEW y \in S, r[x] = r[y] PROVE x = y
      OBVIOUS
    <3>1. x \in Nat /\ y \in Nat /\ r[x] \in 1 .. n /\ r[y] \in 1 .. n
      BY <1>2
    <3>2. ~(x < y) /\ ~(y < x)
      BY <1>1, <1>2, <3>1
    <3> QED
      BY <3>1, <3>2
  <2> QED
    BY <1>2, <2>1 DEF Injection, IsInjective
<1>4. r \in Surjection(S, 1 .. n)
  BY <1>1, <1>3, FS_Injection
<1>5. \A k \in 1 .. n : \E x \in S : r[x] = k
  BY <1>4 DEF Surjection
<1>6. \A k \in 1 .. n : s[k] \in S /\ r[s[k]] = k
  <2> TAKE k \in 1 .. n
  <2>1. s[k] = CHOOSE x \in S : r[x] = k
    OBVIOUS
  <2> HIDE DEF s
  <2> QED
    BY <1>5, <2>1
<1>7. s \in [1 .. n -> S] /\ DOMAIN s = 1 .. n
  BY <1>6
<1>8. \A j, k \in 1 .. n : j < k => s[j] < s[k]
  <2> HIDE DEF s, r
  <2> SUFFICES ASSUME NEW j \in 1 .. n, NEW k \in 1 .. n, j < k
               PROVE  s[j] < s[k]
    OBVIOUS
  <2>1. s[j] \in S /\ s[k] \in S /\ r[s[j]] = j /\ r[s[k]] = k
    BY <1>6
  <2>2. s[j] \in Nat /\ s[k] \in Nat
    BY <2>1
  <2>3. j \in Int /\ k \in Int
    OBVIOUS
  <2>4. s[j] # s[k]
    BY <2>1, <2>2
  <2>5. s[k] < s[j] => r[s[k]] < r[s[j]]
    BY <1>2, <2>1
  <2> QED
    BY <2>1, <2>2, <2>3, <2>4, <2>5
<1> DEFINE a == Ascending(S)
<1>9. a \in [1 .. n -> S] /\ \A j, k \in DOMAIN a : j < k => a[j] < a[k]
  <2> HIDE DEF s, n
  <2>1. \E t \in [1 .. n -> S] : \A j, k \in DOMAIN t : j < k => t[j] < t[k]
    BY <1>7, <1>8
  <2> QED
    BY <2>1 DEF Ascending, n
<1> HIDE DEF a
<1>10. DOMAIN a = 1 .. n
  BY <1>9
<1>11. a \in Injection(1 .. n, S)
  <2>1. \A j, k \in 1 .. n : a[j] = a[k] => j = k
    <3> SUFFICES ASSUME NEW j \in 1 .. n, NEW k \in 1 .. n, a[j] = a[k]
                 PROVE  j = k
      OBVIOUS
    <3>1. a[j] \in Nat /\ a[k] \in Nat
      <4>1. a[j] \in S /\ a[k] \in S
        BY <1>9
      <4> QED
        BY <4>1
    <3>2. j \in Int /\ k \in Int
      OBVIOUS
    <3>3. ~(j < k) /\ ~(k < j)
      BY <1>9, <1>10, <3>1, <3>2
    <3> QED
      BY <3>2, <3>3
  <2> QED
    BY <1>9, <2>1 DEF Injection, IsInjective
<1>12. a \in Surjection(1 .. n, S)
  BY <1>1, <1>11, FS_Injection
<1> QED
  BY <1>1, <1>9, <1>10, <1>12 DEF a, Surjection
-----------------------------------------------------------------------------
(* Paths                                                                   *)

LEMMA PrefixElements ==
    ASSUME NEW N, NEW s \in Seq(N), NEW t \in Seq(N)
    PROVE  IsPrefix(s, t) <=> /\ Len(s) <= Len(t)
                              /\ \A i \in 1 .. Len(s) : s[i] = t[i]
<1>1. /\ Len(s) \in Nat /\ \A i \in 1 .. Len(s) : s[i] \in N
      /\ Len(t) \in Nat /\ \A i \in 1 .. Len(t) : t[i] \in N
  BY LenProperties, ElementOfSeq
<1>2. SubSeq(s, 1, Len(s)) = s
  BY SubSeqFull
<1>3. ASSUME Len(s) <= Len(t)
      PROVE  /\ SubSeq(t, 1, Len(s)) \in Seq(N)
             /\ Len(SubSeq(t, 1, Len(s))) = Len(s)
             /\ \A i \in 1 .. Len(s) : SubSeq(t, 1, Len(s))[i] = t[i]
  <2>1. 1 \in Int /\ Len(s) \in Int /\ \A i \in 1 .. Len(s) : t[i] \in N
    BY <1>1, <1>3
  <2>2. /\ SubSeq(t, 1, Len(s)) \in Seq(N)
        /\ Len(SubSeq(t, 1, Len(s))) =
               IF 1 <= Len(s) THEN Len(s) - 1 + 1 ELSE 0
        /\ \A i \in 1 .. Len(s) - 1 + 1 :
               SubSeq(t, 1, Len(s))[i] = t[1 + i - 1]
    BY <2>1, SubSeqProperties
  <2> QED
    BY <1>1, <2>2
<1>4. ASSUME Len(s) <= Len(t), \A i \in 1 .. Len(s) : s[i] = t[i]
      PROVE  s = SubSeq(t, 1, Len(s))
  BY <1>3, <1>4, SeqEqual
<1> QED
  BY <1>2, <1>3, <1>4 DEF IsPrefix

LEMMA PrefixOrder ==
    ASSUME NEW N, NEW s \in Seq(N), NEW t \in Seq(N), NEW u \in Seq(N)
    PROVE  /\ IsPrefix(s, s)
           /\ IsPrefix(s, t) /\ IsPrefix(t, u) => IsPrefix(s, u)
           /\ IsPrefix(s, t) /\ Len(s) = Len(t) => s = t
           /\ IsPrefix(s, u) /\ IsPrefix(t, u) /\ Len(s) <= Len(t)
                  => IsPrefix(s, t)
<1>1. Len(s) \in Nat /\ Len(t) \in Nat /\ Len(u) \in Nat
  BY LenProperties
<1>2. IsPrefix(s, s)
  BY <1>1, PrefixElements
<1>3. IsPrefix(s, t) /\ IsPrefix(t, u) => IsPrefix(s, u)
  BY <1>1, PrefixElements
<1>4. IsPrefix(s, t) /\ Len(s) = Len(t) => s = t
  BY PrefixElements, SeqEqual
<1>5. IsPrefix(s, u) /\ IsPrefix(t, u) /\ Len(s) <= Len(t) => IsPrefix(s, t)
  BY <1>1, PrefixElements
<1> QED
  BY <1>2, <1>3, <1>4, <1>5

LEMMA RelElements ==
    ASSUME NEW N, NEW r \in Seq(N), NEW d \in Seq(N), IsPrefix(r, d)
    PROVE  /\ Rel(r, d) \in Seq(N) /\ Len(Rel(r, d)) = Len(d) - Len(r)
           /\ \A i \in 1 .. Len(d) - Len(r) : Rel(r, d)[i] = d[Len(r) + i]
<1>1. Len(r) \in Nat /\ Len(d) \in Nat /\ Len(r) <= Len(d)
  BY LenProperties, PrefixElements
<1>2. \A i \in Len(r) + 1 .. Len(d) : d[i] \in N
  BY <1>1, ElementOfSeq
<1>3. /\ Rel(r, d) \in Seq(N)
      /\ Len(Rel(r, d)) = IF Len(r) + 1 <= Len(d)
                          THEN Len(d) - (Len(r) + 1) + 1 ELSE 0
      /\ \A i \in 1 .. Len(d) - (Len(r) + 1) + 1 :
            Rel(r, d)[i] = d[Len(r) + 1 + i - 1]
  <2>1. Len(r) + 1 \in Int /\ Len(d) \in Int
    BY <1>1
  <2> QED
    BY <1>2, <2>1, SubSeqProperties DEF Rel
<1> QED
  BY <1>1, <1>3

\* A path taken from below r to below m.
Moved(m, r, d) == Join(m, Rel(r, d))

LEMMA MovedElements ==
    ASSUME NEW N, NEW m \in Seq(N), NEW r \in Seq(N), NEW d \in Seq(N),
           IsPrefix(r, d)
    PROVE  /\ Moved(m, r, d) \in Seq(N)
           /\ Len(Moved(m, r, d)) = Len(m) + Len(d) - Len(r)
           /\ IsPrefix(m, Moved(m, r, d))
           /\ Rel(m, Moved(m, r, d)) = Rel(r, d)
           /\ \A j \in Len(m) + 1 .. Len(m) + Len(d) - Len(r) :
                 Moved(m, r, d)[j] = d[j - Len(m) + Len(r)]
<1> DEFINE e == Moved(m, r, d)
<1>1. /\ Rel(r, d) \in Seq(N) /\ Len(Rel(r, d)) = Len(d) - Len(r)
      /\ \A i \in 1 .. Len(d) - Len(r) : Rel(r, d)[i] = d[Len(r) + i]
  BY RelElements
<1>2. Len(m) \in Nat /\ Len(r) \in Nat /\ Len(d) \in Nat /\ Len(r) <= Len(d)
  BY LenProperties, PrefixElements
<1>3. /\ e \in Seq(N) /\ Len(e) = Len(m) + (Len(d) - Len(r))
      /\ \A i \in 1 .. Len(m) + (Len(d) - Len(r)) :
            e[i] = IF i <= Len(m) THEN m[i] ELSE Rel(r, d)[i - Len(m)]
  <2>1. e = m \o Rel(r, d)
    BY DEF Moved, Join
  <2> HIDE DEF e
  <2> DEFINE s == Rel(r, d)
  <2>2. s \in Seq(N) /\ Len(s) = Len(d) - Len(r) /\ e = m \o s
    BY <1>1, <2>1
  <2> HIDE DEF s
  <2>3. /\ e \in Seq(N) /\ Len(e) = Len(m) + Len(s)
        /\ \A i \in 1 .. Len(m) + Len(s) :
              e[i] = IF i <= Len(m) THEN m[i] ELSE s[i - Len(m)]
    BY <2>2, ConcatProperties
  <2> QED
    BY <2>2, <2>3 DEF s
<1> HIDE DEF e
<1>4. IsPrefix(m, e)
  <2>1. Len(m) <= Len(e) /\ \A i \in 1 .. Len(m) : m[i] = e[i]
    BY <1>2, <1>3
  <2> QED
    BY <1>3, <2>1, PrefixElements
<1>5. \A i \in 1 .. Len(d) - Len(r) : e[Len(m) + i] = d[Len(r) + i]
  <2> TAKE i \in 1 .. Len(d) - Len(r)
  <2>1. /\ Len(m) + i \in 1 .. Len(m) + (Len(d) - Len(r))
        /\ ~(Len(m) + i <= Len(m)) /\ Len(m) + i - Len(m) = i
    BY <1>2
  <2> QED
    BY <1>1, <1>3, <2>1
<1>6. Rel(m, e) = Rel(r, d)
  <2>1. /\ Rel(m, e) \in Seq(N) /\ Len(Rel(m, e)) = Len(e) - Len(m)
        /\ \A i \in 1 .. Len(e) - Len(m) : Rel(m, e)[i] = e[Len(m) + i]
    BY <1>3, <1>4, RelElements
  <2>2. Len(e) - Len(m) = Len(d) - Len(r)
    BY <1>2, <1>3
  <2> QED
    BY <1>1, <1>5, <2>1, <2>2, SeqEqual
<1>7. Len(e) = Len(m) + Len(d) - Len(r)
  BY <1>2, <1>3
<1>8. \A j \in Len(m) + 1 .. Len(m) + Len(d) - Len(r) :
          e[j] = d[j - Len(m) + Len(r)]
  <2> TAKE j \in Len(m) + 1 .. Len(m) + Len(d) - Len(r)
  <2>1. /\ j - Len(m) \in 1 .. Len(d) - Len(r) /\ Len(m) + (j - Len(m)) = j
        /\ Len(r) + (j - Len(m)) = j - Len(m) + Len(r)
    BY <1>2
  <2> QED
    BY <1>5, <2>1
<1> QED
  BY <1>3, <1>4, <1>6, <1>7, <1>8 DEF e

\* Taking it there and back is taking it nowhere.
LEMMA MovedBack ==
    ASSUME NEW N, NEW m \in Seq(N), NEW r \in Seq(N), NEW d \in Seq(N),
           IsPrefix(r, d)
    PROVE  Moved(r, r, d) = d /\ Moved(r, m, Moved(m, r, d)) = d
<1>1. /\ Moved(r, r, d) \in Seq(N) /\ IsPrefix(r, Moved(r, r, d))
      /\ Len(Moved(r, r, d)) = Len(r) + Len(d) - Len(r)
  BY MovedElements
<1> DEFINE e == Moved(r, r, d)
<1>2. /\ Len(r) \in Nat /\ Len(d) \in Nat /\ Len(r) <= Len(d)
      /\ \A i \in 1 .. Len(r) : r[i] = d[i] /\ r[i] = e[i]
  <2>1. e \in Seq(N) /\ IsPrefix(r, e)
    BY <1>1
  <2> HIDE DEF e
  <2>2. \A i \in 1 .. Len(r) : r[i] = e[i]
    BY <2>1, PrefixElements
  <2>3. Len(r) <= Len(d) /\ \A i \in 1 .. Len(r) : r[i] = d[i]
    BY PrefixElements
  <2> QED
    BY <2>2, <2>3, LenProperties
<1>3. \A i \in 1 .. Len(d) : e[i] = d[i]
  <2> TAKE i \in 1 .. Len(d)
  <2>1. CASE i <= Len(r)
    BY <1>2, <2>1
  <2>2. CASE ~(i <= Len(r))
    <3>1. /\ i \in Len(r) + 1 .. Len(r) + Len(d) - Len(r)
          /\ i - Len(r) + Len(r) = i
      BY <1>2, <2>2
    <3>2. e[i] = d[i - Len(r) + Len(r)]
      BY <3>1, MovedElements
    <3> QED
      BY <3>1, <3>2
  <2> QED
    BY <2>1, <2>2
<1>4. Len(Moved(r, r, d)) = Len(d)
  BY <1>1, <1>2
<1>5. Moved(r, r, d) = d
  BY <1>1, <1>3, <1>4, SeqEqual
<1>6. Rel(m, Moved(m, r, d)) = Rel(r, d)
  BY MovedElements
<1> QED
  BY <1>5, <1>6 DEF Moved

\* The order of paths is kept.
LEMMA MovedOrder ==
    ASSUME NEW N, NEW m \in Seq(N), NEW r \in Seq(N), NEW d \in Seq(N),
           NEW e \in Seq(N), IsPrefix(r, d), IsPrefix(r, e)
    PROVE  /\ Moved(m, r, d) = Moved(m, r, e) => d = e
           /\ IsPrefix(d, e) => IsPrefix(Moved(m, r, d), Moved(m, r, e))
<1>1. Moved(m, r, d) = Moved(m, r, e) => d = e
  BY MovedBack
<1>2. /\ Moved(m, r, d) \in Seq(N) /\ IsPrefix(m, Moved(m, r, d))
      /\ Len(Moved(m, r, d)) = Len(m) + Len(d) - Len(r)
  BY MovedElements
<1>3. /\ Moved(m, r, e) \in Seq(N) /\ IsPrefix(m, Moved(m, r, e))
      /\ Len(Moved(m, r, e)) = Len(m) + Len(e) - Len(r)
  BY MovedElements
<1>4. Len(m) \in Nat /\ Len(r) \in Nat /\ Len(d) \in Nat /\ Len(e) \in Nat
  BY LenProperties
<1>5. /\ \A i \in 1 .. Len(m) : m[i] = Moved(m, r, d)[i]
      /\ \A i \in 1 .. Len(m) : m[i] = Moved(m, r, e)[i]
      /\ Len(r) <= Len(d)
  BY <1>2, <1>3, PrefixElements
<1>6. ASSUME IsPrefix(d, e)
      PROVE  \A i \in 1 .. Len(m) + Len(d) - Len(r) :
                Moved(m, r, d)[i] = Moved(m, r, e)[i]
  <2> TAKE i \in 1 .. Len(m) + Len(d) - Len(r)
  <2>0. Len(d) <= Len(e) /\ \A k \in 1 .. Len(d) : d[k] = e[k]
    BY <1>6, PrefixElements
  <2>1. CASE i <= Len(m)
    <3>1. i \in 1 .. Len(m)
      BY <1>4, <2>1
    <3> QED
      BY <1>5, <3>1
  <2>2. CASE ~(i <= Len(m))
    <3>1. /\ i \in Len(m) + 1 .. Len(m) + Len(d) - Len(r)
          /\ i \in Len(m) + 1 .. Len(m) + Len(e) - Len(r)
          /\ i - Len(m) + Len(r) \in 1 .. Len(d)
      BY <1>4, <1>5, <2>0, <2>2
    <3>2. Moved(m, r, d)[i] = d[i - Len(m) + Len(r)]
      BY <3>1, MovedElements
    <3>3. Moved(m, r, e)[i] = e[i - Len(m) + Len(r)]
      BY <3>1, MovedElements
    <3> QED
      BY <2>0, <3>1, <3>2, <3>3
  <2> QED
    BY <2>1, <2>2
<1>7. IsPrefix(d, e) => Len(Moved(m, r, d)) <= Len(Moved(m, r, e))
  <2>1. IsPrefix(d, e) => Len(d) <= Len(e)
    BY PrefixElements
  <2> QED
    BY <1>2, <1>3, <1>4, <2>1
<1>8. IsPrefix(d, e) => IsPrefix(Moved(m, r, d), Moved(m, r, e))
  BY <1>2, <1>3, <1>6, <1>7, PrefixElements
<1> QED
  BY <1>1, <1>8
-----------------------------------------------------------------------------
(* The levels of a directory                                               *)

LEMMA DirIs ==
    ASSUME NEW d \in Dirs
    PROVE  d \in Seq(Names) /\ Len(d) \in Nat
BY DirsAssumption, LenProperties

LEMMA LevelIs ==
    ASSUME NEW cwd \in Dirs, NEW i \in Levels(cwd)
    PROVE  /\ Level(cwd, i) \in Dirs /\ Level(cwd, i) \in Seq(Names)
           /\ Len(Level(cwd, i)) = Len(cwd) - i /\ i \in Nat
           /\ IsPrefix(Level(cwd, i), cwd)
<1>1. /\ cwd \in Seq(Names) /\ Len(cwd) \in Nat
      /\ i \in 0 .. Len(cwd) /\ Len(cwd) - i \in 0 .. Len(cwd)
  BY DirIs DEF Levels
<1>2. Level(cwd, i) \in Dirs
  BY <1>1, DirsAssumption DEF Level
<1>3. Level(cwd, i) \in Seq(Names)
  BY <1>2, DirIs
<1>4. /\ Len(Level(cwd, i)) = Len(cwd) - i
      /\ \A j \in 1 .. Len(cwd) - i : Level(cwd, i)[j] = cwd[j]
  <2>1. 1 \in Int /\ Len(cwd) - i \in Int
        /\ \A j \in 1 .. Len(cwd) - i : cwd[j] \in Names
    BY <1>1, ElementOfSeq
  <2>2. /\ Len(Level(cwd, i)) =
               IF 1 <= Len(cwd) - i THEN Len(cwd) - i - 1 + 1 ELSE 0
        /\ \A j \in 1 .. Len(cwd) - i - 1 + 1 :
               Level(cwd, i)[j] = cwd[1 + j - 1]
    BY <2>1, SubSeqProperties DEF Level
  <2> QED
    BY <1>1, <2>2
<1>5. IsPrefix(Level(cwd, i), cwd)
  <2>1. Len(Level(cwd, i)) <= Len(cwd)
    BY <1>1, <1>4
  <2> QED
    BY <1>1, <1>3, <1>4, <2>1, PrefixElements
<1> QED
  BY <1>1, <1>2, <1>3, <1>4, <1>5

LEMMA LevelOrder ==
    ASSUME NEW cwd \in Dirs, NEW i \in Levels(cwd), NEW j \in Levels(cwd),
           i <= j
    PROVE  IsPrefix(Level(cwd, j), Level(cwd, i))
<1>1. Len(Level(cwd, j)) <= Len(Level(cwd, i))
  BY LevelIs, DirIs
<1>2. /\ IsPrefix(Level(cwd, j), cwd) /\ IsPrefix(Level(cwd, i), cwd)
      /\ Level(cwd, j) \in Seq(Names) /\ Level(cwd, i) \in Seq(Names)
      /\ cwd \in Seq(Names)
  BY LevelIs, DirIs
<1> QED
  BY <1>1, <1>2, PrefixOrder

LEMMA LevelOf ==
    ASSUME NEW cwd \in Dirs, NEW p \in Seq(Names), IsPrefix(p, cwd)
    PROVE  /\ Len(cwd) - Len(p) \in Levels(cwd)
           /\ Level(cwd, Len(cwd) - Len(p)) = p /\ p \in Dirs
<1> DEFINE i == Len(cwd) - Len(p)
<1>1. Len(cwd) \in Nat /\ Len(p) \in Nat /\ Len(p) <= Len(cwd) /\ cwd \in Seq(Names)
  BY DirIs, LenProperties, PrefixElements
<1>2. i \in Levels(cwd) /\ Len(cwd) - i = Len(p)
  BY <1>1 DEF Levels
<1> HIDE DEF i
<1>3. /\ Level(cwd, i) \in Dirs /\ Level(cwd, i) \in Seq(Names)
      /\ Len(Level(cwd, i)) = Len(p) /\ IsPrefix(Level(cwd, i), cwd)
  BY <1>2, LevelIs
<1>4. IsPrefix(p, Level(cwd, i))
  BY <1>1, <1>3, PrefixOrder
<1>5. p = Level(cwd, i)
  BY <1>3, <1>4, PrefixOrder
<1> QED
  BY <1>2, <1>3, <1>5 DEF i

\* Two levels of the same directory are the same.
LEMMA LevelsDiffer ==
    ASSUME NEW cwd \in Dirs, NEW i \in Levels(cwd), NEW j \in Levels(cwd),
           Level(cwd, i) = Level(cwd, j)
    PROVE  i = j
<1>1. Len(cwd) - i = Len(cwd) - j /\ i \in Nat /\ j \in Nat /\ Len(cwd) \in Nat
  BY LevelIs, DirIs
<1> QED
  BY <1>1
-----------------------------------------------------------------------------
(* The nearest worktree                                                    *)

\* What TypeOK says of the variables.
Shape ==
    /\ vaults \subseteq Dirs
    /\ git \in [Dirs -> {"none", "checkout", "submodule"} \cup Admin]
    /\ admin \in [Admin -> [main : Dirs, back : Dirs \cup {Free}]]
    /\ off \in BOOLEAN

LEMMA MainIs ==
    ASSUME Shape, NEW d \in Dirs, MainOf(d) # None
    PROVE  /\ MainOf(d) \in Dirs /\ MainOf(d) # d
           /\ git[d] \in Admin /\ admin[git[d]].back = d
           /\ admin[git[d]].main = MainOf(d)
BY DEF Shape, MainOf

LEMMA WtIs ==
    ASSUME Shape, NEW cwd \in Dirs
    PROVE  \/ WtLevel(cwd) = -1
           \/ /\ WtLevel(cwd) \in Levels(cwd) /\ WtLevel(cwd) \in Nat /\ ~off
              /\ NearestLevel(cwd) = WtLevel(cwd) /\ WtMain(cwd) # None
              /\ \A j \in Levels(cwd) :
                    j < WtLevel(cwd) => MainOf(Level(cwd, j)) = None
<1>1. CASE off \/ WtLevels(cwd) = {}
  BY <1>1 DEF WtLevel, NearestLevel
<1>2. CASE ~off /\ WtLevels(cwd) # {}
  <2>1. WtLevels(cwd) \subseteq Nat /\ WtLevels(cwd) \subseteq Levels(cwd)
    <3>1. \A i \in Levels(cwd) : i \in Nat
      BY DirIs DEF Levels
    <3> QED
      BY <3>1 DEF WtLevels
  <2>2. WtLevel(cwd) = Min(WtLevels(cwd)) /\ NearestLevel(cwd) = WtLevel(cwd)
    BY <1>2 DEF WtLevel, NearestLevel
  <2>3. /\ WtLevel(cwd) \in WtLevels(cwd)
        /\ \A j \in WtLevels(cwd) : WtLevel(cwd) <= j
    BY <1>2, <2>1, <2>2, MinIsLeast
  <2>4. \A j \in Levels(cwd) :
            j < WtLevel(cwd) => MainOf(Level(cwd, j)) = None
    <3> TAKE j \in Levels(cwd)
    <3>1. j \in Nat /\ WtLevel(cwd) \in Nat
      BY <2>1, <2>3, LevelIs
    <3> QED
      BY <2>3, <3>1 DEF WtLevels
  <2>5. MainOf(Level(cwd, WtLevel(cwd))) # None
    BY <2>3 DEF WtLevels
  <2> QED
    BY <1>2, <2>1, <2>2, <2>3, <2>4, <2>5 DEF WtMain, WtRoot
<1> QED
  BY <1>1, <1>2

LEMMA RootIs ==
    ASSUME Shape, NEW cwd \in Dirs, WtLevel(cwd) # -1
    PROVE  /\ WtRoot(cwd) \in Dirs /\ IsPrefix(WtRoot(cwd), cwd)
           /\ Len(WtRoot(cwd)) = Len(cwd) - WtLevel(cwd)
           /\ WtMain(cwd) \in Dirs /\ WtMain(cwd) # WtRoot(cwd)
           /\ WtMain(cwd) = MainOf(WtRoot(cwd)) /\ WtMain(cwd) # None
           /\ WtLevel(cwd) \in Levels(cwd) /\ WtLevel(cwd) \in Nat
           /\ \E e \in Admin : /\ admin[e].main = WtMain(cwd)
                               /\ admin[e].back = WtRoot(cwd)
<1>1. /\ WtLevel(cwd) \in Levels(cwd) /\ WtLevel(cwd) \in Nat
      /\ NearestLevel(cwd) = WtLevel(cwd) /\ WtMain(cwd) # None
  BY WtIs
<1>2. /\ WtRoot(cwd) \in Dirs /\ IsPrefix(WtRoot(cwd), cwd)
      /\ Len(WtRoot(cwd)) = Len(cwd) - WtLevel(cwd)
  BY <1>1, LevelIs DEF WtRoot
<1>3. WtMain(cwd) = MainOf(WtRoot(cwd))
  BY DEF WtMain
<1> QED
  BY <1>1, <1>2, <1>3, MainIs

\* The levels in the worktree are those below its root.
LEMMA InWorktree ==
    ASSUME Shape, NEW cwd \in Dirs, WtLevel(cwd) # -1, NEW i \in Levels(cwd)
    PROVE  i <= WtLevel(cwd) <=> IsPrefix(WtRoot(cwd), Level(cwd, i))
<1>1. /\ WtLevel(cwd) \in Levels(cwd) /\ WtLevel(cwd) \in Nat
      /\ Len(WtRoot(cwd)) = Len(cwd) - WtLevel(cwd)
      /\ WtRoot(cwd) \in Seq(Names) /\ WtRoot(cwd) = Level(cwd, WtLevel(cwd))
  BY WtIs, RootIs, DirIs DEF WtRoot
<1>2. /\ i \in Nat /\ Len(cwd) \in Nat /\ Len(Level(cwd, i)) = Len(cwd) - i
      /\ Level(cwd, i) \in Seq(Names)
  BY LevelIs, DirIs
<1>3. i <= WtLevel(cwd) => IsPrefix(WtRoot(cwd), Level(cwd, i))
  BY <1>1, LevelOrder
<1>4. IsPrefix(WtRoot(cwd), Level(cwd, i)) =>
          Len(WtRoot(cwd)) <= Len(Level(cwd, i))
  BY <1>1, <1>2, PrefixElements
<1> QED
  BY <1>1, <1>2, <1>3, <1>4
-----------------------------------------------------------------------------
(* The vaults of a directory                                               *)

\* A level adds its own vault, or in a worktree the main checkout's.
LEMMA PickIs ==
    ASSUME Shape, NEW cwd \in Dirs, NEW i \in Levels(cwd)
    PROVE  LET p == Pick(cwd, i)
           IN  /\ p # None <=> p \in vaults
               /\ Level(cwd, i) \in vaults => p = Level(cwd, i)
               /\ p # None /\ Level(cwd, i) \notin vaults =>
                     /\ WtLevel(cwd) # -1 /\ i <= WtLevel(cwd)
                     /\ IsPrefix(WtRoot(cwd), Level(cwd, i))
                     /\ p = Moved(WtMain(cwd), WtRoot(cwd), Level(cwd, i))
               /\ Level(cwd, i) \notin vaults /\ WtLevel(cwd) # -1 =>
                  LET q == Moved(WtMain(cwd), WtRoot(cwd), Level(cwd, i))
                  IN  i <= WtLevel(cwd) /\ q \in vaults => p = q
<1> DEFINE d == Level(cwd, i)
           q == Moved(WtMain(cwd), WtRoot(cwd), d)
           p == Pick(cwd, i)
<1>1. Counterpart(cwd, d) = q
  BY DEF Counterpart, Moved
<1>2. p = IF d \in vaults THEN d
          ELSE IF i <= WtLevel(cwd) /\ q \in vaults THEN q ELSE None
  BY <1>1 DEF Pick
<1>3. None \notin vaults
  BY NoneAssumption DEF Shape
<1>4. i \in Nat
  BY LevelIs
<1>5. i <= WtLevel(cwd) => WtLevel(cwd) # -1
  BY <1>4
<1>6. WtLevel(cwd) # -1 /\ i <= WtLevel(cwd) => IsPrefix(WtRoot(cwd), d)
  BY InWorktree
<1> HIDE DEF d, q, p
<1> QED
  BY <1>2, <1>3, <1>5, <1>6 DEF d, q, p

\* The vaults found are those that some level picks.
LEMMA ResolvedIs ==
    ASSUME Shape, NEW cwd \in Dirs
    PROVE  LET a == Ascending(Picked(cwd))
               n == Cardinality(Picked(cwd))
           IN  /\ n \in Nat /\ DOMAIN Resolved(cwd) = 1 .. n
               /\ \A k \in 1 .. n : /\ a[k] \in Picked(cwd)
                                    /\ Resolved(cwd)[k] = Pick(cwd, a[k])
               /\ \A j, k \in 1 .. n : j < k => a[j] < a[k]
               /\ \A i \in Picked(cwd) : \E k \in 1 .. n : a[k] = i
<1> DEFINE a == Ascending(Picked(cwd))
           n == Cardinality(Picked(cwd))
<1>1. Picked(cwd) \subseteq Nat /\ IsFiniteSet(Picked(cwd))
  <2>1. Picked(cwd) \in SUBSET (0 .. Len(cwd)) /\ Len(cwd) \in Nat
    BY DirIs DEF Picked, Levels
  <2>2. IsFiniteSet(0 .. Len(cwd))
    BY <2>1, FS_Interval
  <2> QED
    BY <2>1, <2>2, FS_Subset
<1>2. /\ a \in [1 .. n -> Picked(cwd)] /\ n \in Nat
      /\ \A j, k \in 1 .. n : j < k => a[j] < a[k]
      /\ \A i \in Picked(cwd) : \E k \in 1 .. n : a[k] = i
  BY <1>1, AscendingLists
<1>3. Resolved(cwd) = [k \in DOMAIN a |-> Pick(cwd, a[k])]
  BY DEF Resolved
<1> HIDE DEF a, n
<1>4. DOMAIN a = 1 .. n
  BY <1>2
<1>5. /\ DOMAIN Resolved(cwd) = 1 .. n
      /\ \A k \in 1 .. n : Resolved(cwd)[k] = Pick(cwd, a[k])
  BY <1>3, <1>4
<1> QED
  BY <1>2, <1>5 DEF a, n

LEMMA ResolvedSet ==
    ASSUME Shape, NEW cwd \in Dirs
    PROVE  /\ ToSet(Resolved(cwd)) \subseteq vaults
           /\ \A p \in ToSet(Resolved(cwd)) :
                 \E i \in Levels(cwd) : Pick(cwd, i) = p
           /\ \A i \in Levels(cwd) :
                 Pick(cwd, i) # None => Pick(cwd, i) \in ToSet(Resolved(cwd))
<1> DEFINE a == Ascending(Picked(cwd))
           n == Cardinality(Picked(cwd))
<1>1. /\ n \in Nat /\ DOMAIN Resolved(cwd) = 1 .. n
      /\ \A k \in 1 .. n : /\ a[k] \in Picked(cwd)
                           /\ Resolved(cwd)[k] = Pick(cwd, a[k])
      /\ \A i \in Picked(cwd) : \E k \in 1 .. n : a[k] = i
  BY ResolvedIs
<1> HIDE DEF a, n
<1>2. ToSet(Resolved(cwd)) = {Resolved(cwd)[k] : k \in 1 .. n}
  BY <1>1 DEF ToSet
<1>3. \A p \in ToSet(Resolved(cwd)) :
          \E i \in Levels(cwd) : Pick(cwd, i) = p /\ p \in vaults
  <2> TAKE p \in ToSet(Resolved(cwd))
  <2>1. PICK k \in 1 .. n : p = Resolved(cwd)[k]
    BY <1>2
  <2>2. a[k] \in Levels(cwd) /\ Pick(cwd, a[k]) = p /\ p # None
    BY <1>1, <2>1 DEF Picked
  <2> QED
    BY <2>2, PickIs
<1>4. ASSUME NEW i \in Levels(cwd), Pick(cwd, i) # None
      PROVE  Pick(cwd, i) \in ToSet(Resolved(cwd))
  <2> DEFINE same == {j \in Levels(cwd) : Pick(cwd, j) = Pick(cwd, i)}
             first == Min(same)
  <2>1. \A j \in Levels(cwd) : j \in Nat /\ j \in 0 .. Len(cwd)
    BY LevelIs DEF Levels
  <2>2. first \in same /\ \A j \in same : first <= j
    BY <2>1, MinIsLeast
  <2> HIDE DEF first
  <2>3. \A j \in 0 .. first - 1 : Pick(cwd, j) # Pick(cwd, first)
    <3> SUFFICES ASSUME NEW j \in 0 .. first - 1,
                        Pick(cwd, j) = Pick(cwd, first)
                 PROVE  FALSE
      OBVIOUS
    <3>1. first \in 0 .. Len(cwd) /\ Len(cwd) \in Nat
      BY <2>1, <2>2, DirIs
    <3>2. j \in Levels(cwd) /\ j < first
      BY <3>1 DEF Levels
    <3>3. j \in same
      BY <2>2, <3>2
    <3> QED
      BY <2>2, <3>1, <3>2, <3>3
  <2>4. first \in Picked(cwd)
    BY <1>4, <2>2, <2>3 DEF Picked
  <2>5. PICK k \in 1 .. n : a[k] = first
    BY <1>1, <2>4
  <2>6. Resolved(cwd)[k] = Pick(cwd, i)
    BY <1>1, <2>2, <2>5
  <2> QED
    BY <1>2, <2>6
<1> QED
  BY <1>3, <1>4
-----------------------------------------------------------------------------
(* The shape of the state                                                  *)

LEMMA ShapeInit == Init => Shape
BY MainsAssumption DEF Init, Shape

LEMMA WithoutShape ==
    ASSUME Shape, NEW d PROVE Without(d) \in [Admin -> [main : Dirs, back : Dirs \cup {Free}]]
BY DEF Shape, Without

LEMMA DuplicateShape ==
    ASSUME Shape, NEW a \in Dirs, NEW b \in Dirs, NEW keep \in BOOLEAN,
           Duplicate(a, b, keep), UNCHANGED off
    PROVE  Shape'
<1>1. \A d \in Below(a) : Join(b, Rel(a, d)) \in Dirs
  BY DEF Duplicate
<1>2. vaults' \subseteq Dirs
  BY <1>1 DEF Duplicate, Shape
<1>3. git' \in [Dirs -> {"none", "checkout", "submodule"} \cup Admin]
  <2> DEFINE of(d) ==
        IF IsPrefix(b, d) /\ Join(a, Rel(b, d)) \in Dirs
        THEN git[Join(a, Rel(b, d))]
        ELSE IF IsPrefix(a, d) /\ ~keep THEN "none" ELSE git[d]
  <2>1. git' = [d \in Dirs |-> of(d)]
    BY DEF Duplicate
  <2>2. \A d \in Dirs : of(d) \in {"none", "checkout", "submodule"} \cup Admin
    BY DEF Shape
  <2> HIDE DEF of
  <2> QED
    BY <2>1, <2>2
<1>4. admin' \in [Admin -> [main : Dirs, back : Dirs \cup {Free}]]
  <2>1. admin' = IF keep THEN admin ELSE Without(a)
    BY DEF Duplicate
  <2> QED
    BY <2>1, WithoutShape DEF Shape
<1> QED
  BY <1>2, <1>3, <1>4 DEF Shape

LEMMA ShapeStep == Shape /\ [Next]_vars => Shape'
<1> SUFFICES ASSUME Shape, [Next]_vars PROVE Shape'
  OBVIOUS
<1>1. ASSUME NEW d \in Dirs,
             PutVault(d) \/ RemoveVault(d) \/ Clone(d) \/ Submodule(d)
      PROVE  Shape'
  BY <1>1 DEF Shape, PutVault, RemoveVault, Clone, Submodule, May
<1>2. ASSUME NEW d \in Dirs, Repair(d) PROVE Shape'
  BY <1>2 DEF Shape, Repair, May
<1>3. ASSUME NEW d \in Dirs, RemoveWorktree(d) PROVE Shape'
  <2>1. git[d] \in Admin
    BY <1>3, MainIs DEF RemoveWorktree
  <2>2. admin' \in [Admin -> [main : Dirs, back : Dirs \cup {Free}]]
    <3> DEFINE w == Without(d)
    <3>1. w \in [Admin -> [main : Dirs, back : Dirs \cup {Free}]]
      BY WithoutShape
    <3>2. admin' = [w EXCEPT ![git[d]].back = Free]
      BY <1>3 DEF RemoveWorktree
    <3> HIDE DEF w
    <3> QED
      BY <2>1, <3>1, <3>2
  <2>3. git' \in [Dirs -> {"none", "checkout", "submodule"} \cup Admin]
    BY <1>3 DEF RemoveWorktree, Shape
  <2> QED
    BY <1>3, <2>2, <2>3 DEF RemoveWorktree, May, Shape
<1>4. ASSUME NEW e \in Admin, Prune(e) PROVE Shape'
  BY <1>4 DEF Shape, Prune, May
<1>5. ASSUME NEW e \in Admin, NEW d \in Dirs, AddWorktree(e, d) PROVE Shape'
  BY <1>5 DEF Shape, AddWorktree, May
<1>6. ASSUME NEW a \in Dirs, NEW b \in Dirs, Copy(a, b) \/ Move(a, b)
      PROVE  Shape'
  BY <1>6, DuplicateShape DEF Copy, Move, May
<1>7. CASE UNCHANGED vars
  BY <1>7 DEF vars, fs, Shape
<1>8. CASE Next
  BY <1>1, <1>2, <1>3, <1>4, <1>5, <1>6, <1>8 DEF Next
<1> QED
  BY <1>7, <1>8

LEMMA ShapeAlways == Spec => []Shape
BY ShapeInit, ShapeStep, PTL DEF Spec

\* Whatever people do to checkouts, git's files keep their shape, and what a
\* directory composes with are vault files that exist.
THEOREM TypeCorrect == Spec => []TypeOK
<1>1. Shape => TypeOK
  BY ResolvedSet DEF Shape, TypeOK
<1> QED
  BY <1>1, ShapeAlways, PTL
-----------------------------------------------------------------------------
(* The order of the vaults                                                 *)

LEMMA ApartIs ==
    ASSUME Shape, NEW cwd \in Dirs, Apart(cwd), WtLevel(cwd) # -1
    PROVE  ~IsPrefix(WtRoot(cwd), WtMain(cwd))
<1>1. WtLevel(cwd) >= 0
  BY RootIs
<1> QED
  BY <1>1 DEF Apart

\* A vault that two levels pick is met as the first one's own only if the
\* worktree has its main checkout inside it.
LEMMA OwnThenBorrowed ==
    ASSUME Shape, NEW cwd \in Dirs, Apart(cwd),
           NEW i \in Levels(cwd), NEW m \in Levels(cwd), i <= m,
           Pick(cwd, i) = Pick(cwd, m), Pick(cwd, m) # None,
           Level(cwd, m) \notin vaults
    PROVE  i = m
<1> DEFINE root == WtRoot(cwd)
           main == WtMain(cwd)
           p == Pick(cwd, i)
           d == Level(cwd, i)
           e == Level(cwd, m)
<1>1. /\ WtLevel(cwd) # -1 /\ IsPrefix(root, e) /\ p = Moved(main, root, e)
      /\ (d \in vaults => p = d)
      /\ (d \notin vaults => IsPrefix(root, d) /\ p = Moved(main, root, d))
  BY PickIs
<1>2. /\ root \in Seq(Names) /\ main \in Seq(Names) /\ d \in Seq(Names)
      /\ e \in Seq(Names) /\ Len(d) = Len(cwd) - i /\ Len(e) = Len(cwd) - m
      /\ i \in Nat /\ m \in Nat /\ Len(cwd) \in Nat
      /\ Len(root) \in Nat /\ Len(main) \in Nat
  BY <1>1, RootIs, LevelIs, DirIs
<1>3. ~IsPrefix(root, main)
  BY <1>1, ApartIs
<1>4. IsPrefix(e, d)
  BY LevelOrder
<1>5. d = e => i = m
  BY LevelsDiffer
<1> HIDE DEF root, main, p, d, e
<1>6. CASE d \notin vaults
  BY <1>1, <1>2, <1>5, <1>6, MovedOrder
<1>7. CASE d \in vaults
  <2>0. d = Moved(main, root, e) /\ IsPrefix(root, e)
    BY <1>1, <1>7
  <2>a. IsPrefix(main, d)
    BY <1>2, <2>0, MovedElements
  <2>b. Len(d) = Len(main) + Len(e) - Len(root)
    BY <1>2, <2>0, MovedElements
  <2>1. Len(d) = Len(main) + Len(e) - Len(root) /\ IsPrefix(main, d)
    BY <2>a, <2>b
  <2>2. IsPrefix(root, d)
    BY <1>1, <1>2, <1>4, PrefixOrder
  <2>3. ~(Len(root) <= Len(main))
    BY <1>2, <1>3, <2>1, <2>2, PrefixOrder
  <2>4. ~(i < m)
    BY <1>2, <2>1, <2>3
  <2> QED
    BY <1>2, <2>4
<1> QED
  BY <1>6, <1>7

\* What a vault stands for is its directory or the highest to borrow it.
LEMMA VaultDirIs ==
    ASSUME Shape, NEW cwd \in Dirs, NEW p
    PROVE  \/ Borrowing(cwd, p) = {} /\ VaultDir(cwd, p) = p
           \/ \E m \in Borrowing(cwd, p) : /\ m \in Levels(cwd)
                                           /\ VaultDir(cwd, p) = Level(cwd, m)
<1> DEFINE B == Borrowing(cwd, p)
<1>1. \A j \in Levels(cwd) : j \in Nat /\ j <= Len(cwd)
  BY LevelIs, DirIs DEF Levels
<1>2. B \subseteq Nat /\ Len(cwd) \in Nat /\ \A j \in B : j <= Len(cwd)
  BY <1>1, DirIs DEF Borrowing
<1>3. B # {} => Max(B) \in B
  BY <1>2, MaxIsGreatest
<1>4. B \subseteq Levels(cwd)
  BY DEF Borrowing
<1>5. B # {} => VaultDir(cwd, p) = Level(cwd, Max(B))
  BY DEF VaultDir
<1>6. B = {} => VaultDir(cwd, p) = p
  BY DEF VaultDir
<1> QED
  BY <1>3, <1>4, <1>5, <1>6

\* A vault stands for the level that adds it.
LEMMA StandsFor ==
    ASSUME Shape, NEW cwd \in Dirs, Apart(cwd), NEW i \in Picked(cwd)
    PROVE  VaultDir(cwd, Pick(cwd, i)) = Level(cwd, i)
<1> DEFINE p == Pick(cwd, i)
           B == Borrowing(cwd, p)
<1>1. /\ i \in Levels(cwd) /\ p # None
      /\ \A j \in 0 .. i - 1 : Pick(cwd, j) # p
  BY DEF Picked
<1>2. CASE B = {}
  <2>1. Level(cwd, i) \in vaults
    BY <1>1, <1>2 DEF Borrowing
  <2>2. p = Level(cwd, i)
    BY <1>1, <2>1, PickIs
  <2> QED
    BY <1>2, <2>2 DEF VaultDir
<1>3. CASE B # {}
  <2>1. PICK m \in B : m \in Levels(cwd) /\ VaultDir(cwd, p) = Level(cwd, m)
    BY <1>3, VaultDirIs
  <2> HIDE DEF B
  <2>2. Pick(cwd, m) = p /\ Level(cwd, m) \notin vaults
    BY DEF B, Borrowing
  <2>3. i \in Nat /\ m \in Nat
    BY <1>1, <2>1, LevelIs
  <2>4. ~(m < i)
    BY <1>1, <2>2, <2>3
  <2>5. i <= m
    BY <2>3, <2>4
  <2>6. i = m
    BY <1>1, <2>1, <2>2, <2>5, OwnThenBorrowed
  <2> QED
    BY <2>1, <2>6
<1> QED
  BY <1>2, <1>3

LEMMA OrderIs == ASSUME Shape PROVE NearestFirst
<1>1. ASSUME Shape, NEW cwd \in Dirs, Apart(cwd),
             NEW k \in DOMAIN Resolved(cwd)
      PROVE  /\ VaultDir(cwd, Resolved(cwd)[k]) =
                    Level(cwd, Ascending(Picked(cwd))[k])
             /\ Ascending(Picked(cwd))[k] \in Levels(cwd)
  <2>1. /\ Ascending(Picked(cwd))[k] \in Picked(cwd)
        /\ Resolved(cwd)[k] = Pick(cwd, Ascending(Picked(cwd))[k])
    BY <1>1, ResolvedIs
  <2> QED
    BY <1>1, <2>1, StandsFor DEF Picked
<1>2. ASSUME Shape, NEW cwd \in Dirs, Apart(cwd),
             NEW k \in DOMAIN Resolved(cwd)
      PROVE  IsPrefix(VaultDir(cwd, Resolved(cwd)[k]), cwd)
  BY <1>1, <1>2, LevelIs
<1>3. ASSUME Shape, NEW cwd \in Dirs, Apart(cwd),
             NEW j \in DOMAIN Resolved(cwd), NEW k \in DOMAIN Resolved(cwd),
             j < k
      PROVE  IsStrictPrefix(VaultDir(cwd, Resolved(cwd)[k]),
                            VaultDir(cwd, Resolved(cwd)[j]))
  <2> DEFINE a == Ascending(Picked(cwd))
  <2>1. a[j] < a[k]
    BY <1>3, ResolvedIs
  <2>2. /\ VaultDir(cwd, Resolved(cwd)[j]) = Level(cwd, a[j])
        /\ VaultDir(cwd, Resolved(cwd)[k]) = Level(cwd, a[k])
        /\ a[j] \in Levels(cwd) /\ a[k] \in Levels(cwd)
    BY <1>1, <1>3
  <2> HIDE DEF a
  <2>3. a[j] \in Nat /\ a[k] \in Nat
    BY <2>2, LevelIs
  <2>4. a[j] <= a[k] /\ a[j] # a[k]
    BY <2>1, <2>3
  <2>5. /\ IsPrefix(Level(cwd, a[k]), Level(cwd, a[j]))
        /\ Level(cwd, a[k]) # Level(cwd, a[j])
    BY <2>2, <2>4, LevelOrder, LevelsDiffer
  <2> QED
    BY <2>2, <2>5 DEF IsStrictPrefix
<1> QED
  BY <1>2, <1>3 DEF NearestFirst

\* In any tree, whatever was added, copied, moved, pruned and repaired: the
\* vaults of a directory are in the order of the directories they stand for.
THEOREM AlwaysNearestFirst == Spec => []NearestFirst
BY OrderIs, ShapeAlways, PTL

\* As a program uses it: one directory per vault, each less deep.
LEMMA DepthsFall ==
    ASSUME Shape, NEW cwd \in Dirs
    PROVE  /\ Resolved(cwd) \in Seq(vaults)
           /\ \A p \in vaults : VaultDir(cwd, p) \in Dirs
           /\ \A j, k \in 1 .. Len(Resolved(cwd)) :
                 Apart(cwd) /\ j < k =>
                     Len(VaultDir(cwd, Resolved(cwd)[k])) <
                         Len(VaultDir(cwd, Resolved(cwd)[j]))
<1> DEFINE s == Resolved(cwd)
           n == Cardinality(Picked(cwd))
<1>1. /\ n \in Nat /\ DOMAIN s = 1 .. n
      /\ \A k \in 1 .. n : s[k] \in vaults
  <2>1. n \in Nat /\ DOMAIN s = 1 .. n
    BY ResolvedIs
  <2>2. \A k \in DOMAIN s : s[k] \in ToSet(s)
    BY DEF ToSet
  <2> QED
    BY <2>1, <2>2, ResolvedSet
<1>2. s = [k \in 1 .. n |-> s[k]]
  <2> HIDE DEF n
  <2>1. s = [k \in DOMAIN Ascending(Picked(cwd)) |->
                Pick(cwd, Ascending(Picked(cwd))[k])]
    BY DEF Resolved
  <2>2. DOMAIN Ascending(Picked(cwd)) = 1 .. n
    BY <1>1, <2>1
  <2> HIDE DEF s
  <2> QED
    BY <2>1, <2>2
<1> HIDE DEF s, n
<1>3. s \in [1 .. n -> vaults]
  BY <1>1, <1>2
<1>4. s \in Seq(vaults) /\ Len(s) = n
  BY <1>1, <1>3, SeqDef
<1>5. \A p \in vaults : VaultDir(cwd, p) \in Dirs
  <2> TAKE p \in vaults
  <2>1. p \in Dirs
    BY DEF Shape
  <2> QED
    BY <2>1, VaultDirIs, LevelIs
<1>6. ASSUME NEW j \in 1 .. Len(s), NEW k \in 1 .. Len(s), Apart(cwd), j < k
      PROVE  Len(VaultDir(cwd, s[k])) < Len(VaultDir(cwd, s[j]))
  <2> DEFINE d == VaultDir(cwd, s[k])
             e == VaultDir(cwd, s[j])
  <2>1. IsPrefix(d, e) /\ d # e
    BY <1>1, <1>4, <1>6, OrderIs DEF NearestFirst, IsStrictPrefix, s
  <2>2. s[j] \in vaults /\ s[k] \in vaults
    BY <1>1, <1>4, <1>6
  <2>3. d \in Dirs /\ e \in Dirs
    BY <1>5, <2>2
  <2> HIDE DEF d, e
  <2>4. /\ d \in Seq(Names) /\ e \in Seq(Names)
        /\ Len(d) \in Nat /\ Len(e) \in Nat
    BY <2>3, DirIs
  <2>5. Len(d) <= Len(e) /\ Len(d) # Len(e)
    BY <2>1, <2>4, PrefixElements, PrefixOrder
  <2>6. Len(d) < Len(e)
    BY <2>4, <2>5
  <2> QED
    BY <2>6 DEF d, e
<1> QED
  BY <1>4, <1>5, <1>6 DEF s
-----------------------------------------------------------------------------
(* What is borrowed                                                        *)

\* No vault from elsewhere without an entry of its checkout that names a
\* directory above, for any history of the checkouts.
THEOREM AlwaysOnlyRegistered == Spec => []OnlyRegistered
<1>1. ASSUME Shape, NEW cwd \in Dirs, NEW p \in ToSet(Resolved(cwd))
      PROVE  \/ IsPrefix(p, cwd)
             \/ \E e \in Admin : /\ ~off /\ admin[e].back # Free
                                 /\ IsPrefix(admin[e].main, p)
                                 /\ IsPrefix(admin[e].back, cwd)
  <2>1. PICK i \in Levels(cwd) : Pick(cwd, i) = p /\ p # None
    BY <1>1, ResolvedSet, NoneAssumption DEF Shape
  <2>2. CASE Level(cwd, i) \in vaults
    BY <1>1, <2>1, <2>2, PickIs, LevelIs
  <2>3. CASE Level(cwd, i) \notin vaults
    <3> DEFINE root == WtRoot(cwd)
               main == WtMain(cwd)
               d == Level(cwd, i)
    <3>1. /\ WtLevel(cwd) # -1 /\ IsPrefix(root, d)
          /\ p = Moved(main, root, d)
      BY <1>1, <2>1, <2>3, PickIs
    <3>2. /\ root \in Dirs /\ IsPrefix(root, cwd) /\ main \in Dirs /\ ~off
      BY <1>1, <3>1, RootIs, WtIs
    <3>3. PICK e \in Admin : admin[e].main = main /\ admin[e].back = root
      BY <1>1, <3>1, RootIs
    <3>4. root \in Seq(Names) /\ main \in Seq(Names) /\ d \in Seq(Names)
      BY <3>2, DirIs, LevelIs
    <3> HIDE DEF root, main, d
    <3>5. IsPrefix(main, p)
      BY <3>1, <3>4, MovedElements
    <3> QED
      BY <3>2, <3>3, <3>5, NoneAssumption
  <2> QED
    BY <2>2, <2>3
<1>2. Shape => OnlyRegistered
  BY <1>1 DEF OnlyRegistered
<1> QED
  BY <1>2, ShapeAlways, PTL
-----------------------------------------------------------------------------
(* The counterpart in the main checkout                                    *)

\* Where a directory in a worktree stands in the main checkout.
LEMMA ThereIs ==
    ASSUME Shape, NEW cwd \in Linked
    PROVE  LET there == Counterpart(cwd, cwd)
               root == WtRoot(cwd)
               main == WtMain(cwd)
           IN  /\ cwd \in Dirs /\ WtLevel(cwd) # -1
               /\ root \in Seq(Names) /\ main \in Seq(Names)
               /\ cwd \in Seq(Names) /\ IsPrefix(root, cwd)
               /\ there \in Dirs /\ there \in Seq(Names)
               /\ there = Moved(main, root, cwd) /\ IsPrefix(main, there)
               /\ Moved(root, main, there) = cwd
<1> DEFINE there == Counterpart(cwd, cwd)
           root == WtRoot(cwd)
           main == WtMain(cwd)
<1>1. cwd \in Dirs /\ WtLevel(cwd) # -1 /\ there \in Dirs
  BY DEF Linked
<1>2. /\ root \in Seq(Names) /\ main \in Seq(Names) /\ cwd \in Seq(Names)
      /\ IsPrefix(root, cwd) /\ there \in Seq(Names)
  BY <1>1, RootIs, DirIs
<1>3. there = Moved(main, root, cwd)
  BY DEF Counterpart, Moved
<1> HIDE DEF there, root, main
<1>4. IsPrefix(main, there)
  BY <1>2, <1>3, MovedElements
<1>5. Moved(root, main, there) = cwd
  BY <1>2, <1>3, MovedBack
<1> QED
  BY <1>1, <1>2, <1>3, <1>4, <1>5 DEF there, root, main

\* Outside worktrees a directory composes with what is above it.
LEMMA OwnOnly ==
    ASSUME Shape, NEW cwd \in Dirs, WtLevel(cwd) = -1,
           NEW i \in Levels(cwd), Pick(cwd, i) # None
    PROVE  Pick(cwd, i) = Level(cwd, i) /\ Level(cwd, i) \in vaults
BY PickIs

\* What stands in the worktree for a directory of the main checkout is, when
\* that is above the counterpart, above cwd, and borrows.
LEMMA BorrowedFrom ==
    ASSUME Shape, NEW cwd \in Linked, NEW p \in vaults,
           IsPrefix(p, Counterpart(cwd, cwd)), IsPrefix(WtMain(cwd), p)
    PROVE  LET q == Moved(WtRoot(cwd), WtMain(cwd), p)
               j == Len(cwd) - Len(q)
           IN  /\ q \in Seq(Names) /\ IsPrefix(q, cwd)
               /\ IsPrefix(WtRoot(cwd), q)
               /\ Len(q) = Len(WtRoot(cwd)) + Len(p) - Len(WtMain(cwd))
               /\ j \in Levels(cwd) /\ Level(cwd, j) = q /\ j <= WtLevel(cwd)
               /\ Moved(WtMain(cwd), WtRoot(cwd), q) = p
               /\ q \notin vaults => Pick(cwd, j) = p
<1> DEFINE there == Counterpart(cwd, cwd)
           root == WtRoot(cwd)
           main == WtMain(cwd)
           q == Moved(root, main, p)
           j == Len(cwd) - Len(q)
<1>1. /\ cwd \in Dirs /\ WtLevel(cwd) # -1
      /\ root \in Seq(Names) /\ main \in Seq(Names)
      /\ cwd \in Seq(Names) /\ IsPrefix(root, cwd)
      /\ there \in Seq(Names) /\ IsPrefix(main, there)
      /\ Moved(root, main, there) = cwd
  BY ThereIs
<1>2. p \in Seq(Names) /\ IsPrefix(p, there) /\ IsPrefix(main, p)
  BY DirIs DEF Shape
<1> HIDE DEF there, root, main
<1>3. q \in Seq(Names)
  BY <1>1, <1>2, MovedElements
<1>4. IsPrefix(root, q)
  BY <1>1, <1>2, MovedElements
<1>5. Len(q) = Len(root) + Len(p) - Len(main)
  BY <1>1, <1>2, MovedElements
<1>6. IsPrefix(q, cwd)
  BY <1>1, <1>2, MovedOrder
<1>7. Moved(main, root, q) = p
  BY <1>1, <1>2, MovedBack
<1> HIDE DEF q
<1>8. j \in Levels(cwd) /\ Level(cwd, j) = q
  BY <1>1, <1>3, <1>6, LevelOf
<1> HIDE DEF j
<1>9. j <= WtLevel(cwd)
  BY <1>1, <1>4, <1>8, InWorktree DEF root
<1>10. q \notin vaults => Pick(cwd, j) = p
  BY <1>1, <1>7, <1>8, <1>9, PickIs DEF root, main
<1> QED
  BY <1>3, <1>4, <1>5, <1>6, <1>7, <1>8, <1>9, <1>10
     DEF q, j, root, main, there

LEMMA ParentIs ==
    ASSUME NEW d \in Dirs, NEW p \in Seq(Names), IsPrefix(p, d), p # d
    PROVE  d # <<>> /\ IsPrefix(p, Front(d))
<1>1. /\ d \in Seq(Names) /\ Len(d) \in Nat /\ Len(p) \in Nat
      /\ Len(p) <= Len(d) /\ Len(p) # Len(d)
  BY DirIs, LenProperties, PrefixElements, PrefixOrder
<1>2. 1 \in Levels(d) /\ Front(d) = Level(d, 1) /\ d # <<>>
  BY <1>1 DEF Levels, Level, Front
<1>3. /\ Front(d) \in Seq(Names) /\ Len(Front(d)) = Len(d) - 1
      /\ IsPrefix(Front(d), d)
  BY <1>2, LevelIs
<1>4. Len(p) <= Len(Front(d))
  BY <1>1, <1>3
<1> QED
  BY <1>1, <1>2, <1>3, <1>4, PrefixOrder

\* A worktree loses no vault of the main checkout silently, wherever the two
\* are: each is found, replaced by the worktree's own, or warned about.
THEOREM AlwaysNothingMissed == Spec => []NothingMissed
<1>1. ASSUME Shape, NEW cwd \in Linked,
             WtLevel(Counterpart(cwd, cwd)) = -1,
             NEW p \in ToSet(Resolved(Counterpart(cwd, cwd)))
      PROVE  \/ p \in ToSet(Resolved(cwd)) \cup Unreachable(cwd)
             \/ /\ IsPrefix(WtMain(cwd), p)
                /\ Join(WtRoot(cwd), Rel(WtMain(cwd), p)) \in vaults
  <2> DEFINE there == Counterpart(cwd, cwd)
             root == WtRoot(cwd)
             main == WtMain(cwd)
  <2>1. /\ cwd \in Dirs /\ WtLevel(cwd) # -1 /\ there \in Dirs
        /\ main \in Seq(Names) /\ there \in Seq(Names)
        /\ IsPrefix(main, there)
    BY <1>1, ThereIs
  <2>2. main \in Dirs
    BY <1>1, <2>1, RootIs
  <2>3. PICK i \in Levels(there) : Pick(there, i) = p /\ p # None
    BY <1>1, <2>1, ResolvedSet, NoneAssumption DEF Shape
  <2>4. p = Level(there, i) /\ p \in vaults
    BY <1>1, <2>1, <2>3, OwnOnly
  <2>5. p \in Seq(Names) /\ IsPrefix(p, there)
    BY <2>1, <2>4, LevelIs
  <2>6. CASE IsPrefix(main, p)
    <3> DEFINE q == Moved(root, main, p)
    <3>1. PICK j \in Levels(cwd) : q \notin vaults => Pick(cwd, j) = p
      BY <1>1, <2>4, <2>5, <2>6, BorrowedFrom
    <3>2. q = Join(WtRoot(cwd), Rel(WtMain(cwd), p))
      BY DEF Moved
    <3> HIDE DEF q
    <3>3. q \notin vaults => p \in ToSet(Resolved(cwd))
      BY <1>1, <2>1, <2>3, <3>1, ResolvedSet
    <3> QED
      BY <2>6, <3>2, <3>3
  <2>7. CASE ~IsPrefix(main, p)
    <3>1. ~(Len(main) <= Len(p))
      BY <2>1, <2>5, <2>7, PrefixOrder
    <3>2. Len(main) \in Nat /\ Len(p) \in Nat
      BY <2>1, <2>5, LenProperties
    <3>3. Len(p) <= Len(main)
      BY <3>1, <3>2
    <3>4. IsPrefix(p, main) /\ p # main
      BY <2>1, <2>5, <2>7, <3>3, PrefixOrder
    <3>5. main # <<>> /\ IsPrefix(p, Front(main))
      BY <2>2, <2>5, <3>4, ParentIs
    <3>6. p \in Unreachable(cwd) \/ p \in ToSet(Resolved(cwd))
      BY <2>1, <2>4, <3>5 DEF Unreachable
    <3> QED
      BY <3>6
  <2> QED
    BY <2>6, <2>7
<1>2. Shape => NothingMissed
  BY <1>1 DEF NothingMissed
<1> QED
  BY <1>2, ShapeAlways, PTL
-----------------------------------------------------------------------------
(* Precedence                                                              *)

\* A vault of the main checkout that a worktree has no other for is found in
\* place of the directory that stands for it.
LEMMA FoundThere ==
    ASSUME Shape, NEW cwd \in Linked, Apart(cwd), NEW x \in Picked(cwd),
           IsPrefix(Pick(cwd, x), Counterpart(cwd, cwd)),
           IsPrefix(WtMain(cwd), Pick(cwd, x)), Unshadowed(cwd, Pick(cwd, x))
    PROVE  x = Len(cwd) - (Len(WtRoot(cwd)) + Len(Pick(cwd, x))
                           - Len(WtMain(cwd)))
<1> DEFINE p == Pick(cwd, x)
           q == Moved(WtRoot(cwd), WtMain(cwd), p)
           j == Len(cwd) - Len(q)
<1>1. /\ x \in Levels(cwd) /\ p # None /\ cwd \in Dirs
      /\ \A y \in 0 .. x - 1 : Pick(cwd, y) # p
  BY ThereIs DEF Picked
<1>2. p \in vaults
  BY <1>1, PickIs
<1>3. q \notin vaults
  BY DEF Unshadowed, Moved
<1>4. /\ Len(q) = Len(WtRoot(cwd)) + Len(p) - Len(WtMain(cwd))
      /\ j \in Levels(cwd) /\ Level(cwd, j) = q /\ Pick(cwd, j) = p
  BY <1>2, <1>3, BorrowedFrom
<1> HIDE DEF p, q, j
<1>5. x \in Nat /\ j \in Nat
  BY <1>1, <1>4, LevelIs
<1>6. ~(j < x)
  BY <1>1, <1>4, <1>5
<1>7. x = j
  BY <1>1, <1>3, <1>4, <1>5, <1>6, OwnThenBorrowed DEF p
<1> QED
  BY <1>4, <1>7 DEF p, j

\* Of two such vaults the one further down is found first.
LEMMA NearerThere ==
    ASSUME Shape, NEW cwd \in Linked, Apart(cwd),
           NEW x \in Picked(cwd), NEW y \in Picked(cwd),
           IsPrefix(Pick(cwd, x), Counterpart(cwd, cwd)),
           IsPrefix(Pick(cwd, y), Counterpart(cwd, cwd)),
           Len(Pick(cwd, y)) < Len(Pick(cwd, x)),
           Unshadowed(cwd, Pick(cwd, x)), Unshadowed(cwd, Pick(cwd, y))
    PROVE  x < y
<1> DEFINE there == Counterpart(cwd, cwd)
           root == WtRoot(cwd)
           main == WtMain(cwd)
           p == Pick(cwd, x)
           q == Pick(cwd, y)
<1>1. /\ cwd \in Dirs /\ WtLevel(cwd) # -1
      /\ root \in Seq(Names) /\ main \in Seq(Names) /\ there \in Seq(Names)
      /\ IsPrefix(main, there)
  BY ThereIs
<1>2. /\ x \in Levels(cwd) /\ y \in Levels(cwd) /\ p # None /\ q # None
  BY DEF Picked
<1>3. x \in Nat /\ y \in Nat /\ Len(cwd) \in Nat
  BY <1>1, <1>2, LevelIs, DirIs
<1>4. p \in vaults /\ q \in vaults
  BY <1>1, <1>2, PickIs
<1>5. p \in Seq(Names) /\ q \in Seq(Names)
  BY <1>4, DirIs DEF Shape
<1>6. /\ Len(p) \in Nat /\ Len(q) \in Nat /\ Len(main) \in Nat
      /\ Len(root) \in Nat
  BY <1>1, <1>5, LenProperties
<1>7. ~IsPrefix(root, main)
  BY <1>1, ApartIs
<1>8. IsPrefix(p, there) /\ IsPrefix(q, there) /\ Len(q) < Len(p)
  OBVIOUS
<1>9. ASSUME NEW z \in Levels(cwd), Pick(cwd, z) # None,
             Level(cwd, z) \notin vaults
      PROVE  z <= WtLevel(cwd) /\ IsPrefix(main, Pick(cwd, z))
  <2>1. /\ z <= WtLevel(cwd) /\ IsPrefix(root, Level(cwd, z))
        /\ Pick(cwd, z) = Moved(main, root, Level(cwd, z))
    BY <1>1, <1>9, PickIs
  <2>2. Level(cwd, z) \in Seq(Names)
    BY <1>1, LevelIs
  <2> HIDE DEF main, root
  <2> QED
    BY <1>1, <2>1, <2>2, MovedElements
<1>10. CASE IsPrefix(main, q)
  <2>1. Len(main) <= Len(q)
    BY <1>1, <1>5, <1>10, PrefixElements
  <2>2. IsPrefix(main, p)
    BY <1>1, <1>5, <1>6, <1>8, <2>1, PrefixOrder
  <2>3. x = Len(cwd) - (Len(root) + Len(p) - Len(main))
    BY <2>2, FoundThere
  <2>4. y = Len(cwd) - (Len(root) + Len(q) - Len(main))
    BY <1>10, FoundThere
  <2> HIDE DEF root, main, p, q
  <2> QED
    BY <1>3, <1>6, <1>8, <2>3, <2>4
<1>11. CASE ~IsPrefix(main, q)
  <2>1. Level(cwd, y) \in vaults
    BY <1>2, <1>9, <1>11
  <2>2. q = Level(cwd, y)
    BY <1>1, <1>2, <2>1, PickIs
  <2>3. IsPrefix(q, main)
    <3> HIDE DEF q, main, there
    <3>1. ~(Len(main) <= Len(q))
      BY <1>1, <1>5, <1>8, <1>11, PrefixOrder
    <3>2. Len(q) <= Len(main)
      BY <1>6, <3>1
    <3> QED
      BY <1>1, <1>5, <1>8, <3>2, PrefixOrder
  <2>4. ~IsPrefix(root, q)
    <3> HIDE DEF q, main, root
    <3> QED
      BY <1>1, <1>5, <1>7, <2>3, PrefixOrder
  <2>5. ~(y <= WtLevel(cwd)) /\ WtLevel(cwd) \in Nat
    BY <1>1, <1>2, <2>2, <2>4, InWorktree, RootIs
  <2>6. CASE Level(cwd, x) \notin vaults
    <3>1. x <= WtLevel(cwd)
      BY <1>2, <1>9, <2>6
    <3> QED
      BY <1>3, <2>5, <3>1
  <2>7. CASE Level(cwd, x) \in vaults
    <3>1. p = Level(cwd, x)
      BY <1>1, <1>2, <2>7, PickIs
    <3>2. Len(p) = Len(cwd) - x /\ Len(q) = Len(cwd) - y
      BY <1>1, <1>2, <2>2, <3>1, LevelIs
    <3> HIDE DEF p, q
    <3> QED
      BY <1>3, <1>8, <3>2
  <2> QED
    BY <2>6, <2>7
<1> QED
  BY <1>10, <1>11

\* Being in a worktree never turns around which of two of the main
\* checkout's vaults wins.
THEOREM AlwaysSamePrecedence == Spec => []SamePrecedence
<1>1. ASSUME Shape, NEW cwd \in Linked, Apart(cwd),
             WtLevel(Counterpart(cwd, cwd)) = -1,
             NEW i \in DOMAIN Resolved(cwd), NEW j \in DOMAIN Resolved(cwd),
             NEW k \in DOMAIN Resolved(Counterpart(cwd, cwd)),
             NEW l \in DOMAIN Resolved(Counterpart(cwd, cwd)),
             Resolved(cwd)[i] = Resolved(Counterpart(cwd, cwd))[k],
             Resolved(cwd)[j] = Resolved(Counterpart(cwd, cwd))[l],
             Unshadowed(cwd, Resolved(cwd)[i]),
             Unshadowed(cwd, Resolved(cwd)[j]),
             k < l
      PROVE  i < j
  <2> DEFINE there == Counterpart(cwd, cwd)
             a == Ascending(Picked(cwd))
             b == Ascending(Picked(there))
  <2>1. cwd \in Dirs /\ there \in Dirs
    BY <1>1, ThereIs
  <2>2. /\ a[i] \in Picked(cwd) /\ Resolved(cwd)[i] = Pick(cwd, a[i])
        /\ a[j] \in Picked(cwd) /\ Resolved(cwd)[j] = Pick(cwd, a[j])
        /\ j < i => a[j] < a[i]
        /\ i \in Nat /\ j \in Nat
    BY <1>1, <2>1, ResolvedIs
  <2>3. /\ b[k] \in Picked(there) /\ Resolved(there)[k] = Pick(there, b[k])
        /\ b[l] \in Picked(there) /\ Resolved(there)[l] = Pick(there, b[l])
        /\ b[k] < b[l]
    BY <1>1, <2>1, ResolvedIs
  <2> HIDE DEF a, b
  <2>4. /\ b[k] \in Levels(there) /\ Pick(there, b[k]) = Level(there, b[k])
        /\ b[l] \in Levels(there) /\ Pick(there, b[l]) = Level(there, b[l])
    BY <1>1, <2>1, <2>3, OwnOnly DEF Picked
  <2>5. /\ IsPrefix(Level(there, b[k]), there)
        /\ Len(Level(there, b[k])) = Len(there) - b[k] /\ b[k] \in Nat
    BY <2>1, <2>4, LevelIs
  <2>6. /\ IsPrefix(Level(there, b[l]), there)
        /\ Len(Level(there, b[l])) = Len(there) - b[l] /\ b[l] \in Nat
    BY <2>1, <2>4, LevelIs
  <2>7. Len(there) \in Nat
    BY <2>1, DirIs
  <2>8. Len(Level(there, b[l])) < Len(Level(there, b[k]))
    BY <2>3, <2>5, <2>6, <2>7
  <2>9. /\ Pick(cwd, a[i]) = Level(there, b[k])
        /\ Pick(cwd, a[j]) = Level(there, b[l])
    BY <1>1, <2>2, <2>3, <2>4
  <2>10. a[i] < a[j]
    BY <1>1, <2>2, <2>5, <2>6, <2>8, <2>9, NearerThere
  <2>11. a[i] \in Nat /\ a[j] \in Nat
    BY <2>1, <2>2, LevelIs DEF Picked
  <2>12. i # j
    BY <2>10, <2>11
  <2> QED
    BY <2>2, <2>10, <2>11, <2>12
<1>2. ASSUME Shape, NEW cwd \in Dirs,
             NEW i \in DOMAIN Resolved(cwd), NEW j \in DOMAIN Resolved(cwd),
             Resolved(cwd)[i] = Resolved(cwd)[j], i < j
      PROVE  FALSE
  <2> DEFINE a == Ascending(Picked(cwd))
  <2>1. /\ a[i] \in Picked(cwd) /\ Resolved(cwd)[i] = Pick(cwd, a[i])
        /\ a[j] \in Picked(cwd) /\ Resolved(cwd)[j] = Pick(cwd, a[j])
        /\ a[i] < a[j]
    BY <1>2, ResolvedIs
  <2> HIDE DEF a
  <2>2. a[i] \in Nat /\ a[j] \in Nat
    BY <2>1, LevelIs DEF Picked
  <2>3. a[i] \in 0 .. a[j] - 1
    BY <2>1, <2>2
  <2> QED
    BY <1>2, <2>1, <2>3 DEF Picked
<1>3. ASSUME Shape, NEW cwd \in Linked, Apart(cwd),
             WtLevel(Counterpart(cwd, cwd)) = -1,
             NEW i \in DOMAIN Resolved(cwd), NEW j \in DOMAIN Resolved(cwd),
             NEW k \in DOMAIN Resolved(Counterpart(cwd, cwd)),
             NEW l \in DOMAIN Resolved(Counterpart(cwd, cwd)),
             Resolved(cwd)[i] = Resolved(Counterpart(cwd, cwd))[k],
             Resolved(cwd)[j] = Resolved(Counterpart(cwd, cwd))[l],
             Unshadowed(cwd, Resolved(cwd)[i]),
             Unshadowed(cwd, Resolved(cwd)[j])
      PROVE  i < j <=> k < l
  <2>1. cwd \in Dirs /\ Counterpart(cwd, cwd) \in Dirs
    BY <1>3, ThereIs
  <2>2. i \in Nat /\ j \in Nat /\ k \in Nat /\ l \in Nat
    BY <1>3, <2>1, ResolvedIs
  <2>3. k < l => i < j
    BY <1>1, <1>3
  <2>4. l < k => j < i
    BY <1>1, <1>3
  <2>5. k = l => ~(i < j)
    BY <1>2, <1>3, <2>1
  <2> QED
    BY <2>2, <2>3, <2>4, <2>5
<1>4. Shape => SamePrecedence
  BY <1>3 DEF SamePrecedence
<1> QED
  BY <1>4, ShapeAlways, PTL
-----------------------------------------------------------------------------
(* What schain worktree reports                                            *)

\* Where a worktree has no other checkout in it, all of it is that worktree.
LEMMA WholeIs ==
    ASSUME Shape, NEW cwd \in Dirs, WtLevel(cwd) # -1, Whole(WtRoot(cwd)),
           NEW d \in Below(WtRoot(cwd))
    PROVE  /\ WtLevel(d) # -1 /\ WtLevel(d) \in Nat
           /\ WtRoot(d) = WtRoot(cwd) /\ WtMain(d) = WtMain(cwd)
<1> DEFINE root == WtRoot(cwd)
           j == Len(d) - Len(root)
<1>1. /\ root \in Dirs /\ MainOf(root) # None /\ ~off
      /\ MainOf(root) = WtMain(cwd)
  BY RootIs, WtIs
<1>2. d \in Dirs /\ IsPrefix(root, d) /\ root \in Seq(Names)
  BY <1>1, DirIs DEF Below
<1>3. Whole(root)
  OBVIOUS
<1> HIDE DEF root
<1>4. j \in Levels(d) /\ Level(d, j) = root
  BY <1>2, LevelOf
<1> HIDE DEF j
<1>5. j \in Nat
  BY <1>2, <1>4, LevelIs
<1>6. j \in WtLevels(d)
  BY <1>1, <1>4 DEF WtLevels
<1>7. WtLevels(d) \subseteq Nat
  BY <1>2, LevelIs DEF WtLevels
<1>8. WtLevel(d) = Min(WtLevels(d)) /\ NearestLevel(d) = WtLevel(d)
  BY <1>1, <1>6 DEF WtLevel, NearestLevel
<1>9. /\ WtLevel(d) \in WtLevels(d) /\ WtLevel(d) \in Nat
      /\ WtLevel(d) <= j
  BY <1>6, <1>7, <1>8, MinIsLeast
<1>10. ~(WtLevel(d) < j)
  <2> SUFFICES ASSUME WtLevel(d) < j PROVE FALSE
    OBVIOUS
  <2> DEFINE i == WtLevel(d)
             e == Level(d, i)
  <2>1. i \in Levels(d) /\ MainOf(e) # None /\ i <= j /\ i # j
    BY <1>5, <1>9 DEF WtLevels
  <2> HIDE DEF i
  <2>2. IsPrefix(root, e) /\ e # root /\ e \in Dirs
    BY <1>2, <1>4, <2>1, LevelOrder, LevelsDiffer, LevelIs
  <2>3. git[e] = "none"
    BY <1>3, <2>2 DEF Whole, Below
  <2>4. git[e] \in Admin
    BY <2>1, <2>2, MainIs
  <2> QED
    BY <2>3, <2>4, AdminAssumption
<1>11. WtLevel(d) = j
  BY <1>5, <1>9, <1>10
<1>12. WtRoot(d) = root /\ WtMain(d) = WtMain(cwd)
  BY <1>1, <1>4, <1>8, <1>11 DEF WtRoot, WtMain
<1> QED
  BY <1>5, <1>11, <1>12 DEF root

\* There a directory borrows if it has no vault and the one it stands for has.
LEMMA BorrowsIs ==
    ASSUME Shape, NEW cwd \in Dirs, WtLevel(cwd) # -1, Whole(WtRoot(cwd)),
           NEW d \in Below(WtRoot(cwd))
    PROVE  Pick(d, 0) \notin {None, d} <=>
               /\ d \notin vaults
               /\ Moved(WtMain(cwd), WtRoot(cwd), d) \in vaults
<1>1. /\ WtLevel(d) # -1 /\ WtLevel(d) \in Nat
      /\ WtRoot(d) = WtRoot(cwd) /\ WtMain(d) = WtMain(cwd)
  BY WholeIs
<1>2. d \in Dirs /\ d \in Seq(Names) /\ Len(d) \in Nat
  BY DirIs DEF Below
<1>3. 0 \in Levels(d) /\ Level(d, 0) = d
  <2>1. IsPrefix(d, d) /\ Len(d) - Len(d) = 0
    BY <1>2, PrefixOrder
  <2> QED
    BY <1>2, <2>1, LevelOf
<1>4. Counterpart(d, d) = Moved(WtMain(cwd), WtRoot(cwd), d)
  BY <1>1 DEF Counterpart, Moved
<1>5. 0 <= WtLevel(d)
  BY <1>1
<1>6. None \notin vaults
  BY NoneAssumption DEF Shape
<1> DEFINE q == Moved(WtMain(cwd), WtRoot(cwd), d)
<1>7. Pick(d, 0) = IF d \in vaults THEN d
                   ELSE IF q \in vaults THEN q ELSE None
  BY <1>3, <1>4, <1>5 DEF Pick
<1> HIDE DEF q
<1>8. Pick(d, 0) \notin {None, d} <=> d \notin vaults /\ q \in vaults
  BY <1>6, <1>7
<1> QED
  BY <1>8 DEF q

\* `schain worktree`, walking down, and resolveVaults, walking up, agree on
\* what a worktree borrows, in any tree, as long as borrowing is not switched
\* off: resolveVaults heeds the switch and the report does not.
THEOREM AlwaysReportTrue == Spec => []ReportTrue
<1>1. ASSUME Shape, ~off, NEW cwd \in Dirs, NearestLevel(cwd) >= 0,
             Whole(WtRoot(cwd)), WholeThere(cwd)
      PROVE  Reported(cwd) \cap Dirs =
                 {d \in Below(WtRoot(cwd)) : Pick(d, 0) \notin {None, d}}
  <2> DEFINE root == WtRoot(cwd)
             main == WtMain(cwd)
             rels(r) == {Rel(r, d) : d \in WalkSkipping(r)}
  <2>1. WtLevel(cwd) # -1 /\ NearestLevel(cwd) # -1
    BY <1>1 DEF WtLevel
  <2>2. root \in Dirs /\ main \in Dirs
    BY <1>1, <2>1, RootIs
  <2>3. root \in Seq(Names) /\ main \in Seq(Names)
    BY <2>2, DirIs
  <2>4. Reported(cwd) = {Join(root, r) : r \in rels(main) \ rels(root)}
    BY <2>1 DEF Reported
  <2>5. \A d \in Below(root) : Pick(d, 0) \notin {None, d} <=>
            d \notin vaults /\ Moved(main, root, d) \in vaults
    BY <1>1, <2>1, BorrowsIs
  <2>6. Whole(root)
    BY <1>1
  <2>7. \A d \in Below(root) \ {root} :
            Moved(main, root, d) \in Dirs =>
                git[Moved(main, root, d)] = "none"
    BY <1>1 DEF WholeThere, Counterpart, Moved
  <2> HIDE DEF root, main
  <2>8. ASSUME NEW d \in Below(root) \cap vaults PROVE Rel(root, d) \in rels(root)
    <3>1. d \in WalkSkipping(root)
      BY <2>6, <2>8 DEF WalkSkipping, Whole
    <3> QED
      BY <3>1
  <2>9. ASSUME NEW x \in Reported(cwd) \cap Dirs
        PROVE  /\ x \in Below(root)
               /\ x \notin vaults /\ Moved(main, root, x) \in vaults
    <3>1. PICK r \in rels(main) : x = Join(root, r) /\ r \notin rels(root)
      BY <2>4, <2>9
    <3>2. PICK e \in WalkSkipping(main) : r = Rel(main, e)
      BY <3>1
    <3>3. e \in vaults /\ e \in Dirs /\ IsPrefix(main, e)
      BY <3>2 DEF WalkSkipping, Below
    <3>4. e \in Seq(Names)
      BY <3>3, DirIs
    <3>5. x = Moved(root, main, e)
      BY <3>1, <3>2 DEF Moved
    <3>6. IsPrefix(root, x)
      BY <2>3, <3>3, <3>4, <3>5, MovedElements
    <3>7. Rel(root, x) = r
      BY <2>3, <3>2, <3>3, <3>4, <3>5, MovedElements
    <3>8. Moved(main, root, x) = e
      BY <2>3, <3>3, <3>4, <3>5, MovedBack
    <3>9. x \in Below(root)
      BY <2>9, <3>6 DEF Below
    <3>10. x \notin vaults
      BY <2>8, <3>1, <3>7, <3>9
    <3> QED
      BY <3>3, <3>8, <3>9, <3>10
  <2>10. ASSUME NEW d \in Below(root), d \notin vaults,
                Moved(main, root, d) \in vaults
         PROVE  d \in Reported(cwd) \cap Dirs
    <3> DEFINE e == Moved(main, root, d)
               r == Rel(root, d)
    <3>1. d \in Dirs /\ IsPrefix(root, d) /\ d \in Seq(Names)
      BY DirIs DEF Below
    <3>2. e \in vaults /\ e \in Dirs
      BY <1>1, <2>10 DEF Shape
    <3>3. IsPrefix(main, e)
      BY <2>3, <3>1, MovedElements
    <3>4. Rel(main, e) = r
      BY <2>3, <3>1, MovedElements
    <3>5. Moved(root, main, e) = d
      BY <2>3, <3>1, MovedBack
    <3>6. Join(root, r) = d
      <4>1. Moved(root, root, d) = d
        BY <2>3, <3>1, MovedBack
      <4> QED
        BY <4>1 DEF Moved
    <3> HIDE DEF e, r
    <3>7. e \in Seq(Names)
      BY <3>2, DirIs
    <3>8. ASSUME NEW f \in Below(main) \ {main}, IsPrefix(f, e)
          PROVE  git[f] = "none"
      <4> DEFINE g == Moved(root, main, f)
      <4>1. f \in Dirs /\ f \in Seq(Names) /\ IsPrefix(main, f) /\ f # main
        BY DirIs DEF Below
      <4>2. g \in Seq(Names)
        BY <2>3, <4>1, MovedElements
      <4>3. IsPrefix(root, g)
        BY <2>3, <4>1, MovedElements
      <4>4. IsPrefix(g, d)
        BY <2>3, <3>3, <3>5, <3>7, <3>8, <4>1, MovedOrder
      <4>5. Moved(main, root, g) = f
        BY <2>3, <4>1, MovedBack
      <4>6. g # root
        <5>1. Len(g) = Len(root) + Len(f) - Len(main)
          BY <2>3, <4>1, MovedElements
        <5>2. Len(f) # Len(main)
          BY <2>3, <4>1, PrefixOrder
        <5>3. Len(f) \in Nat /\ Len(main) \in Nat /\ Len(root) \in Nat
          BY <2>3, <4>1, LenProperties
        <5> HIDE DEF g
        <5> QED
          BY <5>1, <5>2, <5>3
      <4> HIDE DEF g
      <4>7. g \in Dirs
        BY <3>1, <4>2, <4>4, LevelOf
      <4>8. g \in Below(root) \ {root}
        BY <4>3, <4>6, <4>7 DEF Below
      <4> QED
        BY <2>7, <4>1, <4>5, <4>8
    <3>9. e \in WalkSkipping(main)
      BY <3>2, <3>3, <3>8 DEF WalkSkipping, Below
    <3>10. r \in rels(main)
      BY <3>4, <3>9
    <3>11. r \notin rels(root)
      <4> SUFFICES ASSUME r \in rels(root) PROVE FALSE
        OBVIOUS
      <4>1. PICK c \in WalkSkipping(root) : r = Rel(root, c)
        OBVIOUS
      <4>2. c \in vaults /\ IsPrefix(root, c) /\ c \in Seq(Names)
        BY <4>1, DirIs DEF WalkSkipping, Below
      <4>3. Moved(root, root, c) = c
        BY <2>3, <4>2, MovedBack
      <4>4. c = d
        BY <3>6, <4>1, <4>3 DEF Moved
      <4> QED
        BY <2>10, <4>2, <4>4
    <3> QED
      BY <2>4, <3>1, <3>6, <3>10, <3>11
  <2> HIDE DEF rels
  <2>11. {d \in Below(root) : Pick(d, 0) \notin {None, d}} =
             {d \in Below(root) : d \notin vaults
                                  /\ Moved(main, root, d) \in vaults}
    BY <2>5
  <2>12. Reported(cwd) \cap Dirs =
             {d \in Below(root) : d \notin vaults
                                  /\ Moved(main, root, d) \in vaults}
    BY <2>9, <2>10
  <2> QED
    BY <2>11, <2>12 DEF root
<1>2. Shape => ReportTrue
  BY <1>1 DEF ReportTrue, ReportIsUsed
<1> QED
  BY <1>2, ShapeAlways, PTL
=============================================================================
