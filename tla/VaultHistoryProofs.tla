------------------------- MODULE VaultHistoryProofs -------------------------
(***************************************************************************)
(* In the first part, what ExpandScan guarantees of any value, and so of   *)
(* those VaultHistory calls Expandable; in the second, what VaultHistory   *)
(* guarantees for any keys, values and settings, and any sequence of       *)
(* commands.  Neither part depends on the other.                           *)
(***************************************************************************)
EXTENDS VaultHistory, ExpandScan, SequenceTheorems, WellFoundedInduction,
        TLAPS

-----------------------------------------------------------------------------
(* First part: values with references                                      *)
-----------------------------------------------------------------------------
(* Numbers                                                                 *)

Lower == {z \in Nat \X Nat : z[1] < z[2]}

\* Smaller than is well founded on the numbers.
LEMMA LowerWellFounded == IsWellFoundedOn(Lower, Nat)
BY NatLessThanWellFounded DEF Lower, OpToRel

\* A nonempty set of numbers has a least element, and Min is it.
LEMMA MinIsLeast ==
    ASSUME NEW S, S \subseteq Nat, S # {}
    PROVE  Min(S) \in S /\ \A y \in S : Min(S) <= y
<1>1. PICK x \in S : \A y \in S : ~(<<y, x>> \in Lower)
  BY LowerWellFounded, WFMin
<1>2. ASSUME NEW y \in S PROVE x <= y
  <2>1. x \in Nat /\ y \in Nat
    OBVIOUS
  <2>2. <<y, x>> \in Nat \X Nat /\ <<y, x>>[1] = y /\ <<y, x>>[2] = x
    BY <2>1
  <2>3. y < x => <<y, x>> \in Lower
    BY <2>2, SMT DEF Lower
  <2> QED
    BY <1>1, <2>1, <2>3
<1> QED
  BY <1>2 DEF Min

\* Induction from n down to 1, over the set of numbers that have what is to
\* be proved.
LEMMA Downwards ==
    ASSUME NEW n \in Nat, NEW S,
           \A i \in 1 .. n : (\A j \in i + 1 .. n : j \in S) => i \in S
    PROVE  \A i \in 1 .. n : i \in S
<1> SUFFICES ASSUME NEW m \in 1 .. n, m \notin S PROVE FALSE
  OBVIOUS
<1> DEFINE T == {n - i : i \in {j \in 1 .. n : j \notin S}}
<1>1. T \subseteq Nat /\ n - m \in T
  OBVIOUS
<1>2. Min(T) \in T /\ \A y \in T : Min(T) <= y
  BY <1>1, MinIsLeast
<1>3. PICK i \in 1 .. n : i \notin S /\ Min(T) = n - i
  BY <1>2
<1>4. ASSUME NEW j \in i + 1 .. n, j \notin S PROVE FALSE
  <2>1. n - j \in T
    BY <1>4
  <2>2. n - i <= n - j
    BY <1>2, <1>3, <2>1
  <2> QED
    BY <2>2
<1> QED
  BY <1>3, <1>4
-----------------------------------------------------------------------------
(* The three recursions are well defined                                   *)

ScanBody(v, f, i) ==
    IF i > Len(v) THEN <<>>
    ELSE IF ~Opening(v, i) THEN f[i + 1]
    ELSE IF Closings(v, i) = {} THEN <<>>
    ELSE LET j == Min(Closings(v, i))
         IN  <<[start |-> i, end |-> j]>> \o f[j + 1]

\* The first closing brace.
LEMMA ClosingIs ==
    ASSUME NEW S, NEW v \in Seq(S), NEW i \in 1 .. Len(v), Closings(v, i) # {}
    PROVE  LET j == Min(Closings(v, i))
           IN  /\ j \in i + 2 .. Len(v) /\ v[j] = "}"
               /\ \A c \in Closings(v, i) : j <= c
<1>1. Closings(v, i) \subseteq Nat
  <2>1. i \in Nat /\ Len(v) \in Nat
    BY LenProperties
  <2>2. i + 2 .. Len(v) \subseteq Nat
    BY <2>1
  <2> QED
    BY <2>2 DEF Closings
<1>2. /\ Min(Closings(v, i)) \in Closings(v, i)
      /\ \A c \in Closings(v, i) : Min(Closings(v, i)) <= c
  BY <1>1, MinIsLeast
<1> QED
  BY <1>2 DEF Closings

\* There is a function as Scan describes it, and Scan gives its value at 1.
LEMMA ScanDefined ==
    ASSUME NEW S, NEW v \in Seq(S)
    PROVE  \E f : /\ f = [i \in 1 .. Len(v) + 1 |-> ScanBody(v, f, i)]
                  /\ Scan(v) = f[1]
<1> DEFINE n == Len(v) + 1
           R(f, k) == f = [i \in k .. n |-> ScanBody(v, f, i)]
           D == {k \in 1 .. n : \E f : R(f, k)}
<1>1. n \in Nat /\ Len(v) \in Nat /\ 1 \in 1 .. n
  BY LenProperties
<1>2. ASSUME NEW k \in 1 .. n, \A j \in k + 1 .. n : j \in D
      PROVE  k \in D
  <2>1. PICK g : k < n => R(g, k + 1)
    BY <1>1, <1>2
  <2> DEFINE h == [i \in k .. n |-> IF i = k THEN ScanBody(v, g, k) ELSE g[i]]
  <2>2. \A i \in k + 1 .. n : h[i] = g[i]
    BY <1>1
  <2>3. ASSUME NEW i \in k .. n PROVE ScanBody(v, h, i) = ScanBody(v, g, i)
    <3>1. CASE i > Len(v)
      BY <3>1 DEF ScanBody
    <3>2. CASE i <= Len(v) /\ ~Opening(v, i)
      <4>1. i + 1 \in k + 1 .. n
        BY <1>1, <3>2
      <4> HIDE DEF h
      <4> QED
        BY <2>2, <3>2, <4>1 DEF ScanBody
    <3>3. CASE i <= Len(v) /\ Opening(v, i) /\ Closings(v, i) # {}
      <4>0. i \in 1 .. Len(v)
        BY <1>1, <3>3
      <4> DEFINE j == Min(Closings(v, i))
      <4>j. j \in i + 2 .. Len(v)
        BY <3>3, <4>0, ClosingIs
      <4>1. j + 1 \in k + 1 .. n
        <5> HIDE DEF j
        <5> QED
          BY <1>1, <4>j
      <4> HIDE DEF h
      <4> QED
        BY <2>2, <3>3, <4>1 DEF ScanBody
    <3>4. CASE i <= Len(v) /\ Opening(v, i) /\ Closings(v, i) = {}
      BY <3>4 DEF ScanBody
    <3> QED
      BY <1>1, <3>1, <3>2, <3>3, <3>4
  <2>4. ASSUME NEW i \in k .. n PROVE h[i] = ScanBody(v, g, i)
    <3>1. CASE i = k
      BY <3>1
    <3>2. CASE i # k
      <4>1. i \in k + 1 .. n /\ k < n
        BY <1>1, <3>2
      <4>2. g = [x \in k + 1 .. n |-> ScanBody(v, g, x)]
        BY <2>1, <4>1
      <4>3. g[i] = ScanBody(v, g, i)
        BY <4>1, <4>2
      <4> QED
        BY <2>2, <4>1, <4>3
    <3> QED
      BY <3>1, <3>2
  <2>5. h = [i \in k .. n |-> h[i]]
    OBVIOUS
  <2>6. R(h, k)
    <3> HIDE DEF h
    <3> QED
      BY <2>3, <2>4, <2>5
  <2> QED
    BY <2>6
<1>3. 1 \in D
  <2> HIDE DEF D, n
  <2> QED
    BY <1>1, <1>2, Downwards
<1>4. \E f : R(f, 1)
  BY <1>3
<1> DEFINE f == CHOOSE g : R(g, 1)
<1>5. R(f, 1)
  BY <1>4, Zenon
<1>6. Scan(v) = f[1]
  BY DEF Scan, ScanBody
<1> QED
  BY <1>5, <1>6

\* The positions where a reference begins, and the first of them.
LEMMA BegunIs ==
    ASSUME NEW S, NEW v \in Seq(S), NEW p \in Nat \ {0}
    PROVE  /\ Begun(v, p) \subseteq p .. Len(v)
           /\ \A i \in Begun(v, p) : /\ i \in 1 .. Len(v) /\ p <= i
                                     /\ Opening(v, i) /\ Closings(v, i) # {}
           /\ Begun(v, p) # {} =>
                  /\ Min(Begun(v, p)) \in Begun(v, p)
                  /\ \A h \in Begun(v, p) : Min(Begun(v, p)) <= h
<1>1. Len(v) \in Nat /\ p \in Nat /\ p .. Len(v) \subseteq Nat
  BY LenProperties
<1>2. Begun(v, p) \subseteq p .. Len(v)
  BY DEF Begun
<1>3. ASSUME NEW i \in Begun(v, p)
      PROVE  /\ i \in 1 .. Len(v) /\ p <= i
             /\ Opening(v, i) /\ Closings(v, i) # {}
  BY <1>1 DEF Begun
<1>4. Begun(v, p) # {} =>
          /\ Min(Begun(v, p)) \in Begun(v, p)
          /\ \A h \in Begun(v, p) : Min(Begun(v, p)) <= h
  <2>1. Begun(v, p) \subseteq Nat
    BY <1>1, <1>2
  <2> QED
    BY <2>1, MinIsLeast
<1> QED
  BY <1>2, <1>3, <1>4

MeaningBody(v, f, p) ==
    LET i == Min(Begun(v, p))
        j == Min(Closings(v, i))
        name == SubSeq(v, i + 2, j - 1)
        got == IF \E n \in Names : name = <<n>>
               THEN text[name[1]] ELSE SubSeq(v, i, j)
    IN  IF Begun(v, p) = {} THEN SubSeq(v, p, Len(v))
        ELSE IF got = <<>> \/ f[j + 1] = Failed THEN Failed
        ELSE SubSeq(v, p, i - 1) \o got \o f[j + 1]

\* The same for Meaning.
LEMMA MeaningDefined ==
    ASSUME NEW S, NEW v \in Seq(S)
    PROVE  \E f : /\ f = [p \in 1 .. Len(v) + 1 |-> MeaningBody(v, f, p)]
                  /\ Meaning(v) = f[1]
<1> DEFINE n == Len(v) + 1
           R(f, k) == f = [i \in k .. n |-> MeaningBody(v, f, i)]
           D == {k \in 1 .. n : \E f : R(f, k)}
<1>1. n \in Nat /\ Len(v) \in Nat /\ 1 \in 1 .. n
  BY LenProperties
<1>2. ASSUME NEW k \in 1 .. n, \A j \in k + 1 .. n : j \in D
      PROVE  k \in D
  <2>1. PICK g : k < n => R(g, k + 1)
    BY <1>1, <1>2
  <2> DEFINE h == [i \in k .. n |->
                      IF i = k THEN MeaningBody(v, g, k) ELSE g[i]]
  <2>2. \A i \in k + 1 .. n : h[i] = g[i]
    BY <1>1
  <2>3. ASSUME NEW p \in k .. n
        PROVE  MeaningBody(v, h, p) = MeaningBody(v, g, p)
    <3>1. CASE Begun(v, p) = {}
      BY <3>1 DEF MeaningBody
    <3>2. CASE Begun(v, p) # {}
      <4> DEFINE i == Min(Begun(v, p))
                 j == Min(Closings(v, i))
      <4>1. i \in 1 .. Len(v) /\ p <= i /\ Closings(v, i) # {}
        <5>1. p \in Nat \ {0}
          BY <1>1
        <5> QED
          BY <3>2, <5>1, BegunIs
      <4>2. j \in i + 2 .. Len(v)
        <5> HIDE DEF i
        <5> QED
          BY <4>1, ClosingIs
      <4>3. j + 1 \in k + 1 .. n
        <5> HIDE DEF i, j
        <5> QED
          BY <1>1, <4>1, <4>2
      <4>4. h[j + 1] = g[j + 1]
        BY <2>2, <4>3
      <4> HIDE DEF h
      <4> QED
        BY <4>4, Zenon DEF MeaningBody
    <3> QED
      BY <3>1, <3>2
  <2>4. ASSUME NEW i \in k .. n PROVE h[i] = MeaningBody(v, g, i)
    <3>1. CASE i = k
      BY <3>1
    <3>2. CASE i # k
      <4>1. i \in k + 1 .. n /\ k < n
        BY <1>1, <3>2
      <4>2. g = [x \in k + 1 .. n |-> MeaningBody(v, g, x)]
        BY <2>1, <4>1
      <4>3. g[i] = MeaningBody(v, g, i)
        BY <4>1, <4>2
      <4> QED
        BY <2>2, <4>1, <4>3
    <3> QED
      BY <3>1, <3>2
  <2>5. h = [i \in k .. n |-> h[i]]
    OBVIOUS
  <2>6. R(h, k)
    <3> HIDE DEF h
    <3> QED
      BY <2>3, <2>4, <2>5
  <2> QED
    BY <2>6
<1>3. 1 \in D
  <2> HIDE DEF D, n
  <2> QED
    BY <1>1, <1>2, Downwards
<1>4. \E f : R(f, 1)
  BY <1>3
<1> DEFINE f == CHOOSE g : R(g, 1)
<1>5. R(f, 1)
  BY <1>4, Zenon
<1>6. Meaning(v) = f[1]
  BY DEF Meaning, MeaningBody
<1> QED
  BY <1>5, <1>6

UptoBody(v, refs, f, k) ==
    IF k = 0 THEN [out |-> <<>>, last |-> 0]
    ELSE IF ~Known(Name(v, refs[k])) THEN f[k - 1]
    ELSE Written(v, f[k - 1], refs[k])

\* Expand ends with what was written up to the last reference.
LEMMA ExpandDefined ==
    ASSUME NEW v, Len(Scan(v)) \in Nat
    PROVE  LET refs == Scan(v)
               N == Len(refs)
           IN  \E f :
                 /\ f = [k \in 0 .. N |-> UptoBody(v, refs, f, k)]
                 /\ Expand(v) =
                      IF \E k \in DOMAIN refs : /\ Known(Name(v, refs[k]))
                                                /\ Got(v, refs[k]) = <<>>
                      THEN Failed
                      ELSE f[N].out \o SubSeq(v, f[N].last + 1, Len(v))
<1> DEFINE refs == Scan(v)
           N == Len(refs)
           R(f, m) == f = [k \in 0 .. m |-> UptoBody(v, refs, f, k)]
           n == N + 1
           D == {k \in 1 .. n : \E f : R(f, n - k)}
<1>1. N \in Nat /\ n \in Nat /\ 1 \in 1 .. n
  OBVIOUS
<1>2. ASSUME NEW k \in 1 .. n, \A j \in k + 1 .. n : j \in D
      PROVE  k \in D
  <2> DEFINE m == n - k
  <2>0. m \in Nat
    BY <1>1
  <2>1. PICK g : m # 0 => R(g, m - 1)
    <3>1. CASE m # 0
      <4>1. k + 1 \in k + 1 .. n /\ n - (k + 1) = m - 1
        BY <1>1, <3>1
      <4>2. k + 1 \in D
        BY <1>2, <4>1
      <4>3. \E g : R(g, n - (k + 1))
        BY <4>2
      <4> QED
        BY <4>1, <4>3
    <3> QED
      BY <3>1
  <2> HIDE DEF m
  <2> DEFINE h == [i \in 0 .. m |->
                      IF i = m THEN UptoBody(v, refs, g, m) ELSE g[i]]
  <2>2. \A i \in 0 .. m - 1 : h[i] = g[i]
    BY <2>0
  <2>3. ASSUME NEW i \in 0 .. m
        PROVE  UptoBody(v, refs, h, i) = UptoBody(v, refs, g, i)
    <3>1. CASE i = 0
      BY <3>1 DEF UptoBody
    <3>2. CASE i # 0
      <4>1. h[i - 1] = g[i - 1]
        BY <2>0, <2>2, <3>2
      <4> HIDE DEF h
      <4> QED
        BY <4>1, Zenon DEF UptoBody
    <3> QED
      BY <3>1, <3>2
  <2>4. ASSUME NEW i \in 0 .. m PROVE h[i] = UptoBody(v, refs, g, i)
    <3>1. CASE i = m
      BY <2>0, <3>1
    <3>2. CASE i # m
      <4>1. i \in 0 .. m - 1 /\ m # 0
        BY <2>0, <3>2
      <4>2. g = [x \in 0 .. m - 1 |-> UptoBody(v, refs, g, x)]
        BY <2>1, <4>1
      <4>3. g[i] = UptoBody(v, refs, g, i)
        BY <4>1, <4>2
      <4> QED
        BY <2>2, <4>1, <4>3
    <3> QED
      BY <3>1, <3>2
  <2>5. h = [i \in 0 .. m |-> h[i]]
    OBVIOUS
  <2>6. R(h, m)
    <3> HIDE DEF h
    <3> QED
      BY <2>3, <2>4, <2>5
  <2> QED
    BY <2>6 DEF m
<1>3. 1 \in D
  <2> HIDE DEF D, n
  <2> QED
    BY <1>1, <1>2, Downwards
<1>4. \E f : R(f, N)
  <2>1. n - 1 = N
    BY <1>1
  <2> QED
    BY <1>3, <2>1
<1> DEFINE f == CHOOSE g : R(g, N)
<1>5. R(f, N)
  BY <1>4, Zenon
<1>6. Expand(v) = IF \E k \in DOMAIN refs : /\ Known(Name(v, refs[k]))
                                            /\ Got(v, refs[k]) = <<>>
                  THEN Failed
                  ELSE f[N].out \o SubSeq(v, f[N].last + 1, Len(v))
  BY DEF Expand, UptoBody
<1> QED
  BY <1>5, <1>6
-----------------------------------------------------------------------------
(* What is scanned                                                         *)

Ref == [start : Nat, end : Nat]

\* Where the scan is after k references, having begun at p.
After(s, p, k) == IF k = 0 THEN p ELSE s[k].end + 1

\* s lists the references from p on, each the first there is after the one
\* before.
Chained(v, p, s) ==
    /\ s \in Seq(Ref)
    /\ \A k \in 1 .. Len(s) :
          LET q == After(s, p, k - 1)
          IN  /\ Begun(v, q) # {}
              /\ s[k] = [start |-> Min(Begun(v, q)),
                         end |-> Min(Closings(v, Min(Begun(v, q))))]
    /\ Begun(v, After(s, p, Len(s))) = {}

\* A position where no reference begins can be taken in.
LEMMA ChainedOn ==
    ASSUME NEW v, NEW p \in Nat, NEW s, Chained(v, p + 1, s),
           Begun(v, p) = Begun(v, p + 1)
    PROVE  Chained(v, p, s)
<1>1. s \in Seq(Ref) /\ Len(s) \in Nat
  BY LenProperties DEF Chained
<1>2. ASSUME NEW k \in Nat
      PROVE  Begun(v, After(s, p, k)) = Begun(v, After(s, p + 1, k))
  BY DEF After
<1>3. ASSUME NEW k \in 1 .. Len(s)
      PROVE  LET q == After(s, p, k - 1)
             IN  /\ Begun(v, q) # {}
                 /\ s[k] = [start |-> Min(Begun(v, q)),
                            end |-> Min(Closings(v, Min(Begun(v, q))))]
  <2>1. k - 1 \in Nat
    BY <1>1
  <2>2. Begun(v, After(s, p, k - 1)) = Begun(v, After(s, p + 1, k - 1))
    BY <1>2, <2>1
  <2> QED
    BY <2>2, Zenon DEF Chained
<1>4. Begun(v, After(s, p, Len(s))) = {}
  BY <1>1, <1>2 DEF Chained
<1> QED
  BY <1>1, <1>3, <1>4 DEF Chained

\* So can the first reference from a position on.
LEMMA ChainedFrom ==
    ASSUME NEW v, NEW p \in Nat, NEW s, NEW r \in Ref,
           Begun(v, p) # {},
           r = [start |-> Min(Begun(v, p)),
                end |-> Min(Closings(v, Min(Begun(v, p))))],
           Chained(v, r.end + 1, s)
    PROVE  Chained(v, p, <<r>> \o s)
<1> DEFINE t == <<r>> \o s
           q == r.end + 1
<1>1. s \in Seq(Ref) /\ Len(s) \in Nat /\ q \in Nat
  BY LenProperties DEF Chained, Ref
<1>2. /\ t \in Seq(Ref) /\ Len(t) = Len(s) + 1 /\ t[1] = r
      /\ \A k \in 1 .. Len(s) : t[k + 1] = s[k]
  <2>1. <<r>> \in Seq(Ref) /\ Len(<<r>>) = 1 /\ <<r>>[1] = r
    OBVIOUS
  <2> QED
    BY <1>1, <2>1, ConcatProperties
<1> HIDE DEF t
<1>3. ASSUME NEW k \in 0 .. Len(s)
      PROVE  After(t, p, k + 1) = After(s, q, k)
  <2>1. CASE k = 0
    BY <1>2, <2>1 DEF After
  <2>2. CASE k # 0
    <3>1. t[k + 1] = s[k] /\ k + 1 # 0
      BY <1>1, <1>2, <2>2
    <3> QED
      BY <2>2, <3>1 DEF After
  <2> QED
    BY <2>1, <2>2
<1>4. ASSUME NEW k \in 1 .. Len(t)
      PROVE  LET a == After(t, p, k - 1)
             IN  /\ Begun(v, a) # {}
                 /\ t[k] = [start |-> Min(Begun(v, a)),
                            end |-> Min(Closings(v, Min(Begun(v, a))))]
  <2>1. CASE k = 1
    <3>1. After(t, p, k - 1) = p
      BY <2>1 DEF After
    <3> QED
      BY <1>2, <2>1, <3>1, Zenon
  <2>2. CASE k # 1
    <3>1. k - 1 \in 1 .. Len(s) /\ k - 2 \in 0 .. Len(s)
          /\ (k - 2) + 1 = k - 1 /\ (k - 1) + 1 = k /\ (k - 1) - 1 = k - 2
      BY <1>1, <1>2, <2>2
    <3>2. After(t, p, k - 1) = After(s, q, (k - 1) - 1)
      BY <1>3, <3>1
    <3>3. t[k] = s[k - 1]
      BY <1>2, <3>1
    <3> HIDE DEF q
    <3>4. Chained(v, q, s)
      BY DEF q
    <3> QED
      BY <3>1, <3>2, <3>3, <3>4, Zenon DEF Chained
  <2> QED
    BY <2>1, <2>2
<1>5. Begun(v, After(t, p, Len(t))) = {}
  <2>1. After(t, p, Len(t)) = After(s, q, Len(s))
    BY <1>1, <1>2, <1>3
  <2> QED
    BY <2>1 DEF Chained
<1> QED
  BY <1>2, <1>4, <1>5 DEF Chained, t

\* Scan lists the references from the start.
LEMMA ScanChained ==
    ASSUME NEW S, NEW v \in Seq(S)
    PROVE  Chained(v, 1, Scan(v))
<1> DEFINE n == Len(v) + 1
<1>1. n \in Nat /\ Len(v) \in Nat /\ 1 \in 1 .. n
  BY LenProperties
<1>2. PICK f : /\ f = [i \in 1 .. n |-> ScanBody(v, f, i)]
               /\ Scan(v) = f[1]
  BY ScanDefined
<1>3. ASSUME NEW i \in 1 .. n
      PROVE  /\ i > Len(v) => f[i] = <<>>
             /\ i <= Len(v) /\ ~Opening(v, i) => f[i] = f[i + 1]
             /\ i <= Len(v) /\ Opening(v, i) /\ Closings(v, i) = {}
                   => f[i] = <<>>
             /\ i <= Len(v) /\ Opening(v, i) /\ Closings(v, i) # {}
                   => LET j == Min(Closings(v, i))
                      IN  f[i] = <<[start |-> i, end |-> j]>> \o f[j + 1]
  <2>1. f[i] = ScanBody(v, f, i)
    BY <1>2, Zenon
  <2>2. i <= Len(v) <=> ~(i > Len(v))
    BY <1>1
  <2> QED
    BY <2>1, <2>2, Zenon DEF ScanBody
<1> DEFINE D == {i \in 1 .. n : Chained(v, i, f[i])}
<1>4. ASSUME NEW i \in 1 .. n, \A j \in i + 1 .. n : j \in D
      PROVE  i \in D
  <2>1. i \in Nat \ {0} /\ i <= Len(v) + 1
    BY <1>1
  <2>2. CASE Begun(v, i) = {}
    <3>1. CASE f[i] = <<>>
      <4>1. Chained(v, i, <<>>)
        BY <2>2, EmptySeq DEF Chained, After
      <4> QED
        BY <3>1, <4>1
    <3>2. CASE f[i] # <<>>
      <4>1. i <= Len(v) /\ ~Opening(v, i) /\ f[i] = f[i + 1]
        <5>1. i <= Len(v)
          <6>1. ~(i > Len(v))
            BY <1>3, <3>2, Zenon
          <6> HIDE DEF D
          <6> QED
            BY <1>1, <6>1
        <5>2. i \in i .. Len(v)
          BY <1>1, <5>1
        <5>3. Opening(v, i) => Closings(v, i) = {}
          BY <2>2, <5>2, Zenon DEF Begun
        <5> QED
          BY <1>3, <3>2, <5>1, <5>3, Zenon
      <4>2. i + 1 \in D
        BY <1>1, <1>4, <4>1
      <4>3. Begun(v, i) = Begun(v, i + 1)
        BY <1>1, <2>2 DEF Begun
      <4> QED
        BY <2>1, <4>1, <4>2, <4>3, ChainedOn
    <3> QED
      BY <3>1, <3>2
  <2>3. CASE Begun(v, i) # {}
    <3>1. PICK b \in Begun(v, i) : TRUE
      BY <2>3
    <3>2. b \in i .. Len(v) /\ Opening(v, b) /\ Closings(v, b) # {}
      BY DEF Begun
    <3>3. i <= Len(v) /\ i \in 1 .. Len(v)
      BY <1>1, <3>2
    <3>4. CASE ~Opening(v, i)
      <4>1. f[i] = f[i + 1]
        BY <1>3, <3>3, <3>4, Zenon
      <4>2. i + 1 \in D
        BY <1>1, <1>4, <3>3
      <4>3. Begun(v, i) = Begun(v, i + 1)
        BY <1>1, <3>4 DEF Begun
      <4> QED
        BY <2>1, <4>1, <4>2, <4>3, ChainedOn
    <3>5. CASE Opening(v, i)
      <4>1. Closings(v, i) # {}
        <5>1. Closings(v, b) \subseteq Closings(v, i)
          <6> SUFFICES ASSUME NEW c \in b + 2 .. Len(v)
                       PROVE  c \in i + 2 .. Len(v)
            BY DEF Closings
          <6> QED
            BY <1>1, <3>2
        <5> QED
          BY <3>2, <5>1
      <4>2. i \in Begun(v, i)
        BY <1>1, <3>3, <3>5, <4>1 DEF Begun
      <4>3. Min(Begun(v, i)) = i
        <5>1. /\ Min(Begun(v, i)) \in Begun(v, i) /\ Min(Begun(v, i)) <= i
          BY <2>1, <4>2, BegunIs
        <5>2. Min(Begun(v, i)) \in i .. Len(v)
          BY <2>1, <5>1, BegunIs
        <5> QED
          BY <1>1, <5>1, <5>2
      <4> DEFINE j == Min(Closings(v, i))
                 r == [start |-> i, end |-> j]
      <4>4. j \in i + 2 .. Len(v)
        BY <3>3, <4>1, ClosingIs
      <4>5. f[i] = <<r>> \o f[j + 1]
        BY <1>3, <3>3, <3>5, <4>1, Zenon
      <4> HIDE DEF j
      <4>6. j + 1 \in D
        BY <1>1, <1>4, <4>4
      <4>7. r \in Ref /\ r.end = j
        BY <1>1, <4>4 DEF Ref
      <4>8. r = [start |-> Min(Begun(v, i)),
                 end |-> Min(Closings(v, Min(Begun(v, i))))]
        BY <4>3 DEF j
      <4>9. Chained(v, r.end + 1, f[j + 1])
        BY <4>6, <4>7
      <4> HIDE DEF r
      <4> QED
        BY <2>1, <2>3, <4>5, <4>7, <4>8, <4>9, ChainedFrom
    <3> QED
      BY <3>4, <3>5
  <2> QED
    BY <2>2, <2>3
<1>5. 1 \in D
  <2> HIDE DEF D, n
  <2> QED
    BY <1>1, <1>4, Downwards
<1> QED
  BY <1>2, <1>5

\* The references of a value: each is the first there is after the one before
\* it, and none is left after the last.
LEMMA ScanIs ==
    ASSUME NEW S, NEW v \in Seq(S)
    PROVE  LET s == Scan(v)
           IN  /\ s \in Seq(Ref) /\ Len(s) \in Nat /\ DOMAIN s = 1 .. Len(s)
               /\ \A k \in 0 .. Len(s) : After(s, 1, k) \in 1 .. Len(v) + 1
               /\ \A k \in 1 .. Len(s) :
                    LET q == After(s, 1, k - 1)
                        i == s[k].start
                        j == s[k].end
                    IN  /\ s[k] \in Ref
                        /\ i = Min(Begun(v, q)) /\ i \in Begun(v, q)
                        /\ \A h \in Begun(v, q) : i <= h
                        /\ j = Min(Closings(v, i)) /\ j \in i + 2 .. Len(v)
                        /\ Opening(v, i) /\ v[j] = "}"
                        /\ \A c \in Closings(v, i) : j <= c
                        /\ i \in q .. Len(v)
               /\ Begun(v, After(s, 1, Len(s))) = {}
<1> DEFINE s == Scan(v)
<1>1. Chained(v, 1, s)
  BY ScanChained
<1>2. s \in Seq(Ref) /\ Len(s) \in Nat /\ DOMAIN s = 1 .. Len(s)
  BY <1>1, LenProperties DEF Chained
<1>3. Len(v) \in Nat
  BY LenProperties
<1> HIDE DEF s
<1>4. ASSUME NEW k \in 1 .. Len(s), After(s, 1, k - 1) \in Nat \ {0}
      PROVE  LET q == After(s, 1, k - 1)
                 i == s[k].start
                 j == s[k].end
             IN  /\ s[k] \in Ref
                 /\ i = Min(Begun(v, q)) /\ i \in Begun(v, q)
                 /\ \A h \in Begun(v, q) : i <= h
                 /\ j = Min(Closings(v, i)) /\ j \in i + 2 .. Len(v)
                 /\ Opening(v, i) /\ v[j] = "}"
                 /\ \A c \in Closings(v, i) : j <= c
                 /\ i \in q .. Len(v)
  <2> DEFINE q == After(s, 1, k - 1)
             i == s[k].start
             j == s[k].end
  <2>1. s[k] \in Ref
    BY <1>2, ElementOfSeq
  <2>2. /\ Begun(v, q) # {}
        /\ i = Min(Begun(v, q)) /\ j = Min(Closings(v, Min(Begun(v, q))))
    <3>1. /\ Begun(v, q) # {}
          /\ s[k] = [start |-> Min(Begun(v, q)),
                     end |-> Min(Closings(v, Min(Begun(v, q))))]
      BY <1>1, Zenon DEF Chained
    <3> HIDE DEF q
    <3> QED
      BY <3>1
  <2>3. q \in Nat \ {0}
    BY <1>4
  <2> HIDE DEF q, i, j
  <2>4. /\ i \in Begun(v, q) /\ \A h \in Begun(v, q) : i <= h
        /\ i \in q .. Len(v) /\ i \in 1 .. Len(v)
        /\ Opening(v, i) /\ Closings(v, i) # {}
    BY <2>2, <2>3, BegunIs
  <2>5. /\ j \in i + 2 .. Len(v) /\ v[j] = "}"
        /\ \A c \in Closings(v, i) : j <= c
    BY <2>2, <2>4, ClosingIs
  <2> QED
    BY <2>1, <2>2, <2>4, <2>5 DEF q, i, j
<1>5. ASSUME NEW k \in 1 .. Len(s) PROVE After(s, 1, k - 1) \in Nat \ {0}
  <2>1. CASE k = 1
    BY <2>1 DEF After
  <2>2. CASE k # 1
    <3>1. k - 1 \in 1 .. Len(s) /\ k - 1 # 0
      BY <1>2, <2>2
    <3>2. s[k - 1] \in Ref
      BY <1>2, <3>1, ElementOfSeq
    <3>3. s[k - 1].end \in Nat
      BY <3>2 DEF Ref
    <3> QED
      BY <3>1, <3>3 DEF After
  <2> QED
    BY <2>1, <2>2
<1>6. ASSUME NEW k \in 0 .. Len(s) PROVE After(s, 1, k) \in 1 .. Len(v) + 1
  <2>1. CASE k = 0
    BY <1>3, <2>1 DEF After
  <2>2. CASE k # 0
    <3>1. k \in 1 .. Len(s)
      BY <1>2, <2>2
    <3> DEFINE q == After(s, 1, k - 1)
               i == s[k].start
               j == s[k].end
    <3>2. q \in Nat \ {0} /\ i \in q .. Len(v) /\ j \in i + 2 .. Len(v)
      BY <1>4, <1>5, <3>1
    <3>3. After(s, 1, k) = j + 1
      BY <2>2 DEF After
    <3> HIDE DEF q, i, j
    <3> QED
      BY <1>3, <3>2, <3>3
  <2> QED
    BY <2>1, <2>2
<1>7. Begun(v, After(s, 1, Len(s))) = {}
  BY <1>1 DEF Chained
<1> QED
  BY <1>2, <1>4, <1>5, <1>6, <1>7 DEF s
-----------------------------------------------------------------------------
(* What a value means, reference by reference                              *)

\* Induction from 0 up to n.
LEMMA Upwards ==
    ASSUME NEW n \in Nat, NEW S, 0 \in S,
           \A k \in 0 .. n - 1 : k \in S => k + 1 \in S
    PROVE  \A k \in 0 .. n : k \in S
<1> SUFFICES ASSUME NEW m \in 0 .. n, m \notin S PROVE FALSE
  OBVIOUS
<1> DEFINE T == {j \in 0 .. n : j \notin S}
<1>1. T \subseteq Nat /\ m \in T
  OBVIOUS
<1>2. Min(T) \in T /\ \A y \in T : Min(T) <= y
  BY <1>1, MinIsLeast
<1> DEFINE a == Min(T)
<1> HIDE DEF a
<1>3. a \in 0 .. n /\ a \notin S /\ \A y \in T : a <= y
  BY <1>2 DEF a
<1>4. a # 0 /\ a - 1 \in 0 .. n - 1 /\ (a - 1) + 1 = a
  BY <1>3
<1>5. a - 1 \notin S
  BY <1>3, <1>4
<1>6. a - 1 \in T
  BY <1>4, <1>5
<1> QED
  BY <1>3, <1>6

\* A failed expansion is not mistaken for a value.
LEMMA FailedApart == Failed \notin Seq(Symbols)
<1> SUFFICES ASSUME Failed \in Seq(Symbols) PROVE FALSE
  OBVIOUS
<1>1. Len(Failed) = 1
  BY DEF Failed
<1>2. Failed[1] \in Symbols
  BY <1>1, ElementOfSeq
<1> QED
  BY <1>2, SymbolsAssumption

\* What is put in the place of a reference.
Stands(v, ref) ==
    IF Known(Name(v, ref)) THEN Got(v, ref) ELSE SubSeq(v, ref.start, ref.end)

\* A part of a value.
LEMMA PartOf ==
    ASSUME NEW S, NEW v \in Seq(S), NEW a \in 1 .. Len(v) + 1,
           NEW b \in a - 1 .. Len(v)
    PROVE  LET w == SubSeq(v, a, b)
           IN  /\ w \in Seq(S) /\ Len(w) = b - a + 1
               /\ \A k \in 1 .. b - a + 1 : w[k] = v[a + k - 1]
<1>1. Len(v) \in Nat /\ a \in Int /\ b \in Int
  BY LenProperties
<1>2. \A k \in a .. b : v[k] \in S
  <2> SUFFICES ASSUME NEW k \in a .. b PROVE v[k] \in S
    OBVIOUS
  <2>1. k \in 1 .. Len(v)
    BY <1>1
  <2> QED
    BY <2>1, ElementOfSeq
<1> QED
  BY <1>1, <1>2, SubSeqProperties

\* What stands for a reference is a text if its name is known, and otherwise
\* the reference as written, which is never empty.
LEMMA StandsIs ==
    ASSUME NEW v \in Seq(Symbols), text \in [Names -> Seq(Symbols)],
           NEW ref \in Ref, ref.start \in 1 .. Len(v),
           ref.end \in ref.start + 2 .. Len(v)
    PROVE  /\ Name(v, ref) \in Seq(Symbols)
           /\ Stands(v, ref) \in Seq(Symbols)
           /\ Known(Name(v, ref)) => \E n \in Names : /\ Name(v, ref) = <<n>>
                                                      /\ Got(v, ref) = text[n]
           /\ ~Known(Name(v, ref)) => Stands(v, ref) # <<>>
           /\ Known(Name(v, ref)) <=> \E n \in Names : Name(v, ref) = <<n>>
<1> DEFINE i == ref.start
           j == ref.end
<1>1. Len(v) \in Nat /\ i \in 1 .. Len(v) /\ j \in i + 2 .. Len(v)
  BY LenProperties
<1> HIDE DEF i, j
<1>2. Name(v, ref) \in Seq(Symbols)
  <2>1. i + 2 \in 1 .. Len(v) + 1 /\ j - 1 \in (i + 2) - 1 .. Len(v)
    BY <1>1
  <2>2. SubSeq(v, i + 2, j - 1) \in Seq(Symbols)
    BY <2>1, PartOf
  <2> QED
    BY <2>2 DEF Name, i, j
<1>3. /\ SubSeq(v, i, j) \in Seq(Symbols)
      /\ Len(SubSeq(v, i, j)) = j - i + 1
  <2>1. i \in 1 .. Len(v) + 1 /\ j \in i - 1 .. Len(v)
    BY <1>1
  <2> QED
    BY <2>1, PartOf
<1>4. SubSeq(v, i, j) # <<>>
  <2>1. j - i + 1 # 0
    BY <1>1
  <2> QED
    BY <1>3, <2>1, EmptySeq
<1>5. ASSUME Known(Name(v, ref))
      PROVE  \E n \in Names : Name(v, ref) = <<n>> /\ Got(v, ref) = text[n]
  <2> DEFINE w == Name(v, ref)
  <2>1. w \in Seq(Symbols) /\ Len(w) = 1 /\ w[1] \in Names
    BY <1>2, <1>5 DEF Known
  <2>2. Got(v, ref) = text[w[1]]
    BY DEF Got
  <2> HIDE DEF w
  <2>3. w = <<w[1]>>
    BY <2>1
  <2> QED
    BY <2>1, <2>2, <2>3 DEF w
<1>6. ASSUME NEW n \in Names, Name(v, ref) = <<n>>
      PROVE  Known(Name(v, ref))
  BY <1>6 DEF Known
<1>7. Stands(v, ref) \in Seq(Symbols)
  BY <1>3, <1>5 DEF Stands, i, j
<1> QED
  BY <1>2, <1>4, <1>5, <1>6, <1>7 DEF Stands, i, j

\* The meaning from where the scan is after each reference.
LEMMA MeaningAt ==
    ASSUME NEW v \in Seq(Symbols), text \in [Names -> Seq(Symbols)]
    PROVE  LET s == Scan(v)
               N == Len(s)
           IN  \E f :
                 /\ Meaning(v) = f[1]
                 /\ f[After(s, 1, N)] = SubSeq(v, After(s, 1, N), Len(v))
                 /\ \A k \in 1 .. N :
                      LET q == After(s, 1, k - 1)
                          got == Stands(v, s[k])
                          rest == f[s[k].end + 1]
                      IN  f[q] = IF got = <<>> \/ rest = Failed THEN Failed
                                 ELSE SubSeq(v, q, s[k].start - 1) \o got
                                                                   \o rest
<1> DEFINE s == Scan(v)
           N == Len(s)
<1>1. PICK f : /\ f = [p \in 1 .. Len(v) + 1 |-> MeaningBody(v, f, p)]
               /\ Meaning(v) = f[1]
  BY MeaningDefined
<1>2. \A p \in 1 .. Len(v) + 1 : f[p] = MeaningBody(v, f, p)
  BY <1>1, Zenon
<1>3. /\ N \in Nat
      /\ \A k \in 0 .. N : After(s, 1, k) \in 1 .. Len(v) + 1
      /\ Begun(v, After(s, 1, N)) = {}
  BY ScanIs
<1>4. f[After(s, 1, N)] = SubSeq(v, After(s, 1, N), Len(v))
  <2>1. After(s, 1, N) \in 1 .. Len(v) + 1
    BY <1>3
  <2>2. f[After(s, 1, N)] = MeaningBody(v, f, After(s, 1, N))
    BY <1>2, <2>1
  <2> QED
    BY <1>3, <2>2, Zenon DEF MeaningBody
<1>5. ASSUME NEW k \in 1 .. N
      PROVE  LET q == After(s, 1, k - 1)
                 got == Stands(v, s[k])
                 rest == f[s[k].end + 1]
             IN  f[q] = IF got = <<>> \/ rest = Failed THEN Failed
                        ELSE SubSeq(v, q, s[k].start - 1) \o got \o rest
  <2> DEFINE q == After(s, 1, k - 1)
             i == s[k].start
             j == s[k].end
  <2>1. /\ s[k] \in Ref
        /\ i = Min(Begun(v, q)) /\ i \in Begun(v, q)
        /\ j = Min(Closings(v, i)) /\ j \in i + 2 .. Len(v)
        /\ i \in q .. Len(v)
    BY ScanIs
  <2>2. k - 1 \in 0 .. N
    BY <1>3
  <2>3. q \in 1 .. Len(v) + 1
    BY <1>3, <2>2
  <2>4. Name(v, s[k]) = SubSeq(v, i + 2, j - 1)
    BY DEF Name
  <2>5. i \in 1 .. Len(v)
    <3> HIDE DEF q, i, j
    <3> QED
      BY <2>1, <2>3, LenProperties
  <2>6. Known(Name(v, s[k])) <=> \E n \in Names : Name(v, s[k]) = <<n>>
    BY <2>1, <2>5, StandsIs
  <2>7. Stands(v, s[k]) = IF \E n \in Names : Name(v, s[k]) = <<n>>
                          THEN text[Name(v, s[k])[1]] ELSE SubSeq(v, i, j)
    BY <2>6 DEF Stands, Got
  <2>8. f[q] = MeaningBody(v, f, q)
    BY <1>2, <2>3
  <2> HIDE DEF q, i, j
  <2>9. f[q] = IF Stands(v, s[k]) = <<>> \/ f[j + 1] = Failed THEN Failed
               ELSE SubSeq(v, q, i - 1) \o Stands(v, s[k]) \o f[j + 1]
    <3>1. Begun(v, q) # {}
      BY <2>1
    <3>2. Min(Begun(v, q)) = i /\ Min(Closings(v, i)) = j
      BY <2>1
    <3> QED
      BY <2>4, <2>7, <2>8, <3>1, <3>2, Zenon DEF MeaningBody
  <2> QED
    BY <2>9 DEF q, i, j
<1> QED
  BY <1>1, <1>4, <1>5
-----------------------------------------------------------------------------
(* Expanding writes what the value means                                   *)

Regrouped(x, y, z) == (x \o y) \o z = x \o (y \o z)

LEMMA Associative == \A x, y, z \in Seq(Symbols) : Regrouped(x, y, z)
<1> SUFFICES ASSUME NEW x \in Seq(Symbols), NEW y \in Seq(Symbols),
                    NEW z \in Seq(Symbols)
             PROVE  (x \o y) \o z = x \o (y \o z)
  BY DEF Regrouped
<1> QED
  BY ConcatAssociative

\* The two ways to read the parts of a value again: a reference that was
\* replaced ends what is written, one that is left stays with what is around.
Rejoined(a, b, c, g, r) ==
    /\ (a \o b) \o ((c \o g) \o r) = ((a \o (b \o c)) \o g) \o r
    /\ (a \o b) \o ((c \o g) \o r) = (a \o ((b \o c) \o g)) \o r

LEMMA Joined == \A a, b, c, g, r \in Seq(Symbols) : Rejoined(a, b, c, g, r)
<1> SUFFICES ASSUME NEW a \in Seq(Symbols), NEW b \in Seq(Symbols),
                    NEW c \in Seq(Symbols), NEW g \in Seq(Symbols),
                    NEW r \in Seq(Symbols)
             PROVE  Rejoined(a, b, c, g, r)
  BY Zenon
<1>1. /\ a \o b \in Seq(Symbols) /\ b \o c \in Seq(Symbols)
      /\ c \o g \in Seq(Symbols)
  BY ConcatProperties
<1>2. /\ Regrouped(a \o b, c \o g, r) /\ Regrouped(a \o b, c, g)
      /\ Regrouped(a, b, c) /\ Regrouped(a, b \o c, g)
  BY <1>1, Associative, Zenon
<1> QED
  BY <1>2, Zenon DEF Regrouped, Rejoined

\* Where the scan is before and after a reference, and what stands for it.
LEMMA RefIs ==
    ASSUME NEW v \in Seq(Symbols), text \in [Names -> Seq(Symbols)],
           NEW k \in 1 .. Len(Scan(v))
    PROVE  LET s == Scan(v)
               q == After(s, 1, k - 1)
               i == s[k].start
               j == s[k].end
           IN  /\ q \in 1 .. Len(v) /\ i \in q .. Len(v)
               /\ j \in i + 2 .. Len(v)
               /\ After(s, 1, k) = j + 1
               /\ k - 1 \in 0 .. Len(s) /\ Len(s) \in Nat
               /\ Stands(v, s[k]) \in Seq(Symbols)
               /\ Known(Name(v, s[k])) =>
                     Stands(v, s[k]) = Got(v, s[k])
               /\ ~Known(Name(v, s[k])) =>
                     Stands(v, s[k]) = SubSeq(v, i, j) /\ Stands(v, s[k]) # <<>>
<1> DEFINE s == Scan(v)
           q == After(s, 1, k - 1)
           i == s[k].start
           j == s[k].end
<1>1. /\ s[k] \in Ref /\ i \in q .. Len(v) /\ j \in i + 2 .. Len(v)
      /\ Len(s) \in Nat
  BY ScanIs
<1>2. k - 1 \in 0 .. Len(s) /\ k # 0
  BY <1>1
<1>3. q \in 1 .. Len(v) + 1
  BY <1>2, ScanIs
<1>4. q \in 1 .. Len(v) /\ i \in 1 .. Len(v)
  <2> HIDE DEF q, i, j, s
  <2> QED
    BY <1>1, <1>3, LenProperties
<1>5. After(s, 1, k) = j + 1
  BY <1>2 DEF After
<1>6. /\ Stands(v, s[k]) \in Seq(Symbols)
      /\ ~Known(Name(v, s[k])) => Stands(v, s[k]) # <<>>
  BY <1>1, <1>4, StandsIs
<1> QED
  BY <1>1, <1>2, <1>4, <1>5, <1>6 DEF Stands

\* What a value means where nothing known is empty: what was written up to
\* the k-th reference, what is between, and what it means from there.
LEMMA WrittenUpTo ==
    ASSUME NEW v \in Seq(Symbols), text \in [Names -> Seq(Symbols)],
           NEW f, NEW t,
           LET s == Scan(v)
               N == Len(s)
           IN  /\ f[After(s, 1, N)] = SubSeq(v, After(s, 1, N), Len(v))
               /\ \A k \in 1 .. N :
                      /\ Stands(v, s[k]) # <<>>
                      /\ f[After(s, 1, k - 1)] =
                           IF f[s[k].end + 1] = Failed THEN Failed
                           ELSE SubSeq(v, After(s, 1, k - 1), s[k].start - 1)
                                \o Stands(v, s[k]) \o f[s[k].end + 1]
               /\ t = [k \in 0 .. N |-> UptoBody(v, s, t, k)]
    PROVE  LET N == Len(Scan(v))
           IN  f[1] = t[N].out \o SubSeq(v, t[N].last + 1, Len(v))
<1> DEFINE s == Scan(v)
           N == Len(s)
           q(k) == After(s, 1, k)
<1>1. /\ N \in Nat /\ \A k \in 0 .. N : q(k) \in 1 .. Len(v) + 1
  BY ScanIs
<1>2. Len(v) \in Nat
  BY LenProperties
<1>3. f[q(N)] = SubSeq(v, q(N), Len(v))
  OBVIOUS
<1>4. ASSUME NEW k \in 1 .. N
      PROVE  f[q(k - 1)] = IF f[q(k)] = Failed THEN Failed
                           ELSE SubSeq(v, q(k - 1), s[k].start - 1)
                                \o Stands(v, s[k]) \o f[q(k)]
  <2>1. q(k) = s[k].end + 1
    BY RefIs
  <2> QED
    BY <2>1, Zenon
<1>5. \A k \in 0 .. N : t[k] = UptoBody(v, s, t, k)
  <2> HIDE DEF s, N
  <2> QED
    BY Zenon DEF s, N
<1> HIDE DEF q
<1> DEFINE D == {k \in 0 .. N : f[q(N - k)] \in Seq(Symbols)}
<1>6. \A k \in 0 .. N : f[q(k)] \in Seq(Symbols)
  <2>1. 0 \in D
    <3>1. q(N) \in 1 .. Len(v) + 1
      BY <1>1
    <3>2. Len(v) \in q(N) - 1 .. Len(v)
      BY <1>2, <3>1
    <3>3. f[q(N)] \in Seq(Symbols)
      BY <1>3, <3>1, <3>2, PartOf
    <3>4. N - 0 = N /\ 0 \in 0 .. N
      BY <1>1
    <3> QED
      BY <3>3, <3>4
  <2>2. ASSUME NEW k \in 0 .. N - 1, k \in D PROVE k + 1 \in D
    <3> DEFINE m == N - k
    <3>1. m \in 1 .. N /\ N - (k + 1) = m - 1 /\ k + 1 \in 0 .. N
      BY <1>1
    <3>2. f[q(m)] \in Seq(Symbols) /\ f[q(m)] # Failed
      BY <2>2, FailedApart
    <3> HIDE DEF m
    <3>3. f[q(m - 1)] = SubSeq(v, q(m - 1), s[m].start - 1)
                        \o Stands(v, s[m]) \o f[q(m)]
      BY <1>4, <3>1, <3>2
    <3>4. /\ q(m - 1) \in 1 .. Len(v) /\ s[m].start \in q(m - 1) .. Len(v)
          /\ Stands(v, s[m]) \in Seq(Symbols)
      BY <3>1, RefIs DEF q
    <3>5. /\ q(m - 1) \in 1 .. Len(v) + 1
          /\ s[m].start - 1 \in q(m - 1) - 1 .. Len(v)
      <4> DEFINE a == q(m - 1)
                 i == s[m].start
      <4>1. a \in 1 .. Len(v) /\ i \in a .. Len(v)
        BY <3>4
      <4> HIDE DEF a, i
      <4>2. a \in 1 .. Len(v) + 1 /\ i - 1 \in a - 1 .. Len(v)
        BY <1>2, <4>1
      <4> QED
        BY <4>2 DEF a, i
    <3>6. SubSeq(v, q(m - 1), s[m].start - 1) \in Seq(Symbols)
      BY <3>5, PartOf
    <3>7. f[q(m - 1)] \in Seq(Symbols)
      <4>1. SubSeq(v, q(m - 1), s[m].start - 1) \o Stands(v, s[m])
              \in Seq(Symbols)
        BY <3>4, <3>6, ConcatProperties
      <4> QED
        BY <3>2, <3>3, <4>1, ConcatProperties
    <3> QED
      BY <3>1, <3>7
  <2>3. \A k \in 0 .. N : k \in D
    <3> HIDE DEF D, N
    <3> QED
      BY <1>1, <2>1, <2>2, Upwards
  <2>4. ASSUME NEW k \in 0 .. N PROVE f[q(k)] \in Seq(Symbols)
    <3>1. N - k \in 0 .. N /\ N - (N - k) = k
      BY <1>1
    <3>2. N - k \in D
      BY <2>3, <3>1
    <3>3. f[q(N - (N - k))] \in Seq(Symbols)
      BY <3>2
    <3> QED
      BY <3>1, <3>3
  <2> QED
    BY <2>4
<1>7. ASSUME NEW k \in 1 .. N
      PROVE  f[q(k - 1)] = SubSeq(v, q(k - 1), s[k].start - 1)
                           \o Stands(v, s[k]) \o f[q(k)]
  <2>1. k \in 0 .. N
    BY <1>1
  <2>2. f[q(k)] # Failed
    BY <1>6, <2>1, FailedApart
  <2> QED
    BY <1>4, <2>2
<1> DEFINE between(k) == SubSeq(v, t[k].last + 1, q(k) - 1)
           C == {k \in 0 .. N : /\ t[k].out \in Seq(Symbols)
                                /\ t[k].last \in 0 .. q(k) - 1
                                /\ f[1] = (t[k].out \o between(k)) \o f[q(k)]}
<1>8. 0 \in C
  <2>1. 0 \in 0 .. N
    BY <1>1
  <2>2. t[0] = [out |-> <<>>, last |-> 0]
    BY <1>5, <2>1, Zenon DEF UptoBody
  <2>3. q(0) = 1
    BY DEF q, After
  <2>4. between(0) = <<>>
    <3>1. SubSeq(v, 1, 0) = <<>>
      BY SubSeqEmpty
    <3> QED
      BY <2>2, <2>3, <3>1
  <2>5. f[1] \in Seq(Symbols)
    BY <1>6, <2>1, <2>3
  <2>6. <<>> \o <<>> = <<>> /\ <<>> \o f[1] = f[1] /\ <<>> \in Seq(Symbols)
    BY <2>5, EmptySeq, ConcatEmptySeq
  <2>7. t[0].out = <<>> /\ t[0].last = 0
    BY <2>2
  <2>8. t[0].out \in Seq(Symbols) /\ t[0].last \in 0 .. q(0) - 1
    <3>1. 0 \in 0 .. 1 - 1
      OBVIOUS
    <3> QED
      BY <2>3, <2>6, <2>7, <3>1, Zenon
  <2>9. f[1] = (t[0].out \o between(0)) \o f[q(0)]
    BY <2>3, <2>4, <2>6, <2>7, Zenon
  <2> QED
    BY <2>1, <2>8, <2>9
<1>9. ASSUME NEW k \in 0 .. N - 1, k \in C PROVE k + 1 \in C
  <2> DEFINE m == k + 1
             a == t[k].last
             p == q(k)
             i == s[m].start
             j == s[m].end
             A == t[k].out
             B == between(k)
             P == SubSeq(v, p, i - 1)
             G == Stands(v, s[m])
             R == f[q(m)]
  <2>1. m \in 1 .. N /\ m - 1 = k /\ m \in 0 .. N /\ k \in 0 .. N /\ m # 0
    BY <1>1
  <2>2. /\ A \in Seq(Symbols) /\ a \in 0 .. p - 1
        /\ f[1] = (A \o B) \o f[p]
    BY <1>9
  <2>3. /\ p \in 1 .. Len(v) /\ i \in p .. Len(v) /\ j \in i + 2 .. Len(v)
        /\ q(m) = j + 1
        /\ G \in Seq(Symbols)
        /\ Known(Name(v, s[m])) => G = Got(v, s[m])
        /\ ~Known(Name(v, s[m])) => G = SubSeq(v, i, j)
    <3> HIDE DEF m
    <3> QED
      BY <2>1, RefIs DEF q
  <2>4. f[p] = (P \o G) \o R
    <3> HIDE DEF m
    <3> QED
      BY <1>7, <2>1
  <2>5. R \in Seq(Symbols)
    BY <1>6, <2>1
  <2>6. t[m] = UptoBody(v, s, t, m)
    BY <1>5, <2>1
  <2> HIDE DEF m, a, p, i, j, A, B, P, G, R
  <2>7. /\ a + 1 \in 1 .. Len(v) + 1 /\ p - 1 \in (a + 1) - 1 .. Len(v)
        /\ i - 1 \in p - 1 .. Len(v) /\ p \in 1 .. Len(v) + 1
        /\ j \in i - 1 .. Len(v) /\ i \in 1 .. Len(v) + 1
        /\ (p - 1) + 1 = p /\ (i - 1) + 1 = i
        /\ i - 1 \in (a + 1) - 1 .. Len(v)
        /\ (j + 1) - 1 = j /\ j + 1 \in Int /\ j \in Int /\ j < j + 1
    BY <1>2, <2>2, <2>3
  <2>8. B = SubSeq(v, a + 1, p - 1)
    BY DEF B, a, p
  <2>9. B \in Seq(Symbols) /\ P \in Seq(Symbols)
    BY <2>7, <2>8, PartOf DEF P
  <2>10. B \o P = SubSeq(v, a + 1, i - 1)
    <3>1. SubSeq(v, a + 1, p - 1) \o SubSeq(v, (p - 1) + 1, i - 1)
            = SubSeq(v, a + 1, i - 1)
      <4>1. i - 1 \in p - 1 .. Len(v)
        BY <2>7
      <4> QED
        BY <2>7, <4>1, ConcatAdjacentSubSeq
    <3> QED
      BY <2>7, <2>8, <3>1 DEF P
  <2>11. /\ f[1] = ((A \o (B \o P)) \o G) \o R
         /\ f[1] = (A \o ((B \o P) \o G)) \o R
    <3>1. /\ (A \o B) \o ((P \o G) \o R) = ((A \o (B \o P)) \o G) \o R
          /\ (A \o B) \o ((P \o G) \o R) = (A \o ((B \o P) \o G)) \o R
      <4>1. /\ A \in Seq(Symbols) /\ B \in Seq(Symbols)
            /\ P \in Seq(Symbols) /\ G \in Seq(Symbols)
            /\ R \in Seq(Symbols)
        BY <2>2, <2>3, <2>5, <2>9, Zenon
      <4>2. Rejoined(A, B, P, G, R)
        BY <4>1, Joined, Zenon
      <4> QED
        BY <4>2 DEF Rejoined
    <3> QED
      BY <2>2, <2>4, <3>1, Zenon
  <2>12. CASE Known(Name(v, s[m]))
    <3>1. t[m] = Written(v, t[k], s[m])
      BY <2>1, <2>6, <2>12, Zenon DEF UptoBody
    <3>2. t[m] = [out |-> A \o (B \o P) \o G, last |-> j]
      <4>1. G = Got(v, s[m])
        BY <2>3, <2>12
      <4> QED
        BY <2>10, <3>1, <4>1 DEF Written, A, a, i, j
    <3>9. t[m].out = A \o (B \o P) \o G /\ t[m].last = j
      <4> DEFINE O == A \o (B \o P) \o G
      <4>1. t[m] = [out |-> O, last |-> j]
        BY <3>2
      <4> HIDE DEF O
      <4>2. t[m].out = O /\ t[m].last = j
        BY <4>1
      <4> QED
        BY <4>2 DEF O
    <3>3. A \o (B \o P) \o G \in Seq(Symbols)
      <4>1. B \o P \in Seq(Symbols)
        BY <2>9, ConcatProperties
      <4>2. A \o (B \o P) \in Seq(Symbols)
        BY <2>2, <4>1, ConcatProperties
      <4> QED
        BY <2>3, <4>2, ConcatProperties
    <3>4. SubSeq(v, t[m].last + 1, q(m) - 1) = <<>>
      <4>1. SubSeq(v, j + 1, j) = <<>>
        BY <2>7, SubSeqEmpty
      <4> QED
        BY <2>3, <2>7, <3>9, <4>1, Zenon
    <3>5. f[1] = (t[m].out \o SubSeq(v, t[m].last + 1, q(m) - 1)) \o f[q(m)]
      <4>1. t[m].out \o <<>> = t[m].out
        BY <3>3, <3>9, ConcatEmptySeq
      <4>2. f[1] = t[m].out \o R
        BY <2>11, <3>9, Zenon
      <4> QED
        BY <3>4, <4>1, <4>2, Zenon DEF R
    <3>6. t[m].last \in 0 .. q(m) - 1
      <4>1. j \in 0 .. (j + 1) - 1
        BY <1>2, <2>3
      <4> QED
        BY <2>3, <3>9, <4>1, Zenon
    <3>7. t[m].out \in Seq(Symbols)
      BY <3>3, <3>9, Zenon
    <3>8. m \in C
      BY <2>1, <3>5, <3>6, <3>7
    <3> QED
      BY <3>8 DEF m
  <2>13. CASE ~Known(Name(v, s[m]))
    <3>1. t[m] = t[k]
      BY <2>1, <2>6, <2>13, Zenon DEF UptoBody
    <3>2. (B \o P) \o G = SubSeq(v, a + 1, j)
      <4>1. SubSeq(v, a + 1, i - 1) \o SubSeq(v, (i - 1) + 1, j)
              = SubSeq(v, a + 1, j)
        <5>1. j \in i - 1 .. Len(v)
          BY <2>7
        <5> QED
          BY <2>7, <5>1, ConcatAdjacentSubSeq
      <4>2. G = SubSeq(v, i, j)
        BY <2>3, <2>13
      <4> QED
        BY <2>7, <2>10, <4>1, <4>2
    <3>3. SubSeq(v, t[m].last + 1, q(m) - 1) = SubSeq(v, a + 1, j)
      <4>1. t[m].last = a
        BY <3>1 DEF a
      <4>2. q(m) - 1 = j
        BY <2>3, <2>7
      <4> QED
        BY <4>1, <4>2
    <3>4. f[1] = (t[m].out \o SubSeq(v, t[m].last + 1, q(m) - 1)) \o f[q(m)]
      <4>1. t[m].out = A
        BY <3>1 DEF A
      <4> QED
        BY <2>11, <3>2, <3>3, <4>1 DEF R
    <3>5. t[m].last \in 0 .. q(m) - 1
      <4>1. a \in 0 .. (j + 1) - 1
        BY <1>2, <2>2, <2>3
      <4>2. t[m].last = a
        BY <3>1 DEF a
      <4> QED
        BY <2>3, <4>1, <4>2
    <3>6. t[m].out \in Seq(Symbols)
      BY <2>2, <3>1 DEF A
    <3>7. m \in C
      BY <2>1, <3>4, <3>5, <3>6
    <3> QED
      BY <3>7 DEF m
  <2> QED
    BY <2>12, <2>13
<1>10. N \in C
  <2> HIDE DEF C, N
  <2>1. \A k \in 0 .. N : k \in C
    BY <1>1, <1>8, <1>9, Upwards
  <2>2. N \in 0 .. N
    BY <1>1
  <2> QED
    BY <2>1, <2>2
<1>11. f[1] = t[N].out \o SubSeq(v, t[N].last + 1, Len(v))
  <2> DEFINE a == t[N].last
             p == q(N)
             A == t[N].out
  <2>1. /\ A \in Seq(Symbols) /\ a \in 0 .. p - 1
        /\ f[1] = (A \o SubSeq(v, a + 1, p - 1)) \o SubSeq(v, p, Len(v))
    BY <1>3, <1>10
  <2>2. p \in 1 .. Len(v) + 1
    BY <1>1
  <2> HIDE DEF a, p, A
  <2>3. /\ a + 1 \in 1 .. Len(v) + 1 /\ p - 1 \in (a + 1) - 1 .. Len(v)
        /\ Len(v) \in p - 1 .. Len(v) /\ (p - 1) + 1 = p
    BY <1>2, <2>1, <2>2
  <2>4. SubSeq(v, a + 1, p - 1) \o SubSeq(v, p, Len(v))
          = SubSeq(v, a + 1, Len(v))
    <3>1. SubSeq(v, a + 1, p - 1) \o SubSeq(v, (p - 1) + 1, Len(v))
            = SubSeq(v, a + 1, Len(v))
      BY <2>3, ConcatAdjacentSubSeq
    <3> QED
      BY <2>3, <3>1
  <2>5. /\ SubSeq(v, a + 1, p - 1) \in Seq(Symbols)
        /\ SubSeq(v, p, Len(v)) \in Seq(Symbols)
    BY <2>2, <2>3, PartOf
  <2>6. f[1] = A \o SubSeq(v, a + 1, Len(v))
    <3>1. Regrouped(A, SubSeq(v, a + 1, p - 1), SubSeq(v, p, Len(v)))
      BY <2>1, <2>5, Associative, Zenon
    <3> QED
      BY <2>1, <2>4, <3>1, Zenon DEF Regrouped
  <2> QED
    BY <2>6 DEF a, A
<1> QED
  BY <1>11

\* A reference that is known and stands for nothing fails the whole value,
\* from wherever it is read.
LEMMA FailsWhole ==
    ASSUME NEW g, NEW N \in Nat, NEW K \in 1 .. N,
           g[K - 1] = Failed,
           \A k \in 1 .. N : g[k] = Failed => g[k - 1] = Failed
    PROVE  g[0] = Failed
<1> DEFINE D == {k \in 0 .. K - 1 : g[(K - 1) - k] = Failed}
<1>1. 0 \in D
  <2>1. (K - 1) - 0 = K - 1 /\ 0 \in 0 .. K - 1
    OBVIOUS
  <2> QED
    BY <2>1
<1>2. ASSUME NEW k \in 0 .. (K - 1) - 1, k \in D PROVE k + 1 \in D
  <2> DEFINE m == (K - 1) - k
  <2>1. m \in 1 .. N /\ (K - 1) - (k + 1) = m - 1 /\ k + 1 \in 0 .. K - 1
    OBVIOUS
  <2>2. g[m] = Failed
    BY <1>2
  <2> HIDE DEF m
  <2>3. g[m - 1] = Failed
    BY <2>1, <2>2
  <2> QED
    BY <2>1, <2>3
<1>3. K - 1 \in Nat /\ K - 1 \in 0 .. K - 1 /\ (K - 1) - (K - 1) = 0
  OBVIOUS
<1>4. \A k \in 0 .. K - 1 : k \in D
  <2> DEFINE n == K - 1
  <2>1. n \in Nat /\ 0 \in D /\ \A k \in 0 .. n - 1 : k \in D => k + 1 \in D
    BY <1>1, <1>2, <1>3
  <2> HIDE DEF D, n
  <2>2. \A k \in 0 .. n : k \in D
    BY <2>1, Upwards
  <2> QED
    BY <2>2 DEF n
<1>5. g[(K - 1) - (K - 1)] = Failed
  BY <1>3, <1>4
<1> QED
  BY <1>3, <1>5

\* Expanding any value writes what it means, whatever the texts are: every
\* known reference is replaced once, everything else is left as written, and
\* nothing comes out if a name stands for nothing.
THEOREM ExpandsWhatIsMeant == ValuesAndTexts => ExpandsAsWritten
<1> SUFFICES ASSUME ValuesAndTexts PROVE Expand(value) = Meaning(value)
  BY DEF ExpandsAsWritten
<1> DEFINE v == value
           s == Scan(v)
           N == Len(s)
           q(k) == After(s, 1, k)
           empty(k) == Known(Name(v, s[k])) /\ Got(v, s[k]) = <<>>
<1>1. v \in Seq(Symbols) /\ text \in [Names -> Seq(Symbols)]
  BY DEF ValuesAndTexts
<1>2. N \in Nat /\ DOMAIN s = 1 .. N
  BY <1>1, ScanIs
<1>3. PICK f :
        /\ Meaning(v) = f[1]
        /\ f[q(N)] = SubSeq(v, q(N), Len(v))
        /\ \A k \in 1 .. N :
             f[q(k - 1)] = IF Stands(v, s[k]) = <<>> \/ f[s[k].end + 1] = Failed
                           THEN Failed
                           ELSE SubSeq(v, q(k - 1), s[k].start - 1)
                                \o Stands(v, s[k]) \o f[s[k].end + 1]
  BY <1>1, MeaningAt, Zenon
<1>4. PICK t : /\ t = [k \in 0 .. N |-> UptoBody(v, s, t, k)]
               /\ Expand(v) = IF \E k \in DOMAIN s : empty(k) THEN Failed
                              ELSE t[N].out \o SubSeq(v, t[N].last + 1, Len(v))
  BY <1>2, ExpandDefined, Zenon
<1>5. ASSUME NEW k \in 1 .. N
      PROVE  /\ q(k) = s[k].end + 1
             /\ empty(k) <=> Stands(v, s[k]) = <<>>
  BY <1>1, RefIs
<1>6. CASE \E k \in 1 .. N : empty(k)
  <2>1. PICK K \in 1 .. N : empty(K)
    BY <1>6
  <2>2. f[q(K - 1)] = Failed
    BY <1>3, <1>5, <2>1, Zenon
  <2>3. \A k \in 1 .. N : f[q(k)] = Failed => f[q(k - 1)] = Failed
    BY <1>3, <1>5, Zenon
  <2>4. f[q(0)] = Failed
    <3> DEFINE g == [k \in 0 .. N |-> f[q(k)]]
    <3> HIDE DEF q, N
    <3>1. \A k \in 1 .. N : k \in 0 .. N /\ k - 1 \in 0 .. N
      BY <1>2
    <3>2. g[K - 1] = Failed
      BY <2>2, <3>1
    <3>3. \A k \in 1 .. N : g[k] = Failed => g[k - 1] = Failed
      BY <2>3, <3>1
    <3> HIDE DEF g
    <3>4. g[0] = Failed
      BY <1>2, <3>2, <3>3, FailsWhole
    <3>5. 0 \in 0 .. N
      BY <1>2
    <3> QED
      BY <3>4, <3>5 DEF g
  <2>5. q(0) = 1
    BY DEF After
  <2> QED
    BY <1>2, <1>3, <1>4, <1>6, <2>4, <2>5, Zenon
<1>7. CASE ~\E k \in 1 .. N : empty(k)
  <2>1. ASSUME NEW k \in 1 .. N
        PROVE  /\ Stands(v, s[k]) # <<>>
               /\ f[q(k - 1)] =
                    IF f[s[k].end + 1] = Failed THEN Failed
                    ELSE SubSeq(v, q(k - 1), s[k].start - 1)
                         \o Stands(v, s[k]) \o f[s[k].end + 1]
    BY <1>3, <1>5, <1>7, Zenon
  <2>2. f[1] = t[N].out \o SubSeq(v, t[N].last + 1, Len(v))
    BY <1>1, <1>3, <1>4, <2>1, WrittenUpTo
  <2> QED
    BY <1>2, <1>3, <1>4, <1>7, <2>2, Zenon
<1> QED
  BY <1>6, <1>7
-----------------------------------------------------------------------------
(* What was accepted comes out without a reference                         *)

\* No reference begins in w and ends later in it.
LEMMA NothingBegun ==
    ASSUME NEW w,
           \A h \in 1 .. Len(w) : \A c \in h + 2 .. Len(w) :
               ~(Opening(w, h) /\ w[c] = "}")
    PROVE  Begun(w, 1) = {}
BY DEF Begun, Closings

\* Where no reference begins, no brace closes what opens.
LEMMA NoneBegun ==
    ASSUME NEW w, Begun(w, 1) = {}, NEW h \in 1 .. Len(w), Opening(w, h),
           NEW c \in h + 2 .. Len(w)
    PROVE  w[c] # "}"
<1>1. Closings(w, h) = {}
  BY Zenon DEF Begun
<1> QED
  BY <1>1, Zenon DEF Closings

\* Nothing is scanned where no reference begins.
LEMMA NothingScanned ==
    ASSUME NEW S, NEW w \in Seq(S), Begun(w, 1) = {}
    PROVE  Scan(w) = <<>>
<1> DEFINE s == Scan(w)
<1>1. s \in Seq(Ref) /\ Len(s) \in Nat
  BY ScanIs
<1>2. ASSUME 1 \in 1 .. Len(s) PROVE FALSE
  <2>1. s[1].start \in Begun(w, After(s, 1, 1 - 1))
    BY <1>2, ScanIs
  <2>2. After(s, 1, 1 - 1) = 1
    BY DEF After
  <2> QED
    BY <2>1, <2>2
<1> HIDE DEF s
<1>3. Len(s) = 0
  BY <1>1, <1>2
<1>4. s = <<>>
  BY <1>1, <1>3, EmptySeq
<1> QED
  BY <1>4 DEF s

\* The elements of two sequences put together, and of three.
Elements(x, y) ==
    /\ x \o y \in Seq(Symbols) /\ Len(x \o y) = Len(x) + Len(y)
    /\ \A i \in 1 .. Len(x) + Len(y) :
          (x \o y)[i] = IF i <= Len(x) THEN x[i] ELSE y[i - Len(x)]

\* Two sequences put together have the elements of both.
LEMMA TwoParts == \A x, y \in Seq(Symbols) : Elements(x, y)
<1> SUFFICES ASSUME NEW x \in Seq(Symbols), NEW y \in Seq(Symbols)
             PROVE  Elements(x, y)
  BY Zenon
<1> QED
  BY ConcatProperties DEF Elements

ElementsOf(a, g, r, w) ==
    /\ w \in Seq(Symbols) /\ Len(w) = Len(a) + Len(g) + Len(r)
    /\ Len(a) \in Nat /\ Len(g) \in Nat /\ Len(r) \in Nat
    /\ \A x \in 1 .. Len(w) :
         /\ x <= Len(a) => w[x] = a[x]
         /\ Len(a) < x /\ x <= Len(a) + Len(g) => w[x] = g[x - Len(a)]
         /\ Len(a) + Len(g) < x => w[x] = r[x - (Len(a) + Len(g))]

\* Three sequences put together, position by position.
LEMMA ThreeParts ==
    \A a, g, r \in Seq(Symbols) : ElementsOf(a, g, r, a \o g \o r)
<1> SUFFICES ASSUME NEW a \in Seq(Symbols), NEW g \in Seq(Symbols),
                    NEW r \in Seq(Symbols)
             PROVE  ElementsOf(a, g, r, a \o g \o r)
  BY Zenon
<1> DEFINE b == a \o g
           A == Len(a)
           G == Len(g)
           R == Len(r)
<1>1. A \in Nat /\ G \in Nat /\ R \in Nat
  BY LenProperties
<1>2. /\ b \in Seq(Symbols) /\ Len(b) = A + G
      /\ \A x \in 1 .. A + G : b[x] = IF x <= A THEN a[x] ELSE g[x - A]
  <2>1. Elements(a, g)
    BY TwoParts, Zenon
  <2> QED
    BY <2>1, Zenon DEF Elements
<1> HIDE DEF b
<1>3. /\ b \o r \in Seq(Symbols) /\ Len(b \o r) = (A + G) + R
      /\ \A x \in 1 .. (A + G) + R :
            (b \o r)[x] = IF x <= A + G THEN b[x] ELSE r[x - (A + G)]
  <2>1. Elements(b, r)
    BY <1>2, TwoParts, Zenon
  <2> QED
    BY <1>2, <2>1, Zenon DEF Elements
<1> HIDE DEF A, G, R
<1>4. ASSUME NEW x \in 1 .. (A + G) + R
      PROVE  /\ x <= A => (b \o r)[x] = a[x]
             /\ A < x /\ x <= A + G => (b \o r)[x] = g[x - A]
             /\ A + G < x => (b \o r)[x] = r[x - (A + G)]
  <2>1. CASE x <= A
    <3>1. x \in 1 .. A + G /\ x <= A + G /\ ~(A < x) /\ ~(A + G < x)
      BY <1>1, <2>1
    <3> QED
      BY <1>2, <1>3, <2>1, <3>1, Zenon
  <2>2. CASE A < x /\ x <= A + G
    <3>1. x \in 1 .. A + G /\ x <= A + G /\ ~(x <= A) /\ ~(A + G < x)
      BY <1>1, <2>2
    <3> QED
      BY <1>2, <1>3, <2>2, <3>1, Zenon
  <2>3. CASE A + G < x
    <3>1. ~(x <= A) /\ ~(x <= A + G)
      BY <1>1, <2>3
    <3> QED
      BY <1>3, <2>3, <3>1, Zenon
  <2> QED
    BY <1>1, <2>1, <2>2, <2>3
<1>5. b \o r = a \o g \o r
  BY Zenon DEF b
<1>6. ASSUME NEW w, w = b \o r
      PROVE  /\ w \in Seq(Symbols) /\ Len(w) = A + G + R
             /\ A \in Nat /\ G \in Nat /\ R \in Nat
             /\ \A x \in 1 .. Len(w) :
                  /\ x <= A => w[x] = a[x]
                  /\ A < x /\ x <= A + G => w[x] = g[x - A]
                  /\ A + G < x => w[x] = r[x - (A + G)]
  BY <1>1, <1>3, <1>4, <1>6, Zenon
<1> QED
  BY <1>5, <1>6, Zenon DEF A, G, R, ElementsOf

\* A text that makes no reference with what is around it.
Inert(g) ==
    /\ g # <<>>
    /\ \A k \in 1 .. Len(g) : g[k] # "$"
    /\ g[1] # "{"

\* From q on, the first reference of v begins at i and ends at j.
First(v, q, i, j) == v[j] = "}" /\ \A h \in Begun(v, q) : i <= h

\* What is before a reference, the text for it and what follows it make no
\* reference together.
LEMMA NothingTogether ==
    ASSUME NEW v \in Seq(Symbols), NEW q \in 1 .. Len(v),
           NEW i \in q .. Len(v), NEW j \in i + 2 .. Len(v),
           First(v, q, i, j),
           NEW g \in Seq(Symbols), Inert(g),
           NEW r \in Seq(Symbols), Begun(r, 1) = {}
    PROVE  /\ SubSeq(v, q, i - 1) \o g \o r \in Seq(Symbols)
           /\ Begun(SubSeq(v, q, i - 1) \o g \o r, 1) = {}
<1> DEFINE a == SubSeq(v, q, i - 1)
           w == a \o g \o r
           A == Len(a)
           G == Len(g)
<1>1. Len(v) \in Nat
  BY LenProperties
<1>2. /\ a \in Seq(Symbols) /\ A = i - q
      /\ \A k \in 1 .. i - q : a[k] = v[q + k - 1]
  <2>1. q \in 1 .. Len(v) + 1 /\ i - 1 \in q - 1 .. Len(v)
        /\ (i - 1) - q + 1 = i - q
    BY <1>1
  <2> QED
    BY <2>1, PartOf
<1> HIDE DEF a
<1>3. /\ w \in Seq(Symbols) /\ Len(w) = A + G + Len(r)
      /\ A \in Nat /\ G \in Nat /\ Len(r) \in Nat
      /\ \A x \in 1 .. Len(w) :
            /\ x <= A => w[x] = a[x]
            /\ A < x /\ x <= A + G => w[x] = g[x - A]
            /\ A + G < x => w[x] = r[x - (A + G)]
  <2>1. ElementsOf(a, g, r, a \o g \o r)
    BY <1>2, ThreeParts, Zenon
  <2> QED
    BY <2>1, Zenon DEF ElementsOf, w, A, G
<1>4. G # 0
  BY EmptySeq DEF Inert
<1> HIDE DEF w, A, G
<1>5. ASSUME NEW h \in 1 .. Len(w), NEW c \in h + 2 .. Len(w),
             Opening(w, h), w[c] = "}"
      PROVE  FALSE
  <2>1. /\ h < Len(w) /\ w[h] = "$" /\ w[h + 1] = "{"
        /\ h + 1 \in 1 .. Len(w) /\ c \in 1 .. Len(w)
    <3>1. h < Len(w) /\ w[h] = "$" /\ w[h + 1] = "{"
      BY <1>5, Zenon DEF Opening
    <3>2. Len(w) \in Nat
      BY <1>3
    <3>3. h < Len(w)
      BY <3>1
    <3>4. h + 1 \in 1 .. Len(w) /\ c \in 1 .. Len(w)
      BY <3>2, <3>3
    <3> QED
      BY <3>1, <3>4
  <2>2. CASE h < A
    <3>1. h <= A /\ h + 1 <= A /\ h \in 1 .. i - q /\ h + 1 \in 1 .. i - q
      BY <1>2, <1>3, <2>2
    <3>2. a[h] = "$" /\ a[h + 1] = "{"
      BY <1>3, <2>1, <3>1, Zenon
    <3>3. q + (h + 1) - 1 = (q + h - 1) + 1
      BY <1>1
    <3>4. v[q + h - 1] = "$" /\ v[(q + h - 1) + 1] = "{"
      BY <1>2, <3>1, <3>2, <3>3, Zenon
    <3> DEFINE o == q + h - 1
    <3>5. /\ o \in q .. Len(v) /\ o < Len(v) /\ o < i
          /\ j \in o + 2 .. Len(v)
      BY <1>1, <3>1
    <3> HIDE DEF o
    <3>6. Opening(v, o)
      BY <3>4, <3>5 DEF Opening, o
    <3>7. j \in Closings(v, o)
      BY <3>5 DEF Closings, First
    <3>8. o \in Begun(v, q)
      BY <3>5, <3>6, <3>7, Zenon DEF Begun
    <3>9. i <= o
      BY <3>8, Zenon DEF First
    <3> QED
      BY <1>1, <3>5, <3>9
  <2>3. CASE h = A
    <3>1. A < h + 1 /\ h + 1 <= A + G /\ (h + 1) - A = 1
      BY <1>3, <1>4, <2>3
    <3>2. g[1] = "{"
      BY <1>3, <2>1, <3>1, Zenon
    <3> QED
      BY <3>2 DEF Inert
  <2>4. CASE A < h /\ h <= A + G
    <3>1. h - A \in 1 .. G
      BY <1>3, <2>4
    <3>2. g[h - A] = "$"
      BY <1>3, <2>1, <2>4, Zenon
    <3> QED
      BY <3>1, <3>2 DEF Inert, G
  <2>5. CASE A + G < h
    <3> DEFINE d == A + G
    <3>0. d \in Nat /\ Len(w) = d + Len(r) /\ d < h
      BY <1>3, <2>5
    <3> HIDE DEF d
    <3>1. /\ d < h + 1 /\ d < c
          /\ h - d \in 1 .. Len(r) /\ (h + 1) - d = (h - d) + 1
          /\ h - d < Len(r) /\ c - d \in (h - d) + 2 .. Len(r)
      <4>1. h < Len(w) /\ Len(r) \in Nat
        BY <1>3, <2>1
      <4> QED
        BY <3>0, <4>1
    <3>2. \A x \in 1 .. Len(w) : d < x => w[x] = r[x - d]
      BY <1>3, Zenon DEF d
    <3>3. /\ r[h - d] = "$" /\ r[(h - d) + 1] = "{" /\ r[c - d] = "}"
      <4>1. r[h - d] = w[h] /\ r[(h + 1) - d] = w[h + 1] /\ r[c - d] = w[c]
        BY <2>1, <3>0, <3>1, <3>2, Zenon
      <4> QED
        BY <1>5, <2>1, <3>1, <4>1, Zenon
    <3>4. Opening(r, h - d)
      BY <3>1, <3>3, Zenon DEF Opening
    <3> QED
      BY <3>1, <3>3, <3>4, NoneBegun, Zenon
  <2> QED
    BY <1>3, <2>2, <2>3, <2>4, <2>5
<1>6. Begun(w, 1) = {}
  BY <1>5, NothingBegun
<1> QED
  BY <1>3, <1>6 DEF w, a

\* What follows the last reference has none.
LEMMA NothingAfter ==
    ASSUME NEW v \in Seq(Symbols), NEW p \in 1 .. Len(v) + 1, Begun(v, p) = {}
    PROVE  /\ SubSeq(v, p, Len(v)) \in Seq(Symbols)
           /\ Begun(SubSeq(v, p, Len(v)), 1) = {}
<1> DEFINE w == SubSeq(v, p, Len(v))
<1>1. Len(v) \in Nat /\ p \in Nat \ {0}
  BY LenProperties
<1>2. /\ w \in Seq(Symbols) /\ Len(w) = Len(v) - p + 1
      /\ \A k \in 1 .. Len(v) - p + 1 : w[k] = v[p + k - 1]
  <2>1. Len(v) \in p - 1 .. Len(v)
    BY <1>1
  <2> QED
    BY <2>1, PartOf
<1> HIDE DEF w
<1>3. ASSUME NEW h \in 1 .. Len(w), NEW c \in h + 2 .. Len(w),
             Opening(w, h) /\ w[c] = "}"
      PROVE  FALSE
  <2> DEFINE o == p + h - 1
             e == p + c - 1
  <2>1. w[h] = "$" /\ w[h + 1] = "{" /\ w[c] = "}"
    BY <1>3, Zenon DEF Opening
  <2>2. /\ h \in 1 .. Len(v) - p + 1 /\ h + 1 \in 1 .. Len(v) - p + 1
        /\ c \in 1 .. Len(v) - p + 1
    BY <1>1, <1>2
  <2>3. p + (h + 1) - 1 = o + 1
    BY <1>1
  <2>4. v[o] = "$" /\ v[o + 1] = "{" /\ v[e] = "}"
    BY <1>2, <2>1, <2>2, <2>3, Zenon
  <2>5. o \in p .. Len(v) /\ o < Len(v) /\ e \in o + 2 .. Len(v)
    BY <1>1, <1>2
  <2> HIDE DEF o, e
  <2>6. Opening(v, o)
    BY <2>4, <2>5, Zenon DEF Opening
  <2>7. e \in Closings(v, o)
    BY <2>4, <2>5, Zenon DEF Closings
  <2>8. o \in Begun(v, p)
    BY <2>5, <2>6, <2>7, Zenon DEF Begun
  <2> QED
    BY <2>8
<1>4. Begun(w, 1) = {}
  BY <1>3, NothingBegun
<1> QED
  BY <1>2, <1>4 DEF w

\* A failed expansion has no reference.
LEMMA NothingInFailed == Scan(Failed) = <<>>
<1>1. Failed \in Seq({Failed[1]}) /\ Len(Failed) = 1
  BY DEF Failed
<1>2. Begun(Failed, 1) = {}
  <2>1. \A h \in 1 .. Len(Failed) : \A c \in h + 2 .. Len(Failed) : FALSE
    BY <1>1
  <2> QED
    BY <2>1, NothingBegun
<1> QED
  BY <1>1, <1>2, NothingScanned

\* Nothing came out, or something without a reference.
Clean(w) == w = Failed \/ (w \in Seq(Symbols) /\ Begun(w, 1) = {})

\* A value that was accepted is clean from before a reference on if it is so
\* from after it.
LEMMA CleanBefore ==
    ASSUME NEW v \in Seq(Symbols), text \in [Names -> Seq(Symbols)],
           NEW k \in 1 .. Len(Scan(v)), Known(Name(v, Scan(v)[k])), Plain,
           NEW rest, Clean(rest), Stands(v, Scan(v)[k]) # <<>>, rest # Failed
    PROVE  Clean(SubSeq(v, After(Scan(v), 1, k - 1), Scan(v)[k].start - 1)
                 \o Stands(v, Scan(v)[k]) \o rest)
<1> DEFINE s == Scan(v)
           q == After(s, 1, k - 1)
           i == s[k].start
           j == s[k].end
           g == Stands(v, s[k])
<1>1. /\ q \in 1 .. Len(v) /\ i \in q .. Len(v) /\ j \in i + 2 .. Len(v)
      /\ g \in Seq(Symbols) /\ g = Got(v, s[k])
  BY RefIs
<1>2. First(v, q, i, j) /\ s[k] \in Ref
  BY ScanIs DEF First
<1>3. i \in 1 .. Len(v)
  <2> HIDE DEF q, i
  <2> QED
    BY <1>1
<1>4. PICK n \in Names : g = text[n]
  BY <1>1, <1>2, <1>3, StandsIs
<1>5. Inert(g)
  <2> HIDE DEF g
  <2>1. Len(g) \in Nat /\ DOMAIN g = 1 .. Len(g)
    BY <1>1, LenProperties
  <2>2. g # <<>>
    BY DEF g
  <2>3. Len(g) # 0
    BY <1>1, <2>2, EmptySeq
  <2>4. 1 \in 1 .. Len(g)
    BY <2>1, <2>3
  <2>5. \A x \in DOMAIN g : g[x] # "$" /\ (x = 1 => g[x] # "{")
    BY <1>4, Zenon DEF Plain
  <2> QED
    BY <2>1, <2>2, <2>4, <2>5, Zenon DEF Inert
<1>6. rest \in Seq(Symbols) /\ Begun(rest, 1) = {}
  BY DEF Clean
<1> HIDE DEF q, i, j, g
<1>7. /\ SubSeq(v, q, i - 1) \o g \o rest \in Seq(Symbols)
      /\ Begun(SubSeq(v, q, i - 1) \o g \o rest, 1) = {}
  BY <1>1, <1>2, <1>5, <1>6, NothingTogether
<1> QED
  BY <1>7 DEF Clean, q, i, g

\* What checkExpand accepts comes out changed and without a reference, or not
\* at all, if no text has a $ or begins with a {.
THEOREM AcceptedComesOutClean == ValuesAndTexts => AcceptedIsResolved
<1> SUFFICES ASSUME ValuesAndTexts, Accepts(value), Plain
             PROVE  Expand(value) # value /\ Scan(Expand(value)) = <<>>
  BY DEF AcceptedIsResolved
<1> DEFINE v == value
           s == Scan(v)
           N == Len(s)
           q(k) == After(s, 1, k)
<1>1. v \in Seq(Symbols) /\ text \in [Names -> Seq(Symbols)]
  BY DEF ValuesAndTexts
<1>2. /\ N \in Nat /\ DOMAIN s = 1 .. N
      /\ \A k \in 0 .. N : q(k) \in 1 .. Len(v) + 1
      /\ Begun(v, q(N)) = {}
  BY <1>1, ScanIs
<1>3. PICK f :
        /\ Meaning(v) = f[1]
        /\ f[q(N)] = SubSeq(v, q(N), Len(v))
        /\ \A k \in 1 .. N :
             f[q(k - 1)] = IF Stands(v, s[k]) = <<>> \/ f[s[k].end + 1] = Failed
                           THEN Failed
                           ELSE SubSeq(v, q(k - 1), s[k].start - 1)
                                \o Stands(v, s[k]) \o f[s[k].end + 1]
  BY <1>1, MeaningAt, Zenon
<1>4. ASSUME NEW k \in 1 .. N
      PROVE  Known(Name(v, s[k])) /\ q(k) = s[k].end + 1
  <2>1. s[k] \in ToSet(s)
    BY <1>2 DEF ToSet
  <2>2. Known(Name(v, s[k]))
    BY <2>1, Zenon DEF Accepts
  <2> QED
    BY <1>1, <2>2, RefIs
<1>5. ASSUME NEW k \in 1 .. N, Clean(f[q(k)]) PROVE Clean(f[q(k - 1)])
  <2>1. CASE Stands(v, s[k]) = <<>> \/ f[s[k].end + 1] = Failed
    <3>1. f[q(k - 1)] = Failed
      BY <1>3, <2>1, Zenon
    <3> QED
      BY <3>1 DEF Clean
  <2>2. CASE Stands(v, s[k]) # <<>> /\ f[s[k].end + 1] # Failed
    <3>1. f[q(k - 1)] = SubSeq(v, q(k - 1), s[k].start - 1)
                        \o Stands(v, s[k]) \o f[s[k].end + 1]
      BY <1>3, <2>2, Zenon
    <3>2. Clean(f[s[k].end + 1])
      BY <1>4, <1>5
    <3>3. Clean(SubSeq(v, q(k - 1), s[k].start - 1)
                \o Stands(v, s[k]) \o f[s[k].end + 1])
      <4>1. Known(Name(v, Scan(v)[k]))
        BY <1>4
      <4> QED
        BY <1>1, <2>2, <3>2, <4>1, CleanBefore
    <3> QED
      BY <3>1, <3>3, Zenon
  <2> QED
    BY <2>1, <2>2
<1> HIDE DEF q
<1>6. Clean(f[q(N)])
  <2>1. q(N) \in 1 .. Len(v) + 1
    BY <1>2
  <2> QED
    BY <1>1, <1>2, <1>3, <2>1, NothingAfter DEF Clean
<1> DEFINE D == {k \in 0 .. N : Clean(f[q(N - k)])}
<1>7. Clean(f[q(0)])
  <2>1. 0 \in D
    <3>1. 0 \in 0 .. N /\ N - 0 = N
      BY <1>2
    <3> QED
      BY <1>6, <3>1
  <2>2. ASSUME NEW k \in 0 .. N - 1, k \in D PROVE k + 1 \in D
    <3> DEFINE m == N - k
    <3>1. m \in 1 .. N /\ N - (k + 1) = m - 1 /\ k + 1 \in 0 .. N
      BY <1>2
    <3>2. Clean(f[q(m)])
      BY <2>2
    <3> HIDE DEF m
    <3>3. Clean(f[q(m - 1)])
      BY <1>5, <3>1, <3>2
    <3> QED
      BY <3>1, <3>3
  <2>3. \A k \in 0 .. N : k \in D
    <3> HIDE DEF D, N
    <3> QED
      BY <1>2, <2>1, <2>2, Upwards
  <2>4. N \in 0 .. N /\ N - N = 0
    BY <1>2
  <2>5. Clean(f[q(N - N)])
    BY <2>3, <2>4
  <2> QED
    BY <2>4, <2>5
<1>8. Clean(Expand(v))
  <2>1. q(0) = 1
    BY DEF q, After
  <2>2. Expand(v) = Meaning(v)
    BY ExpandsWhatIsMeant DEF ExpandsAsWritten
  <2> QED
    BY <1>3, <1>7, <2>1, <2>2, Zenon
<1>9. Scan(Expand(v)) = <<>>
  <2>1. CASE Expand(v) = Failed
    BY <2>1, NothingInFailed
  <2>2. CASE Expand(v) \in Seq(Symbols) /\ Begun(Expand(v), 1) = {}
    BY <2>2, NothingScanned
  <2> QED
    BY <1>8, <2>1, <2>2 DEF Clean
<1>10. s # <<>>
  BY DEF Accepts
<1> QED
  BY <1>9, <1>10
-----------------------------------------------------------------------------
(* What is listed                                                          *)

\* A reference to n is written from i to j.
Writes(v, i, j, n) == SubSeq(v, i, j) = <<"$", "{", n, "}">>

\* What is written at the four positions of a reference.
LEMMA FourSymbols ==
    ASSUME NEW v \in Seq(Symbols), NEW i \in 1 .. Len(v),
           NEW j \in 1 .. Len(v), i + 3 = j, NEW n
    PROVE  Writes(v, i, j, n) <=>
               v[i] = "$" /\ v[i + 1] = "{" /\ v[i + 2] = n /\ v[j] = "}"
<1> DEFINE w == SubSeq(v, i, j)
           u == <<v[i], v[i + 1], v[i + 2], v[j]>>
<1>1. Len(v) \in Nat /\ j - i + 1 = 4
  BY LenProperties
<1>2. w \in Seq(Symbols) /\ Len(w) = 4 /\ \A k \in 1 .. 4 : w[k] = v[i + k - 1]
  <2>1. i \in 1 .. Len(v) + 1 /\ j \in i - 1 .. Len(v)
    BY <1>1
  <2>2. /\ w \in Seq(Symbols) /\ Len(w) = j - i + 1
        /\ \A k \in 1 .. j - i + 1 : w[k] = v[i + k - 1]
    BY <2>1, PartOf
  <2> QED
    BY <1>1, <2>2, Zenon
<1> HIDE DEF w
<1>3. w[1] = v[i] /\ w[2] = v[i + 1] /\ w[3] = v[i + 2] /\ w[4] = v[j]
  <2>1. /\ i + 1 - 1 = i /\ i + 2 - 1 = i + 1 /\ i + 3 - 1 = i + 2
        /\ i + 4 - 1 = j
    OBVIOUS
  <2>2. 1 \in 1 .. 4 /\ 2 \in 1 .. 4 /\ 3 \in 1 .. 4 /\ 4 \in 1 .. 4
    OBVIOUS
  <2> QED
    BY <1>2, <2>1, <2>2, Zenon
<1>4. w = u
  BY <1>2, <1>3
<1>5. u = <<"$", "{", n, "}">> <=>
          v[i] = "$" /\ v[i + 1] = "{" /\ v[i + 2] = n /\ v[j] = "}"
  OBVIOUS
<1> QED
  BY <1>4, <1>5 DEF w, Writes

\* A sequence of one symbol.
LEMMA OneSymbol ==
    ASSUME NEW w \in Seq(Symbols), NEW n
    PROVE  w = <<n>> <=> Len(w) = 1 /\ w[1] = n
OBVIOUS

\* ref is to n.
RefersTo(v, ref, n) == Name(v, ref) = <<n>>

\* A reference to a name in the closed set has four symbols.
LEMMA NamedHasFour ==
    ASSUME NEW v \in Seq(Symbols), NEW ref \in Ref, NEW n \in Names,
           ref.start \in 1 .. Len(v), ref.end \in ref.start + 2 .. Len(v)
    PROVE  RefersTo(v, ref, n) <=>
               ref.start + 3 = ref.end /\ v[ref.start + 2] = n
<1> DEFINE i == ref.start
           j == ref.end
           w == SubSeq(v, i + 2, j - 1)
<1>1. Len(v) \in Nat /\ i \in 1 .. Len(v) /\ j \in i + 2 .. Len(v)
  BY LenProperties
<1>2. Name(v, ref) = w
  BY DEF Name
<1> HIDE DEF i, j
<1>3. /\ w \in Seq(Symbols) /\ Len(w) = j - i - 2
      /\ \A k \in 1 .. j - i - 2 : w[k] = v[i + 2 + k - 1]
  <2>1. /\ i + 2 \in 1 .. Len(v) + 1 /\ j - 1 \in (i + 2) - 1 .. Len(v)
        /\ (j - 1) - (i + 2) + 1 = j - i - 2
    BY <1>1
  <2> QED
    BY <2>1, PartOf
<1> HIDE DEF w
<1>4. w = <<n>> <=> Len(w) = 1 /\ w[1] = n
  BY <1>3, OneSymbol
<1>5. Len(w) = 1 <=> i + 3 = j
  BY <1>1, <1>3
<1>6. i + 3 = j => w[1] = v[i + 2]
  <2>1. i + 3 = j => 1 \in 1 .. j - i - 2 /\ i + 2 + 1 - 1 = i + 2
    BY <1>1
  <2> QED
    BY <1>3, <2>1, Zenon
<1> QED
  BY <1>2, <1>4, <1>5, <1>6, Zenon DEF i, j, RefersTo

\* The first reference that ends at h or later, if h is before the end of one.
LEMMA FirstEnding ==
    ASSUME NEW s, NEW N \in Nat, NEW h \in Nat,
           NEW K \in 1 .. N, s[K].end >= h,
           \A k \in 1 .. N : s[k].end \in Nat
    PROVE  \E m \in 1 .. K : s[m].end >= h /\ \A k \in 1 .. m - 1 : s[k].end < h
<1> DEFINE T == {k \in 1 .. K : s[k].end >= h}
<1>1. T \subseteq Nat /\ K \in T
  OBVIOUS
<1>2. Min(T) \in T /\ \A y \in T : Min(T) <= y
  BY <1>1, MinIsLeast
<1>3. PICK m \in 1 .. K : s[m].end >= h /\ \A y \in T : m <= y
  BY <1>2
<1>4. ASSUME NEW k \in 1 .. m - 1, ~(s[k].end < h) PROVE FALSE
  <2>1. s[k].end >= h /\ k \in 1 .. K
    BY <1>4
  <2>2. k \in T
    BY <2>1
  <2> QED
    BY <1>3, <2>2
<1> QED
  BY <1>3, <1>4

\* The references do not overlap: what ends before one begins before it ends.
LEMMA InOrder ==
    ASSUME NEW v \in Seq(Symbols), text \in [Names -> Seq(Symbols)],
           NEW K \in 1 .. Len(Scan(v))
    PROVE  \A m \in 1 .. K - 1 : Scan(v)[m].end < Scan(v)[K].start
<1> DEFINE s == Scan(v)
           D == {x \in 0 .. K - 1 : x = 0 \/ s[K - x].end < s[K].start}
<1>1. K \in 1 .. Len(s) /\ Len(s) \in Nat /\ K - 1 \in Nat
  BY RefIs
<1>2. ASSUME NEW k \in 1 .. Len(s), k # 1
      PROVE  /\ s[k - 1].end < s[k].start /\ s[k].start < s[k].end
             /\ s[k - 1].end \in Nat /\ s[k].start \in Nat /\ s[k].end \in Nat
  <2>1. k - 1 \in 1 .. Len(s) /\ k - 1 # 0
    BY <1>1, <1>2
  <2>2. After(s, 1, k - 1) = s[k - 1].end + 1
    BY <2>1 DEF After
  <2>3. /\ After(s, 1, k - 1) \in 1 .. Len(v)
        /\ s[k].start \in After(s, 1, k - 1) .. Len(v)
        /\ s[k].end \in s[k].start + 2 .. Len(v)
    BY RefIs
  <2>4. s[k - 1] \in Ref
    BY <2>1, ScanIs
  <2>5. s[k - 1].end \in Nat
    BY <2>4 DEF Ref
  <2>6. Len(v) \in Nat
    BY LenProperties
  <2> DEFINE q == After(s, 1, k - 1)
             a == s[k - 1].end
             b == s[k].start
             e == s[k].end
  <2>7. /\ q = a + 1 /\ q \in 1 .. Len(v) /\ b \in q .. Len(v)
        /\ e \in b + 2 .. Len(v) /\ a \in Nat
    BY <2>2, <2>3, <2>5, Zenon
  <2> HIDE DEF s, q, a, b, e
  <2>8. a < b /\ b < e /\ b \in Nat /\ e \in Nat
    BY <2>6, <2>7
  <2> QED
    BY <2>7, <2>8 DEF a, b, e
<1> HIDE DEF s
<1>3. 0 \in D
  BY <1>1
<1>4. ASSUME NEW x \in 0 .. (K - 1) - 1, x \in D PROVE x + 1 \in D
  <2>1. x + 1 \in 0 .. K - 1 /\ K - (x + 1) = (K - x) - 1
        /\ K - x \in 1 .. Len(s) /\ K - x # 1
    BY <1>1
  <2>2. s[(K - x) - 1].end < s[K - x].start
    BY <1>2, <2>1
  <2>3. CASE x = 0
    <3>1. K - x = K
      BY <1>1, <2>3
    <3> QED
      BY <2>1, <2>2, <3>1
  <2>4. CASE x # 0
    <3>1. s[K - x].end < s[K].start
      BY <1>4, <2>4
    <3>2. /\ s[K - x].start < s[K - x].end
          /\ s[(K - x) - 1].end \in Nat /\ s[K - x].start \in Nat
          /\ s[K - x].end \in Nat
      BY <1>2, <2>1
    <3>3. s[K].start \in Nat
      <4>1. K \in 1 .. Len(s) /\ K # 1
        BY <1>1, <2>1
      <4> QED
        BY <1>2, <4>1
    <3>4. s[(K - x) - 1].end < s[K].start
      BY <2>2, <3>1, <3>2, <3>3
    <3> QED
      BY <2>1, <3>4
  <2> QED
    BY <2>3, <2>4
<1>5. \A x \in 0 .. K - 1 : x \in D
  <2> DEFINE n == K - 1
  <2>1. n \in Nat /\ 0 \in D /\ \A x \in 0 .. n - 1 : x \in D => x + 1 \in D
    BY <1>1, <1>3, <1>4
  <2> HIDE DEF D, n
  <2>2. \A x \in 0 .. n : x \in D
    BY <2>1, Upwards
  <2> QED
    BY <2>2 DEF n
<1>6. ASSUME NEW m \in 1 .. K - 1 PROVE s[m].end < s[K].start
  <2>1. K - m \in 0 .. K - 1 /\ K - (K - m) = m /\ K - m # 0
    BY <1>1
  <2>2. K - m \in D
    BY <1>5, <2>1
  <2>3. s[K - (K - m)].end < s[K].start
    BY <2>1, <2>2
  <2> QED
    BY <2>1, <2>3
<1> QED
  BY <1>6 DEF s

\* Where the scan is when it meets the first reference that ends at h or
\* later: not past h.
LEMMA NotPast ==
    ASSUME NEW v \in Seq(Symbols), text \in [Names -> Seq(Symbols)],
           NEW h \in 1 .. Len(v), NEW m \in 1 .. Len(Scan(v)) + 1,
           \A k \in 1 .. m - 1 : Scan(v)[k].end < h
    PROVE  After(Scan(v), 1, m - 1) \in 1 .. h
<1> DEFINE s == Scan(v)
           q == After(s, 1, m - 1)
<1>1. Len(s) \in Nat /\ Len(v) \in Nat
  BY ScanIs, LenProperties
<1>2. q \in 1 .. Len(v) + 1
  <2>1. m - 1 \in 0 .. Len(s)
    BY <1>1
  <2> QED
    BY <2>1, ScanIs
<1>3. CASE m = 1
  <2>1. q = 1
    BY <1>3 DEF After
  <2> QED
    BY <1>1, <2>1
<1>4. CASE m # 1
  <2>1. m - 1 \in 1 .. m - 1 /\ m - 1 # 0 /\ m - 1 \in 1 .. Len(s)
    BY <1>1, <1>4
  <2>2. q = s[m - 1].end + 1
    BY <2>1 DEF After
  <2>3. s[m - 1].end < h
    BY <2>1
  <2>4. s[m - 1] \in Ref
    BY <2>1, ScanIs
  <2>5. s[m - 1].end \in Nat
    BY <2>4 DEF Ref
  <2> HIDE DEF s, q
  <2>6. q \in 1 .. h
    BY <1>1, <1>2, <2>2, <2>3, <2>5
  <2> QED
    BY <2>6 DEF s, q
<1> QED
  BY <1>3, <1>4

\* Before position i, nothing begins that does not end before it too.
Closed(v, i) ==
    \A h \in 1 .. i - 1 :
        Opening(v, h) => \E k \in h + 2 .. i - 1 : v[k] = "}"

\* What is listed is written, outside any other reference.
LEMMA ListedWritten ==
    ASSUME NEW v \in Seq(Symbols), text \in [Names -> Seq(Symbols)],
           NEW K \in 1 .. Len(Scan(v)), NEW n \in Names,
           RefersTo(v, Scan(v)[K], n)
    PROVE  \E i, j \in 1 .. Len(v) :
               i + 3 = j /\ Writes(v, i, j, n) /\ Closed(v, i)
<1> DEFINE s == Scan(v)
           i == s[K].start
           j == s[K].end
<1>1. /\ i \in 1 .. Len(v) /\ j \in i + 2 .. Len(v) /\ j \in 1 .. Len(v)
      /\ Len(v) \in Nat
  <2>1. /\ After(s, 1, K - 1) \in 1 .. Len(v)
        /\ i \in After(s, 1, K - 1) .. Len(v) /\ j \in i + 2 .. Len(v)
    BY RefIs
  <2> HIDE DEF s, i, j
  <2> QED
    BY <2>1, LenProperties
<1>2. s[K] \in Ref /\ Opening(v, i) /\ v[j] = "}"
  BY ScanIs
<1>3. i + 3 = j /\ v[i + 2] = n
  BY <1>1, <1>2, NamedHasFour
<1>4. \A m \in 1 .. K - 1 : s[m].end < i
  BY InOrder
<1>5. Len(s) \in Nat /\ K \in 1 .. Len(s)
  BY ScanIs
<1>6. \A k \in 1 .. Len(s) : s[k].end \in Nat
  BY ScanIs DEF Ref
<1> HIDE DEF i, j
<1>7. Writes(v, i, j, n)
  <2>1. v[i] = "$" /\ v[i + 1] = "{"
    BY <1>2, Zenon DEF Opening
  <2> QED
    BY <1>1, <1>2, <1>3, <2>1, FourSymbols
<1>8. ASSUME NEW h \in 1 .. i - 1, Opening(v, h)
      PROVE  \E k \in h + 2 .. i - 1 : v[k] = "}"
  <2>1. /\ h \in 1 .. Len(v) /\ h \in Nat /\ h < i /\ j >= h
        /\ j \in h + 2 .. Len(v)
    BY <1>1
  <2>2. PICK m \in 1 .. K : s[m].end >= h /\ \A k \in 1 .. m - 1 : s[k].end < h
    <3>1. s[K].end >= h
      BY <2>1 DEF j
    <3>2. \A k \in 1 .. K : s[k].end \in Nat
      BY <1>5, <1>6
    <3>3. K \in Nat /\ K \in 1 .. K
      BY <1>5
    <3> HIDE DEF s
    <3> QED
      BY <2>1, <3>1, <3>2, <3>3, FirstEnding
  <2> DEFINE q == After(s, 1, m - 1)
             b == s[m].start
             e == s[m].end
  <2>3. q \in 1 .. h
    <3>1. m \in 1 .. Len(s) + 1
      BY <1>5
    <3> QED
      BY <2>1, <2>2, <3>1, NotPast
  <2>4. /\ \A x \in Begun(v, q) : b <= x
        /\ e \in b + 2 .. Len(v) /\ v[e] = "}"
    <3>1. m \in 1 .. Len(s)
      BY <1>5
    <3> QED
      BY <3>1, ScanIs
  <2>5. h \in Begun(v, q)
    <3>1. j \in Closings(v, h)
      BY <1>2, <2>1, Zenon DEF Closings
    <3>2. h \in q .. Len(v)
      BY <2>1, <2>3
    <3> HIDE DEF q
    <3> QED
      BY <1>8, <3>1, <3>2, Zenon DEF Begun
  <2>6. b <= h
    BY <2>4, <2>5
  <2>7. m # K
    BY <1>1, <2>1, <2>6 DEF i
  <2>8. e < i
    <3>1. m \in 1 .. K - 1
      BY <1>5, <2>7
    <3> QED
      BY <1>4, <3>1
  <2>9. v[h] = "$" /\ v[h + 1] = "{"
    BY <1>8, Zenon DEF Opening
  <2>10. e >= h
    BY <2>2
  <2>11. e # h /\ e # h + 1
    <3>1. v[e] # v[h] /\ v[e] # v[h + 1]
      <4>1. "}" # "$" /\ "}" # "{"
        OBVIOUS
      <4> QED
        BY <2>4, <2>9, <4>1, Zenon
    <3> QED
      BY <3>1, Zenon
  <2>12. e \in Nat
    <3>1. m \in 1 .. Len(s)
      BY <1>5
    <3> QED
      BY <1>6, <3>1
  <2>13. v[e] = "}"
    BY <2>4
  <2> HIDE DEF e
  <2>14. e \in h + 2 .. i - 1
    BY <1>1, <2>1, <2>8, <2>10, <2>11, <2>12
  <2> QED
    BY <2>13, <2>14
<1>9. Closed(v, i)
  BY <1>8 DEF Closed
<1> QED
  BY <1>1, <1>3, <1>7, <1>9

\* What is written, outside any other reference, is listed.
LEMMA WrittenListed ==
    ASSUME NEW v \in Seq(Symbols), text \in [Names -> Seq(Symbols)],
           NEW i \in 1 .. Len(v), NEW j \in 1 .. Len(v), i + 3 = j,
           NEW n \in Names, Writes(v, i, j, n), Closed(v, i)
    PROVE  \E K \in 1 .. Len(Scan(v)) : RefersTo(v, Scan(v)[K], n)
<1> DEFINE s == Scan(v)
           N == Len(s)
<1>1. v[i] = "$" /\ v[i + 1] = "{" /\ v[i + 2] = n /\ v[j] = "}"
  BY FourSymbols
<1>2. Len(v) \in Nat /\ N \in Nat /\ i < Len(v) /\ j \in i + 2 .. Len(v)
      /\ i \in Nat
  <2>1. Len(v) \in Nat
    BY LenProperties
  <2>2. N \in Nat
    BY ScanIs
  <2> HIDE DEF N
  <2> QED
    BY <2>1, <2>2
<1>3. n # "}"
  BY SymbolsAssumption
<1>4. Opening(v, i) /\ j \in Closings(v, i)
  BY <1>1, <1>2, Zenon DEF Opening, Closings
<1>5. ASSUME NEW q \in 1 .. i PROVE i \in Begun(v, q)
  <2>1. i \in q .. Len(v)
    BY <1>2
  <2> QED
    BY <1>4, <2>1, Zenon DEF Begun
<1>6. \A k \in 1 .. N : s[k].end \in Nat
  BY ScanIs DEF Ref
<1>7. \E K \in 1 .. N : s[K].end >= i
  <2> SUFFICES ASSUME \A k \in 1 .. N : ~(s[k].end >= i) PROVE FALSE
    OBVIOUS
  <2>1. \A k \in 1 .. (N + 1) - 1 : s[k].end < i
    <3> HIDE DEF s, N
    <3> QED
      BY <1>2, <1>6
  <2>2. N + 1 \in 1 .. N + 1 /\ (N + 1) - 1 = N
    BY <1>2
  <2>3. After(s, 1, N) \in 1 .. i
    BY <2>1, <2>2, NotPast
  <2>4. Begun(v, After(s, 1, N)) = {}
    BY ScanIs
  <2> QED
    BY <1>5, <2>3, <2>4
<1>8. PICK m \in 1 .. N : s[m].end >= i /\ \A k \in 1 .. m - 1 : s[k].end < i
  <2>1. PICK K \in 1 .. N : s[K].end >= i
    BY <1>7
  <2> HIDE DEF s, N
  <2>2. PICK m \in 1 .. K : s[m].end >= i /\ \A k \in 1 .. m - 1 : s[k].end < i
    BY <1>2, <1>6, <2>1, FirstEnding
  <2>3. m \in 1 .. N
    BY <1>2
  <2> QED
    BY <2>2, <2>3
<1> DEFINE q == After(s, 1, m - 1)
           b == s[m].start
           e == s[m].end
<1>9. q \in 1 .. i
  <2>1. m \in 1 .. Len(s) + 1
    BY <1>2
  <2> QED
    BY <1>8, <2>1, NotPast
<1>10. /\ s[m] \in Ref /\ \A x \in Begun(v, q) : b <= x
       /\ e \in b + 2 .. Len(v) /\ v[e] = "}" /\ Opening(v, b)
       /\ \A c \in Closings(v, b) : e <= c
       /\ b \in q .. Len(v)
  BY ScanIs
<1>11. b <= i
  BY <1>5, <1>9, <1>10
<1>12. e >= i
  BY <1>8
<1> HIDE DEF q, b, e
<1>13. b \in 1 .. Len(v) /\ e \in Nat
  <2>1. b \in q .. Len(v) /\ e \in b + 2 .. Len(v)
    BY <1>10
  <2> QED
    BY <1>2, <1>9, <2>1
<1>14. b = i
  <2> SUFFICES ASSUME b # i PROVE FALSE
    OBVIOUS
  <2>1. b \in 1 .. i - 1
    BY <1>2, <1>11, <1>13
  <2>2. PICK c \in b + 2 .. i - 1 : v[c] = "}"
    BY <1>10, <2>1, Zenon DEF Closed
  <2>3. c \in b + 2 .. Len(v) /\ c < i
    BY <1>2, <1>13
  <2>4. c \in Closings(v, b)
    BY <2>2, <2>3, Zenon DEF Closings
  <2>5. e <= c
    BY <1>10, <2>4
  <2> QED
    BY <1>2, <1>12, <1>13, <2>3, <2>5
<1>15. e = j
  <2>1. e <= j
    BY <1>4, <1>10, <1>14
  <2>2. e # i + 2
    BY <1>1, <1>3, <1>10, Zenon
  <2>3. e \in i + 2 .. Len(v)
    BY <1>10, <1>14
  <2> QED
    BY <1>2, <2>1, <2>2, <2>3
<1>16. RefersTo(v, s[m], n)
  <2>1. b + 3 = e /\ v[b + 2] = n
    BY <1>1, <1>14, <1>15
  <2>2. b \in 1 .. Len(v) /\ e \in b + 2 .. Len(v) /\ s[m] \in Ref
    BY <1>10, <1>13
  <2>3. /\ s[m].start \in 1 .. Len(v)
        /\ s[m].end \in s[m].start + 2 .. Len(v)
    BY <2>2, Zenon DEF b, e
  <2>4. RefersTo(v, s[m], n)
          <=> s[m].start + 3 = s[m].end /\ v[s[m].start + 2] = n
    BY <2>2, <2>3, NamedHasFour, Zenon
  <2> QED
    BY <2>1, <2>4, Zenon DEF b, e
<1> QED
  BY <1>16

\* A listing names the references of a value to the closed set, all of them
\* and no other.
THEOREM ListedAsWritten == ValuesAndTexts => ListedIsExpanded
<1> SUFFICES ASSUME ValuesAndTexts, NEW n \in Names
             PROVE  n \in Listed(value) <=>
                      \E i, j \in 1 .. Len(value) :
                        i + 3 = j /\ Writes(value, i, j, n) /\ Closed(value, i)
  BY Zenon DEF ListedIsExpanded, Closed, Writes
<1>1. value \in Seq(Symbols) /\ text \in [Names -> Seq(Symbols)]
  BY DEF ValuesAndTexts
<1>2. DOMAIN Scan(value) = 1 .. Len(Scan(value))
  BY <1>1, ScanIs
<1>3. n \in Listed(value) <=>
        \E K \in 1 .. Len(Scan(value)) : RefersTo(value, Scan(value)[K], n)
  BY <1>2 DEF Listed, ToSet, RefersTo
<1> QED
  BY <1>1, <1>3, ListedWritten, WrittenListed

\* set --expand, ls and the substitution go by the same references: what is
\* accepted comes out clean, and what is listed is what is substituted.
THEOREM CallersDoAgree == ValuesAndTexts => CallersAgree
BY AcceptedComesOutClean, ListedAsWritten DEF CallersAgree
-----------------------------------------------------------------------------
(* Second part: keys and their history                                     *)
USE DefaultAssumption, CountsAssumption, ExpandableAssumption,
    AbsentAssumption, SettingsAssumption, MaxArgsAssumption
-----------------------------------------------------------------------------
(* Sequences                                                               *)

\* The first n of a sequence.
LEMMA TakeProps ==
    ASSUME NEW S, NEW s \in Seq(S), NEW n \in Nat
    PROVE  /\ Take(s, n) \in Seq(S)
           /\ Len(Take(s, n)) = IF Len(s) < n THEN Len(s) ELSE n
           /\ \A i \in 1 .. Len(Take(s, n)) : Take(s, n)[i] = s[i]
BY DEF Take

\* A past state pushed on a list that is then cut to n.
LEMMA PushProps ==
    ASSUME NEW S, NEW s \in Seq(S), NEW x \in S, NEW n \in Nat, n # 0
    PROVE  /\ Push(x, s, n) \in Seq(S)
           /\ Len(s) + 1 < n => Len(Push(x, s, n)) = Len(s) + 1
           /\ Len(s) + 1 >= n => Len(Push(x, s, n)) = n
           /\ Push(x, s, n)[1] = x
           /\ \A i \in 2 .. Len(Push(x, s, n)) : Push(x, s, n)[i] = s[i - 1]
<1> DEFINE u == <<x>> \o s
<1>1. u \in Seq(S) /\ Len(u) = Len(s) + 1
  OBVIOUS
<1>2. u[1] = x /\ \A i \in 2 .. Len(u) : u[i] = s[i - 1]
  OBVIOUS
<1>3. Push(x, s, n) = Take(u, n)
  BY DEF Push
<1> HIDE DEF u
<1>4. /\ Push(x, s, n) \in Seq(S)
      /\ Len(Push(x, s, n)) = IF Len(u) < n THEN Len(u) ELSE n
      /\ \A i \in 1 .. Len(Push(x, s, n)) : Push(x, s, n)[i] = u[i]
  <2>1. /\ Take(u, n) \in Seq(S)
        /\ Len(Take(u, n)) = IF Len(u) < n THEN Len(u) ELSE n
        /\ \A i \in 1 .. Len(Take(u, n)) : Take(u, n)[i] = u[i]
    BY <1>1, TakeProps, Zenon
  <2> QED
    BY <1>3, <2>1, Zenon
<1>5. /\ Len(s) + 1 < n => Len(Push(x, s, n)) = Len(s) + 1
      /\ Len(s) + 1 >= n => Len(Push(x, s, n)) = n
  BY <1>1, <1>4
<1>6. Len(Push(x, s, n)) \in 1 .. Len(u)
  BY <1>1, <1>5
<1>7. Push(x, s, n)[1] = x
  BY <1>2, <1>4, <1>6
<1>8. \A i \in 2 .. Len(Push(x, s, n)) : Push(x, s, n)[i] = s[i - 1]
  <2> SUFFICES ASSUME NEW i \in 2 .. Len(Push(x, s, n))
               PROVE  Push(x, s, n)[i] = s[i - 1]
    OBVIOUS
  <2>1. i \in 2 .. Len(u) /\ i \in 1 .. Len(Push(x, s, n))
    BY <1>6
  <2> QED
    BY <1>2, <1>4, <2>1, Zenon
<1> QED
  BY <1>4, <1>5, <1>7, <1>8, Zenon

\* s is what t begins with.
Begins(s, t) == Len(s) <= Len(t) /\ \A i \in 1 .. Len(s) : s[i] = t[i]

LEMMA BeginsTake ==
    ASSUME NEW S, NEW s \in Seq(S), NEW t \in Seq(S), Begins(s, t)
    PROVE  s = Take(t, Len(s))
<1>1. Take(t, Len(s)) \in Seq(S) /\ Len(Take(t, Len(s))) = Len(s)
  BY TakeProps DEF Begins
<1>2. \A i \in 1 .. Len(s) : Take(t, Len(s))[i] = s[i]
  BY <1>1, TakeProps DEF Begins
<1> QED
  BY <1>1, <1>2

LEMMA BeginsCut ==
    ASSUME NEW S, NEW s \in Seq(S), NEW t \in Seq(S), NEW n \in Nat, Begins(s, t)
    PROVE  Begins(Take(s, n), Take(t, n))
BY TakeProps DEF Begins

\* p is s with x in front, cut to n.
Pushed(p, x, s, n) ==
    /\ Len(s) + 1 < n => Len(p) = Len(s) + 1
    /\ Len(s) + 1 >= n => Len(p) = n
    /\ p[1] = x
    /\ \A i \in 2 .. Len(p) : p[i] = s[i - 1]

LEMMA PushIsPushed ==
    ASSUME NEW S, NEW s \in Seq(S), NEW x \in S, NEW n \in Nat, n # 0
    PROVE  Pushed(Push(x, s, n), x, s, n)
<1>1. /\ Len(s) + 1 < n => Len(Push(x, s, n)) = Len(s) + 1
      /\ Len(s) + 1 >= n => Len(Push(x, s, n)) = n
  BY PushProps
<1>2. Push(x, s, n)[1] = x
  BY PushProps
<1>3. \A i \in 2 .. Len(Push(x, s, n)) : Push(x, s, n)[i] = s[i - 1]
  BY PushProps
<1> QED
  BY <1>1, <1>2, <1>3, Zenon DEF Pushed

LEMMA BeginsPush ==
    ASSUME NEW S, NEW s \in Seq(S), NEW t \in Seq(S), NEW x \in S,
           NEW n \in Nat, n # 0, Begins(s, t)
    PROVE  Begins(Push(x, s, n), Push(x, t, n))
<1>s. Pushed(Push(x, s, n), x, s, n)
  BY PushIsPushed
<1>t. Pushed(Push(x, t, n), x, t, n)
  BY PushIsPushed
<1>1. /\ Len(s) + 1 < n => Len(Push(x, s, n)) = Len(s) + 1
      /\ Len(s) + 1 >= n => Len(Push(x, s, n)) = n
      /\ Push(x, s, n)[1] = x
      /\ \A i \in 2 .. Len(Push(x, s, n)) : Push(x, s, n)[i] = s[i - 1]
  BY <1>s DEF Pushed
<1>2. /\ Len(t) + 1 < n => Len(Push(x, t, n)) = Len(t) + 1
      /\ Len(t) + 1 >= n => Len(Push(x, t, n)) = n
      /\ Push(x, t, n)[1] = x
      /\ \A i \in 2 .. Len(Push(x, t, n)) : Push(x, t, n)[i] = t[i - 1]
  BY <1>t DEF Pushed
<1>3. Len(Push(x, s, n)) <= Len(Push(x, t, n)) /\ Len(Push(x, s, n)) \in Nat
  BY <1>1, <1>2 DEF Begins
<1>4. ASSUME NEW i \in 1 .. Len(Push(x, s, n))
      PROVE  Push(x, s, n)[i] = Push(x, t, n)[i]
  <2>1. CASE i = 1
    BY <1>1, <1>2, <2>1
  <2>2. CASE i # 1
    <3>1. /\ i \in 2 .. Len(Push(x, s, n)) /\ i \in 2 .. Len(Push(x, t, n))
          /\ i - 1 \in 1 .. Len(s)
      BY <1>1, <1>3, <2>2
    <3> QED
      BY <1>1, <1>2, <3>1 DEF Begins
  <2> QED
    BY <2>1, <2>2
<1> QED
  BY <1>3, <1>4 DEF Begins
-----------------------------------------------------------------------------
(* The operations on a vault                                               *)

\* How many to keep is a number.
LEMMA KeepType == ASSUME NEW v PROVE Keep(v) \in Nat
BY DEF Keep

LEMMA KeptType ==
    ASSUME NEW v, IsVault(v), NEW k \in Keys PROVE Kept(v, k) \in Seq(State)
BY DEF IsVault, Kept

\* Giving a key a new list touches no other key and nothing else.
LEMMA WithKeptProps ==
    ASSUME NEW v, IsVault(v), NEW k \in Keys, NEW s \in Seq(State)
    PROVE  LET w == WithKept(v, k, s)
           IN  /\ IsVault(w)
               /\ w.secrets = v.secrets /\ w.marks = v.marks
               /\ DOMAIN w.history = DOMAIN v.history \cup {k}
               /\ \A x \in DOMAIN w.history :
                     w.history[x] = IF x = k THEN s ELSE v.history[x]
               /\ \A x \in Keys : Kept(w, x) = IF x = k THEN s ELSE Kept(v, x)
<1> DEFINE h == [x \in DOMAIN v.history \cup {k} |->
                    IF x = k THEN s ELSE v.history[x]]
           w == WithKept(v, k, s)
<1>1. w = [v EXCEPT !.history = h]
  BY DEF WithKept
<1>2. /\ w.history = h /\ w.secrets = v.secrets /\ w.marks = v.marks
      /\ w.setting = v.setting
      /\ w \in [secrets : [Keys -> State], setting : Settings,
                marks : SUBSET Keys, history : {h}]
  BY <1>1 DEF IsVault
<1>3. h \in [DOMAIN h -> Seq(State)] /\ DOMAIN h \subseteq Keys
  BY DEF IsVault
<1> QED
  BY <1>2, <1>3 DEF IsVault, Kept

\* Recording touches only the list of its key, and only when the vault keeps
\* past values.
LEMMA RecordProps ==
    ASSUME NEW v, IsVault(v), NEW k \in Keys
    PROVE  /\ IsVault(Record(v, k))
           /\ Record(v, k).secrets = v.secrets /\ Record(v, k).marks = v.marks
           /\ \A x \in DOMAIN Record(v, k).history :
                 \/ /\ x \in DOMAIN v.history
                    /\ Record(v, k).history[x] = v.history[x]
                 \/ Record(v, k).history[x] # <<>>
           /\ \A x \in Keys \ {k} : Kept(Record(v, k), x) = Kept(v, x)
           /\ Keep(v) = 0 => Kept(Record(v, k), k) = Kept(v, k)
           /\ Keep(v) # 0 => Kept(Record(v, k), k) =
                                Push(v.secrets[k], Kept(v, k), Keep(v))
<1>1. CASE Keep(v) = 0
  <2>1. Record(v, k) = v
    BY <1>1 DEF Record
  <2> QED
    BY <1>1, <2>1
<1>2. CASE Keep(v) # 0
  <2> DEFINE s == Push(v.secrets[k], Kept(v, k), Keep(v))
             w == WithKept(v, k, s)
  <2>1. v.secrets[k] \in State
    BY DEF IsVault
  <2>2. s \in Seq(State) /\ Len(s) # 0
    BY <1>2, <2>1, KeepType, KeptType, PushProps
  <2>3. Record(v, k) = w
    BY <1>2 DEF Record
  <2>4. s # <<>>
    BY <2>2
  <2> HIDE DEF s
  <2>5. /\ IsVault(w)
        /\ w.secrets = v.secrets /\ w.marks = v.marks
        /\ DOMAIN w.history = DOMAIN v.history \cup {k}
        /\ \A x \in DOMAIN w.history :
              w.history[x] = IF x = k THEN s ELSE v.history[x]
        /\ \A x \in Keys : Kept(w, x) = IF x = k THEN s ELSE Kept(v, x)
    BY <2>2, WithKeptProps
  <2> HIDE DEF w
  <2>6. Kept(w, k) = s /\ \A x \in Keys \ {k} : Kept(w, x) = Kept(v, x)
    BY <2>5
  <2>7. \A x \in DOMAIN w.history :
           \/ x \in DOMAIN v.history /\ w.history[x] = v.history[x]
           \/ w.history[x] # <<>>
    BY <2>4, <2>5
  <2> QED
    BY <1>2, <2>3, <2>5, <2>6, <2>7 DEF s
<1> QED
  BY <1>1, <1>2

\* What put and drop amount to.
LEMMA PutProps ==
    ASSUME NEW v, IsVault(v), NEW k \in Keys, NEW val \in Vals
    PROVE  LET w == Put(v, k, val)
           IN  /\ IsVault(w)
               /\ w.secrets = [v.secrets EXCEPT ![k] = val]
               /\ w.marks = v.marks
               /\ w.history = IF v.secrets[k] = val THEN v.history
                              ELSE Record(v, k).history
<1>1. CASE v.secrets[k] = val
  <2>1. Put(v, k, val) = v
    BY <1>1 DEF Put
  <2>2. v.secrets = [v.secrets EXCEPT ![k] = val]
    BY <1>1 DEF IsVault
  <2> QED
    BY <1>1, <2>1, <2>2
<1>2. CASE v.secrets[k] # val
  <2> DEFINE r == Record(v, k)
  <2>1. IsVault(r) /\ r.secrets = v.secrets /\ r.marks = v.marks
    BY RecordProps
  <2>2. Put(v, k, val) = [r EXCEPT !.secrets[k] = val]
    BY <1>2 DEF Put
  <2>3. val \in State
    BY DEF State
  <2> HIDE DEF r
  <2>4. LET w == [r EXCEPT !.secrets[k] = val]
        IN  /\ IsVault(w) /\ w.secrets = [r.secrets EXCEPT ![k] = val]
            /\ w.marks = r.marks /\ w.history = r.history
    BY <2>1, <2>3 DEF IsVault
  <2> QED
    BY <1>2, <2>1, <2>2, <2>4 DEF r
<1> QED
  BY <1>1, <1>2

LEMMA SetExpandProps ==
    ASSUME NEW v, IsVault(v), NEW k \in Keys, NEW on \in BOOLEAN
    PROVE  /\ IsVault(SetExpand(v, k, on))
           /\ SetExpand(v, k, on).secrets = v.secrets
           /\ SetExpand(v, k, on).history = v.history
           /\ on => SetExpand(v, k, on).marks = v.marks \cup {k}
           /\ ~on => SetExpand(v, k, on).marks = v.marks \ {k}
BY DEF IsVault, SetExpand

LEMMA DropProps ==
    ASSUME NEW v, IsVault(v), NEW k \in Keys
    PROVE  LET w == Drop(v, k)
           IN  /\ IsVault(w)
               /\ w.secrets = [v.secrets EXCEPT ![k] = Absent]
               /\ w.marks = v.marks \ {k}
               /\ w.history = Record(v, k).history
<1> DEFINE r == Record(v, k)
           u == SetExpand(r, k, FALSE)
<1>0. Drop(v, k) = [u EXCEPT !.secrets[k] = Absent]
  BY DEF Drop
<1>1. IsVault(r) /\ r.secrets = v.secrets /\ r.marks = v.marks
  BY RecordProps
<1> HIDE DEF r
<1>2. /\ IsVault(u) /\ u.secrets = v.secrets /\ u.history = r.history
      /\ u.marks = v.marks \ {k}
  <2>1. u = [r EXCEPT !.marks = @ \ {k}]
    BY DEF SetExpand
  <2> QED
    BY <1>1, <2>1 DEF IsVault
<1> HIDE DEF u
<1>4. LET w == [u EXCEPT !.secrets[k] = Absent]
      IN  /\ IsVault(w) /\ w.secrets = [u.secrets EXCEPT ![k] = Absent]
          /\ w.marks = u.marks /\ w.history = u.history
  <2>1. Absent \in State
    BY DEF State
  <2> QED
    BY <1>2, <2>1 DEF IsVault
<1> QED
  BY <1>2, <1>0, <1>4 DEF r

LEMMA SwitchedProps ==
    ASSUME NEW v, IsVault(v), NEW n \in Nat
    PROVE  LET w == Switched(v, n)
           IN  /\ IsVault(w)
               /\ w.secrets = v.secrets /\ w.marks = v.marks
               /\ DOMAIN w.history = DOMAIN v.history
               /\ \A x \in DOMAIN v.history :
                     w.history[x] = IF n = 0 THEN v.history[x]
                                    ELSE Take(v.history[x], n)
<1> DEFINE h == IF n = 0 THEN v.history
                ELSE [k \in DOMAIN v.history |-> Take(v.history[k], n)]
           st == IF n = DefaultHistory THEN Unset ELSE n
<1>1. h \in [DOMAIN v.history -> Seq(State)]
  <2>1. \A k \in DOMAIN v.history : Take(v.history[k], n) \in Seq(State)
    BY TakeProps DEF IsVault
  <2> QED
    BY <2>1 DEF IsVault
<1>2. st \in Settings
  BY DEF Settings
<1>3. Switched(v, n) = [v EXCEPT !.setting = st, !.history = h]
  BY DEF Switched
<1>4. \A x \in DOMAIN v.history :
         h[x] = IF n = 0 THEN v.history[x] ELSE Take(v.history[x], n)
  OBVIOUS
<1> HIDE DEF h, st
<1> QED
  BY <1>1, <1>2, <1>3, <1>4 DEF IsVault

LEMMA PurgedProps ==
    ASSUME NEW v, IsVault(v), NEW ks \in SUBSET Keys
    PROVE  LET w == Purged(v, ks)
           IN  /\ IsVault(w)
               /\ w.secrets = v.secrets /\ w.marks = v.marks
               /\ DOMAIN w.history = DOMAIN v.history \ ks
               /\ \A x \in DOMAIN w.history : w.history[x] = v.history[x]
<1> DEFINE h == [k \in DOMAIN v.history \ ks |-> v.history[k]]
<1>1. h \in [DOMAIN v.history \ ks -> Seq(State)]
  BY DEF IsVault
<1>2. Purged(v, ks) = [v EXCEPT !.history = h]
  BY DEF Purged
<1>3. DOMAIN h = DOMAIN v.history \ ks /\ \A x \in DOMAIN h : h[x] = v.history[x]
  OBVIOUS
<1> HIDE DEF h
<1> QED
  BY <1>1, <1>2, <1>3 DEF IsVault
-----------------------------------------------------------------------------
(* The invariant                                                           *)

\* A vault v is sound with respect to what its history owes (o) and to what
\* was replaced since the last purges (ps).
Sound(v, o, ps) ==
    /\ v.marks \subseteq Live(v)
    /\ \A k \in DOMAIN v.history : v.history[k] # <<>>
    /\ \A k \in Keys : Begins(o[k], Kept(v, k))
    /\ \A k \in Keys : \A i \in 1 .. Len(Kept(v, k)) : Kept(v, k)[i] \in ps[k]

IInv == Sound(mem, owed, past) /\ Sound(file, owes, pasts)

GhostType(o, ps) == o \in [Keys -> Seq(State)] /\ ps \in [Keys -> SUBSET State]

\* The ghosts keep their types over any change.
LEMMA OwingType ==
    ASSUME IsVault(mem), GhostType(owed, past), NEW w, IsVault(w)
    PROVE  GhostType(Owing(mem, w), Replacing(mem, w))
<1>1. ASSUME NEW k \in Keys PROVE Owing(mem, w)[k] \in Seq(State)
  <2>1. owed[k] \in Seq(State) /\ mem.secrets[k] \in State
    BY DEF IsVault, GhostType
  <2>2. CASE mem.secrets[k] = w.secrets[k] \/ Keep(mem) = 0
    BY <2>1, <2>2 DEF Owing
  <2>3. CASE mem.secrets[k] # w.secrets[k] /\ Keep(mem) # 0
    <3>1. Owing(mem, w)[k] = Push(mem.secrets[k], owed[k], Keep(mem))
      BY <2>3 DEF Owing
    <3> QED
      BY <2>1, <2>3, <3>1, KeepType, PushProps
  <2> QED
    BY <2>2, <2>3
<1>2. \A k \in Keys : Replacing(mem, w)[k] \in SUBSET State
  BY DEF Replacing, IsVault, GhostType
<1>3. /\ Owing(mem, w) = [k \in Keys |-> Owing(mem, w)[k]]
      /\ Replacing(mem, w) = [k \in Keys |-> Replacing(mem, w)[k]]
  BY DEF Owing, Replacing
<1> QED
  BY <1>1, <1>2, <1>3 DEF GhostType

\* A key whose state changes with its replaced state recorded.
LEMMA ChangeSound ==
    ASSUME IsVault(mem), GhostType(owed, past), Sound(mem, owed, past),
           NEW k \in Keys, NEW x \in State, x # mem.secrets[k],
           NEW w, IsVault(w), w.secrets = [mem.secrets EXCEPT ![k] = x],
           w.history = Record(mem, k).history, w.marks \subseteq Live(w)
    PROVE  Sound(w, Owing(mem, w), Replacing(mem, w))
<1> DEFINE r == Record(mem, k)
<1>1. /\ \A y \in DOMAIN r.history :
             \/ y \in DOMAIN mem.history /\ r.history[y] = mem.history[y]
             \/ r.history[y] # <<>>
      /\ \A y \in Keys \ {k} : Kept(r, y) = Kept(mem, y)
      /\ Keep(mem) = 0 => Kept(r, k) = Kept(mem, k)
      /\ Keep(mem) # 0 =>
            Kept(r, k) = Push(mem.secrets[k], Kept(mem, k), Keep(mem))
  BY RecordProps
<1>2. \A y \in Keys : Kept(w, y) = Kept(r, y)
  BY DEF Kept
<1>3. \A y \in Keys : w.secrets[y] = IF y = k THEN x ELSE mem.secrets[y]
  BY DEF IsVault
<1>4. \A y \in DOMAIN w.history : w.history[y] # <<>>
  BY <1>1 DEF Sound
<1>5. ASSUME NEW y \in Keys, y # k
      PROVE  /\ Begins(Owing(mem, w)[y], Kept(w, y))
             /\ \A i \in 1 .. Len(Kept(w, y)) :
                   Kept(w, y)[i] \in Replacing(mem, w)[y]
  <2>1. Owing(mem, w)[y] = owed[y] /\ Replacing(mem, w)[y] = past[y]
    BY <1>3, <1>5 DEF Owing, Replacing
  <2>2. Kept(w, y) = Kept(mem, y)
    BY <1>1, <1>2, <1>5
  <2> QED
    BY <2>1, <2>2 DEF Sound
<1>6. Replacing(mem, w)[k] = past[k] \cup {mem.secrets[k]}
  BY <1>3 DEF Replacing
<1>7. CASE Keep(mem) = 0
  <2>1. Owing(mem, w)[k] = <<>>
    BY <1>3, <1>7 DEF Owing
  <2>2. Kept(w, k) = Kept(mem, k) /\ Kept(mem, k) \in Seq(State)
    BY <1>1, <1>2, <1>7, KeptType
  <2>3. Begins(Owing(mem, w)[k], Kept(w, k))
    BY <2>1, <2>2 DEF Begins
  <2>4. \A i \in 1 .. Len(Kept(w, k)) : Kept(w, k)[i] \in Replacing(mem, w)[k]
    BY <1>6, <2>2 DEF Sound
  <2> QED
    BY <1>4, <1>5, <2>3, <2>4 DEF Sound
<1>8. CASE Keep(mem) # 0
  <2> DEFINE n == Keep(mem)
             s == Kept(mem, k)
             old == mem.secrets[k]
             t == Push(old, s, n)
  <2>1. Owing(mem, w)[k] = Push(mem.secrets[k], owed[k], n)
    BY <1>3, <1>8 DEF Owing
  <2>2. Kept(w, k) = t
    BY <1>1, <1>2, <1>8
  <2>3. s \in Seq(State) /\ old \in State /\ n \in Nat /\ n # 0
        /\ owed[k] \in Seq(State) /\ Begins(owed[k], s)
    BY <1>8, KeptType, KeepType DEF IsVault, GhostType, Sound
  <2>4. Begins(Owing(mem, w)[k], Kept(w, k))
    BY <1>8, <2>1, <2>2, <2>3, BeginsPush
  <2>5. \A i \in 1 .. Len(t) : t[i] \in past[k] \cup {old}
    <3>1. \A i \in 1 .. Len(s) : s[i] \in past[k]
      BY DEF Sound
    <3> HIDE DEF s, n, old
    <3>2. /\ t \in Seq(State) /\ t[1] = old
          /\ Len(s) + 1 < n => Len(t) = Len(s) + 1
          /\ Len(s) + 1 >= n => Len(t) = n
          /\ \A i \in 2 .. Len(t) : t[i] = s[i - 1]
      <4>1. t \in Seq(State)
        BY <2>3, PushProps
      <4>2. Pushed(t, old, s, n)
        BY <2>3, PushIsPushed
      <4> QED
        BY <4>1, <4>2 DEF Pushed
    <3> HIDE DEF t
    <3>3. ASSUME NEW i \in 1 .. Len(t), i # 1 PROVE t[i] \in past[k]
      <4>1. i \in 2 .. Len(t) /\ i - 1 \in 1 .. Len(s)
        BY <2>3, <3>2, <3>3
      <4> QED
        BY <3>1, <3>2, <4>1
    <3> QED
      BY <3>2, <3>3
  <2> QED
    BY <1>4, <1>5, <1>6, <2>2, <2>4, <2>5 DEF Sound
<1> QED
  BY <1>7, <1>8, KeepType

\* A change of no key's state, and of no list.
LEMMA SameSound ==
    ASSUME IsVault(mem), GhostType(owed, past), Sound(mem, owed, past),
           NEW w, IsVault(w), w.secrets = mem.secrets, w.history = mem.history,
           w.marks \subseteq Live(w)
    PROVE  Sound(w, owed, past) /\ Owing(mem, w) = owed
                                /\ Replacing(mem, w) = past
<1>1. \A k \in Keys : Kept(w, k) = Kept(mem, k)
  BY DEF Kept
<1>2. Owing(mem, w) = owed /\ Replacing(mem, w) = past
  BY DEF Owing, Replacing, GhostType
<1> QED
  BY <1>1, <1>2 DEF Sound

UndoneType ==
    undone \in [key : Keys, state : State, marked : BOOLEAN] \cup {NoRevert}

\* An argument handled soundly keeps the invariant.
LEMMA ArgStep ==
    ASSUME TypeOK, IInv, cmd # "none", UndoneType', NEW w, Becomes(w),
           IsVault(w), GhostType(owed', past'), Sound(w, owed', past')
    PROVE  TypeOK' /\ IInv'
<1>1. TypeOK'
  BY DEF TypeOK, Becomes, GhostType, UndoneType
<1>2. IInv'
  BY DEF IInv, Becomes
<1> QED
  BY <1>1, <1>2

LEMMA InitInv == Init => TypeOK /\ IInv
<1> SUFFICES ASSUME Init PROVE TypeOK /\ IInv
  OBVIOUS
<1>1. IsVault(Empty)
  BY DEF Empty, IsVault, State, Settings
<1>2. \A k \in Keys : Kept(Empty, k) = <<>>
  BY DEF Empty, Kept
<1>3. Sound(Empty, [k \in Keys |-> <<>>], [k \in Keys |-> {}])
  <2>1. Empty.marks \subseteq Live(Empty)
    BY DEF Empty
  <2>2. \A k \in DOMAIN Empty.history : Empty.history[k] # <<>>
    BY DEF Empty
  <2>3. \A k \in Keys : Begins([x \in Keys |-> <<>>][k], Kept(Empty, k))
    <3>1. Begins(<<>>, <<>>)
      <4>1. Len(<<>>) = 0
        OBVIOUS
      <4> QED
        BY <4>1 DEF Begins
    <3> QED
      BY <1>2, <3>1
  <2>4. \A k \in Keys : \A i \in 1 .. Len(Kept(Empty, k)) :
            Kept(Empty, k)[i] \in [x \in Keys |-> {}][k]
    BY <1>2
  <2> QED
    BY <2>1, <2>2, <2>3, <2>4 DEF Sound
<1> QED
  BY <1>1, <1>3 DEF Init, TypeOK, IInv, Commands

LEMMA StepInv == TypeOK /\ IInv /\ [Next]_vars => TypeOK' /\ IInv'
<1> SUFFICES ASSUME TypeOK, IInv, [Next]_vars PROVE TypeOK' /\ IInv'
  OBVIOUS
<1>0. /\ IsVault(mem) /\ GhostType(owed, past) /\ Sound(mem, owed, past)
      /\ UndoneType
  BY DEF TypeOK, IInv, GhostType, UndoneType
<1>1. ASSUME NEW c \in Commands, Open(c) PROVE TypeOK' /\ IInv'
  BY <1>1 DEF TypeOK, IInv, Open, Commands
<1>2. ASSUME NEW k \in Keys, NEW x \in State, NEW w, Becomes(w), cmd # "none",
             UndoneType', IsVault(w), w.secrets = [mem.secrets EXCEPT ![k] = x],
             w.history = IF mem.secrets[k] = x THEN mem.history
                         ELSE Record(mem, k).history,
             w.marks \subseteq Live(w),
             owed' = Owing(mem, mem'), past' = Replacing(mem, mem')
      PROVE  TypeOK' /\ IInv'
  <2>1. mem' = w
    BY <1>2 DEF Becomes
  <2>2. GhostType(owed', past')
    BY <1>0, <1>2, <2>1, OwingType
  <2>3. CASE mem.secrets[k] = x
    <3>1. w.secrets = mem.secrets /\ w.history = mem.history
      BY <1>0, <1>2, <2>3 DEF IsVault
    <3>2. Sound(w, owed', past')
      BY <1>0, <1>2, <2>1, <3>1, SameSound
    <3> QED
      BY <1>2, <2>2, <3>2, ArgStep
  <2>4. CASE mem.secrets[k] # x
    <3>1. Sound(w, owed', past')
      BY <1>0, <1>2, <2>1, <2>4, ChangeSound
    <3> QED
      BY <1>2, <2>2, <3>1, ArgStep
  <2> QED
    BY <2>3, <2>4
<1>3. ASSUME NEW k \in Keys, NEW val \in Vals,
             NEW flag \in {"expand", "literal", "neither"}, SetArg(k, val, flag)
      PROVE  TypeOK' /\ IInv'
  <2> DEFINE put == Put(mem, k, val)
             w == IF flag = "neither" THEN put
                  ELSE SetExpand(put, k, flag = "expand")
  <2>1. /\ IsVault(put) /\ put.marks = mem.marks
        /\ put.secrets = [mem.secrets EXCEPT ![k] = val]
        /\ put.history = IF mem.secrets[k] = val THEN mem.history
                         ELSE Record(mem, k).history
    BY <1>0, PutProps
  <2> HIDE DEF put
  <2>2. IsVault(w) /\ w.secrets = put.secrets /\ w.history = put.history
        /\ w.marks \subseteq mem.marks \cup {k}
    <3>1. CASE flag = "neither"
      BY <2>1, <3>1
    <3>2. CASE flag = "expand"
      <4>1. w = SetExpand(put, k, TRUE)
        BY <3>2
      <4> QED
        BY <2>1, <4>1 DEF IsVault, SetExpand
    <3>3. CASE flag = "literal"
      <4>1. w = SetExpand(put, k, FALSE)
        BY <3>3
      <4> QED
        BY <2>1, <4>1 DEF IsVault, SetExpand
    <3> QED
      BY <3>1, <3>2, <3>3
  <2>3. Becomes(w)
    BY <1>3 DEF SetArg, put
  <2> HIDE DEF w
  <2>4. w.marks \subseteq Live(w)
    BY <1>0, <2>1, <2>2 DEF Sound, Live, IsVault
  <2>5. UndoneType' /\ cmd # "none"
    BY <1>0, <1>3 DEF SetArg, UndoneType
  <2>6. val \in State
    BY DEF State
  <2>7. owed' = Owing(mem, mem') /\ past' = Replacing(mem, mem')
    BY <1>3 DEF SetArg
  <2> QED
    BY <1>2, <2>1, <2>2, <2>3, <2>4, <2>5, <2>6, <2>7
<1>4. ASSUME NEW w, Becomes(w), cmd # "none", UndoneType', IsVault(w),
             w.secrets = mem.secrets, w.history = mem.history,
             w.marks \subseteq mem.marks, UNCHANGED <<owed, past>>
      PROVE  TypeOK' /\ IInv'
  <2>1. w.marks \subseteq Live(w)
    BY <1>0, <1>4 DEF Sound, Live
  <2>2. Sound(w, owed, past)
    BY <1>0, <1>4, <2>1, SameSound
  <2> QED
    BY <1>0, <1>4, <2>2, ArgStep
<1>5. ASSUME NEW s \in Settings, Becomes([mem EXCEPT !.setting = s]),
             cmd # "none", UNCHANGED <<owed, past, undone>>
      PROVE  TypeOK' /\ IInv'
  <2> DEFINE w == [mem EXCEPT !.setting = s]
  <2>1. /\ IsVault(w) /\ w.secrets = mem.secrets /\ w.history = mem.history
        /\ w.marks = mem.marks
    BY <1>0 DEF IsVault
  <2>2. UndoneType'
    BY <1>0, <1>5 DEF UndoneType
  <2> QED
    BY <1>4, <1>5, <2>1, <2>2
<1>6. ASSUME NEW s \in Counts \cup {Garbage}, SetSetting(s)
      PROVE  TypeOK' /\ IInv'
  BY <1>5, <1>6 DEF SetSetting, Settings
<1>7. CASE UnsetSetting
  BY <1>5, <1>7 DEF UnsetSetting, Settings
<1>8. CASE UnsetMarks
  <2> DEFINE w == [mem EXCEPT !.marks = {}]
  <2>1. /\ IsVault(w) /\ w.secrets = mem.secrets /\ w.history = mem.history
        /\ w.marks = {}
    BY <1>0 DEF IsVault
  <2>2. UndoneType' /\ Becomes(w) /\ cmd # "none" /\ UNCHANGED <<owed, past>>
    BY <1>0, <1>8 DEF UnsetMarks, UndoneType
  <2> QED
    BY <1>4, <2>1, <2>2
<1>9. ASSUME NEW k \in Keys, mem.secrets[k] # Absent, Becomes(Drop(mem, k)),
             cmd # "none", UndoneType',
             owed' = Owing(mem, mem'), past' = Replacing(mem, mem')
      PROVE  TypeOK' /\ IInv'
  <2> DEFINE w == Drop(mem, k)
  <2>1. /\ IsVault(w) /\ w.marks = mem.marks \ {k}
        /\ w.secrets = [mem.secrets EXCEPT ![k] = Absent]
        /\ w.history = Record(mem, k).history
    BY <1>0, DropProps
  <2> HIDE DEF w
  <2>2. w.marks \subseteq Live(w)
    BY <1>0, <2>1 DEF Sound, Live, IsVault
  <2>3. Absent \in State /\ Becomes(w)
    BY <1>9 DEF State, w
  <2> QED
    BY <1>2, <1>9, <2>1, <2>2, <2>3
<1>10. ASSUME NEW k \in Keys, UnsetArg(k) PROVE TypeOK' /\ IInv'
  BY <1>0, <1>9, <1>10 DEF UnsetArg, Live, UndoneType
<1>11. ASSUME NEW k \in Keys, NEW back \in 1 .. Len(Kept(mem, k)), Revert(k, back)
       PROVE  TypeOK' /\ IInv'
  <2> DEFINE target == Kept(mem, k)[back]
  <2>1. target \in State
    BY <1>0, KeptType
  <2>2. UndoneType' /\ cmd # "none"
    BY <1>0, <1>11 DEF Revert, UndoneType, IsVault
  <2>3. target # mem.secrets[k]
        /\ owed' = Owing(mem, mem') /\ past' = Replacing(mem, mem')
    BY <1>11 DEF Revert
  <2>4. CASE target = Absent
    <3>1. Becomes(Drop(mem, k))
      BY <1>11, <2>4 DEF Revert
    <3> QED
      BY <1>9, <2>2, <2>3, <2>4, <3>1
  <2>5. CASE target # Absent
    <3> DEFINE w == Put(mem, k, target)
    <3>1. target \in Vals
      BY <2>1, <2>5 DEF State
    <3>2. Becomes(w)
      BY <1>11, <2>5 DEF Revert
    <3> HIDE DEF target
    <3>3. /\ IsVault(w) /\ w.marks = mem.marks
          /\ w.secrets = [mem.secrets EXCEPT ![k] = target]
          /\ w.history = IF mem.secrets[k] = target THEN mem.history
                         ELSE Record(mem, k).history
      BY <1>0, <3>1, PutProps
    <3> HIDE DEF w
    <3>4. w.marks \subseteq Live(w)
      BY <1>0, <3>1, <3>3 DEF Sound, Live, IsVault
    <3> QED
      BY <1>2, <2>1, <2>2, <2>3, <3>2, <3>3, <3>4
  <2> QED
    BY <2>4, <2>5
<1>12. ASSUME NEW n \in Counts, Switch(n) PROVE TypeOK' /\ IInv'
  <2> DEFINE w == Switched(mem, n)
  <2>1. /\ IsVault(w) /\ w.secrets = mem.secrets /\ w.marks = mem.marks
        /\ DOMAIN w.history = DOMAIN mem.history
        /\ \A x \in DOMAIN mem.history :
              w.history[x] = IF n = 0 THEN mem.history[x]
                             ELSE Take(mem.history[x], n)
    BY <1>0, SwitchedProps
  <2>2. Becomes(w) /\ UndoneType' /\ cmd # "none" /\ UNCHANGED past
    BY <1>0, <1>12 DEF Switch, UndoneType
  <2>3. owed' = IF n = 0 THEN owed ELSE [k \in Keys |-> Take(owed[k], n)]
    BY <1>12 DEF Switch
  <2> HIDE DEF w
  <2>4. n \in Nat
    OBVIOUS
  <2>5. CASE n = 0
    <3>1. w.history = mem.history
      BY <1>0, <2>1, <2>5 DEF IsVault
    <3>2. owed' = owed
      BY <2>3, <2>5
    <3> QED
      BY <1>4, <2>1, <2>2, <3>1, <3>2
  <2>6. CASE n # 0
    <3>1. GhostType(owed', past')
      BY <1>0, <2>2, <2>3, <2>4, <2>6, TakeProps DEF GhostType
    <3>2. \A x \in DOMAIN w.history : w.history[x] # <<>>
      <4> TAKE x \in DOMAIN w.history
      <4>1. mem.history[x] \in Seq(State) /\ mem.history[x] # <<>>
        BY <1>0, <2>1 DEF IsVault, Sound
      <4>2. Len(Take(mem.history[x], n)) # 0
        BY <2>4, <2>6, <4>1, TakeProps
      <4> QED
        BY <2>1, <2>6, <4>2
    <3>3. ASSUME NEW k \in Keys
          PROVE  Kept(w, k) = Take(Kept(mem, k), n)
      <4>1. CASE k \in DOMAIN mem.history
        BY <2>1, <2>6, <4>1 DEF Kept
      <4>2. CASE k \notin DOMAIN mem.history
        <5>1. Kept(w, k) = <<>> /\ Kept(mem, k) = <<>>
          BY <2>1, <4>2 DEF Kept
        <5>2. Take(<<>>, n) = <<>>
          BY <2>4 DEF Take
        <5> QED
          BY <5>1, <5>2
      <4> QED
        BY <4>1, <4>2
    <3>4. ASSUME NEW k \in Keys
          PROVE  /\ Begins(owed'[k], Kept(w, k))
                 /\ \A i \in 1 .. Len(Kept(w, k)) : Kept(w, k)[i] \in past'[k]
      <4>1. /\ owed[k] \in Seq(State) /\ Kept(mem, k) \in Seq(State)
            /\ Begins(owed[k], Kept(mem, k))
            /\ \A i \in 1 .. Len(Kept(mem, k)) : Kept(mem, k)[i] \in past[k]
        BY <1>0, KeptType DEF GhostType, Sound
      <4>2. owed'[k] = Take(owed[k], n)
        BY <2>3, <2>6
      <4>3. Begins(owed'[k], Kept(w, k))
        BY <2>4, <3>3, <4>1, <4>2, BeginsCut
      <4>4. /\ Len(Kept(w, k)) <= Len(Kept(mem, k))
            /\ \A i \in 1 .. Len(Kept(w, k)) : Kept(w, k)[i] = Kept(mem, k)[i]
        BY <2>4, <3>3, <4>1, TakeProps
      <4>5. Len(Kept(w, k)) \in Nat /\ Len(Kept(mem, k)) \in Nat
        BY <2>1, <4>1, KeptType
      <4> QED
        BY <2>2, <4>1, <4>3, <4>4, <4>5
    <3>5. w.marks \subseteq Live(w)
      BY <1>0, <2>1 DEF Sound, Live
    <3>6. Sound(w, owed', past')
      BY <3>2, <3>4, <3>5 DEF Sound
    <3> QED
      BY <2>1, <2>2, <3>1, <3>6, ArgStep
  <2> QED
    BY <2>5, <2>6
<1>13. ASSUME NEW ks \in SUBSET Keys, cmd # "none", PurgeKeys(ks)
       PROVE  TypeOK' /\ IInv'
  <2> DEFINE w == Purged(mem, ks)
  <2>1. /\ IsVault(w) /\ w.secrets = mem.secrets /\ w.marks = mem.marks
        /\ DOMAIN w.history = DOMAIN mem.history \ ks
        /\ \A x \in DOMAIN w.history : w.history[x] = mem.history[x]
    BY <1>0, PurgedProps
  <2>2. Becomes(w) /\ UndoneType'
    BY <1>0, <1>13 DEF PurgeKeys, UndoneType
  <2>3. /\ owed' = [k \in Keys |-> IF k \in ks THEN <<>> ELSE owed[k]]
        /\ past' = [k \in Keys |-> IF k \in ks THEN {} ELSE past[k]]
    BY <1>13 DEF PurgeKeys
  <2> HIDE DEF w
  <2>4. GhostType(owed', past')
    BY <1>0, <2>3 DEF GhostType
  <2>5. ASSUME NEW k \in Keys
        PROVE  /\ Begins(owed'[k], Kept(w, k))
               /\ \A i \in 1 .. Len(Kept(w, k)) : Kept(w, k)[i] \in past'[k]
    <3>1. CASE k \in ks
      BY <2>1, <2>3, <3>1 DEF Kept, Begins
    <3>2. CASE k \notin ks
      <4>1. Kept(w, k) = Kept(mem, k)
        BY <2>1, <3>2 DEF Kept
      <4> QED
        BY <1>0, <2>3, <3>2, <4>1 DEF Sound
    <3> QED
      BY <3>1, <3>2
  <2>6. w.marks \subseteq Live(w) /\ \A x \in DOMAIN w.history : w.history[x] # <<>>
    BY <1>0, <2>1 DEF Sound, Live
  <2>7. Sound(w, owed', past')
    BY <2>5, <2>6 DEF Sound
  <2> QED
    BY <1>13, <2>1, <2>2, <2>4, <2>7, ArgStep
<1>14. CASE PurgeAll
  BY <1>13, <1>14 DEF PurgeAll
<1>15. ASSUME NEW k \in Keys, PurgeArg(k) PROVE TypeOK' /\ IInv'
  BY <1>13, <1>15 DEF PurgeArg
<1>16. CASE Save
  BY <1>16 DEF TypeOK, IInv, Save
<1>17. CASE Fail
  BY <1>17 DEF TypeOK, IInv, Fail
<1>18. CASE UNCHANGED vars
  BY <1>18 DEF TypeOK, IInv, vars
<1> QED
  BY <1>1, <1>3, <1>6, <1>7, <1>8, <1>10, <1>11, <1>12, <1>14, <1>15, <1>16,
     <1>17, <1>18 DEF Next
-----------------------------------------------------------------------------
(* Theorems                                                                *)

\* The vault, its marks and its history keep their shape through any commands.
THEOREM TypeCorrect == Spec => []TypeOK
BY InitInv, StepInv, PTL DEF Spec

\* What the file keeps of a key begins with the states the key was really in,
\* newest first, as many as the settings since promised.
THEOREM AlwaysFaithful == Spec => []HistoryFaithful
<1>1. ASSUME TypeOK, IInv PROVE HistoryFaithful
  <2> SUFFICES ASSUME NEW k \in Keys
               PROVE  owes[k] = Take(Kept(file, k), Len(owes[k]))
    BY DEF HistoryFaithful
  <2>1. /\ owes[k] \in Seq(State) /\ Kept(file, k) \in Seq(State)
        /\ Begins(owes[k], Kept(file, k))
    BY <1>1, KeptType DEF TypeOK, IInv, Sound
  <2> QED
    BY <2>1, BeginsTake
<1> QED
  BY <1>1, InitInv, StepInv, PTL DEF Spec

\* No revert can bring back a state from before a key's last purge.
THEOREM AlwaysForgets == Spec => []PurgeForgets
<1>1. IInv => PurgeForgets
  BY DEF IInv, Sound, PurgeForgets
<1> QED
  BY <1>1, InitInv, StepInv, PTL DEF Spec

\* The vault keeps its shape, no key in the history map has an empty list, so
\* that history.go:96 never panics, and the expand list names live keys only.
THEOREM AlwaysWellFormed == Spec => []WellFormed
<1>1. TypeOK /\ IInv => WellFormed
  BY DEF IInv, Sound, WellFormed, NoEmptyHistory, MarksLive
<1> QED
  BY <1>1, InitInv, StepInv, PTL DEF Spec
-----------------------------------------------------------------------------
(* The cap, and reverts of reverts                                         *)

\* Recording, changing or dropping a key leaves the setting alone.
LEMMA SettingStays ==
    ASSUME NEW v, IsVault(v), NEW k \in Keys
    PROVE  /\ Drop(v, k).setting = v.setting
           /\ \A val \in Vals : Put(v, k, val).setting = v.setting
<1>1. Record(v, k).setting = v.setting /\ IsVault(Record(v, k))
  <2>1. Record(v, k).setting = v.setting
    BY DEF Record, WithKept, IsVault
  <2> QED
    BY <2>1, RecordProps
<1>2. Drop(v, k).setting = Record(v, k).setting
  BY <1>1 DEF Drop, SetExpand, IsVault
<1>3. ASSUME NEW val \in Vals PROVE Put(v, k, val).setting = v.setting
  BY <1>1 DEF Put, IsVault
<1> QED
  BY <1>1, <1>2, <1>3

\* The list of a key whose state changes, when the vault keeps past values.
LEMMA Recorded ==
    ASSUME NEW v, IsVault(v), NEW k \in Keys, Keep(v) > 0,
           NEW w, w.history = Record(v, k).history
    PROVE  /\ Len(Kept(w, k)) \in 1 .. Keep(v)
           /\ Kept(w, k) # <<>> /\ Kept(w, k)[1] = v.secrets[k]
<1> DEFINE s == Kept(v, k)
           x == v.secrets[k]
           n == Keep(v)
<1>1. s \in Seq(State) /\ x \in State /\ n \in Nat /\ n # 0
  BY KeptType, KeepType DEF IsVault
<1>2. Kept(w, k) = Push(x, s, n)
  <2>1. Kept(w, k) = Kept(Record(v, k), k)
    BY DEF Kept
  <2> QED
    BY <1>1, <2>1, RecordProps
<1> HIDE DEF s, x, n
<1>3. /\ Push(x, s, n) \in Seq(State) /\ Push(x, s, n)[1] = x
      /\ Len(s) + 1 < n => Len(Push(x, s, n)) = Len(s) + 1
      /\ Len(s) + 1 >= n => Len(Push(x, s, n)) = n
  BY <1>1, PushProps
<1>4. Len(s) \in Nat
  BY <1>1
<1>5. Len(Push(x, s, n)) \in 1 .. n
  BY <1>1, <1>3, <1>4
<1>6. Push(x, s, n) # <<>>
  BY <1>5
<1> QED
  BY <1>2, <1>3, <1>5, <1>6 DEF x, n

\* What one argument of a command does to the vault in memory: one key's state
\* is replaced and recorded, or no state changes.
Replaces(k) ==
    /\ mem'.secrets = [mem.secrets EXCEPT ![k] = mem'.secrets[k]]
    /\ mem'.secrets[k] # mem.secrets[k] =>
          mem'.history = Record(mem, k).history

LEMMA PutReplaces ==
    ASSUME IsVault(mem), NEW k \in Keys, NEW val \in Vals,
           mem'.secrets = Put(mem, k, val).secrets,
           mem'.history = Put(mem, k, val).history
    PROVE  Replaces(k)
<1> DEFINE w == Put(mem, k, val)
<1>1. /\ w.secrets = [mem.secrets EXCEPT ![k] = val]
      /\ w.history = IF mem.secrets[k] = val THEN mem.history
                     ELSE Record(mem, k).history
  BY PutProps
<1> HIDE DEF w
<1>2. mem'.secrets = w.secrets /\ mem'.history = w.history
  BY DEF w
<1>3. mem'.secrets[k] = val
  BY <1>1, <1>2 DEF IsVault
<1> QED
  BY <1>1, <1>2, <1>3 DEF Replaces

LEMMA DropReplaces ==
    ASSUME IsVault(mem), NEW k \in Keys, mem' = Drop(mem, k)
    PROVE  Replaces(k)
<1> DEFINE w == Drop(mem, k)
<1>1. /\ w.secrets = [mem.secrets EXCEPT ![k] = Absent]
      /\ w.history = Record(mem, k).history
  BY DropProps
<1>2. mem' = w
  OBVIOUS
<1> HIDE DEF w
<1>3. mem'.secrets[k] = Absent
  BY <1>1, <1>2 DEF IsVault
<1> QED
  BY <1>1, <1>2, <1>3 DEF Replaces

\* Every step replaces one key's state, or none.
LEMMA StepReplaces ==
    ASSUME TypeOK, Next, cmd' # "none"
    PROVE  mem'.secrets = mem.secrets \/ \E k \in Keys : Replaces(k)
<1>0. IsVault(mem)
  BY DEF TypeOK
<1>1. ASSUME NEW k \in Keys, NEW val \in Vals,
             NEW flag \in {"expand", "literal", "neither"}, SetArg(k, val, flag)
      PROVE  Replaces(k)
  <2> DEFINE put == Put(mem, k, val)
  <2>1. IsVault(put)
    BY <1>0, PutProps
  <2>2. mem' = IF flag = "neither" THEN put
               ELSE SetExpand(put, k, flag = "expand")
    BY <1>1 DEF SetArg, Becomes
  <2>3. mem'.secrets = put.secrets /\ mem'.history = put.history
    <3> HIDE DEF put
    <3>1. CASE flag = "neither"
      BY <2>2, <3>1
    <3>2. CASE flag # "neither"
      BY <2>1, <2>2, <3>2, SetExpandProps
    <3> QED
      BY <3>1, <3>2
  <2> QED
    BY <1>0, <2>3, PutReplaces
<1>2. ASSUME NEW k \in Keys, UnsetArg(k) PROVE Replaces(k)
  BY <1>0, <1>2, DropReplaces DEF UnsetArg, Becomes
<1>3. ASSUME NEW k \in Keys, NEW back \in 1 .. Len(Kept(mem, k)), Revert(k, back)
      PROVE  Replaces(k)
  <2> DEFINE target == Kept(mem, k)[back]
  <2>1. target \in State
    BY <1>0, KeptType
  <2>2. mem' = IF target = Absent THEN Drop(mem, k) ELSE Put(mem, k, target)
    BY <1>3 DEF Revert, Becomes
  <2> HIDE DEF target
  <2>3. CASE target = Absent
    BY <1>0, <2>2, <2>3, DropReplaces
  <2>4. CASE target # Absent
    BY <1>0, <2>1, <2>2, <2>4, PutReplaces DEF State
  <2> QED
    BY <2>3, <2>4
<1>4. ASSUME NEW n \in Counts, Switch(n) PROVE mem'.secrets = mem.secrets
  BY <1>0, <1>4, SwitchedProps DEF Switch, Becomes
<1>5. ASSUME NEW ks \in SUBSET Keys, PurgeKeys(ks)
      PROVE  mem'.secrets = mem.secrets
  BY <1>0, <1>5, PurgedProps DEF PurgeKeys, Becomes
<1>6. ASSUME NEW s \in Counts \cup {Garbage}, SetSetting(s)
      PROVE  mem'.secrets = mem.secrets
  BY <1>0, <1>6 DEF SetSetting, Becomes, IsVault
<1>7. CASE UnsetSetting
  BY <1>0, <1>7 DEF UnsetSetting, Becomes, IsVault
<1>8. CASE UnsetMarks
  BY <1>0, <1>8 DEF UnsetMarks, Becomes, IsVault
<1>9. CASE PurgeAll
  BY <1>5, <1>9 DEF PurgeAll
<1>10. ASSUME NEW k \in Keys, PurgeArg(k) PROVE mem'.secrets = mem.secrets
  BY <1>5, <1>10 DEF PurgeArg
<1>11. ASSUME NEW c \in Commands, Open(c) PROVE mem'.secrets = mem.secrets
  BY <1>11 DEF Open
<1>12. ~Save /\ ~Fail
  BY DEF Save, Fail
<1> QED
  BY <1>1, <1>2, <1>3, <1>4, <1>6, <1>7, <1>8, <1>9, <1>10, <1>11, <1>12
     DEF Next

\* The switch is the only command named so, and it leaves every list cut.
LEMMA SwitchCuts ==
    ASSUME TypeOK, Next, cmd = "switch", args' > args, Keep(mem') > 0,
           NEW k \in Keys
    PROVE  Len(Kept(mem', k)) <= Keep(mem')
<1>0. IsVault(mem) /\ args \in Nat
  BY DEF TypeOK
<1>1. \E n \in Counts : Switch(n)
  <2>1. ~Save /\ ~Fail
    BY <1>0 DEF Save, Fail
  <2>2. \A c \in Commands : ~Open(c)
    BY DEF Open
  <2> QED
    BY <2>1, <2>2 DEF Next, SetArg, SetSetting, UnsetSetting, UnsetMarks,
       UnsetArg, Revert, PurgeAll, PurgeArg
<1>2. PICK n \in Counts : Switch(n)
  BY <1>1
<1>3. n \in Nat
  OBVIOUS
<1> DEFINE w == Switched(mem, n)
<1>4. mem' = w
  BY <1>2 DEF Switch, Becomes
<1>5. Keep(w) = n
  <2>1. w.setting = IF n = DefaultHistory THEN Unset ELSE n
    BY <1>0 DEF Switched, IsVault
  <2> HIDE DEF w
  <2> QED
    BY <1>3, <2>1 DEF Keep
<1>6. /\ DOMAIN w.history = DOMAIN mem.history
      /\ \A x \in DOMAIN mem.history :
            w.history[x] = IF n = 0 THEN mem.history[x]
                           ELSE Take(mem.history[x], n)
  BY <1>0, <1>3, SwitchedProps
<1> HIDE DEF w
<1>7. n # 0 /\ Keep(mem') = n
  BY <1>3, <1>4, <1>5
<1>8. CASE k \in DOMAIN mem.history
  <2>1. mem.history[k] \in Seq(State)
    BY <1>0, <1>8 DEF IsVault
  <2>2. Kept(mem', k) = Take(mem.history[k], n)
    BY <1>4, <1>6, <1>7, <1>8 DEF Kept
  <2> QED
    BY <1>3, <1>7, <2>1, <2>2, TakeProps
<1>9. CASE k \notin DOMAIN mem.history
  <2>1. Kept(mem', k) = <<>>
    BY <1>4, <1>6, <1>9 DEF Kept
  <2> QED
    BY <1>3, <1>7, <2>1
<1> QED
  BY <1>8, <1>9

\* A change leaves no more past states of its key than the vault keeps, and
\* history on N leaves no more than N of any key.
THEOREM AlwaysCapped == Spec => CapHolds
<1> DEFINE Cap ==
      /\ \A k \in Keys :
            mem'.secrets[k] # mem.secrets[k] /\ cmd' # "none" /\ Keep(mem) > 0
                => Len(Kept(mem', k)) \in 1 .. Keep(mem)
      /\ cmd = "switch" /\ args' > args /\ Keep(mem') > 0
                => \A k \in Keys : Len(Kept(mem', k)) <= Keep(mem')
<1>1. TypeOK /\ Next => Cap
  <2> SUFFICES ASSUME TypeOK, Next PROVE Cap
    OBVIOUS
  <2>1. ASSUME NEW k \in Keys, mem'.secrets[k] # mem.secrets[k],
               cmd' # "none", Keep(mem) > 0
        PROVE  Len(Kept(mem', k)) \in 1 .. Keep(mem)
    <3>1. PICK j \in Keys : Replaces(j)
      BY <2>1, StepReplaces
    <3>2. j = k /\ IsVault(mem)
      BY <2>1, <3>1 DEF Replaces, TypeOK, IsVault
    <3>3. mem'.history = Record(mem, k).history
      BY <2>1, <3>1, <3>2 DEF Replaces
    <3> QED
      BY <2>1, <3>2, <3>3, Recorded
  <2>2. ASSUME cmd = "switch", args' > args, Keep(mem') > 0
        PROVE  \A k \in Keys : Len(Kept(mem', k)) <= Keep(mem')
    BY <2>2, SwitchCuts
  <2> QED
    BY <2>1, <2>2
<1>2. TypeOK /\ [Next]_vars => [Cap]_vars
  BY <1>1
<1>3. Spec => [][Cap]_vars
  BY <1>2, TypeCorrect, PTL DEF Spec
<1> QED
  BY <1>3 DEF CapHolds

\* Between a revert and the next command of another kind, what it replaced is
\* the newest state the vault in memory keeps of the key.
Revertible ==
    undone # NoRevert =>
        /\ cmd \in {"none", "revert"}
        /\ Keep(mem) > 0 => /\ Kept(mem, undone.key) # <<>>
                            /\ Kept(mem, undone.key)[1] = undone.state

LEMMA RevertibleNext == TypeOK /\ Revertible /\ [Next]_vars => Revertible'
<1> SUFFICES ASSUME TypeOK, Revertible, [Next]_vars PROVE Revertible'
  OBVIOUS
<1>0. IsVault(mem)
  BY DEF TypeOK
<1>1. ASSUME UNCHANGED undone, cmd \notin {"none", "revert"} PROVE Revertible'
  BY <1>1 DEF Revertible
<1>2. ASSUME NEW c \in Commands, Open(c) PROVE Revertible'
  BY <1>2 DEF Open, Revertible
<1>3. ASSUME NEW k \in Keys, NEW back \in 1 .. Len(Kept(mem, k)), Revert(k, back)
      PROVE  Revertible'
  <2> DEFINE target == Kept(mem, k)[back]
  <2>1. /\ target \in State /\ target # mem.secrets[k]
        /\ cmd' = "revert"
        /\ undone'.key = k /\ undone'.state = mem.secrets[k]
    BY <1>0, <1>3, KeptType DEF Revert, Becomes
  <2>2. mem' = IF target = Absent THEN Drop(mem, k) ELSE Put(mem, k, target)
    BY <1>3 DEF Revert, Becomes
  <2> HIDE DEF target
  <2>3. mem'.history = Record(mem, k).history /\ mem'.setting = mem.setting
    <3>1. CASE target = Absent
      BY <1>0, <2>2, <3>1, DropProps, SettingStays
    <3>2. CASE target # Absent
      <4>1. target \in Vals
        BY <2>1, <3>2 DEF State
      <4>2. mem' = Put(mem, k, target)
        BY <2>2, <3>2
      <4>3. Put(mem, k, target).setting = mem.setting
        BY <1>0, <4>1, SettingStays
      <4>4. mem.secrets[k] # target
        BY <2>1
      <4>5. Put(mem, k, target).history = Record(mem, k).history
        <5> DEFINE w == Put(mem, k, target)
        <5>1. /\ IsVault(w) /\ w.marks = mem.marks
              /\ w.secrets = [mem.secrets EXCEPT ![k] = target]
              /\ w.history = IF mem.secrets[k] = target THEN mem.history
                             ELSE Record(mem, k).history
          BY <1>0, <4>1, PutProps
        <5> HIDE DEF w
        <5>2. w.history = Record(mem, k).history
          BY <4>4, <5>1
        <5> QED
          BY <5>2 DEF w
      <4> QED
        BY <4>2, <4>3, <4>5
    <3> QED
      BY <3>1, <3>2
  <2>4. Keep(mem') = Keep(mem)
    BY <2>3 DEF Keep
  <2>5. ASSUME Keep(mem') > 0
        PROVE  Kept(mem', k) # <<>> /\ Kept(mem', k)[1] = mem.secrets[k]
    BY <1>0, <2>3, <2>4, <2>5, Recorded
  <2> QED
    BY <2>1, <2>5 DEF Revertible
<1>4. CASE Save
  BY <1>4 DEF Save, Revertible
<1>5. CASE Fail
  BY <1>5 DEF Fail, Revertible
<1>6. CASE UNCHANGED vars
  BY <1>6 DEF vars, Revertible
<1>7. ASSUME NEW k \in Keys, NEW val \in Vals,
             NEW flag \in {"expand", "literal", "neither"}, SetArg(k, val, flag)
      PROVE  Revertible'
  BY <1>1, <1>7 DEF SetArg
<1>8. ASSUME NEW s \in Counts \cup {Garbage}, SetSetting(s) PROVE Revertible'
  BY <1>1, <1>8 DEF SetSetting
<1>9. CASE UnsetSetting
  BY <1>1, <1>9 DEF UnsetSetting
<1>10. CASE UnsetMarks
  BY <1>1, <1>10 DEF UnsetMarks
<1>11. ASSUME NEW k \in Keys, UnsetArg(k) PROVE Revertible'
  BY <1>1, <1>11 DEF UnsetArg
<1>12. ASSUME NEW n \in Counts, Switch(n) PROVE Revertible'
  BY <1>1, <1>12 DEF Switch
<1>13. CASE PurgeAll
  BY <1>1, <1>13 DEF PurgeAll, PurgeKeys
<1>14. ASSUME NEW k \in Keys, PurgeArg(k) PROVE Revertible'
  BY <1>1, <1>14 DEF PurgeArg, PurgeKeys
<1> QED
  BY <1>2, <1>3, <1>4, <1>5, <1>6, <1>7, <1>8, <1>9, <1>10, <1>11, <1>12,
     <1>13, <1>14 DEF Next

\* With history on, what a saved revert replaced is the next state to revert
\* to, for any keys, values and settings.
THEOREM AlwaysRevertible == Spec => []RevertIsKept
<1>1. Init => Revertible
  BY DEF Init, Revertible
<1>2. TypeOK /\ Revertible => RevertIsKept
  BY DEF TypeOK, Revertible, RevertIsKept
<1> QED
  BY <1>1, <1>2, RevertibleNext, TypeCorrect, PTL DEF Spec
=============================================================================
