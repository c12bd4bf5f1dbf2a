---------------------------- MODULE CountingLemmas ----------------------------
(***************************************************************************)
(* Facts about least numbers, sets around a limit, totals, numbers in      *)
(* ascending order and sequences put together, which the proofs of         *)
(* several components use.                                                 *)
(***************************************************************************)
EXTENDS Counting, SequencesExt, FiniteSetTheorems, SequenceTheorems, WellFoundedInduction, TLAPS

\* Numbers have a first one, and numbers up to a limit a last one.
LEMMA FirstOfNumbers ==
  ASSUME NEW S \in SUBSET Nat, S # {}
  PROVE  \E i \in S : \A k \in S : i <= k
  <1>1. PICK i \in S : \A k \in S : ~(<<k, i>> \in OpToRel(<, Nat)) BY NatLessThanWellFounded, WFMin
  <1>2. \A k \in S : <<k, i>> \in Nat \X Nat /\ <<k, i>>[1] = k /\ <<k, i>>[2] = i OBVIOUS
  <1>3. \A k \in S : k < i => <<k, i>> \in {ss \in Nat \X Nat : ss[1] < ss[2]} BY <1>2
  <1>4. \A k \in S : ~(k < i) BY <1>1, <1>3 DEF OpToRel
  <1> QED BY <1>4

LEMMA LastOfNumbers ==
  ASSUME NEW L \in Nat, NEW A \in SUBSET (0 .. L), A # {}
  PROVE  \E k \in A : \A j \in A : j <= k
  <1> DEFINE S == {L - k : k \in A}
  <1>0. \A k \in A : k \in Nat /\ k <= L /\ L - k \in Nat OBVIOUS
  <1>1. S \in SUBSET Nat /\ S # {} BY <1>0
  <1>2. PICK m \in S : \A i \in S : m <= i BY <1>1, FirstOfNumbers
  <1>3. PICK k \in A : m = L - k BY <1>2
  <1>4. \A j \in A : j <= k
    <2> TAKE j \in A
    <2>1. L - k <= L - j BY <1>2, <1>3
    <2> QED BY <1>0, <2>1
  <1> QED BY <1>4

LEMMA FirstNumbers == \A k \in Nat : IsFiniteSet(1 .. k) /\ Cardinality(1 .. k) = k
  <1> TAKE k \in Nat
  <1>1. Cardinality(1 .. k) = IF 1 > k THEN 0 ELSE k - 1 + 1 BY FS_Interval
  <1> QED BY <1>1, FS_Interval

\* Sets around a limit.
LEMMA WithinLimit ==
  ASSUME NEW S, IsFiniteSet(S), NEW n \in Nat
  PROVE  /\ Cardinality(S) \in Nat
         /\ \A T \in SUBSET S : IsFiniteSet(T) /\ Cardinality(T) \in Nat /\ Cardinality(T) <= Cardinality(S)
         /\ \A x : /\ IsFiniteSet(S \union {x}) /\ Cardinality(S \union {x}) \in Nat
                   /\ Cardinality(S) < n => Cardinality(S \union {x}) <= n
         /\ \A x \in S : Cardinality(S) <= n => Cardinality(S \ {x}) < n
  <1>1. Cardinality(S) \in Nat BY FS_CardinalityType
  <1>2. \A T \in SUBSET S : IsFiniteSet(T) /\ Cardinality(T) \in Nat /\ Cardinality(T) <= Cardinality(S)
    BY FS_Subset, FS_CardinalityType
  <1>3. ASSUME NEW x
        PROVE  /\ IsFiniteSet(S \union {x}) /\ Cardinality(S \union {x}) \in Nat
               /\ Cardinality(S) < n => Cardinality(S \union {x}) <= n
    <2>1. IsFiniteSet(S \union {x}) /\ Cardinality(S \union {x}) = IF x \in S THEN Cardinality(S) ELSE Cardinality(S) + 1
      BY FS_AddElement
    <2> QED BY <1>1, <2>1
  <1>4. ASSUME NEW x \in S, Cardinality(S) <= n PROVE Cardinality(S \ {x}) < n
    <2>1. Cardinality(S \ {x}) = Cardinality(S) - 1 BY FS_RemoveElement
    <2> QED BY <1>1, <1>4, <2>1
  <1> QED BY <1>1, <1>2, <1>3, <1>4

-----------------------------------------------------------------------------
(* Totals *)

\* The units of finitely many bounded members are finite, more members have no
\* fewer, and a member that joins adds its own.
LEMMA TotalFinite ==
  ASSUME NEW S, IsFiniteSet(S), NEW f, NEW B \in Nat, \A x \in S : f[x] \in Nat /\ f[x] <= B
  PROVE  IsFiniteSet(Units(f, S)) /\ Total(f, S) \in Nat
  <1>1. IsFiniteSet(S \X (1 .. B))
    <2>1. IsFiniteSet(1 .. B) BY FS_Interval
    <2> QED BY <2>1, FS_Product
  <1>2. Units(f, S) \subseteq S \X (1 .. B)
    <2> SUFFICES ASSUME NEW x \in S, NEW u \in {x} \X (1 .. f[x]) PROVE u \in S \X (1 .. B) BY DEF Units
    <2>1. 1 .. f[x] \subseteq 1 .. B OBVIOUS
    <2> QED BY <2>1
  <1> QED BY <1>1, <1>2, FS_Subset, FS_CardinalityType DEF Total

LEMMA TotalGrows ==
  ASSUME NEW S, IsFiniteSet(S), NEW f, NEW B \in Nat, \A x \in S : f[x] \in Nat /\ f[x] <= B,
         NEW T \in SUBSET S
  PROVE  Total(f, T) <= Total(f, S)
  <1>1. Units(f, T) \subseteq Units(f, S) BY DEF Units
  <1>2. IsFiniteSet(Units(f, S)) BY TotalFinite
  <1> QED BY <1>1, <1>2, FS_Subset DEF Total

LEMMA TotalJoins ==
  ASSUME NEW S, IsFiniteSet(S), NEW f, NEW B \in Nat, NEW x, x \notin S,
         \A y \in S \union {x} : f[y] \in Nat /\ f[y] <= B
  PROVE  Total(f, S \union {x}) = Total(f, S) + f[x]
  <1> DEFINE new == {x} \X (1 .. f[x])
             old == Units(f, S)
             n == f[x]
  <1>1. Units(f, S \union {x}) = old \union new BY DEF Units
  <1>2. old \intersect new = {} BY DEF Units
  <1>3. n \in Nat OBVIOUS
  <1>4. IsFiniteSet(new) /\ Cardinality(new) = n
    <2>1. IsFiniteSet(1 .. n) /\ Cardinality(1 .. n) = n BY <1>3, FirstNumbers
    <2>2. IsFiniteSet({x}) /\ Cardinality({x}) = 1 BY FS_Singleton
    <2> DEFINE I == 1 .. n
    <2>3. ASSUME NEW J, IsFiniteSet(J), NEW k, Cardinality(J) = k
          PROVE  IsFiniteSet({x} \X J) /\ Cardinality({x} \X J) = 1 * k
      <3>1. IsFiniteSet({x} \X J) /\ Cardinality({x} \X J) = Cardinality({x}) * Cardinality(J)
        BY <2>2, <2>3, FS_Product
      <3> QED BY <2>2, <2>3, <3>1
    <2>4. IsFiniteSet({x} \X I) /\ Cardinality({x} \X I) = 1 * n
      <3> HIDE DEF I
      <3> QED BY <2>1, <2>3 DEF I
    <2> QED BY <1>3, <2>4
  <1>5. IsFiniteSet(old) /\ Cardinality(old) \in Nat BY TotalFinite DEF Total
  <1> HIDE DEF new, old, n
  <1>6. Cardinality(old \union new) = Cardinality(old) + Cardinality(new) - Cardinality(old \intersect new)
    BY <1>4, <1>5, FS_Union
  <1>7. Cardinality(old \intersect new) = 0 BY <1>2, FS_EmptySet
  <1>8. Cardinality(old \union new) = Cardinality(old) + n BY <1>3, <1>4, <1>5, <1>6, <1>7
  <1> QED BY <1>1, <1>8 DEF Total, old, n

LEMMA TotalLeaves ==
  ASSUME NEW S, IsFiniteSet(S), NEW f, NEW B \in Nat, \A y \in S : f[y] \in Nat /\ f[y] <= B, NEW x \in S
  PROVE  Total(f, S \ {x}) = Total(f, S) - f[x]
  <1>1. S = (S \ {x}) \union {x} /\ IsFiniteSet(S \ {x}) BY FS_Subset
  <1>2. Total(f, S) = Total(f, S \ {x}) + f[x]
    <2>1. Total(f, (S \ {x}) \union {x}) = Total(f, S \ {x}) + f[x] BY <1>1, TotalJoins
    <2> QED BY <1>1, <2>1
  <1>3. Total(f, S \ {x}) \in Nat /\ f[x] \in Nat BY <1>1, TotalFinite
  <1> QED BY <1>2, <1>3

LEMMA TotalSame ==
  ASSUME NEW S, NEW f, NEW g, \A x \in S : f[x] = g[x]
  PROVE  Total(f, S) = Total(g, S)
  <1>1. \A u : u \in Units(f, S) <=> u \in Units(g, S) BY DEF Units
  <1>2. Units(f, S) = Units(g, S) BY <1>1
  <1> QED BY <1>2 DEF Total

LEMMA TotalNext ==
  ASSUME NEW k \in Nat, NEW f, NEW B \in Nat, \A y \in 1 .. k + 1 : f[y] \in Nat /\ f[y] <= B
  PROVE  Total(f, 1 .. k + 1) = Total(f, 1 .. k) + f[k + 1]
  <1> DEFINE S == 1 .. k
             i == k + 1
  <1>1. IsFiniteSet(S) /\ i \notin S BY FirstNumbers
  <1>2. S \union {i} = 1 .. k + 1 OBVIOUS
  <1>3. \A y \in S \union {i} : f[y] \in Nat /\ f[y] <= B BY <1>2
  <1> HIDE DEF S, i
  <1>4. Total(f, S \union {i}) = Total(f, S) + f[i] BY <1>1, <1>3, TotalJoins
  <1> QED BY <1>2, <1>4 DEF S, i

-----------------------------------------------------------------------------
(* The numbers of a set in ascending order *)

LEMMA SmallerIs ==
  ASSUME NEW S \in SUBSET Nat, IsFiniteSet(S), NEW i \in S
  PROVE  /\ Smaller(S, i) \in Nat /\ Smaller(S, i) + 1 <= Cardinality(S)
         /\ \A j \in S : i < j => Smaller(S, i) < Smaller(S, j)
  <1> DEFINE Under(j) == {k \in S : k < j}
  <1>1. \A j \in S : Under(j) \in SUBSET S /\ IsFiniteSet(Under(j)) /\ Cardinality(Under(j)) \in Nat
    <2> TAKE j \in S
    <2>1. Under(j) \in SUBSET S OBVIOUS
    <2> QED BY <2>1, FS_Subset, FS_CardinalityType
  <1>2. i \notin Under(i) OBVIOUS
  <1>3. Cardinality(S) \in Nat BY FS_CardinalityType
  <1>4. \A T \in SUBSET S : Under(i) \union {i} \subseteq T => Cardinality(Under(i)) + 1 <= Cardinality(T) /\ Cardinality(T) \in Nat
    <2> SUFFICES ASSUME NEW T \in SUBSET S, Under(i) \union {i} \subseteq T
                 PROVE  Cardinality(Under(i)) + 1 <= Cardinality(T) /\ Cardinality(T) \in Nat
      OBVIOUS
    <2>1. IsFiniteSet(T) BY FS_Subset
    <2>2. Cardinality(Under(i) \union {i}) = Cardinality(Under(i)) + 1 BY <1>1, <1>2, FS_AddElement
    <2>3. Cardinality(Under(i) \union {i}) <= Cardinality(T) BY <2>1, FS_Subset
    <2> QED BY <2>1, <2>2, <2>3, FS_CardinalityType
  <1>5. Under(i) \union {i} \subseteq S OBVIOUS
  <1>6. \A j \in S : i < j => Under(i) \union {i} \subseteq Under(j)
    <2>1. \A a, b, c \in Nat : a < b /\ b < c => a < c OBVIOUS
    <2>2. \A a, b : a \in Under(b) <=> a \in S /\ a < b OBVIOUS
    <2> HIDE DEF Under
    <2> QED BY <2>1, <2>2
  <1>7. \A j : Smaller(S, j) = Cardinality(Under(j)) BY DEF Smaller
  <1> HIDE DEF Under
  <1>8. Cardinality(Under(i)) + 1 <= Cardinality(S) BY <1>4, <1>5
  <1>9. ASSUME NEW j \in S, i < j PROVE Cardinality(Under(i)) < Cardinality(Under(j))
    <2>1. Cardinality(Under(i)) + 1 <= Cardinality(Under(j)) BY <1>1, <1>4, <1>6, <1>9
    <2> QED BY <1>1, <2>1
  <1> QED BY <1>1, <1>7, <1>8, <1>9

\* Every number of the set comes at one place.
LEMMA AscendingIs ==
  ASSUME NEW S \in SUBSET Nat, IsFiniteSet(S)
  PROVE  /\ Cardinality(S) \in Nat /\ Ascending(S) \in [1 .. Cardinality(S) -> S]
         /\ \A k \in 1 .. Cardinality(S) : Smaller(S, Ascending(S)[k]) = k - 1
         /\ \A i \in S : \E k \in 1 .. Cardinality(S) : Ascending(S)[k] = i
         /\ \A k, l \in 1 .. Cardinality(S) : Ascending(S)[k] = Ascending(S)[l] => k = l
  <1> DEFINE n == Cardinality(S)
             R(i) == Smaller(S, i)
             f == [i \in S |-> R(i) + 1]
  <1>1. n \in Nat BY FS_CardinalityType
  <1>2. \A i \in S : R(i) \in Nat /\ R(i) + 1 <= n BY SmallerIs
  <1>3. ASSUME NEW i \in S, NEW j \in S, R(i) = R(j) PROVE i = j
    <2>1. i \in Nat /\ j \in Nat OBVIOUS
    <2>2. ~(i < j) BY <1>2, <1>3, SmallerIs
    <2>3. ~(j < i) BY <1>2, <1>3, SmallerIs
    <2> QED BY <2>1, <2>2, <2>3
  <1> HIDE DEF R
  <1>4. f \in [S -> 1 .. n] BY <1>1, <1>2
  <1>5. \A i, j \in S : f[i] = f[j] => i = j
    <2> TAKE i, j \in S
    <2>1. f[i] = R(i) + 1 /\ f[j] = R(j) + 1 OBVIOUS
    <2> QED BY <1>2, <1>3, <2>1
  <1>6. f \in Injection(S, 1 .. n)
    <2> HIDE DEF f
    <2> QED BY <1>4, <1>5 DEF Injection, IsInjective
  <1>7. IsFiniteSet(1 .. n) /\ Cardinality(1 .. n) = n BY <1>1, FirstNumbers
  <1>8. f \in Surjection(S, 1 .. n)
    <2> HIDE DEF f, n
    <2> QED BY <1>6, <1>7, FS_Injection DEF n
  <1>9. \A k \in 1 .. n : \E i \in S : f[i] = k
    <2> HIDE DEF f, n
    <2> QED BY <1>8 DEF Surjection
  <1>10. \A k \in 1 .. n : \E i \in S : R(i) = k - 1
    <2> TAKE k \in 1 .. n
    <2>1. PICK i \in S : f[i] = k BY <1>9
    <2>2. f[i] = R(i) + 1 OBVIOUS
    <2>3. R(i) = k - 1 BY <1>1, <1>2, <2>1, <2>2
    <2> QED BY <2>3
  <1>11. Ascending(S) = [k \in 1 .. n |-> CHOOSE i \in S : R(i) = k - 1] BY DEF Ascending, R
  <1> HIDE DEF f, n
  <1>12. ASSUME NEW k \in 1 .. n PROVE Ascending(S)[k] \in S /\ R(Ascending(S)[k]) = k - 1 BY <1>10, <1>11
  <1>13. Ascending(S) \in [1 .. n -> S] BY <1>11, <1>12
  <1>14. ASSUME NEW i \in S PROVE \E k \in 1 .. n : Ascending(S)[k] = i
    <2>1. R(i) + 1 \in 1 .. n /\ (R(i) + 1) - 1 = R(i) BY <1>1, <1>2
    <2>2. Ascending(S)[R(i) + 1] = i BY <1>3, <1>12, <2>1
    <2> QED BY <2>1, <2>2
  <1>15. ASSUME NEW k \in 1 .. n, NEW l \in 1 .. n, Ascending(S)[k] = Ascending(S)[l] PROVE k = l
    <2>1. k - 1 = l - 1 BY <1>12, <1>15
    <2> QED BY <1>1, <2>1
  <1> QED BY <1>1, <1>12, <1>13, <1>14, <1>15 DEF n, R

-----------------------------------------------------------------------------
(* Sequences put together *)

\* FlattenSeq, computed from the front.
Flattens(F, seqs, c) == F = [i \in 1 .. c |-> IF i = 1 THEN seqs[i] ELSE F[i - 1] \o seqs[i]]

LEMMA FlattenIs ==
  ASSUME NEW seqs, NEW c \in Nat \ {0}, Len(seqs) = c, NEW F, Flattens(F, seqs, c)
  PROVE  FlattenSeq(seqs) = F[c]
  <1> DEFINE Def(f) == f = [i \in 1 .. c |-> IF i = 1 THEN seqs[i] ELSE f[i - 1] \o seqs[i]]
             g == CHOOSE f : Def(f)
  <1>1. FlattenSeq(seqs) = g[c] BY DEF FlattenSeq
  <1>2. Def(F) BY DEF Flattens
  <1>3. Def(g) BY <1>2, Zenon
  <1> HIDE DEF g
  <1> DEFINE Bad == {i \in 1 .. c : g[i] # F[i]}
  <1>4. Bad = {}
    <2> SUFFICES ASSUME Bad # {} PROVE FALSE OBVIOUS
    <2>1. Bad \in SUBSET Nat OBVIOUS
    <2>2. PICK i \in Bad : \A k \in Bad : i <= k
      <3> HIDE DEF Bad
      <3> QED BY <2>1, FirstOfNumbers
    <2>3. i \in 1 .. c /\ g[i] # F[i] BY <2>2
    <2>4. CASE i = 1
      <3>1. g[i] = seqs[i] BY <1>3, <2>3, <2>4
      <3>2. F[i] = seqs[i] BY <1>2, <2>3, <2>4
      <3> QED BY <2>3, <3>1, <3>2
    <2>5. CASE i # 1
      <3> DEFINE j == i - 1
      <3>1. j \in 1 .. c /\ j < i /\ j \in Int BY <2>3, <2>5
      <3>2. g[j] = F[j] BY <2>2, <2>3, <3>1
      <3>3. g[i] = g[j] \o seqs[i] BY <1>3, <2>3, <2>5
      <3>4. F[i] = F[j] \o seqs[i] BY <1>2, <2>3, <2>5
      <3> QED BY <2>3, <3>2, <3>3, <3>4
    <2> QED BY <2>3, <2>4, <2>5
  <1>5. c \in 1 .. c OBVIOUS
  <1>6. g[c] = F[c] BY <1>4, <1>5
  <1> QED BY <1>1, <1>6

LEMMA PiecesJoin ==
  ASSUME NEW X, NEW a \in Nat, NEW b \in Nat
  PROVE  [k \in 1 .. a |-> X[k]] \o [k \in 1 .. b |-> X[a + k]] = [k \in 1 .. a + b |-> X[k]]
  <1> DEFINE W == {X[k] : k \in 1 .. a + b}
             s == [k \in 1 .. a |-> X[k]]
             t == [k \in 1 .. b |-> X[a + k]]
  <1>1. s \in Seq(W) /\ Len(s) = a OBVIOUS
  <1>2. t \in Seq(W) /\ Len(t) = b
    <2>1. \A k \in 1 .. b : a + k \in 1 .. a + b OBVIOUS
    <2>2. t \in [1 .. b -> W] BY <2>1
    <2> QED BY <2>2
  <1>3. \A k \in 1 .. a : s[k] = X[k] OBVIOUS
  <1>4. \A k \in 1 .. b : t[k] = X[a + k] OBVIOUS
  <1> HIDE DEF W, s, t
  <1>5. /\ s \o t \in Seq(W) /\ Len(s \o t) = a + b
        /\ \A i \in 1 .. a + b : (s \o t)[i] = IF i <= a THEN s[i] ELSE t[i - a]
    BY <1>1, <1>2, ConcatProperties
  <1>6. \A i \in 1 .. a + b : (s \o t)[i] = X[i]
    <2> SUFFICES ASSUME NEW i \in 1 .. a + b PROVE (s \o t)[i] = X[i] OBVIOUS
    <2>1. CASE i <= a BY <1>3, <1>5, <2>1
    <2>2. CASE ~(i <= a)
      <3> DEFINE k == i - a
      <3>1. k \in 1 .. b /\ a + k = i BY <2>2
      <3> HIDE DEF k
      <3>2. t[k] = X[i] BY <1>4, <3>1
      <3>3. (s \o t)[i] = t[k] BY <1>5, <2>2 DEF k
      <3> QED BY <3>2, <3>3
    <2> QED BY <2>1, <2>2
  <1> DEFINE u == s \o t
  <1>7. u \in Seq(W) /\ Len(u) = a + b BY <1>5
  <1>8. \A i \in 1 .. a + b : u[i] = X[i] BY <1>6
  <1> HIDE DEF u
  <1>9. u \in [1 .. a + b -> W] BY <1>7
  <1>10. u = [i \in 1 .. a + b |-> X[i]] BY <1>8, <1>9
  <1> QED BY <1>10 DEF u, s, t
=============================================================================
