------------------------------ MODULE DataLemmas ------------------------------
(***************************************************************************)
(* Lemmas about numbers, finite sets, sequences and sums that the proofs   *)
(* about the components rest on.                                           *)
(*                                                                         *)
(* There is a latest among records whose times are bounded, as those are   *)
(* that were taken from a clock; queries that rank rows by their time      *)
(* choose it.  A loop that appends to a list is a flattened sequence of    *)
(* sequences, and every element of those has a place of its own in it.     *)
(* What a recursive function or a fold computes is shown by induction over *)
(* a set of numbers, of sets or of what a measure orders (AllNumbers,      *)
(* AllSubsets, ByMeasure).                                                 *)
(***************************************************************************)
EXTENDS Integers, SequencesExt, WellFoundedInduction, SequenceTheorems,
        FiniteSetTheorems, FunctionTheorems, TLAPS

-----------------------------------------------------------------------------
(* Numbers and sizes.                                                      *)

\* A set of natural numbers has a least one.
LEMMA LeastExists ==
  ASSUME NEW T, T \subseteq Nat, T # {}
  PROVE  \E n \in T : \A m \in T : n <= m
<1>1. PICK n \in T : \A m \in T : <<m, n>> \notin OpToRel(<, Nat)
  BY WFMin, NatLessThanWellFounded
<1>2. \A m \in T : ~(m < n)
  BY <1>1 DEF OpToRel
<1> QED
  BY <1>2

\* A bounded function to the natural numbers has a greatest value.
LEMMA LatestExists ==
  ASSUME NEW S, S # {}, NEW f \in [S -> Nat], NEW b \in Nat,
         \A x \in S : f[x] <= b
  PROVE  \E x \in S : \A y \in S : f[y] <= f[x]
<1> DEFINE T == {b - f[x] : x \in S}
<1>1. T \subseteq Nat /\ T # {}
  OBVIOUS
<1>2. PICK n \in T : \A m \in T : n <= m
  BY <1>1, LeastExists
<1>3. PICK x \in S : n = b - f[x]
  BY <1>2
<1>4. ASSUME NEW y \in S
      PROVE  f[y] <= f[x]
  <2>1. n <= b - f[y]
    BY <1>2
  <2> QED
    BY <1>3, <2>1
<1> QED
  BY <1>4

\* Induction, on a set of numbers.
LEMMA AllNumbers ==
  ASSUME NEW K, 0 \in K, \A k \in K \intersect Nat : k + 1 \in K
  PROVE  Nat \subseteq K
<1> DEFINE Out == Nat \ K
<1>1. CASE Out # {}
  <2>1. PICK n \in Out : \A m \in Out : n <= m
    BY <1>1, LeastExists
  <2>2. n - 1 \in Nat /\ n - 1 \notin Out
    BY <2>1
  <2>3. n - 1 \in K \intersect Nat
    BY <2>2
  <2>4. (n - 1) + 1 = n
    BY <2>1
  <2> QED
    BY <2>1, <2>3, <2>4
<1> QED
  BY <1>1

\* Sizes add up: later parts begin where earlier ones end, and every place is
\* in a part.
LEMMA PartsAddUp ==
  ASSUME NEW N \in Nat, NEW before \in [0 .. N -> Nat], before[0] = 0,
         NEW size \in [1 .. N -> Nat],
         \A i \in 1 .. N : before[i] = before[i - 1] + size[i]
  PROVE  /\ \A j \in 0 .. N : \A i \in 0 .. j : before[i] <= before[j]
         /\ \A m \in 1 .. before[N] : \E i \in 1 .. N : \E k \in 1 .. size[i] :
              m = before[i - 1] + k
<1>0. /\ \A i \in 0 .. N : before[i] \in Nat /\ i \in Nat
      /\ \A i \in 1 .. N : size[i] \in Nat /\ i - 1 \in 0 .. N /\ i \in 0 .. N
  OBVIOUS
<1> DEFINE K == {j \in Nat : j <= N => \A i \in 0 .. j : before[i] <= before[j]}
<1>1. 0 \in K
  BY <1>0
<1>2. ASSUME NEW j \in K \intersect Nat
      PROVE  j + 1 \in K
  <2>1. j \in Nat /\ (j <= N => \A i \in 0 .. j : before[i] <= before[j])
    OBVIOUS
  <2>2. ASSUME j + 1 <= N, NEW i \in 0 .. j + 1
        PROVE  before[i] <= before[j + 1]
    <3>1. j + 1 \in 1 .. N /\ (j + 1) - 1 = j /\ j \in 0 .. N /\ j <= N
      BY <2>1, <2>2
    <3>2. before[j + 1] = before[j] + size[j + 1]
      BY <3>1
    <3>3. before[j] \in Nat /\ size[j + 1] \in Nat
      BY <1>0, <3>1
    <3>4. CASE i = j + 1
      BY <1>0, <3>1, <3>2, <3>3, <3>4
    <3>5. CASE i # j + 1
      <4>1. i \in 0 .. j /\ i \in 0 .. N
        BY <2>1, <2>2, <3>5
      <4>2. before[i] <= before[j] /\ before[i] \in Nat
        BY <1>0, <2>1, <3>1, <4>1
      <4> QED
        BY <3>2, <3>3, <4>2
    <3> QED
      BY <3>4, <3>5
  <2> QED
    BY <2>1, <2>2
<1>3. \A j \in 0 .. N : \A i \in 0 .. j : before[i] <= before[j]
  <2>1. Nat \subseteq K
    <3> HIDE DEF K
    <3> QED
      BY <1>1, <1>2, AllNumbers
  <2> QED
    BY <1>0, <2>1
<1>4. ASSUME NEW m \in 1 .. before[N]
      PROVE  \E i \in 1 .. N : \E k \in 1 .. size[i] : m = before[i - 1] + k
  <2> DEFINE Ends == {i \in 0 .. N : m <= before[i]}
  <2>1. N \in Ends /\ Ends \subseteq Nat
    BY <1>0
  <2>2. PICK i \in Ends : \A j \in Ends : i <= j
    BY <2>1, LeastExists
  <2>3. i \in 1 .. N /\ m <= before[i]
    BY <1>0
  <2>4. i - 1 \in 0 .. N /\ i - 1 \notin Ends
    BY <1>0, <2>2, <2>3
  <2>5. /\ before[i] = before[i - 1] + size[i]
        /\ before[i - 1] < m
        /\ before[i - 1] \in Nat /\ size[i] \in Nat
    BY <1>0, <2>3, <2>4
  <2>6. m - before[i - 1] \in 1 .. size[i] /\ m = before[i - 1] + (m - before[i - 1])
    BY <2>3, <2>5
  <2> QED
    BY <2>3, <2>6
<1> QED
  BY <1>3, <1>4

\* A bijection between finite sets, given as what it does.
LEMMA SameSize ==
  ASSUME NEW S, NEW T, IsFiniteSet(S), NEW f \in [S -> T],
         \A x, y \in S : f[x] = f[y] => x = y,
         \A t \in T : \E x \in S : f[x] = t
  PROVE  IsFiniteSet(T) /\ Cardinality(T) = Cardinality(S)
<1>1. f \in Bijection(S, T)
  BY Fun_IsBij
<1> QED
  BY <1>1, FS_Bijection, Fun_ExistsBij

\* A set of places of a sequence is finite.
LEMMA PlacesFinite ==
  ASSUME NEW n \in Nat, NEW S, S \subseteq 1 .. n
  PROVE  IsFiniteSet(S) /\ Cardinality(S) \in Nat
<1>1. IsFiniteSet(1 .. n)
  BY FS_Interval
<1>2. IsFiniteSet(S)
  BY <1>1, FS_Subset
<1> QED
  BY <1>2, FS_CardinalityType

\* A set without one of its elements.
LEMMA SizeLess ==
  ASSUME NEW s, IsFiniteSet(s), NEW k, k \in Nat, Cardinality(s) = k + 1
  PROVE  /\ s # {}
         /\ \A x \in s : IsFiniteSet(s \ {x}) /\ Cardinality(s \ {x}) = k
<1>1. s # {}
  BY FS_EmptySet
<1>2. ASSUME NEW x \in s
      PROVE  IsFiniteSet(s \ {x}) /\ Cardinality(s \ {x}) = Cardinality(s) - 1
  BY FS_RemoveElement
<1> QED
  BY <1>1, <1>2

\* Induction over the subsets of a finite set.
LEMMA AllSubsets ==
  ASSUME NEW S, IsFiniteSet(S), NEW Q, {} \in Q,
         \A s \in Q \intersect SUBSET S : \A x \in S \ s : s \union {x} \in Q
  PROVE  SUBSET S \subseteq Q
<1> DEFINE K == {k \in Nat : \A s \in SUBSET S : Cardinality(s) = k => s \in Q}
<1>0. \A s \in SUBSET S : IsFiniteSet(s) /\ Cardinality(s) \in Nat
  BY FS_Subset, FS_CardinalityType
<1>1. 0 \in K
  BY <1>0, FS_EmptySet
<1>2. ASSUME NEW k \in K \intersect Nat
      PROVE  k + 1 \in K
  <2>1. k \in Nat /\ \A s \in SUBSET S : Cardinality(s) = k => s \in Q
    OBVIOUS
  <2>2. ASSUME NEW s \in SUBSET S, Cardinality(s) = k + 1
        PROVE  s \in Q
    <3>1. s # {} /\ \A x \in s : Cardinality(s \ {x}) = k
      BY <1>0, <2>2, SizeLess
    <3> PICK x \in s : TRUE
      BY <3>1
    <3> DEFINE t == s \ {x}
    <3>2. Cardinality(t) = k
      BY <3>1
    <3>3. t \in SUBSET S /\ x \in S \ t /\ s = t \union {x}
      OBVIOUS
    <3>4. t \in Q
      BY <2>1, <3>2, <3>3
    <3> HIDE DEF t
    <3> QED
      BY <3>3, <3>4
  <2> QED
    BY <2>1, <2>2
<1>3. Nat \subseteq K
  <2> HIDE DEF K
  <2> QED
    BY <1>1, <1>2, AllNumbers
<1> QED
  BY <1>0, <1>3

\* Induction over a measure: what holds of n when it holds of everything smaller
\* holds of everything.
LEMMA ByMeasure ==
  ASSUME NEW D, NEW f \in [D -> Nat], NEW Q,
         \A n \in D : (\A m \in D : f[m] < f[n] => m \in Q) => n \in Q
  PROVE  D \subseteq Q
<1> DEFINE T == {f[n] : n \in D \ Q}
<1>1. CASE T # {}
  <2>1. PICK k \in T : \A l \in T : k <= l
    <3>1. T \subseteq Nat
      OBVIOUS
    <3> HIDE DEF T
    <3> QED
      BY <1>1, <3>1, LeastExists
  <2>2. PICK n \in D \ Q : f[n] = k
    BY <2>1
  <2>3. ASSUME NEW m \in D, f[m] < f[n], m \notin Q
        PROVE  FALSE
    <3>1. k <= f[m]
      BY <2>1, <2>3
    <3>2. f[m] \in Nat /\ f[n] \in Nat
      BY <2>2
    <3> QED
      BY <2>2, <2>3, <3>1, <3>2
  <2>4. \A m \in D : f[m] < f[n] => m \in Q
    BY <2>3
  <2> QED
    BY <2>2, <2>4
<1>2. CASE T = {}
  BY <1>2
<1> QED
  BY <1>1, <1>2

-----------------------------------------------------------------------------
(* Flattened sequences.                                                    *)

\* The recursive function that FlattenSeq is.
Flattens(F, seqs) ==
  F = [i \in 1 .. Len(seqs) |->
         IF i = 1 THEN seqs[i] ELSE F[i - 1] \o seqs[i]]

\* There is such a function.
LEMMA FlattenExists ==
  ASSUME NEW T, NEW seqs \in Seq(Seq(T))
  PROVE  \E F : Flattens(F, seqs)
<1> DEFINE Part(F, k) ==
             /\ F \in [1 .. k -> Seq(T)]
             /\ \A i \in 1 .. k :
                  F[i] = IF i = 1 THEN seqs[i] ELSE F[i - 1] \o seqs[i]
           K == {k \in Nat : k <= Len(seqs) => \E F : Part(F, k)}
<1>0. Len(seqs) \in Nat /\ \A i \in 1 .. Len(seqs) : seqs[i] \in Seq(T)
  BY LenProperties, ElementOfSeq
<1>1. 0 \in K
  <2>1. Part([i \in 1 .. 0 |-> <<>>], 0)
    OBVIOUS
  <2> QED
    BY <2>1
<1>2. ASSUME NEW k \in K
      PROVE  k + 1 \in K
  <2>0. k \in Nat /\ (k <= Len(seqs) => \E F : Part(F, k))
    <3> HIDE DEF Part
    <3> QED
      OBVIOUS
  <2> SUFFICES ASSUME k + 1 <= Len(seqs)
               PROVE  \E F : Part(F, k + 1)
    <3> HIDE DEF Part
    <3> QED
      BY <2>0
  <2>1. PICK F : Part(F, k)
    <3> HIDE DEF Part
    <3> QED
      BY <1>0, <2>0
  <2> DEFINE G == [i \in 1 .. k + 1 |->
                     IF i \in 1 .. k THEN F[i]
                     ELSE IF i = 1 THEN seqs[i] ELSE F[i - 1] \o seqs[i]]
  <2>2. G \in [1 .. k + 1 -> Seq(T)]
    <3> SUFFICES ASSUME NEW i \in 1 .. k + 1
                 PROVE  G[i] \in Seq(T)
      OBVIOUS
    <3>1. seqs[i] \in Seq(T)
      BY <1>0
    <3>2. CASE i \in 1 .. k
      BY <2>1, <3>2
    <3>3. CASE i \notin 1 .. k /\ i = 1
      BY <3>1, <3>3
    <3>4. CASE i \notin 1 .. k /\ i # 1
      <4>1. i - 1 \in 1 .. k
        BY <3>4
      <4>2. F[i - 1] \o seqs[i] \in Seq(T)
        BY <2>1, <3>1, <4>1, ConcatProperties
      <4> QED
        BY <3>4, <4>2
    <3> QED
      BY <3>2, <3>3, <3>4
  <2>3. ASSUME NEW i \in 1 .. k + 1
        PROVE  G[i] = IF i = 1 THEN seqs[i] ELSE G[i - 1] \o seqs[i]
    <3>1. CASE i = 1
      BY <2>1, <3>1
    <3>2. CASE i # 1
      <4>1. i - 1 \in 1 .. k /\ i - 1 \in 1 .. k + 1
        BY <3>2
      <4>2. G[i - 1] = F[i - 1]
        BY <4>1
      <4> QED
        BY <2>1, <3>2, <4>1, <4>2
    <3> QED
      BY <3>1, <3>2
  <2>4. Part(G, k + 1)
    BY <2>2, <2>3
  <2> QED
    BY <2>4
<1>3. Len(seqs) \in K
  <2> HIDE DEF K
  <2> QED
    BY <1>0, <1>1, <1>2, AllNumbers
<1>4. PICK F : Part(F, Len(seqs))
  BY <1>0, <1>3
<1>5. F = [i \in 1 .. Len(seqs) |->
             IF i = 1 THEN seqs[i] ELSE F[i - 1] \o seqs[i]]
  BY <1>4
<1> QED
  BY <1>5 DEF Flattens

\* The concatenations of the first sequences, one more at each place.
LEMMA FlattenTrace ==
  ASSUME NEW T, NEW seqs \in Seq(Seq(T))
  PROVE  \E F : /\ F \in [0 .. Len(seqs) -> Seq(T)]
                /\ F[0] = <<>>
                /\ \A i \in 1 .. Len(seqs) : F[i] = F[i - 1] \o seqs[i]
                /\ F[Len(seqs)] = FlattenSeq(seqs)
<1>0. Len(seqs) \in Nat /\ \A i \in 1 .. Len(seqs) : seqs[i] \in Seq(T)
  BY LenProperties, ElementOfSeq
<1>1. CASE Len(seqs) = 0
  <2>1. seqs = <<>>
    BY <1>1, EmptySeq
  <2>2. FlattenSeq(seqs) = <<>>
    BY <1>1, <2>1 DEF FlattenSeq
  <2> WITNESS [i \in 0 .. Len(seqs) |-> <<>>]
  <2> QED
    BY <1>1, <2>2
<1>2. CASE Len(seqs) # 0
  <2> DEFINE flatten == CHOOSE F : Flattens(F, seqs)
  <2>1. Flattens(flatten, seqs)
    BY FlattenExists
  <2>2. FlattenSeq(seqs) = flatten[Len(seqs)]
    BY <1>2 DEF FlattenSeq, Flattens
  <2> DEFINE Given == {i \in Nat : i \in 1 .. Len(seqs) => flatten[i] \in Seq(T)}
             G == [i \in 0 .. Len(seqs) |-> IF i = 0 THEN <<>> ELSE flatten[i]]
  <2>3. ASSUME NEW i \in 1 .. Len(seqs)
        PROVE  flatten[i] = IF i = 1 THEN seqs[i] ELSE flatten[i - 1] \o seqs[i]
    <3> HIDE DEF flatten
    <3> QED
      BY <2>1, <2>3 DEF Flattens
  <2> HIDE DEF flatten
  <2>4. 0 \in Given
    OBVIOUS
  <2>5. ASSUME NEW k \in Given \intersect Nat
        PROVE  k + 1 \in Given
    <3> SUFFICES ASSUME k + 1 \in 1 .. Len(seqs)
                 PROVE  flatten[k + 1] \in Seq(T)
      OBVIOUS
    <3>1. seqs[k + 1] \in Seq(T)
      BY <1>0
    <3>2. CASE k = 0
      BY <2>3, <3>1, <3>2
    <3>3. CASE k # 0
      <4>1. flatten[k] \in Seq(T) /\ (k + 1) - 1 = k
        BY <1>0, <3>3
      <4>2. flatten[k] \o seqs[k + 1] \in Seq(T)
        BY <3>1, <4>1, ConcatProperties
      <4>3. flatten[k + 1] = flatten[(k + 1) - 1] \o seqs[k + 1]
        <5> DEFINE i == k + 1
        <5>1. i \in 1 .. Len(seqs) /\ i # 1
          BY <3>3
        <5> HIDE DEF i
        <5>2. flatten[i] = flatten[i - 1] \o seqs[i]
          BY <2>3, <5>1
        <5> QED
          BY <5>2 DEF i
      <4> QED
        BY <4>1, <4>2, <4>3
    <3> QED
      BY <3>2, <3>3
  <2>6. \A i \in 1 .. Len(seqs) : flatten[i] \in Seq(T)
    <3>1. Nat \subseteq Given
      <4> HIDE DEF Given
      <4> QED
        BY <2>4, <2>5, AllNumbers
    <3> QED
      BY <1>0, <3>1
  <2>7. G \in [0 .. Len(seqs) -> Seq(T)] /\ G[0] = <<>>
    BY <1>0, <2>6
  <2>8. ASSUME NEW i \in 1 .. Len(seqs)
        PROVE  G[i] = G[i - 1] \o seqs[i]
    <3>1. CASE i = 1
      <4>1. G[i] = seqs[i] /\ G[i - 1] = <<>>
        BY <1>0, <2>3, <3>1
      <4>2. seqs[i] \in Seq(T)
        BY <1>0
      <4> QED
        BY <4>1, <4>2, ConcatEmptySeq
    <3>2. CASE i # 1
      <4>1. G[i] = flatten[i] /\ G[i - 1] = flatten[i - 1]
        BY <1>0, <3>2
      <4> QED
        BY <2>3, <3>2, <4>1
    <3> QED
      BY <3>1, <3>2
  <2>9. G[Len(seqs)] = FlattenSeq(seqs)
    BY <1>0, <1>2, <2>2
  <2> HIDE DEF G
  <2> QED
    BY <2>7, <2>8, <2>9
<1> QED
  BY <1>1, <1>2

\* The places of the elements of sequences.
PlacesIn(seqs) == UNION {{<<i, k>> : k \in DOMAIN seqs[i]} : i \in DOMAIN seqs}

\* f takes the elements of S to places of s one by one, and leaves none out.
Fills(f, S, s) ==
  /\ f \in [S -> DOMAIN s]
  /\ \A x, y \in S : f[x] = f[y] => x = y
  /\ \A n \in DOMAIN s : \E x \in S : f[x] = n

\* A flattened sequence has every element of the given ones in a place of its
\* own, and nothing else.
LEMMA FlattenFills ==
  ASSUME NEW T, NEW seqs \in Seq(Seq(T))
  PROVE  /\ FlattenSeq(seqs) \in Seq(T)
         /\ \E f : /\ Fills(f, PlacesIn(seqs), FlattenSeq(seqs))
                   /\ \A x \in PlacesIn(seqs) :
                        FlattenSeq(seqs)[f[x]] = seqs[x[1]][x[2]]
<1> DEFINE N == Len(seqs)
           s == FlattenSeq(seqs)
<1>1. N \in Nat /\ DOMAIN seqs = 1 .. N /\ \A i \in 1 .. N : seqs[i] \in Seq(T)
  BY LenProperties, ElementOfSeq
<1>2. PICK F : /\ F \in [0 .. N -> Seq(T)]
               /\ F[0] = <<>>
               /\ \A i \in 1 .. N : F[i] = F[i - 1] \o seqs[i]
               /\ F[N] = s
  BY FlattenTrace
<1> DEFINE before == [i \in 0 .. N |-> Len(F[i])]
           size == [i \in 1 .. N |-> Len(seqs[i])]
<1> HIDE DEF N, s
<1>3. /\ before \in [0 .. N -> Nat] /\ before[0] = 0
      /\ size \in [1 .. N -> Nat]
      /\ \A i \in 1 .. N : DOMAIN seqs[i] = 1 .. size[i]
      /\ \A i \in 0 .. N : DOMAIN F[i] = 1 .. before[i]
  BY <1>1, <1>2, LenProperties, EmptySeq
<1>4. \A i \in 1 .. N : i - 1 \in 0 .. N /\ i \in 0 .. N /\ i \in Nat
  BY <1>1
<1>5. ASSUME NEW i \in 1 .. N
      PROVE  /\ before[i] = before[i - 1] + size[i]
             /\ \A m \in 1 .. before[i] :
                  F[i][m] = IF m <= before[i - 1] THEN F[i - 1][m]
                            ELSE seqs[i][m - before[i - 1]]
  <2> DEFINE a == F[i - 1]
             b == seqs[i]
  <2>1. a \in Seq(T) /\ b \in Seq(T)
    BY <1>1, <1>2, <1>4
  <2>2. F[i] = a \o b
    BY <1>2
  <2>3. before[i] = Len(F[i]) /\ before[i - 1] = Len(a) /\ size[i] = Len(b)
    BY <1>4
  <2> HIDE DEF a, b, before, size
  <2>4. /\ Len(a \o b) = Len(a) + Len(b)
        /\ \A m \in 1 .. Len(a) + Len(b) :
             (a \o b)[m] = IF m <= Len(a) THEN a[m] ELSE b[m - Len(a)]
    BY <2>1, ConcatProperties
  <2>5. before[i] = before[i - 1] + size[i]
    BY <2>2, <2>3, <2>4
  <2>6. \A m \in 1 .. before[i] :
          F[i][m] = IF m <= before[i - 1] THEN a[m] ELSE b[m - before[i - 1]]
    BY <2>2, <2>3, <2>4
  <2> QED
    BY <2>5, <2>6 DEF a, b
<1> HIDE DEF before, size
<1>6. /\ \A j \in 0 .. N : \A i \in 0 .. j : before[i] <= before[j]
      /\ \A m \in 1 .. before[N] : \E i \in 1 .. N : \E k \in 1 .. size[i] :
           m = before[i - 1] + k
  <2>1. \A i \in 1 .. N : before[i] = before[i - 1] + size[i]
    BY <1>5
  <2>2. /\ N \in Nat /\ before \in [0 .. N -> Nat] /\ before[0] = 0
        /\ size \in [1 .. N -> Nat]
    BY <1>1, <1>3
  <2> QED
    BY <2>1, <2>2, PartsAddUp
<1>7. /\ \A i \in 0 .. N : before[i] \in Nat
      /\ \A i \in 1 .. N : size[i] \in Nat /\ before[i - 1] \in Nat
  BY <1>3, <1>4
\* What is in a part stays where it is.
<1>8. ASSUME NEW i \in 1 .. N, NEW k \in 1 .. size[i]
      PROVE  \A n \in i .. N : F[n][before[i - 1] + k] = seqs[i][k]
  <2> DEFINE place == before[i - 1] + k
             K == {d \in Nat : i + d <= N => F[i + d][place] = seqs[i][k]}
  <2>1. place \in 1 .. before[i] /\ ~(place <= before[i - 1]) /\ place - before[i - 1] = k
    BY <1>5, <1>7
  <2> HIDE DEF place
  <2>2. 0 \in K
    <3>1. i + 0 = i
      BY <1>4
    <3> QED
      BY <1>5, <2>1, <3>1
  <2>3. ASSUME NEW d \in K \intersect Nat
        PROVE  d + 1 \in K
    <3> DEFINE p == i + (d + 1)
    <3>1. d \in Nat /\ (i + d <= N => F[i + d][place] = seqs[i][k])
      OBVIOUS
    <3>2. SUFFICES ASSUME p <= N
                   PROVE  F[p][place] = seqs[i][k]
      OBVIOUS
    <3>3. /\ p \in 1 .. N /\ p - 1 = i + d /\ i + d <= N /\ i + d \in 0 .. N
          /\ i \in 0 .. (i + d)
      BY <1>1, <1>4, <3>1, <3>2
    <3>4. before[i] <= before[i + d]
      BY <1>6, <3>3
    <3> HIDE DEF p
    <3>5. before[p] = before[i + d] + size[p]
      BY <1>5, <3>3
    <3>6. before[i] \in Nat /\ before[i + d] \in Nat /\ size[p] \in Nat
      BY <1>4, <1>7, <3>3
    <3>7. place \in 1 .. before[p] /\ place <= before[i + d]
      BY <2>1, <3>4, <3>5, <3>6
    <3>8. F[p][place] = F[i + d][place]
      BY <1>5, <3>3, <3>7
    <3> QED
      BY <3>1, <3>3, <3>8
  <2>4. Nat \subseteq K
    <3> HIDE DEF K
    <3> QED
      BY <2>2, <2>3, AllNumbers
  <2> SUFFICES ASSUME NEW n \in i .. N
               PROVE  F[n][place] = seqs[i][k]
    BY DEF place
  <2>5. n - i \in Nat /\ i + (n - i) = n /\ n <= N
    BY <1>1, <1>4
  <2>6. n - i \in K
    <3> HIDE DEF K
    <3> QED
      BY <2>4, <2>5
  <2> QED
    BY <2>5, <2>6
<1> DEFINE f == [x \in PlacesIn(seqs) |-> before[x[1] - 1] + x[2]]
<1>9. s \in Seq(T) /\ DOMAIN s = 1 .. before[N]
  BY <1>1, <1>2, <1>3
<1>10. ASSUME NEW x \in PlacesIn(seqs)
       PROVE  x[1] \in 1 .. N /\ x[2] \in 1 .. size[x[1]] /\ x = <<x[1], x[2]>>
  BY <1>1, <1>3 DEF PlacesIn
<1>11. ASSUME NEW i \in 1 .. N, NEW k \in 1 .. size[i]
       PROVE  before[i - 1] + k \in DOMAIN s /\ s[before[i - 1] + k] = seqs[i][k]
  <2>1. N \in i .. N /\ i \in 0 .. N /\ N \in 0 .. N
    BY <1>1
  <2>2. before[i] <= before[N] /\ before[i] = before[i - 1] + size[i]
    BY <1>5, <1>6, <2>1
  <2>3. before[i - 1] \in Nat /\ size[i] \in Nat /\ before[i] \in Nat /\ before[N] \in Nat
    BY <1>7, <2>1
  <2> QED
    <3>1. before[i - 1] + k \in DOMAIN s
      BY <1>9, <2>2, <2>3
    <3>2. F[N][before[i - 1] + k] = seqs[i][k]
      BY <1>8, <2>1
    <3> QED
      BY <1>2, <3>1, <3>2
<1>12. f \in [PlacesIn(seqs) -> DOMAIN s] /\ \A x \in PlacesIn(seqs) : s[f[x]] = seqs[x[1]][x[2]]
  BY <1>10, <1>11
<1>13. ASSUME NEW i \in 1 .. N, NEW k \in 1 .. size[i],
              NEW j \in 1 .. N, NEW l \in 1 .. size[j],
              before[i - 1] + k = before[j - 1] + l
       PROVE  ~(i < j)
  <2> SUFFICES ASSUME i < j PROVE FALSE
    OBVIOUS
  <2>1. i \in 0 .. j - 1 /\ j - 1 \in 0 .. N
    BY <1>1
  <2>2. before[i] <= before[j - 1]
    BY <1>6, <2>1
  <2>3. before[i] = before[i - 1] + size[i]
    BY <1>5
  <2>4. before[i - 1] \in Nat /\ before[j - 1] \in Nat /\ size[i] \in Nat /\ size[j] \in Nat
    BY <1>7
  <2>5. k \in Nat /\ k <= size[i] /\ l \in Nat /\ l >= 1
    BY <2>4
  <2>6. before[j - 1] + l > before[j - 1] /\ before[i - 1] + k <= before[i]
    BY <2>3, <2>4, <2>5
  <2> DEFINE a == before[i - 1]
             b == before[j - 1]
             c == before[i]
  <2>7. /\ a \in Nat /\ b \in Nat /\ c \in Nat /\ k \in Nat /\ l \in Nat
        /\ a + k = b + l /\ a + k <= c /\ c <= b /\ l >= 1
    <3>1. c \in Nat
      BY <2>3, <2>4
    <3>2. a + k <= c
      BY <2>6
    <3>3. a + k = b + l
      BY <1>13
    <3>4. c <= b
      BY <2>2
    <3> HIDE DEF a, b, c
    <3> QED
      BY <2>4, <2>5, <3>1, <3>2, <3>3, <3>4 DEF a, b
  <2> HIDE DEF a, b, c
  <2> QED
    BY <2>7
<1>14. ASSUME NEW x \in PlacesIn(seqs), NEW y \in PlacesIn(seqs), f[x] = f[y]
       PROVE  x = y
  <2>1. /\ x[1] \in 1 .. N /\ x[2] \in 1 .. size[x[1]] /\ x = <<x[1], x[2]>>
        /\ y[1] \in 1 .. N /\ y[2] \in 1 .. size[y[1]] /\ y = <<y[1], y[2]>>
    BY <1>10
  <2>2. before[x[1] - 1] + x[2] = before[y[1] - 1] + y[2]
    BY <1>14
  <2>3. ~(x[1] < y[1]) /\ ~(y[1] < x[1])
    BY <1>13, <2>1, <2>2
  <2>4. x[1] = y[1]
    BY <1>4, <2>1, <2>3
  <2>5. before[x[1] - 1] \in Nat /\ size[x[1]] \in Nat
    BY <1>7, <2>1
  <2>6. x[2] = y[2]
    BY <2>1, <2>2, <2>4, <2>5
  <2> QED
    BY <2>1, <2>4, <2>6
<1>15. ASSUME NEW m \in DOMAIN s
       PROVE  \E x \in PlacesIn(seqs) : f[x] = m
  <2>1. PICK i \in 1 .. N : \E k \in 1 .. size[i] : m = before[i - 1] + k
    BY <1>6, <1>9
  <2>2. PICK k \in 1 .. size[i] : m = before[i - 1] + k
    BY <2>1
  <2>3. <<i, k>> \in PlacesIn(seqs)
    BY <1>1, <1>3 DEF PlacesIn
  <2> QED
    BY <2>2, <2>3
<1> HIDE DEF f
<1> QED
  BY <1>9, <1>12, <1>14, <1>15 DEF Fills, s

\* Sequences of one element, those at C, or of none.
OneOrNone(C, seqs) ==
  /\ C \subseteq DOMAIN seqs
  /\ \A k \in DOMAIN seqs : DOMAIN seqs[k] = IF k \in C THEN {1} ELSE {}

\* Flattening those leaves one place for each that has an element.
LEMMA ChosenFill ==
  ASSUME NEW T, NEW seqs \in Seq(Seq(T)), NEW C, OneOrNone(C, seqs)
  PROVE  \E f : /\ Fills(f, C, FlattenSeq(seqs))
                /\ \A k \in C : FlattenSeq(seqs)[f[k]] = seqs[k][1]
<1> USE DEF OneOrNone
<1> DEFINE s == FlattenSeq(seqs)
<1>3. PlacesIn(seqs) = {<<k, 1>> : k \in C}
  <2>1. \A x \in PlacesIn(seqs) : x \in {<<k, 1>> : k \in C}
    <3> SUFFICES ASSUME NEW i \in DOMAIN seqs, NEW k \in DOMAIN seqs[i]
                 PROVE  <<i, k>> \in {<<j, 1>> : j \in C}
      BY DEF PlacesIn
    <3> QED
      OBVIOUS
  <2>2. \A k \in C : <<k, 1>> \in PlacesIn(seqs)
    BY DEF PlacesIn
  <2> QED
    BY <2>1, <2>2
<1>4. PICK g : /\ Fills(g, PlacesIn(seqs), s)
               /\ \A x \in PlacesIn(seqs) : s[g[x]] = seqs[x[1]][x[2]]
  BY FlattenFills
<1> HIDE DEF s
<1> DEFINE f == [k \in C |-> g[<<k, 1>>]]
<1>5. \A k \in C : <<k, 1>> \in PlacesIn(seqs)
  BY <1>3
<1>6. f \in [C -> DOMAIN s]
  BY <1>4, <1>5 DEF Fills
<1>7. \A j, k \in C : f[j] = f[k] => j = k
  BY <1>4, <1>5 DEF Fills
<1>8. ASSUME NEW m \in DOMAIN s
      PROVE  \E k \in C : f[k] = m
  <2>1. PICK x \in PlacesIn(seqs) : g[x] = m
    BY <1>4 DEF Fills
  <2> QED
    BY <1>3, <2>1
<1>9. \A k \in C : s[f[k]] = seqs[k][1]
  BY <1>4, <1>5
<1> HIDE DEF f
<1> QED
  BY <1>6, <1>7, <1>8, <1>9 DEF Fills, s

\* One more sequence is flattened onto the end.
LEMMA FlattenAppend ==
  ASSUME NEW T, NEW seqs \in Seq(Seq(T)), NEW t \in Seq(T)
  PROVE  FlattenSeq(Append(seqs, t)) = FlattenSeq(seqs) \o t
<1> DEFINE n == Len(seqs)
           more == Append(seqs, t)
<1>1. /\ n \in Nat /\ more \in Seq(Seq(T)) /\ Len(more) = n + 1
      /\ \A i \in 1 .. n : more[i] = seqs[i]
      /\ more[n + 1] = t
  BY LenProperties, AppendProperties
<1>2. PICK F : /\ F[0] = <<>>
               /\ \A i \in 1 .. n : F[i] = F[i - 1] \o seqs[i]
               /\ F[n] = FlattenSeq(seqs)
  BY FlattenTrace
<1> HIDE DEF more, n
<1>3. PICK G : /\ G[0] = <<>>
               /\ \A i \in 1 .. (n + 1) : G[i] = G[i - 1] \o more[i]
               /\ G[n + 1] = FlattenSeq(more)
  <2>1. \E H : /\ H[0] = <<>>
               /\ \A i \in 1 .. Len(more) : H[i] = H[i - 1] \o more[i]
               /\ H[Len(more)] = FlattenSeq(more)
    BY <1>1, FlattenTrace
  <2> QED
    BY <1>1, <2>1
<1> DEFINE K == {k \in Nat : k <= n => G[k] = F[k]}
<1>4. 0 \in K
  BY <1>2, <1>3
<1>5. ASSUME NEW k \in K \intersect Nat
      PROVE  k + 1 \in K
  <2> SUFFICES ASSUME k + 1 <= n
               PROVE  G[k + 1] = F[k + 1]
    OBVIOUS
  <2> DEFINE i == k + 1
  <2>1. i \in 1 .. n /\ i \in 1 .. (n + 1) /\ i - 1 = k /\ k <= n
    BY <1>1
  <2> HIDE DEF i
  <2>2. G[i - 1] = F[i - 1]
    BY <2>1
  <2>3. G[i] = F[i]
    BY <1>1, <1>2, <1>3, <2>1, <2>2
  <2> QED
    BY <2>3 DEF i
<1>6. G[n] = F[n]
  <2>1. Nat \subseteq K
    <3> HIDE DEF K
    <3> QED
      BY <1>4, <1>5, AllNumbers
  <2> QED
    BY <1>1, <2>1
<1>7. G[n + 1] = G[n] \o t
  <2>1. n + 1 \in 1 .. (n + 1) /\ (n + 1) - 1 = n
    BY <1>1
  <2> DEFINE i == n + 1
  <2>2. i \in 1 .. (n + 1) /\ i - 1 = n /\ more[i] = t
    BY <1>1, <2>1
  <2> HIDE DEF i
  <2>3. G[i] = G[i - 1] \o more[i]
    BY <1>3, <2>2
  <2> QED
    BY <2>2, <2>3 DEF i
<1> QED
  BY <1>2, <1>3, <1>6, <1>7 DEF more

\* Sequences of one element each are flattened to those elements.
LEMMA FlattenSingles ==
  ASSUME NEW T, NEW seqs \in Seq(Seq(T)), \A i \in DOMAIN seqs : Len(seqs[i]) = 1
  PROVE  FlattenSeq(seqs) = [i \in DOMAIN seqs |-> seqs[i][1]]
<1> DEFINE N == Len(seqs)
<1>1. /\ N \in Nat /\ DOMAIN seqs = 1 .. N
      /\ \A i \in 1 .. N : seqs[i] \in Seq(T) /\ Len(seqs[i]) = 1
  BY LenProperties, ElementOfSeq
<1>2. PICK F : /\ F \in [0 .. N -> Seq(T)]
               /\ F[0] = <<>>
               /\ \A i \in 1 .. N : F[i] = F[i - 1] \o seqs[i]
               /\ F[N] = FlattenSeq(seqs)
  BY FlattenTrace
<1> HIDE DEF N
<1> DEFINE Singles(n) == /\ Len(F[n]) = n
                         /\ \A j \in 1 .. n : F[n][j] = seqs[j][1]
           K == {n \in Nat : n <= N => Singles(n)}
<1>3. 0 \in K
  BY <1>2
<1>4. ASSUME NEW n \in K \intersect Nat
      PROVE  n + 1 \in K
  <2> SUFFICES ASSUME n + 1 <= N
               PROVE  Singles(n + 1)
    OBVIOUS
  <2>1. n + 1 \in 1 .. N /\ (n + 1) - 1 = n /\ n \in 0 .. N /\ n <= N /\ n \in Nat
    BY <1>1
  <2> DEFINE a == F[n]
             b == seqs[n + 1]
  <2>2. F[n + 1] = a \o b
    BY <1>2, <2>1
  <2>3. a \in Seq(T) /\ b \in Seq(T) /\ Len(b) = 1
    BY <1>1, <1>2, <2>1
  <2>4. Len(a) = n /\ \A j \in 1 .. n : a[j] = seqs[j][1]
    BY <2>1
  <2>5. b[1] = seqs[n + 1][1]
    OBVIOUS
  <2> HIDE DEF a, b
  <2>6. /\ Len(a \o b) = n + 1
        /\ \A j \in 1 .. n + 1 : (a \o b)[j] = IF j <= n THEN a[j] ELSE b[j - n]
    <3>1. /\ Len(a \o b) = Len(a) + Len(b)
          /\ \A j \in 1 .. Len(a) + Len(b) :
               (a \o b)[j] = IF j <= Len(a) THEN a[j] ELSE b[j - Len(a)]
      BY <2>3, ConcatProperties
    <3> QED
      BY <2>3, <2>4, <3>1
  <2>7. ASSUME NEW j \in 1 .. n + 1
        PROVE  (a \o b)[j] = seqs[j][1]
    <3>1. CASE j <= n
      <4>1. j \in 1 .. n
        BY <2>1, <3>1
      <4> QED
        BY <2>4, <2>6, <3>1, <4>1
    <3>2. CASE ~(j <= n)
      <4>1. j = n + 1 /\ j - n = 1
        BY <2>1, <3>2
      <4> QED
        BY <2>5, <2>6, <3>2, <4>1
    <3> QED
      BY <3>1, <3>2
  <2> QED
    BY <2>2, <2>6, <2>7
<1>5. Singles(N)
  <2>1. N \in K
    <3> HIDE DEF K
    <3> QED
      BY <1>1, <1>3, <1>4, AllNumbers
  <2> QED
    BY <1>1, <2>1
<1>6. F[N] \in Seq(T)
  BY <1>1, <1>2
<1> DEFINE s == F[N]
           t == [i \in 1 .. N |-> seqs[i][1]]
<1>7. s = t
  <2>1. s \in Seq(T) /\ Len(s) = N /\ \A j \in 1 .. N : s[j] = t[j]
    BY <1>5, <1>6
  <2>2. DOMAIN s = 1 .. N /\ DOMAIN t = 1 .. N /\ s = [i \in 1 .. N |-> s[i]]
    BY <2>1, LenProperties
  <2> HIDE DEF s
  <2> QED
    BY <2>1, <2>2
<1> QED
  BY <1>1, <1>2, <1>7

\* The elements of two sequences in a row.
LEMMA ElementsOfConcat ==
  ASSUME NEW T, NEW s \in Seq(T), NEW t \in Seq(T)
  PROVE  /\ s \o t \in Seq(T) /\ Len(s \o t) = Len(s) + Len(t)
         /\ ToSet(s \o t) = ToSet(s) \union ToSet(t)
         /\ \A i \in 1 .. Len(s) : (s \o t)[i] = s[i]
         /\ \A i \in 1 .. Len(t) : (s \o t)[Len(s) + i] = t[i]
<1> DEFINE m == Len(s)
           n == Len(t)
           u == s \o t
<1>1. /\ m \in Nat /\ n \in Nat
      /\ ToSet(s) = {s[i] : i \in 1 .. m} /\ ToSet(t) = {t[i] : i \in 1 .. n}
  BY LenProperties DEF ToSet
<1>2. /\ u \in Seq(T) /\ Len(u) = m + n
      /\ \A i \in 1 .. m + n : u[i] = IF i <= m THEN s[i] ELSE t[i - m]
  BY ConcatProperties
<1>3. ToSet(u) = {u[i] : i \in 1 .. m + n}
  BY <1>2, LenProperties DEF ToSet
<1> HIDE DEF m, n, u
<1>4. \A i \in 1 .. m : u[i] = s[i]
  BY <1>1, <1>2
<1>5. ASSUME NEW i \in 1 .. n
      PROVE  u[m + i] = t[i]
  <2>1. m + i \in 1 .. m + n /\ ~(m + i <= m) /\ (m + i) - m = i
    BY <1>1
  <2> QED
    BY <1>2, <2>1
<1>6. ASSUME NEW i \in 1 .. m + n
      PROVE  u[i] \in ToSet(s) \union ToSet(t)
  <2>1. CASE i <= m
    BY <1>1, <1>2, <2>1
  <2>2. CASE ~(i <= m)
    <3>1. i - m \in 1 .. n
      BY <1>1, <2>2
    <3> QED
      BY <1>1, <1>2, <2>2, <3>1
  <2> QED
    BY <2>1, <2>2
<1>7. ASSUME NEW i \in 1 .. m
      PROVE  s[i] \in ToSet(u)
  <2>1. i \in 1 .. m + n
    BY <1>1
  <2> QED
    BY <1>3, <1>4, <2>1
<1>8. ASSUME NEW i \in 1 .. n
      PROVE  t[i] \in ToSet(u)
  <2>1. m + i \in 1 .. m + n
    BY <1>1
  <2> QED
    BY <1>3, <1>5, <2>1
<1>9. ToSet(u) = ToSet(s) \union ToSet(t)
  <2>1. ToSet(u) \subseteq ToSet(s) \union ToSet(t)
    BY <1>3, <1>6
  <2>2. ToSet(s) \subseteq ToSet(u) /\ ToSet(t) \subseteq ToSet(u)
    BY <1>1, <1>7, <1>8
  <2> QED
    BY <2>1, <2>2
<1> QED
  BY <1>2, <1>4, <1>5, <1>9 DEF m, n, u

\* The first elements of a sequence.
LEMMA FirstOnes ==
  ASSUME NEW T, NEW s \in Seq(T), NEW m \in 0 .. Len(s)
  PROVE  /\ SubSeq(s, 1, m) \in Seq(T) /\ Len(SubSeq(s, 1, m)) = m
         /\ \A i \in 1 .. m : SubSeq(s, 1, m)[i] = s[i]
<1>1. Len(s) \in Nat /\ DOMAIN s = 1 .. Len(s) /\ \A i \in 1 .. Len(s) : s[i] \in T
  BY LenProperties, ElementOfSeq
<1>2. SubSeq(s, 1, m) = [i \in 1 .. m |-> s[i]]
  BY <1>1
<1> QED
  BY <1>1, <1>2

-----------------------------------------------------------------------------
(* Sums.                                                                   *)

\* The sum of what a function has at the elements of a set.
SumOf(v, S) == MapThenSumSet(LAMBDA x : v[x], S)

\* The recursive function that it is.
Adds(F, v, S) ==
  F = [s \in SUBSET S |->
         IF s = {} THEN 0
         ELSE v[CHOOSE x \in s : TRUE] + F[s \ {CHOOSE x \in s : TRUE}]]

\* The one that is left to the last.
Picked(s) == CHOOSE x \in s : TRUE

\* A smaller set remains.
LEMMA OneLess ==
  ASSUME NEW s, IsFiniteSet(s), s # {}
  PROVE  /\ Picked(s) \in s /\ IsFiniteSet(s \ {Picked(s)})
         /\ Cardinality(s) \in Nat /\ Cardinality(s) # 0
         /\ Cardinality(s \ {Picked(s)}) = Cardinality(s) - 1
<1>1. Picked(s) \in s
  BY DEF Picked
<1> QED
  BY <1>1, FS_RemoveElement, FS_CardinalityType, FS_EmptySet

\* There is such a function.
LEMMA AddsExists ==
  ASSUME NEW S, IsFiniteSet(S), NEW v, \A x \in S : v[x] \in Int
  PROVE  \E F : Adds(F, v, S)
<1> DEFINE Small(k) == {s \in SUBSET S : Cardinality(s) <= k}
           Part(F, k) ==
             /\ F \in [Small(k) -> Int]
             /\ \A s \in Small(k) :
                  F[s] = IF s = {} THEN 0 ELSE v[Picked(s)] + F[s \ {Picked(s)}]
           K == {k \in Nat : \E F : Part(F, k)}
<1>0. \A s \in SUBSET S : IsFiniteSet(s) /\ Cardinality(s) \in Nat
  BY FS_Subset, FS_CardinalityType
<1>1. 0 \in K
  <2> DEFINE F == [s \in Small(0) |-> 0]
  <2>1. \A s \in Small(0) : s = {}
    BY <1>0, FS_EmptySet
  <2>2. Part(F, 0)
    BY <2>1
  <2> QED
    BY <2>2
<1>2. ASSUME NEW k \in K \intersect Nat
      PROVE  k + 1 \in K
  <2>0. k \in Nat /\ \E F : Part(F, k)
    OBVIOUS
  <2>1. PICK F : Part(F, k)
    <3> HIDE DEF Part
    <3> QED
      BY <2>0
  <2> DEFINE G == [s \in Small(k + 1) |->
                     IF s \in Small(k) THEN F[s]
                     ELSE v[Picked(s)] + F[s \ {Picked(s)}]]
  <2>2. ASSUME NEW s \in Small(k + 1)
        PROVE  /\ s # {} => s \ {Picked(s)} \in Small(k) /\ Picked(s) \in S
               /\ s = {} => s \in Small(k)
    <3>1. ASSUME s # {}
          PROVE  s \ {Picked(s)} \in Small(k) /\ Picked(s) \in S
      <4>1. /\ Picked(s) \in s /\ Cardinality(s) \in Nat /\ Cardinality(s) <= k + 1
            /\ Cardinality(s \ {Picked(s)}) = Cardinality(s) - 1
        BY <1>0, <3>1, OneLess
      <4> QED
        BY <2>0, <4>1
    <3>2. s = {} => s \in Small(k)
      BY <2>0, FS_EmptySet
    <3> QED
      BY <3>1, <3>2
  <2>3. Small(k) \subseteq Small(k + 1)
    BY <1>0, <2>0
  <2> HIDE DEF Small
  <2>4. ASSUME NEW s \in Small(k)
        PROVE  G[s] = F[s]
    BY <2>3
  <2>5. G \in [Small(k + 1) -> Int]
    <3> SUFFICES ASSUME NEW s \in Small(k + 1)
                 PROVE  (IF s \in Small(k) THEN F[s]
                         ELSE v[Picked(s)] + F[s \ {Picked(s)}]) \in Int
      OBVIOUS
    <3>1. CASE s \in Small(k)
      BY <2>1, <3>1
    <3>2. CASE s \notin Small(k)
      <4>1. s \ {Picked(s)} \in Small(k) /\ Picked(s) \in S
        BY <2>2, <3>2
      <4>2. F[s \ {Picked(s)}] \in Int /\ v[Picked(s)] \in Int
        BY <2>1, <4>1
      <4> QED
        BY <3>2, <4>2
    <3> QED
      BY <3>1, <3>2
  <2>6. ASSUME NEW s \in Small(k + 1)
        PROVE  G[s] = IF s = {} THEN 0 ELSE v[Picked(s)] + G[s \ {Picked(s)}]
    <3>1. CASE s \in Small(k)
      <4>1. F[s] = IF s = {} THEN 0 ELSE v[Picked(s)] + F[s \ {Picked(s)}]
        BY <2>1, <3>1
      <4>2. s # {} => G[s \ {Picked(s)}] = F[s \ {Picked(s)}]
        BY <2>2, <2>4
      <4> QED
        BY <2>4, <3>1, <4>1, <4>2
    <3>2. CASE s \notin Small(k)
      <4>1. s # {} /\ s \ {Picked(s)} \in Small(k)
        BY <2>2, <3>2
      <4>2. G[s] = v[Picked(s)] + F[s \ {Picked(s)}]
        BY <3>2
      <4> QED
        BY <2>4, <4>1, <4>2
    <3> QED
      BY <3>1, <3>2
  <2> HIDE DEF G
  <2>7. Part(G, k + 1)
    BY <2>5, <2>6
  <2>8. \E H : Part(H, k + 1)
    <3> HIDE DEF Part
    <3> QED
      BY <2>7
  <2> QED
    <3> HIDE DEF Part
    <3> QED
      BY <2>0, <2>8
<1>3. Nat \subseteq K
  <2> HIDE DEF K
  <2> QED
    BY <1>1, <1>2, AllNumbers
<1> DEFINE n == Cardinality(S)
<1>4. n \in K
  BY <1>0, <1>3
<1>5. Small(n) = SUBSET S
  BY <1>0, FS_Subset
<1>6. PICK F : Part(F, n)
  <2> HIDE DEF Part, n
  <2> QED
    BY <1>4
<1>7. F = [s \in SUBSET S |->
             IF s = {} THEN 0 ELSE v[Picked(s)] + F[s \ {Picked(s)}]]
  BY <1>5, <1>6
<1> QED
  BY <1>7 DEF Adds, Picked

\* The sums of two such functions are equal, and numbers.
LEMMA AddsAgree ==
  ASSUME NEW S, NEW T, IsFiniteSet(S), NEW v, \A x \in S : v[x] \in Int,
         NEW F, NEW G, Adds(F, v, S), Adds(G, v, T)
  PROVE  \A s \in SUBSET (S \intersect T) : F[s] = G[s] /\ F[s] \in Int
<1> DEFINE both == SUBSET (S \intersect T)
           K == {k \in Nat : \A s \in both :
                   Cardinality(s) = k => F[s] = G[s] /\ F[s] \in Int}
<1>0. \A s \in both : IsFiniteSet(s) /\ Cardinality(s) \in Nat /\ s \subseteq S
  BY FS_Subset, FS_CardinalityType
<1>1. \A s \in both :
        /\ F[s] = IF s = {} THEN 0 ELSE v[Picked(s)] + F[s \ {Picked(s)}]
        /\ G[s] = IF s = {} THEN 0 ELSE v[Picked(s)] + G[s \ {Picked(s)}]
  BY DEF Adds, Picked
<1>2. \A s \in both : s # {} => s \ {Picked(s)} \in both
  OBVIOUS
<1> HIDE DEF both
<1>3. 0 \in K
  <2> SUFFICES ASSUME NEW s \in both, Cardinality(s) = 0
               PROVE  F[s] = G[s] /\ F[s] \in Int
    OBVIOUS
  <2>1. s = {}
    BY <1>0, FS_EmptySet
  <2> QED
    BY <1>1, <2>1
<1>4. ASSUME NEW k \in K \intersect Nat
      PROVE  k + 1 \in K
  <2>1. k \in Nat /\ \A s \in both : Cardinality(s) = k => F[s] = G[s] /\ F[s] \in Int
    OBVIOUS
  <2>2. ASSUME NEW s \in both, Cardinality(s) = k + 1
        PROVE  F[s] = G[s] /\ F[s] \in Int
    <3>1. s # {} /\ \A x \in s : Cardinality(s \ {x}) = k
      BY <1>0, <2>2, SizeLess
    <3>2. /\ Picked(s) \in s /\ Cardinality(s \ {Picked(s)}) = k
          /\ s \ {Picked(s)} \in both
      BY <1>2, <3>1 DEF Picked
    <3>3. /\ F[s \ {Picked(s)}] = G[s \ {Picked(s)}]
          /\ F[s \ {Picked(s)}] \in Int /\ v[Picked(s)] \in Int
      BY <1>0, <2>1, <3>2
    <3> QED
      BY <1>1, <3>1, <3>3
  <2> QED
    BY <2>1, <2>2
<1>5. Nat \subseteq K
  <2> HIDE DEF K
  <2> QED
    BY <1>3, <1>4, AllNumbers
<1>6. ASSUME NEW s \in both
      PROVE  F[s] = G[s] /\ F[s] \in Int
  <2>1. Cardinality(s) \in K
    BY <1>0, <1>5
  <2> QED
    BY <2>1
<1> QED
  BY <1>6 DEF both

\* Sums, one element less.
LEMMA SumPicked ==
  ASSUME NEW S, IsFiniteSet(S), NEW v, \A x \in S : v[x] \in Int
  PROVE  /\ SumOf(v, S) \in Int
         /\ S = {} => SumOf(v, S) = 0
         /\ S # {} => SumOf(v, S) = v[Picked(S)] + SumOf(v, S \ {Picked(S)})
<1> DEFINE iter(T) == CHOOSE F : Adds(F, v, T)
<1>1. \A T : SumOf(v, T) = iter(T)[T]
  BY DEF SumOf, MapThenSumSet, MapThenFoldSet, Adds
<1>2. ASSUME NEW T, T \subseteq S
      PROVE  Adds(iter(T), v, T)
  <2>1. IsFiniteSet(T) /\ \A x \in T : v[x] \in Int
    BY <1>2, FS_Subset
  <2>2. \E F : Adds(F, v, T)
    BY <2>1, AddsExists
  <2> QED
    BY <2>2
<1>3. Adds(iter(S), v, S)
  BY <1>2
<1> HIDE DEF iter
<1>4. iter(S)[S] \in Int
  <2>1. S \in SUBSET (S \intersect S)
    OBVIOUS
  <2> QED
    BY <1>3, <2>1, AddsAgree
<1>5. iter(S)[S] = IF S = {} THEN 0 ELSE v[Picked(S)] + iter(S)[S \ {Picked(S)}]
  BY <1>3 DEF Adds, Picked
<1>6. iter(S)[S \ {Picked(S)}] = iter(S \ {Picked(S)})[S \ {Picked(S)}]
  <2> DEFINE T == S \ {Picked(S)}
  <2>1. T \in SUBSET (S \intersect T) /\ Adds(iter(T), v, T)
    BY <1>2
  <2> HIDE DEF T
  <2>2. iter(S)[T] = iter(T)[T]
    BY <1>3, <2>1, AddsAgree
  <2> QED
    BY <2>2 DEF T
<1> QED
  BY <1>1, <1>4, <1>5, <1>6

\* Sums, whichever element is left to the last.
LEMMA SumRemove ==
  ASSUME NEW S, IsFiniteSet(S), NEW v, \A x \in S : v[x] \in Int
  PROVE  \A x \in S : SumOf(v, S) = v[x] + SumOf(v, S \ {x})
<1> DEFINE Holds(s) == \A x \in s : SumOf(v, s) = v[x] + SumOf(v, s \ {x})
           K == {k \in Nat : \A s \in SUBSET S : Cardinality(s) = k => Holds(s)}
<1>0. \A s \in SUBSET S : /\ IsFiniteSet(s) /\ Cardinality(s) \in Nat
                          /\ \A x \in s : v[x] \in Int
  BY FS_Subset, FS_CardinalityType
<1>1. 0 \in K
  <2> SUFFICES ASSUME NEW s \in SUBSET S, Cardinality(s) = 0
               PROVE  Holds(s)
    OBVIOUS
  <2>1. s = {}
    BY <1>0, FS_EmptySet
  <2> QED
    BY <2>1
<1>2. ASSUME NEW k \in K \intersect Nat
      PROVE  k + 1 \in K
  <2>1. k \in Nat /\ \A s \in SUBSET S : Cardinality(s) = k => Holds(s)
    OBVIOUS
  <2>2. ASSUME NEW s \in SUBSET S, Cardinality(s) = k + 1, NEW x \in s
        PROVE  SumOf(v, s) = v[x] + SumOf(v, s \ {x})
    <3> DEFINE y == Picked(s)
    <3>1. s # {}
      BY <2>2
    <3>2. SumOf(v, s) = v[y] + SumOf(v, s \ {y}) /\ y \in s
      BY <1>0, <3>1, SumPicked, OneLess
    <3> HIDE DEF y
    <3>3. CASE x = y
      BY <3>2, <3>3
    <3>4. CASE x # y
      <4>1. /\ Cardinality(s \ {x}) = k /\ Cardinality(s \ {y}) = k
            /\ s \ {x} \in SUBSET S /\ s \ {y} \in SUBSET S
        BY <1>0, <2>2, <3>2, SizeLess
      <4>2. Holds(s \ {x}) /\ Holds(s \ {y})
        BY <2>1, <4>1
      <4>3. /\ SumOf(v, s \ {x}) = v[y] + SumOf(v, (s \ {x}) \ {y})
            /\ SumOf(v, s \ {y}) = v[x] + SumOf(v, (s \ {y}) \ {x})
        BY <3>2, <3>4, <4>2
      <4>4. (s \ {x}) \ {y} = (s \ {y}) \ {x}
        OBVIOUS
      <4> DEFINE rest == SumOf(v, (s \ {y}) \ {x})
      <4>5. rest \in Int
        <5>1. (s \ {y}) \ {x} \in SUBSET S
          OBVIOUS
        <5> QED
          BY <1>0, <5>1, SumPicked
      <4> HIDE DEF rest
      <4>6. /\ SumOf(v, s \ {x}) = v[y] + rest /\ SumOf(v, s \ {y}) = v[x] + rest
            /\ v[x] \in Int /\ v[y] \in Int
        BY <1>0, <3>2, <4>3, <4>4 DEF rest
      <4> QED
        BY <3>2, <4>5, <4>6
    <3> QED
      BY <3>3, <3>4
  <2> QED
    BY <2>1, <2>2
<1>3. Nat \subseteq K
  <2> HIDE DEF K
  <2> QED
    BY <1>1, <1>2, AllNumbers
<1>4. Cardinality(S) \in K /\ S \in SUBSET S
  BY <1>0, <1>3
<1>5. Holds(S)
  <2> HIDE DEF Holds
  <2> QED
    BY <1>4
<1> QED
  BY <1>5

\* Sums that end in one place.
LEMMA SumSame ==
  ASSUME NEW S, NEW v, NEW w, \A x \in S : v[x] = w[x]
  PROVE  SumOf(v, S) = SumOf(w, S)
<1> DEFINE A(F) == Adds(F, v, S)
           B(F) == Adds(F, w, S)
<1>1. \A s \in SUBSET S : s # {} => v[Picked(s)] = w[Picked(s)]
  BY DEF Picked
<1>2. \A F : A(F) <=> B(F)
  <2> TAKE F
  <2>1. \A s \in SUBSET S :
          (IF s = {} THEN 0 ELSE v[Picked(s)] + F[s \ {Picked(s)}])
            = (IF s = {} THEN 0 ELSE w[Picked(s)] + F[s \ {Picked(s)}])
    BY <1>1
  <2> QED
    BY <2>1 DEF Adds, Picked
<1>3. (CHOOSE F : A(F)) = (CHOOSE F : B(F))
  <2> HIDE DEF A, B
  <2> QED
    BY <1>2
<1>4. SumOf(v, S) = (CHOOSE F : A(F))[S] /\ SumOf(w, S) = (CHOOSE F : B(F))[S]
  BY DEF SumOf, MapThenSumSet, MapThenFoldSet, Adds
<1> HIDE DEF A, B
<1> QED
  BY <1>3, <1>4

\* Sums, one element more.
LEMMA SumMore ==
  ASSUME NEW S, IsFiniteSet(S), NEW v, \A x \in S : v[x] \in Int
  PROVE  \A s \in SUBSET S :
           /\ SumOf(v, s) \in Int
           /\ s = {} => SumOf(v, s) = 0
           /\ \A x \in S \ s : SumOf(v, s \union {x}) = v[x] + SumOf(v, s)
<1> SUFFICES ASSUME NEW s \in SUBSET S
             PROVE  /\ SumOf(v, s) \in Int
                    /\ s = {} => SumOf(v, s) = 0
                    /\ \A x \in S \ s : SumOf(v, s \union {x}) = v[x] + SumOf(v, s)
  OBVIOUS
<1>1. IsFiniteSet(s) /\ \A x \in s : v[x] \in Int
  BY FS_Subset
<1>2. SumOf(v, s) \in Int /\ (s = {} => SumOf(v, s) = 0)
  BY <1>1, SumPicked
<1>3. ASSUME NEW x \in S \ s
      PROVE  SumOf(v, s \union {x}) = v[x] + SumOf(v, s)
  <2> DEFINE t == s \union {x}
  <2>1. t \in SUBSET S /\ x \in t /\ t \ {x} = s
    OBVIOUS
  <2>2. IsFiniteSet(t) /\ \A y \in t : v[y] \in Int
    BY <2>1, FS_Subset
  <2> HIDE DEF t
  <2>3. SumOf(v, t) = v[x] + SumOf(v, t \ {x})
    BY <2>1, <2>2, SumRemove
  <2> QED
    BY <2>1, <2>3 DEF t
<1> QED
  BY <1>2, <1>3

\* The sum over the parts of a set.
LEMMA SumParts ==
  ASSUME NEW S, IsFiniteSet(S), NEW v, \A x \in S : v[x] \in Int,
         NEW T, T \subseteq S
  PROVE  /\ SumOf(v, T) \in Int /\ SumOf(v, S \ T) \in Int
         /\ SumOf(v, S) = SumOf(v, T) + SumOf(v, S \ T)
<1> DEFINE Splits(s) == SumOf(v, S) = SumOf(v, s) + SumOf(v, S \ s)
           Q == {s \in SUBSET S : Splits(s)}
<1>1. \A s \in SUBSET S : SumOf(v, s) \in Int
  BY SumMore
<1>2. {} \in Q
  <2>1. S \ {} = S /\ S \in SUBSET S /\ {} \in SUBSET S
    OBVIOUS
  <2>2. SumOf(v, {}) = 0 /\ SumOf(v, S) \in Int
    BY <2>1, SumMore
  <2> QED
    BY <2>1, <2>2
<1>3. ASSUME NEW s \in Q \intersect SUBSET S, NEW x \in S \ s
      PROVE  s \union {x} \in Q
  <2> DEFINE t == S \ (s \union {x})
  <2>1. /\ t \in SUBSET S /\ x \in S \ t /\ S \ s = t \union {x}
        /\ s \in SUBSET S /\ Splits(s)
    OBVIOUS
  <2> HIDE DEF t
  <2>2. SumOf(v, s \union {x}) = v[x] + SumOf(v, s)
    BY <2>1, SumMore
  <2>3. SumOf(v, t \union {x}) = v[x] + SumOf(v, t)
    BY <2>1, SumMore
  <2>4. SumOf(v, s) \in Int /\ SumOf(v, t) \in Int /\ v[x] \in Int
    BY <1>1, <2>1
  <2>5. SumOf(v, S) = SumOf(v, s) + SumOf(v, t \union {x})
    BY <2>1
  <2>6. SumOf(v, S) = SumOf(v, s \union {x}) + SumOf(v, t)
    BY <2>2, <2>3, <2>4, <2>5
  <2> QED
    BY <2>1, <2>6 DEF t
<1>4. T \in Q
  <2> HIDE DEF Q
  <2> QED
    BY <1>2, <1>3, AllSubsets
<1>5. T \in SUBSET S /\ S \ T \in SUBSET S
  OBVIOUS
<1> QED
  BY <1>1, <1>4, <1>5

\* Greater elements have a greater sum.
LEMMA SumOrdered ==
  ASSUME NEW S, IsFiniteSet(S), NEW v, NEW w,
         \A x \in S : v[x] \in Int /\ w[x] \in Int /\ v[x] <= w[x]
  PROVE  /\ SumOf(v, S) \in Int /\ SumOf(w, S) \in Int
         /\ SumOf(v, S) <= SumOf(w, S)
<1> DEFINE Q == {s \in SUBSET S : SumOf(v, s) <= SumOf(w, s)}
<1>1. \A s \in SUBSET S : SumOf(v, s) \in Int /\ SumOf(w, s) \in Int
  BY SumMore
<1>2. {} \in Q
  <2>1. IsFiniteSet({})
    BY FS_EmptySet
  <2>2. SumOf(v, {}) = 0 /\ SumOf(w, {}) = 0
    BY <2>1, SumPicked
  <2> QED
    BY <2>2
<1>3. ASSUME NEW s \in Q \intersect SUBSET S, NEW x \in S \ s
      PROVE  s \union {x} \in Q
  <2>1. SumOf(v, s \union {x}) = v[x] + SumOf(v, s)
    BY SumMore
  <2>2. SumOf(w, s \union {x}) = w[x] + SumOf(w, s)
    BY SumMore
  <2>3. SumOf(v, s) \in Int /\ SumOf(w, s) \in Int /\ SumOf(v, s) <= SumOf(w, s)
    BY <1>1
  <2> QED
    BY <2>1, <2>2, <2>3
<1>4. S \in Q
  <2> HIDE DEF Q
  <2> QED
    BY <1>2, <1>3, AllSubsets
<1> QED
  BY <1>1, <1>4

\* Sums of numbers that are not negative.
LEMMA SumNat ==
  ASSUME NEW S, IsFiniteSet(S), NEW v, \A x \in S : v[x] \in Nat
  PROVE  SumOf(v, S) \in Nat /\ \A x \in S : v[x] <= SumOf(v, S)
<1> DEFINE Q == {s \in SUBSET S :
                   SumOf(v, s) \in Nat /\ \A x \in s : v[x] <= SumOf(v, s)}
<1>0. \A x \in S : v[x] \in Int
  OBVIOUS
<1>1. {} \in Q
  BY <1>0, SumMore
<1>2. ASSUME NEW s \in Q \intersect SUBSET S, NEW x \in S \ s
      PROVE  s \union {x} \in Q
  <2>1. SumOf(v, s \union {x}) = v[x] + SumOf(v, s) /\ v[x] \in Nat
    BY <1>0, SumMore
  <2>2. SumOf(v, s) \in Nat /\ \A y \in s : v[y] <= SumOf(v, s) /\ v[y] \in Nat
    OBVIOUS
  <2> QED
    BY <2>1, <2>2
<1>3. S \in Q
  <2> HIDE DEF Q
  <2> QED
    BY <1>1, <1>2, AllSubsets
<1> QED
  BY <1>3

\* A sum that is not 0 has something to add.
LEMMA SumOfSome ==
  ASSUME NEW S, IsFiniteSet(S), NEW v, \A x \in S : v[x] \in Int, SumOf(v, S) # 0
  PROVE  \E x \in S : v[x] # 0
<1> DEFINE Q == {s \in SUBSET S : (\A x \in s : v[x] = 0) => SumOf(v, s) = 0}
<1>1. {} \in Q
  BY SumMore
<1>2. ASSUME NEW s \in Q \intersect SUBSET S, NEW x \in S \ s
      PROVE  s \union {x} \in Q
  <2>1. SumOf(v, s \union {x}) = v[x] + SumOf(v, s) /\ SumOf(v, s) \in Int
    BY SumMore
  <2> QED
    BY <2>1
<1>3. S \in Q
  <2> HIDE DEF Q
  <2> QED
    BY <1>1, <1>2, AllSubsets
<1> QED
  BY <1>3

\* A sum of multiples.
LEMMA SumTimes ==
  ASSUME NEW S, IsFiniteSet(S), NEW v, NEW w, NEW a \in Int, NEW b \in Int,
         \A x \in S : v[x] \in Int /\ w[x] \in Int /\ v[x] * a = b * w[x]
  PROVE  SumOf(v, S) * a = b * SumOf(w, S)
<1> DEFINE Q == {s \in SUBSET S : SumOf(v, s) * a = b * SumOf(w, s)}
<1>1. \A s \in SUBSET S : SumOf(v, s) \in Int /\ SumOf(w, s) \in Int
  BY SumMore
<1>2. {} \in Q
  <2>1. {} \in SUBSET S
    OBVIOUS
  <2>2. SumOf(v, {}) = 0 /\ SumOf(w, {}) = 0
    BY <2>1, SumMore
  <2> QED
    BY <2>1, <2>2
<1>3. ASSUME NEW s \in Q \intersect SUBSET S, NEW x \in S \ s
      PROVE  s \union {x} \in Q
  <2>1. /\ SumOf(v, s \union {x}) = v[x] + SumOf(v, s)
        /\ SumOf(w, s \union {x}) = w[x] + SumOf(w, s)
    BY SumMore
  <2> DEFINE sv == SumOf(v, s)
             sw == SumOf(w, s)
  <2>2. sv \in Int /\ sw \in Int /\ v[x] \in Int /\ w[x] \in Int
        /\ sv * a = b * sw /\ v[x] * a = b * w[x]
    BY <1>1
  <2> HIDE DEF sv, sw
  <2>3. (v[x] + sv) * a = v[x] * a + sv * a
    BY <2>2
  <2>4. b * (w[x] + sw) = b * w[x] + b * sw
    BY <2>2
  <2>5. (v[x] + sv) * a = b * (w[x] + sw)
    BY <2>2, <2>3, <2>4
  <2> QED
    BY <2>1, <2>5 DEF sv, sw
<1>4. S \in Q
  <2> HIDE DEF Q
  <2> QED
    BY <1>2, <1>3, AllSubsets
<1> QED
  BY <1>4

\* The sum over a set that is made of disjoint groups.
LEMMA SumGroups ==
  ASSUME NEW C, IsFiniteSet(C), NEW P, NEW v, NEW t,
         \A c \in C : /\ IsFiniteSet(P[c]) /\ \A x \in P[c] : v[x] \in Int
                      /\ t[c] = SumOf(v, P[c]),
         \A c, d \in C : c # d => P[c] \intersect P[d] = {}
  PROVE  SumOf(v, UNION {P[c] : c \in C}) = SumOf(t, C)
<1> DEFINE All(s) == UNION {P[c] : c \in s}
           Q == {s \in SUBSET C : IsFiniteSet(All(s)) /\ SumOf(v, All(s)) = SumOf(t, s)}
<1>1. \A c \in C : t[c] \in Int
  BY SumPicked
<1>2. {} \in Q
  <2>1. All({}) = {}
    OBVIOUS
  <2>2. IsFiniteSet({})
    BY FS_EmptySet
  <2>3. SumOf(v, {}) = 0 /\ SumOf(t, {}) = 0
    BY <2>2, SumPicked
  <2> QED
    BY <2>1, <2>2, <2>3
<1>3. ASSUME NEW s \in Q \intersect SUBSET C, NEW c \in C \ s
      PROVE  s \union {c} \in Q
  <2> DEFINE A == All(s)
             B == P[c]
  <2>1. All(s \union {c}) = A \union B
    OBVIOUS
  <2>2. A \intersect B = {}
    OBVIOUS
  <2>3. IsFiniteSet(A) /\ IsFiniteSet(B) /\ \A x \in A \union B : v[x] \in Int
    OBVIOUS
  <2>4. SumOf(v, A) = SumOf(t, s) /\ t[c] = SumOf(v, B)
    OBVIOUS
  <2>5. SumOf(t, s \union {c}) = t[c] + SumOf(t, s) /\ SumOf(t, s) \in Int
    BY <1>1, SumMore
  <2> HIDE DEF A, B, All
  <2>6. IsFiniteSet(A \union B)
    BY <2>3, FS_Union
  <2>7. (A \union B) \ A = B
    BY <2>2
  <2>8. SumOf(v, A \union B) = SumOf(v, A) + SumOf(v, (A \union B) \ A)
        /\ SumOf(v, A) \in Int
    <3> DEFINE U == A \union B
    <3>1. IsFiniteSet(U) /\ A \subseteq U /\ \A x \in U : v[x] \in Int
      BY <2>3, <2>6
    <3> HIDE DEF U
    <3>2. SumOf(v, U) = SumOf(v, A) + SumOf(v, U \ A) /\ SumOf(v, A) \in Int
      BY ONLY <3>1, SumParts
    <3> QED
      BY <3>2 DEF U
  <2>9. SumOf(v, A \union B) = SumOf(t, s) + t[c]
    BY <2>4, <2>7, <2>8
  <2>10. SumOf(v, A \union B) = SumOf(t, s \union {c})
    BY <1>1, <2>5, <2>9
  <2> QED
    BY <2>1, <2>6, <2>10
<1>4. C \in Q
  <2> HIDE DEF Q
  <2> QED
    BY <1>2, <1>3, AllSubsets
<1> QED
  BY <1>4
=============================================================================
