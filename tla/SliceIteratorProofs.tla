------------------------- MODULE SliceIteratorProofs -------------------------
(**************************************************************************)
(* Theorems about SliceIterator, for tensors of any shape and element     *)
(* size and for any request and either build.                             *)
(*                                                                        *)
(* The recursive functions of the model (products of a shape, the length  *)
(* of the chunks, the shape asked for) get the values their equations say *)
(* from Recursion and SameValues; TypeInv types the walk and the          *)
(* indexers; IndexRight ties the indexers to the request, and Indexed     *)
(* says which indices an indexer takes.  ServedInv, SelectionInv and      *)
(* ShapeInv say of the walk what the three safety properties say of its   *)
(* end.                                                                   *)
(**************************************************************************)
EXTENDS SliceIterator, FiniteSetTheorems, SequenceTheorems, WellFoundedInduction, TLAPS

-----------------------------------------------------------------------------
(* Recursive definitions *)

(* Induction up to n, over a set of numbers.                                *)
LEMMA Induct ==
    ASSUME NEW n \in Nat, NEW Good, 0 \in Good,
           \A i \in 0 .. (n - 1) : i \in Good => i + 1 \in Good
    PROVE  \A i \in 0 .. n : i \in Good
<1> DEFINE Bad == {i \in 0 .. n : i \notin Good}
           Less == {p \in Nat \X Nat : p[1] < p[2]}
<1>1. SUFFICES ASSUME Bad # {} PROVE FALSE
  OBVIOUS
<1>2. PICK m \in Bad : \A k \in Bad : ~ (<<k, m>> \in Less)
  <2>1. Bad \subseteq Nat
    OBVIOUS
  <2>2. Less = OpToRel(<, Nat)
    BY DEF OpToRel
  <2>3. IsWellFoundedOn(Less, Nat)
    BY <2>2, NatLessThanWellFounded
  <2> HIDE DEF Bad, Less
  <2>4. QED
    BY <1>1, <2>1, <2>3, WFMin
<1>3. m \in 0 .. n /\ m \notin Good /\ m # 0
  BY <1>2
<1>4. m - 1 \in 0 .. (n - 1) /\ m - 1 \in 0 .. n /\ m - 1 < m /\ m - 1 + 1 = m
  BY <1>3
<1>5. m - 1 \notin Bad
  <2>1. <<m - 1, m>> \in Less
    BY <1>3, <1>4
  <2>2. QED
    BY <1>2, <2>1
<1>6. QED
  BY <1>3, <1>4, <1>5

(* g has the values a recursion from b by F gives it up to n.               *)
Computes(g, n, S, b, F) ==
    /\ g \in [0 .. n -> S] /\ g[0] = b
    /\ \A k \in 1 .. n : g[k] = F[<<g[k - 1], k>>]

(* There is such a function, so that the recursive functions of            *)
(* SliceIterator have the values their equations say.                       *)
LEMMA Recursion ==
    ASSUME NEW n \in Nat, NEW S, NEW b \in S, NEW F \in [S \X (1 .. n) -> S]
    PROVE  \E g : Computes(g, n, S, b, F)
<1> DEFINE Ok(g, m) == g \in [0 .. m -> S] /\ g[0] = b
                       /\ \A k \in 1 .. m : g[k] = F[<<g[k - 1], k>>]
           Good == {m \in 0 .. n : \E g : Ok(g, m)}
<1>1. 0 \in Good
  <2> DEFINE g == [k \in 0 .. 0 |-> b]
  <2>1. g \in [0 .. 0 -> S] /\ g[0] = b /\ 1 .. 0 = {}
    OBVIOUS
  <2> HIDE DEF g
  <2>2. Ok(g, 0)
    BY <2>1
  <2>3. QED
    BY <2>2
<1>2. ASSUME NEW m \in 0 .. (n - 1), m \in Good PROVE m + 1 \in Good
  <2>1. PICK g : Ok(g, m)
    BY <1>2
  <2>2. m \in Nat /\ m + 1 \in 1 .. n /\ m \in 0 .. m /\ m + 1 - 1 = m
    OBVIOUS
  <2> DEFINE h == [k \in 0 .. (m + 1) |-> IF k = m + 1 THEN F[<<g[m], m + 1>>] ELSE g[k]]
  <2>3. g[m] \in S /\ F[<<g[m], m + 1>>] \in S
    BY <2>1, <2>2
  <2>4. h \in [0 .. (m + 1) -> S]
    <3>1. ASSUME NEW k \in 0 .. (m + 1), k # m + 1 PROVE g[k] \in S
      <4>1. k \in 0 .. m
        BY <2>2, <3>1
      <4>2. QED
        BY <2>1, <4>1
    <3>2. QED
      BY <2>3, <3>1
  <2>5. h[0] = b
    BY <2>1, <2>2
  <2>6. ASSUME NEW k \in 1 .. (m + 1) PROVE h[k] = F[<<h[k - 1], k>>]
    <3>1. CASE k = m + 1
      <4>1. k \in 0 .. (m + 1) /\ m \in 0 .. (m + 1) /\ m # m + 1 /\ k - 1 = m
        BY <2>2, <3>1
      <4>2. h[k] = F[<<g[m], k>>] /\ h[m] = g[m]
        BY <3>1, <4>1
      <4>3. QED
        BY <4>1, <4>2
    <3>2. CASE k # m + 1
      <4>1. k \in 1 .. m /\ k \in 0 .. (m + 1) /\ k - 1 \in 0 .. (m + 1) /\ k - 1 # m + 1
        BY <2>2, <3>2
      <4>2. h[k] = g[k] /\ h[k - 1] = g[k - 1]
        BY <3>2, <4>1
      <4>3. QED
        BY <2>1, <4>1, <4>2
    <3>3. QED
      BY <3>1, <3>2
  <2> HIDE DEF h
  <2>7. Ok(h, m + 1)
    BY <2>4, <2>5, <2>6
  <2>8. QED
    BY <2>2, <2>7
<1>3. \A i \in 0 .. n : i \in Good
  <2> HIDE DEF Good
  <2>1. QED
    BY <1>1, <1>2, Induct
<1>4. \E g : Ok(g, n)
  <2>1. n \in 0 .. n
    OBVIOUS
  <2>2. n \in Good
    BY <1>3, <2>1
  <2> HIDE DEF Ok
  <2>3. QED
    BY <2>2
<1>5. QED
  BY <1>4 DEF Computes

(* And it is the only one.                                                  *)
LEMMA SameValues ==
    ASSUME NEW n \in Nat, NEW c, NEW g, c[0] = g[0],
           \A k \in 1 .. n : c[k - 1] = g[k - 1] => c[k] = g[k]
    PROVE  c[n] = g[n]
<1> DEFINE Good == {k \in 0 .. n : c[k] = g[k]}
<1>1. 0 \in Good
  OBVIOUS
<1>2. ASSUME NEW i \in 0 .. (n - 1), i \in Good PROVE i + 1 \in Good
  <2>1. i + 1 \in 0 .. n /\ i + 1 \in 1 .. n /\ i + 1 - 1 = i
    OBVIOUS
  <2>2. QED
    BY <1>2, <2>1
<1> HIDE DEF Good
<1>3. \A i \in 0 .. n : i \in Good
  BY <1>1, <1>2, Induct
<1>4. n \in Good
  BY <1>3
<1>5. QED
  BY <1>4 DEF Good

LEMMA InnerSteps ==
    ASSUME NEW s \in Seq(Nat)
    PROVE  /\ Inner(s, 0) = 1
           /\ \A k \in 0 .. Len(s) : Inner(s, k) \in Nat
           /\ \A k \in 1 .. Len(s) : Inner(s, k) = Inner(s, k - 1) * s[Len(s) - k + 1]
<1> DEFINE n == Len(s)
           F == [x \in Nat \X (1 .. n) |-> x[1] * s[n - x[2] + 1]]
           c == CHOOSE p : p = [j \in 0 .. n |-> IF j = 0 THEN 1 ELSE p[j - 1] * s[n - j + 1]]
<1>n. n \in Nat /\ 1 \in Nat /\ \A k \in 1 .. n : s[n - k + 1] \in Nat
  OBVIOUS
<1>1. F \in [Nat \X (1 .. n) -> Nat]
  <2>1. ASSUME NEW x \in Nat \X (1 .. n) PROVE x[1] * s[n - x[2] + 1] \in Nat
    <3>1. x[1] \in Nat /\ s[n - x[2] + 1] \in Nat
      BY <1>n
    <3>2. QED
      BY <3>1
  <2>2. QED
    BY <2>1
<1>2. \A a \in Nat, k \in 1 .. n : F[<<a, k>>] = a * s[n - k + 1]
  OBVIOUS
<1>5. \A k : Inner(s, k) = c[k]
  BY DEF Inner
<1> HIDE DEF F
<1>3. PICK g : Computes(g, n, Nat, 1, F)
  <2> HIDE DEF n
  <2>1. QED
    BY <1>n, <1>1, Recursion
<1>q. \A k \in 1 .. n : k - 1 \in 0 .. n /\ k \in 0 .. n /\ k # 0
  BY <1>n
<1>4. /\ g \in [0 .. n -> Nat] /\ g[0] = 1
      /\ \A k \in 1 .. n : g[k] = g[k - 1] * s[n - k + 1]
  BY <1>2, <1>3, <1>q DEF Computes
<1> HIDE DEF n
<1>6. g = [j \in 0 .. n |-> IF j = 0 THEN 1 ELSE g[j - 1] * s[n - j + 1]]
  <2>1. ASSUME NEW k \in 0 .. n PROVE g[k] = IF k = 0 THEN 1 ELSE g[k - 1] * s[n - k + 1]
    BY <1>n, <1>4
  <2>2. QED
    BY <1>4, <2>1
<1>7. c = [j \in 0 .. n |-> IF j = 0 THEN 1 ELSE c[j - 1] * s[n - j + 1]]
  BY <1>6
<1> HIDE DEF c
<1>8. c[0] = 1 /\ \A k \in 1 .. n : c[k] = c[k - 1] * s[n - k + 1]
  BY <1>n, <1>7
<1>9. \A k \in 0 .. n : c[k] \in Nat
  <2> DEFINE Good == {k \in 0 .. n : c[k] \in Nat}
  <2>1. 0 \in Good
    BY <1>n, <1>8
  <2>2. ASSUME NEW i \in 0 .. (n - 1), i \in Good PROVE i + 1 \in Good
    <3>1. i + 1 \in 1 .. n /\ i + 1 \in 0 .. n /\ i + 1 - 1 = i
      BY <1>n
    <3>2. c[i + 1] = c[i] * s[n - (i + 1) + 1] /\ s[n - (i + 1) + 1] \in Nat /\ c[i] \in Nat
      BY <1>n, <1>8, <2>2, <3>1
    <3>3. QED
      BY <3>1, <3>2
  <2>3. \A i \in 0 .. n : i \in Good
    <3> HIDE DEF Good
    <3>1. QED
      BY <1>n, <2>1, <2>2, Induct
  <2>4. QED
    BY <2>3
<1>10. QED
  BY <1>5, <1>8, <1>9 DEF n

-----------------------------------------------------------------------------
(* Chunks of one length *)
LEMMA EqualChunks ==
    ASSUME NEW L \in Nat, indices \in Seq(Nat \X Nat),
           \A k \in 1 .. Len(indices) : indices[k][2] = indices[k][1] + L
    PROVE  RemainingByteLen = Len(indices) * L
<1> DEFINE n == Len(indices)
           g == [k \in 0 .. n |-> k * L]
           c == CHOOSE p : p = [k \in 0 .. n |-> IF k = 0 THEN 0
                                                 ELSE p[k - 1] + indices[k][2] - indices[k][1]]
<1>n. n \in Nat
  OBVIOUS
<1>1. \A k \in 1 .. n : indices[k][1] \in Nat /\ indices[k][2] = indices[k][1] + L
  OBVIOUS
<1>2. RemainingByteLen = c[n]
  BY DEF RemainingByteLen
<1> HIDE DEF n
<1>3. g = [k \in 0 .. n |-> IF k = 0 THEN 0 ELSE g[k - 1] + indices[k][2] - indices[k][1]]
  <2>1. ASSUME NEW k \in 0 .. n
        PROVE  k * L = IF k = 0 THEN 0 ELSE g[k - 1] + indices[k][2] - indices[k][1]
    <3>1. CASE k = 0
      BY <3>1
    <3>2. CASE k # 0
      <4>1. k \in 1 .. n /\ k - 1 \in 0 .. n /\ k \in Nat
        BY <1>n, <3>2
      <4>2. g[k - 1] = (k - 1) * L
        BY <4>1
      <4>3. (k - 1) * L + L = k * L
        BY <4>1
      <4> DEFINE i == indices[k][1]
                 a == (k - 1) * L
      <4>4. a + (i + L) - i = a + L
        <5>1. i \in Nat /\ a \in Int
          BY <1>1, <4>1
        <5> HIDE DEF i, a
        <5>2. QED
          BY <5>1
      <4>5. QED
        BY <1>1, <3>2, <4>1, <4>2, <4>3, <4>4
    <3>3. QED
      BY <3>1, <3>2
  <2>2. QED
    BY <2>1
<1>4. c = [k \in 0 .. n |-> IF k = 0 THEN 0 ELSE c[k - 1] + indices[k][2] - indices[k][1]]
  <2> HIDE DEF g
  <2>1. QED
    BY <1>3
<1> HIDE DEF c
<1>5. c[0] = 0 /\ \A k \in 1 .. n : c[k] = c[k - 1] + indices[k][2] - indices[k][1]
  BY <1>n, <1>4
<1>6. c[n] = g[n]
  <2>1. c[0] = g[0]
    BY <1>n, <1>5
  <2>2. g[0] = 0 /\ \A k \in 1 .. n : g[k] = g[k - 1] + indices[k][2] - indices[k][1]
    <3> HIDE DEF g
    <3>1. QED
      BY <1>n, <1>3
  <2>3. \A k \in 1 .. n : c[k - 1] = g[k - 1] => c[k] = g[k]
    <3> HIDE DEF g
    <3>1. QED
      BY <1>5, <2>2
  <2> HIDE DEF g
  <2>4. QED
    BY <1>n, <2>1, <2>3, SameValues
<1>7. g[n] = n * L
  BY <1>n
<1>8. QED
  BY <1>2, <1>6, <1>7 DEF n

(* The shape asked for, a dimension at a time *)
New(d) == IF Dropped(d) THEN <<>> ELSE <<Cardinality(Chosen(d))>>

LEMMA ShapeSteps ==
    ASSUME Rank \in Nat
    PROVE  /\ ShapeAsked(0) = <<>>
           /\ \A k \in 1 .. Rank : ShapeAsked(k) = New(Rank - k + 1) \o ShapeAsked(k - 1)
<1> DEFINE R == Rank
           S == Seq({Cardinality(Chosen(d)) : d \in 1 .. R})
           F == [x \in S \X (1 .. R) |-> New(R - x[2] + 1) \o x[1]]
           c == CHOOSE p : p = [j \in 0 .. R |->
                    IF j = 0 THEN <<>>
                    ELSE LET d == R - j + 1
                         IN  (IF Dropped(d) THEN <<>> ELSE <<Cardinality(Chosen(d))>>) \o p[j - 1]]
<1>1. \A k : ShapeAsked(k) = c[k]
  BY DEF ShapeAsked
<1>2. c = CHOOSE p : p = [j \in 0 .. R |-> IF j = 0 THEN <<>> ELSE New(R - j + 1) \o p[j - 1]]
  BY Zenon DEF New
<1>3. \A d \in 1 .. R : New(d) \in S
  <2> DEFINE T == {Cardinality(Chosen(d)) : d \in 1 .. R}
  <2>1. ASSUME NEW d \in 1 .. R PROVE New(d) \in S
    <3>1. Cardinality(Chosen(d)) \in T
      OBVIOUS
    <3> DEFINE v == Cardinality(Chosen(d))
    <3>2. New(d) = IF Dropped(d) THEN <<>> ELSE <<v>>
      BY DEF New
    <3>3. S = Seq(T)
      OBVIOUS
    <3> HIDE DEF S, T, v
    <3>4. v \in T
      BY <3>1 DEF v
    <3>5. <<>> \in Seq(T) /\ <<v>> \in Seq(T)
      BY <3>4
    <3>6. CASE Dropped(d)
      BY <3>2, <3>3, <3>5, <3>6
    <3>7. CASE ~Dropped(d)
      BY <3>2, <3>3, <3>5, <3>7
    <3>8. QED
      BY <3>6, <3>7
  <2>2. QED
    BY <2>1
<1>n. R \in Nat /\ <<>> \in S
  OBVIOUS
<1>4. F \in [S \X (1 .. R) -> S]
  <2>1. ASSUME NEW x \in S \X (1 .. R) PROVE New(R - x[2] + 1) \o x[1] \in S
    <3>1. x[1] \in S /\ R - x[2] + 1 \in 1 .. R
      <4> HIDE DEF S, R
      <4>1. QED
        BY <1>n
    <3>2. New(R - x[2] + 1) \in S
      BY <1>3, <3>1
    <3>3. QED
      BY <3>1, <3>2, ConcatProperties
  <2>2. QED
    BY <2>1
<1>5. \A a \in S, k \in 1 .. R : F[<<a, k>>] = New(R - k + 1) \o a
  OBVIOUS
<1> HIDE DEF S, F, R, c
<1>6. PICK g : Computes(g, R, S, <<>>, F)
  BY <1>n, <1>4, Recursion
<1>7. /\ g \in [0 .. R -> S] /\ g[0] = <<>>
      /\ \A k \in 1 .. R : g[k] = New(R - k + 1) \o g[k - 1]
  <2>1. \A k \in 1 .. R : k - 1 \in 0 .. R
    BY <1>n
  <2>2. QED
    BY <1>5, <1>6, <2>1 DEF Computes
<1>8. g = [j \in 0 .. R |-> IF j = 0 THEN <<>> ELSE New(R - j + 1) \o g[j - 1]]
  <2>1. ASSUME NEW k \in 0 .. R PROVE g[k] = IF k = 0 THEN <<>> ELSE New(R - k + 1) \o g[k - 1]
    <3>1. k # 0 => k \in 1 .. R
      BY <1>n
    <3>2. QED
      BY <1>7, <3>1
  <2>2. QED
    BY <1>7, <2>1
<1>9. c = [j \in 0 .. R |-> IF j = 0 THEN <<>> ELSE New(R - j + 1) \o c[j - 1]]
  BY <1>2, <1>8
<1>10. c[0] = <<>> /\ \A k \in 1 .. R : c[k] = New(R - k + 1) \o c[k - 1]
  <2>1. 0 \in 0 .. R /\ \A k \in 1 .. R : k \in 0 .. R /\ k # 0
    BY <1>n
  <2>2. QED
    BY <1>9, <2>1
<1>11. QED
  BY <1>1, <1>10 DEF R

-----------------------------------------------------------------------------
(* Types *)

LEMMA ViewFacts ==
    ASSUME NEW v \in Views
    PROVE  /\ v.shape \in Seq(Nat) /\ v.bits \in Nat /\ v.bits > 0
           /\ Len(v.shape) \in Nat
           /\ \A d \in 1 .. Len(v.shape) : v.shape[d] \in Nat /\ v.shape[d] < Limit
<1>1. v.shape \in Seq(0 .. (Limit - 1)) /\ v.bits \in Nat \ {0} /\ Limit \in Nat
  BY SliceAssumption
<1>2. \A d \in 1 .. Len(v.shape) : v.shape[d] \in 0 .. (Limit - 1)
  BY <1>1
<1>3. \A n \in 0 .. (Limit - 1) : n \in Nat /\ n < Limit
  BY <1>1
<1>4. v.shape \in Seq(Nat)
  <2>1. v.shape \in [1 .. Len(v.shape) -> 0 .. (Limit - 1)] /\ Len(v.shape) \in Nat
    BY <1>1
  <2>2. v.shape \in [1 .. Len(v.shape) -> Nat]
    BY <1>3, <2>1
  <2>3. QED
    BY <2>1, <2>2, SeqDef
<1>5. QED
  BY <1>1, <1>2, <1>3, <1>4

(* Only the largest usize plus one is not what it is in Nat.                *)
LEMMA AddOne ==
    ASSUME NEW n \in 0 .. (Limit - 1)
    PROVE  /\ n \in Nat /\ PlusOne(n) \in Nat
           /\ n # Limit - 1 => PlusOne(n) = n + 1
<1> PICK m : m = n + 1
  OBVIOUS
<1>1. m \in Nat /\ n \in Nat /\ Limit \in Nat /\ Limit > 0 /\ m <= Limit
  BY SliceAssumption
<1>2. m % Limit \in Nat
  BY <1>1, Z3
<1>3. ASSUME n # Limit - 1 PROVE m % Limit = m
  <2>1. m < Limit
    BY <1>1, <1>3
  <2>2. QED
    BY <1>1, <2>1, Z3
<1>4. QED
  BY <1>1, <1>2, <1>3 DEF PlusOne

LEMMA BeginEnd ==
    ASSUME NEW ix \in Indexers, NEW n \in Nat
    PROVE  Begin(ix) \in Nat /\ End(ix, n) \in Nat
<1>1. /\ ix.lo \in Bounds /\ ix.hi \in Bounds
  BY DEF Indexers
<1>2. /\ ix.lo.kind \in {"Unbounded", "Included", "Excluded"} /\ ix.lo.at \in 0 .. (Limit - 1)
      /\ ix.hi.kind \in {"Unbounded", "Included", "Excluded"} /\ ix.hi.at \in 0 .. (Limit - 1)
  BY <1>1 DEF Bounds
<1>3. Begin(ix) \in Nat
  BY <1>2, AddOne DEF Begin
<1>4. End(ix, n) \in Nat
  BY <1>2, AddOne DEF End
<1>5. QED
  BY <1>3, <1>4

LEMMA Converted ==
    ASSUME NEW it \in Items, NEW n \in Nat, n < Limit, Convertible(it, n),
           it.int => it.start # None /\ it.start < Limit - 1
    PROVE  ToIndexer(it, n) \in Indexers
<1>1. /\ it.int \in BOOLEAN
      /\ it.start \in Int \cup {None} /\ it.stop \in Int \cup {None}
  BY DEF Items
<1> DEFINE a == it.start
           b == it.stop
<1>2. CASE it.int
  <2>1. a \in Int /\ n + a >= 0
    BY <1>1, <1>2 DEF Convertible
  <2>2. ToIndexer(it, n) = Select(IF a < 0 THEN n + a ELSE a)
    BY <1>2 DEF ToIndexer
  <2>l. Limit \in Nat /\ a < Limit - 1
    BY <1>2, SliceAssumption
  <2> HIDE DEF a
  <2>3. (IF a < 0 THEN n + a ELSE a) \in 0 .. (Limit - 1)
    BY <2>1, <2>l
  <2>4. \A m \in 0 .. (Limit - 1) : Select(m) \in Indexers
    BY DEF Select, Included, Indexers, Bounds
  <2>5. QED
    BY <2>2, <2>3, <2>4
<1>3. CASE ~it.int
  <2>1. /\ a # None => a \in 0 .. (Limit - 1)
        /\ b # None => b \in 0 .. (Limit - 1)
        /\ 0 \in 0 .. (Limit - 1)
    <3>1. /\ \A x \in {a, b} \ {None} : x >= 0 /\ x < Limit
          /\ a \in Int \cup {None} /\ b \in Int \cup {None}
      BY <1>1, <1>3 DEF Convertible
    <3>2. Limit \in Nat \ {0}
      BY SliceAssumption
    <3> HIDE DEF a, b
    <3>3. QED
      BY <3>1, <3>2
  <2> DEFINE lo == IF a = None THEN Unbounded ELSE Included(a)
             hi == IF b = None THEN Unbounded ELSE Excluded(b)
  <2>2. ToIndexer(it, n) = Narrow(lo, hi)
    BY <1>3 DEF ToIndexer
  <2>3. lo \in Bounds /\ hi \in Bounds
    <3> HIDE DEF a, b
    <3>1. QED
      BY <2>1 DEF Unbounded, Included, Excluded, Bounds
  <2> HIDE DEF lo, hi
  <2>4. QED
    BY <2>2, <2>3 DEF Narrow, Indexers
<1>4. QED
  BY <1>1, <1>2, <1>3

LEMMA Shorter ==
    ASSUME NEW a \in Nat, NEW b \in Nat
    PROVE  Min({a, b}) = IF a <= b THEN a ELSE b
<1>1. CASE a <= b
  <2>1. \A y \in {a, b} : a <= y
    BY <1>1
  <2>2. \A x \in {a, b} : (\A y \in {a, b} : x <= y) => x = a
    BY <1>1
  <2>3. QED
    BY <1>1, <2>1, <2>2 DEF Min
<1>2. CASE ~(a <= b)
  <2>1. \A y \in {a, b} : b <= y
    BY <1>2
  <2>2. \A x \in {a, b} : (\A y \in {a, b} : x <= y) => x = b
    BY <1>2
  <2>3. QED
    BY <1>2, <2>1, <2>2 DEF Min
<1>3. QED
  BY <1>1, <1>2

(* zip ends with the shorter one. *)
LEMMA ZipEnds ==
    ASSUME NEW T, request.items \in Seq(T), Rank \in Nat
    PROVE  /\ Len(Zipped) = IF Len(request.items) <= Rank THEN Len(request.items) ELSE Rank
           /\ Len(Zipped) \in Nat /\ DOMAIN Zipped = 1 .. Len(Zipped)
           /\ Len(Zipped) <= Rank /\ Len(Zipped) <= Len(request.items)
           /\ \A d \in DOMAIN Zipped : Zipped[d] = request.items[d]
<1> DEFINE s == request.items
           m == Min({Len(s), Rank})
<1>1. s \in Seq(T) /\ Len(s) \in Nat /\ Rank \in Nat
  OBVIOUS
<1>2. m = IF Len(s) <= Rank THEN Len(s) ELSE Rank
  BY <1>1, Shorter
<1>3. m \in Nat /\ m <= Len(s) /\ m <= Rank
  <2> DEFINE l == Len(s)
  <2> HIDE DEF s, m
  <2>1. l \in Nat
    BY <1>1
  <2> HIDE DEF l
  <2>2. QED
    BY <1>1, <1>2, <2>1 DEF l
<1>4. Zipped = SubSeq(s, 1, m)
  BY DEF Zipped
<1> HIDE DEF s, m
<1>5. /\ Len(SubSeq(s, 1, m)) = m /\ DOMAIN SubSeq(s, 1, m) = 1 .. m
      /\ \A d \in 1 .. m : SubSeq(s, 1, m)[d] = s[d]
  <2>1. CASE m = 0
    BY <1>1, <1>3, <2>1
  <2>2. CASE m # 0
    BY <1>1, <1>3, <2>2
  <2>3. QED
    BY <2>1, <2>2
<1>6. QED
  BY <1>1, <1>2, <1>3, <1>4, <1>5 DEF s

ViewOK == view \in Views /\ ByteAligned(view) /\ request \in Requests

TypeInv == TypeOK /\ ViewOK /\ index \in Seq(Indexers)

LEMMA TypeInit == Init => TypeInv
<1> SUFFICES ASSUME Init PROVE TypeInv
  OBVIOUS
<1>1. view \in Views /\ ByteAligned(view) /\ request \in Requests
  BY DEF Init
<1>2. dim \in 0 .. Rank /\ span \in Nat
  BY <1>1, ViewFacts DEF Init, Rank
<1>3. QED
  BY <1>1, <1>2 DEF Init, TypeInv, TypeOK, ViewOK

(* The dimension under the walk *)
LEMMA WalkTypes ==
    ASSUME TypeInv, Walking
    PROVE  /\ Rank \in Nat /\ dim \in 1 .. Rank /\ dim - 1 \in 0 .. Rank
           /\ extent \in Nat /\ extent < Limit /\ span \in Nat /\ span * extent \in Nat
           /\ dim <= Len(index) =>
                 index[dim] \in Indexers /\ from \in Nat /\ to \in Nat
<1>1. Rank \in Nat /\ dim \in 1 .. Rank /\ span \in Nat /\ view \in Views
  BY ViewFacts DEF TypeInv, TypeOK, ViewOK, Walking, Rank
<1>2. extent \in Nat /\ extent < Limit
  BY <1>1, ViewFacts DEF extent, Rank
<1>3. span * extent \in Nat
  BY <1>1, <1>2
<1>4. ASSUME dim <= Len(index) PROVE index[dim] \in Indexers /\ from \in Nat /\ to \in Nat
  <2>1. dim \in 1 .. Len(index) /\ index \in Seq(Indexers)
    BY <1>1, <1>4 DEF TypeInv
  <2>2. index[dim] \in Indexers
    BY <2>1
  <2>3. QED
    BY <1>2, <2>2, BeginEnd DEF from, to
<1>5. QED
  BY <1>1, <1>2, <1>3, <1>4

LEMMA KeptType ==
    ASSUME from \in Nat, to \in Nat
    PROVE  Kept \in Seq(Nat)
<1> DEFINE m == (to - from) % Limit
<1>1. m \in Nat
  <2> DEFINE a == to - from
  <2>1. a \in Int /\ Limit \in Nat /\ Limit > 0
    BY SliceAssumption
  <2> HIDE DEF a
  <2>2. QED
    BY <2>1, Z3
<1>2. Kept = IF index[dim].select THEN <<>> ELSE <<m>>
  BY DEF Kept
<1> HIDE DEF m
<1>3. QED
  BY <1>1, <1>2

LEMMA RepeatedType ==
    ASSUME from \in Nat, to \in Nat, from <= to, span \in Nat,
           indices \in Seq(Nat \X Nat), indices # <<>>
    PROVE  Repeated \in Seq(Nat \X Nat) /\ Len(Repeated) = (to - from) * Len(indices)
<1> DEFINE l == Len(indices)
           c == to - from
<1>1. l \in Nat /\ l > 0 /\ c \in Nat
  OBVIOUS
<1>2. ASSUME NEW k \in 1 .. (c * l)
      PROVE  Repeated[k] \in Nat \X Nat
  <2> DEFINE q == (k - 1) \div l
             j == ((k - 1) % l) + 1
             n == from + q
             old == indices[j]
             off == (n * span) \div 8
  <2>1. c * l \in Nat
    BY <1>1
  <2>2. k \in Nat /\ k - 1 \in Nat
    BY <2>1
  <2>3. q \in Nat /\ j \in 1 .. l
    <3> HIDE DEF l
    <3>1. QED
      BY <1>1, <2>2, Z3
  <2>4. old \in Nat \X Nat
    <3> HIDE DEF j
    <3>1. QED
      BY <2>3
  <2>5. off \in Nat
    <3> HIDE DEF q
    <3>1. n * span \in Nat
      BY <2>3
    <3> DEFINE x == n * span
    <3> HIDE DEF x
    <3>2. x \div 8 \in Nat
      BY <3>1, Z3 DEF x
    <3>3. QED
      BY <3>2 DEF x
  <2>6. Repeated[k] = <<old[1] + off, old[2] + off>>
    BY DEF Repeated
  <2> HIDE DEF old, off
  <2>7. QED
    BY <2>4, <2>5, <2>6
<1>3. Repeated = [k \in 1 .. (c * l) |-> Repeated[k]]
  BY DEF Repeated
<1> HIDE DEF c, l
<1>4. c * l \in Nat
  BY <1>1
<1> DEFINE r == Repeated
<1>5. r = [k \in 1 .. (c * l) |-> r[k]] /\ \A k \in 1 .. (c * l) : r[k] \in Nat \X Nat
  BY <1>2, <1>3
<1> HIDE DEF r
<1> DEFINE p == c * l
<1>6. p \in Nat /\ r = [k \in 1 .. p |-> r[k]] /\ \A k \in 1 .. p : r[k] \in Nat \X Nat
  BY <1>4, <1>5
<1> HIDE DEF p
<1>7. r \in Seq(Nat \X Nat) /\ Len(r) = p
  <2>1. r \in [1 .. p -> Nat \X Nat]
    BY <1>6
  <2>2. QED
    BY <1>6, <2>1
<1>8. QED
  BY <1>7 DEF r, p, c, l

(* What never changes *)
LEMMA Fixed == [Next]_vars => UNCHANGED <<checked, view, request>>
BY DEF Next, vars, RustSlice, PythonSlice, PythonRefused, TooMany, Widen, Overflows, OutOfRange, Reversed,
       Whole, FirstCut, Repeat, Misaligned, Finish, NextChunk, Turn, Answer

LEMMA TurnTypes ==
    ASSUME TypeInv, Walking, NEW i \in Seq(Nat \X Nat), NEW n \in Seq(Nat), Turn(i, n)
    PROVE  TypeInv'
<1>1. dim - 1 \in 0 .. Rank /\ span * extent \in Nat
  BY WalkTypes
<1>2. newshape \o n \in Seq(Nat)
  BY DEF TypeInv, TypeOK
<1>3. /\ indices' = i /\ newshape' = newshape \o n /\ span' = span * extent /\ dim' = dim - 1
      /\ UNCHANGED <<checked, view, request, index, result, given>>
  BY DEF Turn
<1>4. Rank' = Rank
  BY <1>3 DEF Rank
<1>5. QED
  BY <1>1, <1>2, <1>3, <1>4 DEF TypeInv, TypeOK, ViewOK, ByteAligned

LEMMA CutTypes ==
    ASSUME TypeInv, Walking, dim <= Len(index)
    PROVE  <<<<(from * span) \div 8, (to * span) \div 8>>>> \in Seq(Nat \X Nat)
<1>1. from \in Nat /\ to \in Nat /\ span \in Nat
  BY WalkTypes
<1> DEFINE a == from * span
           b == to * span
<1>2. a \in Nat /\ b \in Nat
  BY <1>1
<1> HIDE DEF a, b
<1>3. a \div 8 \in Nat /\ b \div 8 \in Nat
  BY <1>2, Z3
<1> DEFINE p == a \div 8
           q == b \div 8
<1>4. p \in Nat /\ q \in Nat
  BY <1>3
<1> HIDE DEF p, q
<1>5. <<<<p, q>>>> \in Seq(Nat \X Nat)
  BY <1>4
<1>6. QED
  BY <1>5 DEF p, q, a, b

LEMMA TypeStep == TypeInv /\ [Next]_vars => TypeInv'
<1> SUFFICES ASSUME TypeInv, [Next]_vars PROVE TypeInv'
  OBVIOUS
<1>v. /\ view' = view /\ request' = request /\ ViewOK' /\ Rank' = Rank
      /\ view \in Views /\ Rank \in Nat
  <2>1. view' = view /\ request' = request
    BY Fixed
  <2>2. QED
    BY <2>1, ViewFacts DEF TypeInv, ViewOK, Rank, ByteAligned
<1>a. ASSUME NEW r \in {"panic", "InvalidIndex", "TooManySlices", "SliceOutOfRange", "MisalignedSlice"},
             Answer(r)
      PROVE  TypeInv'
  BY <1>v, <1>a DEF Answer, TypeInv, TypeOK
<1>1. CASE RustSlice
  <2>1. request.items \in Seq(Indexers)
    BY <1>1, SliceAssumption DEF TypeInv, ViewOK, RustSlice
  <2>2. QED
    BY <1>v, <1>1, <2>1 DEF RustSlice, TypeInv, TypeOK
<1>2. CASE PythonSlice
  <2>1. /\ request.items \in Seq(Items)
        /\ \A d \in DOMAIN request.items :
              request.items[d].int => request.items[d].start # None /\ request.items[d].start < Limit - 1
    BY <1>2, SliceAssumption DEF TypeInv, ViewOK, PythonSlice
  <2>2. /\ DOMAIN Zipped = 1 .. Len(Zipped) /\ Len(Zipped) \in Nat
        /\ Len(Zipped) <= Rank /\ Len(Zipped) <= Len(request.items)
        /\ \A d \in DOMAIN Zipped : Zipped[d] = request.items[d]
    BY <1>v, <2>1, ZipEnds
  <2>3. ASSUME NEW d \in DOMAIN Zipped
        PROVE  ToIndexer(Zipped[d], view.shape[d]) \in Indexers
    <3> DEFINE it == Zipped[d]
               n == view.shape[d]
    <3>1. d \in DOMAIN request.items /\ it = request.items[d]
      BY <2>1, <2>2
    <3>2. it \in Items /\ (it.int => it.start # None /\ it.start < Limit - 1)
      BY <2>1, <3>1
    <3>3. n \in Nat /\ n < Limit
      BY <1>v, <2>2, ViewFacts DEF Rank
    <3>4. Convertible(it, n)
      BY <1>2 DEF PythonSlice
    <3> HIDE DEF it, n
    <3>5. ToIndexer(it, n) \in Indexers
      BY <3>2, <3>3, <3>4, Converted
    <3>6. QED
      BY <3>5 DEF it, n
  <2>4. index' = [d \in DOMAIN Zipped |-> ToIndexer(Zipped[d], view.shape[d])]
    BY <1>2 DEF PythonSlice
  <2>5. index' \in [1 .. Len(Zipped) -> Indexers]
    BY <2>2, <2>3, <2>4
  <2>6. index' \in Seq(Indexers)
    BY <2>2, <2>5, SeqDef
  <2>7. QED
    BY <1>v, <1>2, <2>6 DEF PythonSlice, TypeInv, TypeOK
<1>3. CASE PythonRefused
  BY <1>a, <1>3 DEF PythonRefused
<1>4. CASE TooMany
  BY <1>a, <1>4 DEF TooMany
<1>5. CASE Widen
  <2>1. Walking /\ Turn(indices, <<extent>>) /\ indices \in Seq(Nat \X Nat)
    BY <1>5 DEF Widen, TypeInv, TypeOK
  <2>2. extent \in Nat
    BY <2>1, WalkTypes
  <2>3. <<extent>> \in Seq(Nat)
    BY <2>2
  <2>4. QED
    BY <2>1, <2>3, TurnTypes
<1>16. CASE Overflows
  BY <1>a, <1>16 DEF Overflows
<1>6. CASE OutOfRange
  BY <1>a, <1>6 DEF OutOfRange
<1>7. CASE Reversed
  BY <1>a, <1>7 DEF Reversed
<1>s. ASSUME Subtracts
      PROVE  /\ Walking /\ dim <= Len(index) /\ from \in Nat /\ to \in Nat /\ span \in Nat
             /\ Kept \in Seq(Nat)
  <2>1. Walking /\ dim <= Len(index)
    BY <1>s DEF Subtracts, Converts, InBounds
  <2>2. from \in Nat /\ to \in Nat /\ span \in Nat
    BY <2>1, WalkTypes
  <2>3. QED
    BY <2>1, <2>2, KeptType
<1>8. CASE Whole
  <2>1. Subtracts /\ Turn(<<>>, Kept) /\ <<>> \in Seq(Nat \X Nat)
    BY <1>8 DEF Whole
  <2>2. QED
    BY <1>s, <2>1, TurnTypes
<1>9. CASE FirstCut
  <2>1. Subtracts /\ Turn(<<<<(from * span) \div 8, (to * span) \div 8>>>>, Kept)
    BY <1>9 DEF FirstCut
  <2>2. QED
    BY <1>s, <2>1, CutTypes, TurnTypes
<1>10. CASE Repeat
  <2>1. Subtracts /\ Turn(Repeated, Kept) /\ indices # <<>> /\ from <= to
    BY <1>10 DEF Repeat, Subtracts
  <2>2. indices \in Seq(Nat \X Nat)
    BY DEF TypeInv, TypeOK
  <2>3. QED
    BY <1>s, <2>1, <2>2, RepeatedType, TurnTypes
<1>11. CASE Misaligned
  BY <1>a, <1>11 DEF Misaligned
<1>12. CASE Finish
  <2> DEFINE c == IF indices = <<>> THEN <<<<0, DataLen>>>> ELSE indices
  <2>1. DataLen \in Nat
    <3>1. Product(view.shape) \in Nat /\ view.bits \in Nat
      BY <1>v, ViewFacts, InnerSteps DEF Product
    <3> DEFINE x == Product(view.shape) * view.bits
    <3>2. x \in Nat
      BY <3>1
    <3>3. DataLen = x \div 8
      BY DEF DataLen
    <3> HIDE DEF x
    <3>4. QED
      BY <3>2, <3>3, Z3
  <2>2. c \in Seq(Nat \X Nat)
    <3>1. indices \in Seq(Nat \X Nat)
      BY DEF TypeInv, TypeOK
    <3>2. <<<<0, DataLen>>>> \in Seq(Nat \X Nat)
      <4> DEFINE l == DataLen
      <4> HIDE DEF l
      <4>1. l \in Nat
        BY <2>1 DEF l
      <4>2. <<<<0, l>>>> \in Seq(Nat \X Nat)
        BY <4>1
      <4>3. QED
        BY <4>2 DEF l
    <3>3. QED
      BY <3>1, <3>2
  <2>3. indices' = Reverse(c) /\ newshape' = Reverse(newshape) /\ result' = "ok"
        /\ UNCHANGED <<checked, view, request, index, dim, span, given>>
    BY <1>12 DEF Finish
  <2> HIDE DEF c
  <2>4. \A T : \A q \in Seq(T) : Reverse(q) \in Seq(T)
    <3>1. ASSUME NEW T, NEW q \in Seq(T) PROVE Reverse(q) \in Seq(T)
      <4>1. Reverse(q) \in [1 .. Len(q) -> T] /\ Len(q) \in Nat
        BY DEF Reverse
      <4>2. QED
        BY <4>1, SeqDef
    <3>2. QED
      BY <3>1
  <2>5. indices' \in Seq(Nat \X Nat) /\ newshape' \in Seq(Nat)
    BY <2>2, <2>3, <2>4 DEF TypeInv, TypeOK
  <2>6. QED
    BY <1>v, <2>3, <2>5 DEF TypeInv, TypeOK
<1>13. CASE NextChunk
  <2> DEFINE c == Last(indices)
  <2>1. indices \in Seq(Nat \X Nat) /\ indices # <<>> /\ given \in Seq(Nat \X Nat)
    BY <1>13 DEF NextChunk, TypeInv, TypeOK
  <2>2. Front(indices) \in Seq(Nat \X Nat) /\ c \in Nat \X Nat
    BY <2>1 DEF Front, Last
  <2>3. /\ indices' = Front(indices)
        /\ (given' = Append(given, c) /\ UNCHANGED result) \/ (result' = "panic" /\ UNCHANGED given)
        /\ UNCHANGED <<checked, view, request, index, dim, span, newshape>>
    BY <1>13 DEF NextChunk
  <2> HIDE DEF c
  <2>4. Append(given, c) \in Seq(Nat \X Nat)
    BY <2>1, <2>2
  <2>5. QED
    BY <1>v, <2>2, <2>3, <2>4 DEF TypeInv, TypeOK
<1>14. CASE UNCHANGED vars
  BY <1>v, <1>14 DEF vars, TypeInv, TypeOK
<1>15. QED
  BY <1>1, <1>2, <1>3, <1>4, <1>5, <1>6, <1>7, <1>8, <1>9, <1>10, <1>11, <1>12, <1>13, <1>14,
     <1>16
     DEF Next

(* Every state of every slicing is well typed: the walk stays on the        *)
(* dimensions and what it collects are sizes and pairs of offsets, in a     *)
(* build that wraps, too.                                                   *)
THEOREM TypeCorrect == Spec => []TypeOK
<1>1. TypeInv => TypeOK
  BY DEF TypeInv
<1>2. QED
  BY TypeInit, TypeStep, <1>1, PTL DEF Spec

-----------------------------------------------------------------------------
(* What the indexers mean *)

Begun == result \notin {"asked", "InvalidIndex"}

(* SliceIterator::new walks over the indexers the caller gave or the        *)
(* binding made.                                                            *)
IndexRight ==
    Begun =>
        IF request.python
        THEN /\ Len(index) = Len(Zipped)
             /\ \A d \in 1 .. Len(index) :
                   /\ Convertible(request.items[d], view.shape[d])
                   /\ index[d] = ToIndexer(request.items[d], view.shape[d])
        ELSE index = request.items

LEMMA IndexInit == Init => IndexRight
BY DEF Init, IndexRight, Begun

LEMMA IndexStep == TypeInv /\ IndexRight /\ [Next]_vars => IndexRight'
<1> SUFFICES ASSUME TypeInv, IndexRight, [Next]_vars PROVE IndexRight'
  OBVIOUS
<1>v. /\ view' = view /\ request' = request /\ Zipped' = Zipped
      /\ view \in Views /\ Rank \in Nat
  <2>1. view' = view /\ request' = request
    BY Fixed
  <2>2. QED
    BY <2>1, ViewFacts DEF TypeInv, ViewOK, Rank, Zipped
<1>1. CASE RustSlice
  BY <1>v, <1>1 DEF RustSlice, IndexRight, Begun
<1>2. CASE PythonSlice
  <2>1. request.items \in Seq(Items) /\ request.python
    BY <1>2, SliceAssumption DEF TypeInv, ViewOK, PythonSlice
  <2>2. /\ DOMAIN Zipped = 1 .. Len(Zipped) /\ Len(Zipped) \in Nat
        /\ \A d \in DOMAIN Zipped : Zipped[d] = request.items[d]
    BY <1>v, <2>1, ZipEnds
  <2>3. /\ \A d \in DOMAIN Zipped : Convertible(Zipped[d], view.shape[d])
        /\ index' = [d \in DOMAIN Zipped |-> ToIndexer(Zipped[d], view.shape[d])]
        /\ result' = "slicing"
    BY <1>2 DEF PythonSlice
  <2>4. Len(index') = Len(Zipped)
    BY <2>2, <2>3
  <2>5. \A d \in 1 .. Len(index') :
           /\ Convertible(request.items[d], view.shape[d])
           /\ index'[d] = ToIndexer(request.items[d], view.shape[d])
    BY <2>2, <2>3, <2>4
  <2>6. QED
    BY <1>v, <2>1, <2>4, <2>5 DEF IndexRight
<1>3. CASE PythonRefused
  BY <1>3 DEF PythonRefused, Answer, IndexRight, Begun
<1>4. CASE ~(RustSlice \/ PythonSlice \/ PythonRefused)
  <2>1. index' = index /\ (Begun' => Begun)
    BY <1>4 DEF Next, vars, Begun, TooMany, Widen, Overflows, OutOfRange, Reversed, Walking, Converts,
           InBounds, Subtracts, Whole, FirstCut, Repeat, Misaligned, Finish, NextChunk, Turn, Answer
  <2>2. QED
    BY <1>v, <2>1 DEF IndexRight
<1>5. QED
  BY <1>1, <1>2, <1>3, <1>4

(* The indices an indexer takes on a dimension of size n *)
Taken(ix, n) == {i \in 0 .. (n - 1) : Begin(ix) <= i /\ i < End(ix, n)}

LEMMA RustMeaning ==
    ASSUME NEW ix \in Indexers, NEW n \in Nat, ~PastLimit(ix)
    PROVE  {i \in 0 .. (n - 1) :
              /\ ix.lo.kind = "Included" => i >= ix.lo.at
              /\ ix.lo.kind = "Excluded" => i > ix.lo.at
              /\ ix.hi.kind = "Included" => i <= ix.hi.at
              /\ ix.hi.kind = "Excluded" => i < ix.hi.at} = Taken(ix, n)
<1> DEFINE a == ix.lo.at
           b == ix.hi.at
<1>1. /\ ix.lo \in Bounds /\ ix.hi \in Bounds
  BY DEF Indexers
<1>2. /\ ix.lo.kind \in {"Unbounded", "Included", "Excluded"} /\ a \in Nat
      /\ ix.hi.kind \in {"Unbounded", "Included", "Excluded"} /\ b \in Nat
      /\ a \in 0 .. (Limit - 1) /\ b \in 0 .. (Limit - 1)
      /\ ix.lo.kind = "Excluded" => a # Limit - 1
      /\ ix.hi.kind = "Included" => b # Limit - 1
  BY <1>1, AddOne DEF Bounds, PastLimit
<1>3. ASSUME NEW i \in 0 .. (n - 1)
      PROVE  (/\ ix.lo.kind = "Included" => i >= a
              /\ ix.lo.kind = "Excluded" => i > a) <=> Begin(ix) <= i
  <2>1. CASE ix.lo.kind = "Unbounded"
    <3>1. Begin(ix) = 0
      BY <2>1 DEF Begin
    <3>2. QED
      BY <2>1, <3>1
  <2>2. CASE ix.lo.kind = "Included"
    <3>1. Begin(ix) = a
      BY <2>2 DEF Begin
    <3> HIDE DEF a
    <3>2. QED
      BY <1>2, <2>2, <3>1
  <2>3. CASE ix.lo.kind = "Excluded"
    <3>1. Begin(ix) = a + 1
      BY <1>2, <2>3, AddOne DEF Begin
    <3> HIDE DEF a
    <3>2. QED
      BY <1>2, <2>3, <3>1
  <2>4. QED
    BY <1>2, <2>1, <2>2, <2>3
<1>4. ASSUME NEW i \in 0 .. (n - 1)
      PROVE  (/\ ix.hi.kind = "Included" => i <= b
              /\ ix.hi.kind = "Excluded" => i < b) <=> i < End(ix, n)
  <2>1. CASE ix.hi.kind = "Unbounded"
    <3>1. End(ix, n) = n
      BY <2>1 DEF End
    <3>2. QED
      BY <2>1, <3>1
  <2>2. CASE ix.hi.kind = "Included"
    <3>1. End(ix, n) = b + 1
      BY <1>2, <2>2, AddOne DEF End
    <3> HIDE DEF b
    <3>2. QED
      BY <1>2, <2>2, <3>1
  <2>3. CASE ix.hi.kind = "Excluded"
    <3>1. End(ix, n) = b
      BY <2>3 DEF End
    <3> HIDE DEF b
    <3>2. QED
      BY <1>2, <2>3, <3>1
  <2>4. QED
    BY <1>2, <2>1, <2>2, <2>3
<1>5. QED
  BY <1>3, <1>4 DEF Taken

(* What Python takes of a dimension of size n *)
LEMMA IntMeaning ==
    ASSUME NEW n \in Nat, n < Limit, NEW it \in Items, it.int, it.start # None,
           it.start < Limit - 1, Convertible(it, n)
    PROVE  /\ ToIndexer(it, n).select /\ ~PastLimit(ToIndexer(it, n))
           /\ {IF it.start < 0 THEN n + it.start ELSE it.start} \cap 0 .. (n - 1)
                = Taken(ToIndexer(it, n), n)
           /\ End(ToIndexer(it, n), n) = Begin(ToIndexer(it, n)) + 1
<1> DEFINE m == IF it.start < 0 THEN n + it.start ELSE it.start
<1>1. it.start \in Int /\ n + it.start >= 0
  BY DEF Items, Convertible
<1>2. m \in Nat /\ m \in 0 .. (Limit - 1) /\ m # Limit - 1
  BY <1>1, SliceAssumption
<1>3. ToIndexer(it, n) = Select(m)
  BY DEF ToIndexer
<1> HIDE DEF m
<1>4. /\ Begin(Select(m)) = m /\ End(Select(m), n) = m + 1 /\ Select(m).select
      /\ ~PastLimit(Select(m))
  BY <1>2, AddOne DEF Select, Included, Begin, End, PastLimit
<1>5. {m} \cap 0 .. (n - 1) = Taken(Select(m), n)
  <2>1. \A i \in 0 .. (n - 1) : i = m <=> m <= i /\ i < m + 1
    BY <1>2
  <2>2. QED
    BY <1>4, <2>1 DEF Taken
<1>6. QED
  BY <1>3, <1>4, <1>5 DEF m

LEMMA SliceMeaning ==
    ASSUME NEW n \in Nat, NEW it \in Items, ~it.int, Convertible(it, n)
    PROVE  /\ ~ToIndexer(it, n).select /\ ~PastLimit(ToIndexer(it, n))
           /\ Begin(ToIndexer(it, n)) = IF it.start = None THEN 0 ELSE it.start
           /\ End(ToIndexer(it, n), n) = IF it.stop = None THEN n ELSE it.stop
           /\ it.start # None => it.start \in Nat
           /\ it.stop # None => it.stop \in Nat
<1> DEFINE a == it.start
           b == it.stop
           lo == IF a = None THEN Unbounded ELSE Included(a)
           hi == IF b = None THEN Unbounded ELSE Excluded(b)
<1>1. (a # None => a \in Nat) /\ (b # None => b \in Nat)
  BY DEF Items, Convertible
<1>2. ToIndexer(it, n) = Narrow(lo, hi)
  BY DEF ToIndexer
<1>3. /\ lo.kind = IF a = None THEN "Unbounded" ELSE "Included"
      /\ a # None => lo.at = a
      /\ hi.kind = IF b = None THEN "Unbounded" ELSE "Excluded"
      /\ b # None => hi.at = b
  <2> HIDE DEF a, b
  <2>1. QED
    BY DEF Unbounded, Included, Excluded
<1> HIDE DEF lo, hi
<1> DEFINE ix == Narrow(lo, hi)
<1>4. ~ix.select /\ ix.lo = lo /\ ix.hi = hi
  BY DEF Narrow
<1> HIDE DEF ix
<1>5. Begin(ix) = IF a = None THEN 0 ELSE a
  BY <1>3, <1>4 DEF Begin
<1>6. End(ix, n) = IF b = None THEN n ELSE b
  BY <1>3, <1>4 DEF End
<1>p. ~PastLimit(ix)
  BY <1>3, <1>4 DEF PastLimit
<1>7. QED
  BY <1>1, <1>2, <1>4, <1>5, <1>6, <1>p DEF ix

(* The items of the request behind the indexers *)
LEMMA ItemFacts ==
    ASSUME TypeInv, IndexRight, Begun
    PROVE  /\ Len(request.items) \in Nat /\ DOMAIN request.items = 1 .. Len(request.items)
           /\ Rank \in Nat /\ Len(index) \in Nat
           /\ Len(index) <= Len(request.items)
           /\ Len(index) < Rank => Len(request.items) = Len(index)
           /\ Len(request.items) <= Rank => Len(request.items) = Len(index)
           /\ request.python => Len(index) <= Rank
           /\ \A d \in DOMAIN request.items :
                 IF request.python
                 THEN /\ request.items[d] \in Items
                      /\ request.items[d].int =>
                            request.items[d].start # None /\ request.items[d].start < Limit - 1
                 ELSE /\ request.items[d] \in Indexers
                      /\ request.items[d].select => request.items[d] = Select(request.items[d].lo.at)
<1>1. Rank \in Nat /\ request \in Requests /\ Len(index) \in Nat
  BY ViewFacts DEF TypeInv, ViewOK, Rank
<1>2. CASE request.python
  <2>1. /\ request.items \in Seq(Items)
        /\ \A d \in DOMAIN request.items :
              request.items[d].int => request.items[d].start # None /\ request.items[d].start < Limit - 1
    BY <1>1, <1>2, SliceAssumption
  <2>2. /\ Len(Zipped) = IF Len(request.items) <= Rank THEN Len(request.items) ELSE Rank
        /\ Len(index) = Len(Zipped)
    BY <1>1, <1>2, <2>1, ZipEnds DEF IndexRight
  <2> DEFINE s == request.items
  <2>3. /\ Len(s) \in Nat /\ DOMAIN s = 1 .. Len(s) /\ \A d \in DOMAIN s : s[d] \in Items
    BY <2>1
  <2> DEFINE l == Len(s)
             m == Len(index)
             r == Rank
  <2>4. m = (IF l <= r THEN l ELSE r) /\ l \in Nat /\ r \in Nat
    BY <1>1, <2>2, <2>3
  <2> HIDE DEF s, l, m, r
  <2>5. m <= l /\ (m < r => l = m) /\ (l <= r => l = m) /\ m <= r
    BY <2>4
  <2>6. QED
    BY <1>1, <1>2, <2>1, <2>3, <2>5 DEF l, m, r, s
<1>3. CASE ~request.python
  <2>1. /\ request.items \in Seq(Indexers)
        /\ \A d \in DOMAIN request.items :
              request.items[d].select => request.items[d] = Select(request.items[d].lo.at)
    BY <1>1, <1>3, SliceAssumption
  <2>2. index = request.items
    BY <1>3 DEF IndexRight
  <2> DEFINE s == request.items
  <2>3. /\ Len(s) \in Nat /\ DOMAIN s = 1 .. Len(s) /\ \A d \in DOMAIN s : s[d] \in Indexers
    BY <2>1
  <2> HIDE DEF s
  <2>4. QED
    BY <1>1, <1>3, <2>1, <2>2, <2>3 DEF s
<1>4. QED
  BY <1>2, <1>3

(* A dimension without an indexer is asked for as a whole, *)
LEMMA Unindexed ==
    ASSUME TypeInv, IndexRight, Begun, NEW d \in 1 .. Rank, Len(index) < d
    PROVE  Chosen(d) = 0 .. (view.shape[d] - 1) /\ ~Dropped(d)
<1>1. Len(request.items) = Len(index) /\ Len(index) \in Nat /\ d \in Nat
  BY ItemFacts
<1>2. ~Asked(d)
  BY <1>1 DEF Asked
<1>3. QED
  BY <1>2 DEF Chosen, Dropped

(* the indexers of a Python request never meet the end of usize,            *)
LEMMA PythonBelowLimit ==
    ASSUME TypeInv, IndexRight, Begun, request.python, NEW d \in 1 .. Rank, d <= Len(index)
    PROVE  ~PastLimit(index[d])
<1> DEFINE it == request.items[d]
           n == view.shape[d]
<1>1. d \in DOMAIN request.items /\ d \in 1 .. Len(index)
  BY ItemFacts
<1>2. n \in Nat /\ n < Limit
  BY ViewFacts DEF TypeInv, ViewOK, Rank
<1>3. /\ index[d] = ToIndexer(it, n) /\ Convertible(it, n)
      /\ it \in Items /\ (it.int => it.start # None /\ it.start < Limit - 1)
  BY <1>1, ItemFacts DEF IndexRight
<1> HIDE DEF it, n
<1>4. QED
  BY <1>2, <1>3, IntMeaning, SliceMeaning

(* and a dimension with an indexer is asked for what the indexer takes.     *)
LEMMA Indexed ==
    ASSUME TypeInv, IndexRight, Begun, NEW d \in 1 .. Rank, d <= Len(index),
           ~PastLimit(index[d])
    PROVE  /\ Chosen(d) \subseteq Taken(index[d], view.shape[d])
           /\ WithinPython => Chosen(d) = Taken(index[d], view.shape[d])
           /\ Dropped(d) <=> index[d].select
           /\ index[d].select => End(index[d], view.shape[d]) = Begin(index[d]) + 1
<1> DEFINE it == request.items[d]
           n == view.shape[d]
<1>1. d \in DOMAIN request.items /\ Asked(d) /\ d \in 1 .. Len(index)
  BY ItemFacts DEF Asked
<1>2. n \in Nat /\ n < Limit
  BY ViewFacts DEF TypeInv, ViewOK, Rank
<1>3. CASE ~request.python
  <2>1. index[d] = it /\ it \in Indexers /\ (it.select => it = Select(it.lo.at))
    BY <1>1, <1>3, ItemFacts DEF IndexRight
  <2>2. Chosen(d) = RustChosen(d) /\ (Dropped(d) <=> it.select)
    BY <1>1, <1>3 DEF Chosen, Dropped
  <2>3. RustChosen(d) = Taken(it, n)
    BY <1>2, <2>1, RustMeaning DEF RustChosen
  <2>4. ASSUME it.select PROVE End(it, n) = Begin(it) + 1
    <3> DEFINE m == it.lo.at
    <3>1. it.lo \in Bounds /\ it = Select(m) /\ ~PastLimit(it)
      BY <2>1, <2>4 DEF Indexers
    <3>2. m \in 0 .. (Limit - 1)
      BY <3>1 DEF Bounds
    <3> HIDE DEF m, it, n
    <3>3. m # Limit - 1
      BY <3>1 DEF PastLimit, Select, Included
    <3>4. End(Select(m), n) = m + 1 /\ Begin(Select(m)) = m
      BY <3>2, <3>3, AddOne DEF Select, Included, Begin, End
    <3>5. QED
      BY <3>1, <3>4
  <2>6. QED
    BY <2>1, <2>2, <2>3, <2>4
<1>4. CASE request.python
  <2>1. /\ index[d] = ToIndexer(it, n) /\ Convertible(it, n)
        /\ it \in Items /\ (it.int => it.start # None /\ it.start < Limit - 1)
    BY <1>1, <1>4, ItemFacts DEF IndexRight
  <2>2. Chosen(d) = PythonChosen(d) /\ (Dropped(d) <=> it.int) /\ it.int \in BOOLEAN
    BY <1>1, <1>4, <2>1 DEF Chosen, Dropped, Items
  <2>3. CASE it.int
    <3>1. PythonChosen(d) = {IF it.start < 0 THEN n + it.start ELSE it.start} \cap 0 .. (n - 1)
      BY <2>3 DEF PythonChosen
    <3> HIDE DEF it, n
    <3>2. /\ ToIndexer(it, n).select
          /\ {IF it.start < 0 THEN n + it.start ELSE it.start} \cap 0 .. (n - 1)
                = Taken(ToIndexer(it, n), n)
          /\ End(ToIndexer(it, n), n) = Begin(ToIndexer(it, n)) + 1
      BY <1>2, <2>1, <2>3, IntMeaning
    <3>3. QED
      BY <2>1, <2>2, <2>3, <3>1, <3>2 DEF it, n
  <2>4. CASE ~it.int
    <3> DEFINE f == IF it.start = None THEN 0 ELSE it.start
               t == IF it.stop = None THEN n ELSE it.stop
               step == IF it.step = None THEN 1 ELSE it.step
    <3>1. /\ ~ToIndexer(it, n).select
          /\ Begin(ToIndexer(it, n)) = f
          /\ End(ToIndexer(it, n), n) = t
          /\ it.start # None => it.start \in Nat
          /\ it.stop # None => it.stop \in Nat
      <4> HIDE DEF it, n
      <4>1. QED
        BY <1>2, <2>1, <2>4, SliceMeaning
    <3>2. f \in Nat /\ t \in Nat
      BY <1>2, <3>1
    <3>3. PythonChosen(d) = {i \in 0 .. (n - 1) : i >= f /\ i < t /\ (i - f) % step = 0}
      <4> DEFINE Clip(x, default) == IF x = None THEN default
                                     ELSE IF x < 0 THEN Max({0, n + x}) ELSE x
      <4>1. Clip(it.start, 0) = f /\ Clip(it.stop, n) = t
        BY <3>1
      <4>2. PythonChosen(d) = {i \in 0 .. (n - 1) : i >= Clip(it.start, 0) /\ i < Clip(it.stop, n)
                                                   /\ (i - Clip(it.start, 0)) % step = 0}
        BY <2>4, Zenon DEF PythonChosen
      <4> HIDE DEF Clip, f, t, step, it, n
      <4>3. QED
        BY <4>1, <4>2
    <3>4. Taken(ToIndexer(it, n), n) = {i \in 0 .. (n - 1) : f <= i /\ i < t}
      BY <3>1 DEF Taken
    <3>5. PythonChosen(d) \subseteq Taken(ToIndexer(it, n), n)
      <4> HIDE DEF f, t, step, it, n
      <4>1. QED
        BY <1>2, <3>2, <3>3, <3>4
    <3>6. ASSUME WithinPython PROVE PythonChosen(d) = Taken(ToIndexer(it, n), n)
      <4>1. step = 1
        BY <1>1, <1>4, <3>6 DEF WithinPython
      <4>2. ASSUME NEW i \in 0 .. (n - 1) PROVE (i - f) % 1 = 0
        <5> DEFINE x == i - f
        <5>1. x \in Int
          BY <1>2, <3>2
        <5> HIDE DEF x
        <5>2. x % 1 = 0
          BY <5>1, Z3
        <5>3. QED
          BY <5>2 DEF x
      <4> HIDE DEF f, t, step, it, n
      <4>3. QED
        BY <1>2, <3>2, <3>3, <3>4, <4>1, <4>2
    <3> HIDE DEF f, t, step, it, n
    <3>7. QED
      BY <2>1, <2>2, <2>4, <3>1, <3>5, <3>6 DEF it, n
  <2>5. QED
    BY <2>2, <2>3, <2>4
<1>5. QED
  BY <1>3, <1>4

LEMMA TakenRange ==
    ASSUME NEW ix \in Indexers, NEW n \in Nat, End(ix, n) <= n
    PROVE  Taken(ix, n) = Begin(ix) .. (End(ix, n) - 1)
<1> DEFINE f == Begin(ix)
           t == End(ix, n)
<1>1. f \in Nat /\ t \in Nat /\ t <= n
  BY BeginEnd
<1>2. Taken(ix, n) = {i \in 0 .. (n - 1) : f <= i /\ i < t}
  BY DEF Taken
<1> HIDE DEF f, t
<1>3. {i \in 0 .. (n - 1) : f <= i /\ i < t} = f .. (t - 1)
  BY <1>1
<1>4. QED
  BY <1>2, <1>3 DEF f, t

-----------------------------------------------------------------------------
(* Arithmetic *)

LEMMA DivMod ==
    ASSUME NEW x \in Nat, NEW m \in Nat, m > 0
    PROVE  /\ x \div m \in Nat /\ x % m \in 0 .. (m - 1)
           /\ x = m * (x \div m) + (x % m)
<1>1. m \in Nat \ {0}
  OBVIOUS
<1>2. x = m * (x \div m) + (x % m) /\ x % m \in 0 .. (m - 1)
  BY <1>1, Z3
<1>3. x \div m \in Nat
  BY <1>1, Z3
<1>4. QED
  BY <1>2, <1>3

(* Quotient and remainder are unique. *)
LEMMA DivUnique ==
    ASSUME NEW m \in Nat, m > 0, NEW q \in Nat, NEW r \in 0 .. (m - 1)
    PROVE  (m * q + r) \div m = q /\ (m * q + r) % m = r
<1> DEFINE x == m * q + r
           p == x \div m
           s == x % m
<1>1. x \in Nat
  <2>1. m * q \in Nat
    OBVIOUS
  <2>2. QED
    BY <2>1
<1>x. x = m * q + r
  OBVIOUS
<1> HIDE DEF x
<1>2. p \in Nat /\ s \in 0 .. (m - 1) /\ x = m * p + s
  BY <1>1, DivMod
<1> HIDE DEF p, s
<1>3. m * q + r = m * p + s
  BY <1>x, <1>2
<1>4. p = q
  <2>1. CASE p < q
    <3>1. PICK e \in Nat : q = p + 1 + e
      <4>1. q - p - 1 \in Nat /\ q = p + 1 + (q - p - 1)
        BY <1>2, <2>1
      <4>2. QED
        BY <4>1
    <3>2. m * q = m * p + m + m * e /\ m * e \in Nat /\ m * p \in Nat
      BY <1>2, <3>1
    <3>3. QED
      BY <1>2, <1>3, <3>2
  <2>2. CASE q < p
    <3>1. PICK e \in Nat : p = q + 1 + e
      <4>1. p - q - 1 \in Nat /\ p = q + 1 + (p - q - 1)
        BY <1>2, <2>2
      <4>2. QED
        BY <4>1
    <3>2. m * p = m * q + m + m * e /\ m * e \in Nat /\ m * q \in Nat
      BY <1>2, <3>1
    <3>3. QED
      BY <1>2, <1>3, <3>2
  <2>3. QED
    BY <1>2, <2>1, <2>2
<1>5. s = r
  <2>1. m * p \in Nat
    BY <1>2
  <2>2. QED
    BY <1>2, <1>3, <1>4, <2>1
<1>6. QED
  BY <1>4, <1>5 DEF p, s, x

LEMMA WholeBytes ==
    ASSUME NEW a \in Nat, NEW s \in Nat, s % 8 = 0
    PROVE  (a * s) % 8 = 0
<1> DEFINE q == s \div 8
<1>1. q \in Nat /\ s = 8 * q
  BY DivMod
<1> HIDE DEF q
<1> DEFINE x == a * q
<1>2. x \in Nat /\ a * s = 8 * x
  BY <1>1
<1> HIDE DEF x
<1>3. (8 * x + 0) % 8 = 0
  BY <1>2, DivUnique
<1>4. QED
  BY <1>2, <1>3

(* Counting rows of length l: the j-th of row a is number a * l + j.        *)
LEMMA RowOf ==
    ASSUME NEW l \in Nat, l > 0, NEW c \in Nat, NEW k \in 1 .. (c * l)
    PROVE  \E a \in 0 .. (c - 1), j \in 1 .. l :
              a = (k - 1) \div l /\ j = ((k - 1) % l) + 1 /\ k = a * l + j
<1> DEFINE x == k - 1
           a == x \div l
           b == x % l
           p == c * l
<1>1. p \in Nat
  OBVIOUS
<1>2. x \in Nat /\ x < p /\ k = x + 1
  <2> HIDE DEF p
  <2>1. k \in 1 .. p
    BY DEF p
  <2>2. QED
    BY <1>1, <2>1
<1> HIDE DEF x
<1>3. a \in Nat /\ b \in 0 .. (l - 1) /\ x = l * a + b
  BY <1>2, DivMod
<1> HIDE DEF a, b
<1>4. a < c
  <2>1. SUFFICES ASSUME a >= c PROVE FALSE
    BY <1>3
  <2>2. PICK e \in Nat : a = c + e
    <3>1. a - c \in Nat /\ a = c + (a - c)
      BY <1>3, <2>1
    <3>2. QED
      BY <3>1
  <2>3. l * a = p + l * e /\ l * e \in Nat
    BY <2>2
  <2> HIDE DEF p
  <2>4. QED
    BY <1>1, <1>2, <1>3, <2>3
<1>5. l * a = a * l /\ a * l \in Nat
  BY <1>3
<1>6. a \in 0 .. (c - 1) /\ b + 1 \in 1 .. l /\ k = a * l + (b + 1)
  BY <1>2, <1>3, <1>4, <1>5
<1>7. a = (k - 1) \div l /\ b + 1 = ((k - 1) % l) + 1
  BY DEF a, b, x
<1>8. QED
  BY <1>6, <1>7

LEMMA RowAt ==
    ASSUME NEW l \in Nat, l > 0, NEW c \in Nat, NEW a \in 0 .. (c - 1), NEW j \in 1 .. l
    PROVE  /\ a * l + j \in 1 .. (c * l)
           /\ ((a * l + j) - 1) \div l = a /\ (((a * l + j) - 1) % l) + 1 = j
<1> DEFINE r == j - 1
<1>1. r \in 0 .. (l - 1) /\ j = r + 1 /\ a \in Nat
  OBVIOUS
<1> HIDE DEF r
<1>2. (l * a + r) \div l = a /\ (l * a + r) % l = r
  BY <1>1, DivUnique
<1>3. (a * l + j) - 1 = l * a + r
  <2>1. a * l = l * a /\ a * l \in Nat
    BY <1>1
  <2>2. QED
    BY <1>1, <2>1
<1>4. a * l + j \in 1 .. (c * l)
  <2>1. PICK e \in Nat : c = a + 1 + e
    <3>1. c - a - 1 \in Nat /\ c = a + 1 + (c - a - 1)
      BY <1>1
    <3>2. QED
      BY <3>1
  <2>2. c * l = a * l + l + e * l /\ e * l \in Nat /\ a * l \in Nat
    BY <1>1, <2>1
  <2> DEFINE x == a * l
             y == e * l
             p == c * l
  <2>3. p = x + l + y /\ x \in Nat /\ y \in Nat
    BY <2>2
  <2> HIDE DEF x, y, p
  <2>4. x + j \in 1 .. p
    BY <2>3
  <2>5. QED
    BY <2>4 DEF x, p
<1>5. QED
  BY <1>1, <1>2, <1>3, <1>4

-----------------------------------------------------------------------------
(* The ranges of Repeated *)

Moved(c, n) == <<c[1] + (n * span) \div 8, c[2] + (n * span) \div 8>>

LEMMA RepeatedAt ==
    ASSUME from \in Nat, to \in Nat, from <= to, span \in Nat,
           indices \in Seq(Nat \X Nat), indices # <<>>
    PROVE  /\ \A k \in 1 .. Len(Repeated) :
                 \E n \in from .. (to - 1), j \in 1 .. Len(indices) :
                    k = (n - from) * Len(indices) + j /\ Repeated[k] = Moved(indices[j], n)
           /\ \A n \in from .. (to - 1), j \in 1 .. Len(indices) :
                 /\ (n - from) * Len(indices) + j \in 1 .. Len(Repeated)
                 /\ Repeated[(n - from) * Len(indices) + j] = Moved(indices[j], n)
<1> DEFINE l == Len(indices)
           c == to - from
           r == Repeated
<1>1. l \in Nat /\ l > 0 /\ c \in Nat /\ Len(r) = c * l
  BY RepeatedType
<1>2. ASSUME NEW k \in 1 .. (c * l)
      PROVE  r[k] = Moved(indices[((k - 1) % l) + 1], from + ((k - 1) \div l))
  BY DEF Repeated, Moved
<1> HIDE DEF r, l, c
<1>3. ASSUME NEW k \in 1 .. Len(r)
      PROVE  \E n \in from .. (to - 1), j \in 1 .. l :
                k = (n - from) * l + j /\ r[k] = Moved(indices[j], n)
  <2>1. k \in 1 .. (c * l)
    BY <1>1
  <2>2. PICK a \in 0 .. (c - 1), j \in 1 .. l :
            a = (k - 1) \div l /\ j = ((k - 1) % l) + 1 /\ k = a * l + j
    BY <1>1, <2>1, RowOf
  <2> DEFINE n == from + a
  <2>3. r[k] = Moved(indices[j], n)
    BY <1>2, <2>1, <2>2
  <2>4. n \in from .. (to - 1) /\ n - from = a
    <3>1. a \in Nat /\ a < c /\ c = to - from
      BY <1>1, <2>2 DEF c
    <3> HIDE DEF c
    <3>2. QED
      BY <3>1
  <2>5. k = (n - from) * l + j
    BY <2>2, <2>4
  <2> HIDE DEF n
  <2>6. QED
    BY <2>2, <2>3, <2>4, <2>5
<1>4. ASSUME NEW n \in from .. (to - 1), NEW j \in 1 .. l
      PROVE  (n - from) * l + j \in 1 .. Len(r) /\ r[(n - from) * l + j] = Moved(indices[j], n)
  <2> DEFINE a == n - from
  <2>1. a \in 0 .. (c - 1) /\ from + a = n
    BY DEF c
  <2> HIDE DEF a
  <2>r. /\ a * l + j \in 1 .. (c * l)
        /\ ((a * l + j) - 1) \div l = a /\ (((a * l + j) - 1) % l) + 1 = j
    BY <1>1, <2>1, RowAt, Zenon
  <2>k. PICK k : k = a * l + j
    OBVIOUS
  <2>2. k \in 1 .. (c * l) /\ (k - 1) \div l = a /\ ((k - 1) % l) + 1 = j
    BY <2>k, <2>r
  <2>3. k \in 1 .. Len(r) /\ r[k] = Moved(indices[j], n)
    BY <1>1, <1>2, <2>1, <2>2
  <2>4. QED
    BY <2>3, <2>k DEF a
<1>5. QED
  BY <1>3, <1>4 DEF r, l

-----------------------------------------------------------------------------
(* Elements of whole bytes *)

(* The requests WholeBytesServed speaks of *)
Servable ==
    /\ view.bits % 8 = 0
    /\ Len(request.items) <= Rank
    /\ \A d \in 1 .. Rank : Chosen(d) # {}
    /\ \A d \in DOMAIN request.items :
           LET it == request.items[d]
           IN  IF request.python
               THEN ~it.int => {it.start, it.stop} \ {None} \subseteq 0 .. view.shape[d]
               ELSE /\ it.hi.kind = "Included" => it.hi.at < view.shape[d]
                    /\ it.hi.kind = "Excluded" => it.hi.at <= view.shape[d]

Forward(s) == \A k \in 1 .. Len(s) : s[k][1] <= s[k][2]

ServedInv ==
    Servable =>
        /\ result \in {"asked", "slicing", "ok"}
        /\ span % 8 = 0
        /\ Forward(indices)

(* Such a request stays away from the end of usize.                         *)
LEMMA ServableBelowLimit ==
    ASSUME TypeInv, IndexRight, Begun, Servable, NEW d \in 1 .. Rank, d <= Len(index)
    PROVE  ~PastLimit(index[d])
<1>1. CASE request.python
  BY <1>1, PythonBelowLimit
<1>2. CASE ~request.python
  <2> DEFINE ix == request.items[d]
             n == view.shape[d]
  <2>1. d \in DOMAIN request.items /\ index[d] = ix /\ ix \in Indexers
    BY <1>2, ItemFacts DEF IndexRight
  <2>2. n \in Nat /\ n < Limit /\ Limit \in Nat
    BY ViewFacts, SliceAssumption DEF TypeInv, ViewOK, Rank
  <2>3. ix.lo.at \in Nat /\ ix.hi.at \in Nat
    <3>1. ix.lo \in Bounds /\ ix.hi \in Bounds
      BY <2>1 DEF Indexers
    <3>2. QED
      BY <3>1, AddOne DEF Bounds
  <2>4. ix.hi.kind = "Included" => ix.hi.at < n
    BY <1>2, <2>1 DEF Servable
  <2>5. PICK i \in 0 .. (n - 1) : ix.lo.kind = "Excluded" => i > ix.lo.at
    BY <1>2, <2>1, ItemFacts DEF Servable, Chosen, RustChosen, Asked
  <2> HIDE DEF ix, n
  <2>6. ~PastLimit(ix)
    BY <2>2, <2>3, <2>4, <2>5 DEF PastLimit
  <2>7. QED
    BY <2>1, <2>6
<1>3. QED
  BY <1>1, <1>2

(* Every indexer of such a request is in range and takes something.         *)
LEMMA ServableIndex ==
    ASSUME TypeInv, IndexRight, Begun, Servable, NEW d \in 1 .. Rank, d <= Len(index)
    PROVE  /\ Begin(index[d]) < view.shape[d]
           /\ Begin(index[d]) < End(index[d], view.shape[d])
           /\ End(index[d], view.shape[d]) <= view.shape[d]
<1> DEFINE it == request.items[d]
           n == view.shape[d]
           f == Begin(index[d])
           t == End(index[d], n)
<1>1. n \in Nat /\ n < Limit /\ d \in 1 .. Len(index) /\ index[d] \in Indexers
  <2>1. n \in Nat /\ n < Limit
    BY ViewFacts DEF TypeInv, ViewOK, Rank
  <2>2. index \in Seq(Indexers) /\ d \in 1 .. Len(index)
    BY ItemFacts DEF TypeInv
  <2>3. QED
    BY <2>1, <2>2
<1>2. f \in Nat /\ t \in Nat
  BY <1>1, BeginEnd
<1>3. PICK i \in 0 .. (n - 1) : f <= i /\ i < t
  BY ServableBelowLimit, Indexed DEF Servable, Taken
<1>4. f < n /\ f < t
  <2> HIDE DEF f, t, n
  <2>1. QED
    BY <1>1, <1>2, <1>3
<1>5. t <= n
  <2>1. d \in DOMAIN request.items
    BY ItemFacts
  <2>2. CASE ~request.python
    <3> DEFINE ix == index[d]
    <3>1. /\ ix.hi.kind = "Included" => ix.hi.at < n
          /\ ix.hi.kind = "Excluded" => ix.hi.at <= n
      BY <2>1, <2>2 DEF Servable, IndexRight
    <3>2. ix.hi \in Bounds /\ ~PastLimit(ix)
      BY <1>1, ServableBelowLimit DEF Indexers
    <3> HIDE DEF ix, n
    <3>3. /\ ix.hi.kind \in {"Unbounded", "Included", "Excluded"}
          /\ ix.hi.at \in 0 .. (Limit - 1)
          /\ ix.hi.kind = "Included" => ix.hi.at # Limit - 1
      BY <3>2 DEF Bounds, PastLimit
    <3>4. End(ix, n) <= n
      BY <1>1, <3>1, <3>3, AddOne DEF End
    <3>5. QED
      BY <3>4 DEF ix
  <2>3. CASE request.python
    <3>1. index[d] = ToIndexer(it, n) /\ Convertible(it, n) /\ it \in Items
          /\ (it.int => it.start # None /\ it.start < Limit - 1)
      BY <1>1, <2>1, <2>3, ItemFacts DEF IndexRight
    <3>2. CASE it.int
      <4> HIDE DEF it, n
      <4>1. End(ToIndexer(it, n), n) = Begin(ToIndexer(it, n)) + 1
        BY <1>1, <3>1, <3>2, IntMeaning
      <4>2. t = f + 1
        BY <3>1, <4>1
      <4> HIDE DEF f, t
      <4>3. QED
        BY <1>1, <1>2, <1>4, <4>2
    <3>3. CASE ~it.int
      <4>1. it.stop # None => it.stop \in 0 .. n
        BY <2>1, <2>3, <3>3 DEF Servable
      <4> HIDE DEF it, n
      <4>2. End(ToIndexer(it, n), n) = IF it.stop = None THEN n ELSE it.stop
        BY <1>1, <3>1, <3>3, SliceMeaning
      <4>3. QED
        BY <1>1, <3>1, <4>1, <4>2
    <3>4. QED
      BY <3>2, <3>3
  <2>4. QED
    BY <2>2, <2>3
<1>6. QED
  BY <1>4, <1>5

(* The same of the dimension under the walk *)
LEMMA ServableWalk ==
    ASSUME TypeInv, IndexRight, Walking, Servable, dim <= Len(index)
    PROVE  ~OutOfBounds /\ from < to /\ from \in Nat /\ to \in Nat
<1>1. dim \in 1 .. Rank /\ extent \in Nat /\ from \in Nat /\ to \in Nat /\ Begun
  BY WalkTypes DEF Walking, Begun
<1>2. from < extent /\ from < to /\ to <= extent
  BY <1>1, ServableIndex DEF from, to, extent
<1>3. QED
  BY <1>1, <1>2 DEF OutOfBounds

LEMMA FrontFacts ==
    ASSUME NEW T, NEW s \in Seq(T), s # <<>>
    PROVE  /\ Len(s) \in Nat /\ Len(s) > 0
           /\ Last(s) = s[Len(s)] /\ s[Len(s)] \in T
           /\ Front(s) \in Seq(T) /\ Len(Front(s)) = Len(s) - 1
           /\ \A k \in 1 .. (Len(s) - 1) : Front(s)[k] = s[k]
<1> DEFINE n == Len(s)
           f == SubSeq(s, 1, n - 1)
<1>1. n \in Nat /\ n > 0 /\ \A k \in 1 .. n : s[k] \in T
  OBVIOUS
<1>2. Front(s) = f /\ Last(s) = s[n]
  BY DEF Front, Last
<1> HIDE DEF n
<1>3. /\ f \in Seq(T) /\ Len(f) = IF 1 <= n - 1 THEN (n - 1) - 1 + 1 ELSE 0
      /\ \A k \in 1 .. (n - 1) - 1 + 1 : f[k] = s[1 + k - 1]
  <2>1. n - 1 \in Int /\ \A k \in 1 .. (n - 1) : s[k] \in T
    BY <1>1
  <2>2. QED
    BY <2>1, SubSeqProperties
<1> HIDE DEF f
<1>4. Len(f) = n - 1
  BY <1>1, <1>3
<1>5. ASSUME NEW k \in 1 .. (n - 1) PROVE f[k] = s[k]
  <2>1. k \in 1 .. (n - 1) - 1 + 1 /\ 1 + k - 1 = k
    BY <1>1
  <2>2. QED
    BY <1>3, <2>1
<1>6. QED
  BY <1>1, <1>2, <1>3, <1>4, <1>5 DEF n

LEMMA ReversedForward ==
    ASSUME NEW s \in Seq(Nat \X Nat), Forward(s)
    PROVE  Forward(Reverse(s))
<1> DEFINE n == Len(s)
<1>1. n \in Nat /\ Len(Reverse(s)) = n /\ \A k \in 1 .. n : Reverse(s)[k] = s[(n - k) + 1]
  BY DEF Reverse
<1> HIDE DEF n
<1>2. \A k \in 1 .. n : (n - k) + 1 \in 1 .. n
  BY <1>1
<1>3. \A k \in 1 .. n : s[k][1] <= s[k][2]
  BY DEF Forward, n
<1>4. QED
  BY <1>1, <1>2, <1>3 DEF Forward

(* Two states of one request ask for the same. *)
LEMMA SameRequest ==
    ASSUME view' = view, request' = request
    PROVE  Rank' = Rank /\ \A d : Chosen(d)' = Chosen(d) /\ (Dropped(d)' <=> Dropped(d))
<1>1. Rank' = Rank
  BY DEF Rank
<1>2. ASSUME NEW d PROVE RustChosen(d)' = RustChosen(d)
  BY Zenon DEF RustChosen
<1>3. ASSUME NEW d PROVE PythonChosen(d)' = PythonChosen(d)
  BY Zenon DEF PythonChosen
<1>4. ASSUME NEW d PROVE Asked(d)' <=> Asked(d)
  BY Zenon DEF Asked
<1>5. ASSUME NEW d PROVE Chosen(d)' = Chosen(d) /\ (Dropped(d)' <=> Dropped(d))
  BY <1>2, <1>3, <1>4, Zenon DEF Chosen, Dropped
<1>6. QED
  BY <1>1, <1>5

LEMMA ServedInit == Init => ServedInv
<1> SUFFICES ASSUME Init, Servable PROVE span % 8 = 0 /\ Forward(indices) /\ result = "asked"
  BY DEF ServedInv
<1>1. span = view.bits /\ indices = <<>> /\ result = "asked"
  BY DEF Init
<1>2. QED
  BY <1>1 DEF Servable, Forward

LEMMA ServedStep == TypeInv /\ IndexRight /\ ServedInv /\ [Next]_vars => ServedInv'
<1>v. [Next]_vars => view' = view /\ request' = request
  BY Fixed
<1>s. [Next]_vars => (Servable' <=> Servable)
  BY <1>v, SameRequest DEF Servable
<1> SUFFICES ASSUME TypeInv, IndexRight, ServedInv, [Next]_vars, Servable
             PROVE  result' \in {"asked", "slicing", "ok"} /\ span' % 8 = 0 /\ Forward(indices')
  BY <1>s DEF ServedInv
<1>i. /\ result \in {"asked", "slicing", "ok"} /\ span % 8 = 0 /\ Forward(indices)
      /\ span \in Nat /\ indices \in Seq(Nat \X Nat)
  BY DEF ServedInv, TypeInv, TypeOK
<1>t. ASSUME Walking, NEW i, NEW n, Turn(i, n), Forward(i)
      PROVE  result' \in {"asked", "slicing", "ok"} /\ span' % 8 = 0 /\ Forward(indices')
  <2>1. extent \in Nat
    BY <1>t, WalkTypes
  <2>2. (extent * span) % 8 = 0
    BY <1>i, <2>1, WholeBytes
  <2>3. span * extent = extent * span
    BY <1>i, <2>1
  <2>4. span' = span * extent /\ indices' = i /\ result' = result
    BY <1>t DEF Turn
  <2>5. QED
    BY <1>i, <1>t, <2>2, <2>3, <2>4
<1>1. CASE RustSlice
  BY <1>1, <1>i DEF RustSlice
<1>2. CASE PythonSlice
  BY <1>2, <1>i DEF PythonSlice
<1>3. CASE PythonRefused
  <2>1. PICK d \in DOMAIN Zipped : ~Convertible(Zipped[d], view.shape[d])
    BY <1>3 DEF PythonRefused
  <2> DEFINE it == request.items[d]
             n == view.shape[d]
  <2>2. request.items \in Seq(Items) /\ request.python
        /\ \A e \in DOMAIN request.items : request.items[e].int => request.items[e].start # None
    BY <1>3, SliceAssumption DEF TypeInv, ViewOK, PythonRefused
  <2>3. Rank \in Nat /\ view \in Views
    BY ViewFacts DEF TypeInv, ViewOK, Rank
  <2>4. /\ d \in DOMAIN request.items /\ d \in 1 .. Rank /\ d <= Len(request.items)
        /\ Zipped[d] = it
    BY <2>2, <2>3, ZipEnds
  <2>5. it \in Items /\ (it.int => it.start # None) /\ n \in Nat /\ n < Limit
    BY <2>2, <2>3, <2>4, ViewFacts DEF Rank
  <2>6. CASE it.int
    <3>1. PythonChosen(d) = {IF it.start < 0 THEN n + it.start ELSE it.start} \cap 0 .. (n - 1)
      BY <2>6 DEF PythonChosen
    <3>2. PythonChosen(d) # {}
      BY <2>2, <2>4 DEF Servable, Chosen, Asked
    <3>3. it.start \in Int
      BY <2>5, <2>6 DEF Items
    <3> HIDE DEF it, n
    <3>4. n + it.start >= 0
      BY <2>5, <3>1, <3>2, <3>3
    <3>5. QED
      BY <2>1, <2>4, <2>6, <3>4 DEF Convertible, n
  <2>7. CASE ~it.int
    <3>1. {it.start, it.stop} \ {None} \subseteq 0 .. n
      BY <2>2, <2>4, <2>7 DEF Servable
    <3>2. \A x \in {it.start, it.stop} \ {None} : x >= 0 /\ x < Limit
      <4> HIDE DEF it, n
      <4>1. Limit \in Nat
        BY SliceAssumption
      <4>2. QED
        BY <2>5, <3>1, <4>1
    <3>3. QED
      BY <2>1, <2>4, <2>7, <3>2 DEF Convertible
  <2>8. QED
    BY <2>6, <2>7
<1>4. CASE TooMany
  <2>1. Begun /\ Len(index) > Rank
    BY <1>4 DEF TooMany, Begun
  <2>2. Len(request.items) <= Rank /\ Len(request.items) = Len(index) /\ Rank \in Nat
    BY <2>1, ItemFacts DEF Servable
  <2>3. QED
    BY <2>1, <2>2
<1>5. CASE Widen
  BY <1>5, <1>t, <1>i DEF Widen
<1>16. CASE Overflows
  <2>1. Walking /\ dim <= Len(index) /\ PastLimit(index[dim])
    BY <1>16 DEF Overflows
  <2>2. dim \in 1 .. Rank /\ Begun
    BY <2>1, WalkTypes DEF Walking, Begun
  <2>3. QED
    BY <2>1, <2>2, ServableBelowLimit
<1>6. CASE OutOfRange
  BY <1>6, ServableWalk DEF OutOfRange, Converts
<1>7. CASE Reversed
  <2>1. from < to /\ from \in Nat /\ to \in Nat /\ to < from
    BY <1>7, ServableWalk DEF Reversed, Converts, InBounds
  <2>2. QED
    BY <2>1
<1>w. ASSUME Subtracts PROVE Walking /\ from < to /\ from \in Nat /\ to \in Nat
  BY <1>w, ServableWalk DEF Subtracts, Converts, InBounds
<1>8. CASE Whole
  <2>1. Subtracts /\ Turn(<<>>, Kept) /\ Forward(<<>>)
    BY <1>8 DEF Whole, Forward
  <2>2. QED
    BY <1>t, <1>w, <2>1
<1>9. CASE FirstCut
  <2> DEFINE x == from * span
             y == to * span
             p == x \div 8
             q == y \div 8
  <2>1. Subtracts /\ Turn(<<<<p, q>>>>, Kept) /\ x % 8 = 0 /\ y % 8 = 0
    BY <1>9 DEF FirstCut
  <2>2. from < to /\ from \in Nat /\ to \in Nat /\ Walking
    BY <1>w, <2>1
  <2>3. x \in Nat /\ y \in Nat /\ x <= y
    <3>1. PICK e \in Nat : to = from + e
      <4>1. to - from \in Nat /\ to = from + (to - from)
        BY <2>2
      <4>2. QED
        BY <4>1
    <3>2. y = x + e * span /\ e * span \in Nat
      BY <1>i, <2>2, <3>1
    <3>3. x \in Nat /\ y \in Nat
      BY <1>i, <2>2
    <3> HIDE DEF x, y
    <3>4. QED
      BY <3>2, <3>3
  <2> HIDE DEF x, y
  <2>4. p \in Nat /\ q \in Nat /\ x = 8 * p /\ y = 8 * q
    BY <2>1, <2>3, DivMod
  <2> HIDE DEF p, q
  <2>5. p <= q
    BY <2>3, <2>4
  <2>6. Forward(<<<<p, q>>>>)
    BY <2>4, <2>5 DEF Forward
  <2>7. QED
    BY <1>t, <2>1, <2>2, <2>6
<1>10. CASE Repeat
  <2>1. Subtracts /\ Turn(Repeated, Kept) /\ indices # <<>>
    BY <1>10 DEF Repeat
  <2>2. from < to /\ from <= to /\ from \in Nat /\ to \in Nat /\ Walking
    BY <1>w, <2>1
  <2>3. ASSUME NEW k \in 1 .. Len(Repeated) PROVE Repeated[k][1] <= Repeated[k][2]
    <3>1. PICK n \in from .. (to - 1), j \in 1 .. Len(indices) : Repeated[k] = Moved(indices[j], n)
      BY <1>i, <2>1, <2>2, <2>3, RepeatedAt
    <3> DEFINE off == (n * span) \div 8
               a == indices[j][1]
               b == indices[j][2]
    <3>2. off \in Nat
      <4> DEFINE x == n * span
      <4>1. x \in Nat
        BY <1>i, <2>2
      <4> HIDE DEF x
      <4>2. x \div 8 \in Nat
        BY <4>1, DivMod
      <4>3. QED
        BY <4>2 DEF x
    <3>3. a \in Nat /\ b \in Nat /\ a <= b
      BY <1>i DEF Forward
    <3>4. Repeated[k] = <<a + off, b + off>>
      BY <3>1 DEF Moved
    <3> HIDE DEF off, a, b
    <3>5. QED
      BY <3>2, <3>3, <3>4
  <2>4. Forward(Repeated)
    BY <2>3 DEF Forward
  <2>5. QED
    BY <1>t, <2>1, <2>2, <2>4
<1>11. CASE Misaligned
  <2>1. Subtracts
    BY <1>11 DEF Misaligned
  <2>2. Walking /\ from \in Nat /\ to \in Nat
    BY <1>w, <2>1
  <2>3. \A n \in Nat : (n * span) % 8 = 0
    BY <1>i, WholeBytes
  <2>4. \A n \in from .. (to - 1) : n \in Nat
    BY <2>2
  <2>5. QED
    BY <1>11, <2>2, <2>3, <2>4 DEF Misaligned
<1>12. CASE Finish
  <2> DEFINE c == IF indices = <<>> THEN <<<<0, DataLen>>>> ELSE indices
  <2>1. DataLen \in Nat
    <3>1. Product(view.shape) \in Nat /\ view.bits \in Nat
      BY ViewFacts, InnerSteps DEF Product, TypeInv, ViewOK
    <3> DEFINE x == Product(view.shape) * view.bits
    <3>2. x \in Nat
      BY <3>1
    <3>3. DataLen = x \div 8
      BY DEF DataLen
    <3> HIDE DEF x
    <3>4. QED
      BY <3>2, <3>3, DivMod
  <2>2. c \in Seq(Nat \X Nat) /\ Forward(c)
    <3> DEFINE l == DataLen
    <3> HIDE DEF l
    <3>1. l \in Nat
      BY <2>1 DEF l
    <3>2. <<<<0, l>>>> \in Seq(Nat \X Nat) /\ Forward(<<<<0, l>>>>)
      BY <3>1 DEF Forward
    <3>3. QED
      BY <1>i, <3>2 DEF l
  <2> HIDE DEF c
  <2>3. Forward(Reverse(c))
    BY <2>2, ReversedForward
  <2>4. indices' = Reverse(c) /\ result' = "ok" /\ span' = span
    BY <1>12 DEF Finish, c
  <2>5. QED
    BY <1>i, <2>3, <2>4
<1>13. CASE NextChunk
  <2> DEFINE n == Len(indices)
  <2>1. n \in Nat /\ n > 0 /\ Last(indices) = indices[n]
    BY <1>i, <1>13, FrontFacts DEF NextChunk
  <2>2. indices' = Front(indices) /\ span' = span
    BY <1>13 DEF NextChunk
  <2>3. Last(indices)[1] <= Last(indices)[2]
    BY <1>i, <2>1 DEF Forward
  <2>4. result' = result
    BY <1>13, <2>3 DEF NextChunk
  <2>5. Len(Front(indices)) = n - 1 /\ \A k \in 1 .. (n - 1) : Front(indices)[k] = indices[k]
    BY <1>i, <1>13, FrontFacts DEF NextChunk
  <2>6. Forward(Front(indices))
    <3> DEFINE f == Front(indices)
    <3> HIDE DEF f, n
    <3>1. \A k \in 1 .. (n - 1) : k \in 1 .. n
      BY <2>1
    <3>2. \A k \in 1 .. n : indices[k][1] <= indices[k][2]
      BY <1>i DEF Forward, n
    <3>3. Forward(f)
      BY <2>5, <3>1, <3>2 DEF Forward, f
    <3>4. QED
      BY <3>3 DEF f
  <2>7. QED
    BY <1>i, <2>2, <2>4, <2>6
<1>14. CASE UNCHANGED vars
  BY <1>14, <1>i DEF vars
<1>15. QED
  BY <1>1, <1>2, <1>3, <1>4, <1>5, <1>6, <1>7, <1>8, <1>9, <1>10, <1>11, <1>12, <1>13, <1>14,
     <1>16
     DEF Next

LEMMA ServedCorrect == TypeInv /\ IndexRight /\ ServedInv => WholeBytesServed
BY DEF ServedInv, WholeBytesServed, Servable

(* A request that is in range and selects something on each dimension of a  *)
(* tensor of whole bytes is served by SliceIterator::new and next, for any  *)
(* shape: no walk over its dimensions meets a range it has to refuse.       *)
THEOREM ServesCorrect == Spec => []WholeBytesServed
<1>1. Init => TypeInv /\ IndexRight /\ ServedInv
  BY TypeInit, IndexInit, ServedInit
<1>2. TypeInv /\ IndexRight /\ ServedInv /\ [Next]_vars => (TypeInv /\ IndexRight /\ ServedInv)'
  BY TypeStep, IndexStep, ServedStep
<1>3. QED
  BY <1>1, <1>2, ServedCorrect, PTL DEF Spec

-----------------------------------------------------------------------------
(* Strides and the positions of the bits *)

(* The index of bit b in dimension e *)
Digit(b, e) == (b \div Stride(e)) % view.shape[e]

(* The selected bits of one index of dimension D *)
Selected(D) ==
    {b \in 0 .. (Stride(D) - 1) : \A e \in 1 .. Rank : e > D => Digit(b, e) \in Chosen(e)}

LEMMA StrideFacts ==
    ASSUME TypeInv
    PROVE  /\ Rank \in Nat /\ view.bits \in Nat /\ view.bits > 0
           /\ Stride(Rank) = view.bits
           /\ \A d \in 0 .. Rank : Stride(d) \in Nat
           /\ \A d \in 1 .. Rank : view.shape[d] \in Nat /\ Stride(d - 1) = Stride(d) * view.shape[d]
<1> DEFINE s == view.shape
           R == Rank
<1>1. /\ R \in Nat /\ view.bits \in Nat /\ view.bits > 0 /\ s \in Seq(Nat) /\ R = Len(s)
      /\ \A d \in 1 .. R : s[d] \in Nat
  BY ViewFacts DEF TypeInv, ViewOK, Rank
<1> HIDE DEF s, R
<1>2. /\ Inner(s, 0) = 1 /\ \A k \in 0 .. R : Inner(s, k) \in Nat
      /\ \A k \in 1 .. R : Inner(s, k) = Inner(s, k - 1) * s[R - k + 1]
  BY <1>1, InnerSteps
<1>3. \A d : Stride(d) = view.bits * Inner(s, R - d)
  BY DEF Stride, s, R
<1>4. Stride(R) = view.bits
  <2>1. R - R = 0
    BY <1>1
  <2>2. QED
    BY <1>1, <1>2, <1>3, <2>1
<1>5. ASSUME NEW d \in 0 .. R PROVE Stride(d) \in Nat
  <2>1. R - d \in 0 .. R
    BY <1>1
  <2>2. Inner(s, R - d) \in Nat
    BY <1>2, <2>1
  <2>3. QED
    BY <1>1, <1>3, <2>2
<1>6. ASSUME NEW d \in 1 .. R PROVE Stride(d - 1) = Stride(d) * s[d]
  <2> DEFINE k == R - d + 1
             i == Inner(s, R - d)
  <2>1. k \in 1 .. R /\ k - 1 = R - d /\ R - (d - 1) = k /\ R - k + 1 = d /\ R - d \in 0 .. R
    BY <1>1
  <2>2. Inner(s, k) = i * s[d]
    <3>1. Inner(s, k) = Inner(s, k - 1) * s[R - k + 1]
      BY <1>2, <2>1
    <3>2. QED
      BY <2>1, <3>1
  <2>3. i \in Nat /\ s[d] \in Nat
    BY <1>1, <1>2, <2>1
  <2>4. Stride(d - 1) = view.bits * Inner(s, k) /\ Stride(d) = view.bits * i
    BY <1>3, <2>1
  <2> HIDE DEF i, k
  <2>5. QED
    BY <1>1, <2>2, <2>3, <2>4
<1>7. QED
  BY <1>1, <1>4, <1>5, <1>6 DEF s, R

(* An index of an outer dimension spans whole indices of an inner one.      *)
LEMMA StrideDivides ==
    ASSUME TypeInv, NEW e \in 1 .. Rank, NEW D \in 0 .. (e - 1)
    PROVE  \E m \in Nat : Stride(D) = Stride(e - 1) * m
<1> DEFINE Good == {i \in 0 .. (e - 1) : \E m \in Nat : Stride((e - 1) - i) = Stride(e - 1) * m}
<1>1. Rank \in Nat /\ e \in Nat /\ e - 1 \in Nat /\ e - 1 \in 0 .. Rank
  BY StrideFacts
<1>2. 0 \in Good
  <2>1. Stride((e - 1) - 0) = Stride(e - 1) * 1
    <3>1. (e - 1) - 0 = e - 1 /\ Stride(e - 1) \in Nat
      BY <1>1, StrideFacts
    <3>2. QED
      BY <3>1
  <2>2. QED
    BY <1>1, <2>1
<1>3. ASSUME NEW i \in 0 .. ((e - 1) - 1), i \in Good PROVE i + 1 \in Good
  <2> DEFINE d == (e - 1) - i
  <2>1. d \in 1 .. Rank /\ d - 1 = (e - 1) - (i + 1) /\ i + 1 \in 0 .. (e - 1)
    BY <1>1
  <2>2. PICK m \in Nat : Stride(d) = Stride(e - 1) * m
    BY <1>3
  <2> HIDE DEF d
  <2>3. Stride(d - 1) = Stride(d) * view.shape[d] /\ view.shape[d] \in Nat
    BY <2>1, StrideFacts
  <2>4. Stride(e - 1) \in Nat /\ m * view.shape[d] \in Nat
    BY <1>1, <2>3, StrideFacts
  <2>5. Stride(d - 1) = Stride(e - 1) * (m * view.shape[d])
    BY <2>2, <2>3, <2>4
  <2>6. QED
    BY <2>1, <2>4, <2>5
<1>4. \A i \in 0 .. (e - 1) : i \in Good
  <2> HIDE DEF Good
  <2>1. QED
    BY <1>1, <1>2, <1>3, Induct
<1>5. (e - 1) - D \in 0 .. (e - 1) /\ (e - 1) - ((e - 1) - D) = D
  BY <1>1
<1>6. (e - 1) - D \in Good
  BY <1>4, <1>5
<1>7. QED
  BY <1>5, <1>6

(* The indices in the inner dimensions do not see the outer ones.           *)
LEMMA InnerDigit ==
    ASSUME TypeInv, NEW D \in 1 .. Rank, NEW e \in 1 .. Rank, e > D,
           NEW n \in Nat, NEW r \in 0 .. (Stride(D) - 1)
    PROVE  /\ Digit(n * Stride(D) + r, e) = Digit(r, e)
           /\ view.shape[e] > 0
<1> DEFINE w == Stride(e)
           c == view.shape[e]
           q == r \div w
           z == r % w
           u == q \div c
           v == q % c
<1>1. /\ w \in Nat /\ c \in Nat /\ Stride(e - 1) = w * c /\ Stride(D) \in Nat /\ D \in Nat
      /\ D \in 0 .. (e - 1)
  BY StrideFacts
<1>2. PICK m \in Nat : Stride(D) = (w * c) * m
  <2> HIDE DEF w, c
  <2>1. QED
    BY <1>1, StrideDivides
<1> DEFINE T == Stride(D)
<1> HIDE DEF w, c, T
<1>3. T = (w * c) * m /\ T \in Nat /\ r \in 0 .. (T - 1)
  BY <1>1, <1>2 DEF T
<1>4. r \in Nat /\ T > 0
  BY <1>3
<1>5. w > 0 /\ c > 0
  <2>1. w = 0 => T = 0
    BY <1>1, <1>3
  <2>2. c = 0 => T = 0
    BY <1>1, <1>3
  <2>3. QED
    BY <1>1, <1>4, <2>1, <2>2
<1>6. q \in Nat /\ z \in 0 .. (w - 1) /\ r = w * q + z
  BY <1>1, <1>4, <1>5, DivMod
<1> HIDE DEF q, z
<1>7. u \in Nat /\ v \in 0 .. (c - 1) /\ q = c * u + v
  BY <1>1, <1>5, <1>6, DivMod
<1> HIDE DEF u, v
<1> DEFINE p == n * m
           g == p + u
           h == c * g + v
<1>8. p \in Nat /\ g \in Nat
  BY <1>7
<1>9. n * T = w * (c * p)
  BY <1>1, <1>3
<1> HIDE DEF p
<1>10. c * g = c * p + c * u
  BY <1>1, <1>7, <1>8
<1>11. h = c * p + q /\ h \in Nat /\ c * p \in Nat
  <2>1. c * p \in Nat /\ c * u \in Nat
    BY <1>1, <1>7, <1>8
  <2> DEFINE i == c * p
             j == c * u
  <2>2. c * g = i + j /\ q = j + v /\ v \in Nat /\ i \in Nat /\ j \in Nat
    BY <1>7, <1>10, <2>1
  <2> HIDE DEF i, j, g
  <2>3. h = i + q /\ h \in Nat
    BY <2>2
  <2>4. QED
    BY <2>1, <2>3 DEF i
<1>12. n * T + r = w * h + z
  <2>1. w * h = w * (c * p) + w * q
    BY <1>1, <1>6, <1>11
  <2> DEFINE i == w * (c * p)
             j == w * q
  <2>2. i \in Nat /\ j \in Nat
    BY <1>1, <1>6, <1>11
  <2>3. w * h = i + j /\ n * T = i /\ r = j + z /\ z \in Nat
    BY <1>6, <1>9, <2>1
  <2> HIDE DEF i, j, h
  <2>4. QED
    BY <2>2, <2>3
<1>13. (n * T + r) \div w = h
  <2> HIDE DEF h
  <2>1. (w * h + z) \div w = h
    BY <1>1, <1>5, <1>6, <1>11, DivUnique
  <2>2. QED
    BY <1>12, <2>1
<1>14. h % c = v
  <2> HIDE DEF g
  <2>1. (c * g + v) % c = v
    BY <1>1, <1>5, <1>7, <1>8, DivUnique
  <2>2. QED
    BY <2>1
<1>15. Digit(n * T + r, e) = v
  <2> HIDE DEF h
  <2>1. QED
    BY <1>13, <1>14 DEF Digit, w, c
<1>16. Digit(r, e) = v
  BY DEF Digit, v, q, w, c
<1>17. QED
  BY <1>5, <1>15, <1>16 DEF T, c

(* The bits selected in an index of the next dimension out: those of the    *)
(* indices chosen there, moved to where these begin.                        *)
Outwards(D) == {n * Stride(D) + r : n \in Chosen(D), r \in Selected(D)}

LEMMA SelectedOutwards ==
    ASSUME TypeInv, NEW D \in 1 .. Rank, Chosen(D) \subseteq 0 .. (view.shape[D] - 1)
    PROVE  Selected(D - 1) = Outwards(D)
<1> DEFINE T == Stride(D)
           c == view.shape[D]
<1>1. /\ T \in Nat /\ c \in Nat /\ Stride(D - 1) = T * c /\ Rank \in Nat
      /\ \A e \in 1 .. Rank : e > D - 1 <=> e = D \/ e > D
  BY StrideFacts
<1> HIDE DEF T, c
<1>2. ASSUME NEW n \in Chosen(D), NEW r \in Selected(D)
      PROVE  n * T + r \in Selected(D - 1)
  <2>1. r \in 0 .. (T - 1) /\ \A e \in 1 .. Rank : e > D => Digit(r, e) \in Chosen(e)
    BY DEF Selected, T
  <2>2. n \in 0 .. (c - 1) /\ n \in Nat /\ r \in Nat /\ T > 0 /\ c > 0
    BY <1>1, <2>1 DEF c
  <2>3. n * T + r \in 0 .. (T * c - 1)
    <3>1. PICK k \in Nat : c = n + 1 + k
      <4>1. c - n - 1 \in Nat /\ c = n + 1 + (c - n - 1)
        BY <1>1, <2>2
      <4>2. QED
        BY <4>1
    <3>2. T * c = n * T + T + k * T /\ n * T \in Nat /\ k * T \in Nat
      BY <1>1, <2>2, <3>1
    <3> DEFINE x == n * T
               y == k * T
               p == T * c
    <3>3. p = x + T + y /\ x \in Nat /\ y \in Nat
      BY <3>2
    <3> HIDE DEF x, y, p
    <3>4. x + r \in 0 .. (p - 1)
      BY <1>1, <2>1, <3>3
    <3>5. QED
      BY <3>4 DEF x, p
  <2>4. Digit(n * T + r, D) = n
    <3>1. (T * n + r) \div T = n
      BY <1>1, <2>1, <2>2, DivUnique
    <3>2. T * n = n * T
      BY <1>1, <2>2
    <3>3. (c * 0 + n) % c = n
      BY <1>1, <2>2, DivUnique
    <3>4. c * 0 + n = n
      BY <1>1, <2>2
    <3>5. QED
      BY <3>1, <3>2, <3>3, <3>4 DEF Digit, T, c
  <2>5. \A e \in 1 .. Rank : e > D => Digit(n * T + r, e) = Digit(r, e)
    BY <2>1, <2>2, InnerDigit DEF T
  <2> DEFINE b == n * T + r
  <2> HIDE DEF b
  <2>6. \A e \in 1 .. Rank : e > D - 1 => Digit(b, e) \in Chosen(e)
    BY <1>1, <2>1, <2>4, <2>5 DEF b
  <2>7. b \in 0 .. (Stride(D - 1) - 1)
    BY <1>1, <2>3 DEF b
  <2>8. b \in Selected(D - 1)
    BY <2>6, <2>7 DEF Selected
  <2>9. QED
    BY <2>8 DEF b
<1>3. ASSUME NEW b \in Selected(D - 1)
      PROVE  \E n \in Chosen(D), r \in Selected(D) : b = n * T + r
  <2> DEFINE n == b \div T
             r == b % T
  <2>1. b \in 0 .. (T * c - 1) /\ \A e \in 1 .. Rank : e > D - 1 => Digit(b, e) \in Chosen(e)
    BY <1>1 DEF Selected
  <2>2. b \in Nat /\ T > 0 /\ c > 0
    <3> DEFINE p == T * c
    <3>1. p \in Nat /\ (T = 0 => p = 0) /\ (c = 0 => p = 0)
      BY <1>1
    <3> HIDE DEF p
    <3>2. b \in 0 .. (p - 1)
      BY <2>1 DEF p
    <3>3. QED
      BY <1>1, <3>1, <3>2
  <2>3. n \in Nat /\ r \in 0 .. (T - 1) /\ b = T * n + r
    BY <1>1, <2>2, DivMod
  <2>4. Digit(b, D) = n % c /\ D > D - 1
    BY <1>1 DEF Digit, T, c
  <2> HIDE DEF n, r
  <2>5. n < c
    <3>1. SUFFICES ASSUME n >= c PROVE FALSE
      BY <1>1, <2>3
    <3>2. PICK k \in Nat : n = c + k
      <4>1. n - c \in Nat /\ n = c + (n - c)
        BY <1>1, <2>3, <3>1
      <4>2. QED
        BY <4>1
    <3>3. T * n = T * c + T * k /\ T * k \in Nat /\ T * c \in Nat
      BY <1>1, <3>2
    <3> DEFINE x == T * n
               y == T * k
               p == T * c
    <3>4. x = p + y /\ y \in Nat /\ p \in Nat /\ b = x + r /\ b \in 0 .. (p - 1)
      BY <2>1, <2>3, <3>3
    <3> HIDE DEF x, y, p
    <3>5. QED
      BY <2>3, <3>4
  <2>6. n % c = n
    <3>1. (c * 0 + n) % c = n
      BY <1>1, <2>2, <2>3, <2>5, DivUnique
    <3>2. c * 0 + n = n
      BY <1>1, <2>3
    <3>3. QED
      BY <3>1, <3>2
  <2>7. n \in Chosen(D)
    BY <2>1, <2>4, <2>6
  <2>8. b = n * T + r
    <3>1. T * n = n * T
      BY <1>1, <2>3
    <3>2. QED
      BY <2>3, <3>1
  <2>9. \A e \in 1 .. Rank : e > D => Digit(n * T + r, e) = Digit(r, e)
    BY <2>3, InnerDigit DEF T
  <2>10. \A e \in 1 .. Rank : e > D => Digit(r, e) \in Chosen(e)
    BY <1>1, <2>1, <2>8, <2>9
  <2>11. r \in Selected(D)
    BY <2>3, <2>10 DEF Selected, T
  <2>12. QED
    BY <2>7, <2>8, <2>11
<1>4. QED
  BY <1>2, <1>3 DEF T, Outwards

(* Everything is selected where every dimension is taken whole.             *)
LEMMA SelectedWhole ==
    ASSUME TypeInv, NEW D \in 0 .. Rank,
           \A e \in 1 .. Rank : e > D => Chosen(e) = 0 .. (view.shape[e] - 1)
    PROVE  Selected(D) = 0 .. (Stride(D) - 1)
<1> SUFFICES ASSUME NEW b \in 0 .. (Stride(D) - 1), NEW e \in 1 .. Rank, e > D
             PROVE  Digit(b, e) \in 0 .. (view.shape[e] - 1)
  BY DEF Selected
<1> DEFINE c == view.shape[e]
           w == Stride(e)
<1>1. c \in Nat /\ w \in Nat /\ Stride(e - 1) = w * c /\ Stride(D) \in Nat /\ D \in 0 .. (e - 1)
  BY StrideFacts
<1> HIDE DEF c, w
<1>2. PICK m \in Nat : Stride(D) = (w * c) * m
  BY <1>1, StrideDivides
<1> DEFINE T == Stride(D)
<1> HIDE DEF T
<1>3. T = (w * c) * m /\ T \in Nat /\ b \in 0 .. (T - 1)
  BY <1>1, <1>2 DEF T
<1>4. w > 0 /\ c > 0 /\ b \in Nat
  <2>1. (w = 0 => T = 0) /\ (c = 0 => T = 0)
    BY <1>1, <1>3
  <2>2. QED
    BY <1>1, <1>3, <2>1
<1>5. b \div w \in Nat
  BY <1>1, <1>4, DivMod
<1> DEFINE q == b \div w
<1>6. q \in Nat
  BY <1>5
<1>7. Digit(b, e) = q % c
  BY DEF Digit, c, w
<1> HIDE DEF q
<1>8. q % c \in 0 .. (c - 1)
  BY <1>1, <1>4, <1>6, DivMod
<1>9. QED
  BY <1>7, <1>8 DEF c

-----------------------------------------------------------------------------
(* What the ranges hold *)

Bits(s) == UNION {(8 * s[k][1]) .. (8 * s[k][2] - 1) : k \in 1 .. Len(s)}

Ordered(s) == \A j, k \in 1 .. Len(s) : j < k => s[j][2] <= s[k][1]

(* No range of s reaches beyond w bits. *)
Inside(s, w) == \A k \in 1 .. Len(s) : 8 * s[k][1] <= w /\ 8 * s[k][2] <= w

LEMMA InBits ==
    ASSUME NEW s, NEW b
    PROVE  b \in Bits(s) <=> \E k \in 1 .. Len(s) : b \in (8 * s[k][1]) .. (8 * s[k][2] - 1)
BY DEF Bits

(* The bits of the indices from a up to z, T of them each *)
Rows(a, z, T) == {n * T + r : n \in a .. (z - 1), r \in 0 .. (T - 1)}

(* The first range *)
LEMMA CutSelects ==
    ASSUME TypeInv, NEW D \in 1 .. Rank, NEW a \in Nat, NEW z \in Nat, NEW p \in Nat, NEW q \in Nat,
           a <= view.shape[D], z <= view.shape[D],
           Chosen(D) = a .. (z - 1), Selected(D) = 0 .. (Stride(D) - 1),
           8 * p = a * Stride(D), 8 * q = z * Stride(D)
    PROVE  /\ Bits(<<<<p, q>>>>) = Selected(D - 1)
           /\ Ordered(<<<<p, q>>>>) /\ Inside(<<<<p, q>>>>, Stride(D - 1))
<1> DEFINE T == Stride(D)
           c == view.shape[D]
           s == <<<<p, q>>>>
<1>1. T \in Nat /\ c \in Nat /\ Stride(D - 1) = T * c
  BY StrideFacts
<1>2. Len(s) = 1 /\ s[1][1] = p /\ s[1][2] = q
  OBVIOUS
<1> HIDE DEF s
<1>3. Bits(s) = (8 * p) .. (8 * q - 1)
  <2>1. 1 .. Len(s) = {1}
    BY <1>2
  <2>2. QED
    BY <1>2, <2>1 DEF Bits
<1>4. Selected(D - 1) = Rows(a, z, T)
  <2>1. Chosen(D) \subseteq 0 .. (view.shape[D] - 1)
    <3>1. z <= c /\ a .. (z - 1) \subseteq 0 .. (c - 1)
      <4> HIDE DEF c
      <4>1. z <= c
        BY DEF c
      <4>2. QED
        BY <1>1, <4>1
    <3>2. QED
      BY <3>1
  <2>2. Selected(D - 1) = Outwards(D)
    BY <2>1, SelectedOutwards
  <2>3. Chosen(D) = a .. (z - 1) /\ Selected(D) = 0 .. (T - 1)
    OBVIOUS
  <2>4. QED
    BY <2>2, <2>3 DEF Outwards, Rows
<1> HIDE DEF T, c
<1>5. (8 * p) .. (8 * q - 1) = Rows(a, z, T)
  <2>1. ASSUME NEW n \in a .. (z - 1), NEW r \in 0 .. (T - 1)
        PROVE  n * T + r \in (8 * p) .. (8 * q - 1)
    <3>1. PICK e \in Nat, f \in Nat : n = a + e /\ z = n + 1 + f
      <4>1. n - a \in Nat /\ z - n - 1 \in Nat /\ n = a + (n - a) /\ z = n + 1 + (z - n - 1)
        OBVIOUS
      <4>2. QED
        BY <4>1
    <3>2. n * T = a * T + e * T /\ z * T = n * T + T + f * T
          /\ e * T \in Nat /\ f * T \in Nat /\ a * T \in Nat
      BY <1>1, <3>1
    <3> DEFINE x == a * T
               y == n * T
               w == z * T
               g == e * T
               h == f * T
    <3>3. y = x + g /\ w = y + T + h /\ g \in Nat /\ h \in Nat /\ x \in Nat /\ 8 * p = x /\ 8 * q = w
      BY <3>2 DEF T
    <3> HIDE DEF x, y, w, g, h
    <3>4. y + r \in (8 * p) .. (8 * q - 1)
      BY <1>1, <3>3
    <3>5. QED
      BY <3>4 DEF y
  <2>2. ASSUME NEW b \in (8 * p) .. (8 * q - 1)
        PROVE  \E n \in a .. (z - 1), r \in 0 .. (T - 1) : b = n * T + r
    <3> DEFINE x == a * T
               w == z * T
    <3>1. x \in Nat /\ w \in Nat /\ 8 * p = x /\ 8 * q = w /\ (T = 0 => x = 0 /\ w = 0)
      BY <1>1 DEF T
    <3> HIDE DEF x, w
    <3>2. b \in Nat /\ T > 0 /\ x <= b /\ b < w
      BY <1>1, <3>1
    <3> DEFINE n == b \div T
               r == b % T
    <3>3. n \in Nat /\ r \in 0 .. (T - 1) /\ b = T * n + r
      BY <1>1, <3>2, DivMod
    <3> HIDE DEF n, r
    <3>4. a <= n
      <4>1. SUFFICES ASSUME n < a PROVE FALSE
        BY <3>3
      <4>2. PICK e \in Nat : a = n + 1 + e
        <5>1. a - n - 1 \in Nat /\ a = n + 1 + (a - n - 1)
          BY <3>3, <4>1
        <5>2. QED
          BY <5>1
      <4>3. a * T = T * n + T + e * T /\ e * T \in Nat /\ T * n \in Nat
        BY <1>1, <3>3, <4>2
      <4> DEFINE g == T * n
                 h == e * T
      <4>4. x = g + T + h /\ b = g + r /\ g \in Nat /\ h \in Nat
        BY <3>3, <4>3 DEF x
      <4> HIDE DEF g, h
      <4>5. QED
        BY <1>1, <3>2, <3>3, <4>4
    <3>5. n < z
      <4>1. SUFFICES ASSUME n >= z PROVE FALSE
        BY <3>3
      <4>2. PICK e \in Nat : n = z + e
        <5>1. n - z \in Nat /\ n = z + (n - z)
          BY <3>3, <4>1
        <5>2. QED
          BY <5>1
      <4>3. T * n = z * T + e * T /\ e * T \in Nat
        BY <1>1, <4>2
      <4> DEFINE g == T * n
                 h == e * T
      <4>4. g = w + h /\ b = g + r /\ h \in Nat
        BY <3>3, <4>3 DEF w
      <4> HIDE DEF g, h
      <4>5. QED
        BY <3>1, <3>2, <3>3, <4>4
    <3>6. b = n * T + r /\ n \in a .. (z - 1)
      <4>1. T * n = n * T
        BY <1>1, <3>3
      <4>2. QED
        BY <3>3, <3>4, <3>5, <4>1
    <3>7. QED
      BY <3>3, <3>6
  <2>3. QED
    BY <2>1, <2>2 DEF Rows
<1>6. Ordered(s)
  BY <1>2 DEF Ordered
<1>7. Inside(s, Stride(D - 1))
  <2>1. ASSUME NEW m \in Nat, m <= c PROVE m * T <= T * c
    <3>1. PICK e \in Nat : c = m + e
      <4>1. c - m \in Nat /\ c = m + (c - m)
        BY <1>1, <2>1
      <4>2. QED
        BY <4>1
    <3>2. T * c = m * T + e * T /\ e * T \in Nat /\ m * T \in Nat
      BY <1>1, <3>1
    <3> DEFINE x == m * T
               y == e * T
               w == T * c
    <3>3. w = x + y /\ x \in Nat /\ y \in Nat
      BY <3>2
    <3> HIDE DEF x, y, w
    <3>4. x <= w
      BY <3>3
    <3>5. QED
      BY <3>4 DEF x, w
  <2>2. 8 * p <= T * c /\ 8 * q <= T * c
    BY <2>1 DEF T, c
  <2>3. QED
    BY <1>1, <1>2, <2>2 DEF Inside
<1>8. Bits(s) = Selected(D - 1)
  BY <1>3, <1>4, <1>5
<1>9. QED
  BY <1>6, <1>7, <1>8 DEF s

(* An earlier row ends where a later one begins, or before. *)
LEMMA RowsApart ==
    ASSUME NEW T \in Nat, NEW m \in Nat, NEW n \in Nat, m < n
    PROVE  m * T \in Nat /\ n * T \in Nat /\ m * T + T <= n * T
<1>1. PICK e \in Nat : n = m + 1 + e
  <2>1. n - m - 1 \in Nat /\ n = m + 1 + (n - m - 1)
    OBVIOUS
  <2>2. QED
    BY <2>1
<1>2. n * T = m * T + T + e * T /\ e * T \in Nat /\ m * T \in Nat /\ n * T \in Nat
  BY <1>1
<1> DEFINE x == m * T
           y == n * T
           z == e * T
<1>3. y = x + T + z /\ x \in Nat /\ y \in Nat /\ z \in Nat
  BY <1>2
<1> HIDE DEF x, y, z
<1>4. x \in Nat /\ y \in Nat /\ x + T <= y
  BY <1>3
<1>5. QED
  BY <1>4 DEF x, y

(* Every later range *)
LEMMA RepeatSelects ==
    ASSUME TypeInv, dim \in 1 .. Rank, span = Stride(dim), from \in Nat, to \in Nat,
           from <= to, to <= extent, Chosen(dim) = from .. (to - 1),
           indices # <<>>, Bits(indices) = Selected(dim), Ordered(indices), Inside(indices, span),
           \A n \in from .. (to - 1) : (n * span) % 8 = 0
    PROVE  /\ Bits(Repeated) = Selected(dim - 1)
           /\ Ordered(Repeated) /\ Inside(Repeated, Stride(dim - 1))
<1> DEFINE T == Stride(dim)
           l == Len(indices)
           r == Repeated
<1>1. /\ T \in Nat /\ extent \in Nat /\ Stride(dim - 1) = T * extent /\ span = T
  BY StrideFacts DEF extent
<1>2. /\ indices \in Seq(Nat \X Nat) /\ l \in Nat /\ l > 0
      /\ \A j \in 1 .. l : indices[j][1] \in Nat /\ indices[j][2] \in Nat
  <2>1. indices \in Seq(Nat \X Nat)
    BY DEF TypeInv, TypeOK
  <2>2. QED
    BY <2>1
<1>3. /\ r \in Seq(Nat \X Nat) /\ Len(r) \in Nat
      /\ \A k \in 1 .. Len(r) :
            \E n \in from .. (to - 1), j \in 1 .. l :
               k = (n - from) * l + j /\ r[k] = Moved(indices[j], n)
      /\ \A n \in from .. (to - 1), j \in 1 .. l :
            /\ (n - from) * l + j \in 1 .. Len(r)
            /\ r[(n - from) * l + j] = Moved(indices[j], n)
  <2>1. r \in Seq(Nat \X Nat)
    BY <1>1, <1>2, RepeatedType
  <2>2. QED
    BY <1>1, <1>2, <2>1, RepeatedAt
<1> HIDE DEF r, l, T
<1>4. ASSUME NEW n \in from .. (to - 1), NEW j \in 1 .. l
      PROVE  /\ n \in Nat /\ n * T \in Nat
             /\ Moved(indices[j], n)[1] \in Nat /\ Moved(indices[j], n)[2] \in Nat
             /\ 8 * Moved(indices[j], n)[1] = 8 * indices[j][1] + n * T
             /\ 8 * Moved(indices[j], n)[2] = 8 * indices[j][2] + n * T
  <2> DEFINE x == n * span
             off == x \div 8
             a == indices[j][1]
             b == indices[j][2]
  <2>1. n \in Nat /\ x \in Nat /\ x % 8 = 0 /\ x = n * T
    BY <1>1
  <2> HIDE DEF x
  <2>2. off \in Nat /\ x = 8 * off
    BY <2>1, DivMod
  <2>3. a \in Nat /\ b \in Nat
    BY <1>2
  <2>4. Moved(indices[j], n) = <<a + off, b + off>>
    BY DEF Moved, x
  <2> HIDE DEF off, a, b
  <2> DEFINE c == <<a + off, b + off>>
  <2>5. c[1] = a + off /\ c[2] = b + off
    OBVIOUS
  <2>6. c[1] \in Nat /\ c[2] \in Nat /\ 8 * c[1] = 8 * a + x /\ 8 * c[2] = 8 * b + x
    BY <2>2, <2>3, <2>5
  <2>7. QED
    BY <2>1, <2>4, <2>6 DEF a, b
<1>5. Selected(dim - 1) = Outwards(dim)
  <2>1. Chosen(dim) \subseteq 0 .. (view.shape[dim] - 1)
    BY <1>1 DEF extent
  <2>2. QED
    BY <2>1, SelectedOutwards
<1>6. ASSUME NEW b \in Bits(r) PROVE b \in Outwards(dim)
  <2>1. PICK k \in 1 .. Len(r) : b \in (8 * r[k][1]) .. (8 * r[k][2] - 1)
    BY InBits
  <2>2. PICK n \in from .. (to - 1), j \in 1 .. l : r[k] = Moved(indices[j], n)
    BY <1>3
  <2> DEFINE x == n * T
             i == indices[j][1]
             o == indices[j][2]
             p == r[k][1]
             q == r[k][2]
             g == b - x
  <2>3. /\ x \in Nat /\ i \in Nat /\ o \in Nat /\ p \in Nat /\ q \in Nat
        /\ 8 * p = 8 * i + x /\ 8 * q = 8 * o + x /\ b \in (8 * p) .. (8 * q - 1)
    BY <1>2, <1>4, <2>1, <2>2
  <2> HIDE DEF x, i, o, p, q
  <2>4. g \in (8 * i) .. (8 * o - 1) /\ b = x + g
    BY <2>3
  <2> HIDE DEF g
  <2>5. g \in Selected(dim)
    BY <2>4, InBits DEF i, o, l
  <2>6. b = n * Stride(dim) + g
    BY <2>4 DEF x, T
  <2>7. QED
    BY <2>5, <2>6 DEF Outwards
<1>7. ASSUME NEW b \in Outwards(dim) PROVE b \in Bits(r)
  <2>1. PICK n \in from .. (to - 1), g \in Selected(dim) : b = n * Stride(dim) + g
    BY DEF Outwards
  <2>2. PICK j \in 1 .. l : g \in (8 * indices[j][1]) .. (8 * indices[j][2] - 1)
    BY InBits DEF l
  <2> DEFINE k == (n - from) * l + j
  <2>3. k \in 1 .. Len(r) /\ r[k] = Moved(indices[j], n)
    BY <1>3
  <2> HIDE DEF k
  <2> DEFINE x == n * T
             i == indices[j][1]
             o == indices[j][2]
             p == r[k][1]
             q == r[k][2]
  <2>4. /\ x \in Nat /\ i \in Nat /\ o \in Nat /\ p \in Nat /\ q \in Nat
        /\ 8 * p = 8 * i + x /\ 8 * q = 8 * o + x /\ g \in (8 * i) .. (8 * o - 1) /\ b = x + g
    BY <1>2, <1>4, <2>1, <2>2, <2>3 DEF T
  <2> HIDE DEF x, i, o, p, q
  <2>5. b \in (8 * p) .. (8 * q - 1)
    BY <2>4
  <2>6. QED
    BY <2>3, <2>5, InBits DEF p, q
<1>8. Bits(r) = Selected(dim - 1)
  BY <1>5, <1>6, <1>7
<1>9. ASSUME NEW j \in 1 .. Len(r), NEW k \in 1 .. Len(r), j < k
      PROVE  r[j][2] <= r[k][1]
  <2>1. PICK m \in from .. (to - 1), u \in 1 .. l :
            j = (m - from) * l + u /\ r[j] = Moved(indices[u], m)
    BY <1>3
  <2>2. PICK n \in from .. (to - 1), v \in 1 .. l :
            k = (n - from) * l + v /\ r[k] = Moved(indices[v], n)
    BY <1>3
  <2> DEFINE x == m * T
             y == n * T
             a == indices[u][2]
             b == indices[v][1]
             p == r[j][2]
             q == r[k][1]
  <2>3. /\ x \in Nat /\ y \in Nat /\ m \in Nat /\ n \in Nat /\ a \in Nat /\ b \in Nat
        /\ p \in Nat /\ q \in Nat /\ 8 * p = 8 * a + x /\ 8 * q = 8 * b + y
    BY <1>2, <1>4, <2>1, <2>2
  <2>4. 8 * a <= T
    BY <1>1 DEF Inside, l
  <2>5. CASE m < n
    <3>1. x + T <= y
      BY <1>1, <2>3, <2>5, RowsApart
    <3> HIDE DEF x, y, a, b, p, q
    <3>2. p <= q
      BY <1>1, <2>3, <2>4, <3>1
    <3>3. QED
      BY <3>2 DEF p, q
  <2>6. CASE m = n
    <3>1. u < v
      <4> DEFINE z == (m - from) * l
      <4>1. z \in Int /\ j = z + u /\ k = z + v /\ u \in Int /\ v \in Int
        BY <1>2, <2>1, <2>2, <2>3, <2>6
      <4> HIDE DEF z
      <4>2. QED
        BY <1>9, <4>1
    <3>2. a <= b
      BY <3>1 DEF Ordered, l
    <3>3. x = y
      BY <2>6
    <3> HIDE DEF x, y, a, b, p, q
    <3>4. p <= q
      BY <2>3, <3>2, <3>3
    <3>5. QED
      BY <3>4 DEF p, q
  <2>7. CASE n < m
    <3> DEFINE e == m - from
               f == n - from
    <3>1. e \in Nat /\ f \in Nat /\ f < e
      BY <2>3, <2>7
    <3>2. j = e * l + u /\ k = f * l + v
      BY <2>1, <2>2
    <3> HIDE DEF e, f
    <3>3. f * l \in Nat /\ e * l \in Nat /\ f * l + l <= e * l
      BY <1>2, <3>1, RowsApart
    <3> DEFINE z == e * l
               w == f * l
    <3>4. j = z + u /\ k = w + v /\ w + l <= z /\ z \in Nat /\ w \in Nat
      BY <3>2, <3>3
    <3> HIDE DEF z, w
    <3>5. FALSE
      BY <1>2, <1>9, <3>4
    <3>6. QED
      BY <3>5
  <2>8. QED
    BY <2>3, <2>5, <2>6, <2>7
<1>10. ASSUME NEW k \in 1 .. Len(r)
       PROVE  8 * r[k][1] <= Stride(dim - 1) /\ 8 * r[k][2] <= Stride(dim - 1)
  <2>1. PICK n \in from .. (to - 1), j \in 1 .. l : r[k] = Moved(indices[j], n)
    BY <1>3
  <2> DEFINE x == n * T
             y == extent * T
             i == indices[j][1]
             o == indices[j][2]
             p == r[k][1]
             q == r[k][2]
  <2>2. /\ x \in Nat /\ n \in Nat /\ n < extent /\ i \in Nat /\ o \in Nat /\ p \in Nat /\ q \in Nat
        /\ 8 * p = 8 * i + x /\ 8 * q = 8 * o + x
    <3>1. n \in Nat /\ n < extent
      BY <1>1
    <3> HIDE DEF i, o, p, q, x
    <3>2. i \in Nat /\ o \in Nat
      BY <1>2 DEF i, o
    <3>3. x \in Nat /\ p \in Nat /\ q \in Nat /\ 8 * p = 8 * i + x /\ 8 * q = 8 * o + x
      BY <1>4, <2>1 DEF i, o, p, q, x
    <3>4. QED
      BY <3>1, <3>2, <3>3
  <2>3. 8 * i <= T /\ 8 * o <= T
    BY <1>1 DEF Inside, l
  <2>4. x + T <= y /\ y \in Nat
    BY <1>1, <2>2, RowsApart
  <2>5. Stride(dim - 1) = y
    BY <1>1
  <2> HIDE DEF x, y, i, o, p, q
  <2>6. 8 * p <= y /\ 8 * q <= y
    BY <1>1, <2>2, <2>3, <2>4
  <2>7. QED
    BY <2>5, <2>6 DEF p, q
<1>11. Ordered(r) /\ Inside(r, Stride(dim - 1))
  BY <1>9, <1>10 DEF Ordered, Inside
<1>12. QED
  BY <1>8, <1>11 DEF r

-----------------------------------------------------------------------------
(* The chunks are the selection *)

Full(d) == Chosen(d) = 0 .. (view.shape[d] - 1)

(* The requests ChunksAreSelection speaks of *)
Settled == WithinPython /\ ~BoundWraps /\ ~EmptyOutsideCut

(* What the ranges i found on the dimensions inside of D have to be: none   *)
(* when these are all taken whole, else those of the selected bits of one   *)
(* index of D, in order.                                                    *)
Gathered(i, D) ==
    IF i = <<>>
    THEN \A e \in 1 .. Rank : e > D => Full(e)
    ELSE /\ \E e \in 1 .. Rank : e > D /\ ~Full(e)
         /\ Bits(i) = Selected(D)
         /\ Ordered(i)
         /\ Inside(i, Stride(D))

Holds(c) == Bits(c) = Selected(0) /\ Ordered(c)

SelectionInv ==
    /\ span = Stride(dim)
    /\ result = "asked" => indices = <<>> /\ dim = Rank
    /\ result \in {"asked", "slicing"} => given = <<>>
    /\ Settled => /\ result = "slicing" => Gathered(indices, dim)
                  /\ result = "ok" => Holds(Chunks)

LEMMA SameSelection ==
    ASSUME checked' = checked, view' = view, request' = request
    PROVE  /\ Rank' = Rank
           /\ \A D : Stride(D)' = Stride(D) /\ Selected(D)' = Selected(D)
           /\ \A i, D : Gathered(i, D)' <=> Gathered(i, D)
           /\ \A c : Holds(c)' <=> Holds(c)
           /\ Settled' <=> Settled
<1>1. Rank' = Rank /\ \A d : Chosen(d)' = Chosen(d)
  BY SameRequest
<1>2. ASSUME NEW D PROVE Stride(D)' = Stride(D)
  BY Zenon DEF Stride, Rank
<1>3. ASSUME NEW b, NEW e PROVE Digit(b, e)' = Digit(b, e)
  BY <1>2, Zenon DEF Digit
<1>4. ASSUME NEW D PROVE Selected(D)' = Selected(D)
  BY <1>1, <1>2, <1>3, Zenon DEF Selected
<1>5. ASSUME NEW e PROVE Full(e)' <=> Full(e)
  BY <1>1, Zenon DEF Full
<1>6. ASSUME NEW i, NEW D PROVE Gathered(i, D)' <=> Gathered(i, D)
  BY <1>1, <1>2, <1>4, <1>5, Zenon DEF Gathered, Bits, Ordered, Inside
<1>7. ASSUME NEW c PROVE Holds(c)' <=> Holds(c)
  BY <1>4, Zenon DEF Holds, Bits, Ordered
<1>8. WithinPython' <=> WithinPython
  BY <1>1, Zenon DEF WithinPython
<1>9. EmptyOutsideCut' <=> EmptyOutsideCut
  BY <1>1, Zenon DEF EmptyOutsideCut
<1>10. BoundWraps' <=> BoundWraps
  BY Zenon DEF BoundWraps, PastLimit
<1>11. QED
  BY <1>1, <1>2, <1>4, <1>6, <1>7, <1>8, <1>9, <1>10, Zenon DEF Settled

LEMMA Twice ==
    ASSUME NEW T, NEW c \in Seq(T)
    PROVE  Reverse(Reverse(c)) = c /\ Reverse(c) \in Seq(T) /\ Len(Reverse(c)) = Len(c)
<1> DEFINE n == Len(c)
           r == Reverse(c)
<1>1. n \in Nat /\ c = [k \in 1 .. n |-> c[k]] /\ \A k \in 1 .. n : c[k] \in T
  OBVIOUS
<1>2. r = [k \in 1 .. n |-> c[(n - k) + 1]]
  BY DEF Reverse
<1> HIDE DEF n
<1>3. \A k \in 1 .. n : (n - k) + 1 \in 1 .. n /\ (n - ((n - k) + 1)) + 1 = k
  BY <1>1
<1>4. r \in [1 .. n -> T]
  BY <1>1, <1>2, <1>3
<1>5. Len(r) = n /\ r \in Seq(T)
  BY <1>1, <1>4, SeqDef, LenProperties
<1>6. \A k \in 1 .. n : r[k] = c[(n - k) + 1]
  BY <1>2
<1> HIDE DEF r
<1>7. Reverse(r) = [k \in 1 .. n |-> r[(n - k) + 1]]
  BY <1>5 DEF Reverse
<1>8. \A k \in 1 .. n : r[(n - k) + 1] = c[k]
  BY <1>3, <1>6
<1>9. Reverse(r) = [k \in 1 .. n |-> c[k]]
  BY <1>7, <1>8
<1>10. QED
  BY <1>1, <1>5, <1>9 DEF r, n

(* next hands the last range over, in the order of Chunks.                  *)
LEMMA HandedOver ==
    ASSUME NEW T, NEW g \in Seq(T), NEW s \in Seq(T), s # <<>>
    PROVE  Append(g, Last(s)) \o Reverse(Front(s)) = g \o Reverse(s)
<1> DEFINE n == Len(s)
           f == Front(s)
           e == Last(s)
           u == Reverse(f)
           v == Reverse(s)
<1>1. n \in Nat /\ n > 0 /\ e \in T /\ e = s[n]
      /\ f \in Seq(T) /\ Len(f) = n - 1 /\ \A k \in 1 .. (n - 1) : f[k] = s[k]
  BY FrontFacts
<1>2. v \in Seq(T) /\ Len(v) = n /\ \A k \in 1 .. n : v[k] = s[(n - k) + 1]
  BY Twice DEF Reverse
<1> HIDE DEF n, f, e
<1>3. u \in Seq(T) /\ Len(u) = n - 1 /\ \A k \in 1 .. (n - 1) : u[k] = f[((n - 1) - k) + 1]
  BY <1>1, Twice DEF Reverse
<1> HIDE DEF u, v
<1>4. /\ <<e>> \in Seq(T) /\ <<e>> \o u \in Seq(T) /\ Len(<<e>> \o u) = n
      /\ \A k \in 1 .. n : (<<e>> \o u)[k] = IF k = 1 THEN e ELSE u[k - 1]
  <2> DEFINE o == <<e>>
  <2>1. o \in Seq(T) /\ Len(o) = 1 /\ o[1] = e
    BY <1>1
  <2> HIDE DEF o
  <2>2. /\ o \o u \in Seq(T) /\ Len(o \o u) = Len(o) + Len(u)
        /\ \A k \in 1 .. Len(o) + Len(u) :
              (o \o u)[k] = IF k <= Len(o) THEN o[k] ELSE u[k - Len(o)]
    <3>1. u \in Seq(T)
      BY <1>3
    <3>2. o \o u \in Seq(T)
      BY <2>1, <3>1, ConcatProperties
    <3>3. Len(o \o u) = Len(o) + Len(u)
      BY <2>1, <3>1, ConcatProperties
    <3>4. \A k \in 1 .. Len(o) + Len(u) :
              (o \o u)[k] = IF k <= Len(o) THEN o[k] ELSE u[k - Len(o)]
      BY <2>1, <3>1, ConcatProperties
    <3>5. QED
      BY <3>2, <3>3, <3>4
  <2>3. Len(o) + Len(u) = n /\ \A k \in 1 .. n : k <= 1 <=> k = 1
    BY <1>1, <1>3, <2>1
  <2>4. QED
    BY <2>1, <2>2, <2>3 DEF o
<1>5. ASSUME NEW k \in 1 .. n PROVE (<<e>> \o u)[k] = v[k]
  <2>1. CASE k = 1
    <3>1. (n - k) + 1 = n
      BY <1>1, <2>1
    <3>2. QED
      BY <1>1, <1>2, <1>4, <2>1, <3>1
  <2>2. CASE k # 1
    <3> DEFINE j == k - 1
               i == (n - k) + 1
    <3>1. j \in 1 .. (n - 1) /\ i \in 1 .. (n - 1) /\ ((n - 1) - j) + 1 = i
      BY <1>1, <2>2
    <3>2. (<<e>> \o u)[k] = u[j] /\ v[k] = s[i]
      BY <1>2, <1>4, <2>2
    <3> HIDE DEF i, j
    <3>3. u[j] = f[i] /\ f[i] = s[i]
      BY <1>1, <1>3, <3>1
    <3>4. QED
      BY <3>2, <3>3
  <2>3. QED
    BY <2>1, <2>2
<1>6. <<e>> \o u = v
  BY <1>2, <1>4, <1>5, SeqEqual
<1>7. Append(g, e) = g \o <<e>>
  BY <1>1, AppendIsConcat
<1>8. (g \o <<e>>) \o u = g \o (<<e>> \o u)
  <2>1. <<e>> \in Seq(T) /\ u \in Seq(T)
    BY <1>3, <1>4
  <2>2. QED
    BY <2>1, ConcatAssociative
<1>9. Append(g, e) \o u = g \o v
  BY <1>6, <1>7, <1>8
<1>10. QED
  BY <1>9 DEF e, u, v, f

LEMMA SelectionInit == Init => SelectionInv
<1> SUFFICES ASSUME Init PROVE SelectionInv
  OBVIOUS
<1>1. TypeInv
  BY TypeInit
<1>2. dim = Rank /\ span = view.bits /\ indices = <<>> /\ given = <<>> /\ result = "asked"
  BY DEF Init, Rank
<1>3. QED
  BY <1>1, <1>2, StrideFacts DEF SelectionInv

(* The indices taken on the dimension under the walk *)
LEMMA WalkChosen ==
    ASSUME TypeInv, IndexRight, InBounds, ~BoundWraps
    PROVE  /\ from \in Nat /\ to \in Nat /\ extent \in Nat /\ from < extent /\ to <= extent
           /\ ~PastLimit(index[dim])
           /\ WithinPython => Chosen(dim) = from .. (to - 1)
<1>w. Walking /\ dim <= Len(index) /\ ~OutOfBounds /\ ~(checked /\ PastLimit(index[dim]))
  BY DEF InBounds, Converts
<1>1. /\ dim \in 1 .. Rank /\ extent \in Nat /\ from \in Nat /\ to \in Nat
      /\ index[dim] \in Indexers /\ Begun
  BY <1>w, WalkTypes DEF Walking, Begun
<1>2. from < extent /\ to <= extent
  BY <1>1, <1>w DEF OutOfBounds
<1>3. Taken(index[dim], view.shape[dim]) = from .. (to - 1)
  BY <1>1, <1>2, TakenRange DEF from, to, extent
<1>4. ~PastLimit(index[dim])
  <2>1. CASE request.python
    BY <1>1, <1>w, <2>1, PythonBelowLimit
  <2>2. CASE ~request.python
    <3>1. index = request.items /\ dim \in DOMAIN request.items
      BY <1>1, <1>w, <2>2, ItemFacts DEF IndexRight
    <3>2. QED
      BY <1>w, <2>2, <3>1 DEF BoundWraps
  <2>3. QED
    BY <2>1, <2>2
<1>5. QED
  BY <1>1, <1>2, <1>3, <1>4, <1>w, Indexed

(* One turn, to the ranges i *)
LEMMA TurnGathers ==
    ASSUME TypeInv, SelectionInv, Walking, [Next]_vars, NEW i, NEW n, Turn(i, n),
           Settled => Gathered(i, dim - 1)
    PROVE  SelectionInv'
<1>1. dim \in 1 .. Rank /\ extent \in Nat
  BY WalkTypes
<1>2. /\ indices' = i /\ span' = span * extent /\ dim' = dim - 1
      /\ view' = view /\ request' = request /\ result' = result /\ given' = given
      /\ checked' = checked /\ result = "slicing"
  BY DEF Turn, Walking
<1>3. Stride(dim - 1) = span * extent
  BY <1>1, StrideFacts DEF SelectionInv, extent
<1>4. /\ \A D : Stride(D)' = Stride(D)
      /\ \A c, D : Gathered(c, D)' <=> Gathered(c, D)
      /\ Settled' <=> Settled
  BY <1>2, SameSelection
<1> PICK D, c : D = dim - 1 /\ c = i
  OBVIOUS
<1>5. dim' = D /\ indices' = c
  BY <1>2
<1>6. Stride(dim)' = Stride(D)'
  BY <1>5, Zenon DEF Stride
<1>7. Gathered(indices, dim)' <=> Gathered(c, D)'
  BY <1>5, Zenon DEF Gathered, Selected, Stride
<1>8. span' = Stride(dim)'
  BY <1>2, <1>3, <1>4, <1>6
<1>9. Settled' => Gathered(indices, dim)'
  BY <1>4, <1>7
<1>10. result' = "slicing" /\ given' = <<>>
  BY <1>2 DEF SelectionInv
<1>11. QED
  BY <1>8, <1>9, <1>10 DEF SelectionInv

LEMMA ReversedEmpty ==
    ASSUME NEW T
    PROVE  <<>> \in Seq(T) /\ \A c \in Seq(T) : <<>> \o Reverse(Reverse(c)) = c
<1>1. ASSUME NEW c \in Seq(T) PROVE <<>> \o Reverse(Reverse(c)) = c
  <2>1. Reverse(Reverse(c)) = c
    BY Twice
  <2>2. <<>> \o c = c
    BY ConcatEmptySeq
  <2>3. QED
    BY <2>1, <2>2
<1>2. <<>> \in Seq(T)
  OBVIOUS
<1>3. QED
  BY <1>1, <1>2

(* The walk is over: what it gathered is the selection, all of it when      *)
(* nothing was cut.                                                         *)
LEMMA FinishHolds ==
    ASSUME TypeInv, dim = 0, Gathered(indices, dim)
    PROVE  Holds(IF indices = <<>> THEN <<<<0, DataLen>>>> ELSE indices)
<1>1. CASE indices # <<>>
  BY <1>1 DEF Gathered, Holds
<1>2. CASE indices = <<>>
  <2>1. Rank \in Nat /\ 0 \in 0 .. Rank /\ Stride(0) \in Nat
    BY StrideFacts
  <2>2. Selected(0) = 0 .. (Stride(0) - 1)
    BY <1>2, <2>1, SelectedWhole DEF Gathered, Full
  <2> DEFINE x == Product(view.shape) * view.bits
             l == x \div 8
             c == <<<<0, l>>>>
  <2>3. x \in Nat /\ x % 8 = 0 /\ Stride(0) = x
    <3>1. x % 8 = 0
      BY DEF TypeInv, ViewOK, ByteAligned
    <3>2. Stride(0) = view.bits * Product(view.shape)
      <4>1. Rank - 0 = Rank
        BY <2>1
      <4>2. QED
        BY <4>1 DEF Stride, Product, Rank
    <3>3. view.bits \in Nat /\ Product(view.shape) \in Nat
      BY ViewFacts, InnerSteps DEF Product, TypeInv, ViewOK
    <3>4. QED
      BY <3>1, <3>2, <3>3
  <2>4. DataLen = l
    BY DEF DataLen
  <2> HIDE DEF x
  <2>5. l \in Nat /\ x = 8 * l
    BY <2>3, DivMod
  <2> HIDE DEF l
  <2>6. Len(c) = 1 /\ c[1][1] = 0 /\ c[1][2] = l /\ 1 .. 1 = {1}
    OBVIOUS
  <2> HIDE DEF c
  <2>7. Bits(c) = (8 * 0) .. (8 * l - 1)
    BY <2>5, <2>6 DEF Bits
  <2>8. 8 * 0 = 0
    OBVIOUS
  <2>9. Ordered(c)
    BY <2>6 DEF Ordered
  <2>10. Holds(c)
    BY <2>2, <2>3, <2>5, <2>7, <2>8, <2>9 DEF Holds
  <2>11. QED
    BY <1>2, <2>4, <2>10 DEF c
<1>3. QED
  BY <1>1, <1>2

LEMMA SelectionStep == TypeInv /\ IndexRight /\ SelectionInv /\ [Next]_vars => SelectionInv'
<1> SUFFICES ASSUME TypeInv, IndexRight, SelectionInv, [Next]_vars PROVE SelectionInv'
  OBVIOUS
<1>f. /\ view' = view /\ request' = request /\ Rank' = Rank
      /\ \A D : Stride(D)' = Stride(D)
      /\ \A i, D : Gathered(i, D)' <=> Gathered(i, D)
      /\ \A c : Holds(c)' <=> Holds(c)
      /\ Settled' <=> Settled
  BY Fixed, SameSelection
<1>i. /\ span = Stride(dim)
      /\ result = "asked" => indices = <<>> /\ dim = Rank
      /\ result \in {"asked", "slicing"} => given = <<>>
      /\ Settled => (result = "slicing" => Gathered(indices, dim))
      /\ Settled => (result = "ok" => Holds(Chunks))
  BY DEF SelectionInv
<1>s. ASSUME UNCHANGED dim PROVE Stride(dim)' = Stride(dim)
  BY <1>f, <1>s, Zenon DEF Stride
<1>o. indices \in Seq(Nat \X Nat) /\ given \in Seq(Nat \X Nat)
  BY DEF TypeInv, TypeOK
<1>a. ASSUME NEW r \in {"panic", "InvalidIndex", "TooManySlices", "SliceOutOfRange", "MisalignedSlice"},
             Answer(r)
      PROVE  SelectionInv'
  <2>1. result' = r /\ UNCHANGED <<dim, span>> /\ r \notin {"asked", "slicing", "ok"}
    BY <1>a DEF Answer
  <2>2. span' = Stride(dim)'
    BY <1>i, <1>s, <2>1
  <2>3. QED
    BY <2>1, <2>2 DEF SelectionInv
<1>b. ASSUME UNCHANGED <<dim, span, indices, given>>, result = "asked", result' = "slicing"
      PROVE  SelectionInv'
  <2>1. span' = Stride(dim)'
    BY <1>i, <1>s, <1>b
  <2>2. Gathered(indices, dim)
    <3>1. \A e \in 1 .. Rank : ~(e > Rank)
      BY StrideFacts
    <3>2. QED
      BY <1>b, <1>i, <3>1 DEF Gathered
  <2>3. Gathered(indices, dim)' <=> Gathered(indices, dim)
    <3>1. PICK i, D : i = indices /\ D = dim
      OBVIOUS
    <3>2. Gathered(i, D)' <=> Gathered(i, D)
      BY <1>f
    <3>3. Gathered(indices, dim)' <=> Gathered(i, D)'
      BY <1>b, <3>1, Zenon DEF Gathered, Selected, Stride
    <3>4. QED
      BY <3>1, <3>2, <3>3
  <2>4. QED
    BY <1>b, <1>i, <2>1, <2>2, <2>3 DEF SelectionInv
<1>1. CASE RustSlice
  BY <1>b, <1>1 DEF RustSlice
<1>2. CASE PythonSlice
  BY <1>b, <1>2 DEF PythonSlice
<1>3. CASE PythonRefused
  BY <1>a, <1>3 DEF PythonRefused
<1>4. CASE TooMany
  BY <1>a, <1>4 DEF TooMany
<1>w. ASSUME Walking
      PROVE  /\ dim \in 1 .. Rank /\ Begun /\ result = "slicing" /\ Rank \in Nat
             /\ extent \in Nat /\ extent = view.shape[dim]
             /\ \A e \in 1 .. Rank : e > dim - 1 <=> e = dim \/ e > dim
  <2>1. dim \in 1 .. Rank /\ Rank \in Nat /\ extent \in Nat
    BY <1>w, WalkTypes
  <2>2. \A e \in 1 .. Rank : e > dim - 1 <=> e = dim \/ e > dim
    BY <2>1
  <2>3. QED
    BY <1>w, <2>1, <2>2 DEF Walking, Begun, extent
<1>5. CASE Widen
  <2>1. Walking /\ dim > Len(index) /\ Turn(indices, <<extent>>)
    BY <1>5 DEF Widen
  <2>2. ASSUME Settled PROVE Gathered(indices, dim - 1)
    <3>1. Gathered(indices, dim)
      BY <1>i, <1>w, <2>1, <2>2
    <3>2. \A e \in 1 .. Rank : e >= dim => Full(e)
      <4>1. ASSUME NEW e \in 1 .. Rank, e >= dim PROVE Full(e)
        <5>1. Len(index) < e
          <6>1. Len(index) \in Nat /\ dim \in Nat
            BY <1>w, <2>1, ItemFacts
          <6>2. QED
            BY <2>1, <4>1, <6>1
        <5>2. QED
          BY <1>w, <2>1, <5>1, Unindexed DEF Full
      <4>2. QED
        BY <4>1
    <3>3. indices = <<>>
      <4>1. SUFFICES ASSUME indices # <<>> PROVE FALSE
        OBVIOUS
      <4>2. PICK e \in 1 .. Rank : e > dim /\ ~Full(e)
        BY <3>1, <4>1 DEF Gathered
      <4>3. e >= dim
        BY <1>w, <2>1, <4>2
      <4>4. QED
        BY <3>2, <4>2, <4>3
    <3>4. \A e \in 1 .. Rank : e > dim - 1 => e >= dim
      BY <1>w, <2>1
    <3>5. QED
      BY <3>2, <3>3, <3>4 DEF Gathered
  <2>3. QED
    BY <2>1, <2>2, TurnGathers
<1>16. CASE Overflows
  BY <1>a, <1>16 DEF Overflows
<1>6. CASE OutOfRange
  BY <1>a, <1>6 DEF OutOfRange
<1>7. CASE Reversed
  BY <1>a, <1>7 DEF Reversed
<1>c. ASSUME Subtracts, Settled
      PROVE  /\ Walking /\ from \in Nat /\ to \in Nat /\ from < extent /\ to <= extent
             /\ Chosen(dim) = from .. (to - 1)
             /\ Gathered(indices, dim)
             /\ Full(dim) => from = 0 /\ to = extent
             /\ from = 0 /\ to = extent => Full(dim)
  <2>1. Walking /\ dim <= Len(index) /\ InBounds /\ WithinPython /\ ~BoundWraps
    BY <1>c DEF Subtracts, Converts, InBounds, Settled
  <2>2. /\ from \in Nat /\ to \in Nat /\ extent \in Nat /\ from < extent /\ to <= extent
        /\ Chosen(dim) = from .. (to - 1)
    BY <2>1, WalkChosen
  <2>3. Full(dim) => from = 0 /\ to = extent
    <3>1. SUFFICES ASSUME from .. (to - 1) = 0 .. (extent - 1) PROVE from = 0 /\ to = extent
      BY <2>2 DEF Full, extent
    <3>2. 0 \in from .. (to - 1) /\ extent - 1 \in from .. (to - 1)
      BY <2>2, <3>1
    <3>3. QED
      BY <2>2, <3>2
  <2>4. from = 0 /\ to = extent => Full(dim)
    BY <2>2 DEF Full, extent
  <2>5. Gathered(indices, dim)
    BY <1>c, <1>i, <1>w, <2>1
  <2>6. QED
    BY <2>1, <2>2, <2>3, <2>4, <2>5
<1>8. CASE Whole
  <2>1. Subtracts /\ Walking /\ indices = <<>> /\ from = 0 /\ to = extent /\ Turn(<<>>, Kept)
    BY <1>8 DEF Whole, Subtracts, Converts, InBounds
  <2>2. ASSUME Settled PROVE Gathered(<<>>, dim - 1)
    <3>1. Gathered(indices, dim) /\ Full(dim)
      BY <1>c, <2>1, <2>2
    <3>2. QED
      BY <1>w, <2>1, <3>1 DEF Gathered
  <2>3. QED
    BY <2>1, <2>2, TurnGathers
<1>9. CASE FirstCut
  <2> DEFINE x == from * span
             y == to * span
             p == x \div 8
             q == y \div 8
  <2>1. /\ Subtracts /\ Walking /\ indices = <<>> /\ ~(from = 0 /\ to = extent)
        /\ Turn(<<<<p, q>>>>, Kept) /\ x % 8 = 0 /\ y % 8 = 0
    BY <1>9 DEF FirstCut, Subtracts, Converts, InBounds
  <2>2. ASSUME Settled PROVE Gathered(<<<<p, q>>>>, dim - 1)
    <3>1. /\ from \in Nat /\ to \in Nat /\ from < extent /\ to <= extent
          /\ Chosen(dim) = from .. (to - 1) /\ Gathered(indices, dim) /\ ~Full(dim)
      BY <1>c, <2>1, <2>2
    <3>2. x \in Nat /\ y \in Nat /\ x = from * Stride(dim) /\ y = to * Stride(dim)
      <4>1. span \in Nat
        BY DEF TypeInv, TypeOK
      <4>2. QED
        BY <1>i, <3>1, <4>1
    <3>3. Selected(dim) = 0 .. (Stride(dim) - 1)
      <4>1. dim \in 0 .. Rank
        BY <1>w, <2>1
      <4>2. QED
        BY <2>1, <3>1, <4>1, SelectedWhole DEF Gathered, Full
    <3> HIDE DEF x, y
    <3>4. p \in Nat /\ q \in Nat /\ 8 * p = x /\ 8 * q = y
      BY <2>1, <3>2, DivMod
    <3> HIDE DEF p, q
    <3>5. /\ Bits(<<<<p, q>>>>) = Selected(dim - 1)
          /\ Ordered(<<<<p, q>>>>) /\ Inside(<<<<p, q>>>>, Stride(dim - 1))
      <4>1. from <= view.shape[dim] /\ to <= view.shape[dim]
        BY <1>w, <2>1, <3>1
      <4>2. dim \in 1 .. Rank
        BY <1>w, <2>1
      <4>3. 8 * p = from * Stride(dim) /\ 8 * q = to * Stride(dim)
        BY <3>2, <3>4
      <4> HIDE DEF from, to
      <4>4. QED
        BY <3>1, <3>3, <3>4, <4>1, <4>2, <4>3, CutSelects
    <3>6. <<<<p, q>>>> # <<>> /\ dim > dim - 1 /\ dim \in 1 .. Rank
      BY <1>w, <2>1
    <3>7. QED
      BY <3>1, <3>5, <3>6 DEF Gathered
  <2>3. QED
    BY <2>1, <2>2, TurnGathers
<1>10. CASE Repeat
  <2>1. /\ Subtracts /\ Walking /\ indices # <<>> /\ from <= to /\ Turn(Repeated, Kept)
        /\ \A n \in from .. (to - 1) : (n * span) % 8 = 0
    BY <1>10 DEF Repeat, Subtracts, Converts, InBounds
  <2>2. ASSUME Settled PROVE Gathered(Repeated, dim - 1)
    <3>1. /\ from \in Nat /\ to \in Nat /\ from < extent /\ to <= extent
          /\ Chosen(dim) = from .. (to - 1) /\ Gathered(indices, dim)
      BY <1>c, <2>1, <2>2
    <3>2. PICK e \in 1 .. Rank : e > dim /\ ~Full(e)
      BY <2>1, <3>1 DEF Gathered
    <3>3. dim \in 1 .. Rank
      BY <1>w, <2>1
    <3>4. Chosen(dim) # {}
      <4>1. dim < e
        BY <3>2, <3>3
      <4>2. QED
        BY <2>2, <3>2, <3>3, <4>1 DEF Settled, EmptyOutsideCut, Full
    <3>5. from < to
      BY <3>1, <3>4
    <3>6. Repeated # <<>>
      <4>1. span \in Nat
        BY DEF TypeInv, TypeOK
      <4>2. Len(Repeated) = (to - from) * Len(indices)
        BY <1>o, <2>1, <3>1, <4>1, RepeatedType
      <4> DEFINE l == Len(indices)
                 c == to - from
      <4>3. l \in Nat \ {0} /\ c \in Nat \ {0}
        BY <1>o, <2>1, <3>1, <3>5
      <4> HIDE DEF l, c
      <4>4. c * l # 0
        BY <4>3
      <4>5. Len(Repeated) # 0
        BY <4>2, <4>4 DEF l, c
      <4>6. QED
        BY <4>5
    <3>7. /\ Bits(Repeated) = Selected(dim - 1)
          /\ Ordered(Repeated) /\ Inside(Repeated, Stride(dim - 1))
      <4>1. Bits(indices) = Selected(dim) /\ Ordered(indices) /\ Inside(indices, span)
        BY <1>i, <2>1, <3>1, Zenon DEF Gathered
      <4>2. QED
        BY <1>i, <2>1, <3>1, <3>3, <4>1, RepeatSelects
    <3>8. e > dim - 1
      BY <3>2, <3>3
    <3>9. QED
      BY <3>2, <3>6, <3>7, <3>8 DEF Gathered
  <2>3. QED
    BY <2>1, <2>2, TurnGathers
<1>11. CASE Misaligned
  BY <1>a, <1>11 DEF Misaligned
<1>12. CASE Finish
  <2> DEFINE c == IF indices = <<>> THEN <<<<0, DataLen>>>> ELSE indices
  <2>1. /\ result = "slicing" /\ dim = 0 /\ indices' = Reverse(c) /\ given' = <<>> /\ result' = "ok"
        /\ UNCHANGED <<dim, span>>
    BY <1>12, <1>i DEF Finish
  <2>2. Settled => Holds(c)
    BY <1>i, <2>1, FinishHolds
  <2>3. DataLen \in Nat
    <3>1. Product(view.shape) \in Nat /\ view.bits \in Nat
      BY ViewFacts, InnerSteps DEF Product, TypeInv, ViewOK
    <3> DEFINE x == Product(view.shape) * view.bits
    <3>2. x \in Nat
      BY <3>1
    <3>3. DataLen = x \div 8
      BY DEF DataLen
    <3> HIDE DEF x
    <3>4. QED
      BY <3>2, <3>3, DivMod
  <2>4. c \in Seq(Nat \X Nat)
    <3> DEFINE l == DataLen
    <3> HIDE DEF l
    <3>1. l \in Nat
      BY <2>3 DEF l
    <3>2. <<<<0, l>>>> \in Seq(Nat \X Nat)
      BY <3>1
    <3>3. QED
      BY <1>o, <3>2 DEF l
  <2> HIDE DEF c
  <2>5. Chunks' = c
    <3>1. Chunks' = given' \o Reverse(indices')
      BY DEF Chunks
    <3>2. Chunks' = <<>> \o Reverse(Reverse(c))
      BY <2>1, <3>1
    <3>3. QED
      BY <2>4, <3>2, ReversedEmpty
  <2>6. span' = Stride(dim)'
    BY <1>i, <1>s, <2>1
  <2>7. Settled' => Holds(Chunks)'
    <3>1. PICK k : k = c
      OBVIOUS
    <3>2. Holds(Chunks)' <=> Holds(k)'
      BY <2>5, <3>1, Zenon DEF Holds
    <3>3. QED
      BY <1>f, <2>2, <3>1, <3>2
  <2>8. QED
    BY <2>1, <2>6, <2>7 DEF SelectionInv
<1>13. CASE NextChunk
  <2>1. /\ result = "ok" /\ indices # <<>> /\ indices' = Front(indices) /\ UNCHANGED <<dim, span>>
        /\ (given' = Append(given, Last(indices)) /\ result' = "ok") \/ (result' = "panic")
    BY <1>13 DEF NextChunk
  <2>2. span' = Stride(dim)'
    BY <1>i, <1>s, <2>1
  <2>3. CASE result' = "panic"
    BY <2>2, <2>3 DEF SelectionInv
  <2>4. CASE result' = "ok"
    <3>1. Chunks' = Chunks
      <4>1. Chunks' = given' \o Reverse(indices') /\ Chunks = given \o Reverse(indices)
        BY DEF Chunks
      <4>2. given' = Append(given, Last(indices))
        BY <2>1, <2>4
      <4>3. QED
        BY <1>o, <2>1, <4>1, <4>2, HandedOver
    <3>2. Settled' => Holds(Chunks)'
      <4>1. PICK k : k = Chunks
        OBVIOUS
      <4>2. Holds(Chunks)' <=> Holds(k)'
        BY <3>1, <4>1, Zenon DEF Holds
      <4>3. QED
        BY <1>f, <1>i, <2>1, <4>1, <4>2
    <3>3. QED
      BY <2>2, <2>4, <3>2 DEF SelectionInv
  <2>5. QED
    BY <2>1, <2>3, <2>4
<1>14. CASE UNCHANGED vars
  <2>1. UNCHANGED <<dim, span, indices, given, result>>
    BY <1>14 DEF vars
  <2>2. span' = Stride(dim)'
    BY <1>i, <1>s, <2>1
  <2>3. PICK i, D, k : i = indices /\ D = dim /\ k = Chunks
    OBVIOUS
  <2>4. Gathered(indices, dim)' <=> Gathered(indices, dim)
    <3>1. Gathered(indices, dim)' <=> Gathered(i, D)'
      BY <2>1, <2>3, Zenon DEF Gathered, Selected, Stride
    <3>2. QED
      BY <1>f, <2>3, <3>1
  <2>5. Holds(Chunks)' <=> Holds(Chunks)
    <3>1. Chunks' = k
      BY <2>1, <2>3 DEF Chunks
    <3>2. Holds(Chunks)' <=> Holds(k)'
      BY <3>1, Zenon DEF Holds
    <3>3. QED
      BY <1>f, <2>3, <3>2
  <2>6. QED
    BY <1>f, <1>i, <2>1, <2>2, <2>4, <2>5 DEF SelectionInv
<1>15. QED
  BY <1>1, <1>2, <1>3, <1>4, <1>5, <1>6, <1>7, <1>8, <1>9, <1>10, <1>11, <1>12, <1>13, <1>14,
     <1>16
     DEF Next

LEMMA SelectionCorrect == TypeInv /\ SelectionInv => ChunksAreSelection
<1> SUFFICES ASSUME TypeInv, SelectionInv, result = "ok", WithinPython, ~BoundWraps,
                    ~EmptyOutsideCut
             PROVE  ChunkBits = WantedBits /\ Ascending
  BY DEF ChunksAreSelection
<1>1. Bits(Chunks) = Selected(0) /\ Ordered(Chunks)
  BY DEF SelectionInv, Settled, Holds
<1>2. DOMAIN Chunks = 1 .. Len(Chunks)
  <2>1. given \in Seq(Nat \X Nat) /\ Reverse(indices) \in Seq(Nat \X Nat)
    BY Twice DEF TypeInv, TypeOK
  <2>2. Chunks \in Seq(Nat \X Nat)
    BY <2>1, ConcatProperties DEF Chunks
  <2>3. QED
    BY <2>2
<1>3. ChunkBits = Bits(Chunks) /\ (Ascending <=> Ordered(Chunks))
  BY <1>2, Zenon DEF ChunkBits, Bits, Ascending, Ordered
<1>4. WantedBits = Selected(0)
  <2>1. Rank \in Nat /\ Rank - 0 = Rank /\ \A d \in 1 .. Rank : d > 0
    BY StrideFacts
  <2>2. Stride(0) = view.bits * Product(view.shape)
    BY <2>1 DEF Stride, Product, Rank
  <2>3. QED
    BY <2>1, <2>2, Zenon DEF WantedBits, Selected, Digit
<1>5. QED
  BY <1>1, <1>3, <1>4

(* Whatever the shape, the element size and the ranges, when the walk ends  *)
(* without an error the chunks of SliceIterator, read in the order next     *)
(* hands them out, are the bits of the elements asked for, in order.  The   *)
(* two exceptions are requests the code answers otherwise: an empty         *)
(* selection outside of a cut, and in a release build a bound at the end of *)
(* usize, whose unchecked + 1 is 0; in a debug build the latter panics, so  *)
(* that there the theorem covers every bound.                               *)
THEOREM SelectsCorrect == Spec => []ChunksAreSelection
<1>1. Init => TypeInv /\ IndexRight /\ SelectionInv
  BY TypeInit, IndexInit, SelectionInit
<1>2. TypeInv /\ IndexRight /\ SelectionInv /\ [Next]_vars
        => (TypeInv /\ IndexRight /\ SelectionInv)'
  BY TypeStep, IndexStep, SelectionStep
<1>3. QED
  BY <1>1, <1>2, SelectionCorrect, PTL DEF Spec

-----------------------------------------------------------------------------
(* The shape is that of the bytes *)

LEMMA Joined ==
    ASSUME NEW T, NEW s \in Seq(T), NEW e \in T
    PROVE  /\ s \o <<e>> \in Seq(T) /\ Len(s \o <<e>>) = Len(s) + 1
           /\ \A k \in 1 .. Len(s) + 1 : (s \o <<e>>)[k] = IF k <= Len(s) THEN s[k] ELSE e
           /\ <<e>> \o s \in Seq(T) /\ Len(<<e>> \o s) = Len(s) + 1
           /\ \A k \in 1 .. Len(s) + 1 : (<<e>> \o s)[k] = IF k = 1 THEN e ELSE s[k - 1]
<1> DEFINE o == <<e>>
<1>1. o \in Seq(T) /\ Len(o) = 1 /\ o[1] = e /\ Len(s) \in Nat
  OBVIOUS
<1> HIDE DEF o
<1>2. s \o o \in Seq(T) /\ o \o s \in Seq(T)
  BY <1>1, ConcatProperties
<1>3. Len(s \o o) = Len(s) + Len(o) /\ Len(o \o s) = Len(o) + Len(s)
  BY <1>1, ConcatProperties
<1>4. \A k \in 1 .. Len(s) + Len(o) :
         (s \o o)[k] = IF k <= Len(s) THEN s[k] ELSE o[k - Len(s)]
  BY <1>1, ConcatProperties
<1>5. \A k \in 1 .. Len(o) + Len(s) :
         (o \o s)[k] = IF k <= Len(o) THEN o[k] ELSE s[k - Len(o)]
  BY <1>1, ConcatProperties
<1> DEFINE n == Len(s)
<1>6. n \in Nat
  BY <1>1
<1> DEFINE x == s \o o
           y == o \o s
<1>7. /\ Len(x) = n + 1 /\ \A k \in 1 .. n + 1 : x[k] = IF k <= n THEN s[k] ELSE o[k - n]
      /\ Len(y) = 1 + n /\ \A k \in 1 .. 1 + n : y[k] = IF k <= 1 THEN o[k] ELSE s[k - 1]
  BY <1>1, <1>3, <1>4, <1>5
<1> HIDE DEF n, x, y
<1>8. \A k \in 1 .. n + 1 : x[k] = IF k <= n THEN s[k] ELSE e
  <2>1. \A k \in 1 .. n + 1 : ~(k <= n) => k - n = 1
    BY <1>6
  <2>2. QED
    BY <1>1, <1>7, <2>1
<1>9. Len(y) = n + 1 /\ \A k \in 1 .. n + 1 : y[k] = IF k = 1 THEN e ELSE s[k - 1]
  <2>1. 1 + n = n + 1 /\ \A k \in 1 .. n + 1 : k <= 1 <=> k = 1
    BY <1>6
  <2>2. QED
    BY <1>1, <1>7, <2>1
<1>10. QED
  BY <1>2, <1>7, <1>8, <1>9 DEF x, y, n, o

LEMMA ReverseJoined ==
    ASSUME NEW T, NEW s \in Seq(T), NEW e \in T
    PROVE  Reverse(s \o <<e>>) = <<e>> \o Reverse(s)
<1> DEFINE n == Len(s)
           x == s \o <<e>>
           r == Reverse(s)
           y == <<e>> \o r
<1>1. n \in Nat /\ x \in Seq(T) /\ Len(x) = n + 1
      /\ \A k \in 1 .. n + 1 : x[k] = IF k <= n THEN s[k] ELSE e
  BY Joined
<1>2. r \in Seq(T) /\ Len(r) = n /\ \A k \in 1 .. n : r[k] = s[(n - k) + 1]
  BY Twice DEF Reverse
<1> HIDE DEF r
<1>3. y \in Seq(T) /\ Len(y) = n + 1 /\ \A k \in 1 .. n + 1 : y[k] = IF k = 1 THEN e ELSE r[k - 1]
  BY <1>2, Joined
<1> HIDE DEF x, y, n
<1>4. /\ Reverse(x) \in Seq(T) /\ Len(Reverse(x)) = n + 1
      /\ \A k \in 1 .. n + 1 : Reverse(x)[k] = x[((n + 1) - k) + 1]
  BY <1>1, Twice DEF Reverse
<1> DEFINE z == Reverse(x)
<1> HIDE DEF z
<1>5. ASSUME NEW k \in 1 .. n + 1 PROVE z[k] = y[k]
  <2>1. CASE k = 1
    <3>1. ((n + 1) - k) + 1 = n + 1 /\ n + 1 \in 1 .. n + 1 /\ ~(n + 1 <= n)
      BY <1>1, <2>1
    <3>2. QED
      BY <1>1, <1>3, <1>4, <2>1, <3>1 DEF z
  <2>2. CASE k # 1
    <3> DEFINE i == ((n + 1) - k) + 1
               j == k - 1
    <3>1. i \in 1 .. n + 1 /\ i <= n /\ j \in 1 .. n /\ (n - j) + 1 = i
      BY <1>1, <2>2
    <3>2. z[k] = x[i] /\ y[k] = r[j]
      BY <1>3, <1>4, <2>2 DEF z
    <3> HIDE DEF i, j
    <3>3. QED
      BY <1>1, <1>2, <3>1, <3>2
  <2>3. QED
    BY <2>1, <2>2
<1>6. z = y
  BY <1>3, <1>4, <1>5, SeqEqual DEF z
<1>7. QED
  BY <1>6 DEF x, y, z, r

LEMMA ProductJoined ==
    ASSUME NEW s \in Seq(Nat), NEW e \in Nat
    PROVE  Product(<<e>> \o s) = e * Product(s) /\ Product(s) \in Nat
<1> DEFINE n == Len(s)
           t == <<e>> \o s
           Good == {k \in 0 .. n : Inner(t, k) = Inner(s, k)}
<1>1. n \in Nat /\ t \in Seq(Nat) /\ Len(t) = n + 1
      /\ \A k \in 1 .. n + 1 : t[k] = IF k = 1 THEN e ELSE s[k - 1]
  BY Joined
<1> HIDE DEF t
<1>2. /\ Inner(s, 0) = 1 /\ \A k \in 0 .. n : Inner(s, k) \in Nat
      /\ \A k \in 1 .. n : Inner(s, k) = Inner(s, k - 1) * s[(n - k) + 1]
  <2>1. \A k : Len(s) - k + 1 = (Len(s) - k) + 1
    OBVIOUS
  <2>2. QED
    BY <2>1, InnerSteps
<1>3. /\ Inner(t, 0) = 1
      /\ \A k \in 1 .. n + 1 : Inner(t, k) = Inner(t, k - 1) * t[((n + 1) - k) + 1]
  <2>1. /\ Inner(t, 0) = 1
        /\ \A k \in 1 .. Len(t) : Inner(t, k) = Inner(t, k - 1) * t[Len(t) - k + 1]
    BY <1>1, InnerSteps
  <2>2. \A k \in 1 .. n + 1 : Len(t) - k + 1 = ((n + 1) - k) + 1 /\ k \in 1 .. Len(t)
    BY <1>1
  <2>3. QED
    BY <2>1, <2>2
<1> HIDE DEF n
<1>4. 0 \in Good
  BY <1>1, <1>2, <1>3
<1>5. ASSUME NEW i \in 0 .. (n - 1), i \in Good PROVE i + 1 \in Good
  <2> DEFINE k == i + 1
             j == (n - k) + 1
  <2>1. /\ k \in 1 .. n /\ k \in 1 .. n + 1 /\ k \in 0 .. n /\ k - 1 = i
        /\ ((n + 1) - k) + 1 = j + 1 /\ j + 1 \in 1 .. n + 1 /\ j + 1 # 1 /\ (j + 1) - 1 = j
    BY <1>1
  <2> HIDE DEF k, j
  <2>2. Inner(t, k) = Inner(t, i) * t[j + 1]
    BY <1>3, <2>1
  <2>3. t[j + 1] = s[j]
    BY <1>1, <2>1
  <2>4. Inner(s, k) = Inner(s, i) * s[j]
    BY <1>2, <2>1 DEF j
  <2>5. Inner(t, i) = Inner(s, i)
    BY <1>5
  <2>6. Inner(t, k) = Inner(s, k)
    BY <2>2, <2>3, <2>4, <2>5
  <2>7. k \in Good
    BY <2>1, <2>6
  <2>8. QED
    BY <2>7 DEF k
<1>6. \A i \in 0 .. n : i \in Good
  <2> HIDE DEF Good
  <2>1. QED
    BY <1>1, <1>4, <1>5, Induct
<1>7. Inner(t, n) = Inner(s, n) /\ Inner(s, n) \in Nat
  <2>1. n \in 0 .. n
    BY <1>1
  <2>2. QED
    BY <1>2, <1>6, <2>1
<1>8. Inner(t, n + 1) = Inner(t, n) * e
  <2>1. n + 1 \in 1 .. n + 1 /\ (n + 1) - 1 = n /\ ((n + 1) - (n + 1)) + 1 = 1 /\ 1 \in 1 .. n + 1
    BY <1>1
  <2>2. t[1] = e
    BY <1>1, <2>1
  <2>3. Inner(t, n + 1) = Inner(t, (n + 1) - 1) * t[((n + 1) - (n + 1)) + 1]
    BY <1>3, <2>1
  <2>4. QED
    BY <2>1, <2>2, <2>3
<1>9. Product(t) = Inner(t, n + 1) /\ Product(s) = Inner(s, n)
  BY <1>1 DEF Product, n
<1> DEFINE p == Inner(s, n)
<1>10. p \in Nat /\ Product(t) = p * e /\ Product(s) = p
  BY <1>7, <1>8, <1>9
<1> HIDE DEF p
<1>11. QED
  BY <1>10 DEF t

(* The requests ShapeMatchesBytes speaks of *)
Sized == Settled /\ ~ReversedRange

(* The bits selected in an index of D, counted *)
Weight(D) == view.bits * Product(ShapeAsked(Rank - D))

(* The ranges i are of one length, and as many bits as are asked for.       *)
Measured(i, D) ==
    IF i = <<>>
    THEN Weight(D) = Stride(D)
    ELSE \E L \in Nat :
            /\ \A k \in 1 .. Len(i) : i[k][2] = i[k][1] + L
            /\ 8 * (Len(i) * L) = Weight(D)

ShapeInv ==
    /\ result = "asked" => newshape = <<>>
    /\ Sized /\ result = "slicing" =>
          Reverse(newshape) = ShapeAsked(Rank - dim) /\ Measured(indices, dim)
    /\ Sized /\ result = "ok" =>
          /\ newshape = ShapeAsked(Rank)
          /\ given = <<>> => indices # <<>> /\ Measured(indices, 0)

ShapeEquations ==
    /\ ShapeAsked(0) = <<>>
    /\ \A k \in 1 .. Rank : ShapeAsked(k) = New(Rank - k + 1) \o ShapeAsked(k - 1)

LEMMA ShapesNow == Rank \in Nat => ShapeEquations
BY ShapeSteps DEF ShapeEquations

LEMMA ShapesNext == (Rank \in Nat)' => ShapeEquations'
BY ShapesNow, PTL

LEMMA SameShape ==
    ASSUME TypeInv, checked' = checked, view' = view, request' = request
    PROVE  /\ \A k \in 0 .. Rank : ShapeAsked(k)' = ShapeAsked(k)
           /\ \A D \in 0 .. Rank : Weight(D)' = Weight(D)
           /\ \A i : \A D \in 0 .. Rank : Measured(i, D)' <=> Measured(i, D)
<1>1. Rank' = Rank /\ Rank \in Nat
  BY SameRequest, StrideFacts
<1>2. ASSUME NEW d PROVE New(d)' = New(d)
  <2>1. Chosen(d)' = Chosen(d) /\ (Dropped(d)' <=> Dropped(d))
    BY SameRequest
  <2>2. QED
    BY <2>1, Zenon DEF New
<1>3. ShapeAsked(0)' = <<>> /\ ShapeAsked(0) = <<>>
  BY <1>1, ShapesNow, ShapesNext DEF ShapeEquations
<1>4. ASSUME NEW k \in 1 .. Rank
      PROVE  /\ ShapeAsked(k)' = New(Rank - k + 1) \o ShapeAsked(k - 1)'
             /\ ShapeAsked(k) = New(Rank - k + 1) \o ShapeAsked(k - 1)
  <2>1. ShapeEquations' /\ ShapeEquations
    BY <1>1, ShapesNow, ShapesNext
  <2>2. ShapeAsked(k)' = New(Rank - k + 1)' \o ShapeAsked(k - 1)'
    BY <1>1, <2>1 DEF ShapeEquations
  <2>3. ShapeAsked(k) = New(Rank - k + 1) \o ShapeAsked(k - 1)
    BY <2>1 DEF ShapeEquations
  <2>4. PICK d : d = Rank - k + 1
    OBVIOUS
  <2>5. New(Rank - k + 1)' = New(d)'
    BY <1>1, <2>4, Zenon DEF New, Dropped, Chosen, Asked, PythonChosen, RustChosen
  <2>6. QED
    BY <1>2, <2>2, <2>3, <2>4, <2>5
<1>5. \A k \in 0 .. Rank : ShapeAsked(k)' = ShapeAsked(k)
  <2> DEFINE Good == {k \in 0 .. Rank : ShapeAsked(k)' = ShapeAsked(k)}
  <2>1. 0 \in Good
    BY <1>1, <1>3
  <2>2. ASSUME NEW i \in 0 .. (Rank - 1), i \in Good PROVE i + 1 \in Good
    <3>1. PICK k \in 1 .. Rank : k = i + 1 /\ k - 1 = i
      BY <1>1
    <3>2. ShapeAsked(k - 1)' = ShapeAsked(i)' /\ ShapeAsked(k - 1) = ShapeAsked(i)
      BY <3>1
    <3>3. ShapeAsked(k)' = ShapeAsked(k)
      BY <1>4, <2>2, <3>2
    <3>4. QED
      BY <1>1, <3>1, <3>3
  <2> HIDE DEF Good
  <2>3. \A i \in 0 .. Rank : i \in Good
    BY <1>1, <2>1, <2>2, Induct
  <2>4. QED
    BY <2>3 DEF Good
<1>6. ASSUME NEW D \in 0 .. Rank PROVE Weight(D)' = Weight(D)
  <2>1. PICK k \in 0 .. Rank : k = Rank - D
    BY <1>1
  <2>2. Weight(D)' = view'.bits * Product(ShapeAsked(Rank - D)')
    BY DEF Weight
  <2>3. ShapeAsked(Rank - D)' = ShapeAsked(k)'
    BY <1>1, <2>1, Zenon DEF ShapeAsked
  <2>4. QED
    BY <1>5, <2>1, <2>2, <2>3 DEF Weight
<1>7. ASSUME NEW D PROVE Stride(D)' = Stride(D)
  BY SameSelection
<1>8. ASSUME NEW i, NEW D \in 0 .. Rank PROVE Measured(i, D)' <=> Measured(i, D)
  BY <1>6, <1>7, Zenon DEF Measured
<1>9. QED
  BY <1>5, <1>6, <1>8

(* One dimension more *)
LEMMA ShapeTurn ==
    ASSUME TypeInv, NEW D \in 1 .. Rank, NEW a \in Nat, NEW z \in Nat, a <= z,
           ShapeAsked(Rank - D) \in Seq(Nat),
           Chosen(D) = a .. (z - 1), Dropped(D) => z = a + 1
    PROVE  /\ ShapeAsked(Rank - (D - 1)) = New(D) \o ShapeAsked(Rank - D)
           /\ New(D) = IF Dropped(D) THEN <<>> ELSE <<z - a>>
           /\ Weight(D) \in Nat
           /\ Weight(D - 1) = (z - a) * Weight(D)
<1> DEFINE s == ShapeAsked(Rank - D)
           t == ShapeAsked(Rank - (D - 1))
           c == z - a
<1>1. Rank \in Nat /\ view.bits \in Nat
  BY StrideFacts
<1>2. t = New(D) \o s
  <2>1. Rank - (D - 1) \in 1 .. Rank /\ (Rank - (D - 1)) - 1 = Rank - D
        /\ Rank - (Rank - (D - 1)) + 1 = D
    BY <1>1
  <2>2. \A k \in 1 .. Rank : ShapeAsked(k) = New(Rank - k + 1) \o ShapeAsked(k - 1)
    BY <1>1, ShapeSteps
  <2>3. QED
    BY <2>1, <2>2
<1>3. Cardinality(Chosen(D)) = c /\ c \in Nat
  <2>1. Cardinality(a .. (z - 1)) = IF a > z - 1 THEN 0 ELSE (z - 1) - a + 1
    BY FS_Interval
  <2>2. QED
    BY <2>1
<1>4. New(D) = IF Dropped(D) THEN <<>> ELSE <<c>>
  BY <1>3 DEF New
<1> DEFINE p == Product(s)
<1> HIDE DEF s, t
<1>5. s \in Seq(Nat)
  BY DEF s
<1>6. p \in Nat /\ Product(t) = c * p
  <2>1. \A e \in Nat : Product(<<e>> \o s) = e * p /\ p \in Nat
    BY <1>5, ProductJoined
  <2>2. CASE ~Dropped(D)
    <3>1. t = <<c>> \o s
      BY <1>2, <1>4, <2>2
    <3> HIDE DEF c, p
    <3>2. QED
      BY <1>3, <2>1, <3>1
  <2>3. CASE Dropped(D)
    <3>1. c = 1
      BY <2>3
    <3>2. t = s
      BY <1>2, <1>4, <1>5, <2>3, ConcatEmptySeq
    <3>3. p \in Nat
      BY <2>1
    <3> HIDE DEF c, p
    <3>4. Product(t) = p /\ c * p = p
      BY <3>1, <3>2, <3>3 DEF p
    <3>5. QED
      BY <3>3, <3>4
  <2>4. QED
    BY <2>2, <2>3
<1>7. Weight(D) = view.bits * p /\ Weight(D - 1) = view.bits * Product(t)
  BY DEF Weight, s, t
<1> HIDE DEF p, c
<1>8. view.bits * (c * p) = c * (view.bits * p) /\ view.bits * p \in Nat
  BY <1>1, <1>3, <1>6
<1>9. Weight(D) \in Nat /\ Weight(D - 1) = c * Weight(D)
  BY <1>6, <1>7, <1>8
<1>10. QED
  BY <1>2, <1>4, <1>9 DEF s, t, c

LEMMA ShapeStart ==
    ASSUME TypeInv
    PROVE  Reverse(<<>>) = ShapeAsked(Rank - Rank) /\ Measured(<<>>, Rank)
<1>1. Rank \in Nat /\ Rank - Rank = 0 /\ view.bits \in Nat /\ Stride(Rank) = view.bits
  BY StrideFacts
<1>2. ShapeAsked(0) = <<>>
  BY <1>1, ShapeSteps
<1>3. Reverse(<<>>) = <<>>
  BY DEF Reverse
<1>4. Product(<<>>) = 1
  <2>1. <<>> \in Seq(Nat) /\ Len(<<>>) = 0
    OBVIOUS
  <2>2. QED
    BY <2>1, InnerSteps DEF Product
<1>5. Weight(Rank) = view.bits
  BY <1>1, <1>2, <1>4 DEF Weight
<1>6. QED
  BY <1>1, <1>2, <1>3, <1>5 DEF Measured

LEMMA ShapeInit == Init => ShapeInv
BY DEF Init, ShapeInv

LEMMA TurnSizes ==
    ASSUME TypeInv, ShapeInv, Walking, [Next]_vars, NEW i, NEW n, Turn(i, n),
           Sized => Reverse(newshape \o n) = ShapeAsked(Rank - (dim - 1)) /\ Measured(i, dim - 1)
    PROVE  ShapeInv'
<1>1. dim \in 1 .. Rank /\ dim - 1 \in 0 .. Rank /\ Rank \in Nat
  BY WalkTypes
<1>2. /\ indices' = i /\ newshape' = newshape \o n /\ dim' = dim - 1
      /\ view' = view /\ request' = request /\ result' = result /\ index' = index
      /\ checked' = checked /\ result = "slicing"
  BY DEF Turn, Walking
<1>3. Settled' <=> Settled
  BY <1>2, SameSelection
<1>4. ReversedRange' <=> ReversedRange
  BY <1>2, Zenon DEF ReversedRange
<1>5. Rank' = Rank
  BY <1>2, SameRequest
<1> PICK D \in 0 .. Rank, k \in 0 .. Rank : D = dim - 1 /\ k = Rank - (dim - 1)
  BY <1>1
<1> PICK c : c = i
  OBVIOUS
<1>6. ShapeAsked(k)' = ShapeAsked(k) /\ (Measured(c, D)' <=> Measured(c, D))
  BY <1>2, SameShape
<1>7. dim' = D /\ indices' = c
  BY <1>2
<1>8. Measured(indices, dim)' <=> Measured(c, D)'
  BY <1>7, Zenon DEF Measured, Weight, Stride
<1>9. Rank' - dim' = k
  BY <1>5, <1>7
<1>10. ShapeAsked(Rank - dim)' = ShapeAsked(k)'
  BY <1>9, Zenon DEF ShapeAsked
<1>11. Sized' => Reverse(newshape') = ShapeAsked(k) /\ Measured(c, D)
  BY <1>2, <1>3, <1>4 DEF Sized
<1>12. Sized' => Reverse(newshape)' = ShapeAsked(Rank - dim)' /\ Measured(indices, dim)'
  <2>1. Reverse(newshape)' = Reverse(newshape')
    BY Zenon DEF Reverse
  <2>2. QED
    BY <1>6, <1>8, <1>10, <1>11, <2>1
<1>13. QED
  BY <1>2, <1>12 DEF ShapeInv

(* The ranges of a dimension measured, from those of the ones inside        *)
LEMMA CutMeasures ==
    ASSUME NEW s \in Nat, NEW a \in Nat, NEW z \in Nat, a <= z, NEW p \in Nat, NEW q \in Nat,
           8 * p = a * s, 8 * q = z * s
    PROVE  q - p \in Nat /\ q = p + (q - p) /\ 8 * (1 * (q - p)) = (z - a) * s
<1>1. PICK e \in Nat : z = a + e
  <2>1. z - a \in Nat /\ z = a + (z - a)
    OBVIOUS
  <2>2. QED
    BY <2>1
<1> DEFINE x == a * s
           y == e * s
<1>2. x \in Nat /\ y \in Nat /\ z * s = x + y /\ z - a = e
  BY <1>1
<1> HIDE DEF x, y
<1>3. 8 * p = x /\ 8 * q = x + y
  BY <1>2 DEF x
<1>4. q - p \in Nat /\ q = p + (q - p) /\ 8 * (1 * (q - p)) = y
  BY <1>2, <1>3
<1>5. QED
  BY <1>2, <1>4 DEF y

LEMMA RepeatMeasures ==
    ASSUME from \in Nat, to \in Nat, from <= to, span \in Nat,
           indices \in Seq(Nat \X Nat), indices # <<>>,
           NEW L \in Nat, \A k \in 1 .. Len(indices) : indices[k][2] = indices[k][1] + L,
           NEW w \in Nat, 8 * (Len(indices) * L) = w
    PROVE  /\ \A k \in 1 .. Len(Repeated) : Repeated[k][2] = Repeated[k][1] + L
           /\ 8 * (Len(Repeated) * L) = (to - from) * w
<1>1. ASSUME NEW k \in 1 .. Len(Repeated) PROVE Repeated[k][2] = Repeated[k][1] + L
  <2>1. PICK n \in from .. (to - 1), j \in 1 .. Len(indices) : Repeated[k] = Moved(indices[j], n)
    BY RepeatedAt
  <2> DEFINE x == n * span
             off == x \div 8
             a == indices[j][1]
             b == indices[j][2]
             r == Repeated[k]
  <2>2. n \in Nat /\ x \in Nat /\ a \in Nat /\ b = a + L
    <3>1. n \in Nat /\ x \in Nat
      OBVIOUS
    <3>2. indices[j] \in Nat \X Nat
      OBVIOUS
    <3>3. QED
      BY <3>1, <3>2
  <2>3. r = <<a + off, b + off>>
    BY <2>1 DEF Moved
  <2> HIDE DEF x, a, b, r
  <2>4. off \in Nat
    BY <2>2, DivMod
  <2> HIDE DEF off
  <2>5. r[1] = a + off /\ r[2] = b + off
    BY <2>3
  <2>6. r[2] = r[1] + L
    BY <2>2, <2>4, <2>5
  <2>7. QED
    BY <2>6 DEF r
<1>2. 8 * (Len(Repeated) * L) = (to - from) * w
  <2> DEFINE l == Len(indices)
             c == to - from
  <2>1. l \in Nat /\ c \in Nat /\ Len(Repeated) = c * l /\ w = 8 * (l * L)
    BY RepeatedType
  <2> HIDE DEF l, c
  <2>2. 8 * ((c * l) * L) = c * (8 * (l * L))
    BY <2>1
  <2>3. QED
    BY <2>1, <2>2 DEF c
<1>3. QED
  BY <1>1, <1>2

(* What the dimension under the walk adds to the shape *)
LEMMA TurnShape ==
    ASSUME TypeInv, Walking, NEW a \in Nat, NEW z \in Nat, a <= z,
           Reverse(newshape) = ShapeAsked(Rank - dim),
           Chosen(dim) = a .. (z - 1), Dropped(dim) => z = a + 1,
           NEW n, n = IF Dropped(dim) THEN <<>> ELSE <<z - a>>
    PROVE  /\ Reverse(newshape \o n) = ShapeAsked(Rank - (dim - 1))
           /\ Weight(dim) \in Nat /\ Weight(dim - 1) = (z - a) * Weight(dim)
<1>1. dim \in 1 .. Rank
  BY WalkTypes
<1>2. newshape \in Seq(Nat)
  BY DEF TypeInv, TypeOK
<1>3. ShapeAsked(Rank - dim) \in Seq(Nat)
  <2>1. Reverse(newshape) \in Seq(Nat)
    BY <1>2, Twice
  <2>2. QED
    BY <2>1
<1>4. /\ ShapeAsked(Rank - (dim - 1)) = New(dim) \o Reverse(newshape)
      /\ New(dim) = n /\ Weight(dim) \in Nat /\ Weight(dim - 1) = (z - a) * Weight(dim)
  <2> DEFINE s == Reverse(newshape)
  <2> HIDE DEF s
  <2>1. s = ShapeAsked(Rank - dim)
    BY DEF s
  <2>2. /\ ShapeAsked(Rank - (dim - 1)) = New(dim) \o ShapeAsked(Rank - dim)
        /\ New(dim) = IF Dropped(dim) THEN <<>> ELSE <<z - a>>
        /\ Weight(dim) \in Nat /\ Weight(dim - 1) = (z - a) * Weight(dim)
    BY <1>1, <1>3, ShapeTurn
  <2>3. QED
    BY <2>1, <2>2 DEF s
<1>5. Reverse(newshape \o n) = n \o Reverse(newshape)
  <2>1. CASE Dropped(dim)
    <3>1. newshape \o n = newshape
      BY <1>2, <2>1, ConcatEmptySeq
    <3>2. Reverse(newshape) \in Seq(Nat)
      BY <1>2, Twice
    <3>3. n \o Reverse(newshape) = Reverse(newshape)
      BY <2>1, <3>2, ConcatEmptySeq
    <3>4. QED
      BY <3>1, <3>3
  <2>2. CASE ~Dropped(dim)
    <3> PICK e : e = z - a
      OBVIOUS
    <3>1. e \in Nat /\ n = <<e>>
      BY <2>2
    <3>2. Reverse(newshape \o <<e>>) = <<e>> \o Reverse(newshape)
      BY <1>2, <3>1, ReverseJoined
    <3>3. QED
      BY <3>1, <3>2
  <2>3. QED
    BY <2>1, <2>2
<1>6. QED
  BY <1>4, <1>5

LEMMA ShapeStep == TypeInv /\ IndexRight /\ SelectionInv /\ ShapeInv /\ [Next]_vars => ShapeInv'
<1> SUFFICES ASSUME TypeInv, IndexRight, SelectionInv, ShapeInv, [Next]_vars PROVE ShapeInv'
  OBVIOUS
<1>f. /\ view' = view /\ request' = request /\ Rank' = Rank
      /\ \A k \in 0 .. Rank : ShapeAsked(k)' = ShapeAsked(k)
      /\ \A i : \A D \in 0 .. Rank : Measured(i, D)' <=> Measured(i, D)
      /\ Settled' <=> Settled
  BY Fixed, SameSelection, SameShape
<1>r. index' = index => (Sized' <=> Sized)
  <2>1. index' = index => (ReversedRange' <=> ReversedRange)
    BY <1>f, Zenon DEF ReversedRange
  <2>2. QED
    BY <1>f, <2>1 DEF Sized
<1>i. /\ span = Stride(dim)
      /\ result = "asked" => indices = <<>> /\ dim = Rank /\ newshape = <<>>
      /\ result \in {"asked", "slicing"} => given = <<>>
      /\ Sized => (result = "slicing" => Reverse(newshape) = ShapeAsked(Rank - dim)
                                         /\ Measured(indices, dim) /\ Gathered(indices, dim))
      /\ Sized => (result = "ok" => newshape = ShapeAsked(Rank))
      /\ Sized => (result = "ok" => (given = <<>> => indices # <<>> /\ Measured(indices, 0)))
  BY DEF SelectionInv, ShapeInv, Sized
<1>o. /\ indices \in Seq(Nat \X Nat) /\ given \in Seq(Nat \X Nat) /\ newshape \in Seq(Nat)
      /\ span \in Nat /\ dim \in 0 .. Rank /\ Rank \in Nat
  BY StrideFacts DEF TypeInv, TypeOK
<1>a. ASSUME NEW r \in {"panic", "InvalidIndex", "TooManySlices", "SliceOutOfRange", "MisalignedSlice"},
             Answer(r)
      PROVE  ShapeInv'
  <2>1. result' = r /\ r \notin {"asked", "slicing", "ok"}
    BY <1>a DEF Answer
  <2>2. QED
    BY <2>1 DEF ShapeInv
<1>b. ASSUME UNCHANGED <<dim, indices, newshape>>, result = "asked", result' = "slicing"
      PROVE  ShapeInv'
  <2>1. Reverse(<<>>) = ShapeAsked(Rank - Rank) /\ Measured(<<>>, Rank)
    BY ShapeStart
  <2>2. PICK i : i = <<>>
    OBVIOUS
  <2>3. PICK D \in 0 .. Rank, k \in 0 .. Rank : D = dim /\ k = Rank - dim
    BY <1>o
  <2>4. Measured(indices, dim)' <=> Measured(i, D)'
    BY <1>b, <1>i, <2>2, <2>3, Zenon DEF Measured, Weight, Stride
  <2>5. ShapeAsked(Rank - dim)' = ShapeAsked(k)'
    BY <1>b, <1>f, <2>3, Zenon DEF ShapeAsked
  <2>6. Reverse(newshape)' = Reverse(<<>>)
    BY <1>b, <1>i, Zenon DEF Reverse
  <2>7. Reverse(<<>>) = ShapeAsked(k) /\ Measured(i, D)
    BY <1>b, <1>i, <2>1, <2>2, <2>3
  <2>8. QED
    BY <1>b, <1>f, <2>4, <2>5, <2>6, <2>7 DEF ShapeInv
<1>1. CASE RustSlice
  BY <1>b, <1>1 DEF RustSlice
<1>2. CASE PythonSlice
  BY <1>b, <1>2 DEF PythonSlice
<1>3. CASE PythonRefused
  BY <1>a, <1>3 DEF PythonRefused
<1>4. CASE TooMany
  BY <1>a, <1>4 DEF TooMany
<1>w. ASSUME Walking
      PROVE  /\ dim \in 1 .. Rank /\ Begun /\ result = "slicing"
             /\ extent \in Nat /\ extent < Limit /\ extent = view.shape[dim]
             /\ Stride(dim) \in Nat /\ Stride(dim - 1) = Stride(dim) * extent
  <2>1. dim \in 1 .. Rank /\ extent \in Nat /\ extent < Limit
    BY <1>w, WalkTypes
  <2>2. QED
    BY <1>w, <2>1, <1>o, StrideFacts DEF Walking, Begun, extent
(* A dimension taken whole *)
<1>x. ASSUME Walking, Sized, indices = <<>>, NEW n, Full(dim), Dropped(dim) => extent = 1,
             n = IF Dropped(dim) THEN <<>> ELSE <<extent>>
      PROVE  Reverse(newshape \o n) = ShapeAsked(Rank - (dim - 1)) /\ Measured(<<>>, dim - 1)
  <2>1. Reverse(newshape) = ShapeAsked(Rank - dim) /\ Measured(indices, dim)
    BY <1>i, <1>w, <1>x
  <2>2. 0 <= extent /\ extent - 0 = extent /\ (extent = 1 => extent = 0 + 1) /\ 0 \in Nat
    BY <1>w, <1>x
  <2>3. Chosen(dim) = 0 .. (extent - 1)
    BY <1>x DEF Full, extent
  <2>4. n = IF Dropped(dim) THEN <<>> ELSE <<extent - 0>>
    BY <1>x, <2>2
  <2>5. /\ Reverse(newshape \o n) = ShapeAsked(Rank - (dim - 1))
        /\ Weight(dim) \in Nat /\ Weight(dim - 1) = (extent - 0) * Weight(dim)
    <3> HIDE DEF extent
    <3>1. QED
      BY <1>w, <1>x, <2>1, <2>2, <2>3, <2>4, TurnShape
  <2>6. Weight(dim) = Stride(dim)
    BY <1>x, <2>1 DEF Measured
  <2>7. Weight(dim - 1) = Stride(dim - 1)
    BY <1>w, <1>x, <2>2, <2>5, <2>6
  <2>8. QED
    BY <2>5, <2>7 DEF Measured
<1>5. CASE Widen
  <2>1. Walking /\ dim > Len(index) /\ Turn(indices, <<extent>>)
    BY <1>5 DEF Widen
  <2>2. ASSUME Sized
        PROVE  Reverse(newshape \o <<extent>>) = ShapeAsked(Rank - (dim - 1)) /\ Measured(indices, dim - 1)
    <3>1. Gathered(indices, dim)
      BY <1>i, <1>w, <2>1, <2>2
    <3>2. \A e \in 1 .. Rank : e >= dim => Full(e) /\ ~Dropped(e)
      <4>1. ASSUME NEW e \in 1 .. Rank, e >= dim PROVE Full(e) /\ ~Dropped(e)
        <5>1. Len(index) < e
          <6>1. Len(index) \in Nat /\ dim \in Nat
            BY <1>w, <2>1, ItemFacts
          <6>2. QED
            BY <2>1, <4>1, <6>1
        <5>2. QED
          BY <1>w, <2>1, <5>1, Unindexed DEF Full
      <4>2. QED
        BY <4>1
    <3>3. indices = <<>>
      <4>1. SUFFICES ASSUME indices # <<>> PROVE FALSE
        OBVIOUS
      <4>2. PICK e \in 1 .. Rank : e > dim /\ ~Full(e)
        BY <3>1, <4>1 DEF Gathered
      <4>3. e >= dim
        BY <1>w, <2>1, <4>2
      <4>4. QED
        BY <3>2, <4>2, <4>3
    <3>4. Full(dim) /\ ~Dropped(dim)
      <4>1. dim >= dim /\ dim \in 1 .. Rank
        BY <1>w, <2>1
      <4>2. QED
        BY <3>2, <4>1
    <3>5. <<extent>> = IF Dropped(dim) THEN <<>> ELSE <<extent>>
      BY <3>4
    <3> HIDE DEF extent
    <3>6. QED
      BY <1>x, <2>1, <2>2, <3>3, <3>4, <3>5
  <2>3. QED
    BY <2>1, <2>2, TurnSizes
<1>16. CASE Overflows
  BY <1>a, <1>16 DEF Overflows
<1>6. CASE OutOfRange
  BY <1>a, <1>6 DEF OutOfRange
<1>7. CASE Reversed
  BY <1>a, <1>7 DEF Reversed
<1>c. ASSUME Subtracts, Sized
      PROVE  /\ Walking /\ from \in Nat /\ to \in Nat /\ from <= to /\ to <= extent
             /\ Chosen(dim) = from .. (to - 1)
             /\ Dropped(dim) => to = from + 1
             /\ Kept = IF Dropped(dim) THEN <<>> ELSE <<to - from>>
             /\ Reverse(newshape) = ShapeAsked(Rank - dim) /\ Measured(indices, dim)
  <2>1. Walking /\ dim <= Len(index) /\ InBounds /\ WithinPython /\ ~BoundWraps
    BY <1>c DEF Subtracts, Converts, InBounds, Settled, Sized
  <2>2. /\ from \in Nat /\ to \in Nat /\ extent \in Nat /\ from < extent /\ to <= extent
        /\ Chosen(dim) = from .. (to - 1) /\ ~PastLimit(index[dim])
    BY <2>1, WalkChosen
  <2>3. from <= to
    <3>1. dim \in DOMAIN index
      <4>1. index \in Seq(Indexers) /\ dim \in Nat /\ dim > 0
        BY <1>w, <2>1 DEF TypeInv
      <4>2. QED
        BY <2>1, <4>1
    <3>2. ~(to < from)
      BY <1>c, <3>1 DEF Sized, ReversedRange, to, from, extent
    <3>3. QED
      BY <2>2, <3>2
  <2>4. (Dropped(dim) <=> index[dim].select) /\ (index[dim].select => to = from + 1)
    BY <1>w, <2>1, <2>2, Indexed DEF to, from, extent
  <2>5. (to - from) % Limit = to - from
    <3> DEFINE c == to - from
    <3>1. c \in Nat /\ c < Limit /\ Limit \in Nat /\ Limit > 0
      BY <1>w, <2>1, <2>2, <2>3, SliceAssumption
    <3> HIDE DEF c
    <3>2. (Limit * 0 + c) % Limit = c
      BY <3>1, DivUnique
    <3>3. Limit * 0 + c = c
      BY <3>1
    <3>4. QED
      BY <3>2, <3>3 DEF c
  <2>6. Kept = IF Dropped(dim) THEN <<>> ELSE <<to - from>>
    BY <2>4, <2>5, Zenon DEF Kept
  <2>7. Reverse(newshape) = ShapeAsked(Rank - dim) /\ Measured(indices, dim)
    BY <1>c, <1>i, <1>w, <2>1
  <2>8. QED
    BY <2>1, <2>2, <2>3, <2>4, <2>6, <2>7
<1>8. CASE Whole
  <2>1. Subtracts /\ Walking /\ indices = <<>> /\ from = 0 /\ to = extent /\ Turn(<<>>, Kept)
    BY <1>8 DEF Whole, Subtracts, Converts, InBounds
  <2>2. ASSUME Sized
        PROVE  Reverse(newshape \o Kept) = ShapeAsked(Rank - (dim - 1)) /\ Measured(<<>>, dim - 1)
    <3>1. /\ Chosen(dim) = from .. (to - 1) /\ (Dropped(dim) => to = from + 1)
          /\ Kept = IF Dropped(dim) THEN <<>> ELSE <<to - from>>
      BY <1>c, <2>1, <2>2
    <3>2. Full(dim) /\ (Dropped(dim) => extent = 1) /\ extent - 0 = extent
      BY <1>w, <2>1, <3>1 DEF Full
    <3>3. Kept = IF Dropped(dim) THEN <<>> ELSE <<extent>>
      BY <2>1, <3>1, <3>2
    <3> HIDE DEF extent, Kept
    <3>4. QED
      BY <1>x, <2>1, <2>2, <3>2, <3>3
  <2>3. QED
    BY <2>1, <2>2, TurnSizes
<1>9. CASE FirstCut
  <2> DEFINE x == from * span
             y == to * span
             p == x \div 8
             q == y \div 8
             c == <<<<p, q>>>>
  <2>1. /\ Subtracts /\ Walking /\ indices = <<>>
        /\ Turn(<<<<p, q>>>>, Kept) /\ x % 8 = 0 /\ y % 8 = 0
    BY <1>9 DEF FirstCut, Subtracts, Converts, InBounds
  <2>2. ASSUME Sized
        PROVE  Reverse(newshape \o Kept) = ShapeAsked(Rank - (dim - 1)) /\ Measured(c, dim - 1)
    <3>1. /\ from \in Nat /\ to \in Nat /\ from <= to
          /\ Chosen(dim) = from .. (to - 1) /\ (Dropped(dim) => to = from + 1)
          /\ Kept = IF Dropped(dim) THEN <<>> ELSE <<to - from>>
          /\ Reverse(newshape) = ShapeAsked(Rank - dim) /\ Measured(indices, dim)
      BY <1>c, <2>1, <2>2
    <3>2. /\ Reverse(newshape \o Kept) = ShapeAsked(Rank - (dim - 1))
          /\ Weight(dim) \in Nat /\ Weight(dim - 1) = (to - from) * Weight(dim)
      <4> HIDE DEF from, to, Kept
      <4>1. QED
        BY <2>1, <3>1, TurnShape
    <3>3. Weight(dim) = span
      BY <1>i, <2>1, <3>1 DEF Measured
    <3>4. x \in Nat /\ y \in Nat
      BY <1>o, <3>1
    <3>5. p \in Nat /\ q \in Nat /\ 8 * p = x /\ 8 * q = y
      <4> HIDE DEF x, y
      <4>1. QED
        BY <2>1, <3>4, DivMod
    <3> HIDE DEF p, q
    <3>6. q - p \in Nat /\ q = p + (q - p) /\ 8 * (1 * (q - p)) = (to - from) * span
      <4> PICK a, z, s : a = from /\ z = to /\ s = span
        OBVIOUS
      <4>1. a \in Nat /\ z \in Nat /\ s \in Nat /\ a <= z /\ 8 * p = a * s /\ 8 * q = z * s
        BY <1>o, <3>1, <3>5
      <4>2. q - p \in Nat /\ q = p + (q - p) /\ 8 * (1 * (q - p)) = (z - a) * s
        BY <3>5, <4>1, CutMeasures
      <4>3. QED
        BY <4>2
    <3> DEFINE L == q - p
    <3>7. Len(c) = 1 /\ c # <<>> /\ c[1][1] = p /\ c[1][2] = q
      OBVIOUS
    <3> HIDE DEF c, L
    <3>8. L \in Nat /\ (\A k \in 1 .. Len(c) : c[k][2] = c[k][1] + L) /\ 8 * (Len(c) * L) = Weight(dim - 1)
      <4>1. \A k \in 1 .. 1 : k = 1
        OBVIOUS
      <4>2. L \in Nat /\ q = p + L /\ 8 * (1 * L) = Weight(dim - 1)
        BY <3>2, <3>3, <3>6 DEF L
      <4>3. QED
        BY <3>7, <4>1, <4>2
    <3>9. QED
      BY <3>2, <3>7, <3>8 DEF Measured
  <2>3. QED
    BY <2>1, <2>2, TurnSizes
<1>10. CASE Repeat
  <2>1. Subtracts /\ Walking /\ indices # <<>> /\ Turn(Repeated, Kept)
    BY <1>10 DEF Repeat, Subtracts, Converts, InBounds
  <2>2. ASSUME Sized
        PROVE  Reverse(newshape \o Kept) = ShapeAsked(Rank - (dim - 1)) /\ Measured(Repeated, dim - 1)
    <3>1. /\ from \in Nat /\ to \in Nat /\ from <= to
          /\ Chosen(dim) = from .. (to - 1) /\ (Dropped(dim) => to = from + 1)
          /\ Kept = IF Dropped(dim) THEN <<>> ELSE <<to - from>>
          /\ Reverse(newshape) = ShapeAsked(Rank - dim) /\ Measured(indices, dim)
      BY <1>c, <2>1, <2>2
    <3>2. /\ Reverse(newshape \o Kept) = ShapeAsked(Rank - (dim - 1))
          /\ Weight(dim) \in Nat /\ Weight(dim - 1) = (to - from) * Weight(dim)
      <4> HIDE DEF from, to, Kept
      <4>1. QED
        BY <2>1, <3>1, TurnShape
    <3>3. PICK L \in Nat : /\ \A k \in 1 .. Len(indices) : indices[k][2] = indices[k][1] + L
                           /\ 8 * (Len(indices) * L) = Weight(dim)
      BY <2>1, <3>1 DEF Measured
    <3>4. /\ \A k \in 1 .. Len(Repeated) : Repeated[k][2] = Repeated[k][1] + L
          /\ 8 * (Len(Repeated) * L) = Weight(dim - 1)
      <4> DEFINE w == Weight(dim)
      <4> HIDE DEF w
      <4>1. w \in Nat /\ 8 * (Len(indices) * L) = w
        BY <3>2, <3>3 DEF w
      <4>2. /\ \A k \in 1 .. Len(Repeated) : Repeated[k][2] = Repeated[k][1] + L
            /\ 8 * (Len(Repeated) * L) = (to - from) * w
        BY <1>o, <2>1, <3>1, <3>3, <4>1, RepeatMeasures
      <4>3. QED
        BY <3>2, <4>2 DEF w
    <3>5. Repeated # <<>>
      <4>1. Gathered(indices, dim)
        BY <1>i, <1>w, <2>1, <2>2
      <4>2. PICK e \in 1 .. Rank : e > dim /\ ~Full(e)
        BY <2>1, <4>1 DEF Gathered
      <4>3. dim < e /\ dim \in 1 .. Rank
        BY <1>w, <2>1, <4>2
      <4>4. Chosen(dim) # {}
        BY <2>2, <4>2, <4>3 DEF Sized, Settled, EmptyOutsideCut, Full
      <4>5. from < to
        BY <3>1, <4>4
      <4>6. Len(Repeated) = (to - from) * Len(indices)
        BY <1>o, <2>1, <3>1, RepeatedType
      <4> DEFINE l == Len(indices)
                 c == to - from
      <4>7. l \in Nat \ {0} /\ c \in Nat \ {0}
        BY <1>o, <2>1, <3>1, <4>5
      <4> HIDE DEF l, c
      <4>8. c * l # 0
        BY <4>7
      <4>9. Len(Repeated) # 0
        BY <4>6, <4>8 DEF l, c
      <4>10. QED
        BY <4>9
    <3>6. QED
      BY <3>2, <3>4, <3>5 DEF Measured
  <2>3. QED
    BY <2>1, <2>2, TurnSizes
<1>11. CASE Misaligned
  BY <1>a, <1>11 DEF Misaligned
<1>14. CASE UNCHANGED vars
  <2>1. UNCHANGED <<dim, indices, given, result, newshape, index>>
    BY <1>14 DEF vars
  <2>2. PICK i : i = indices
    OBVIOUS
  <2>3. PICK D \in 0 .. Rank, k \in 0 .. Rank : D = dim /\ k = Rank - dim
    BY <1>o
  <2>4. Measured(indices, dim)' <=> Measured(indices, dim)
    <3>1. Measured(indices, dim)' <=> Measured(i, D)'
      BY <2>1, <2>2, <2>3, Zenon DEF Measured, Weight, Stride
    <3>2. QED
      BY <1>f, <2>2, <2>3, <3>1
  <2>5. Measured(indices, 0)' <=> Measured(indices, 0)
    <3>1. Measured(indices, 0)' <=> Measured(i, 0)'
      BY <2>1, <2>2, Zenon DEF Measured, Weight, Stride
    <3>2. 0 \in 0 .. Rank
      BY <1>o
    <3>3. QED
      BY <1>f, <2>2, <3>1, <3>2
  <2>6. ShapeAsked(Rank - dim)' = ShapeAsked(Rank - dim)
    <3>1. ShapeAsked(Rank - dim)' = ShapeAsked(k)'
      BY <1>f, <2>1, <2>3, Zenon DEF ShapeAsked
    <3>2. QED
      BY <1>f, <2>3, <3>1
  <2>7. ShapeAsked(Rank)' = ShapeAsked(Rank)
    <3>1. PICK j \in 0 .. Rank : j = Rank
      BY <1>o
    <3>2. ShapeAsked(Rank)' = ShapeAsked(j)'
      BY <1>f, <3>1, Zenon DEF ShapeAsked
    <3>3. QED
      BY <1>f, <3>1, <3>2
  <2>8. QED
    BY <1>r, <2>1, <2>4, <2>5, <2>6, <2>7 DEF ShapeInv, Reverse
<1>12. CASE Finish
  <2> DEFINE c == IF indices = <<>> THEN <<<<0, DataLen>>>> ELSE indices
  <2>1. /\ result = "slicing" /\ dim = 0 /\ indices' = Reverse(c) /\ newshape' = Reverse(newshape)
        /\ result' = "ok" /\ index' = index
    BY <1>12 DEF Finish
  <2>2. DataLen \in Nat /\ 8 * DataLen = Stride(0)
    <3>1. Rank \in Nat /\ Rank - 0 = Rank
      BY <1>o
    <3>2. Stride(0) = view.bits * Product(view.shape)
      BY <3>1 DEF Stride, Product, Rank
    <3> DEFINE x == Product(view.shape) * view.bits
    <3>3. x \in Nat /\ Stride(0) = x
      <4>1. view.bits \in Nat /\ Product(view.shape) \in Nat
        BY ViewFacts, InnerSteps DEF Product, TypeInv, ViewOK
      <4>2. QED
        BY <3>2, <4>1
    <3>4. x % 8 = 0 /\ DataLen = x \div 8
      BY DEF TypeInv, ViewOK, ByteAligned, DataLen
    <3> HIDE DEF x
    <3>5. QED
      BY <3>3, <3>4, DivMod
  <2>3. ASSUME Sized
        PROVE  c # <<>> /\ Measured(Reverse(c), 0) /\ c \in Seq(Nat \X Nat)
    <3> DEFINE W == Weight(0)
    <3>1. Measured(indices, 0)
      BY <1>i, <2>1, <2>3
    <3>2. c \in Seq(Nat \X Nat) /\ c # <<>>
          /\ \E L \in Nat : (\A k \in 1 .. Len(c) : c[k][2] = c[k][1] + L) /\ 8 * (Len(c) * L) = W
      <4>1. CASE indices # <<>>
        <5>1. c = indices
          BY <4>1
        <5>2. QED
          BY <1>o, <3>1, <4>1, <5>1 DEF Measured
      <4>2. CASE indices = <<>>
        <5> DEFINE l == DataLen
                   t == <<<<0, l>>>>
        <5>1. W = Stride(0)
          BY <3>1, <4>2 DEF Measured
        <5> HIDE DEF l
        <5>2. l \in Nat /\ 8 * l = W
          BY <2>2, <5>1 DEF l
        <5>3. t \in Seq(Nat \X Nat) /\ t # <<>> /\ Len(t) = 1 /\ t[1][1] = 0 /\ t[1][2] = l
          BY <5>2
        <5> HIDE DEF t, W
        <5>4. (\A k \in 1 .. Len(t) : t[k][2] = t[k][1] + l) /\ 8 * (Len(t) * l) = W
          <6>1. \A k \in 1 .. 1 : k = 1
            OBVIOUS
          <6>2. 0 + l = l /\ 1 * l = l
            BY <5>2
          <6>3. QED
            BY <5>2, <5>3, <6>1, <6>2
        <5>5. c = t
          BY <4>2 DEF t, l
        <5>6. QED
          BY <5>2, <5>3, <5>4, <5>5
      <4>3. QED
        BY <4>1, <4>2
    <3> HIDE DEF c
    <3>3. PICK L \in Nat : (\A k \in 1 .. Len(c) : c[k][2] = c[k][1] + L) /\ 8 * (Len(c) * L) = W
      BY <3>2
    <3> DEFINE r == Reverse(c)
    <3>4. r \in Seq(Nat \X Nat) /\ Len(r) = Len(c) /\ \A k \in 1 .. Len(c) : r[k] = c[(Len(c) - k) + 1]
      BY <3>2, Twice DEF Reverse
    <3> HIDE DEF r, W
    <3>5. \A k \in 1 .. Len(c) : (Len(c) - k) + 1 \in 1 .. Len(c)
      <4>1. Len(c) \in Nat
        BY <3>2
      <4>2. QED
        BY <4>1
    <3>6. r # <<>> /\ (\A k \in 1 .. Len(r) : r[k][2] = r[k][1] + L) /\ 8 * (Len(r) * L) = W
      <4>1. Len(c) # 0
        BY <3>2
      <4>2. r # <<>>
        BY <3>4, <4>1
      <4>3. ASSUME NEW k \in 1 .. Len(r) PROVE r[k][2] = r[k][1] + L
        <5>1. r[k] = c[(Len(c) - k) + 1] /\ (Len(c) - k) + 1 \in 1 .. Len(c)
          BY <3>4, <3>5
        <5>2. QED
          BY <3>3, <5>1
      <4>4. QED
        BY <3>3, <3>4, <4>2, <4>3
    <3>7. Measured(r, 0)
      BY <3>6 DEF Measured, W
    <3>8. QED
      BY <3>2, <3>7 DEF r
  <2>4. ASSUME Sized PROVE newshape' = ShapeAsked(Rank)
    <3>1. Rank - dim = Rank
      BY <1>o, <2>1
    <3>2. QED
      BY <1>i, <2>1, <2>4, <3>1
  <2>5. PICK i : i = Reverse(c)
    OBVIOUS
  <2> HIDE DEF c
  <2>6. Measured(indices, 0)' <=> Measured(i, 0)
    <3>1. Measured(indices, 0)' <=> Measured(i, 0)'
      BY <2>1, <2>5, Zenon DEF Measured, Weight, Stride
    <3>2. 0 \in 0 .. Rank
      BY <1>o
    <3>3. QED
      BY <1>f, <3>1, <3>2
  <2>7. ShapeAsked(Rank)' = ShapeAsked(Rank)
    <3>1. PICK j \in 0 .. Rank : j = Rank
      BY <1>o
    <3>2. ShapeAsked(Rank)' = ShapeAsked(j)'
      BY <1>f, <3>1, Zenon DEF ShapeAsked
    <3>3. QED
      BY <1>f, <3>1, <3>2
  <2>8. Sized => indices' # <<>>
    <3>1. ASSUME Sized PROVE Reverse(c) # <<>>
      <4>1. c \in Seq(Nat \X Nat) /\ c # <<>>
        BY <2>3, <3>1
      <4>2. Len(c) # 0 /\ Len(Reverse(c)) = Len(c)
        BY <4>1, Twice
      <4>3. QED
        BY <4>2
    <3>2. QED
      BY <2>1, <3>1
  <2>9. QED
    BY <1>r, <2>1, <2>3, <2>4, <2>5, <2>6, <2>7, <2>8 DEF ShapeInv
<1>13. CASE NextChunk
  <2>1. /\ result = "ok" /\ newshape' = newshape /\ index' = index
        /\ (given' = Append(given, Last(indices)) /\ result' = "ok") \/ (result' = "panic")
    BY <1>13 DEF NextChunk
  <2>2. CASE result' = "panic"
    BY <2>2 DEF ShapeInv
  <2>3. CASE result' = "ok"
    <3>1. given' # <<>>
      <4>1. indices # <<>>
        BY <1>13 DEF NextChunk
      <4>2. Last(indices) \in Nat \X Nat
        <5>1. \A T : \A s \in Seq(T) : s # <<>> => Last(s) \in T
          BY FrontFacts
        <5>2. QED
          BY <1>o, <4>1, <5>1
      <4>3. given' = Append(given, Last(indices))
        BY <2>1, <2>3
      <4> PICK g, e : g = given /\ e = Last(indices)
        OBVIOUS
      <4>4. g \in Seq(Nat \X Nat) /\ e \in Nat \X Nat
        BY <1>o, <4>2
      <4>5. Append(g, e) # <<>>
        <5> PICK T : g \in Seq(T) /\ e \in T
          BY <4>4
        <5>1. Len(Append(g, e)) = Len(g) + 1 /\ Len(g) \in Nat
          OBVIOUS
        <5>2. QED
          BY <5>1
      <4>6. QED
        BY <4>3, <4>5
    <3>2. ShapeAsked(Rank)' = ShapeAsked(Rank)
      <4>1. PICK j \in 0 .. Rank : j = Rank
        BY <1>o
      <4>2. ShapeAsked(Rank)' = ShapeAsked(j)'
        BY <1>f, <4>1, Zenon DEF ShapeAsked
      <4>3. QED
        BY <1>f, <4>1, <4>2
    <3>3. QED
      BY <1>i, <1>r, <2>1, <2>3, <3>1, <3>2 DEF ShapeInv
  <2>4. QED
    BY <2>1, <2>2, <2>3
<1>15. QED
  BY <1>1, <1>2, <1>3, <1>4, <1>5, <1>6, <1>7, <1>8, <1>9, <1>10, <1>11, <1>12, <1>13, <1>14,
     <1>16
     DEF Next

LEMMA ShapeCorrect == TypeInv /\ ShapeInv => ShapeMatchesBytes
<1> SUFFICES ASSUME TypeInv, ShapeInv, result = "ok", WithinPython, ~BoundWraps,
                    ~EmptyOutsideCut, ~ReversedRange
             PROVE  /\ newshape = ShapeAsked(Rank)
                    /\ given = <<>> => 8 * RemainingByteLen = Product(newshape) * view.bits
  BY DEF ShapeMatchesBytes
<1>1. newshape = ShapeAsked(Rank) /\ (given = <<>> => indices # <<>> /\ Measured(indices, 0))
  BY DEF ShapeInv, Sized, Settled
<1>2. ASSUME given = <<>> PROVE 8 * RemainingByteLen = Product(newshape) * view.bits
  <2>1. PICK L \in Nat : /\ \A k \in 1 .. Len(indices) : indices[k][2] = indices[k][1] + L
                         /\ 8 * (Len(indices) * L) = Weight(0)
    BY <1>1, <1>2 DEF Measured
  <2>2. RemainingByteLen = Len(indices) * L
    BY <2>1, EqualChunks DEF TypeInv, TypeOK
  <2>3. Weight(0) = view.bits * Product(newshape)
    <3>1. Rank - 0 = Rank
      BY StrideFacts
    <3>2. QED
      BY <1>1, <3>1 DEF Weight
  <2>4. view.bits \in Nat /\ Product(newshape) \in Nat
    <3>1. newshape \in Seq(Nat)
      BY DEF TypeInv, TypeOK
    <3>2. Product(newshape) \in Nat
      BY <3>1, ProductJoined
    <3>3. QED
      BY <3>2, StrideFacts
  <2>5. view.bits * Product(newshape) = Product(newshape) * view.bits
    BY <2>4
  <2>6. QED
    BY <2>1, <2>2, <2>3, <2>5
<1>3. QED
  BY <1>1, <1>2

(* The shape the iterator reports is the one asked for, and its bytes are   *)
(* as many as the chunks hold: a caller that allocates remaining_byte_len   *)
(* before reading fills exactly a tensor of that shape, on every request    *)
(* whose ranges are not reversed, that is not empty outside of a cut and,   *)
(* in a release build, has no bound at the end of usize.                    *)
THEOREM ShapesCorrect == Spec => []ShapeMatchesBytes
<1>1. Init => TypeInv /\ IndexRight /\ SelectionInv /\ ShapeInv
  BY TypeInit, IndexInit, SelectionInit, ShapeInit
<1>2. TypeInv /\ IndexRight /\ SelectionInv /\ ShapeInv /\ [Next]_vars
        => (TypeInv /\ IndexRight /\ SelectionInv /\ ShapeInv)'
  BY TypeStep, IndexStep, SelectionStep, ShapeStep
<1>3. QED
  BY <1>1, <1>2, ShapeCorrect, PTL DEF Spec

==============================================================================
