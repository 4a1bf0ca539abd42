----------------------------- MODULE LayoutProofs -----------------------------
(***************************************************************************)
(* What the writer lays out and what the reader's one walk over a header   *)
(* guarantees, for every buffer, every list of tensors and every width of  *)
(* usize.  Products of shapes and the data written are recursive functions *)
(* of Layout: what they compute is had by induction over a set of numbers  *)
(* (Induct, Recursion).                                                    *)
(***************************************************************************)
EXTENDS Layout, FiniteSetTheorems, SequenceTheorems, WellFoundedInduction, TLAPS

-----------------------------------------------------------------------------
(* Arithmetic *)

LEMMA Remainder ==
    ASSUME NEW a \in Nat, NEW m \in Nat \ {0}
    PROVE  /\ a % m \in 0 .. (m - 1)
           /\ a < m => a % m = a
           /\ m <= a /\ a < m + m => a % m = a - m
<1>1. a = m * (a \div m) + (a % m) /\ a % m \in 0 .. (m - 1)
  BY Z3
<1>2. a \div m \in Nat
  BY Z3
<1>3. a < m => a \div m = 0
  BY <1>1, <1>2, Z3
<1>4. m <= a /\ a < m + m => a \div m = 1
  BY <1>1, <1>2, Z3
<1>5. QED
  BY <1>1, <1>3, <1>4, Z3

LEMMA PaddedType ==
    ASSUME NEW n \in Nat
    PROVE  Padded(n) \in Nat
<1>1. (n + 7) \div 8 \in Nat
  BY Z3
<1>2. QED
  BY <1>1 DEF Padded

(* The sum read_metadata compares with the buffer's length may wrap, but    *)
(* then it falls short of the header, which is known to be inside.          *)
LEMMA CompleteExact ==
    ASSUME NEW s \in 0 .. (Limit - 1), NEW n \in Nat, NEW len,
           n <= MaxHeader, N_LEN + n <= len, (s + N_LEN + n) % Limit = len
    PROVE  N_LEN + n + s = len
<1>1. /\ Limit \in Nat \ {0} /\ N_LEN + n < Limit /\ N_LEN = 8
      /\ s + N_LEN + n \in Nat
  BY LayoutAssumption DEF N_LEN
<1> DEFINE a == s + N_LEN + n
<1>a. a % Limit = len /\ a \in Nat
  BY <1>1
<1>2. CASE a < Limit
  <2>1. a % Limit = a
    BY <1>1, <1>2, <1>a, Remainder
  <2>2. QED
    BY <1>1, <1>a, <2>1
<1>3. CASE Limit <= a
  <2>1. a < Limit + Limit
    BY <1>1
  <2> HIDE DEF a
  <2>2. a % Limit = a - Limit
    BY <1>1, <1>3, <1>a, <2>1, Remainder
  <2>3. a - Limit < N_LEN + n
    BY <1>1 DEF a
  <2>4. QED
    BY <1>1, <1>a, <2>2, <2>3 DEF a
<1>4. QED
  BY <1>1, <1>2, <1>3

-----------------------------------------------------------------------------
(* Sequences.  The entries of a header are of no set known beforehand.      *)

IsSeq(s) == \E S : s \in Seq(S)

LEMMA IsSeqLen ==
    ASSUME NEW s, IsSeq(s)
    PROVE  Len(s) \in Nat /\ DOMAIN s = 1 .. Len(s)
BY DEF IsSeq

LEMMA IsSeqFunction ==
    ASSUME NEW f, NEW n \in Nat, DOMAIN f = 1 .. n, f = [i \in DOMAIN f |-> f[i]]
    PROVE  IsSeq(f) /\ Len(f) = n
<1>1. f \in [1 .. n -> {f[i] : i \in 1 .. n}]
  OBVIOUS
<1>2. f \in Seq({f[i] : i \in 1 .. n})
  BY <1>1
<1>3. QED
  BY <1>2 DEF IsSeq

LEMMA IsSeqAppend ==
    ASSUME NEW s, NEW x, IsSeq(s)
    PROVE  /\ IsSeq(Append(s, x)) /\ Len(Append(s, x)) = Len(s) + 1
           /\ \A i \in 1 .. Len(s) : Append(s, x)[i] = s[i]
           /\ Append(s, x)[Len(s) + 1] = x
<1>1. PICK S : s \in Seq(S)
  BY DEF IsSeq
<1>2. s \in Seq(S \cup {x})
  BY <1>1
<1>3. Append(s, x) \in Seq(S \cup {x})
  BY <1>2
<1>4. QED
  BY <1>2, <1>3 DEF IsSeq

(* A header has finitely many names. *)
LEMMA NamesFinite ==
    ASSUME NEW s, IsSeq(s)
    PROVE  IsFiniteSet(Names(s))
<1> DEFINE f == [i \in DOMAIN s |-> s[i].name]
<1>1. IsFiniteSet(DOMAIN s)
  BY IsSeqLen, FS_Interval
<1>2. f \in Surjection(DOMAIN s, Names(s))
  BY DEF Names, Surjection
<1>3. QED
  BY <1>1, <1>2, FS_Surjection

-----------------------------------------------------------------------------
(* Recursive definitions *)

(* Induction up to n, over a set of numbers.                                *)
LEMMA Induct ==
    ASSUME NEW n \in Nat, NEW Good, 0 \in Good,
           \A i \in 0 .. (n - 1) : i \in Good => i + 1 \in Good
    PROVE  \A i \in 0 .. n : i \in Good
<1> DEFINE Bad == {i \in 0 .. n : i \notin Good}
           Less == {p \in Nat \X Nat : p[1] < p[2]}
<1>1. SUFFICES ASSUME Bad # {} PROVE FALSE
  OBVIOUS
<1>2. PICK m \in Bad : \A k \in Bad : ~ (<<k, m>> \in Less)
  <2>1. Bad \subseteq Nat
    OBVIOUS
  <2>2. Less = OpToRel(<, Nat)
    BY DEF OpToRel
  <2>3. IsWellFoundedOn(Less, Nat)
    BY <2>2, NatLessThanWellFounded
  <2> HIDE DEF Bad, Less
  <2>4. QED
    BY <1>1, <2>1, <2>3, WFMin
<1>3. m \in 0 .. n /\ m \notin Good /\ m # 0
  BY <1>2
<1>4. m - 1 \in 0 .. (n - 1) /\ m - 1 \in 0 .. n /\ m - 1 < m /\ m - 1 + 1 = m
  BY <1>3
<1>5. m - 1 \notin Bad
  <2>1. <<m - 1, m>> \in Less
    BY <1>3, <1>4
  <2>2. QED
    BY <1>2, <2>1
<1>6. QED
  BY <1>3, <1>4, <1>5

(* g has the values a recursion from b by F gives it up to n.               *)
Computes(g, n, S, b, F) ==
    /\ g \in [0 .. n -> S] /\ g[0] = b
    /\ \A k \in 1 .. n : g[k] = F[<<g[k - 1], k>>]

(* There is such a function, so that the recursive definitions of Layout    *)
(* have the values their equations say.                                     *)
LEMMA Recursion ==
    ASSUME NEW n \in Nat, NEW S, NEW b \in S, NEW F \in [S \X (1 .. n) -> S]
    PROVE  \E g : Computes(g, n, S, b, F)
<1> DEFINE Ok(g, m) == g \in [0 .. m -> S] /\ g[0] = b
                       /\ \A k \in 1 .. m : g[k] = F[<<g[k - 1], k>>]
           Good == {m \in 0 .. n : \E g : Ok(g, m)}
<1>1. 0 \in Good
  <2> DEFINE g == [k \in 0 .. 0 |-> b]
  <2>1. g \in [0 .. 0 -> S] /\ g[0] = b /\ 1 .. 0 = {}
    OBVIOUS
  <2> HIDE DEF g
  <2>2. Ok(g, 0)
    BY <2>1
  <2>3. QED
    BY <2>2
<1>2. ASSUME NEW m \in 0 .. (n - 1), m \in Good PROVE m + 1 \in Good
  <2>1. PICK g : Ok(g, m)
    BY <1>2
  <2>2. m \in Nat /\ m + 1 \in 1 .. n /\ m \in 0 .. m /\ m + 1 - 1 = m
    OBVIOUS
  <2> DEFINE h == [k \in 0 .. (m + 1) |-> IF k = m + 1 THEN F[<<g[m], m + 1>>] ELSE g[k]]
  <2>3. g[m] \in S /\ F[<<g[m], m + 1>>] \in S
    BY <2>1, <2>2
  <2>4. h \in [0 .. (m + 1) -> S]
    <3>1. ASSUME NEW k \in 0 .. (m + 1), k # m + 1 PROVE g[k] \in S
      <4>1. k \in 0 .. m
        BY <2>2, <3>1
      <4>2. QED
        BY <2>1, <4>1
    <3>2. QED
      BY <2>3, <3>1
  <2>5. h[0] = b
    BY <2>1, <2>2
  <2>6. ASSUME NEW k \in 1 .. (m + 1) PROVE h[k] = F[<<h[k - 1], k>>]
    <3>1. CASE k = m + 1
      <4>1. k \in 0 .. (m + 1) /\ m \in 0 .. (m + 1) /\ m # m + 1 /\ k - 1 = m
        BY <2>2, <3>1
      <4>2. h[k] = F[<<g[m], k>>] /\ h[m] = g[m]
        BY <3>1, <4>1
      <4>3. QED
        BY <4>1, <4>2
    <3>2. CASE k # m + 1
      <4>1. k \in 1 .. m /\ k \in 0 .. (m + 1) /\ k - 1 \in 0 .. (m + 1) /\ k - 1 # m + 1
        BY <2>2, <3>2
      <4>2. h[k] = g[k] /\ h[k - 1] = g[k - 1]
        BY <3>2, <4>1
      <4>3. QED
        BY <2>1, <4>1, <4>2
    <3>3. QED
      BY <3>1, <3>2
  <2> HIDE DEF h
  <2>7. Ok(h, m + 1)
    BY <2>4, <2>5, <2>6
  <2>8. QED
    BY <2>2, <2>7
<1>3. \A i \in 0 .. n : i \in Good
  <2> HIDE DEF Good
  <2>1. QED
    BY <1>1, <1>2, Induct
<1>4. \E g : Ok(g, n)
  <2>1. n \in 0 .. n
    OBVIOUS
  <2>2. n \in Good
    BY <1>3, <2>1
  <2> HIDE DEF Ok
  <2>3. QED
    BY <2>2
<1>5. QED
  BY <1>4 DEF Computes

(* And it is the only one.                                                  *)
LEMMA SameValues ==
    ASSUME NEW n \in Nat, NEW c, NEW g, c[0] = g[0],
           \A k \in 1 .. n : c[k - 1] = g[k - 1] => c[k] = g[k]
    PROVE  c[n] = g[n]
<1> DEFINE Good == {k \in 0 .. n : c[k] = g[k]}
<1>1. 0 \in Good
  OBVIOUS
<1>2. ASSUME NEW i \in 0 .. (n - 1), i \in Good PROVE i + 1 \in Good
  <2>1. i + 1 \in 0 .. n /\ i + 1 \in 1 .. n /\ i + 1 - 1 = i
    OBVIOUS
  <2>2. QED
    BY <1>2, <2>1
<1> HIDE DEF Good
<1>3. \A i \in 0 .. n : i \in Good
  BY <1>1, <1>2, Induct
<1>4. n \in Good
  BY <1>3
<1>5. QED
  BY <1>4 DEF Good

LEMMA ProductSteps ==
    ASSUME NEW s \in Seq(Nat)
    PROVE  \E p \in [0 .. Len(s) -> Nat] :
              /\ p[0] = 1 /\ Product(s) = p[Len(s)]
              /\ \A k \in 1 .. Len(s) : p[k] = p[k - 1] * s[k]
<1> DEFINE n == Len(s)
           F == [x \in Nat \X (1 .. n) |-> x[1] * s[x[2]]]
           c == CHOOSE p : p = [k \in 0 .. n |-> IF k = 0 THEN 1 ELSE p[k - 1] * s[k]]
<1>n. n \in Nat /\ 1 \in Nat /\ \A k \in 1 .. n : s[k] \in Nat
  OBVIOUS
<1>1. F \in [Nat \X (1 .. n) -> Nat]
  <2>1. ASSUME NEW x \in Nat \X (1 .. n) PROVE x[1] * s[x[2]] \in Nat
    <3>1. x[1] \in Nat /\ s[x[2]] \in Nat
      BY <1>n
    <3>2. QED
      BY <3>1
  <2>2. QED
    BY <2>1
<1>2. \A a \in Nat, k \in 1 .. n : F[<<a, k>>] = a * s[k]
  OBVIOUS
<1>5. Product(s) = c[n]
  BY DEF Product
<1> HIDE DEF F, n
<1>3. PICK g : Computes(g, n, Nat, 1, F)
  BY <1>n, <1>1, Recursion
<1>4. /\ g \in [0 .. n -> Nat] /\ g[0] = 1
      /\ \A k \in 1 .. n : g[k] = g[k - 1] * s[k]
  <2>1. \A k \in 1 .. n : k - 1 \in 0 .. n
    BY <1>n
  <2>2. QED
    BY <1>2, <1>3, <2>1 DEF Computes
<1>6. g = [k \in 0 .. n |-> IF k = 0 THEN 1 ELSE g[k - 1] * s[k]]
  <2>1. ASSUME NEW k \in 0 .. n PROVE g[k] = IF k = 0 THEN 1 ELSE g[k - 1] * s[k]
    BY <1>n, <1>4
  <2>2. QED
    BY <1>4, <2>1
<1>7. c = [k \in 0 .. n |-> IF k = 0 THEN 1 ELSE c[k - 1] * s[k]]
  BY <1>6
<1> HIDE DEF c
<1>8. /\ c[0] = 1
      /\ \A k \in 1 .. n : c[k] = c[k - 1] * s[k]
  BY <1>n, <1>7
<1>9. c[n] = g[n]
  <2>1. \A k \in 1 .. n : c[k - 1] = g[k - 1] => c[k] = g[k]
    BY <1>4, <1>8
  <2>2. c[0] = g[0]
    BY <1>4, <1>8
  <2>3. QED
    BY <1>n, <2>1, <2>2, SameValues
<1>10. QED
  BY <1>4, <1>5, <1>9 DEF n

LEMMA NElementsSteps ==
    ASSUME NEW s \in Seq(Nat)
    PROVE  \E p : /\ p[0] = 1 /\ NElements(s) = p[Len(s)]
                  /\ \A k \in 1 .. Len(s) : p[k] = CheckedMul(p[k - 1], s[k])
<1> DEFINE n == Len(s)
           S == Nat \cup {None}
           F == [x \in S \X (1 .. n) |-> CheckedMul(x[1], s[x[2]])]
           c == CHOOSE p : p = [k \in 0 .. n |-> IF k = 0 THEN 1 ELSE CheckedMul(p[k - 1], s[k])]
<1>n. n \in Nat /\ 1 \in S /\ \A k \in 1 .. n : s[k] \in Nat
  OBVIOUS
<1>1. F \in [S \X (1 .. n) -> S]
  <2>1. ASSUME NEW x \in S \X (1 .. n) PROVE CheckedMul(x[1], s[x[2]]) \in S
    <3>1. x[1] \in S /\ s[x[2]] \in Nat
      BY <1>n
    <3>2. x[1] \in Nat => x[1] * s[x[2]] \in Nat
      BY <3>1
    <3>3. QED
      BY <3>1, <3>2 DEF CheckedMul
  <2>2. QED
    BY <2>1
<1>2. \A a \in S, k \in 1 .. n : F[<<a, k>>] = CheckedMul(a, s[k])
  OBVIOUS
<1>3. NElements(s) = c[n]
  BY DEF NElements
<1> HIDE DEF F, n, S
<1>4. PICK g : Computes(g, n, S, 1, F)
  BY <1>n, <1>1, Recursion
<1>5. /\ g \in [0 .. n -> S] /\ g[0] = 1
      /\ \A k \in 1 .. n : g[k] = CheckedMul(g[k - 1], s[k])
  <2>1. \A k \in 1 .. n : k - 1 \in 0 .. n
    BY <1>n
  <2>2. QED
    BY <1>2, <1>4, <2>1 DEF Computes
<1>6. g = [k \in 0 .. n |-> IF k = 0 THEN 1 ELSE CheckedMul(g[k - 1], s[k])]
  <2>1. ASSUME NEW k \in 0 .. n
        PROVE  g[k] = IF k = 0 THEN 1 ELSE CheckedMul(g[k - 1], s[k])
    BY <1>n, <1>5
  <2>2. QED
    BY <1>5, <2>1
<1>7. c = [k \in 0 .. n |-> IF k = 0 THEN 1 ELSE CheckedMul(c[k - 1], s[k])]
  BY <1>6
<1> HIDE DEF c
<1>8. c[0] = 1 /\ \A k \in 1 .. n : c[k] = CheckedMul(c[k - 1], s[k])
  BY <1>n, <1>7
<1>9. QED
  BY <1>3, <1>8 DEF n

LEMMA WrittenSteps ==
    ASSUME NEW s, Len(s) \in Nat, \A k \in 1 .. Len(s) : s[k].bytes \in Nat
    PROVE  \E d : /\ d[0] = <<>> /\ Written(s) = d[Len(s)]
                  /\ \A k \in 0 .. Len(s) : IsSeq(d[k])
                  /\ \A k \in 1 .. Len(s) : d[k] = d[k - 1] \o BytesOf(s[k])
<1> DEFINE n == Len(s)
           X == UNION {{<<s[k].name, i>> : i \in 1 .. s[k].bytes} : k \in 1 .. n}
           S == Seq(X)
           F == [x \in S \X (1 .. n) |-> x[1] \o BytesOf(s[x[2]])]
           c == CHOOSE p : p = [k \in 0 .. n |-> IF k = 0 THEN <<>> ELSE p[k - 1] \o BytesOf(s[k])]
<1>n. n \in Nat /\ <<>> \in S
  OBVIOUS
<1>0. \A k \in 1 .. n : BytesOf(s[k]) \in Seq(X)
  <2>1. ASSUME NEW k \in 1 .. n PROVE BytesOf(s[k]) \in [1 .. s[k].bytes -> X]
    BY <2>1 DEF BytesOf
  <2>2. \A k \in 1 .. n : s[k].bytes \in Nat
    OBVIOUS
  <2> HIDE DEF X
  <2>3. \A m \in Nat : [1 .. m -> X] \subseteq Seq(X)
    OBVIOUS
  <2>4. QED
    BY <2>1, <2>2, <2>3, Zenon
<1> HIDE DEF X
<1>1. F \in [S \X (1 .. n) -> S]
  <2>1. ASSUME NEW x \in S \X (1 .. n) PROVE x[1] \o BytesOf(s[x[2]]) \in S
    <3>1. x[1] \in Seq(X) /\ BytesOf(s[x[2]]) \in Seq(X)
      BY <1>0
    <3>2. QED
      BY <3>1
  <2>2. QED
    BY <2>1
<1>2. \A a \in S, k \in 1 .. n : F[<<a, k>>] = a \o BytesOf(s[k])
  OBVIOUS
<1>3. Written(s) = c[n]
  BY DEF Written
<1> HIDE DEF F, n, S
<1>4. PICK g : Computes(g, n, S, <<>>, F)
  BY <1>n, <1>1, Recursion
<1>5. /\ g \in [0 .. n -> S] /\ g[0] = <<>>
      /\ \A k \in 1 .. n : g[k] = g[k - 1] \o BytesOf(s[k])
  <2>1. \A k \in 1 .. n : k - 1 \in 0 .. n
    BY <1>n
  <2>2. QED
    BY <1>2, <1>4, <2>1 DEF Computes
<1>6. g = [k \in 0 .. n |-> IF k = 0 THEN <<>> ELSE g[k - 1] \o BytesOf(s[k])]
  <2>1. ASSUME NEW k \in 0 .. n
        PROVE  g[k] = IF k = 0 THEN <<>> ELSE g[k - 1] \o BytesOf(s[k])
    BY <1>n, <1>5
  <2>2. QED
    BY <1>5, <2>1
<1>7. c = [k \in 0 .. n |-> IF k = 0 THEN <<>> ELSE c[k - 1] \o BytesOf(s[k])]
  BY <1>6
<1> HIDE DEF c
<1>8. c[0] = <<>> /\ \A k \in 1 .. n : c[k] = c[k - 1] \o BytesOf(s[k])
  <2>1. c[0] = <<>>
    <3>1. 0 \in 0 .. n
      BY <1>n
    <3>2. QED
      BY <1>7, <3>1
  <2>2. ASSUME NEW k \in 1 .. n PROVE c[k] = c[k - 1] \o BytesOf(s[k])
    <3>1. k \in 0 .. n /\ k # 0
      BY <1>n
    <3>2. QED
      BY <1>7, <3>1
  <2>3. QED
    BY <2>1, <2>2
<1>9. c[n] = g[n]
  <2>1. \A k \in 1 .. n : c[k - 1] = g[k - 1] => c[k] = g[k]
    BY <1>5, <1>8
  <2>2. c[0] = g[0]
    BY <1>5, <1>8
  <2>3. QED
    BY <1>n, <2>1, <2>2, SameValues
<1>10. \A k \in 0 .. n : IsSeq(g[k])
  BY <1>5 DEF IsSeq, S
<1>11. QED
  BY <1>3, <1>5, <1>9, <1>10 DEF n
(* The checked product is the product, unless it is refused.                *)
LEMMA CheckedExact ==
    ASSUME NEW s \in Seq(Nat), NElements(s) # None
    PROVE  NElements(s) = Product(s)
<1>1. PICK p \in [0 .. Len(s) -> Nat] :
          /\ p[0] = 1 /\ Product(s) = p[Len(s)]
          /\ \A k \in 1 .. Len(s) : p[k] = p[k - 1] * s[k]
  BY ProductSteps
<1>2. PICK q : /\ q[0] = 1 /\ NElements(s) = q[Len(s)]
               /\ \A k \in 1 .. Len(s) : q[k] = CheckedMul(q[k - 1], s[k])
  BY NElementsSteps
<1> DEFINE n == Len(s)
           Good == {k \in 0 .. n : q[k] = None \/ q[k] = p[k]}
<1>3. n \in Nat
  OBVIOUS
<1>4. 0 \in Good
  BY <1>1, <1>2, <1>3
<1>5. ASSUME NEW i \in 0 .. (n - 1), i \in Good PROVE i + 1 \in Good
  <2>1. i + 1 \in 0 .. n /\ i + 1 \in 1 .. n /\ i + 1 - 1 = i
    BY <1>3
  <2>2. p[i + 1] = p[i] * s[i + 1] /\ q[i + 1] = CheckedMul(q[i], s[i + 1])
    BY <1>1, <1>2, <2>1
  <2>3. q[i + 1] = None \/ (q[i + 1] = q[i] * s[i + 1] /\ q[i] # None)
    BY <2>2 DEF CheckedMul
  <2>4. QED
    BY <1>5, <2>1, <2>2, <2>3
<1> HIDE DEF n, Good
<1>6. n \in Good
  <2>1. \A i \in 0 .. n : i \in Good
    BY <1>3, <1>4, <1>5, Induct
  <2>2. QED
    BY <1>3, <2>1
<1>7. QED
  BY <1>1, <1>2, <1>6 DEF n, Good

(* What validate asks of an entry's span and shape                          *)
SizeOk(e) ==
    /\ NBits(e) # None
    /\ NBits(e) % 8 = 0
    /\ e.to - e.from = NBits(e) \div 8

Shaped(e) == e.dtype \in DOMAIN BitSize /\ e.shape \in Seq(Nat)

LEMMA BitsExact ==
    ASSUME NEW e, Shaped(e), NBits(e) # None
    PROVE  /\ BitSize[e.dtype] \in Nat \ {0}
           /\ \E k \in Nat : NBits(e) = BitSize[e.dtype] * k /\ TrueBits(e) = BitSize[e.dtype] * k
<1>1. BitSize[e.dtype] \in Nat \ {0}
  BY LayoutAssumption DEF Shaped
<1>2. NElements(e.shape) # None /\ NBits(e) = NElements(e.shape) * BitSize[e.dtype]
  BY DEF NBits, CheckedMul
<1>3. NElements(e.shape) = Product(e.shape)
  BY <1>2, CheckedExact DEF Shaped
<1>4. Product(e.shape) \in Nat
  <2>1. PICK p \in [0 .. Len(e.shape) -> Nat] : Product(e.shape) = p[Len(e.shape)]
    BY ProductSteps DEF Shaped
  <2>2. Len(e.shape) \in 0 .. Len(e.shape)
    BY DEF Shaped
  <2>3. QED
    BY <2>1, <2>2
<1>5. /\ NBits(e) = BitSize[e.dtype] * Product(e.shape)
      /\ TrueBits(e) = BitSize[e.dtype] * Product(e.shape)
  BY <1>1, <1>2, <1>3, <1>4 DEF TrueBits
<1>6. QED
  BY <1>1, <1>4, <1>5

LEMMA SizeExact ==
    ASSUME NEW e, Shaped(e), SizeOk(e)
    PROVE  8 * (e.to - e.from) = TrueBits(e)
<1>1. PICK k \in Nat : NBits(e) = BitSize[e.dtype] * k /\ TrueBits(e) = BitSize[e.dtype] * k
  BY BitsExact DEF SizeOk
<1>2. BitSize[e.dtype] \in Nat
  BY BitsExact DEF SizeOk
<1>3. NBits(e) \in Nat /\ TrueBits(e) = NBits(e)
  BY <1>1, <1>2
<1>4. NBits(e) = 8 * (NBits(e) \div 8)
  <2>1. NBits(e) % 8 = 0
    BY DEF SizeOk
  <2>2. QED
    BY <1>3, <2>1, Z3
<1>5. QED
  BY <1>3, <1>4 DEF SizeOk

LEMMA Multiple ==
    ASSUME NEW a \in Nat \ {0}, NEW x \in Nat
    PROVE  x % a = 0 <=> \E q \in Nat : x = a * q
<1>1. x % a = 0 => x = a * (x \div a) /\ x \div a \in Nat
  BY Z3
<1>2. ASSUME NEW q \in Nat, x = a * q PROVE x % a = 0
  BY <1>2, Z3
<1>3. QED
  BY <1>1, <1>2

LEMMA MultipleSum ==
    ASSUME NEW a \in Nat \ {0}, NEW x \in Nat, NEW y \in Nat, x % a = 0, y % a = 0
    PROVE  (x + y) % a = 0
<1>1. PICK q \in Nat : x = a * q
  BY Multiple
<1>2. PICK r \in Nat : y = a * r
  BY Multiple
<1>3. x + y = a * (q + r) /\ q + r \in Nat /\ x + y \in Nat
  BY <1>1, <1>2
<1>4. QED
  BY <1>3, Multiple

(* The step of a type: its size in bytes *)
Step(d) == BitSize[d] \div 8

LEMMA StepType ==
    ASSUME NEW d \in DOMAIN BitSize, BitSize[d] % 8 = 0
    PROVE  Step(d) \in Nat \ {0} /\ BitSize[d] = 8 * Step(d) /\ 8 % Step(d) = 0
<1>1. BitSize[d] \in Nat \ {0} /\ 64 % BitSize[d] = 0
  BY LayoutAssumption, AlignmentAssumption
<1>2. BitSize[d] = 8 * Step(d) /\ Step(d) \in Nat
  BY <1>1, Z3 DEF Step
<1>3. Step(d) # 0
  BY <1>1, <1>2
<1>4. PICK q \in Nat : 64 = BitSize[d] * q
  BY <1>1, Multiple
<1>5. 8 = Step(d) * q
  <2>1. 64 = 8 * (Step(d) * q)
    BY <1>2, <1>4
  <2>2. Step(d) * q \in Nat
    BY <1>2
  <2>3. QED
    BY <2>1, <2>2
<1>6. QED
  BY <1>2, <1>3, <1>5, Multiple

(* The bytes of a tensor are a multiple of the step of every type before    *)
(* its own.                                                                 *)
LEMMA SizeAligned ==
    ASSUME NEW d \in DOMAIN BitSize, BitSize[d] % 8 = 0,
           NEW e, Shaped(e), SizeOk(e), d <= e.dtype
    PROVE  e.to - e.from \in Nat /\ (e.to - e.from) % Step(d) = 0
<1> DEFINE b == BitSize[e.dtype]
           size == e.to - e.from
<1>1. PICK k \in Nat : NBits(e) = b * k
  BY BitsExact DEF SizeOk
<1>2. b \in Nat \ {0}
  BY BitsExact DEF SizeOk
<1>3. NBits(e) \in Nat /\ size = NBits(e) \div 8 /\ NBits(e) % 8 = 0
  BY <1>1, <1>2 DEF SizeOk
<1> HIDE DEF size, b
<1>4. b * k = 8 * size /\ size \in Nat
  BY <1>1, <1>3, Z3
<1>5. Step(d) \in Nat \ {0} /\ BitSize[d] = 8 * Step(d)
  BY StepType
<1>6. BitSize[d] = 8 \/ b % BitSize[d] = 0
  BY AlignmentAssumption DEF Shaped, b
<1>7. CASE BitSize[d] = 8
  <2>1. Step(d) = 1 /\ size = Step(d) * size
    BY <1>4, <1>5, <1>7
  <2>2. QED
    BY <1>4, <1>5, <2>1, Multiple DEF size
<1>8. CASE b % BitSize[d] = 0
  <2>1. BitSize[d] \in Nat \ {0}
    BY <1>5
  <2>2. PICK m \in Nat : b = BitSize[d] * m
    BY <1>2, <1>8, <2>1, Multiple
  <2>3. b * k = 8 * (Step(d) * (m * k))
    BY <1>5, <2>2
  <2>4. m * k \in Nat /\ Step(d) * (m * k) \in Nat
    BY <1>5
  <2>5. size = Step(d) * (m * k)
    BY <1>4, <2>3, <2>4
  <2>6. QED
    BY <1>4, <1>5, <2>4, <2>5, Multiple DEF size
<1>9. QED
  BY <1>6, <1>7, <1>8

-----------------------------------------------------------------------------
(* The invariant *)

Offsets == 0 .. (Limit - 1)

EntriesTyped ==
    /\ IsSeq(tensors)
    /\ \A i \in 1 .. Len(tensors) : tensors[i].from \in Offsets /\ tensors[i].to \in Offsets

WriterTyped ==
    /\ phase = "sort" => input \in Inputs /\ Len(tensors) = 0
    /\ phase \in {"sort", "lay out"} => walked = 0 /\ start = 0
    /\ phase = "lay out" =>
          /\ IsSeq(sorted) /\ Len(tensors) <= Len(sorted)
          /\ \A i \in 1 .. Len(sorted) : sorted[i].bytes \in Nat

ReaderTyped ==
    /\ phase \in {"stored", "check read", "check header", "open", "open header"} =>
          file.n \in Nat /\ IsFiniteSet(DOMAIN file.infos)
    /\ phase \in {"check read", "check header", "open", "open header"} => HeaderInside

Walk ==
    /\ WalkedTile
    /\ phase = "open" => walked = Len(tensors) /\ N_LEN + file.n + start = file.len

LayoutInv == TypeOK /\ EntriesTyped /\ WriterTyped /\ ReaderTyped /\ Walk

LEMMA LayoutInvInit == Init => LayoutInv
<1> SUFFICES ASSUME Init PROVE LayoutInv
  OBVIOUS
<1>1. /\ tensors = <<>> /\ walked = 0 /\ start = 0 /\ rewraps = 0 /\ damaged = FALSE
      /\ \/ phase = "sort" /\ input \in Inputs
         \/ phase = "stored" /\ file \in Buffers
  BY DEF Init
<1>2. IsSeq(tensors) /\ Len(tensors) = 0
  <2>1. <<>> \in Seq({}) /\ Len(<<>>) = 0
    OBVIOUS
  <2>2. QED
    BY <1>1, <2>1 DEF IsSeq
<1>3. Limit \in Nat /\ 0 < Limit /\ MaxRewraps \in Nat
  BY LayoutAssumption
<1>4. TypeOK
  <2>1. walked \in 0 .. Len(tensors) /\ rewraps \in 0 .. MaxRewraps /\ start < Limit
    BY <1>1, <1>2, <1>3
  <2>2. start = IF walked = 0 THEN 0 ELSE tensors[walked].to
    BY <1>1
  <2>3. phase \in Phases /\ damaged \in BOOLEAN
    BY <1>1 DEF Phases
  <2>4. QED
    BY <2>1, <2>2, <2>3 DEF TypeOK
<1>5. EntriesTyped
  BY <1>2 DEF EntriesTyped
<1>6. WriterTyped
  BY <1>1, <1>2 DEF WriterTyped
<1>7. ReaderTyped
  BY <1>1, LayoutAssumption DEF ReaderTyped
<1>8. Walk
  BY <1>1 DEF Walk, WalkedTile
<1>9. QED
  BY <1>4, <1>5, <1>6, <1>7, <1>8 DEF LayoutInv

(* Most steps leave the entries and the walk over them as they are.         *)
LEMMA WalkStands ==
    ASSUME LayoutInv, UNCHANGED <<tensors, start, walked>>
    PROVE  /\ EntriesTyped' /\ WalkedTile'
           /\ walked' \in 0 .. Len(tensors')
           /\ start' = IF walked' = 0 THEN 0 ELSE tensors'[walked'].to
           /\ start' < Limit
BY DEF LayoutInv, TypeOK, EntriesTyped, Offsets, Walk, WalkedTile

(* And a reset leaves nothing walked. *)
LEMMA WalkReset ==
    ASSUME start' = 0, walked' = 0, IsSeq(tensors')
    PROVE  /\ WalkedTile'
           /\ walked' \in 0 .. Len(tensors')
           /\ start' = IF walked' = 0 THEN 0 ELSE tensors'[walked'].to
           /\ start' < Limit
<1>1. Len(tensors') \in Nat /\ 0 < Limit
  BY IsSeqLen, LayoutAssumption
<1>2. QED
  BY <1>1 DEF WalkedTile

LEMMA LayoutInvStep ==
    ASSUME LayoutInv, [Next]_vars
    PROVE  LayoutInv'
<1>i. TypeOK /\ EntriesTyped /\ WriterTyped /\ ReaderTyped /\ Walk
  BY DEF LayoutInv
<1>l. /\ Len(tensors) \in Nat /\ DOMAIN tensors = 1 .. Len(tensors)
      /\ walked \in 0 .. Len(tensors)
      /\ \A i \in 1 .. Len(tensors) : tensors[i].from \in Offsets /\ tensors[i].to \in Offsets
  BY <1>i, IsSeqLen DEF EntriesTyped, TypeOK
<1>n. Len(tensors) \in Nat /\ walked \in Nat /\ walked <= Len(tensors)
  BY <1>l
<1>c. MaxRewraps \in Nat /\ Limit \in Nat /\ 0 < Limit
  BY LayoutAssumption
<1>r. rewraps \in 0 .. MaxRewraps
  BY <1>i DEF TypeOK
<1>o. \A o \in Offsets : o \in Nat /\ o < Limit
  BY <1>c DEF Offsets
<1>1. CASE Sort
  <2>1. PICK p \in SortOrders(input) : sorted' = [i \in DOMAIN input |-> input[p[i]]]
    BY <1>1 DEF Sort
  <2>2. /\ input \in Inputs /\ phase' = "lay out"
        /\ UNCHANGED <<tensors, start, walked, rewraps, damaged>>
        /\ walked = 0 /\ start = 0
    BY <1>1, <1>i DEF Sort, WriterTyped
  <2>3. /\ Len(input) \in Nat /\ DOMAIN input = 1 .. Len(input)
        /\ \A i \in DOMAIN input : input[i].bytes \in Nat
    <3>1. /\ Len(input) \in Nat /\ DOMAIN input = 1 .. Len(input)
          /\ \A i \in DOMAIN input : input[i].bytes \in 0 .. (Limit - 1)
      BY <2>2, LayoutAssumption
    <3>2. QED
      BY <1>c, <3>1
  <2>4. p \in [DOMAIN input -> DOMAIN input]
    BY <2>1 DEF SortOrders
  <2>5. DOMAIN sorted' = 1 .. Len(input) /\ sorted' = [i \in DOMAIN sorted' |-> sorted'[i]]
    BY <2>1, <2>3
  <2>6. IsSeq(sorted') /\ Len(sorted') = Len(input)
    BY <2>3, <2>5, IsSeqFunction
  <2>7. \A i \in 1 .. Len(sorted') : sorted'[i].bytes \in Nat
    BY <2>1, <2>3, <2>4, <2>6
  <2>8. Len(tensors) <= Len(sorted')
    <3>1. Len(tensors) = 0
      BY <1>1, <1>i DEF Sort, WriterTyped
    <3>2. QED
      BY <2>3, <2>6, <3>1
  <2>9. QED
    BY <1>i, <2>2, <2>6, <2>7, <2>8, WalkStands
       DEF LayoutInv, TypeOK, Phases, WriterTyped, ReaderTyped, Walk
<1>2. CASE LayOut
  <2> DEFINE t == sorted[Len(tensors) + 1]
             e == [name |-> t.name, dtype |-> t.dtype, shape |-> t.shape,
                   from |-> Offset, to |-> (Offset + t.bytes) % Limit]
  <2>1. /\ phase = "lay out" /\ Len(tensors) < Len(sorted) /\ tensors' = Append(tensors, e)
        /\ UNCHANGED <<phase, sorted, start, walked, rewraps, damaged>>
    BY <1>2 DEF LayOut
  <2>2. /\ IsSeq(sorted) /\ Len(sorted) \in Nat /\ walked = 0 /\ start = 0
        /\ \A i \in 1 .. Len(sorted) : sorted[i].bytes \in Nat
    BY <1>i, <2>1, IsSeqLen DEF WriterTyped
  <2>3. t.bytes \in Nat
    <3>1. Len(sorted) \in Nat /\ Len(tensors) < Len(sorted)
      BY <2>1, <2>2
    <3>2. Len(tensors) + 1 \in 1 .. Len(sorted)
      BY <1>n, <3>1
    <3>3. QED
      BY <2>2, <3>2
  <2>4. Offset \in Offsets
    <3>1. 0 \in Offsets
      BY LayoutAssumption DEF Offsets
    <3>2. CASE tensors = <<>>
      BY <3>1, <3>2 DEF Offset
    <3>3. CASE tensors # <<>>
      <4>1. Len(tensors) # 0
        BY <1>i, <3>3 DEF EntriesTyped, IsSeq
      <4>2. QED
        BY <1>l, <3>3, <4>1 DEF Offset, Last
    <3>4. QED
      BY <3>2, <3>3
  <2>5. e.from \in Offsets /\ e.to \in Offsets
    <3>1. Offset + t.bytes \in Nat /\ Limit \in Nat \ {0}
      BY <2>3, <2>4, LayoutAssumption DEF Offsets
    <3>2. QED
      BY <2>4, <3>1, Remainder DEF Offsets
  <2> HIDE DEF e
  <2>6. /\ IsSeq(tensors') /\ Len(tensors') = Len(tensors) + 1
        /\ \A i \in 1 .. Len(tensors) : tensors'[i] = tensors[i]
        /\ tensors'[Len(tensors) + 1] = e
    BY <1>i, <2>1, IsSeqAppend DEF EntriesTyped
  <2>7. EntriesTyped'
    <3>1. ASSUME NEW i \in 1 .. Len(tensors')
          PROVE  tensors'[i].from \in Offsets /\ tensors'[i].to \in Offsets
      <4>1. i \in 1 .. Len(tensors) \/ i = Len(tensors) + 1
        BY <1>l, <2>6
      <4>2. QED
        BY <1>l, <2>5, <2>6, <4>1
    <3>2. QED
      BY <2>6, <3>1 DEF EntriesTyped, Offsets
  <2>8. start' = 0 /\ walked' = 0
    BY <2>1, <2>2
  <2>9. WriterTyped'
    <3>1. Len(sorted) \in Nat /\ Len(tensors) < Len(sorted) /\ Len(tensors') = Len(tensors) + 1
      BY <2>1, <2>2, <2>6
    <3>2. Len(tensors') <= Len(sorted)
      BY <1>n, <3>1
    <3>3. QED
      BY <2>1, <2>2, <3>2 DEF WriterTyped
  <2>10. QED
    BY <1>i, <2>1, <2>6, <2>7, <2>8, <2>9, WalkReset
       DEF LayoutInv, TypeOK, ReaderTyped, Walk
<1>3. CASE LaidOut
  <2>1. EntriesTyped' /\ IsSeq(tensors')
    BY <1>3, <1>i DEF LaidOut, EntriesTyped, Offsets
  <2>2. QED
    BY <1>3, <1>i, <2>1, WalkReset
       DEF LaidOut, LayoutInv, TypeOK, Phases, WriterTyped, ReaderTyped, Walk
<1>4. CASE WriterValidated
  BY <1>4, <1>i, WalkStands
     DEF WriterValidated, LayoutInv, TypeOK, Phases, WriterTyped, ReaderTyped, Walk
<1>5. CASE SerializePanics
  BY <1>5, <1>i, WalkStands
     DEF SerializePanics, LayoutInv, TypeOK, Phases, WriterTyped, ReaderTyped, Walk
(* A written header has the names of the entries and a padded length.       *)
<1>f. ASSUME NEW json \in JsonLens
      PROVE  Padded(json) \in Nat /\ IsFiniteSet(DOMAIN Entries(tensors))
  <2>1. DOMAIN Entries(tensors) = Names(tensors)
    BY DEF Entries
  <2>2. QED
    BY <1>i, <2>1, NamesFinite, PaddedType, LayoutAssumption DEF EntriesTyped
<1>6. CASE Serialize
  <2>1. PICK json \in JsonLens :
          IF HeaderTooLarge(Padded(json))
          THEN phase' = "not written" /\ UNCHANGED file
          ELSE /\ file' = [n |-> Padded(json), infos |-> Entries(tensors), data |-> Data,
                           len |-> N_LEN + Padded(json) + Len(Data)]
               /\ phase' = "stored"
    BY <1>6 DEF Serialize
  <2>2. UNCHANGED <<tensors, start, walked, rewraps, damaged>>
    BY <1>6 DEF Serialize
  <2>3. \/ phase' = "not written"
        \/ phase' = "stored" /\ file'.n \in Nat /\ IsFiniteSet(DOMAIN file'.infos)
    <3>1. CASE HeaderTooLarge(Padded(json))
      BY <2>1, <3>1
    <3>2. CASE ~HeaderTooLarge(Padded(json))
      <4>1. phase' = "stored" /\ file'.n = Padded(json) /\ file'.infos = Entries(tensors)
        BY <2>1, <3>2
      <4>2. QED
        BY <1>f, <4>1
    <3>3. QED
      BY <3>1, <3>2
  <2>4. QED
    BY <1>i, <2>2, <2>3, WalkStands
       DEF LayoutInv, TypeOK, Phases, WriterTyped, ReaderTyped, Walk
<1>7. CASE ValidateEntry
  <2> DEFINE k == walked + 1
             e == tensors[k]
  <2>1. /\ phase \in {"check written", "check read", "check header"}
        /\ walked < Len(tensors)
        /\ e.from = start /\ e.to >= e.from
        /\ start' = e.to /\ walked' = walked + 1
        /\ UNCHANGED <<phase, tensors, file, rewraps, damaged>>
    BY <1>7 DEF ValidateEntry, EntryOk, Entry, Validating
  <2>2. k \in 1 .. Len(tensors) /\ \A i \in 1 .. walked : i \in 1 .. Len(tensors)
    <3>1. walked < Len(tensors)
      BY <2>1
    <3>2. QED
      BY <1>n, <3>1
  <2>3. /\ e.from \in Nat /\ e.to \in Nat /\ e.to < Limit /\ start \in Nat
        /\ \A i \in 1 .. walked : tensors[i].from \in Nat /\ tensors[i].to \in Nat
    <3>1. \A i \in 1 .. Len(tensors) : /\ tensors[i].from \in Nat /\ tensors[i].to \in Nat
                                       /\ tensors[i].to < Limit
      BY <1>l, <1>o, Zenon
    <3>2. QED
      BY <2>1, <2>2, <3>1, Zenon
  <2>4. /\ \A i \in 1 .. walked : tensors[i].from <= tensors[i].to /\ tensors[i].to <= start
        /\ \A i, j \in 1 .. walked : i < j => tensors[i].to <= tensors[j].from
        /\ \A b \in 0 .. (start - 1) :
              \E i \in 1 .. walked : tensors[i].from <= b /\ b < tensors[i].to
    BY <1>i DEF Walk, WalkedTile
  <2>5. /\ \A i \in 1 .. walked' : i \in 1 .. walked \/ i = k
        /\ \A i \in 1 .. walked : i \in 1 .. walked' /\ i # k /\ i < k
        /\ k \in 1 .. walked'
    <3>1. walked' = walked + 1
      BY <2>1
    <3>2. QED
      BY <1>n, <3>1
  <2>6. WalkedTile'
    <3>1. ASSUME NEW i \in 1 .. walked'
          PROVE  tensors[i].from <= tensors[i].to /\ tensors[i].to <= e.to
      <4>1. start <= e.to /\ e.from = start
        BY <2>1
      <4>2. CASE i = k
        BY <2>3, <4>1, <4>2
      <4>3. CASE i \in 1 .. walked
        <5>1. /\ tensors[i].from \in Nat /\ tensors[i].to \in Nat
              /\ tensors[i].from <= tensors[i].to /\ tensors[i].to <= start
          BY <2>3, <2>4, <4>3
        <5>2. QED
          BY <2>3, <4>1, <5>1
      <4>4. QED
        BY <2>5, <4>2, <4>3
    <3>2. ASSUME NEW i \in 1 .. walked', NEW j \in 1 .. walked', i < j
          PROVE  tensors[i].to <= tensors[j].from
      <4>1. i \in 1 .. walked
        <5>1. i # k
          <6>1. walked' = k /\ walked' \in Nat
            <7>1. walked' = walked + 1
              BY <2>1
            <7>2. QED
              BY <1>n, <7>1
          <6>2. j <= walked'
            BY <6>1
          <6>3. QED
            BY <3>2, <6>1, <6>2
        <5>2. QED
          BY <2>5, <5>1
      <4>2. CASE j = k
        BY <2>1, <2>4, <4>1, <4>2
      <4>3. CASE j \in 1 .. walked
        BY <2>4, <3>2, <4>1, <4>3
      <4>4. QED
        BY <2>5, <4>2, <4>3
    <3>3. ASSUME NEW b \in 0 .. (e.to - 1)
          PROVE  \E i \in 1 .. walked' : tensors[i].from <= b /\ b < tensors[i].to
      <4>1. b \in Nat /\ b < e.to
        BY <2>3
      <4>2. CASE b < start
        <5>1. b \in 0 .. (start - 1)
          BY <2>3, <4>1, <4>2
        <5>2. QED
          BY <2>4, <2>5, <5>1
      <4>3. CASE start <= b
        <5>1. e.from = start
          BY <2>1
        <5>2. tensors[k].from <= b /\ b < tensors[k].to
          BY <4>1, <4>3, <5>1
        <5>3. QED
          BY <2>5, <5>2
      <4>4. QED
        BY <2>3, <4>1, <4>2, <4>3
    <3>4. QED
      BY <2>1, <3>1, <3>2, <3>3 DEF WalkedTile
  <2>7. TypeOK'
    <3>1. walked' \in 0 .. Len(tensors') /\ walked' # 0
      <4>1. walked < Len(tensors) /\ walked' = walked + 1 /\ tensors' = tensors
        BY <2>1
      <4>2. QED
        BY <1>n, <4>1
    <3>2. start' = tensors'[walked'].to /\ start' < Limit
      BY <2>1, <2>3
    <3>3. /\ phase' \in Phases /\ rewraps' \in 0 .. MaxRewraps /\ damaged' \in BOOLEAN
      BY <1>i, <2>1 DEF TypeOK
    <3>4. QED
      BY <3>1, <3>2, <3>3 DEF TypeOK
  <2>8. EntriesTyped'
    BY <1>i, <2>1 DEF EntriesTyped, Offsets
  <2>9. WriterTyped' /\ ReaderTyped' /\ phase' # "open"
    BY <1>i, <2>1 DEF WriterTyped, ReaderTyped, HeaderInside
  <2>10. QED
    BY <2>6, <2>7, <2>8, <2>9 DEF LayoutInv, Walk
<1>8. CASE RefuseEntry
  <2>1. phase' \in {"not written", "refused"}
        /\ UNCHANGED <<tensors, start, walked, rewraps, damaged>>
    BY <1>8 DEF RefuseEntry
  <2>2. QED
    BY <1>i, <2>1, WalkStands DEF LayoutInv, TypeOK, Phases, WriterTyped, ReaderTyped, Walk
<1>9. CASE ReadRefused
  BY <1>9, <1>i, WalkStands
     DEF ReadRefused, LayoutInv, TypeOK, Phases, WriterTyped, ReaderTyped, Walk
<1>10. CASE Parse
  <2>1. PICK s \in Orders(file.infos) : tensors' = Listed(file.infos, s)
    BY <1>10 DEF Parse
  <2>2. /\ phase = "stored" /\ phase' \in {"check read", "check header"}
        /\ HeaderInside /\ Deserializes /\ start' = 0 /\ walked' = 0
        /\ UNCHANGED <<file, rewraps, damaged>>
    BY <1>10 DEF Parse
  <2>3. file.n \in Nat /\ IsFiniteSet(DOMAIN file.infos)
    BY <1>i, <2>2 DEF ReaderTyped
  <2> DEFINE n == Cardinality(DOMAIN file.infos)
  <2>4. n \in Nat /\ s \in [1 .. n -> DOMAIN file.infos]
    BY <2>1, <2>3, FS_CardinalityType DEF Orders, SetToSeqs
  <2>5. /\ DOMAIN tensors' = 1 .. n /\ tensors' = [i \in DOMAIN tensors' |-> tensors'[i]]
        /\ \A i \in 1 .. n : /\ tensors'[i].from = file.infos[s[i]].from
                             /\ tensors'[i].to = file.infos[s[i]].to
    BY <2>1, <2>4 DEF Listed
  <2>6. IsSeq(tensors') /\ Len(tensors') = n
    BY <2>4, <2>5, IsSeqFunction
  <2>7. \A x \in DOMAIN file.infos :
            file.infos[x].from \in Offsets /\ file.infos[x].to \in Offsets
    BY <2>2 DEF Deserializes, Offsets
  <2>8. EntriesTyped'
    BY <2>4, <2>5, <2>6, <2>7 DEF EntriesTyped, Offsets
  <2>9. WriterTyped' /\ ReaderTyped' /\ phase' # "open"
    BY <2>2, <2>3 DEF WriterTyped, ReaderTyped, HeaderInside
  <2>10. TypeOK'
    BY <1>i, <2>2, <2>6, WalkReset DEF TypeOK, Phases
  <2>11. QED
    BY <2>2, <2>6, <2>8, <2>9, <2>10, WalkReset DEF LayoutInv, Walk
<1>11. CASE ReadDone
  <2>1. /\ phase = "check read" /\ walked = Len(tensors)
        /\ phase' = IF Complete THEN "open" ELSE "refused"
        /\ UNCHANGED <<tensors, start, walked, file, rewraps, damaged>>
    BY <1>11 DEF ReadDone
  <2>2. ASSUME Complete PROVE N_LEN + file.n + start = file.len
    <3>1. /\ file.n \in Nat /\ file.n <= MaxHeader /\ N_LEN + file.n <= file.len
      BY <1>i, <2>1 DEF ReaderTyped, HeaderInside
    <3>2. start \in 0 .. (Limit - 1)
      <4>1. 0 \in Offsets
        BY LayoutAssumption DEF Offsets
      <4>2. start \in Offsets
        BY <1>i, <1>l, <4>1 DEF TypeOK
      <4>3. QED
        BY <4>2 DEF Offsets
    <3>3. QED
      BY <2>2, <3>1, <3>2, CompleteExact DEF Complete
  <2>3. ReaderTyped' /\ WriterTyped'
    BY <1>i, <2>1 DEF ReaderTyped, WriterTyped, HeaderInside
  <2>4. QED
    BY <1>i, <2>1, <2>2, <2>3, WalkStands DEF LayoutInv, TypeOK, Phases, Walk
<1>12. CASE HeaderDone
  <2>1. /\ phase = "check header" /\ phase' = "open header"
        /\ UNCHANGED <<tensors, start, walked, file, rewraps, damaged>>
    BY <1>12 DEF HeaderDone
  <2>2. ReaderTyped' /\ WriterTyped'
    BY <1>i, <2>1 DEF ReaderTyped, WriterTyped, HeaderInside
  <2>3. QED
    BY <1>i, <2>1, <2>2, WalkStands DEF LayoutInv, TypeOK, Phases, Walk
<1>13. CASE Rewrap
  <2>1. /\ phase \in {"open", "open header"} /\ rewraps < MaxRewraps /\ rewraps' = rewraps + 1
        /\ UNCHANGED <<tensors, start, walked, damaged>>
    BY <1>13 DEF Rewrap
  <2>2. PICK json \in JsonLens :
          IF HeaderTooLarge(Padded(json))
          THEN UNCHANGED <<file, phase>>
          ELSE /\ file' = [n |-> Padded(json), infos |-> Entries(tensors), data |-> file.data,
                           len |-> N_LEN + Padded(json) + (file.len - N_LEN - file.n)]
               /\ phase' = "stored"
    BY <1>13 DEF Rewrap
  <2>3. \/ UNCHANGED <<file, phase>>
        \/ phase' = "stored" /\ file'.n \in Nat /\ IsFiniteSet(DOMAIN file'.infos)
    BY <1>f, <2>2
  <2>4. rewraps' \in 0 .. MaxRewraps
    <3>1. rewraps < MaxRewraps /\ rewraps' = rewraps + 1
      BY <2>1
    <3>2. QED
      BY <1>c, <1>r, <3>1
  <2>5. ReaderTyped' /\ WriterTyped' /\ phase' \in Phases
    BY <1>i, <2>1, <2>3 DEF ReaderTyped, WriterTyped, HeaderInside, Phases
  <2>6. phase' = "open" => walked' = Len(tensors') /\ N_LEN + file'.n + start' = file'.len
    BY <1>i, <2>1, <2>3 DEF Walk
  <2>7. QED
    BY <1>i, <2>1, <2>4, <2>5, <2>6, WalkStands DEF LayoutInv, TypeOK, Walk
<1>14. CASE Tear
  <2>1. /\ phase = "stored" /\ damaged' = TRUE
        /\ UNCHANGED <<phase, tensors, start, walked, rewraps>>
    BY <1>14 DEF Tear
  <2>2. file'.n = file.n /\ file'.infos = file.infos
    BY <1>14 DEF Tear
  <2>3. QED
    BY <1>i, <2>1, <2>2, WalkStands
       DEF LayoutInv, TypeOK, Phases, WriterTyped, ReaderTyped, Walk
<1>15. CASE UNCHANGED vars
  BY <1>15, <1>i, WalkStands
     DEF vars, LayoutInv, TypeOK, WriterTyped, ReaderTyped, HeaderInside, Walk
<1>16. QED
  BY <1>1, <1>2, <1>3, <1>4, <1>5, <1>6, <1>7, <1>8, <1>9, <1>10, <1>11, <1>12, <1>13,
     <1>14, <1>15 DEF Next

-----------------------------------------------------------------------------
THEOREM Invariance == Spec => []LayoutInv
BY LayoutInvInit, LayoutInvStep, PTL DEF Spec

(* validate counts what it has walked and never leaves the header's         *)
(* entries.                                                                 *)
THEOREM TypeCorrect == Spec => []TypeOK
<1>1. LayoutInv => TypeOK
  BY DEF LayoutInv
<1>2. QED
  BY <1>1, Invariance, PTL

(* Whatever buffer read_metadata accepts, its tensors lie end to end over   *)
(* all of its data and nowhere else, for every limit of usize that holds    *)
(* the largest header.                                                      *)
THEOREM TilesCorrect == Spec => []OpenTiles
<1>1. LayoutInv => OpenTiles
  BY DEF LayoutInv, Walk, OpenTiles
<1>2. QED
  BY <1>1, Invariance, PTL

-----------------------------------------------------------------------------
(* Orders *)

LEMMA Enumeration ==
    ASSUME NEW D, IsFiniteSet(D), NEW s \in SetToSeqs(D)
    PROVE  /\ Cardinality(D) \in Nat
           /\ s \in [1 .. Cardinality(D) -> D]
           /\ \A i, j \in 1 .. Cardinality(D) : s[i] = s[j] => i = j
           /\ \A x \in D : \E i \in 1 .. Cardinality(D) : s[i] = x
<1> DEFINE n == Cardinality(D)
<1>1. n \in Nat
  BY FS_CardinalityType
<1>2. s \in [1 .. n -> D] /\ \A i, j \in 1 .. n : s[i] = s[j] => i = j
  BY DEF SetToSeqs
<1>3. IsFiniteSet(1 .. n) /\ Cardinality(1 .. n) = n
  BY <1>1, FS_Interval
<1> HIDE DEF n
<1>4. s \in Injection(1 .. n, D)
  BY <1>2 DEF Injection, IsInjective
<1>5. s \in Surjection(1 .. n, D)
  BY <1>3, <1>4, FS_Injection DEF n
<1>6. QED
  BY <1>1, <1>2, <1>5 DEF Surjection, n

LEMMA LexTransitive ==
    ASSUME NEW x, NEW y, NEW z,
           /\ x.from \in Nat /\ x.to \in Nat /\ y.from \in Nat /\ y.to \in Nat
           /\ z.from \in Nat /\ z.to \in Nat,
           LexLeq(x, y), LexLeq(y, z)
    PROVE  LexLeq(x, z)
BY DEF LexLeq

(* One list of spans in order is nowhere behind another one of the same     *)
(* spans.                                                                   *)
InOrder(a, n) ==
    /\ \A i \in 1 .. n : a[i].from \in Nat /\ a[i].to \in Nat
    /\ \A i, j \in 1 .. n : i < j => LexLeq(a[i], a[j])

Reorders(f, a, b, n) ==
    /\ f \in [1 .. n -> 1 .. n] /\ \A i, j \in 1 .. n : f[i] = f[j] => i = j
    /\ \A i \in 1 .. n : b[i].from = a[f[i]].from /\ b[i].to = a[f[i]].to

LEMMA NotBefore ==
    ASSUME NEW n \in Nat, NEW a, NEW b, NEW f,
           InOrder(a, n), InOrder(b, n), Reorders(f, a, b, n), NEW i \in 1 .. n
    PROVE  LexLeq(a[i], b[i])
<1> USE DEF InOrder, Reorders
<1>1. SUFFICES ASSUME ~LexLeq(a[i], b[i]) PROVE FALSE
  OBVIOUS
<1>2. ASSUME NEW j \in 1 .. i PROVE f[j] \in 1 .. (i - 1)
  <2>1. j \in 1 .. n /\ f[j] \in 1 .. n
    OBVIOUS
  <2>0. /\ a[i].from \in Nat /\ a[i].to \in Nat /\ b[i].from \in Nat /\ b[i].to \in Nat
        /\ a[f[j]].from \in Nat /\ a[f[j]].to \in Nat
        /\ b[j].from = a[f[j]].from /\ b[j].to = a[f[j]].to
    BY <2>1
  <2>2. j = i \/ LexLeq(b[j], b[i])
    BY <2>1
  <2>3. f[j] = i \/ f[j] < i \/ LexLeq(a[i], a[f[j]])
    <3>1. f[j] = i \/ f[j] < i \/ i < f[j]
      BY <2>1
    <3>2. i < f[j] => LexLeq(a[i], a[f[j]])
      BY <2>1
    <3>3. QED
      BY <3>1, <3>2
  <2>4. f[j] = i => LexLeq(a[i], a[f[j]])
    BY <2>0 DEF LexLeq
  <2>5. LexLeq(a[i], a[f[j]]) => LexLeq(a[i], b[i])
    <3>1. ASSUME LexLeq(a[i], a[f[j]]) PROVE LexLeq(a[i], b[j])
      BY <2>0, <3>1 DEF LexLeq
    <3>2. b[j].from \in Nat /\ b[j].to \in Nat
      BY <2>0
    <3>3. LexLeq(a[i], b[j]) /\ LexLeq(b[j], b[i]) => LexLeq(a[i], b[i])
      BY <2>0, <3>2, LexTransitive
    <3>4. QED
      BY <2>2, <3>1, <3>3
  <2>6. QED
    BY <1>1, <2>1, <2>3, <2>4, <2>5
<1> DEFINE g == [j \in 1 .. i |-> f[j]]
<1>3. g \in [1 .. i -> 1 .. (i - 1)]
  BY <1>2
<1>4. /\ IsFiniteSet(1 .. i) /\ Cardinality(1 .. i) = i
      /\ IsFiniteSet(1 .. (i - 1)) /\ Cardinality(1 .. (i - 1)) = i - 1
  <2>1. i \in Int /\ i - 1 \in Int /\ ~(1 > i) /\ i - 1 + 1 = i
    OBVIOUS
  <2>2. Cardinality(1 .. i) = i - 1 + 1 /\ IsFiniteSet(1 .. i)
    BY <2>1, FS_Interval
  <2>3. /\ IsFiniteSet(1 .. (i - 1))
        /\ Cardinality(1 .. (i - 1)) = IF 1 > i - 1 THEN 0 ELSE i - 1 - 1 + 1
    BY <2>1, FS_Interval
  <2>4. Cardinality(1 .. (i - 1)) = i - 1
    BY <2>3
  <2>5. QED
    BY <2>1, <2>2, <2>3, <2>4
<1>5. Cardinality(1 .. (i - 1)) < Cardinality(1 .. i)
  BY <1>4
<1>6. \E x, y \in 1 .. i : x # y /\ g[x] = g[y]
  <2> DEFINE S == 1 .. i
             T == 1 .. (i - 1)
  <2> HIDE DEF g, S, T
  <2>1. \E x, y \in S : x # y /\ g[x] = g[y]
    <3>1. /\ IsFiniteSet(S) /\ IsFiniteSet(T) /\ Cardinality(T) < Cardinality(S)
          /\ g \in [S -> T]
      BY <1>3, <1>4, <1>5 DEF S, T
    <3>2. QED
      BY <3>1, FS_PigeonHole
  <2>2. QED
    BY <2>1 DEF S
<1>7. PICK x, y \in 1 .. i : x # y /\ g[x] = g[y]
  BY <1>6
<1>8. x \in 1 .. n /\ y \in 1 .. n /\ f[x] = f[y]
  BY <1>7
<1>9. QED
  BY <1>7, <1>8

(* So the reader's sort finds the spans as they were written, although it   *)
(* may not find the names of empty tensors in their order.                  *)
LEMMA SortedAlike ==
    ASSUME NEW infos, IsFiniteSet(DOMAIN infos),
           \A x \in DOMAIN infos : infos[x].from \in Nat /\ infos[x].to \in Nat,
           NEW s \in Orders(infos), NEW t \in Orders(infos),
           NEW i \in 1 .. Cardinality(DOMAIN infos)
    PROVE  infos[s[i]].from = infos[t[i]].from /\ infos[s[i]].to = infos[t[i]].to
<1> DEFINE D == DOMAIN infos
           n == Cardinality(D)
           a == [k \in 1 .. n |-> infos[s[k]]]
           b == [k \in 1 .. n |-> infos[t[k]]]
           f == [k \in 1 .. n |-> CHOOSE j \in 1 .. n : s[j] = t[k]]
           g == [k \in 1 .. n |-> CHOOSE j \in 1 .. n : t[j] = s[k]]
<1>1. /\ s \in SetToSeqs(D) /\ t \in SetToSeqs(D)
      /\ \A j, k \in DOMAIN s : j < k => LexLeq(infos[s[j]], infos[s[k]])
      /\ \A j, k \in DOMAIN t : j < k => LexLeq(infos[t[j]], infos[t[k]])
  BY DEF Orders
<1>2. /\ n \in Nat /\ s \in [1 .. n -> D]
      /\ \A j, k \in 1 .. n : s[j] = s[k] => j = k
      /\ \A x \in D : \E j \in 1 .. n : s[j] = x
  BY <1>1, Enumeration
<1>3. /\ t \in [1 .. n -> D]
      /\ \A j, k \in 1 .. n : t[j] = t[k] => j = k
      /\ \A x \in D : \E j \in 1 .. n : t[j] = x
  BY <1>1, Enumeration
<1> HIDE DEF n
<1>4. \A k \in 1 .. n : f[k] \in 1 .. n /\ s[f[k]] = t[k] /\ g[k] \in 1 .. n /\ t[g[k]] = s[k]
  BY <1>2, <1>3
<1>5. /\ f \in [1 .. n -> 1 .. n] /\ \A j, k \in 1 .. n : f[j] = f[k] => j = k
      /\ g \in [1 .. n -> 1 .. n] /\ \A j, k \in 1 .. n : g[j] = g[k] => j = k
  <2>1. f \in [1 .. n -> 1 .. n] /\ g \in [1 .. n -> 1 .. n]
    BY <1>4
  <2> HIDE DEF f, g
  <2>2. ASSUME NEW j \in 1 .. n, NEW k \in 1 .. n
        PROVE  (f[j] = f[k] => j = k) /\ (g[j] = g[k] => j = k)
    <3>1. s[f[j]] = t[j] /\ s[f[k]] = t[k] /\ t[g[j]] = s[j] /\ t[g[k]] = s[k]
      BY <1>4
    <3>2. (t[j] = t[k] => j = k) /\ (s[j] = s[k] => j = k)
      BY <1>2, <1>3
    <3>3. QED
      BY <3>1, <3>2
  <2>3. QED
    BY <2>1, <2>2
<1>6. \A k \in 1 .. n : /\ a[k].from \in Nat /\ a[k].to \in Nat
                        /\ b[k].from \in Nat /\ b[k].to \in Nat
  BY <1>2, <1>3
<1>7. \A j, k \in 1 .. n : j < k => LexLeq(a[j], a[k]) /\ LexLeq(b[j], b[k])
  <2>1. ASSUME NEW j \in 1 .. n, NEW k \in 1 .. n, j < k
        PROVE  LexLeq(a[j], a[k]) /\ LexLeq(b[j], b[k])
    <3>1. j \in DOMAIN s /\ k \in DOMAIN s /\ j \in DOMAIN t /\ k \in DOMAIN t
      BY <1>2, <1>3
    <3>2. LexLeq(infos[s[j]], infos[s[k]]) /\ LexLeq(infos[t[j]], infos[t[k]])
      BY <1>1, <2>1, <3>1
    <3>3. a[j] = infos[s[j]] /\ a[k] = infos[s[k]] /\ b[j] = infos[t[j]] /\ b[k] = infos[t[k]]
      OBVIOUS
    <3> HIDE DEF a, b
    <3>4. QED
      BY <3>2, <3>3
  <2>2. QED
    BY <2>1
<1> HIDE DEF f, g
<1>8. /\ \A k \in 1 .. n : b[k].from = a[f[k]].from /\ b[k].to = a[f[k]].to
      /\ \A k \in 1 .. n : a[k].from = b[g[k]].from /\ a[k].to = b[g[k]].to
  BY <1>4
<1>9. i \in 1 .. n /\ a[i] = infos[s[i]] /\ b[i] = infos[t[i]]
  BY DEF n
<1> HIDE DEF a, b
<1>a. InOrder(a, n) /\ InOrder(b, n)
  BY <1>6, <1>7 DEF InOrder
<1>b. Reorders(f, a, b, n) /\ Reorders(g, b, a, n)
  BY <1>5, <1>8 DEF Reorders
<1>10. LexLeq(a[i], b[i])
  BY <1>2, <1>9, <1>a, <1>b, NotBefore
<1>11. LexLeq(b[i], a[i])
  BY <1>2, <1>9, <1>a, <1>b, NotBefore
<1>12. QED
  BY <1>6, <1>9, <1>10, <1>11 DEF LexLeq

-----------------------------------------------------------------------------
(* Entries by name *)

LEMMA LastOfName ==
    ASSUME NEW s, IsSeq(s), NEW x \in Names(s)
    PROVE  \E i \in DOMAIN s : s[i].name = x /\ \A j \in DOMAIN s : s[j].name = x => j <= i
<1> DEFINE n == Len(s)
           Good == {m \in 0 .. n : (\E j \in 1 .. m : s[j].name = x) =>
                       \E i \in 1 .. m : s[i].name = x /\ \A j \in 1 .. m : s[j].name = x => j <= i}
<1>1. n \in Nat /\ DOMAIN s = 1 .. n
  BY IsSeqLen
<1>2. 0 \in Good
  BY <1>1
<1>3. ASSUME NEW m \in 0 .. (n - 1), m \in Good PROVE m + 1 \in Good
  <2>1. /\ m \in Nat /\ m + 1 \in 0 .. n /\ m + 1 \in 1 .. (m + 1)
        /\ \A j \in 1 .. (m + 1) : j <= m + 1 /\ (j \in 1 .. m \/ j = m + 1)
        /\ \A j \in 1 .. m : j \in 1 .. (m + 1)
    BY <1>1
  <2>2. CASE s[m + 1].name = x
    BY <2>1, <2>2
  <2>3. CASE s[m + 1].name # x
    <3>1. SUFFICES ASSUME \E j \in 1 .. (m + 1) : s[j].name = x
                   PROVE  \E i \in 1 .. (m + 1) : s[i].name = x
                             /\ \A j \in 1 .. (m + 1) : s[j].name = x => j <= i
      BY <2>1
    <3>2. \E j \in 1 .. m : s[j].name = x
      BY <2>1, <2>3, <3>1
    <3>3. PICK i \in 1 .. m : s[i].name = x /\ \A j \in 1 .. m : s[j].name = x => j <= i
      BY <1>3, <3>2
    <3>4. QED
      BY <2>1, <2>3, <3>3
  <2>4. QED
    BY <2>2, <2>3
<1>4. n \in Good
  <2> HIDE DEF n, Good
  <2>1. \A i \in 0 .. n : i \in Good
    BY <1>1, <1>2, <1>3, Induct
  <2>2. QED
    BY <1>1, <2>1
<1>5. \E j \in 1 .. n : s[j].name = x
  BY <1>1 DEF Names
<1>6. QED
  BY <1>1, <1>4, <1>5

LEMMA IndexMapOf ==
    ASSUME NEW s, IsSeq(s), NEW x \in Names(s)
    PROVE  /\ IndexMap(s)[x] \in 1 .. Len(s) /\ s[IndexMap(s)[x]].name = x
           /\ \A j \in 1 .. Len(s) : s[j].name = x => j <= IndexMap(s)[x]
<1>1. DOMAIN s = 1 .. Len(s)
  BY IsSeqLen
<1>2. IndexMap(s)[x] = CHOOSE i \in DOMAIN s :
          s[i].name = x /\ \A j \in DOMAIN s : s[j].name = x => j <= i
  BY DEF IndexMap
<1>3. QED
  BY <1>1, <1>2, LastOfName

(* A header that Serialize for Metadata can write has each name once: of    *)
(* two of one name, the list would be too short for the last.               *)
LEMMA NamesOnce ==
    ASSUME NEW s, IsSeq(s), \A x \in Names(s) : IndexMap(s)[x] <= Cardinality(Names(s))
    PROVE  \A i, j \in 1 .. Len(s) : s[i].name = s[j].name => i = j
<1> DEFINE n == Len(s)
           f == [i \in 1 .. n |-> s[i].name]
           N == Names(s)
<1>1. n \in Nat /\ DOMAIN s = 1 .. n
  BY IsSeqLen
<1>2. f \in Surjection(1 .. n, N)
  BY <1>1 DEF Names, Surjection
<1>3. IsFiniteSet(1 .. n) /\ Cardinality(1 .. n) = n
  <2>1. 1 \in Int /\ n \in Int
    BY <1>1
  <2> HIDE DEF n
  <2>2. IsFiniteSet(1 .. n) /\ Cardinality(1 .. n) = IF 1 > n THEN 0 ELSE n - 1 + 1
    BY <2>1, FS_Interval
  <2>3. QED
    BY <1>1, <2>2
<1>4. n <= Cardinality(N) \/ n = 0
  <2>1. SUFFICES ASSUME n # 0 PROVE n <= Cardinality(N)
    OBVIOUS
  <2>2. n \in 1 .. n /\ s[n].name \in N
    BY <1>1, <2>1 DEF Names
  <2>3. IndexMap(s)[s[n].name] \in 1 .. n /\ n <= IndexMap(s)[s[n].name]
    BY <2>2, IndexMapOf
  <2>4. IndexMap(s)[s[n].name] = n
    BY <1>1, <2>3
  <2>5. QED
    BY <2>2, <2>4
<1>5. IsFiniteSet(N) /\ Cardinality(N) \in Nat
  BY NamesFinite, FS_CardinalityType
<1> HIDE DEF n, f, N
<1>6. /\ Cardinality(N) <= n
      /\ Cardinality(N) = n => f \in Injection(1 .. n, N)
  BY <1>2, <1>3, FS_Surjection
<1>7. CASE n = 0
  BY <1>7 DEF n
<1>8. CASE n # 0
  <2>1. Cardinality(N) = n
    BY <1>1, <1>4, <1>5, <1>6, <1>8
  <2>2. f \in Injection(1 .. n, N)
    BY <1>6, <2>1
  <2>3. \A i, j \in 1 .. n : f[i] = f[j] => i = j
    BY <2>2 DEF Injection, IsInjective
  <2>4. QED
    BY <2>3 DEF n, f
<1>9. QED
  BY <1>7, <1>8

(* infos and e hold the same entries. *)
Lists(e, infos) ==
    /\ \A i, j \in 1 .. Len(e) : e[i].name = e[j].name => i = j
    /\ DOMAIN infos = {e[i].name : i \in 1 .. Len(e)}
    /\ \A i \in 1 .. Len(e) :
          /\ infos[e[i].name].dtype = e[i].dtype /\ infos[e[i].name].shape = e[i].shape
          /\ infos[e[i].name].from = e[i].from /\ infos[e[i].name].to = e[i].to

LEMMA EntriesOf ==
    ASSUME NEW s, IsSeq(s), NEW x \in DOMAIN Entries(s)
    PROVE  \E i \in 1 .. Len(s) :
              /\ s[i].name = x
              /\ Entries(s)[x] = [dtype |-> s[i].dtype, shape |-> s[i].shape,
                                  from |-> s[i].from, to |-> s[i].to]
<1>1. x \in Names(s)
  BY DEF Entries
<1>2. QED
  BY <1>1, IndexMapOf DEF Entries

LEMMA EntriesListed ==
    ASSUME NEW s, IsSeq(s), \A i, j \in 1 .. Len(s) : s[i].name = s[j].name => i = j
    PROVE  Lists(s, Entries(s))
<1>1. DOMAIN s = 1 .. Len(s)
  BY IsSeqLen
<1>2. DOMAIN Entries(s) = {s[i].name : i \in 1 .. Len(s)}
  BY <1>1 DEF Entries, Names
<1>3. ASSUME NEW i \in 1 .. Len(s)
      PROVE  Entries(s)[s[i].name] = [dtype |-> s[i].dtype, shape |-> s[i].shape,
                                      from |-> s[i].from, to |-> s[i].to]
  <2>1. s[i].name \in DOMAIN Entries(s)
    BY <1>2
  <2>2. PICK j \in 1 .. Len(s) :
           /\ s[j].name = s[i].name
           /\ Entries(s)[s[i].name] = [dtype |-> s[j].dtype, shape |-> s[j].shape,
                                       from |-> s[j].from, to |-> s[j].to]
    BY <2>1, EntriesOf
  <2>3. j = i
    BY <2>2
  <2>4. QED
    BY <2>2, <2>3
<1>4. ASSUME NEW i \in 1 .. Len(s)
      PROVE  /\ Entries(s)[s[i].name].dtype = s[i].dtype
             /\ Entries(s)[s[i].name].shape = s[i].shape
             /\ Entries(s)[s[i].name].from = s[i].from
             /\ Entries(s)[s[i].name].to = s[i].to
  <2> DEFINE r == Entries(s)[s[i].name]
  <2>1. r = [dtype |-> s[i].dtype, shape |-> s[i].shape, from |-> s[i].from, to |-> s[i].to]
    BY <1>3
  <2> HIDE DEF r
  <2>2. r.dtype = s[i].dtype /\ r.shape = s[i].shape /\ r.from = s[i].from /\ r.to = s[i].to
    BY <2>1
  <2>3. QED
    BY <2>2 DEF r
<1>5. QED
  BY <1>2, <1>4 DEF Lists

-----------------------------------------------------------------------------
(* What the writer lays out, what the reader lists and what has passed      *)

WritePhases == {"lay out", "check written", "serialize"}
ReadPhases  == {"check read", "check header", "open", "open header"}
FilePhases  == {"stored"} \cup ReadPhases

(* Every entry that has passed starts where the one before ends.            *)
Follows(e, i) == e[i].from = IF i = 1 THEN 0 ELSE e[i - 1].to

WalkOk == \A i \in 1 .. walked : Follows(tensors, i) /\ SizeOk(tensors[i])

(* The writer's entries are the caller's tensors in the order of the sort.  *)
LaidAs(i) ==
    /\ tensors[i].name = sorted[i].name
    /\ tensors[i].dtype = sorted[i].dtype /\ tensors[i].shape = sorted[i].shape
    /\ Follows(tensors, i)
    /\ tensors[i].to = (tensors[i].from + sorted[i].bytes) % Limit

Sorted == \E p \in SortOrders(input) : sorted = [i \in DOMAIN input |-> input[p[i]]]

LaidOutInv ==
    phase \in WritePhases =>
        /\ input \in Inputs /\ Sorted
        /\ phase # "lay out" => Len(tensors) = Len(sorted)
        /\ \A i \in 1 .. Len(tensors) : LaidAs(i)
        /\ phase = "serialize" => walked = Len(tensors)

(* The reader's entries are those of the header.                            *)
ParsedInv ==
    /\ phase \in FilePhases => \A x \in DOMAIN file.infos : Shaped(file.infos[x])
    /\ phase \in ReadPhases => Lists(tensors, file.infos)
    /\ phase \in {"open", "open header"} => walked = Len(tensors)

LEMMA PhaseNames ==
    /\ \A p \in WritePhases : p \notin FilePhases
    /\ WritePhases \cap {"sort", "not written", "panic", "refused"} = {}
    /\ FilePhases \cap {"sort", "not written", "panic", "refused"} = {}
BY DEF WritePhases, FilePhases, ReadPhases

LEMMA SortedTyped ==
    ASSUME input \in Inputs, Sorted
    PROVE  /\ IsSeq(sorted) /\ Len(sorted) = Len(input)
           /\ \A i \in 1 .. Len(sorted) : Shaped(sorted[i]) /\ sorted[i].bytes \in 0 .. (Limit - 1)
<1>1. PICK p \in SortOrders(input) : sorted = [i \in DOMAIN input |-> input[p[i]]]
  BY DEF Sorted
<1>2. /\ Len(input) \in Nat /\ DOMAIN input = 1 .. Len(input)
      /\ \A i \in DOMAIN input : Shaped(input[i]) /\ input[i].bytes \in 0 .. (Limit - 1)
  BY LayoutAssumption DEF Shaped
<1>3. p \in [DOMAIN input -> DOMAIN input]
  BY <1>1 DEF SortOrders
<1>4. DOMAIN sorted = 1 .. Len(input) /\ sorted = [i \in DOMAIN sorted |-> sorted[i]]
  BY <1>1, <1>2
<1>5. IsSeq(sorted) /\ Len(sorted) = Len(input)
  BY <1>2, <1>4, IsSeqFunction
<1>6. QED
  BY <1>1, <1>2, <1>3, <1>5

(* Every entry has a type and a shape, the writer's and the reader's.       *)
LEMMA EntriesShaped ==
    ASSUME LayoutInv, LaidOutInv, ParsedInv, phase \in WritePhases \cup ReadPhases
    PROVE  \A i \in 1 .. Len(tensors) : Shaped(tensors[i])
<1>1. IsSeq(tensors) /\ Len(tensors) \in Nat
  BY IsSeqLen DEF LayoutInv, EntriesTyped
<1>2. CASE phase \in WritePhases
  <2>1. \A i \in 1 .. Len(tensors) : LaidAs(i)
    BY <1>2 DEF LaidOutInv
  <2>2. /\ IsSeq(sorted) /\ Len(sorted) \in Nat /\ Len(tensors) <= Len(sorted)
        /\ \A i \in 1 .. Len(sorted) : Shaped(sorted[i])
    <3>1. input \in Inputs /\ Sorted /\ (phase # "lay out" => Len(tensors) = Len(sorted))
      BY <1>2 DEF LaidOutInv
    <3>2. IsSeq(sorted) /\ \A i \in 1 .. Len(sorted) : Shaped(sorted[i])
      BY <3>1, SortedTyped
    <3>3. phase = "lay out" => Len(tensors) <= Len(sorted)
      BY DEF LayoutInv, WriterTyped
    <3>4. Len(sorted) \in Nat
      BY <3>2, IsSeqLen
    <3>5. Len(tensors) <= Len(sorted)
      <4>1. CASE phase = "lay out"
        BY <3>3, <4>1
      <4>2. CASE phase # "lay out"
        <5>1. Len(tensors) = Len(sorted)
          BY <3>1, <4>2
        <5>2. QED
          BY <3>4, <5>1
      <4>3. QED
        BY <4>1, <4>2
    <3>6. QED
      BY <3>2, <3>4, <3>5
  <2>3. \A i \in 1 .. Len(tensors) : i \in 1 .. Len(sorted)
    BY <1>1, <2>2
  <2>4. QED
    BY <2>1, <2>2, <2>3 DEF LaidAs, Shaped
<1>3. CASE phase \in ReadPhases
  <2>1. Lists(tensors, file.infos) /\ \A x \in DOMAIN file.infos : Shaped(file.infos[x])
    BY <1>3 DEF ParsedInv, FilePhases
  <2>2. ASSUME NEW i \in 1 .. Len(tensors) PROVE Shaped(tensors[i])
    <3>1. tensors[i].name \in DOMAIN file.infos
      BY <2>1 DEF Lists
    <3>2. /\ file.infos[tensors[i].name].dtype = tensors[i].dtype
          /\ file.infos[tensors[i].name].shape = tensors[i].shape
      BY <2>1 DEF Lists
    <3>3. QED
      BY <2>1, <3>1, <3>2 DEF Shaped
  <2>3. QED
    BY <2>2
<1>4. QED
  BY <1>2, <1>3

(* What a step does to the entries and to the walk over them                *)
LEMMA WalkCases ==
    ASSUME [Next]_vars
    PROVE  \/ UNCHANGED <<tensors, start, walked>>
           \/ LayOut \/ LaidOut \/ Parse \/ ValidateEntry
<1>1. Sort \/ WriterValidated \/ SerializePanics \/ Serialize \/ RefuseEntry
         => UNCHANGED <<tensors, start, walked>>
  BY DEF Sort, WriterValidated, SerializePanics, Serialize, RefuseEntry
<1>2. ReadRefused \/ ReadDone \/ HeaderDone \/ Rewrap \/ Tear \/ UNCHANGED vars
         => UNCHANGED <<tensors, start, walked>>
  BY DEF ReadRefused, ReadDone, HeaderDone, Rewrap, Tear, vars
<1>3. QED
  BY <1>1, <1>2 DEF Next

LEMMA WalkOkInit == Init => WalkOk
<1> SUFFICES ASSUME Init PROVE WalkOk
  OBVIOUS
<1>1. walked = 0
  BY DEF Init
<1>2. QED
  BY <1>1 DEF WalkOk

LEMMA WalkOkStep ==
    ASSUME LayoutInv, WalkOk, [Next]_vars
    PROVE  WalkOk'
<1>n. Len(tensors) \in Nat /\ walked \in 0 .. Len(tensors)
  BY IsSeqLen DEF LayoutInv, TypeOK, EntriesTyped
<1>1. CASE UNCHANGED <<tensors, start, walked>>
  BY <1>1 DEF WalkOk, Follows, SizeOk, NBits
<1>2. CASE LayOut \/ LaidOut \/ Parse
  <2>1. walked' = 0
    BY <1>2 DEF LayOut, LaidOut, Parse, LayoutInv, WriterTyped
  <2>2. QED
    BY <2>1 DEF WalkOk
<1>3. CASE ValidateEntry
  <2> DEFINE k == walked + 1
  <2>1. /\ walked < Len(tensors) /\ walked' = k /\ tensors' = tensors
        /\ tensors[k].from = start /\ SizeOk(tensors[k])
    BY <1>3 DEF ValidateEntry, EntryOk, Entry, SizeOk
  <2>2. Follows(tensors, k)
    <3>1. start = IF walked = 0 THEN 0 ELSE tensors[walked].to
      BY DEF LayoutInv, TypeOK
    <3>2. k - 1 = walked /\ (k = 1 <=> walked = 0)
      BY <1>n
    <3>3. QED
      BY <2>1, <3>1, <3>2 DEF Follows
  <2>3. \A i \in 1 .. k : i \in 1 .. walked \/ i = k
    BY <1>n
  <2>4. \A i \in 1 .. walked' : Follows(tensors, i) /\ SizeOk(tensors[i])
    BY <2>1, <2>2, <2>3 DEF WalkOk
  <2>5. QED
    BY <2>1, <2>4 DEF WalkOk, Follows, SizeOk, NBits
<1>4. QED
  BY <1>1, <1>2, <1>3, WalkCases

LEMMA LaidOutInit == Init => LaidOutInv
<1> SUFFICES ASSUME Init PROVE LaidOutInv
  OBVIOUS
<1>1. phase = "sort" \/ phase = "stored"
  BY DEF Init
<1>2. QED
  BY <1>1, PhaseNames DEF LaidOutInv, FilePhases

LEMMA LaidAsSame ==
    ASSUME UNCHANGED <<input, sorted, tensors>>
    PROVE  /\ Sorted' <=> Sorted
           /\ (\A i \in 1 .. Len(tensors') : LaidAs(i)')
                 <=> \A i \in 1 .. Len(tensors) : LaidAs(i)
<1>1. Sorted' <=> Sorted
  BY DEF Sorted
<1>2. ASSUME NEW i PROVE LaidAs(i)' <=> LaidAs(i)
  BY DEF LaidAs, Follows
<1>3. QED
  BY <1>1, <1>2

LEMMA LaidOutStep ==
    ASSUME LayoutInv, LaidOutInv, [Next]_vars
    PROVE  LaidOutInv'
<1>n. IsSeq(tensors) /\ Len(tensors) \in Nat /\ walked \in 0 .. Len(tensors)
  BY IsSeqLen DEF LayoutInv, TypeOK, EntriesTyped
<1>1. CASE Sort
  <2>1. /\ phase' = "lay out" /\ input' = input /\ input \in Inputs
        /\ tensors' = tensors /\ Len(tensors) = 0 /\ Sorted'
    BY <1>1 DEF Sort, LayoutInv, WriterTyped, Sorted
  <2>2. 1 .. Len(tensors') = {}
    <3>1. Len(tensors') = 0
      BY <2>1, Zenon
    <3>2. 1 .. 0 = {}
      OBVIOUS
    <3>3. QED
      BY <3>1, <3>2, Zenon
  <2>3. QED
    BY <2>1, <2>2 DEF LaidOutInv
<1>2. CASE LayOut
  <2> DEFINE k == Len(tensors) + 1
             t == sorted[k]
             e == [name |-> t.name, dtype |-> t.dtype, shape |-> t.shape,
                   from |-> Offset, to |-> (Offset + t.bytes) % Limit]
  <2>1. /\ phase = "lay out" /\ phase' = phase /\ tensors' = Append(tensors, e)
        /\ input' = input /\ sorted' = sorted
    BY <1>2 DEF LayOut
  <2>2. /\ input \in Inputs /\ Sorted /\ \A i \in 1 .. Len(tensors) : LaidAs(i)
    BY <2>1 DEF LaidOutInv, WritePhases
  <2>3. Sorted'
    BY <2>1, <2>2 DEF Sorted
  <2>4. /\ e.name = t.name /\ e.dtype = t.dtype /\ e.shape = t.shape
        /\ e.from = Offset /\ e.to = (e.from + t.bytes) % Limit
    OBVIOUS
  <2> HIDE DEF e
  <2>5. /\ Len(tensors') = k /\ tensors'[k] = e
        /\ \A i \in 1 .. Len(tensors) : tensors'[i] = tensors[i]
    BY <1>n, <2>1, IsSeqAppend
  <2>6. Offset = IF k = 1 THEN 0 ELSE tensors[k - 1].to
    <3>1. CASE Len(tensors) = 0
      <4>1. tensors = <<>>
        BY <1>n, <3>1 DEF IsSeq
      <4>2. QED
        BY <3>1, <4>1 DEF Offset
    <3>2. CASE Len(tensors) # 0
      <4>1. tensors # <<>> /\ k # 1 /\ k - 1 = Len(tensors)
        BY <1>n, <3>2
      <4>2. QED
        BY <4>1 DEF Offset, Last
    <3>3. QED
      BY <3>1, <3>2
  <2>7. \A i \in 1 .. k : /\ i = k \/ i \in 1 .. Len(tensors)
                          /\ i # 1 => i - 1 \in 1 .. Len(tensors)
    BY <1>n
  <2>8. ASSUME NEW i \in 1 .. k PROVE LaidAs(i)'
    <3>1. i # 1 => tensors'[i - 1] = tensors[i - 1]
      BY <2>5, <2>7
    <3>2. CASE i = k
      BY <2>1, <2>4, <2>5, <2>6, <3>1, <3>2 DEF LaidAs, Follows
    <3>3. CASE i \in 1 .. Len(tensors)
      <4>1. LaidAs(i) /\ tensors'[i] = tensors[i]
        BY <2>2, <2>5, <3>3
      <4>2. QED
        BY <2>1, <3>1, <4>1 DEF LaidAs, Follows
    <3>4. QED
      BY <2>7, <3>2, <3>3
  <2>9. QED
    BY <2>1, <2>2, <2>3, <2>5, <2>8 DEF LaidOutInv
<1>3. CASE LaidOut \/ WriterValidated \/ ValidateEntry
  <2>1. UNCHANGED <<input, sorted, tensors>>
    BY <1>3 DEF LaidOut, WriterValidated, ValidateEntry
  <2>2. \/ phase = "lay out" /\ phase' = "check written" /\ Len(tensors) = Len(sorted)
        \/ phase = "check written" /\ phase' = "serialize" /\ walked' = Len(tensors)
        \/ phase' = phase /\ phase # "serialize"
    BY <1>3 DEF LaidOut, WriterValidated, ValidateEntry, Validating
  <2>3. phase' \in WritePhases => phase \in WritePhases
    BY <2>2 DEF WritePhases
  <2>4. phase \in WritePhases =>
           /\ Sorted' /\ input' \in Inputs
           /\ \A i \in 1 .. Len(tensors') : LaidAs(i)'
    BY <2>1, LaidAsSame DEF LaidOutInv
  <2>5. QED
    BY <2>1, <2>2, <2>3, <2>4 DEF LaidOutInv
<1>4. CASE SerializePanics \/ Serialize \/ RefuseEntry \/ ReadRefused
  <2>1. phase' \in {"panic", "not written", "stored", "refused"}
    <3>1. SerializePanics \/ RefuseEntry \/ ReadRefused
            => phase' \in {"panic", "not written", "refused"}
      BY DEF SerializePanics, RefuseEntry, ReadRefused
    <3>2. Serialize => phase' \in {"not written", "stored"}
      BY DEF Serialize
    <3>3. QED
      BY <1>4, <3>1, <3>2
  <2>2. QED
    BY <2>1, PhaseNames DEF LaidOutInv, FilePhases
<1>5. CASE Parse \/ ReadDone \/ HeaderDone \/ Rewrap \/ Tear
  <2>1. phase' \in {"check read", "check header", "open", "open header", "stored", "refused"}
    <3>1. Parse \/ ReadDone \/ HeaderDone \/ Tear =>
            phase' \in {"check read", "check header", "open", "open header", "stored", "refused"}
      BY DEF Parse, ReadDone, HeaderDone, Tear
    <3>2. Rewrap => phase' \in {"stored", "open", "open header"}
      BY DEF Rewrap
    <3>3. QED
      BY <1>5, <3>1, <3>2
  <2>2. QED
    BY <2>1 DEF LaidOutInv, WritePhases
<1>6. CASE UNCHANGED vars
  <2>1. UNCHANGED <<phase, input, sorted, tensors, walked>>
    BY <1>6 DEF vars
  <2>2. QED
    BY <2>1, LaidAsSame DEF LaidOutInv
<1>7. QED
  BY <1>1, <1>2, <1>3, <1>4, <1>5, <1>6 DEF Next

LEMMA ParsedInit == Init => ParsedInv
<1> SUFFICES ASSUME Init PROVE ParsedInv
  OBVIOUS
<1>1. \/ phase = "sort"
      \/ phase = "stored" /\ file \in Buffers
  BY DEF Init
<1>2. file \in Buffers => \A x \in DOMAIN file.infos : Shaped(file.infos[x])
  BY LayoutAssumption DEF Shaped
<1>3. phase \notin ReadPhases /\ (phase = "sort" => phase \notin FilePhases)
  BY <1>1 DEF ReadPhases, FilePhases
<1>4. QED
  BY <1>1, <1>2, <1>3 DEF ParsedInv, ReadPhases

(* A header written for well shaped entries has well shaped entries.        *)
LEMMA EntriesShapedToo ==
    ASSUME NEW s, IsSeq(s), \A i \in 1 .. Len(s) : Shaped(s[i])
    PROVE  \A x \in DOMAIN Entries(s) : Shaped(Entries(s)[x])
<1>1. SUFFICES ASSUME NEW x \in DOMAIN Entries(s) PROVE Shaped(Entries(s)[x])
  OBVIOUS
<1> DEFINE r == Entries(s)[x]
<1>2. PICK i \in 1 .. Len(s) : r = [dtype |-> s[i].dtype, shape |-> s[i].shape,
                                    from |-> s[i].from, to |-> s[i].to]
  BY EntriesOf
<1> HIDE DEF r
<1>3. r.dtype = s[i].dtype /\ r.shape = s[i].shape
  BY <1>2
<1>4. Shaped(r)
  BY <1>3 DEF Shaped
<1>5. QED
  BY <1>4 DEF r

(* The parser lists every entry of the header once.                         *)
LEMMA ParsedLists ==
    ASSUME NEW infos, IsFiniteSet(DOMAIN infos), NEW s \in Orders(infos)
    PROVE  /\ IsSeq(Listed(infos, s)) /\ Len(Listed(infos, s)) = Cardinality(DOMAIN infos)
           /\ Lists(Listed(infos, s), infos)
           /\ \A i \in 1 .. Cardinality(DOMAIN infos) :
                 /\ Listed(infos, s)[i].name = s[i] /\ s[i] \in DOMAIN infos
                 /\ Listed(infos, s)[i].from = infos[s[i]].from
                 /\ Listed(infos, s)[i].to = infos[s[i]].to
<1> DEFINE n == Cardinality(DOMAIN infos)
           e == Listed(infos, s)
<1>1. s \in SetToSeqs(DOMAIN infos)
  BY DEF Orders
<1>2. /\ n \in Nat /\ s \in [1 .. n -> DOMAIN infos]
      /\ \A i, j \in 1 .. n : s[i] = s[j] => i = j
      /\ \A x \in DOMAIN infos : \E i \in 1 .. n : s[i] = x
  BY <1>1, Enumeration
<1> HIDE DEF n
<1>3. DOMAIN e = 1 .. n /\ e = [i \in DOMAIN e |-> e[i]]
  BY <1>2 DEF Listed
<1>4. ASSUME NEW i \in 1 .. n
      PROVE  /\ e[i].name = s[i]
             /\ e[i].dtype = infos[s[i]].dtype /\ e[i].shape = infos[s[i]].shape
             /\ e[i].from = infos[s[i]].from /\ e[i].to = infos[s[i]].to
  BY <1>2 DEF Listed
<1> HIDE DEF e
<1>5. IsSeq(e) /\ Len(e) = n
  BY <1>2, <1>3, IsSeqFunction
<1>6. \A i, j \in 1 .. n : e[i].name = e[j].name => i = j
  BY <1>2, <1>4
<1>7. DOMAIN infos = {e[i].name : i \in 1 .. n}
  <2>1. ASSUME NEW x \in DOMAIN infos PROVE x \in {e[i].name : i \in 1 .. n}
    BY <1>2, <1>4
  <2>2. ASSUME NEW i \in 1 .. n PROVE e[i].name \in DOMAIN infos
    BY <1>2, <1>4
  <2>3. QED
    BY <2>1, <2>2
<1>8. Lists(e, infos)
  BY <1>4, <1>5, <1>6, <1>7 DEF Lists
<1>9. \A i \in 1 .. n : /\ e[i].name = s[i] /\ s[i] \in DOMAIN infos
                        /\ e[i].from = infos[s[i]].from /\ e[i].to = infos[s[i]].to
  BY <1>2, <1>4
<1>10. QED
  BY <1>5, <1>8, <1>9 DEF e, n

LEMMA ParsedStep ==
    ASSUME LayoutInv, LaidOutInv, ParsedInv, [Next]_vars
    PROVE  ParsedInv'
<1>n. IsSeq(tensors)
  BY DEF LayoutInv, EntriesTyped
<1>1. CASE Sort \/ LayOut \/ LaidOut \/ WriterValidated \/ SerializePanics
  <2>1. phase' \in {"lay out", "check written", "serialize", "panic"}
    BY <1>1 DEF Sort, LayOut, LaidOut, WriterValidated, SerializePanics
  <2>2. QED
    BY <2>1 DEF ParsedInv, FilePhases, ReadPhases
<1>2. CASE Serialize
  <2>1. PICK json \in JsonLens :
          IF HeaderTooLarge(Padded(json))
          THEN phase' = "not written" /\ UNCHANGED file
          ELSE /\ file' = [n |-> Padded(json), infos |-> Entries(tensors), data |-> Data,
                           len |-> N_LEN + Padded(json) + Len(Data)]
               /\ phase' = "stored"
    BY <1>2 DEF Serialize
  <2>2. phase' = "not written" \/ (phase' = "stored" /\ file'.infos = Entries(tensors))
    <3>1. CASE HeaderTooLarge(Padded(json))
      BY <2>1, <3>1
    <3>2. CASE ~HeaderTooLarge(Padded(json))
      BY <2>1, <3>2
    <3>3. QED
      BY <3>1, <3>2
  <2>3. \A i \in 1 .. Len(tensors) : Shaped(tensors[i])
    <3>1. phase \in WritePhases
      BY <1>2 DEF Serialize, WritePhases
    <3>2. QED
      BY <3>1, EntriesShaped
  <2>4. \A x \in DOMAIN Entries(tensors) : Shaped(Entries(tensors)[x])
    BY <1>n, <2>3, EntriesShapedToo
  <2>5. phase' \notin ReadPhases
    BY <2>2 DEF ReadPhases
  <2>6. phase' \in FilePhases => \A x \in DOMAIN file'.infos : Shaped(file'.infos[x])
    BY <2>2, <2>4 DEF FilePhases, ReadPhases
  <2>7. QED
    BY <2>5, <2>6 DEF ParsedInv, ReadPhases, Shaped
<1>3. CASE Parse
  <2>1. PICK s \in Orders(file.infos) : tensors' = Listed(file.infos, s)
    BY <1>3 DEF Parse
  <2>2. /\ phase = "stored" /\ phase' \in {"check read", "check header"} /\ file' = file
    BY <1>3 DEF Parse
  <2>3. IsFiniteSet(DOMAIN file.infos)
    BY <2>2 DEF LayoutInv, ReaderTyped
  <2>4. Lists(tensors', file'.infos)
    BY <2>1, <2>2, <2>3, ParsedLists
  <2>5. QED
    BY <2>2, <2>4 DEF ParsedInv, FilePhases, Shaped, Lists
<1>4. CASE ValidateEntry \/ ReadDone \/ HeaderDone
  <2>1. UNCHANGED <<file, tensors>>
    BY <1>4 DEF ValidateEntry, ReadDone, HeaderDone
  <2>2. \/ phase' = phase /\ phase \notin {"open", "open header"}
        \/ phase \in ReadPhases /\ phase' = "refused"
        \/ phase \in ReadPhases /\ phase' \in {"open", "open header"} /\ walked' = Len(tensors)
    BY <1>4 DEF ValidateEntry, Validating, ReadDone, HeaderDone, ReadPhases
  <2>3. phase' \in FilePhases => phase \in FilePhases
    BY <2>2, PhaseNames DEF FilePhases
  <2>4. phase' \in ReadPhases => phase \in ReadPhases
    BY <2>2 DEF ReadPhases
  <2>5. QED
    BY <2>1, <2>2, <2>3, <2>4 DEF ParsedInv, Shaped, Lists
<1>5. CASE RefuseEntry \/ ReadRefused
  <2>1. phase' \in {"not written", "refused"}
    BY <1>5 DEF RefuseEntry, ReadRefused
  <2>2. QED
    BY <2>1 DEF ParsedInv, FilePhases, ReadPhases
<1>6. CASE Rewrap
  <2>1. phase \in {"open", "open header"} /\ UNCHANGED <<tensors, walked>>
    BY <1>6 DEF Rewrap
  <2>2. PICK json \in JsonLens :
          IF HeaderTooLarge(Padded(json))
          THEN UNCHANGED <<file, phase>>
          ELSE /\ file' = [n |-> Padded(json), infos |-> Entries(tensors), data |-> file.data,
                           len |-> N_LEN + Padded(json) + (file.len - N_LEN - file.n)]
               /\ phase' = "stored"
    BY <1>6 DEF Rewrap
  <2>3. UNCHANGED <<file, phase>> \/ (phase' = "stored" /\ file'.infos = Entries(tensors))
    BY <2>2
  <2>4. CASE UNCHANGED <<file, phase>>
    BY <2>1, <2>4 DEF ParsedInv, Shaped, Lists
  <2>5. CASE phase' = "stored" /\ file'.infos = Entries(tensors)
    <3>1. \A i \in 1 .. Len(tensors) : Shaped(tensors[i])
      <4>1. phase \in ReadPhases
        BY <2>1 DEF ReadPhases
      <4>2. QED
        BY <4>1, EntriesShaped
    <3>2. \A x \in DOMAIN Entries(tensors) : Shaped(Entries(tensors)[x])
      BY <1>n, <3>1, EntriesShapedToo
    <3>3. QED
      BY <2>5, <3>2 DEF ParsedInv, ReadPhases, Shaped
  <2>6. QED
    BY <2>3, <2>4, <2>5
<1>7. CASE Tear
  <2>1. /\ phase = "stored" /\ phase' = "stored" /\ file'.infos = file.infos
    BY <1>7 DEF Tear
  <2>2. QED
    BY <2>1 DEF ParsedInv, FilePhases, ReadPhases, Shaped
<1>8. CASE UNCHANGED vars
  BY <1>8 DEF vars, ParsedInv, Shaped, Lists
<1>9. QED
  BY <1>1, <1>2, <1>3, <1>4, <1>5, <1>6, <1>7, <1>8 DEF Next

(* Together *)
HeaderInv == LayoutInv /\ WalkOk /\ LaidOutInv /\ ParsedInv

LEMMA HeaderInvariance == Spec => []HeaderInv
<1>1. Init => HeaderInv
  BY LayoutInvInit, WalkOkInit, LaidOutInit, ParsedInit DEF HeaderInv
<1>2. HeaderInv /\ [Next]_vars => HeaderInv'
  BY LayoutInvStep, WalkOkStep, LaidOutStep, ParsedStep DEF HeaderInv
<1>3. QED
  BY <1>1, <1>2, PTL DEF Spec

(* No header opens with a tensor whose span is not the size of its shape,   *)
(* wherever the product of the shape would have wrapped.                    *)
THEOREM SizedCorrect == Spec => []OpenSized
<1>1. HeaderInv => OpenSized
  <2> SUFFICES ASSUME HeaderInv, phase \in {"open", "open header"}, NEW i \in DOMAIN tensors
               PROVE  8 * (tensors[i].to - tensors[i].from) = TrueBits(tensors[i])
    BY DEF OpenSized
  <2>1. walked = Len(tensors) /\ i \in 1 .. Len(tensors)
    BY IsSeqLen DEF HeaderInv, ParsedInv, LayoutInv, EntriesTyped
  <2>2. SizeOk(tensors[i])
    BY <2>1 DEF HeaderInv, WalkOk
  <2>3. Shaped(tensors[i])
    <3>1. phase \in ReadPhases
      BY DEF ReadPhases
    <3>2. QED
      BY <2>1, <3>1, EntriesShaped DEF HeaderInv
  <2>4. QED
    BY <2>2, <2>3, SizeExact
<1>2. QED
  BY <1>1, HeaderInvariance, PTL

-----------------------------------------------------------------------------
(* The data as it is written *)

(* data holds the bytes of t from the offset on. *)
Carries(data, from, t) ==
    /\ from + t.bytes <= Len(data)
    /\ \A i \in 1 .. t.bytes : data[from + i] = <<t.name, i>>

LEMMA IsSeqConcat ==
    ASSUME NEW a, NEW b, IsSeq(a), IsSeq(b)
    PROVE  /\ IsSeq(a \o b) /\ Len(a \o b) = Len(a) + Len(b)
           /\ \A i \in 1 .. Len(a) : (a \o b)[i] = a[i]
           /\ \A i \in 1 .. Len(b) : (a \o b)[Len(a) + i] = b[i]
<1>1. PICK S : a \in Seq(S)
  BY DEF IsSeq
<1>2. PICK T : b \in Seq(T)
  BY DEF IsSeq
<1>3. a \in Seq(S \cup T) /\ b \in Seq(S \cup T) /\ Len(a) \in Nat /\ Len(b) \in Nat
  BY <1>1, <1>2
<1>4. /\ a \o b \in Seq(S \cup T) /\ Len(a \o b) = Len(a) + Len(b)
      /\ \A i \in 1 .. Len(a) + Len(b) :
            (a \o b)[i] = IF i <= Len(a) THEN a[i] ELSE b[i - Len(a)]
  BY <1>3, ConcatProperties
<1>5. ASSUME NEW i \in 1 .. Len(a) PROVE (a \o b)[i] = a[i]
  <2>1. i \in 1 .. Len(a) + Len(b) /\ i <= Len(a)
    BY <1>3
  <2>2. QED
    BY <1>4, <2>1
<1>6. ASSUME NEW i \in 1 .. Len(b) PROVE (a \o b)[Len(a) + i] = b[i]
  <2>1. Len(a) + i \in 1 .. Len(a) + Len(b) /\ ~(Len(a) + i <= Len(a)) /\ Len(a) + i - Len(a) = i
    BY <1>3
  <2>2. QED
    BY <1>4, <2>1
<1>7. QED
  BY <1>4, <1>5, <1>6 DEF IsSeq

LEMMA BytesSeq ==
    ASSUME NEW t, t.bytes \in Nat
    PROVE  /\ IsSeq(BytesOf(t)) /\ Len(BytesOf(t)) = t.bytes
           /\ \A i \in 1 .. t.bytes : BytesOf(t)[i] = <<t.name, i>>
<1> DEFINE b == BytesOf(t)
<1>1. /\ DOMAIN b = 1 .. t.bytes /\ b = [i \in DOMAIN b |-> b[i]]
      /\ \A i \in 1 .. t.bytes : b[i] = <<t.name, i>>
  BY DEF BytesOf
<1> HIDE DEF b
<1>2. IsSeq(b) /\ Len(b) = t.bytes
  BY <1>1, IsSeqFunction
<1>3. QED
  BY <1>1, <1>2 DEF b

LEMMA CarriedSlice ==
    ASSUME NEW data, IsSeq(data), NEW from \in Nat, NEW t, t.bytes \in Nat,
           Carries(data, from, t)
    PROVE  SubSeq(data, from + 1, from + t.bytes) = BytesOf(t)
<1> DEFINE b == BytesOf(t)
           n == t.bytes
           S == {data[i] : i \in from + 1 .. from + n}
           c == SubSeq(data, from + 1, from + n)
<1>1. /\ IsSeq(b) /\ Len(b) = n
      /\ \A i \in 1 .. n : b[i] = <<t.name, i>>
  BY BytesSeq
<1>2. from + 1 \in Int /\ from + n \in Int /\ n \in Nat
  OBVIOUS
<1>3. \A i \in from + 1 .. from + n : data[i] \in S
  OBVIOUS
<1> HIDE DEF S, b, n
<1>4. /\ c \in Seq(S)
      /\ Len(c) = IF from + 1 <= from + n THEN from + n - (from + 1) + 1 ELSE 0
      /\ \A i \in 1 .. from + n - (from + 1) + 1 : c[i] = data[from + 1 + i - 1]
  BY <1>2, <1>3, SubSeqProperties
<1> HIDE DEF c
<1>5. Len(c) = n
  BY <1>2, <1>4
<1>6. ASSUME NEW i \in 1 .. n PROVE c[i] = b[i]
  <2>1. i \in 1 .. from + n - (from + 1) + 1 /\ from + 1 + i - 1 = from + i
    BY <1>2
  <2>2. c[i] = data[from + i]
    BY <1>4, <2>1
  <2>3. data[from + i] = <<t.name, i>>
    BY DEF Carries, n
  <2>4. QED
    BY <1>1, <2>2, <2>3
<1>7. DOMAIN c = 1 .. n /\ c = [i \in 1 .. n |-> c[i]]
  BY <1>4, <1>5
<1>8. DOMAIN b = 1 .. n /\ b = [i \in 1 .. n |-> b[i]]
  <2>1. PICK T : b \in Seq(T)
    BY <1>1 DEF IsSeq
  <2>2. QED
    BY <1>1, <2>1
<1>9. c = b
  BY <1>6, <1>7, <1>8
<1>10. QED
  BY <1>9 DEF c, b, n

(* e are the entries of s, laid end to end.                                 *)
Spans(e, s) ==
    /\ Len(s) \in Nat /\ Len(e) = Len(s)
    /\ \A i \in 1 .. Len(s) :
          /\ s[i].bytes \in Nat /\ e[i].from \in Nat /\ e[i].to = e[i].from + s[i].bytes
          /\ Follows(e, i)

EndOf(e, k) == IF k = 0 THEN 0 ELSE e[k].to

LEMMA WrittenAt ==
    ASSUME NEW e, NEW s, Spans(e, s)
    PROVE  /\ IsSeq(Written(s)) /\ Len(Written(s)) = EndOf(e, Len(s))
           /\ \A i \in 1 .. Len(s) : Carries(Written(s), e[i].from, s[i])
<1> DEFINE n == Len(s)
<1>1. n \in Nat /\ \A i \in 1 .. n : s[i].bytes \in Nat
  BY DEF Spans
<1>2. PICK d : /\ d[0] = <<>> /\ Written(s) = d[n]
               /\ \A k \in 0 .. n : IsSeq(d[k])
               /\ \A k \in 1 .. n : d[k] = d[k - 1] \o BytesOf(s[k])
  BY <1>1, WrittenSteps
<1> HIDE DEF n
<1>3. ASSUME NEW k \in 0 .. (n - 1)
      PROVE  /\ k \in 0 .. n /\ k + 1 \in 1 .. n /\ k + 1 \in 0 .. n /\ k + 1 # 0
             /\ d[k + 1] = d[k] \o BytesOf(s[k + 1]) /\ IsSeq(d[k])
             /\ s[k + 1].bytes \in Nat
             /\ e[k + 1].from = EndOf(e, k) /\ e[k + 1].from \in Nat
             /\ EndOf(e, k + 1) = EndOf(e, k) + s[k + 1].bytes
  <2>1. /\ k \in 0 .. n /\ k + 1 \in 1 .. n /\ k + 1 \in 0 .. n /\ k + 1 # 0
        /\ k + 1 - 1 = k /\ (k + 1 = 1 <=> k = 0)
    BY <1>1
  <2>2. d[k + 1] = d[k] \o BytesOf(s[k + 1]) /\ IsSeq(d[k])
    <3> DEFINE j == k + 1
    <3>1. j \in 1 .. n /\ j - 1 = k
      BY <2>1
    <3> HIDE DEF j
    <3>2. d[j] = d[j - 1] \o BytesOf(s[j])
      BY <1>2, <3>1
    <3>3. IsSeq(d[k])
      BY <1>2, <2>1
    <3>4. QED
      BY <3>1, <3>2, <3>3 DEF j
  <2>3. /\ s[k + 1].bytes \in Nat /\ e[k + 1].from \in Nat
        /\ e[k + 1].to = e[k + 1].from + s[k + 1].bytes
        /\ Follows(e, k + 1)
    BY <2>1 DEF Spans, n
  <2>4. e[k + 1].from = EndOf(e, k)
    BY <2>1, <2>3 DEF Follows, EndOf
  <2>5. EndOf(e, k + 1) = e[k + 1].to
    BY <2>1 DEF EndOf
  <2>6. QED
    BY <2>1, <2>2, <2>3, <2>4, <2>5
<1> DEFINE Long == {k \in 0 .. n : Len(d[k]) = EndOf(e, k)}
<1>4. \A k \in 0 .. n : k \in Long
  <2>1. 0 \in Long
    BY <1>1, <1>2 DEF EndOf
  <2>2. ASSUME NEW k \in 0 .. (n - 1), k \in Long PROVE k + 1 \in Long
    <3> DEFINE b == BytesOf(s[k + 1])
    <3>b. IsSeq(b) /\ Len(b) = s[k + 1].bytes
      BY <1>3, BytesSeq
    <3>a. d[k + 1] = d[k] \o b /\ IsSeq(d[k])
      BY <1>3
    <3> HIDE DEF b
    <3>c. Len(d[k] \o b) = Len(d[k]) + Len(b)
      BY <3>a, <3>b, IsSeqConcat, Zenon
    <3>1. Len(d[k + 1]) = Len(d[k]) + s[k + 1].bytes
      BY <3>a, <3>b, <3>c
    <3>2. QED
      BY <1>3, <2>2, <3>1
  <2> HIDE DEF Long
  <2>3. QED
    BY <1>1, <2>1, <2>2, Induct
<1>5. ASSUME NEW i \in 1 .. n PROVE Carries(d[n], e[i].from, s[i])
  <2> DEFINE Good == {k \in 0 .. n : i <= k => Carries(d[k], e[i].from, s[i])}
  <2>1. 0 \in Good
    BY <1>1
  <2>2. ASSUME NEW k \in 0 .. (n - 1), k \in Good PROVE k + 1 \in Good
    <3> DEFINE b == BytesOf(s[k + 1])
    <3>1. /\ IsSeq(b) /\ Len(b) = s[k + 1].bytes
          /\ \A j \in 1 .. s[k + 1].bytes : b[j] = <<s[k + 1].name, j>>
      BY <1>3, BytesSeq
    <3>2. d[k + 1] = d[k] \o b /\ IsSeq(d[k]) /\ Len(d[k]) = EndOf(e, k) /\ Len(d[k]) \in Nat
      <4>1. d[k + 1] = d[k] \o b /\ IsSeq(d[k])
        BY <1>3
      <4>2. Len(d[k]) = EndOf(e, k)
        BY <1>3, <1>4
      <4>3. QED
        BY <4>1, <4>2, IsSeqLen
    <3>3. /\ Len(d[k + 1]) = Len(d[k]) + Len(b)
          /\ \A j \in 1 .. Len(d[k]) : d[k + 1][j] = d[k][j]
          /\ \A j \in 1 .. Len(b) : d[k + 1][Len(d[k]) + j] = b[j]
      <4> HIDE DEF b
      <4>1. /\ Len(d[k] \o b) = Len(d[k]) + Len(b)
            /\ \A j \in 1 .. Len(d[k]) : (d[k] \o b)[j] = d[k][j]
            /\ \A j \in 1 .. Len(b) : (d[k] \o b)[Len(d[k]) + j] = b[j]
        <5> DEFINE a == d[k]
        <5>1. IsSeq(b) /\ IsSeq(a)
          BY <3>1, <3>2
        <5> HIDE DEF a
        <5>2. /\ Len(a \o b) = Len(a) + Len(b)
              /\ \A j \in 1 .. Len(a) : (a \o b)[j] = a[j]
              /\ \A j \in 1 .. Len(b) : (a \o b)[Len(a) + j] = b[j]
          BY <5>1, IsSeqConcat
        <5>3. QED
          BY <5>2 DEF a
      <4>2. QED
        BY <3>2, <4>1
    <3> HIDE DEF b
    <3>4. CASE i = k + 1
      <4>1. e[i].from = Len(d[k]) /\ s[i].bytes = Len(b)
        BY <1>3, <3>1, <3>2, <3>4
      <4>2. e[i].from + s[i].bytes <= Len(d[k + 1])
        <5>1. Len(b) \in Nat
          BY <1>3, <3>1
        <5>2. QED
          BY <3>2, <3>3, <4>1, <5>1
      <4>3. \A j \in 1 .. s[i].bytes : d[k + 1][e[i].from + j] = <<s[i].name, j>>
        BY <3>1, <3>3, <3>4, <4>1
      <4>4. Carries(d[k + 1], e[i].from, s[i])
        BY <4>2, <4>3 DEF Carries
      <4>5. QED
        BY <1>3, <4>4
    <3>5. CASE i <= k
      <4>1. Carries(d[k], e[i].from, s[i])
        BY <2>2, <3>5
      <4>2. e[i].from \in Nat /\ s[i].bytes \in Nat
        BY DEF Spans, n
      <4>3. e[i].from + s[i].bytes <= Len(d[k])
        BY <4>1 DEF Carries
      <4>4. e[i].from + s[i].bytes <= Len(d[k + 1])
        <5>1. Len(b) \in Nat /\ Len(d[k + 1]) = Len(d[k]) + Len(b) /\ Len(d[k]) \in Nat
          BY <1>3, <3>1, <3>2, <3>3
        <5>2. QED
          BY <4>2, <4>3, <5>1
      <4>5. ASSUME NEW j \in 1 .. s[i].bytes PROVE d[k + 1][e[i].from + j] = <<s[i].name, j>>
        <5>1. e[i].from + j \in 1 .. Len(d[k])
          <6> DEFINE f == e[i].from
                     m == s[i].bytes
                     l == Len(d[k])
          <6>1. f \in Nat /\ m \in Nat /\ l \in Nat /\ f + m <= l /\ j \in 1 .. m
            BY <3>2, <4>2, <4>3
          <6> HIDE DEF f, m, l
          <6>2. f + j \in 1 .. l
            BY <6>1
          <6>3. QED
            BY <6>2 DEF f, l
        <5>2. d[k][e[i].from + j] = <<s[i].name, j>>
          BY <4>1 DEF Carries
        <5>3. QED
          BY <3>3, <5>1, <5>2
      <4>6. Carries(d[k + 1], e[i].from, s[i])
        BY <4>4, <4>5 DEF Carries
      <4>7. QED
        BY <1>3, <4>6
    <3>6. CASE k + 1 < i
      BY <1>1, <1>3, <3>6
    <3>7. QED
      BY <1>1, <3>4, <3>5, <3>6
  <2> HIDE DEF Good
  <2>3. \A k \in 0 .. n : k \in Good
    BY <1>1, <2>1, <2>2, Induct
  <2>4. n \in 0 .. n /\ i <= n
    BY <1>1
  <2>5. QED
    BY <2>3, <2>4 DEF Good
<1>6. n \in Long /\ IsSeq(d[n])
  <2>1. n \in 0 .. n
    BY <1>1
  <2>2. QED
    BY <1>2, <1>4, <2>1
<1>7. Len(d[n]) = EndOf(e, n)
  BY <1>6
<1>8. QED
  BY <1>2, <1>5, <1>6, <1>7 DEF n

(* Once validate has passed a writer's entries, no offset has wrapped: each *)
(* span has the bytes of its tensor and starts where the one before ends.   *)
LEMMA WriterSpans ==
    ASSUME HeaderInv, phase = "serialize"
    PROVE  /\ IsSeq(tensors) /\ Len(tensors) \in Nat /\ Len(tensors) = Len(sorted)
           /\ input \in Inputs /\ Sorted /\ Len(sorted) = Len(input)
           /\ Spans(tensors, sorted)
           /\ \A i \in 1 .. Len(tensors) :
                 /\ tensors[i].name = sorted[i].name
                 /\ tensors[i].dtype = sorted[i].dtype /\ tensors[i].shape = sorted[i].shape
                 /\ SizeOk(tensors[i]) /\ Shaped(tensors[i])
<1>1. IsSeq(tensors) /\ Len(tensors) \in Nat
  BY IsSeqLen DEF HeaderInv, LayoutInv, EntriesTyped
<1>2. phase \in WritePhases
  BY DEF WritePhases
<1>3. /\ input \in Inputs /\ Sorted /\ Len(tensors) = Len(sorted) /\ walked = Len(tensors)
      /\ \A i \in 1 .. Len(tensors) : LaidAs(i)
  BY <1>2 DEF HeaderInv, LaidOutInv
<1>4. /\ Len(sorted) = Len(input)
      /\ \A i \in 1 .. Len(tensors) : sorted[i].bytes \in 0 .. (Limit - 1)
  BY <1>3, SortedTyped
<1>5. \A i \in 1 .. Len(tensors) : SizeOk(tensors[i])
  BY <1>3 DEF HeaderInv, WalkOk
<1>6. \A i \in 1 .. Len(tensors) : Shaped(tensors[i])
  BY <1>2, EntriesShaped DEF HeaderInv
<1>7. ASSUME NEW i \in 1 .. Len(tensors)
      PROVE  /\ sorted[i].bytes \in Nat /\ tensors[i].from \in Nat
             /\ tensors[i].to = tensors[i].from + sorted[i].bytes
  <2> DEFINE f == tensors[i].from
             t == tensors[i].to
             b == sorted[i].bytes
  <2>1. f \in Offsets /\ t \in Offsets
    BY DEF HeaderInv, LayoutInv, EntriesTyped
  <2>2. f <= t
    BY <1>3 DEF HeaderInv, LayoutInv, Walk, WalkedTile
  <2>3. t = (f + b) % Limit
    BY <1>3 DEF LaidAs
  <2>4. b \in 0 .. (Limit - 1)
    BY <1>4
  <2> HIDE DEF f, t, b
  <2>5. Limit \in Nat \ {0} /\ f \in Nat /\ t \in Nat /\ b \in Nat /\ f < Limit /\ b < Limit
    BY <2>1, <2>4, LayoutAssumption DEF Offsets
  <2>6. f + b \in Nat /\ f + b < Limit + Limit
    BY <2>5
  <2>7. CASE f + b < Limit
    <3>1. t = f + b
      BY <2>3, <2>5, <2>6, <2>7, Remainder
    <3>2. QED
      BY <2>5, <3>1 DEF f, t, b
  <2>8. CASE Limit <= f + b
    <3> DEFINE a == f + b
    <3>1. a \in Nat /\ Limit <= a /\ a < Limit + Limit /\ t = a % Limit
      BY <2>3, <2>6, <2>8
    <3> HIDE DEF a
    <3>2. t = a - Limit
      BY <2>5, <3>1, Remainder
    <3>3. QED
      BY <2>2, <2>5, <3>2 DEF a
  <2>9. QED
    BY <2>5, <2>6, <2>7, <2>8
<1>8. \A i \in 1 .. Len(tensors) : Follows(tensors, i)
  BY <1>3 DEF LaidAs
<1>9. Spans(tensors, sorted)
  BY <1>1, <1>3, <1>7, <1>8 DEF Spans
<1>10. \A i \in 1 .. Len(tensors) :
          /\ tensors[i].name = sorted[i].name
          /\ tensors[i].dtype = sorted[i].dtype /\ tensors[i].shape = sorted[i].shape
  BY <1>3 DEF LaidAs
<1>11. QED
  BY <1>1, <1>3, <1>4, <1>5, <1>6, <1>9, <1>10

(* The sort loses no tensor and puts larger alignments first.               *)
LEMMA SortKeeps ==
    ASSUME input \in Inputs, Sorted
    PROVE  /\ \A k \in DOMAIN input : \E i \in 1 .. Len(sorted) : sorted[i] = input[k]
           /\ \A i, j \in 1 .. Len(sorted) : i < j => sorted[j].dtype <= sorted[i].dtype
<1>1. PICK p \in SortOrders(input) : sorted = [i \in DOMAIN input |-> input[p[i]]]
  BY DEF Sorted
<1> DEFINE n == Len(input)
<1>2. /\ n \in Nat /\ DOMAIN input = 1 .. n
      /\ \A i \in 1 .. n : input[i].name \in Nat /\ input[i].dtype \in Nat
  <2>1. /\ n \in Nat /\ DOMAIN input = 1 .. n
        /\ \A i \in DOMAIN input : input[i].name \in Nat /\ input[i].dtype \in DOMAIN BitSize
    BY LayoutAssumption
  <2>2. DOMAIN BitSize \subseteq Nat
    BY LayoutAssumption
  <2>3. QED
    BY <2>1, <2>2
<1>3. Len(sorted) = n
  BY SortedTyped
<1> HIDE DEF n
<1>4. /\ p \in [1 .. n -> 1 .. n]
      /\ \A i, j \in 1 .. n : i < j =>
            \/ Precedes(input[p[i]], input[p[j]])
            \/ ~Precedes(input[p[j]], input[p[i]]) /\ p[i] < p[j]
  BY <1>1, <1>2 DEF SortOrders
<1>5. ASSUME NEW i \in 1 .. n, NEW j \in 1 .. n, i < j PROVE p[i] # p[j]
  <2>1. SUFFICES ASSUME p[i] = p[j] PROVE FALSE
    OBVIOUS
  <2>2. p[i] \in 1 .. n
    BY <1>4
  <2>3. ~(p[i] < p[j])
    BY <2>1, <2>2
  <2>4. Precedes(input[p[i]], input[p[j]])
    BY <1>4, <1>5, <2>3
  <2>5. input[p[i]].name \in Nat /\ input[p[i]].dtype \in Nat
    BY <1>2, <2>2
  <2>6. QED
    BY <2>1, <2>4, <2>5 DEF Precedes
<1>6. \A i, j \in 1 .. n : p[i] = p[j] => i = j
  <2>1. \A i, j \in 1 .. n : i = j \/ i < j \/ j < i
    BY <1>2
  <2>2. QED
    BY <1>5, <2>1
<1>7. IsFiniteSet(1 .. n) /\ p \in Surjection(1 .. n, 1 .. n)
  <2>1. IsFiniteSet(1 .. n)
    BY <1>2, FS_Interval
  <2>2. p \in Injection(1 .. n, 1 .. n)
    BY <1>4, <1>6 DEF Injection, IsInjective
  <2>3. QED
    BY <2>1, <2>2, FS_Injection
<1>8. ASSUME NEW k \in DOMAIN input PROVE \E i \in 1 .. Len(sorted) : sorted[i] = input[k]
  <2>1. PICK i \in 1 .. n : p[i] = k
    BY <1>2, <1>7 DEF Surjection
  <2>2. sorted[i] = input[k]
    BY <1>1, <1>2, <2>1
  <2>3. QED
    BY <1>3, <2>2
<1>9. ASSUME NEW i \in 1 .. n, NEW j \in 1 .. n, i < j
      PROVE  sorted[j].dtype <= sorted[i].dtype
  <2>1. p[i] \in 1 .. n /\ p[j] \in 1 .. n
    BY <1>4
  <2>2. /\ input[p[i]].dtype \in Nat /\ input[p[j]].dtype \in Nat
        /\ input[p[i]].name \in Nat /\ input[p[j]].name \in Nat
    BY <1>2, <2>1
  <2>3. sorted[i] = input[p[i]] /\ sorted[j] = input[p[j]]
    BY <1>1, <1>2
  <2>4. ~(input[p[j]].dtype > input[p[i]].dtype)
    BY <1>4, <1>9, <2>2 DEF Precedes
  <2>5. QED
    BY <2>2, <2>3, <2>4
<1>10. QED
  BY <1>3, <1>8, <1>9

(* Two headers that list the same entries are the same.                     *)
LEMMA ListsAlike ==
    ASSUME NEW e, NEW f, NEW g, Lists(e, f), Lists(e, g)
    PROVE  /\ DOMAIN f = DOMAIN g
           /\ \A x \in DOMAIN f : /\ f[x].dtype = g[x].dtype /\ f[x].shape = g[x].shape
                                  /\ f[x].from = g[x].from /\ f[x].to = g[x].to
BY DEF Lists

-----------------------------------------------------------------------------
(* What a step does to a stored file *)

(* A header that Rewrap writes lists what the header before it listed.      *)
LEMMA RewrapKeeps ==
    ASSUME HeaderInv, Rewrap
    PROVE  /\ phase \in FilePhases /\ UNCHANGED <<input, tensors, damaged>>
           /\ \/ UNCHANGED <<file, phase>>
              \/ /\ phase' = "stored"
                 /\ file'.data = file.data
                 /\ Lists(tensors, file.infos) /\ Lists(tensors, file'.infos)
                 /\ \E json \in JsonLens :
                       /\ file'.n = Padded(json) /\ file'.n <= MaxHeader
                       /\ file'.len = N_LEN + file'.n + (file.len - N_LEN - file.n)
<1>1. phase \in {"open", "open header"} /\ UNCHANGED <<input, tensors, damaged>>
  BY DEF Rewrap
<1>2. phase \in ReadPhases /\ phase \in FilePhases
  BY <1>1 DEF ReadPhases, FilePhases
<1>3. Lists(tensors, file.infos)
  BY <1>2 DEF HeaderInv, ParsedInv
<1>4. Lists(tensors, Entries(tensors))
  <2>1. IsSeq(tensors)
    BY DEF HeaderInv, LayoutInv, EntriesTyped
  <2>2. \A i, j \in 1 .. Len(tensors) : tensors[i].name = tensors[j].name => i = j
    BY <1>3 DEF Lists
  <2>3. QED
    BY <2>1, <2>2, EntriesListed
<1>5. PICK json \in JsonLens :
          IF HeaderTooLarge(Padded(json))
          THEN UNCHANGED <<file, phase>>
          ELSE /\ file' = [n |-> Padded(json), infos |-> Entries(tensors), data |-> file.data,
                           len |-> N_LEN + Padded(json) + (file.len - N_LEN - file.n)]
               /\ phase' = "stored"
  BY DEF Rewrap
<1>6. CASE HeaderTooLarge(Padded(json))
  BY <1>1, <1>2, <1>5, <1>6
<1>7. CASE ~HeaderTooLarge(Padded(json))
  <2>1. /\ phase' = "stored"
        /\ file'.n = Padded(json) /\ file'.infos = Entries(tensors) /\ file'.data = file.data
        /\ file'.len = N_LEN + Padded(json) + (file.len - N_LEN - file.n)
    BY <1>5, <1>7
  <2>2. Padded(json) <= MaxHeader
    <3>1. Padded(json) \in Nat /\ MaxHeader \in Nat
      BY PaddedType, LayoutAssumption
    <3>2. QED
      BY <1>7, <3>1 DEF HeaderTooLarge
  <2>3. Lists(tensors, file'.infos)
    BY <1>4, <2>1
  <2>4. QED
    BY <1>1, <1>2, <1>3, <2>1, <2>2, <2>3
<1>8. QED
  BY <1>6, <1>7

(* What Serialize writes *)
LEMMA SerializeWrites ==
    ASSUME HeaderInv, Serialize
    PROVE  \/ phase' = "not written"
           \/ /\ phase' = "stored" /\ UNCHANGED <<input, damaged>>
              /\ file'.data = Data
              /\ Lists(tensors, file'.infos)
              /\ \E json \in JsonLens :
                    /\ file'.n = Padded(json) /\ file'.n <= MaxHeader
                    /\ file'.len = N_LEN + file'.n + Len(Data)
<1>1. /\ UNCHANGED <<input, damaged>>
      /\ \A x \in Names(tensors) : IndexMap(tensors)[x] <= Cardinality(Names(tensors))
  BY DEF Serialize
<1>2. Lists(tensors, Entries(tensors))
  <2>1. IsSeq(tensors)
    BY DEF HeaderInv, LayoutInv, EntriesTyped
  <2>2. \A i, j \in 1 .. Len(tensors) : tensors[i].name = tensors[j].name => i = j
    BY <1>1, <2>1, NamesOnce
  <2>3. QED
    BY <2>1, <2>2, EntriesListed
<1>3. PICK json \in JsonLens :
          IF HeaderTooLarge(Padded(json))
          THEN phase' = "not written" /\ UNCHANGED file
          ELSE /\ file' = [n |-> Padded(json), infos |-> Entries(tensors), data |-> Data,
                           len |-> N_LEN + Padded(json) + Len(Data)]
               /\ phase' = "stored"
  BY DEF Serialize
<1>4. CASE HeaderTooLarge(Padded(json))
  BY <1>3, <1>4
<1>5. CASE ~HeaderTooLarge(Padded(json))
  <2>1. /\ phase' = "stored"
        /\ file'.n = Padded(json) /\ file'.infos = Entries(tensors) /\ file'.data = Data
        /\ file'.len = N_LEN + Padded(json) + Len(Data)
    BY <1>3, <1>5
  <2>2. Padded(json) <= MaxHeader
    <3>1. Padded(json) \in Nat /\ MaxHeader \in Nat
      BY PaddedType, LayoutAssumption
    <3>2. QED
      BY <1>5, <3>1 DEF HeaderTooLarge
  <2>3. Lists(tensors, file'.infos)
    BY <1>2, <2>1
  <2>4. QED
    BY <1>1, <2>1, <2>2, <2>3
<1>6. QED
  BY <1>4, <1>5

(* Only Serialize, Rewrap and Tear change a file.                           *)
LEMMA FileCases ==
    ASSUME [Next]_vars
    PROVE  \/ phase' \notin FilePhases
           \/ phase \in FilePhases /\ UNCHANGED <<input, file, damaged>>
           \/ Serialize \/ Rewrap \/ Tear
<1>1. Sort \/ LayOut \/ LaidOut \/ WriterValidated \/ SerializePanics
         => phase' \in {"lay out", "check written", "serialize", "panic"}
  BY DEF Sort, LayOut, LaidOut, WriterValidated, SerializePanics
<1>2. RefuseEntry \/ ReadRefused => phase' \in {"not written", "refused"}
  BY DEF RefuseEntry, ReadRefused
<1>3. ValidateEntry \/ Parse \/ ReadDone \/ HeaderDone \/ UNCHANGED vars
         => /\ UNCHANGED <<input, file, damaged>>
            /\ phase \in FilePhases \/ phase' = phase
  BY DEF ValidateEntry, Parse, ReadDone, HeaderDone, vars, FilePhases, ReadPhases
<1>4. \A p \in {"lay out", "check written", "serialize", "panic", "not written", "refused"} :
         p \notin FilePhases
  BY DEF FilePhases, ReadPhases
<1>5. QED
  BY <1>1, <1>2, <1>3, <1>4 DEF Next

-----------------------------------------------------------------------------
(* A written file serves what was saved: the span of every entry holds the  *)
(* bytes of the caller's tensor of that name.                               *)
Serves(f, k) ==
    /\ input[k].name \in DOMAIN f.infos
    /\ f.infos[input[k].name].dtype = input[k].dtype
    /\ f.infos[input[k].name].shape = input[k].shape
    /\ SubSeq(f.data, f.infos[input[k].name].from + 1, f.infos[input[k].name].to)
          = BytesOf(input[k])

ServesInv ==
    phase \in FilePhases /\ input # None => \A k \in DOMAIN input : Serves(file, k)

LEMMA ServesInit == Init => ServesInv
<1> SUFFICES ASSUME Init PROVE ServesInv
  OBVIOUS
<1>1. phase \in FilePhases => input = None
  BY DEF Init, FilePhases, ReadPhases
<1>2. QED
  BY <1>1 DEF ServesInv

LEMMA ServesSame ==
    ASSUME NEW f, NEW g, f.data = g.data, DOMAIN f.infos = DOMAIN g.infos,
           \A x \in DOMAIN f.infos :
              /\ f.infos[x].dtype = g.infos[x].dtype /\ f.infos[x].shape = g.infos[x].shape
              /\ f.infos[x].from = g.infos[x].from /\ f.infos[x].to = g.infos[x].to,
           NEW k, Serves(f, k)
    PROVE  Serves(g, k)
BY DEF Serves

LEMMA ServesStep ==
    ASSUME HeaderInv, ServesInv, [Next]_vars
    PROVE  ServesInv'
<1>s. ASSUME UNCHANGED input, phase \in FilePhases,
             file'.data = file.data, DOMAIN file.infos = DOMAIN file'.infos,
             \A x \in DOMAIN file.infos :
                /\ file.infos[x].dtype = file'.infos[x].dtype
                /\ file.infos[x].shape = file'.infos[x].shape
                /\ file.infos[x].from = file'.infos[x].from
                /\ file.infos[x].to = file'.infos[x].to
      PROVE  ServesInv'
  <2>1. input # None => \A k \in DOMAIN input : Serves(file, k)
    BY <1>s DEF ServesInv
  <2>2. input # None => \A k \in DOMAIN input : Serves(file', k)
    BY <1>s, <2>1, ServesSame
  <2>3. QED
    BY <1>s, <2>2 DEF ServesInv, Serves
<1>1. CASE phase' \notin FilePhases
  BY <1>1 DEF ServesInv, FilePhases, ReadPhases
<1>2. CASE phase \in FilePhases /\ UNCHANGED <<input, file, damaged>>
  BY <1>2, <1>s
<1>3. CASE Serialize
  <2>1. phase = "serialize"
    BY <1>3 DEF Serialize
  <2>2. CASE phase' = "not written"
    BY <2>2, PhaseNames DEF ServesInv, FilePhases, ReadPhases
  <2>3. CASE /\ phase' = "stored" /\ UNCHANGED <<input, damaged>>
             /\ file'.data = Data
             /\ Lists(tensors, file'.infos)
    <3> DEFINE w == Written(sorted)
    <3>1. /\ Len(tensors) = Len(sorted) /\ input \in Inputs /\ Sorted
          /\ Spans(tensors, sorted)
          /\ \A i \in 1 .. Len(tensors) :
                /\ tensors[i].name = sorted[i].name
                /\ tensors[i].dtype = sorted[i].dtype /\ tensors[i].shape = sorted[i].shape
      BY <2>1, WriterSpans
    <3>2. /\ IsSeq(w)
          /\ \A i \in 1 .. Len(sorted) : Carries(w, tensors[i].from, sorted[i])
      BY <3>1, WrittenAt
    <3>3. file'.data = w
      BY <2>3 DEF Data
    <3> HIDE DEF w
    <3>4. ASSUME NEW k \in DOMAIN input PROVE Serves(file', k)
      <4>1. PICK i \in 1 .. Len(sorted) : sorted[i] = input[k]
        BY <3>1, SortKeeps
      <4>2. /\ tensors[i].name = input[k].name /\ tensors[i].dtype = input[k].dtype
            /\ tensors[i].shape = input[k].shape /\ i \in 1 .. Len(tensors)
        BY <3>1, <4>1
      <4>3. /\ sorted[i].bytes \in Nat /\ tensors[i].from \in Nat
            /\ tensors[i].to = tensors[i].from + sorted[i].bytes
        BY <3>1 DEF Spans
      <4>4. Carries(w, tensors[i].from, sorted[i])
        BY <3>2
      <4>5. SubSeq(w, tensors[i].from + 1, tensors[i].to) = BytesOf(sorted[i])
        <5> DEFINE f == tensors[i].from
                   u == sorted[i]
        <5>1. IsSeq(w) /\ f \in Nat /\ u.bytes \in Nat /\ Carries(w, f, u)
          BY <3>2, <4>3, <4>4
        <5> HIDE DEF f, u
        <5>2. SubSeq(w, f + 1, f + u.bytes) = BytesOf(u)
          BY <5>1, CarriedSlice
        <5>3. QED
          BY <4>3, <5>2 DEF f, u
      <4>6. /\ tensors[i].name \in DOMAIN file'.infos
            /\ file'.infos[tensors[i].name].dtype = tensors[i].dtype
            /\ file'.infos[tensors[i].name].shape = tensors[i].shape
            /\ file'.infos[tensors[i].name].from = tensors[i].from
            /\ file'.infos[tensors[i].name].to = tensors[i].to
        BY <2>3, <4>2 DEF Lists
      <4>7. QED
        BY <3>3, <4>1, <4>2, <4>5, <4>6 DEF Serves
    <3>5. QED
      BY <2>3, <3>4 DEF ServesInv, Serves
  <2>4. QED
    BY <1>3, <2>2, <2>3, SerializeWrites
<1>4. CASE Rewrap
  <2>1. CASE UNCHANGED <<file, phase>>
    BY <1>4, <1>s, <2>1, RewrapKeeps
  <2>2. CASE /\ file'.data = file.data
             /\ Lists(tensors, file.infos) /\ Lists(tensors, file'.infos)
    BY <1>4, <1>s, <2>2, RewrapKeeps, ListsAlike
  <2>3. QED
    BY <1>4, <2>1, <2>2, RewrapKeeps
<1>5. CASE Tear
  <2>1. /\ phase = "stored" /\ UNCHANGED input
        /\ file'.data = file.data /\ file'.infos = file.infos
    BY <1>5 DEF Tear
  <2>2. phase \in FilePhases
    BY <2>1 DEF FilePhases
  <2>3. QED
    BY <1>s, <2>1, <2>2
<1>6. QED
  BY <1>1, <1>2, <1>3, <1>4, <1>5, FileCases

(* A save reads back: whatever was saved, and however often the header was  *)
(* rewrapped, a file that opens has every tensor under its name, with its   *)
(* type, its shape and its bytes.                                           *)
THEOREM ReadsBackCorrect == Spec => []ReadsBack
<1>1. Init => HeaderInv /\ ServesInv
  BY LayoutInvInit, WalkOkInit, LaidOutInit, ParsedInit, ServesInit DEF HeaderInv
<1>2. HeaderInv /\ ServesInv /\ [Next]_vars => (HeaderInv /\ ServesInv)'
  BY LayoutInvStep, WalkOkStep, LaidOutStep, ParsedStep, ServesStep DEF HeaderInv
<1>3. ServesInv => ReadsBack
  <2>1. phase = "open" => phase \in FilePhases
    BY DEF FilePhases, ReadPhases
  <2>2. QED
    BY <2>1 DEF ServesInv, Serves, ReadsBack
<1>4. QED
  BY <1>1, <1>2, <1>3, PTL DEF Spec

-----------------------------------------------------------------------------
(* A written file keeps every tensor at a multiple of its element size.     *)

LEMMA PaddedEight ==
    ASSUME NEW n \in Nat
    PROVE  Padded(n) \in Nat /\ Padded(n) % 8 = 0
<1>1. (n + 7) \div 8 \in Nat
  BY Z3
<1>2. Padded(n) = 8 * ((n + 7) \div 8) /\ Padded(n) \in Nat
  BY <1>1 DEF Padded
<1>3. QED
  BY <1>1, <1>2, Multiple

(* The tensors before one of a type have sizes that are multiples of its    *)
(* step, because the sort puts larger alignments first.                     *)
LEMMA FromAligned ==
    ASSUME NEW e, NEW n \in Nat,
           \A i \in 1 .. n : /\ e[i].from \in Nat /\ e[i].to \in Nat /\ Follows(e, i)
                             /\ Shaped(e[i]) /\ SizeOk(e[i]),
           \A i, j \in 1 .. n : i < j => e[j].dtype <= e[i].dtype,
           NEW i \in 1 .. n, BitSize[e[i].dtype] % 8 = 0
    PROVE  e[i].from % Step(e[i].dtype) = 0
<1> DEFINE d == e[i].dtype
           Good == {k \in 0 .. n : k < i => EndOf(e, k) \in Nat /\ EndOf(e, k) % Step(d) = 0}
<1>1. /\ d \in DOMAIN BitSize /\ BitSize[d] % 8 = 0 /\ d \in Nat
      /\ Step(d) \in Nat \ {0}
  <2>1. d \in DOMAIN BitSize /\ BitSize[d] % 8 = 0
    BY DEF Shaped
  <2>2. DOMAIN BitSize \subseteq Nat
    BY LayoutAssumption
  <2>3. QED
    BY <2>1, <2>2, StepType
<1>2. 0 \in Good
  <2>1. EndOf(e, 0) = 0 /\ 0 = Step(d) * 0
    BY <1>1 DEF EndOf
  <2>2. 0 % Step(d) = 0
    BY <1>1, <2>1, Multiple
  <2>3. QED
    BY <2>1, <2>2
<1>3. ASSUME NEW k \in 0 .. (n - 1), k \in Good PROVE k + 1 \in Good
  <2>1. SUFFICES ASSUME k + 1 < i
                 PROVE  EndOf(e, k + 1) \in Nat /\ EndOf(e, k + 1) % Step(d) = 0
    OBVIOUS
  <2>2. /\ k < i /\ k + 1 \in 1 .. n /\ k + 1 # 0 /\ (k + 1 = 1 <=> k = 0) /\ k + 1 - 1 = k
    BY <2>1
  <2>3. EndOf(e, k) \in Nat /\ EndOf(e, k) % Step(d) = 0
    BY <1>3, <2>2
  <2> DEFINE j == k + 1
             x == e[j]
  <2>4. j \in 1 .. n /\ j < i /\ EndOf(e, j) = x.to /\ x.from = EndOf(e, k)
    <3>1. EndOf(e, j) = x.to
      BY <2>2 DEF EndOf
    <3>2. Follows(e, j)
      BY <2>2
    <3>3. x.from = EndOf(e, k)
      BY <2>2, <3>2 DEF Follows, EndOf
    <3>4. QED
      BY <2>1, <2>2, <3>1, <3>3
  <2> HIDE DEF j
  <2>5. /\ x.from \in Nat /\ x.to \in Nat /\ Shaped(x) /\ SizeOk(x) /\ d <= x.dtype
    BY <2>4
  <2> HIDE DEF x, d
  <2>6. x.to - x.from \in Nat /\ (x.to - x.from) % Step(d) = 0
    BY <1>1, <2>5, SizeAligned
  <2>7. (x.from + (x.to - x.from)) % Step(d) = 0
    BY <1>1, <2>3, <2>4, <2>5, <2>6, MultipleSum
  <2>8. x.from + (x.to - x.from) = x.to
    BY <2>5
  <2>9. QED
    BY <2>4, <2>5, <2>7, <2>8 DEF j
<1> HIDE DEF Good
<1>4. \A k \in 0 .. n : k \in Good
  BY <1>2, <1>3, Induct
<1>5. i - 1 \in 0 .. n /\ i - 1 < i /\ (i = 1 <=> i - 1 = 0)
  OBVIOUS
<1>6. EndOf(e, i - 1) % Step(d) = 0
  BY <1>4, <1>5 DEF Good
<1>7. e[i].from = EndOf(e, i - 1)
  <2>1. Follows(e, i)
    OBVIOUS
  <2>2. QED
    BY <1>5, <2>1 DEF Follows, EndOf
<1>8. QED
  BY <1>6, <1>7

Aligned(info) ==
    /\ info.from \in Nat /\ info.dtype \in DOMAIN BitSize
    /\ BitSize[info.dtype] % 8 = 0 => info.from % Step(info.dtype) = 0

AlignedInv ==
    phase \in FilePhases /\ input # None =>
        /\ file.n \in Nat /\ file.n % 8 = 0
        /\ \A x \in DOMAIN file.infos : Aligned(file.infos[x])

LEMMA AlignedInit == Init => AlignedInv
<1> SUFFICES ASSUME Init PROVE AlignedInv
  OBVIOUS
<1>1. phase \in FilePhases => input = None
  BY DEF Init, FilePhases, ReadPhases
<1>2. QED
  BY <1>1 DEF AlignedInv

LEMMA AlignedStep ==
    ASSUME HeaderInv, AlignedInv, [Next]_vars
    PROVE  AlignedInv'
<1>s. ASSUME UNCHANGED input, phase \in FilePhases,
             input # None => file'.n \in Nat /\ file'.n % 8 = 0,
             DOMAIN file.infos = DOMAIN file'.infos,
             \A x \in DOMAIN file.infos :
                /\ file.infos[x].dtype = file'.infos[x].dtype
                /\ file.infos[x].from = file'.infos[x].from
      PROVE  AlignedInv'
  <2>1. input # None => \A x \in DOMAIN file.infos : Aligned(file.infos[x])
    BY <1>s DEF AlignedInv
  <2>2. input # None => \A x \in DOMAIN file'.infos : Aligned(file'.infos[x])
    BY <1>s, <2>1 DEF Aligned
  <2>3. QED
    BY <1>s, <2>2 DEF AlignedInv, Aligned, Step
<1>1. CASE phase' \notin FilePhases
  BY <1>1 DEF AlignedInv, FilePhases, ReadPhases
<1>2. CASE phase \in FilePhases /\ UNCHANGED <<input, file, damaged>>
  <2>1. input # None => file'.n \in Nat /\ file'.n % 8 = 0
    BY <1>2 DEF AlignedInv
  <2>2. QED
    BY <1>2, <1>s, <2>1
<1>3. CASE Serialize
  <2>1. phase = "serialize"
    BY <1>3 DEF Serialize
  <2>2. CASE phase' = "not written"
    BY <2>2, PhaseNames DEF AlignedInv, FilePhases, ReadPhases
  <2>3. CASE /\ phase' = "stored" /\ Lists(tensors, file'.infos)
             /\ \E json \in JsonLens : file'.n = Padded(json)
    <3>1. file'.n \in Nat /\ file'.n % 8 = 0
      BY <2>3, PaddedEight, LayoutAssumption
    <3> DEFINE n == Len(tensors)
    <3>2. /\ n \in Nat /\ n = Len(sorted) /\ input \in Inputs /\ Sorted
          /\ Spans(tensors, sorted)
          /\ \A i \in 1 .. n : /\ tensors[i].dtype = sorted[i].dtype
                               /\ SizeOk(tensors[i]) /\ Shaped(tensors[i])
      BY <2>1, WriterSpans
    <3>3. \A i \in 1 .. n : /\ tensors[i].from \in Nat /\ tensors[i].to \in Nat
                            /\ Follows(tensors, i)
      BY <3>2 DEF Spans
    <3>4. \A i, j \in 1 .. n : i < j => tensors[j].dtype <= tensors[i].dtype
      BY <3>2, SortKeeps
    <3> HIDE DEF n
    <3>5. ASSUME NEW i \in 1 .. n PROVE Aligned(tensors[i])
      <4>1. BitSize[tensors[i].dtype] % 8 = 0
              => tensors[i].from % Step(tensors[i].dtype) = 0
        BY <3>2, <3>3, <3>4, FromAligned
      <4>2. tensors[i].from \in Nat /\ tensors[i].dtype \in DOMAIN BitSize
        BY <3>2, <3>3 DEF Shaped
      <4>3. QED
        BY <4>1, <4>2 DEF Aligned
    <3>6. ASSUME NEW x \in DOMAIN file'.infos PROVE Aligned(file'.infos[x])
      <4>1. PICK i \in 1 .. n : x = tensors[i].name
        BY <2>3 DEF Lists, n
      <4>2. /\ file'.infos[x].dtype = tensors[i].dtype
            /\ file'.infos[x].from = tensors[i].from
        BY <2>3, <4>1 DEF Lists, n
      <4>3. Aligned(tensors[i])
        BY <3>5
      <4>4. QED
        BY <4>2, <4>3 DEF Aligned
    <3>7. QED
      BY <3>1, <3>6 DEF AlignedInv, Aligned, Step
  <2>4. QED
    BY <1>3, <2>2, <2>3, SerializeWrites
<1>4. CASE Rewrap
  <2>1. phase \in FilePhases /\ UNCHANGED input
    BY <1>4, RewrapKeeps
  <2>2. CASE UNCHANGED <<file, phase>>
    <3>1. input # None => file'.n \in Nat /\ file'.n % 8 = 0
      BY <2>1, <2>2 DEF AlignedInv
    <3>2. QED
      BY <1>s, <2>1, <2>2, <3>1
  <2>3. CASE /\ Lists(tensors, file.infos) /\ Lists(tensors, file'.infos)
             /\ \E json \in JsonLens : file'.n = Padded(json)
    <3>1. file'.n \in Nat /\ file'.n % 8 = 0
      BY <2>3, PaddedEight, LayoutAssumption
    <3>2. QED
      BY <1>s, <2>1, <2>3, <3>1, ListsAlike
  <2>4. QED
    BY <1>4, <2>2, <2>3, RewrapKeeps
<1>5. CASE Tear
  <2>1. /\ phase = "stored" /\ UNCHANGED input
        /\ file'.n = file.n /\ file'.infos = file.infos
    BY <1>5 DEF Tear
  <2>2. phase \in FilePhases
    BY <2>1 DEF FilePhases
  <2>3. input # None => file'.n \in Nat /\ file'.n % 8 = 0
    BY <2>1, <2>2 DEF AlignedInv
  <2>4. QED
    BY <1>s, <2>1, <2>2, <2>3
<1>6. QED
  BY <1>1, <1>2, <1>3, <1>4, <1>5, FileCases

(* However the tensors of a save are mixed, each of a type of whole bytes   *)
(* starts in the file at a multiple of its element size: the sort by        *)
(* alignment and the padding of the header see to it, and a rewrap keeps it.*)
THEOREM AlignedCorrect == Spec => []ElementsAligned
<1>1. Init => HeaderInv /\ AlignedInv
  BY LayoutInvInit, WalkOkInit, LaidOutInit, ParsedInit, AlignedInit DEF HeaderInv
<1>2. HeaderInv /\ AlignedInv /\ [Next]_vars => (HeaderInv /\ AlignedInv)'
  BY LayoutInvStep, WalkOkStep, LaidOutStep, ParsedStep, AlignedStep DEF HeaderInv
<1>3. AlignedInv => ElementsAligned
  <2>1. SUFFICES ASSUME AlignedInv, phase = "stored", input # None,
                        NEW x \in DOMAIN file.infos, BitSize[file.infos[x].dtype] % 8 = 0
                 PROVE  (N_LEN + file.n + file.infos[x].from)
                           % (BitSize[file.infos[x].dtype] \div 8) = 0
    BY DEF ElementsAligned
  <2> DEFINE d == file.infos[x].dtype
             f == file.infos[x].from
             n == file.n
  <2>2. /\ n \in Nat /\ n % 8 = 0 /\ f \in Nat /\ d \in DOMAIN BitSize
        /\ BitSize[d] % 8 = 0 /\ f % Step(d) = 0
    BY <2>1 DEF AlignedInv, Aligned, FilePhases
  <2> HIDE DEF d, f, n
  <2>3. Step(d) \in Nat \ {0} /\ 8 % Step(d) = 0
    BY <2>2, StepType
  <2>4. n % Step(d) = 0
    <3>1. PICK q \in Nat : n = 8 * q
      BY <2>2, Multiple
    <3>2. PICK r \in Nat : 8 = Step(d) * r
      BY <2>3, Multiple
    <3>3. n = Step(d) * (r * q) /\ r * q \in Nat
      BY <2>3, <3>1, <3>2
    <3>4. QED
      BY <2>2, <2>3, <3>3, Multiple
  <2>5. (8 + n) % Step(d) = 0
    BY <2>2, <2>3, <2>4, MultipleSum
  <2>6. 8 + n \in Nat
    BY <2>2
  <2>7. (8 + n + f) % Step(d) = 0
    BY <2>2, <2>3, <2>5, <2>6, MultipleSum
  <2>8. QED
    BY <2>7 DEF N_LEN, Step, d, f, n
<1>4. QED
  BY <1>1, <1>2, <1>3, PTL DEF Spec

-----------------------------------------------------------------------------
(* A written file opens. *)

(* The entries e lie end to end, in the order of their offsets.             *)
Chain(e) ==
    /\ IsSeq(e)
    /\ \A i \in 1 .. Len(e) :
          /\ e[i].from \in Offsets /\ e[i].to \in Offsets /\ e[i].from <= e[i].to
          /\ Follows(e, i) /\ SizeOk(e[i])

(* The file f holds its header and the data up to the last entry's end.       *)
Filled(f, e) ==
    /\ f.n \in Nat /\ f.n <= MaxHeader
    /\ f.len = N_LEN + f.n + EndOf(e, Len(e))

OpensInv ==
    input # None /\ ~damaged =>
        /\ phase # "refused"
        /\ phase = "stored" => \E e : Chain(e) /\ Lists(e, file.infos) /\ Filled(file, e)
        /\ phase \in ReadPhases => Chain(tensors) /\ Filled(file, tensors)
        /\ phase = "check read" => file.len < Limit

LEMMA ChainEnd ==
    ASSUME NEW e, Chain(e), NEW k \in 0 .. Len(e)
    PROVE  EndOf(e, k) \in Offsets
<1>1. Len(e) \in Nat /\ 0 \in Offsets
  BY IsSeqLen, LayoutAssumption DEF Chain, Offsets
<1>2. k # 0 => k \in 1 .. Len(e)
  BY <1>1
<1>3. QED
  BY <1>1, <1>2 DEF EndOf, Chain

(* Entries that lie end to end are in the order of their offsets.           *)
LEMMA ChainOrdered ==
    ASSUME NEW e, Chain(e)
    PROVE  InOrder(e, Len(e))
<1> DEFINE n == Len(e)
<1>1. n \in Nat
  BY IsSeqLen DEF Chain
<1>2. \A i \in 1 .. n : e[i].from \in Nat /\ e[i].to \in Nat /\ e[i].from <= e[i].to
  BY DEF Chain, Offsets
<1>3. ASSUME NEW i \in 1 .. n PROVE \A k \in 0 .. n : i <= k => e[i].to <= EndOf(e, k)
  <2> DEFINE Good == {k \in 0 .. n : i <= k => e[i].to <= EndOf(e, k)}
  <2>1. 0 \in Good
    BY <1>1
  <2>2. ASSUME NEW k \in 0 .. (n - 1), k \in Good PROVE k + 1 \in Good
    <3>1. /\ k + 1 \in 1 .. n /\ k + 1 \in 0 .. n /\ k + 1 # 0 /\ k + 1 - 1 = k
          /\ (k + 1 = 1 <=> k = 0) /\ (k # 0 => k \in 1 .. n)
      BY <1>1
    <3>2. EndOf(e, k + 1) = e[k + 1].to
      BY <3>1 DEF EndOf
    <3>3. CASE i = k + 1
      <4>1. e[i].to <= EndOf(e, k + 1)
        BY <1>2, <3>2, <3>3
      <4>2. QED
        BY <3>1, <4>1
    <3>4. CASE i <= k
      <4>1. e[i].to <= EndOf(e, k)
        BY <2>2, <3>4
      <4>2. Follows(e, k + 1)
        BY <3>1 DEF Chain
      <4>3. e[k + 1].from = EndOf(e, k)
        BY <3>1, <4>2 DEF Follows, EndOf
      <4>4. e[i].to \in Nat /\ e[k + 1].from \in Nat /\ e[k + 1].to \in Nat
            /\ e[k + 1].from <= e[k + 1].to
        BY <1>2, <3>1
      <4>5. e[i].to <= EndOf(e, k + 1)
        BY <3>2, <4>1, <4>3, <4>4
      <4>6. QED
        BY <3>1, <4>5
    <3>5. CASE k + 1 < i
      BY <3>1, <3>5
    <3>6. QED
      BY <3>3, <3>4, <3>5
  <2> HIDE DEF Good
  <2>3. \A k \in 0 .. n : k \in Good
    BY <1>1, <2>1, <2>2, Induct
  <2>4. QED
    BY <2>3 DEF Good
<1>4. ASSUME NEW i \in 1 .. n, NEW j \in 1 .. n, i < j PROVE LexLeq(e[i], e[j])
  <2>1. j - 1 \in 0 .. n /\ i <= j - 1 /\ j # 1 /\ j - 1 # 0
    BY <1>1, <1>4
  <2>2. e[i].to <= EndOf(e, j - 1)
    BY <1>3, <2>1
  <2>3. Follows(e, j)
    BY DEF Chain
  <2>4. e[j].from = EndOf(e, j - 1)
    BY <2>1, <2>3 DEF Follows, EndOf
  <2>5. QED
    BY <1>2, <2>2, <2>4 DEF LexLeq
<1>5. QED
  BY <1>2, <1>4 DEF InOrder

(* The names of such entries are one of the orders the parser may find.     *)
LEMMA ChainIsOrder ==
    ASSUME NEW e, NEW infos, Chain(e), Lists(e, infos)
    PROVE  /\ IsFiniteSet(DOMAIN infos) /\ Cardinality(DOMAIN infos) = Len(e)
           /\ [i \in 1 .. Len(e) |-> e[i].name] \in Orders(infos)
<1> DEFINE n == Len(e)
           D == DOMAIN infos
           t == [i \in 1 .. n |-> e[i].name]
<1>1. n \in Nat
  BY IsSeqLen DEF Chain
<1>2. /\ \A i, j \in 1 .. n : e[i].name = e[j].name => i = j
      /\ D = {e[i].name : i \in 1 .. n}
      /\ \A i \in 1 .. n : infos[e[i].name].from = e[i].from /\ infos[e[i].name].to = e[i].to
  BY DEF Lists
<1>3. \A i, j \in 1 .. n : i < j => LexLeq(e[i], e[j])
  BY ChainOrdered DEF InOrder
<1>4. IsFiniteSet(1 .. n) /\ Cardinality(1 .. n) = n
  <2>1. 1 \in Int /\ n \in Int
    BY <1>1
  <2> HIDE DEF n
  <2>2. IsFiniteSet(1 .. n) /\ Cardinality(1 .. n) = IF 1 > n THEN 0 ELSE n - 1 + 1
    BY <2>1, FS_Interval
  <2>3. QED
    BY <1>1, <2>2
<1> HIDE DEF n
<1>5. t \in [1 .. n -> D] /\ \A i \in 1 .. n : t[i] = e[i].name
  BY <1>2
<1>6. t \in Surjection(1 .. n, D) /\ t \in Injection(1 .. n, D)
  <2>1. \A x \in D : \E i \in 1 .. n : t[i] = x
    BY <1>2
  <2>2. \A i, j \in 1 .. n : t[i] = t[j] => i = j
    BY <1>2
  <2> HIDE DEF t, D
  <2>3. QED
    BY <1>5, <2>1, <2>2 DEF Surjection, Injection, IsInjective
<1> HIDE DEF t, D
<1>7. IsFiniteSet(D) /\ Cardinality(D) = n
  BY <1>4, <1>6, FS_Surjection
<1>8. t \in SetToSeqs(D)
  <2>1. \A i, j \in 1 .. n : i # j => t[i] # t[j]
    BY <1>2, <1>5
  <2>2. QED
    BY <1>5, <1>7, <2>1 DEF SetToSeqs
<1>9. ASSUME NEW i \in 1 .. n, NEW j \in 1 .. n, i < j
      PROVE  LexLeq(infos[t[i]], infos[t[j]])
  <2>1. LexLeq(e[i], e[j])
    BY <1>3, <1>9
  <2>2. t[i] = e[i].name /\ t[j] = e[j].name
    BY <1>5
  <2>3. /\ infos[t[i]].from = e[i].from /\ infos[t[i]].to = e[i].to
        /\ infos[t[j]].from = e[j].from /\ infos[t[j]].to = e[j].to
    BY <1>2, <2>2
  <2>4. QED
    BY <2>1, <2>3 DEF LexLeq
<1>10. DOMAIN t = 1 .. n
  BY <1>5
<1>11. t \in Orders(infos)
  BY <1>8, <1>9, <1>10 DEF Orders, D
<1>12. QED
  BY <1>7, <1>11 DEF n, D, t

(* In whichever order the parser lists the entries, their spans are those   *)
(* of the order they were laid out in.                                      *)
LEMMA ChainParsed ==
    ASSUME NEW e, NEW infos, Chain(e), Lists(e, infos), NEW s \in Orders(infos)
    PROVE  /\ Chain(Listed(infos, s)) /\ Len(Listed(infos, s)) = Len(e)
           /\ EndOf(Listed(infos, s), Len(e)) = EndOf(e, Len(e))
<1> DEFINE n == Len(e)
           t == [i \in 1 .. n |-> e[i].name]
           r == Listed(infos, s)
<1>1. n \in Nat
  BY IsSeqLen DEF Chain
<1>2. /\ IsFiniteSet(DOMAIN infos) /\ Cardinality(DOMAIN infos) = n
      /\ t \in Orders(infos)
  BY ChainIsOrder
<1>3. /\ DOMAIN infos = {e[i].name : i \in 1 .. n}
      /\ \A i \in 1 .. n :
            /\ infos[e[i].name].dtype = e[i].dtype /\ infos[e[i].name].shape = e[i].shape
            /\ infos[e[i].name].from = e[i].from /\ infos[e[i].name].to = e[i].to
  BY DEF Lists
<1>4. \A i \in 1 .. n : e[i].from \in Nat /\ e[i].to \in Nat
  BY DEF Chain, Offsets
<1>5. \A i \in 1 .. n : t[i] = e[i].name
  OBVIOUS
<1> HIDE DEF n, t
<1>6. \A x \in DOMAIN infos : infos[x].from \in Nat /\ infos[x].to \in Nat
  BY <1>3, <1>4
<1>7. /\ IsSeq(r) /\ Len(r) = n /\ Lists(r, infos)
      /\ \A i \in 1 .. n : /\ r[i].name = s[i] /\ s[i] \in DOMAIN infos
                           /\ r[i].from = infos[s[i]].from /\ r[i].to = infos[s[i]].to
  BY <1>2, ParsedLists
<1>8. ASSUME NEW i \in 1 .. n
      PROVE  infos[s[i]].from = infos[t[i]].from /\ infos[s[i]].to = infos[t[i]].to
  BY <1>2, <1>6, SortedAlike
<1> HIDE DEF r
<1>9. ASSUME NEW i \in 1 .. n PROVE r[i].from = e[i].from /\ r[i].to = e[i].to
  <2>1. infos[t[i]].from = e[i].from /\ infos[t[i]].to = e[i].to
    BY <1>3, <1>5
  <2>2. r[i].from = infos[s[i]].from /\ r[i].to = infos[s[i]].to
    BY <1>7
  <2>3. QED
    BY <1>8, <2>1, <2>2
<1>10. ASSUME NEW i \in 1 .. n
       PROVE  /\ r[i].from \in Offsets /\ r[i].to \in Offsets /\ r[i].from <= r[i].to
              /\ Follows(r, i) /\ SizeOk(r[i])
  <2>1. /\ e[i].from \in Offsets /\ e[i].to \in Offsets /\ e[i].from <= e[i].to
        /\ Follows(e, i)
    BY DEF Chain, n
  <2>2. i # 1 => i - 1 \in 1 .. n
    BY <1>1
  <2>3. i # 1 => r[i - 1].to = e[i - 1].to
    BY <1>9, <2>2
  <2>4. Follows(r, i)
    BY <1>9, <2>1, <2>3 DEF Follows
  <2>5. PICK j \in 1 .. n : e[j].name = r[i].name
    BY <1>3, <1>7
  <2>6. SizeOk(e[j])
    BY DEF Chain, n
  <2>7. /\ infos[r[i].name].dtype = r[i].dtype /\ infos[r[i].name].shape = r[i].shape
        /\ infos[r[i].name].from = r[i].from /\ infos[r[i].name].to = r[i].to
    BY <1>7 DEF Lists
  <2>8. e[j].dtype = r[i].dtype /\ e[j].shape = r[i].shape
        /\ e[j].from = r[i].from /\ e[j].to = r[i].to
    BY <1>3, <2>5, <2>7
  <2>9. SizeOk(r[i])
    BY <2>6, <2>8 DEF SizeOk, NBits
  <2>10. QED
    BY <1>9, <2>1, <2>4, <2>9
<1>11. Chain(r)
  BY <1>7, <1>10 DEF Chain
<1>12. EndOf(r, n) = EndOf(e, n)
  <2>1. n # 0 => n \in 1 .. n
    BY <1>1
  <2>2. QED
    BY <1>9, <2>1 DEF EndOf
<1>13. QED
  BY <1>7, <1>11, <1>12 DEF n, r

LEMMA OpensInit == Init => OpensInv
<1> SUFFICES ASSUME Init PROVE OpensInv
  OBVIOUS
<1>1. phase = "sort" \/ (phase = "stored" /\ input = None)
  BY DEF Init
<1>2. QED
  BY <1>1 DEF OpensInv, ReadPhases

LEMMA OpensSame ==
    ASSUME OpensInv, UNCHANGED <<input, damaged, file, tensors, phase>>
    PROVE  OpensInv'
<1>1. Chain(tensors)' <=> Chain(tensors)
  BY DEF Chain, Follows, SizeOk, NBits
<1>2. Filled(file, tensors)' <=> Filled(file, tensors)
  BY DEF Filled, EndOf
<1>3. (\E e : Chain(e) /\ Lists(e, file'.infos) /\ Filled(file', e))
        <=> \E e : Chain(e) /\ Lists(e, file.infos) /\ Filled(file, e)
  OBVIOUS
<1>4. QED
  BY <1>1, <1>2, <1>3 DEF OpensInv

LEMMA StoredOpens ==
    ASSUME NEW e, Chain(e), Lists(e, file'.infos), Filled(file', e), phase' = "stored"
    PROVE  OpensInv'
<1>1. phase' # "refused" /\ phase' \notin ReadPhases
  BY DEF ReadPhases
<1>2. phase' = "stored" => \E f : Chain(f) /\ Lists(f, file'.infos) /\ Filled(file', f)
  OBVIOUS
<1>3. QED
  BY <1>1, <1>2 DEF OpensInv, ReadPhases, Chain, Lists, Filled, EndOf, Follows, SizeOk, NBits

LEMMA OpensStep ==
    ASSUME HeaderInv, OpensInv, [Next]_vars
    PROVE  OpensInv'
<1>n. /\ IsSeq(tensors) /\ Len(tensors) \in Nat /\ walked \in 0 .. Len(tensors)
      /\ start = EndOf(tensors, walked)
  BY IsSeqLen DEF HeaderInv, LayoutInv, TypeOK, EntriesTyped, EndOf
<1>1. CASE Sort \/ LayOut \/ LaidOut \/ WriterValidated \/ SerializePanics
  <2>1. phase' \in {"lay out", "check written", "serialize", "panic"}
    BY <1>1 DEF Sort, LayOut, LaidOut, WriterValidated, SerializePanics
  <2>2. QED
    BY <2>1 DEF OpensInv, ReadPhases
<1>2. CASE Serialize
  <2>1. phase = "serialize"
    BY <1>2 DEF Serialize
  <2>2. CASE phase' = "not written"
    BY <2>2 DEF OpensInv, ReadPhases
  <2>3. CASE /\ phase' = "stored" /\ file'.data = Data /\ Lists(tensors, file'.infos)
             /\ \E json \in JsonLens :
                   /\ file'.n = Padded(json) /\ file'.n <= MaxHeader
                   /\ file'.len = N_LEN + file'.n + Len(Data)
    <3>1. /\ Len(tensors) = Len(sorted) /\ Spans(tensors, sorted)
          /\ \A i \in 1 .. Len(tensors) : SizeOk(tensors[i])
      BY <2>1, WriterSpans
    <3>2. Chain(tensors)
      <4>1. ASSUME NEW i \in 1 .. Len(tensors)
            PROVE  /\ tensors[i].from \in Offsets /\ tensors[i].to \in Offsets
                   /\ tensors[i].from <= tensors[i].to
                   /\ Follows(tensors, i) /\ SizeOk(tensors[i])
        <5>1. tensors[i].from \in Offsets /\ tensors[i].to \in Offsets
          BY DEF HeaderInv, LayoutInv, EntriesTyped
        <5>2. /\ sorted[i].bytes \in Nat /\ tensors[i].from \in Nat
              /\ tensors[i].to = tensors[i].from + sorted[i].bytes
              /\ Follows(tensors, i)
          BY <3>1 DEF Spans
        <5>3. tensors[i].from <= tensors[i].to
          BY <5>2
        <5>4. QED
          BY <3>1, <5>1, <5>2, <5>3
      <4>2. QED
        BY <1>n, <4>1 DEF Chain
    <3>3. Len(Data) = EndOf(tensors, Len(tensors))
      BY <3>1, WrittenAt DEF Data
    <3>4. file'.n \in Nat /\ file'.n <= MaxHeader
          /\ file'.len = N_LEN + file'.n + EndOf(tensors, Len(tensors))
      BY <2>3, <3>3, PaddedType, LayoutAssumption
    <3>5. \E f : /\ Chain(f) /\ Lists(f, file'.infos)
                 /\ file'.n \in Nat /\ file'.n <= MaxHeader
                 /\ file'.len = N_LEN + file'.n + EndOf(f, Len(f))
      BY <2>3, <3>2, <3>4
    <3>6. PICK f : /\ Chain(f) /\ Lists(f, file'.infos)
                   /\ file'.n \in Nat /\ file'.n <= MaxHeader
                   /\ file'.len = N_LEN + file'.n + EndOf(f, Len(f))
      BY <3>5
    <3>7. Filled(file', f)
      BY <3>6 DEF Filled, EndOf
    <3>8. QED
      BY <2>3, <3>6, <3>7, StoredOpens
  <2>4. QED
    BY <1>2, <2>2, <2>3, SerializeWrites
<1>3. CASE ValidateEntry
  <2>1. UNCHANGED <<input, damaged, file, tensors, phase>>
    BY <1>3 DEF ValidateEntry
  <2>2. QED
    BY <2>1, OpensSame
<1>4. CASE RefuseEntry
  <2>1. /\ Validating /\ walked < Len(tensors) /\ ~EntryOk
        /\ phase' = IF phase = "check written" THEN "not written" ELSE "refused"
        /\ UNCHANGED <<input, damaged>>
    BY <1>4 DEF RefuseEntry
  <2>2. CASE phase = "check written"
    BY <2>1, <2>2 DEF OpensInv, ReadPhases
  <2>3. CASE phase \in {"check read", "check header"}
    <3>1. ASSUME input # None, ~damaged PROVE FALSE
      <4>1. Chain(tensors)
        BY <2>3, <3>1 DEF OpensInv, ReadPhases
      <4> DEFINE k == walked + 1
      <4>2. k \in 1 .. Len(tensors) /\ k - 1 = walked /\ (k = 1 <=> walked = 0)
        <5>1. walked < Len(tensors) /\ Len(tensors) \in Nat /\ walked \in 0 .. Len(tensors)
          BY <1>n, <2>1
        <5>2. QED
          BY <5>1
      <4>3. /\ tensors[k].from \in Offsets /\ tensors[k].to \in Offsets
            /\ tensors[k].from <= tensors[k].to
            /\ Follows(tensors, k) /\ SizeOk(tensors[k])
        BY <4>1, <4>2 DEF Chain
      <4>4. tensors[k].from = start
        BY <1>n, <4>2, <4>3 DEF Follows, EndOf
      <4>5. tensors[k].to >= tensors[k].from
        BY <4>3 DEF Offsets
      <4>6. EntryOk
        BY <4>3, <4>4, <4>5 DEF EntryOk, Entry, SizeOk
      <4>7. QED
        BY <2>1, <4>6
    <3>2. QED
      BY <2>1, <3>1 DEF OpensInv
  <2>4. QED
    BY <2>1, <2>2, <2>3 DEF Validating
<1>5. CASE ReadRefused
  <2>1. phase = "stored" /\ ~(HeaderInside /\ Deserializes) /\ UNCHANGED <<input, damaged>>
    BY <1>5 DEF ReadRefused
  <2>2. ASSUME input # None, ~damaged PROVE FALSE
    <3>1. PICK e : Chain(e) /\ Lists(e, file.infos) /\ Filled(file, e)
      BY <2>1, <2>2 DEF OpensInv
    <3>2. EndOf(e, Len(e)) \in Nat
      <4>1. Len(e) \in 0 .. Len(e)
        BY <3>1, IsSeqLen DEF Chain
      <4>2. EndOf(e, Len(e)) \in Offsets
        BY <3>1, <4>1, ChainEnd
      <4>3. QED
        BY <4>2 DEF Offsets
    <3>3. HeaderInside
      BY <3>1, <3>2 DEF Filled, HeaderInside, N_LEN
    <3>4. ASSUME NEW x \in DOMAIN file.infos
          PROVE  {file.infos[x].from, file.infos[x].to} \subseteq 0 .. (Limit - 1)
      <4>1. PICK i \in 1 .. Len(e) : x = e[i].name
        BY <3>1 DEF Lists
      <4>2. file.infos[x].from = e[i].from /\ file.infos[x].to = e[i].to
        BY <3>1, <4>1 DEF Lists
      <4>3. e[i].from \in Offsets /\ e[i].to \in Offsets
        BY <3>1 DEF Chain
      <4>4. QED
        BY <4>2, <4>3 DEF Offsets
    <3>5. QED
      BY <2>1, <3>3, <3>4 DEF Deserializes
  <2>3. QED
    BY <2>1, <2>2 DEF OpensInv
<1>6. CASE Parse
  <2>1. PICK s \in Orders(file.infos) : tensors' = Listed(file.infos, s)
    BY <1>6 DEF Parse
  <2>2. /\ phase = "stored" /\ phase' \in {"check read", "check header"}
        /\ phase' = "check read" => file.len < Limit
        /\ UNCHANGED <<input, damaged, file>>
    BY <1>6 DEF Parse
  <2>3. SUFFICES ASSUME input # None, ~damaged
                 PROVE  Chain(tensors)' /\ Filled(file', tensors')
    BY <2>2, <2>3 DEF OpensInv
  <2>4. PICK e : Chain(e) /\ Lists(e, file.infos) /\ Filled(file, e)
    BY <2>2, <2>3 DEF OpensInv
  <2> DEFINE r == Listed(file.infos, s)
  <2>5. Chain(r) /\ Len(r) = Len(e) /\ EndOf(r, Len(e)) = EndOf(e, Len(e))
    BY <2>4, ChainParsed
  <2> HIDE DEF r
  <2>6. tensors' = r
    BY <2>1 DEF r
  <2>7. Chain(tensors')
    BY <2>5, <2>6
  <2>8. Chain(tensors)'
    BY <2>7 DEF Chain, Follows, SizeOk, NBits
  <2>9. /\ file'.n \in Nat /\ file'.n <= MaxHeader
        /\ file'.len = N_LEN + file'.n + EndOf(r, Len(r))
    BY <2>2, <2>4, <2>5 DEF Filled
  <2>10. Filled(file', tensors')
    BY <2>6, <2>9 DEF Filled, EndOf
  <2>11. QED
    BY <2>8, <2>10
<1>7. CASE ReadDone
  <2>1. /\ phase = "check read" /\ walked = Len(tensors)
        /\ phase' = IF Complete THEN "open" ELSE "refused"
        /\ UNCHANGED <<input, damaged, file, tensors>>
    BY <1>7 DEF ReadDone
  <2>2. SUFFICES ASSUME input # None, ~damaged
                 PROVE  phase' = "open" /\ Chain(tensors) /\ Filled(file, tensors)
    <3>1. phase' = "open" \/ phase' = "refused"
      BY <2>1
    <3>2. QED
      BY <2>1, <2>2, <3>1
         DEF OpensInv, ReadPhases, Chain, Filled, EndOf, Follows, SizeOk, NBits
  <2>3. Chain(tensors) /\ Filled(file, tensors) /\ file.len < Limit
    BY <2>1, <2>2 DEF OpensInv, ReadPhases
  <2>4. start = EndOf(tensors, Len(tensors)) /\ start \in Nat
    <3>1. start = EndOf(tensors, Len(tensors)) /\ Len(tensors) \in 0 .. Len(tensors)
      BY <1>n, <2>1
    <3>2. start \in Offsets
      BY <2>3, <3>1, ChainEnd
    <3>3. QED
      BY <3>1, <3>2 DEF Offsets
  <2>5. file.n \in Nat /\ file.len = N_LEN + file.n + start
    BY <2>3, <2>4 DEF Filled
  <2> DEFINE a == start + N_LEN + file.n
  <2>6. a \in Nat /\ a = file.len /\ a < Limit /\ Limit \in Nat \ {0}
    BY <2>3, <2>4, <2>5, LayoutAssumption DEF N_LEN
  <2> HIDE DEF a
  <2>7. a % Limit = a
    BY <2>6, Remainder
  <2>8. Complete
    BY <2>6, <2>7 DEF Complete, a
  <2>9. QED
    BY <2>1, <2>3, <2>8
<1>8. CASE HeaderDone
  <2>1. /\ phase = "check header" /\ phase' = "open header"
        /\ UNCHANGED <<input, damaged, file, tensors>>
    BY <1>8 DEF HeaderDone
  <2>2. QED
    BY <2>1 DEF OpensInv, ReadPhases, Chain, Filled, EndOf, Follows, SizeOk, NBits
<1>9. CASE Rewrap
  <2>1. phase \in FilePhases /\ UNCHANGED <<input, tensors, damaged>>
    BY <1>9, RewrapKeeps
  <2>2. CASE UNCHANGED <<file, phase>>
    BY <2>1, <2>2, OpensSame
  <2>3. CASE /\ phase' = "stored" /\ Lists(tensors, file'.infos)
             /\ \E json \in JsonLens :
                   /\ file'.n = Padded(json) /\ file'.n <= MaxHeader
                   /\ file'.len = N_LEN + file'.n + (file.len - N_LEN - file.n)
    <3>1. CASE ~(input # None /\ ~damaged)
      BY <2>1, <3>1 DEF OpensInv
    <3>2. CASE input # None /\ ~damaged
      <4>1. phase \in ReadPhases
        BY <1>9 DEF Rewrap, ReadPhases
      <4>2. Chain(tensors) /\ Filled(file, tensors)
        BY <3>2, <4>1 DEF OpensInv
      <4> DEFINE m == EndOf(tensors, Len(tensors))
      <4>3. m \in Nat
        <5>1. Len(tensors) \in 0 .. Len(tensors)
          BY <1>n
        <5>2. QED
          BY <4>2, <5>1, ChainEnd DEF Offsets
      <4>4. file.n \in Nat /\ file.len = N_LEN + file.n + m
        BY <4>2 DEF Filled
      <4>5. /\ file'.n \in Nat /\ file'.n <= MaxHeader
            /\ file'.len = N_LEN + file'.n + (file.len - N_LEN - file.n)
        BY <2>3, PaddedType, LayoutAssumption
      <4>6. file'.len = N_LEN + file'.n + m
        <5>1. file.len - N_LEN - file.n = m
          BY <4>3, <4>4 DEF N_LEN
        <5>2. QED
          BY <4>5, <5>1
      <4>7. \E f : /\ Chain(f) /\ Lists(f, file'.infos)
                   /\ file'.n \in Nat /\ file'.n <= MaxHeader
                   /\ file'.len = N_LEN + file'.n + EndOf(f, Len(f))
        BY <2>3, <4>2, <4>5, <4>6
      <4>8. PICK f : /\ Chain(f) /\ Lists(f, file'.infos)
                     /\ file'.n \in Nat /\ file'.n <= MaxHeader
                     /\ file'.len = N_LEN + file'.n + EndOf(f, Len(f))
        BY <4>7
      <4>9. Filled(file', f)
        BY <4>8 DEF Filled, EndOf
      <4>10. QED
        BY <2>3, <4>8, <4>9, StoredOpens
    <3>3. QED
      BY <3>1, <3>2
  <2>4. QED
    BY <1>9, <2>2, <2>3, RewrapKeeps
<1>10. CASE Tear
  BY <1>10 DEF Tear, OpensInv
<1>11. CASE UNCHANGED vars
  <2>1. UNCHANGED <<input, damaged, file, tensors, phase>>
    BY <1>11 DEF vars
  <2>2. QED
    BY <2>1, OpensSame
<1>12. QED
  BY <1>1, <1>2, <1>3, <1>4, <1>5, <1>6, <1>7, <1>8, <1>9, <1>10, <1>11 DEF Next

(* No file that serialize or rewrap wrote is ever refused: not by the read  *)
(* of its header, not by validate, and not by the comparison with the       *)
(* buffer's length, whatever order the reader's sort leaves empty tensors   *)
(* in.                                                                      *)
THEOREM WrittenOpensCorrect == Spec => []WrittenOpens
<1>1. Init => HeaderInv /\ OpensInv
  BY LayoutInvInit, WalkOkInit, LaidOutInit, ParsedInit, OpensInit DEF HeaderInv
<1>2. HeaderInv /\ OpensInv /\ [Next]_vars => (HeaderInv /\ OpensInv)'
  BY LayoutInvStep, WalkOkStep, LaidOutStep, ParsedStep, OpensStep DEF HeaderInv
<1>3. OpensInv => WrittenOpens
  BY DEF OpensInv, WrittenOpens
<1>4. QED
  BY <1>1, <1>2, <1>3, PTL DEF Spec

=============================================================================
