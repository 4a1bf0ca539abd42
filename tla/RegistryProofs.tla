--------------------------- MODULE RegistryProofs ---------------------------
(***************************************************************************)
(* Proofs about the provider registry, for any providers, keys, names and  *)
(* threads and any number of changes.                                      *)
(***************************************************************************)
EXTENDS Registry, FiniteSetTheorems, TLAPS

-----------------------------------------------------------------------------
(* retain and sort_by *)

Orders(order, I) ==
    /\ \A i \in I : <<i, i>> \notin order
    /\ \A i, j \in I : i = j \/ <<i, j>> \in order \/ <<j, i>> \in order
    /\ \A i, j, k \in I : <<i, j>> \in order /\ <<j, k>> \in order => <<i, k>> \in order

(* Whatever total order the positions are put in, each of them gets a place *)
(* of its own, and places come in that order: what Vec::retain and          *)
(* Vec::sort_by leave is the entries they were given, rearranged.           *)
LEMMA Arranging ==
    ASSUME NEW s, NEW n \in Nat, NEW I \in SUBSET (1 .. n), NEW order, Orders(order, I)
    PROVE  \E at \in [1 .. Cardinality(I) -> I] :
              /\ Arranged(s, I, order) = [k \in 1 .. Cardinality(I) |-> s[at[k]]]
              /\ \A k, l \in 1 .. Cardinality(I) : k < l => <<at[k], at[l]>> \in order
  <1> DEFINE N == Cardinality(I)
             Under(i) == {j \in I : <<j, i>> \in order}
             f == [i \in I |-> Cardinality(Under(i))]
  <1>1. IsFiniteSet(I) /\ N \in Nat
    <2>1. IsFiniteSet(1 .. n)
      BY FS_Interval
    <2> QED
      BY <2>1, FS_Subset, FS_CardinalityType
  <1>2. ASSUME NEW i \in I
        PROVE  /\ IsFiniteSet(Under(i))
               /\ f[i] \in 0 .. N - 1
    <2>1. IsFiniteSet(Under(i)) /\ Cardinality(Under(i)) <= N /\ Cardinality(Under(i)) \in Nat
      BY <1>1, FS_Subset, FS_CardinalityType
    <2>2. Under(i) # I
      BY DEF Orders
    <2>3. Cardinality(Under(i)) # N
      BY <1>1, <2>2, FS_Subset
    <2> QED
      BY <1>1, <2>1, <2>3
  <1>3. ASSUME NEW i \in I, NEW j \in I, <<i, j>> \in order
        PROVE  f[i] < f[j]
    <2>1. Under(i) \subseteq Under(j)
      BY <1>3 DEF Orders
    <2>2. i \in Under(j) /\ i \notin Under(i)
      BY <1>3 DEF Orders
    <2>3. Cardinality(Under(i)) <= Cardinality(Under(j)) /\ Cardinality(Under(i)) # Cardinality(Under(j))
      BY <1>2, <2>1, <2>2, FS_Subset
    <2> QED
      BY <1>2, <2>3
  <1>4. IsFiniteSet(0 .. N - 1) /\ Cardinality(0 .. N - 1) = N
    <2>1. N - 1 \in Int /\ 0 \in Int /\ (0 > N - 1 <=> N = 0) /\ (N - 1) - 0 + 1 = N
      BY <1>1
    <2> HIDE DEF N
    <2>2. IsFiniteSet(0 .. N - 1) /\ Cardinality(0 .. N - 1) = IF 0 > N - 1 THEN 0 ELSE (N - 1) - 0 + 1
      BY <2>1, FS_Interval
    <2> QED
      BY <2>1, <2>2
  <1>5. f \in Injection(I, 0 .. N - 1)
    <2>1. f \in [I -> 0 .. N - 1]
      BY <1>2
    <2>2. ASSUME NEW i \in I, NEW j \in I, i # j
          PROVE  f[i] # f[j]
      <3>1. f[i] \in Int /\ f[j] \in Int
        BY <2>1, <1>1
      <3>2. <<i, j>> \in order \/ <<j, i>> \in order
        BY <2>2 DEF Orders
      <3> HIDE DEF f
      <3> QED
        BY <1>3, <3>1, <3>2
    <2> HIDE DEF f
    <2> QED
      BY <2>1, <2>2 DEF Injection, IsInjective
  <1>6. f \in Surjection(I, 0 .. N - 1)
    BY <1>1, <1>4, <1>5, FS_Injection
  <1>7. ASSUME NEW k \in 1 .. N
        PROVE  \E i \in I : f[i] = k - 1
    <2>1. k - 1 \in 0 .. N - 1
      BY <1>1
    <2> HIDE DEF f
    <2> QED
      BY <1>6, <2>1 DEF Surjection
  <1> DEFINE at == [k \in 1 .. N |-> CHOOSE i \in I : Cardinality(Under(i)) = k - 1]
  <1>8. ASSUME NEW k \in 1 .. N
        PROVE  at[k] \in I /\ f[at[k]] = k - 1
    <2>1. \E i \in I : Cardinality(Under(i)) = k - 1
      BY <1>7
    <2> QED
      BY <2>1
  <1>9. ASSUME NEW k \in 1 .. N, NEW l \in 1 .. N, k < l
        PROVE  <<at[k], at[l]>> \in order
    <2>1. at[k] \in I /\ at[l] \in I /\ f[at[k]] = k - 1 /\ f[at[l]] = l - 1
      BY <1>8
    <2>2. at[k] # at[l]
      <3> HIDE DEF at, f
      <3> QED  BY <1>1, <1>9, <2>1
    <2>3. <<at[l], at[k]>> \notin order
      <3> SUFFICES ASSUME <<at[l], at[k]>> \in order PROVE FALSE
        OBVIOUS
      <3>1. f[at[l]] < f[at[k]]
        <4> HIDE DEF at, f
        <4> QED  BY <1>3, <2>1
      <3> HIDE DEF at, f
      <3> QED
        BY <1>1, <1>9, <2>1, <3>1
    <2> HIDE DEF at, f
    <2> QED
      BY <2>1, <2>2, <2>3 DEF Orders
  <1>10. Arranged(s, I, order) = [k \in 1 .. N |-> s[at[k]]]
    <2>1. Arranged(s, I, order) =
             [k \in 1 .. N |-> s[CHOOSE i \in I : Cardinality(Under(i)) = k - 1]]
      BY DEF Arranged
    <2> QED
      BY <2>1
  <1>11. at \in [1 .. N -> I]
    BY <1>8
  <1> HIDE DEF at, f
  <1> QED
    BY <1>9, <1>10, <1>11

-----------------------------------------------------------------------------
(* The vector between two changes: every entry is enabled (it came in so,   *)
(* and disable_provider removes it), none is younger than the last change   *)
(* or bears a name that was disabled after it came, those of one priority   *)
(* stand in the order they came in, and no two have one name.               *)
Kept(s, time, names) ==
    /\ s \in Seq(Entries)
    /\ \A i \in DOMAIN s : s[i].enabled = TRUE /\ s[i].stamp <= time /\ Name(s[i].p) \notin names
    /\ \A i, j \in DOMAIN s : i < j /\ s[i].priority = s[j].priority => s[i].stamp < s[j].stamp
    /\ \A i, j \in DOMAIN s : Name(s[i].p) = Name(s[j].p) => i = j

Sorted(s) ==
    \A i, j \in DOMAIN s : i < j =>
        s[i].priority > s[j].priority \/ (s[i].priority = s[j].priority /\ s[i].stamp < s[j].stamp)

ListInv ==
    /\ writes \in 0 .. MaxWrites
    /\ Kept(list, writes, silenced)
    /\ Sorted(list) \/ list = Initial

(* The fields of an entry. *)
LEMMA EntryFields ==
    ASSUME NEW e \in Entries
    PROVE  e.p \in Providers /\ e.priority \in Int /\ e.enabled \in BOOLEAN /\ e.stamp \in 0 .. MaxWrites
  BY DEF Entries

LEMMA EntryTyped ==
    ASSUME NEW p \in Providers, NEW priority \in Int, NEW stamp \in 0 .. MaxWrites
    PROVE  Entry(p, priority, stamp) \in Entries
  BY DEF Entry, Entries

(* What retain leaves *)
LEMMA Retaining ==
    ASSUME list \in Seq(Entries), NEW I \in SUBSET DOMAIN list
    PROVE  \E N \in Nat : \E at \in [1 .. N -> I] :
              /\ Retain(I) = [k \in 1 .. N |-> list[at[k]]]
              /\ \A k, l \in 1 .. N : k < l => at[k] < at[l]
  <1>1. DOMAIN list = 1 .. Len(list) /\ Len(list) \in Nat
    OBVIOUS
  <1>2. I \in SUBSET Nat
    BY <1>1
  <1>3. \A i, j \in I : <<i, j>> \in ByPosition(I) <=> i < j
    BY DEF ByPosition
  <1>4. Orders(ByPosition(I), I)
    BY <1>2, <1>3 DEF Orders
  <1>5. IsFiniteSet(I)
    <2>1. IsFiniteSet(1 .. Len(list))
      BY <1>1, FS_Interval
    <2> QED
      BY <1>1, <2>1, FS_Subset
  <1>6. Cardinality(I) \in Nat
    BY <1>5, FS_CardinalityType
  <1>7. PICK at \in [1 .. Cardinality(I) -> I] :
            /\ Arranged(list, I, ByPosition(I)) = [k \in 1 .. Cardinality(I) |-> list[at[k]]]
            /\ \A k, l \in 1 .. Cardinality(I) : k < l => <<at[k], at[l]>> \in ByPosition(I)
    <2> HIDE DEF Arranged
    <2> QED  BY <1>1, <1>4, Arranging
  <1>8. \A k, l \in 1 .. Cardinality(I) : k < l => at[k] < at[l]
    BY <1>3, <1>7
  <1> QED
    BY <1>6, <1>7, <1>8 DEF Retain

(* What sort_by leaves *)
LEMMA Sorting ==
    ASSUME NEW s \in Seq(Entries)
    PROVE  \E N \in Nat : \E at \in [1 .. N -> DOMAIN s] :
              /\ SortByPriority(s) = [k \in 1 .. N |-> s[at[k]]]
              /\ \A k, l \in 1 .. N : k < l =>
                    s[at[k]].priority > s[at[l]].priority \/ (s[at[k]].priority = s[at[l]].priority /\ at[k] < at[l])
  <1>1. DOMAIN s = 1 .. Len(s) /\ Len(s) \in Nat
    OBVIOUS
  <1>2. \A i \in DOMAIN s : i \in Nat /\ s[i].priority \in Int
    BY <1>1, EntryFields
  <1>3. \A i, j \in DOMAIN s : <<i, j>> \in ByPriority(s) <=>
            s[i].priority > s[j].priority \/ (s[i].priority = s[j].priority /\ i < j)
    BY DEF ByPriority
  <1>4. Orders(ByPriority(s), DOMAIN s)
    <2> DEFINE D == DOMAIN s
               R == ByPriority(s)
    <2> HIDE DEF D, R
    <2> DEFINE prio == [i \in D |-> s[i].priority]
    <2>1. /\ D \subseteq Nat /\ prio \in [D -> Int]
          /\ \A i, j \in D : <<i, j>> \in R <=> prio[i] > prio[j] \/ (prio[i] = prio[j] /\ i < j)
      BY <1>2, <1>3 DEF D, R
    <2> HIDE DEF prio
    <2>2. \A i \in D : <<i, i>> \notin R
      BY <2>1
    <2>3. ASSUME NEW i \in D, NEW j \in D
          PROVE  i = j \/ <<i, j>> \in R \/ <<j, i>> \in R
      <3>1. i \in Nat /\ j \in Nat /\ prio[i] \in Int /\ prio[j] \in Int
        BY <2>1
      <3>2. i = j \/ i < j \/ j < i
        BY <3>1
      <3>3. prio[i] = prio[j] \/ prio[i] > prio[j] \/ prio[j] > prio[i]
        BY <3>1
      <3> QED
        BY <2>1, <3>2, <3>3
    <2>4. ASSUME NEW i \in D, NEW j \in D, NEW k \in D, <<i, j>> \in R, <<j, k>> \in R
          PROVE  <<i, k>> \in R
      <3>1. i \in Nat /\ j \in Nat /\ k \in Nat /\ prio[i] \in Int /\ prio[j] \in Int /\ prio[k] \in Int
        BY <2>1
      <3>2. /\ prio[i] > prio[j] \/ (prio[i] = prio[j] /\ i < j)
            /\ prio[j] > prio[k] \/ (prio[j] = prio[k] /\ j < k)
        BY <2>1, <2>4
      <3>3. prio[i] > prio[k] \/ (prio[i] = prio[k] /\ i < k)
        BY <3>1, <3>2
      <3> QED
        BY <2>1, <3>3
    <2> QED
      BY <2>2, <2>3, <2>4 DEF Orders, D, R
  <1>5. IsFiniteSet(DOMAIN s) /\ Cardinality(DOMAIN s) = Len(s)
    <2> DEFINE n == Len(s)
    <2>1. n \in Nat /\ n \in Int /\ 1 \in Int /\ DOMAIN s = 1 .. n
      BY <1>1
    <2> HIDE DEF n
    <2>2. IsFiniteSet(1 .. n) /\ Cardinality(1 .. n) = IF 1 > n THEN 0 ELSE n - 1 + 1
      BY <2>1, FS_Interval
    <2>3. Cardinality(1 .. n) = n
      BY <2>1, <2>2
    <2> QED
      BY <2>1, <2>2, <2>3 DEF n
  <1>6. PICK at \in [1 .. Len(s) -> DOMAIN s] :
            /\ Arranged(s, DOMAIN s, ByPriority(s)) = [k \in 1 .. Len(s) |-> s[at[k]]]
            /\ \A k, l \in 1 .. Len(s) : k < l => <<at[k], at[l]>> \in ByPriority(s)
    <2>1. DOMAIN s \in SUBSET (1 .. Len(s))
      BY <1>1
    <2> DEFINE D == DOMAIN s
               R == ByPriority(s)
    <2>2. Orders(R, D) /\ D \in SUBSET (1 .. Len(s)) /\ Cardinality(D) = Len(s) /\ Len(s) \in Nat
      BY <1>1, <1>4, <1>5, <2>1
    <2> HIDE DEF D, R
    <2>3. \E at \in [1 .. Cardinality(D) -> D] :
            /\ Arranged(s, D, R) = [k \in 1 .. Cardinality(D) |-> s[at[k]]]
            /\ \A k, l \in 1 .. Cardinality(D) : k < l => <<at[k], at[l]>> \in R
      BY <2>2, Arranging
    <2>4. \E at \in [1 .. Len(s) -> D] :
            /\ Arranged(s, D, R) = [k \in 1 .. Len(s) |-> s[at[k]]]
            /\ \A k, l \in 1 .. Len(s) : k < l => <<at[k], at[l]>> \in R
      BY <2>2, <2>3
    <2> QED  BY <2>4 DEF D, R
  <1>7. \A k, l \in 1 .. Len(s) : k < l =>
            s[at[k]].priority > s[at[l]].priority \/ (s[at[k]].priority = s[at[l]].priority /\ at[k] < at[l])
    BY <1>3, <1>6
  <1> QED
    BY <1>1, <1>6, <1>7 DEF SortByPriority

(* What retain leaves of a vector stays in order, and is the initial vector *)
(* only if it was that before.                                              *)
LEMMA RetainKept ==
    ASSUME NEW time \in Nat, NEW names, Kept(list, time, names), NEW more,
           NEW I \in SUBSET DOMAIN list, \A i \in I : Name(list[i].p) \notin more
    PROVE  /\ Kept(Retain(I), time, names \cup more)
           /\ Sorted(list) \/ list = Initial => Sorted(Retain(I)) \/ Retain(I) = Initial
  <1> DEFINE r == Retain(I)
  <1>0. list \in Seq(Entries) /\ DOMAIN list = 1 .. Len(list) /\ Len(list) \in Nat
    BY DEF Kept
  <1>1. PICK N \in Nat : \E at \in [1 .. N -> I] :
            /\ Retain(I) = [k \in 1 .. N |-> list[at[k]]]
            /\ \A k, l \in 1 .. N : k < l => at[k] < at[l]
    BY <1>0, Retaining
  <1>2. PICK at \in [1 .. N -> I] :
            /\ Retain(I) = [k \in 1 .. N |-> list[at[k]]]
            /\ \A k, l \in 1 .. N : k < l => at[k] < at[l]
    BY <1>1
  <1>3. \A k \in 1 .. N : at[k] \in I /\ at[k] \in DOMAIN list /\ at[k] \in Nat
    BY <1>0
  <1>4. /\ \A k \in 1 .. N : at[k] \in DOMAIN list
        /\ \A k, l \in 1 .. N : k < l => at[k] # at[l]
    BY <1>2, <1>3
  <1> HIDE DEF r
  <1>5. r = [k \in 1 .. N |-> list[at[k]]]
    BY <1>2 DEF r
  <1>a. r \in [1 .. N -> Entries] /\ \A k \in 1 .. N : r[k] = list[at[k]]
    <2>1. \A i \in DOMAIN list : list[i] \in Entries
      BY <1>0
    <2> QED
      BY <1>3, <1>5, <2>1
  <1>6. /\ r \in Seq(Entries)
        /\ DOMAIN r = 1 .. N
        /\ \A k \in 1 .. N : r[k] = list[at[k]] /\ r[k] \in Entries
    BY <1>a
  <1>b. \A k \in 1 .. N : r[k].enabled = TRUE /\ r[k].stamp <= time /\ Name(r[k].p) \notin names
    BY <1>3, <1>6 DEF Kept
  <1>c. ASSUME NEW k \in 1 .. N, NEW l \in 1 .. N, Name(r[k].p) = Name(r[l].p)
        PROVE  k = l
    <2>1. at[k] = at[l]
      BY <1>3, <1>6, <1>c DEF Kept
    <2>2. ~(k < l) /\ ~(l < k)
      BY <1>4, <2>1
    <2> QED
      BY <2>2
  <1>7. \A k \in 1 .. N : Name(r[k].p) \notin names \cup more
    BY <1>3, <1>6, <1>b
  <1>8. \A k, l \in 1 .. N : k < l /\ r[k].priority = r[l].priority => r[k].stamp < r[l].stamp
    BY <1>2, <1>3, <1>6 DEF Kept
  <1>9. Kept(r, time, names \cup more)
    BY <1>6, <1>b, <1>c, <1>7, <1>8 DEF Kept
  <1>10. Sorted(list) => Sorted(r)
    BY <1>2, <1>3, <1>6 DEF Sorted
  <1>11. ASSUME list = Initial
         PROVE  Sorted(r) \/ r = Initial
    <2>1. DOMAIN list = 1 .. 2 /\ Initial = [k \in 1 .. 2 |-> list[k]]
      BY <1>11 DEF Initial
    <2>2. N <= 2
      <3> SUFFICES ASSUME N >= 3 PROVE FALSE
        OBVIOUS
      <3>1. 1 \in 1 .. N /\ 2 \in 1 .. N /\ 3 \in 1 .. N
        OBVIOUS
      <3>2. at[1] < at[2] /\ at[2] < at[3]
        BY <1>2, <3>1
      <3>3. at[1] \in 1 .. 2 /\ at[2] \in 1 .. 2 /\ at[3] \in 1 .. 2
        BY <1>3, <2>1, <3>1
      <3> QED
        BY <3>2, <3>3
    <2>3. CASE N = 2
      <3>1. 1 \in 1 .. N /\ 2 \in 1 .. N
        BY <2>3
      <3>2. at[1] < at[2] /\ at[1] \in 1 .. 2 /\ at[2] \in 1 .. 2
        BY <1>2, <1>3, <2>1, <3>1
      <3>3. at[1] = 1 /\ at[2] = 2
        BY <3>2
      <3>4. \A k \in 1 .. 2 : r[k] = list[k]
        BY <1>6, <2>3, <3>3
      <3>5. r = [k \in 1 .. 2 |-> list[k]]
        BY <1>5, <1>6, <2>3, <3>4
      <3> QED
        BY <2>1, <3>5
    <2>4. CASE N # 2
      <3>1. \A k, l \in 1 .. N : ~(k < l)
        BY <2>2, <2>4
      <3> QED
        BY <1>6, <3>1 DEF Sorted
    <2> QED
      BY <2>3, <2>4
  <1> QED
    BY <1>9, <1>10, <1>11 DEF r

(* A new entry, whose name nobody bears, at the end *)
LEMMA AppendKept ==
    ASSUME NEW s, NEW time \in Nat, NEW names, NEW p \in Providers, NEW priority \in Int,
           time + 1 \in 0 .. MaxWrites, MaxWrites \in Nat,
           Kept(s, time, names \cup {Name(p)})
    PROVE  Kept(Append(s, Entry(p, priority, time + 1)), time + 1, names \ {Name(p)})
  <1> DEFINE e == Entry(p, priority, time + 1)
             r == Append(s, e)
  <1>1. e \in Entries /\ e.p = p /\ e.stamp = time + 1 /\ e.enabled = TRUE
    BY EntryTyped DEF Entry
  <1>2. s \in Seq(Entries)
    BY DEF Kept
  <1> HIDE DEF e
  <1>3. /\ r \in Seq(Entries)
        /\ Len(s) \in Nat
        /\ DOMAIN r = 1 .. Len(s) + 1
        /\ DOMAIN s = 1 .. Len(s)
        /\ \A i \in DOMAIN s : r[i] = s[i] /\ i \in DOMAIN r /\ r[i] \in Entries
        /\ r[Len(s) + 1] = e
    BY <1>1, <1>2
  <1> HIDE DEF r
  <1>4. \A i \in DOMAIN s : s[i].stamp \in Nat /\ s[i].stamp <= time
    <2>1. \A i \in DOMAIN s : s[i].stamp \in 0 .. MaxWrites
      BY <1>2, EntryFields
    <2> QED
      BY <2>1 DEF Kept
  <1>5. \A i \in DOMAIN r : i \in DOMAIN s \/ i = Len(s) + 1
    BY <1>3
  <1>6. ASSUME NEW i \in DOMAIN r
        PROVE  r[i].enabled = TRUE /\ r[i].stamp <= time + 1 /\ Name(r[i].p) \notin names \ {Name(p)}
    <2>1. CASE i \in DOMAIN s
      BY <1>3, <1>4, <2>1 DEF Kept
    <2>2. CASE i = Len(s) + 1
      BY <1>1, <1>3, <2>2
    <2> QED
      BY <1>5, <2>1, <2>2
  <1>7. ASSUME NEW i \in DOMAIN r, NEW j \in DOMAIN r, i < j, r[i].priority = r[j].priority
        PROVE  r[i].stamp < r[j].stamp
    <2>1. i \in DOMAIN s
      BY <1>3, <1>7
    <2>2. CASE j \in DOMAIN s
      BY <1>3, <1>7, <2>1, <2>2 DEF Kept
    <2>3. CASE j = Len(s) + 1
      BY <1>1, <1>3, <1>4, <2>1, <2>3
    <2> QED
      BY <1>5, <2>2, <2>3
  <1>8. ASSUME NEW i \in DOMAIN r, NEW j \in DOMAIN r, Name(r[i].p) = Name(r[j].p)
        PROVE  i = j
    <2>1. \A k \in DOMAIN s : Name(r[k].p) # Name(r[Len(s) + 1].p)
      BY <1>1, <1>3 DEF Kept
    <2>2. CASE i \in DOMAIN s /\ j \in DOMAIN s
      BY <1>3, <1>8, <2>2 DEF Kept
    <2> QED
      BY <1>5, <1>8, <2>1, <2>2
  <1>9. Kept(r, time + 1, names \ {Name(p)})
    BY <1>3, <1>6, <1>7, <1>8 DEF Kept
  <1> QED
    BY <1>9 DEF r, e

(* The stable sort *)
LEMMA SortKept ==
    ASSUME NEW s, NEW time \in Nat, NEW names, Kept(s, time, names)
    PROVE  Kept(SortByPriority(s), time, names) /\ Sorted(SortByPriority(s))
  <1> DEFINE r == SortByPriority(s)
  <1>0. s \in Seq(Entries) /\ DOMAIN s = 1 .. Len(s) /\ Len(s) \in Nat
    BY DEF Kept
  <1>1. PICK N \in Nat : \E at \in [1 .. N -> DOMAIN s] :
            /\ SortByPriority(s) = [k \in 1 .. N |-> s[at[k]]]
            /\ \A k, l \in 1 .. N : k < l =>
                  s[at[k]].priority > s[at[l]].priority \/ (s[at[k]].priority = s[at[l]].priority /\ at[k] < at[l])
    BY <1>0, Sorting
  <1>2. PICK at \in [1 .. N -> DOMAIN s] :
            /\ SortByPriority(s) = [k \in 1 .. N |-> s[at[k]]]
            /\ \A k, l \in 1 .. N : k < l =>
                  s[at[k]].priority > s[at[l]].priority \/ (s[at[k]].priority = s[at[l]].priority /\ at[k] < at[l])
    BY <1>1
  <1>3. \A k \in 1 .. N : at[k] \in DOMAIN s /\ at[k] \in Nat /\ s[at[k]].priority \in Int
    BY <1>0, EntryFields
  <1>4. \A k, l \in 1 .. N : k < l => at[k] # at[l]
    BY <1>2, <1>3
  <1> HIDE DEF r
  <1>5. r = [k \in 1 .. N |-> s[at[k]]]
    BY <1>2 DEF r
  <1>a. r \in [1 .. N -> Entries] /\ \A k \in 1 .. N : r[k] = s[at[k]]
    <2>1. \A i \in DOMAIN s : s[i] \in Entries
      BY <1>0
    <2> QED
      BY <1>3, <1>5, <2>1
  <1>6. /\ r \in Seq(Entries)
        /\ DOMAIN r = 1 .. N
        /\ \A k \in 1 .. N : r[k] = s[at[k]] /\ r[k] \in Entries
    BY <1>a
  <1>b. \A k \in 1 .. N : r[k].enabled = TRUE /\ r[k].stamp <= time /\ Name(r[k].p) \notin names
    BY <1>3, <1>6 DEF Kept
  <1>c. ASSUME NEW k \in 1 .. N, NEW l \in 1 .. N, Name(r[k].p) = Name(r[l].p)
        PROVE  k = l
    <2>1. at[k] = at[l]
      BY <1>3, <1>6, <1>c DEF Kept
    <2>2. ~(k < l) /\ ~(l < k)
      BY <1>4, <2>1
    <2> QED
      BY <2>2
  <1>7. \A k, l \in 1 .. N : k < l => r[k].priority > r[l].priority \/ (r[k].priority = r[l].priority /\ r[k].stamp < r[l].stamp)
    <2> SUFFICES ASSUME NEW k \in 1 .. N, NEW l \in 1 .. N, k < l
                 PROVE  r[k].priority > r[l].priority \/ (r[k].priority = r[l].priority /\ r[k].stamp < r[l].stamp)
      OBVIOUS
    <2>1. r[k] = s[at[k]] /\ r[l] = s[at[l]] /\ at[k] \in DOMAIN s /\ at[l] \in DOMAIN s
      BY <1>3, <1>6
    <2>2. s[at[k]].priority > s[at[l]].priority \/ (s[at[k]].priority = s[at[l]].priority /\ at[k] < at[l])
      BY <1>2
    <2>3. s[at[k]].priority = s[at[l]].priority /\ at[k] < at[l] => s[at[k]].stamp < s[at[l]].stamp
      BY <2>1 DEF Kept
    <2> QED
      BY <2>1, <2>2, <2>3
  <1>8. \A k \in 1 .. N : r[k].priority \in Int
    BY <1>3, <1>6
  <1>9. \A k, l \in 1 .. N : k < l /\ r[k].priority = r[l].priority => r[k].stamp < r[l].stamp
    BY <1>7, <1>8
  <1>10. Kept(r, time, names)
    BY <1>6, <1>b, <1>c, <1>9 DEF Kept
  <1>11. Sorted(r)
    BY <1>6, <1>7 DEF Sorted
  <1> QED
    BY <1>10, <1>11 DEF r

-----------------------------------------------------------------------------
(* The vector under every change *)

LEMMA ListInit == Init => ListInv
  <1> SUFFICES ASSUME Init PROVE ListInv
    OBVIOUS
  <1>1. list = <<Entry(Env, PRIORITY_ENV, 0), Entry(File, PRIORITY_FILE, 0)>> /\ writes = 0 /\ silenced = {}
    BY DEF Init, Initial
  <1>2. MaxWrites \in Nat
    BY ConstantsAssumption
  <1>3. Env \in Providers /\ File \in Providers
    BY DEF Providers
  <1>4. Entry(Env, PRIORITY_ENV, 0) \in Entries /\ Entry(File, PRIORITY_FILE, 0) \in Entries
    BY <1>2, <1>3, EntryTyped DEF PRIORITY_ENV, PRIORITY_FILE
  <1>5. list \in Seq(Entries) /\ DOMAIN list = 1 .. 2
    BY <1>1, <1>4
  <1>6. list[1] = Entry(Env, PRIORITY_ENV, 0) /\ list[2] = Entry(File, PRIORITY_FILE, 0)
    BY <1>1
  <1>7. Env # File /\ Name(Env) = Env /\ Name(File) = File /\ PRIORITY_ENV # PRIORITY_FILE
    BY ConstantsAssumption DEF Env, File, Name, PRIORITY_ENV, PRIORITY_FILE
  <1>8. /\ list[1].p = Env /\ list[1].priority = PRIORITY_ENV
        /\ list[1].enabled = TRUE /\ list[1].stamp = 0
        /\ list[2].p = File /\ list[2].priority = PRIORITY_FILE
        /\ list[2].enabled = TRUE /\ list[2].stamp = 0
    BY <1>6 DEF Entry
  <1>9. \A i \in DOMAIN list : list[i].enabled = TRUE /\ list[i].stamp <= writes /\ Name(list[i].p) \notin silenced
    BY <1>1, <1>5, <1>8
  <1>10. \A i, j \in DOMAIN list : i < j /\ list[i].priority = list[j].priority => list[i].stamp < list[j].stamp
    BY <1>5, <1>7, <1>8
  <1>11. \A i, j \in DOMAIN list : Name(list[i].p) = Name(list[j].p) => i = j
    <2>1. Name(list[1].p) = Env /\ Name(list[2].p) = File
      BY <1>7, <1>8
    <2>2. \A i \in DOMAIN list : i = 1 \/ i = 2
      BY <1>5
    <2> QED
      BY <1>7, <2>1, <2>2
  <1>12. Kept(list, writes, silenced)
    BY <1>5, <1>9, <1>10, <1>11 DEF Kept
  <1> QED
    BY <1>1, <1>2, <1>12 DEF ListInv, Initial

(* disable_provider, and the first step of register_provider_full *)
LEMMA OthersKept ==
    ASSUME ListInv, NEW name
    PROVE  /\ Kept(Others(name), writes, silenced \cup {name})
           /\ Sorted(Others(name)) \/ Others(name) = Initial
  <1> DEFINE I == {i \in DOMAIN list : Name(list[i].p) # name}
  <1>1. I \in SUBSET DOMAIN list /\ \A i \in I : Name(list[i].p) \notin {name}
    OBVIOUS
  <1>2. writes \in Nat /\ Kept(list, writes, silenced) /\ (Sorted(list) \/ list = Initial)
    BY ConstantsAssumption DEF ListInv
  <1> HIDE DEF I
  <1>3. /\ Kept(Retain(I), writes, silenced \cup {name})
        /\ Sorted(Retain(I)) \/ Retain(I) = Initial
    BY <1>1, <1>2, RetainKept
  <1> QED
    BY <1>3 DEF Others, I

LEMMA RegisterKept ==
    ASSUME ListInv, NEW p \in Providers, NEW priority \in Int,
           writes + 1 \in 0 .. MaxWrites, RegisterProvider(p, priority)
    PROVE  Kept(list', writes + 1, silenced') /\ Sorted(list')
  <1> DEFINE others == Others(Name(p))
             longer == Append(others, Entry(p, priority, writes + 1))
  <1>1. writes \in Nat /\ MaxWrites \in Nat
    BY ConstantsAssumption DEF ListInv
  <1>2. Kept(others, writes, silenced \cup {Name(p)})
    BY OthersKept
  <1> HIDE DEF others
  <1>3. Kept(longer, writes + 1, silenced \ {Name(p)})
    BY <1>1, <1>2, AppendKept
  <1> HIDE DEF longer
  <1>4. Kept(SortByPriority(longer), writes + 1, silenced \ {Name(p)}) /\ Sorted(SortByPriority(longer))
    BY <1>1, <1>3, SortKept
  <1>5. list' = SortByPriority(longer) /\ silenced' = silenced \ {Name(p)}
    BY DEF RegisterProvider, longer, others
  <1> QED
    BY <1>4, <1>5

(* Time passes. *)
LEMMA KeptOn ==
    ASSUME NEW s, NEW time \in Nat, NEW names, Kept(s, time, names)
    PROVE  Kept(s, time + 1, names)
  <1>1. \A i \in DOMAIN s : s[i].stamp \in Nat
    BY EntryFields DEF Kept
  <1>2. \A i \in DOMAIN s : s[i].stamp <= time + 1
    BY <1>1 DEF Kept
  <1> QED
    BY <1>2 DEF Kept

LEMMA DisableKept ==
    ASSUME ListInv, NEW name, DisableProvider(name)
    PROVE  Kept(list', writes + 1, silenced') /\ (Sorted(list') \/ list' = Initial)
  <1>1. writes \in Nat
    BY ConstantsAssumption DEF ListInv
  <1>2. /\ Kept(Others(name), writes, silenced \cup {name})
        /\ Sorted(Others(name)) \/ Others(name) = Initial
    BY OthersKept
  <1>3. Kept(Others(name), writes + 1, silenced \cup {name})
    BY <1>1, <1>2, KeptOn
  <1> QED
    BY <1>2, <1>3 DEF DisableProvider

(* enable_provider finds every entry enabled already. *)
LEMMA EnableKept ==
    ASSUME ListInv, NEW name, EnableProvider(name)
    PROVE  list' = list
  <1>1. list \in Seq(Entries) /\ \A i \in DOMAIN list : list[i] \in Entries /\ list[i].enabled = TRUE
    BY DEF ListInv, Kept
  <1>2. ASSUME NEW i \in DOMAIN list
        PROVE  [list[i] EXCEPT !.enabled = TRUE] = list[i]
    BY <1>1 DEF Entries
  <1> QED
    BY <1>1, <1>2 DEF EnableProvider

LEMMA ClearKept ==
    ASSUME ListInv, ClearProviders
    PROVE  Kept(list', writes + 1, silenced') /\ Sorted(list')
  <1>1. list' = <<>> /\ DOMAIN list' = {}
    BY DEF ClearProviders
  <1>2. list' \in Seq(Entries)
    BY <1>1
  <1> QED
    BY <1>1, <1>2 DEF Kept, Sorted

LEMMA WriteKept ==
    ASSUME ListInv, Write
    PROVE  ListInv'
  <1>1. writes \in Nat /\ MaxWrites \in Nat /\ writes + 1 \in 0 .. MaxWrites /\ writes' = writes + 1
    BY ConstantsAssumption DEF ListInv, Write
  <1>2. Kept(list', writes + 1, silenced') /\ (Sorted(list') \/ list' = Initial)
    <2>0. ASSUME NEW p \in Providers, NEW priority \in Int, RegisterProvider(p, priority) PROVE <1>2
      BY <1>1, <2>0, RegisterKept
    <2>1. ASSUME NEW p \in Providers, NEW priority \in Priorities, RegisterWithPriority(p, priority)
          PROVE  <1>2
      BY <2>0, <2>1, ConstantsAssumption DEF RegisterWithPriority
    <2>a. ASSUME NEW p \in Providers, RegisterDefault(p) PROVE <1>2
      BY <2>0, <2>a DEF RegisterDefault, RegisterWithPriority
    <2>2. ASSUME NEW p \in Native, LoadNative(p) PROVE <1>2
      BY <2>0, <2>2 DEF LoadNative, Providers, PRIORITY_NATIVE
    <2>3. ASSUME NEW name \in Names, DisableProvider(name) PROVE <1>2
      BY <2>3, DisableKept
    <2>4. ASSUME NEW name \in Names, EnableProvider(name) PROVE <1>2
      <3>1. list' = list /\ silenced' = silenced
        BY <2>4, EnableKept DEF EnableProvider
      <3>2. Kept(list, writes + 1, silenced) /\ (Sorted(list) \/ list = Initial)
        BY <1>1, KeptOn DEF ListInv
      <3> QED
        BY <3>1, <3>2
    <2>5. ASSUME ClearProviders PROVE <1>2
      BY <2>5, ClearKept
    <2> QED
      BY <2>1, <2>a, <2>2, <2>3, <2>4, <2>5 DEF Write
  <1> QED
    BY <1>1, <1>2 DEF ListInv

LEMMA ListStep == ListInv /\ [Next]_vars => ListInv'
  <1> SUFFICES ASSUME ListInv, [Next]_vars PROVE ListInv'
    OBVIOUS
  <1>1. CASE Write
    BY <1>1, WriteKept
  <1>2. CASE UNCHANGED <<list, writes, silenced>>
    BY <1>2 DEF ListInv
  <1>3. ASSUME NEW th \in Threads, NEW req \in Requests, Begin(th, req)
        PROVE  UNCHANGED <<list, writes, silenced>>
    BY <1>3 DEF Begin
  <1>4. ASSUME NEW th \in Threads, Lookup(th)
        PROVE  UNCHANGED <<list, writes, silenced>>
    BY <1>4 DEF Lookup, TestProvider, GetKey, NotFound
  <1>5. ASSUME ChangeSource
        PROVE  UNCHANGED <<list, writes, silenced>>
    BY <1>5 DEF ChangeSource
  <1>6. CASE UNCHANGED vars
    BY <1>2, <1>6 DEF vars
  <1> QED
    BY <1>1, <1>2, <1>3, <1>4, <1>5, <1>6 DEF Next

LEMMA ListAlways == Spec => []ListInv
  BY ListInit, ListStep, PTL DEF Spec

(* One name stands for one provider, however often it is registered,        *)
(* disabled and loaded (register_provider_full's retain).                   *)
THEOREM NamesCorrect == Spec => []NamesUnique
  <1>1. ListInv => NamesUnique
    BY DEF ListInv, Kept, NamesUnique
  <1> QED
    BY <1>1, ListAlways, PTL

(* After the first registration the vector is by priority, and within one   *)
(* by age (register_provider_full's stable sort_by).                        *)
THEOREM OrderCorrect == Spec => []PriorityThenAge
  <1>1. ListInv => PriorityThenAge
    BY DEF ListInv, Sorted, PriorityThenAge
  <1> QED
    BY <1>1, ListAlways, PTL

-----------------------------------------------------------------------------
(* The lookups *)

LEMMA ListTyped ==
    ASSUME ListInv
    PROVE  /\ list \in Seq(Entries)
           /\ Len(list) \in Nat /\ DOMAIN list = 1 .. Len(list)
           /\ \A i \in DOMAIN list : list[i].p \in Providers /\ list[i].enabled = TRUE
  BY EntryFields DEF ListInv, Kept

(* What a scan knows, l where it is and able the providers in could: these  *)
(* are able to this moment, and it has not come past one of them.           *)
Sound(l, able) ==
    l # None =>
        /\ l.pos \in 1 .. Len(list) + 1
        /\ l.at = "get" => l.pos <= Len(list)
        /\ \A p \in able : Able(p, Source(p), l.req)
        /\ \A i \in DOMAIN list : i < l.pos => list[i].p \notin able

ScanInv ==
    /\ envKeys \in Seq(Keys) \cup {None}
    /\ fileKeys \in Seq(Keys) \cup {None}
    /\ scan \in [Threads -> Lookups \cup {None}]
    /\ answer \in [Threads -> Providers \cup {None}]
    /\ could \in [Threads -> SUBSET Providers]
    /\ \A th \in Threads : Sound(scan[th], could[th])
    /\ \A th \in Threads : scan[th] # None => answer[th] = None

LEMMA BeginSound ==
    ASSUME ListInv, NEW th \in Threads, NEW req \in Requests, Begin(th, req),
           scan \in [Threads -> Lookups \cup {None}],
           could \in [Threads -> SUBSET Providers]
    PROVE  /\ scan' \in [Threads -> Lookups \cup {None}]
           /\ could' \in [Threads -> SUBSET Providers]
           /\ Sound(scan'[th], could'[th])
           /\ \A t \in Threads \ {th} : scan'[t] = scan[t] /\ could'[t] = could[t]
  <1> DEFINE l == [req |-> req, pos |-> 1, at |-> "test"]
             able == {p \in {list[i].p : i \in DOMAIN list} : Able(p, Source(p), req)}
  <1>1. l \in Lookups /\ l.req = req /\ l.pos = 1 /\ l.at = "test"
    BY DEF Lookups
  <1>2. able \in SUBSET Providers
    BY ListTyped
  <1>3. \A p \in able : Able(p, Source(p), l.req)
    OBVIOUS
  <1>4. scan' = [scan EXCEPT ![th] = l] /\ could' = [could EXCEPT ![th] = able]
    BY DEF Begin
  <1> HIDE DEF l, able
  <1>5. scan'[th] = l /\ could'[th] = able
    BY <1>4
  <1>6. Sound(l, able)
    <2>1. \A i \in DOMAIN list : ~(i < 1)
      BY ListTyped
    <2> QED
      BY <1>1, <1>3, <2>1, ListTyped DEF Sound
  <1> QED
    BY <1>1, <1>2, <1>4, <1>5, <1>6

(* A step of a lookup ends it, takes it from the test to the get, or goes   *)
(* past a provider that is not able (at this moment).                       *)
LEMMA LookupSound ==
    ASSUME ListInv, NEW th \in Threads, Lookup(th),
           scan \in [Threads -> Lookups \cup {None}],
           answer \in [Threads -> Providers \cup {None}],
           Sound(scan[th], could[th])
    PROVE  /\ scan' \in [Threads -> Lookups \cup {None}]
           /\ answer' \in [Threads -> Providers \cup {None}]
           /\ could' = could
           /\ Sound(scan'[th], could[th])
           /\ \A t \in Threads \ {th} : scan'[t] = scan[t] /\ answer'[t] = answer[t]
           /\ scan'[th] # None => answer' = answer
           /\ scan'[th] = None =>
                 \/ scan[th].pos > Len(list) /\ answer' = answer
                 \/ scan[th].pos \in DOMAIN list /\ answer'[th] = list[scan[th].pos].p
  <1> DEFINE l == scan[th]
             e == list[l.pos]
  <1>1. l # None /\ l \in Lookups
    BY DEF Lookup, TestProvider, GetKey, NotFound, Scanning
  <1>2. l.pos \in Nat /\ l.at \in {"test", "get"} /\ l.pos \in 1 .. Len(list) + 1
    BY <1>1 DEF Lookups, Sound
  <1>3. ASSUME NEW pos \in Nat, NEW at \in {"test", "get"},
               scan' = [scan EXCEPT ![th] = [l EXCEPT !.pos = pos, !.at = at]],
               \/ pos = l.pos /\ pos <= Len(list)
               \/ pos = l.pos + 1 /\ at = "test" /\ pos <= Len(list) + 1 /\ e.p \notin could[th]
        PROVE  /\ scan' \in [Threads -> Lookups \cup {None}]
               /\ Sound(scan'[th], could[th])
               /\ scan'[th] # None
    <2> DEFINE n == [l EXCEPT !.pos = pos, !.at = at]
    <2>1. n \in Lookups /\ n.req = l.req /\ n.pos = pos /\ n.at = at /\ n # None
      <3>1. l \in Lookups /\ pos \in Nat /\ at \in {"test", "get"}
        BY <1>1
      <3>2. n = [l EXCEPT !.pos = pos, !.at = at]
        OBVIOUS
      <3> HIDE DEF l, n
      <3> QED
        BY <3>1, <3>2, ConstantsAssumption DEF Lookups
    <2> HIDE DEF n
    <2>2. scan' = [scan EXCEPT ![th] = n]
      BY <1>3 DEF n
    <2>3. scan'[th] = n /\ scan' \in [Threads -> Lookups \cup {None}]
      BY <2>1, <2>2
    <2>4. \A i \in DOMAIN list : i < pos => list[i].p \notin could[th]
      <3> SUFFICES ASSUME NEW i \in DOMAIN list, i < pos PROVE list[i].p \notin could[th]
        OBVIOUS
      <3>1. i \in Nat
        BY ListTyped
      <3>2. i < l.pos \/ (i = l.pos /\ pos = l.pos + 1)
        BY <1>2, <1>3, <3>1
      <3> QED
        BY <1>1, <1>3, <3>2 DEF Sound
    <2>5. Sound(n, could[th])
      BY <1>1, <1>2, <1>3, <2>1, <2>4, ListTyped DEF Sound
    <2> QED
      BY <2>1, <2>3, <2>5
  <1>4. CASE TestProvider(th)
    <2>1. /\ l.at = "test" /\ l.pos <= Len(list)
          /\ UNCHANGED <<answer, could>>
      BY <1>4 DEF TestProvider, Scanning
    <2>2. l.pos \in DOMAIN list /\ e.enabled = TRUE
      <3>1. l.pos \in DOMAIN list
        <4> HIDE DEF l
        <4> QED  BY <1>2, <2>1, ListTyped
      <3> QED
        BY <3>1, ListTyped
    <2>3. CASE Ready(e.p, Source(e.p)) /\ Matches(e.p, l.req)
      <3>1. scan' = [scan EXCEPT ![th].at = "get"]
        BY <1>4, <2>2, <2>3 DEF TestProvider
      <3>2. [l EXCEPT !.at = "get"] = [l EXCEPT !.pos = l.pos, !.at = "get"]
        BY <1>1 DEF Lookups
      <3>3. scan' = [scan EXCEPT ![th] = [l EXCEPT !.pos = l.pos, !.at = "get"]]
        BY <3>1, <3>2
      <3>4. scan' \in [Threads -> Lookups \cup {None}] /\ Sound(scan'[th], could[th]) /\ scan'[th] # None
        BY <1>2, <1>3, <2>1, <3>3
      <3> QED
        BY <2>1, <3>3, <3>4
    <2>4. CASE ~(Ready(e.p, Source(e.p)) /\ Matches(e.p, l.req))
      <3>1. scan' = [scan EXCEPT ![th] = [l EXCEPT !.pos = l.pos + 1, !.at = "test"]]
        BY <1>4, <2>2, <2>4 DEF TestProvider, NextEntry
      <3>2. e.p \notin could[th]
        BY <1>1, <2>4 DEF Sound, Able
      <3>3. scan' \in [Threads -> Lookups \cup {None}] /\ Sound(scan'[th], could[th]) /\ scan'[th] # None
        <4>1. l.pos + 1 \in Nat /\ l.pos + 1 <= Len(list) + 1
          BY <1>2, <2>1, ListTyped
        <4> QED
          BY <1>3, <3>1, <3>2, <4>1
      <3> QED
        BY <2>1, <3>1, <3>3
    <2> QED
      BY <2>3, <2>4
  <1>5. CASE GetKey(th)
    <2>1. l.pos <= Len(list) /\ could' = could
      BY <1>5 DEF GetKey, Scanning
    <2>2. l.pos \in DOMAIN list /\ e.p \in Providers
      <3>1. l.pos \in DOMAIN list
        <4> HIDE DEF l
        <4> QED  BY <1>2, <2>1, ListTyped
      <3> QED
        BY <3>1, ListTyped
    <2>3. CASE Gives(e.p, Source(e.p), l.req)
      <3>1. scan' = [scan EXCEPT ![th] = None] /\ answer' = [answer EXCEPT ![th] = e.p]
        BY <1>5, <2>3 DEF GetKey
      <3>2. scan'[th] = None /\ answer'[th] = e.p
        BY <3>1
      <3>3. answer' \in [Threads -> Providers \cup {None}]
        BY <2>2, <3>1
      <3>4. scan' \in [Threads -> Lookups \cup {None}]
        BY <3>1
      <3>5. \A t \in Threads \ {th} : scan'[t] = scan[t] /\ answer'[t] = answer[t]
        BY <3>1
      <3> QED
        BY <2>1, <2>2, <3>2, <3>3, <3>4, <3>5 DEF Sound
    <2>4. CASE ~Gives(e.p, Source(e.p), l.req)
      <3>1. scan' = [scan EXCEPT ![th] = [l EXCEPT !.pos = l.pos + 1, !.at = "test"]] /\ answer' = answer
        BY <1>5, <2>4 DEF GetKey, NextEntry
      <3>2. e.p \notin could[th]
        BY <1>1, <2>4 DEF Sound, Able
      <3>3. scan' \in [Threads -> Lookups \cup {None}] /\ Sound(scan'[th], could[th]) /\ scan'[th] # None
        <4>1. l.pos + 1 \in Nat /\ l.pos + 1 <= Len(list) + 1
          BY <1>2, <2>1, ListTyped
        <4> QED
          BY <1>3, <3>1, <3>2, <4>1
      <3> QED
        BY <2>1, <3>1, <3>3
    <2> QED
      BY <2>3, <2>4
  <1>6. CASE NotFound(th)
    BY <1>6 DEF NotFound, Sound
  <1> QED
    BY <1>4, <1>5, <1>6 DEF Lookup

(* A change of the variable or the file: who is no longer able leaves could. *)
LEMMA ChangeSound ==
    ASSUME ChangeSource, NEW th \in Threads, Sound(scan[th], could[th])
    PROVE  Sound(scan[th], could[th])'
  <1>1. scan' = scan /\ list' = list
    BY DEF ChangeSource
  <1>2. scan'[th] = scan[th]
    BY <1>1
  <1>3. CASE scan[th] = None
    BY <1>2, <1>3 DEF Sound
  <1>4. CASE scan[th] # None
    <2>1. PICK p \in {Env, File}, keys \in KeySets \cup {None} :
             /\ Changed(p, keys)
             /\ \A q : Source(q)' = IF q = p THEN keys ELSE Source(q)
      <3>1. ASSUME NEW keys \in KeySets \cup {None}, envKeys' = keys, Changed(Env, keys), fileKeys' = fileKeys
            PROVE  \A q : Source(q)' = IF q = Env THEN keys ELSE Source(q)
        BY <3>1 DEF Source, Env, File
      <3>2. ASSUME NEW keys \in KeySets \cup {None}, fileKeys' = keys, Changed(File, keys), envKeys' = envKeys
            PROVE  \A q : Source(q)' = IF q = File THEN keys ELSE Source(q)
        BY <3>2 DEF Source, Env, File
      <3> QED
        BY <3>1, <3>2 DEF ChangeSource
    <2>2. could'[th] = IF Able(p, keys, scan[th].req) THEN could[th] ELSE could[th] \ {p}
      BY <1>4, <2>1 DEF Changed
    <2>3. ASSUME NEW q \in could'[th]
          PROVE  Able(q, Source(q)', scan[th].req)
      <3>1. q \in could[th] /\ (q = p => Able(p, keys, scan[th].req))
        BY <2>2, <2>3
      <3>2. CASE q = p
        BY <2>1, <3>1, <3>2
      <3>3. CASE q # p
        BY <1>4, <2>1, <3>1, <3>3 DEF Sound
      <3> QED
        BY <3>2, <3>3
    <2>4. could'[th] \subseteq could[th]
      BY <2>2
    <2> QED
      BY <1>1, <1>2, <2>3, <2>4 DEF Sound
  <1> QED
    BY <1>3, <1>4

LEMMA ScanInit == Init => ScanInv
  BY ConstantsAssumption DEF Init, ScanInv, Sound

LEMMA ScanStep == ListInv /\ ScanInv /\ [Next]_vars => ScanInv'
  <1> SUFFICES ASSUME ListInv, ScanInv, [Next]_vars PROVE ScanInv'
    OBVIOUS
  <1>0. /\ envKeys \in Seq(Keys) \cup {None}
        /\ fileKeys \in Seq(Keys) \cup {None}
        /\ scan \in [Threads -> Lookups \cup {None}]
        /\ answer \in [Threads -> Providers \cup {None}]
        /\ could \in [Threads -> SUBSET Providers]
        /\ \A th \in Threads : Sound(scan[th], could[th])
        /\ \A th \in Threads : scan[th] # None => answer[th] = None
    BY DEF ScanInv
  <1>1. CASE Write
    <2>1. \A th \in Threads : scan'[th] = None
      BY <1>1 DEF Write, Unread
    <2> QED
      BY <1>0, <1>1, <2>1 DEF Write, ScanInv, Sound
  <1>2. ASSUME NEW th \in Threads, NEW req \in Requests, Begin(th, req)
        PROVE  ScanInv'
    <2>1. /\ UNCHANGED <<list, envKeys, fileKeys>>
          /\ answer' \in [Threads -> Providers \cup {None}]
          /\ answer'[th] = None /\ \A t \in Threads \ {th} : answer'[t] = answer[t]
      BY <1>0, <1>2 DEF Begin
    <2>2. \A p : Source(p)' = Source(p)
      BY <2>1 DEF Source
    <2>3. /\ scan' \in [Threads -> Lookups \cup {None}]
          /\ could' \in [Threads -> SUBSET Providers]
          /\ Sound(scan'[th], could'[th])
          /\ \A t \in Threads \ {th} : scan'[t] = scan[t] /\ could'[t] = could[t]
      BY <1>0, <1>2, BeginSound
    <2>4. \A t \in Threads : Sound(scan'[t], could'[t])
      BY <1>0, <2>3
    <2>5. \A t \in Threads : Sound(scan[t], could[t])'
      BY <2>1, <2>2, <2>4 DEF Sound
    <2> QED
      BY <1>0, <2>1, <2>3, <2>5 DEF ScanInv
  <1>3. ASSUME NEW th \in Threads, Lookup(th)
        PROVE  ScanInv'
    <2>1. UNCHANGED <<list, envKeys, fileKeys>>
      BY <1>3 DEF Lookup, TestProvider, GetKey, NotFound
    <2>2. \A p : Source(p)' = Source(p)
      BY <2>1 DEF Source
    <2>3. /\ scan' \in [Threads -> Lookups \cup {None}]
          /\ answer' \in [Threads -> Providers \cup {None}]
          /\ could' = could
          /\ Sound(scan'[th], could[th])
          /\ \A t \in Threads \ {th} : scan'[t] = scan[t] /\ answer'[t] = answer[t]
          /\ scan'[th] # None => answer' = answer
      BY <1>0, <1>3, LookupSound
    <2>a. \A t \in Threads : scan'[t] # None => answer'[t] = None
      <3>1. scan[th] # None
        BY <1>3 DEF Lookup, TestProvider, GetKey, NotFound, Scanning
      <3> QED
        BY <1>0, <2>3, <3>1
    <2>4. \A t \in Threads : Sound(scan'[t], could'[t])
      BY <1>0, <2>3
    <2>5. \A t \in Threads : Sound(scan[t], could[t])'
      BY <2>1, <2>2, <2>4 DEF Sound
    <2> QED
      BY <1>0, <2>1, <2>3, <2>a, <2>5 DEF ScanInv
  <1>4. CASE ChangeSource
    <2>1. scan' = scan /\ answer' = answer
      BY <1>4 DEF ChangeSource
    <2>2. /\ envKeys' \in Seq(Keys) \cup {None}
          /\ fileKeys' \in Seq(Keys) \cup {None}
      BY <1>0, <1>4, ConstantsAssumption DEF ChangeSource
    <2>3. could' \in [Threads -> SUBSET Providers]
      BY <1>0, <1>4 DEF ChangeSource, Changed
    <2>4. \A t \in Threads : Sound(scan[t], could[t])'
      BY <1>0, <1>4, ChangeSound
    <2> QED
      BY <1>0, <2>1, <2>2, <2>3, <2>4 DEF ScanInv
  <1>5. CASE UNCHANGED vars
    <2>1. UNCHANGED <<list, envKeys, fileKeys, scan, answer, could>>
      BY <1>5 DEF vars
    <2>2. \A p : Source(p)' = Source(p)
      BY <2>1 DEF Source
    <2>3. \A t \in Threads : Sound(scan[t], could[t])'
      BY <1>0, <2>1, <2>2 DEF Sound
    <2> QED
      BY <1>0, <2>1, <2>3 DEF ScanInv
  <1> QED
    BY <1>1, <1>2, <1>3, <1>4, <1>5 DEF Next

LEMMA Always == Spec => [](ListInv /\ ScanInv)
  <1>1. Init => ListInv /\ ScanInv
    BY ListInit, ScanInit
  <1>2. ListInv /\ ScanInv /\ [Next]_vars => (ListInv /\ ScanInv)'
    BY ListStep, ScanStep
  <1> QED
    BY <1>1, <1>2, PTL DEF Spec

(* The registry is well typed: a scan stays within the vector, which no     *)
(* writer changes under it.                                                 *)
THEOREM TypeCorrect == Spec => []TypeOK
  <1>1. ListInv /\ ScanInv => TypeOK
    <2> SUFFICES ASSUME ListInv, ScanInv PROVE TypeOK
      OBVIOUS
    <2>1. ASSUME NEW th \in Threads, scan[th] # None
          PROVE  scan[th] \in [req : Requests, pos : 1 .. Len(list) + 1, at : {"test", "get"}]
      <3>1. scan[th] \in Lookups /\ scan[th].pos \in 1 .. Len(list) + 1
        BY <2>1 DEF ScanInv, Sound
      <3> QED
        BY <3>1 DEF Lookups
    <2> QED
      BY <2>1, ListTyped DEF ListInv, ScanInv, TypeOK
  <1> QED
    BY <1>1, Always, PTL

(* The step that returns, at whatever moment of whatever changes of the     *)
(* variable and the file.                                                   *)
LEMMA ReturnStep ==
    ASSUME ListInv, ScanInv, [Next]_vars, NEW th \in Threads, Returns(th)
    PROVE  /\ \A i \in DOMAIN list : list[i].p \in could[th] =>
                 /\ answer'[th] # None
                 /\ \E j \in 1 .. i : list[j].p = answer'[th]
           /\ answer'[th] # None => \E j \in DOMAIN list : list[j].p = answer'[th]
  <1>1. scan[th] # None /\ scan'[th] = None
    BY DEF Returns
  <1>2. scan[th] \in Lookups /\ answer \in [Threads -> Providers \cup {None}]
    BY <1>1 DEF ScanInv
  <1>3. Sound(scan[th], could[th])
    BY DEF ScanInv
  <1>4. \A i \in DOMAIN list : i < scan[th].pos => list[i].p \notin could[th]
    BY <1>1, <1>3 DEF Sound
  <1>5. Lookup(th)
    <2>1. ~Write /\ ~ChangeSource /\ ~UNCHANGED vars
      BY <1>1 DEF Write, ChangeSource, vars
    <2>2. ASSUME NEW t \in Threads, NEW req \in Requests PROVE ~Begin(t, req)
      <3> SUFFICES ASSUME Begin(t, req) PROVE FALSE
        OBVIOUS
      <3>1. scan' \in [Threads -> Lookups \cup {None}] /\ \A u \in Threads \ {t} : scan'[u] = scan[u]
        BY BeginSound DEF ScanInv
      <3>2. t = th
        BY <1>1, <3>1
      <3> QED
        BY <1>1, <3>2 DEF Begin
    <2>3. PICK t \in Threads : Lookup(t)
      BY <2>1, <2>2 DEF Next
    <2>4. \A u \in Threads \ {t} : scan'[u] = scan[u]
      BY <2>3, LookupSound DEF ScanInv
    <2> QED
      BY <1>1, <2>3, <2>4
  <1>6. scan[th].pos \in Nat /\ Len(list) \in Nat /\ DOMAIN list = 1 .. Len(list)
    BY <1>2, ListTyped DEF Lookups
  <1>7. \/ scan[th].pos > Len(list) /\ answer' = answer
        \/ scan[th].pos \in DOMAIN list /\ answer'[th] = list[scan[th].pos].p
    BY <1>1, <1>5, LookupSound DEF ScanInv
  <1>8. CASE scan[th].pos > Len(list) /\ answer' = answer
    <2>1. answer'[th] = None
      BY <1>1, <1>8 DEF ScanInv
    <2>2. \A i \in DOMAIN list : list[i].p \notin could[th]
      BY <1>4, <1>6, <1>8
    <2> QED
      BY <2>1, <2>2
  <1>9. CASE scan[th].pos \in DOMAIN list /\ answer'[th] = list[scan[th].pos].p
    <2>1. answer'[th] # None
      BY <1>9, ListTyped, ConstantsAssumption
    <2>2. ASSUME NEW i \in DOMAIN list, list[i].p \in could[th]
          PROVE  scan[th].pos \in 1 .. i
      <3>1. ~(i < scan[th].pos)
        BY <1>4, <2>2
      <3> QED
        BY <1>6, <1>9, <3>1
    <2> QED
      BY <1>9, <2>1, <2>2
  <1> QED
    BY <1>7, <1>8, <1>9

(* A lookup passes over no provider that could have answered it all along,  *)
(* whatever the variable and the key file did meanwhile (the loops of       *)
(* get_master_key, get_verify_key and get_signing_key).                     *)
THEOREM FirstAbleCorrect == Spec => FirstAbleAnswers
  <1>1. ListInv /\ ScanInv /\ [Next]_vars =>
           [\A th \in Threads : Returns(th) =>
              \A i \in DOMAIN list : list[i].p \in could[th] =>
                  /\ answer'[th] # None
                  /\ \E j \in 1 .. i : list[j].p = answer'[th]]_vars
    BY ReturnStep
  <1> QED
    BY <1>1, Always, PTL DEF Spec, FirstAbleAnswers

(* What disable_provider or clear_providers took out of the vector answers  *)
(* no lookup until its name is registered or loaded again.                  *)
THEOREM SilenceCorrect == Spec => DisabledAreSilent
  <1>1. ASSUME ListInv, ScanInv, [Next]_vars, NEW th \in Threads, Returns(th), answer'[th] # None
        PROVE  Name(answer'[th]) \notin silenced
    <2>1. PICK j \in DOMAIN list : list[j].p = answer'[th]
      BY <1>1, ReturnStep
    <2> QED
      BY <1>1, <2>1 DEF ListInv, Kept
  <1>2. ListInv /\ ScanInv /\ [Next]_vars =>
           [\A th \in Threads : Returns(th) /\ answer'[th] # None =>
              Name(answer'[th]) \notin silenced]_vars
    BY <1>1
  <1> QED
    BY <1>2, Always, PTL DEF Spec, DisabledAreSilent

=============================================================================
