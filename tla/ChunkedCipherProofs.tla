------------------------ MODULE ChunkedCipherProofs ------------------------
(***************************************************************************)
(* What ChunkedCipher guarantees for every tensor length, every chunk size *)
(* and every width of the IV counter.                                      *)
(***************************************************************************)
EXTENDS ChunkedCipher, TLAPS

-----------------------------------------------------------------------------
(* Arithmetic of the chunks *)

(* What the quotient of two numbers is *)
LEMMA Quotient ==
    ASSUME NEW x \in Nat, NEW c \in Nat \ {0}
    PROVE  /\ x \div c \in Nat
           /\ (x \div c) * c <= x
           /\ x < (x \div c) * c + c
<1>1. x = c * (x \div c) + (x % c) /\ x % c \in 0 .. (c - 1)
  BY Z3
<1>2. x \div c \in Nat
  BY Z3
<1>3. QED
  BY <1>1, <1>2, Z3

LEMMA Multiples ==
    ASSUME NEW i \in Nat, NEW j \in Nat, NEW c \in Nat \ {0}, i < j
    PROVE  i * c + c <= j * c
<1>1. PICK d \in Nat : j = i + 1 + d
  <2>1. j - i - 1 \in Nat /\ j = i + 1 + (j - i - 1)
    OBVIOUS
  <2>2. QED
    BY <2>1
<1>2. j * c = i * c + c + d * c
  BY <1>1, Z3
<1>3. d * c \in Nat
  BY Z3
<1>4. i * c \in Nat /\ j * c \in Nat
  BY Z3
<1>5. QED
  BY <1>2, <1>3, <1>4

(* A tensor has at least one chunk, even when it has no bytes. *)
LEMMA ChunkCountType ==
    ASSUME NEW n \in Nat, NEW c \in Nat \ {0}
    PROVE  /\ ChunkCount(n, c) \in Nat \ {0}
           /\ n = 0 => ChunkCount(n, c) = 1
           /\ \A b \in 0 .. (n - 1) : b \div c <= ChunkCount(n, c) - 1
<1>1. CASE n = 0
  BY <1>1 DEF ChunkCount
<1>2. CASE n # 0
  <2> DEFINE q == (n + c - 1) \div c
  <2>1. n + c - 1 \in Nat
    BY <1>2
  <2>2. q \in Nat /\ q * c <= n + c - 1 /\ n + c - 1 < q * c + c
    BY <2>1, Quotient
  <2>3. ChunkCount(n, c) = q
    BY <1>2 DEF ChunkCount
  <2> HIDE DEF q
  <2>4. q # 0
    <3>1. SUFFICES ASSUME q = 0 PROVE FALSE
      OBVIOUS
    <3>2. q * c = 0
      BY <3>1
    <3>3. QED
      BY <1>2, <2>2, <3>2
  <2>5. ASSUME NEW b \in 0 .. (n - 1) PROVE b \div c <= q - 1
    <3>1. b \div c \in Nat /\ (b \div c) * c <= b
      BY Quotient
    <3>2. SUFFICES ASSUME q <= b \div c PROVE FALSE
      BY <2>2, <3>1
    <3>3. q * c <= (b \div c) * c
      <4> DEFINE p == b \div c
      <4>1. p \in Nat /\ q <= p
        BY <3>1, <3>2
      <4> HIDE DEF p
      <4>2. CASE q = p
        BY <4>1, <4>2, <2>2 DEF p
      <4>3. CASE q < p
        <5>1. q * c + c <= p * c
          BY <4>1, <4>3, <2>2, Multiples
        <5>2. q * c \in Nat /\ p * c \in Nat
          BY <4>1, <2>2, Z3
        <5>3. QED
          BY <5>1, <5>2 DEF p
      <4>4. QED
        BY <4>1, <4>2, <4>3, <2>2
    <3>4. q * c \in Nat /\ (b \div c) * c \in Nat
      BY <2>2, <3>1, Z3
    <3>5. QED
      BY <2>2, <3>1, <3>3, <3>4
  <2>6. QED
    BY <1>2, <2>2, <2>3, <2>4, <2>5
<1>3. QED
  BY <1>1, <1>2

-----------------------------------------------------------------------------
(* Every byte of the tensor lies in one chunk, the quotient of its position *)
(* by the chunk size, and in no other.                                      *)
LEMMA PartitionLemma ==
    ASSUME len \in Nat, size = None \/ size \in Nat \ {0}
    PROVE  ChunksPartition
<1> SUFFICES ASSUME NEW b \in 0 .. (len - 1)
             PROVE  \E i \in Indices : /\ From(i) <= b /\ b < To(i)
                                       /\ \A j \in Indices : From(j) <= b /\ b < To(j) => j = i
  BY DEF ChunksPartition
<1>1. CASE size = None
  BY <1>1 DEF Indices, From, To
<1>2. CASE size # None
  <2> DEFINE i == b \div size
  <2>0. b \in Nat /\ b < len /\ size \in Nat \ {0}
    BY <1>2
  <2>1. i \in Nat /\ i * size <= b /\ b < i * size + size
    BY <2>0, Quotient
  <2>2. i \in Indices
    <3>1. i <= ChunkCount(len, size) - 1 /\ ChunkCount(len, size) \in Nat
      BY <2>0, ChunkCountType
    <3>2. i \in 0 .. (ChunkCount(len, size) - 1)
      BY <2>1, <3>1
    <3>3. QED
      BY <1>2, <3>2 DEF Indices
  <2> HIDE DEF i
  <2>3. ASSUME NEW j \in Nat PROVE (j + 1) * size = j * size + size /\ j * size \in Nat
    BY <2>0, Z3
  <2>4. From(i) <= b /\ b < To(i)
    <3>1. From(i) = i * size /\ To(i) \in {len, (i + 1) * size}
      BY <1>2 DEF From, To
    <3>2. (i + 1) * size = i * size + size /\ i * size \in Nat
      BY <2>1, <2>3
    <3>3. QED
      BY <2>0, <2>1, <3>1, <3>2
  <2>5. ASSUME NEW j \in Indices, From(j) <= b, b < To(j) PROVE j = i
    <3>1. j \in Nat
      <4>1. Indices = 0 .. (ChunkCount(len, size) - 1) /\ ChunkCount(len, size) \in Nat
        BY <1>2, <2>0, ChunkCountType DEF Indices
      <4>2. QED
        BY <4>1
    <3>2. From(j) = j * size /\ (To(j) = (j + 1) * size \/ (To(j) = len /\ len < (j + 1) * size))
      <4>1. CASE len < (j + 1) * size
        BY <1>2, <4>1, Zenon DEF From, To
      <4>2. CASE ~(len < (j + 1) * size)
        BY <1>2, <4>2, Zenon DEF From, To
      <4>3. QED
        BY <4>1, <4>2
    <3>3. (j + 1) * size = j * size + size /\ j * size \in Nat /\ i * size \in Nat
      BY <2>1, <2>3, <3>1
    <3>4. j * size <= b /\ b < j * size + size
      BY <2>0, <2>5, <3>2, <3>3
    <3>5. ~(i < j)
      <4>1. i < j => i * size + size <= j * size
        BY <2>0, <2>1, <3>1, Multiples
      <4>2. QED
        BY <2>0, <2>1, <3>3, <3>4, <4>1
    <3>6. ~(j < i)
      <4>1. j < i => j * size + size <= i * size
        BY <2>0, <2>1, <3>1, Multiples
      <4>2. QED
        BY <2>0, <2>1, <3>3, <3>4, <4>1
    <3>7. QED
      BY <2>1, <3>1, <3>5, <3>6
  <2>6. QED
    BY <2>2, <2>4, <2>5
<1>3. QED
  BY <1>1, <1>2

-----------------------------------------------------------------------------
(* The invariant: what is sealed is sealed by the book, the header and the  *)
(* file hold that, and what is opened is what its tag was made for.         *)

Stored == phase \in {"stored", "reading", "read", "error"}

SealedByIndex ==
    \A i \in DOMAIN sealed : sealed[i] = Seal(i) /\ Iv(i) # None

Refusals ==
    /\ refused => \E i \in Indices : Iv(i) = None
    /\ phase = "refused" => refused

StoredAsSealed ==
    Stored => DOMAIN sealed = Indices /\ DOMAIN disk = Indices /\ tags = sealed

OpenedAsSealed ==
    /\ ~Stored \/ phase = "stored" => DOMAIN opened = {}
    /\ \A i \in DOMAIN opened : opened[i] = sealed[i]
    /\ phase = "read" => DOMAIN opened = Indices

CipherInv ==
    /\ TypeOK
    /\ SealedByIndex
    /\ Refusals
    /\ StoredAsSealed
    /\ OpenedAsSealed
    /\ StoredOpens

(* The parameters of a tensor are numbers, or no chunk size at all. *)
LEMMA Parameters ==
    ASSUME TypeOK
    PROVE  /\ len \in Nat /\ base \in Nat /\ base <= CounterMax /\ CounterMax \in Nat
           /\ size = None \/ size \in Nat \ {0}
           /\ Indices \subseteq Nat
BY ChunkAssumption, ChunkCountType DEF TypeOK, Indices

(* An IV that can be derived is the base counter and the index added. *)
LEMMA IvValue ==
    ASSUME TypeOK, NEW i \in Indices, Iv(i) # None
    PROVE  Iv(i) = base + i
<1>1. size = None \/ len = 0 => i = 0
  <2>1. CASE size = None
    BY <2>1 DEF Indices
  <2>2. CASE size # None /\ len = 0
    <3>1. ChunkCount(len, size) = 1
      BY <2>2 DEF ChunkCount
    <3>2. QED
      BY <2>2, <3>1 DEF Indices
  <2>3. QED
    BY <2>1, <2>2
<1>2. QED
  BY <1>1, Parameters DEF Iv, DeriveIv

(* One that cannot does not fit above the base counter. *)
LEMMA IvOverflow ==
    ASSUME TypeOK, NEW i \in Indices, Iv(i) = None
    PROVE  base + ChunkCount(len, size) - 1 > CounterMax
<1>1. None \notin Nat
  BY ChunkAssumption
<1>2. size # None /\ len # 0
  BY <1>1, Parameters DEF Iv
<1>3. base + i > CounterMax
  BY <1>1, <1>2, Parameters DEF Iv, DeriveIv
<1>4. i \in Nat /\ i <= ChunkCount(len, size) - 1 /\ ChunkCount(len, size) \in Nat
  <2>1. Indices = 0 .. ChunkCount(len, size) - 1
    BY <1>2 DEF Indices
  <2>2. ChunkCount(len, size) \in Nat
    BY <1>2, Parameters, ChunkCountType
  <2>3. QED
    BY <2>1, <2>2
<1>5. base \in Nat /\ CounterMax \in Nat
  BY Parameters, ChunkAssumption
<1>6. QED
  BY <1>3, <1>4, <1>5

LEMMA CipherInit == Init => CipherInv
<1> SUFFICES ASSUME Init PROVE CipherInv
  OBVIOUS
<1>1. DOMAIN sealed = {} /\ DOMAIN opened = {}
  BY DEF Init
<1>2. QED
  BY <1>1 DEF Init, CipherInv, TypeOK, SealedByIndex, Refusals, StoredAsSealed, Stored,
              OpenedAsSealed, StoredOpens

LEMMA CipherStep ==
    ASSUME CipherInv, [Next]_vars
    PROVE  CipherInv'
<1> USE DEF CipherInv
<1>1. ASSUME NEW i \in Chunks, SealChunk(i) PROVE CipherInv'
  <2>1. /\ phase = "sealing" /\ i \in Indices /\ Iv(i) # None
        /\ sealed' = [k \in DOMAIN sealed \cup {i} |-> IF k = i THEN Seal(i) ELSE sealed[k]]
        /\ UNCHANGED <<len, size, base, refused, tags, disk, opened, phase>>
    BY <1>1 DEF SealChunk
  <2>2. \A k : Seal(k)' = Seal(k) /\ Iv(k)' = Iv(k)
    BY <2>1 DEF Seal, Iv, From, To
  <2>3. Indices' = Indices
    BY <2>1 DEF Indices
  <2>4. TypeOK'
    BY <2>1, <2>3 DEF TypeOK
  <2>5. SealedByIndex'
    BY <2>1, <2>2 DEF SealedByIndex
  <2>6. \A k \in DOMAIN opened : FALSE
    BY <2>1 DEF OpenedAsSealed, Stored
  <2>7. Refusals' /\ StoredAsSealed' /\ OpenedAsSealed' /\ StoredOpens'
    BY <2>1, <2>2, <2>3, <2>6 DEF Refusals, StoredAsSealed, Stored, OpenedAsSealed, StoredOpens
  <2>8. QED
    BY <2>4, <2>5, <2>7
<1>2. ASSUME NEW i \in Chunks, RefuseChunk(i) PROVE CipherInv'
  <2>1. /\ phase = "sealing" /\ i \in Indices /\ Iv(i) = None /\ refused'
        /\ UNCHANGED <<len, size, base, sealed, tags, disk, opened, phase>>
    BY <1>2 DEF RefuseChunk
  <2>2. refused' \in BOOLEAN
    BY <1>2 DEF RefuseChunk
  <2>3. \A k : Seal(k)' = Seal(k) /\ Iv(k)' = Iv(k)
    BY <2>1 DEF Seal, Iv, From, To
  <2>4. Indices' = Indices
    BY <2>1 DEF Indices
  <2>5. QED
    BY <2>1, <2>2, <2>3, <2>4 DEF TypeOK, SealedByIndex, Refusals, StoredAsSealed, Stored,
                            OpenedAsSealed, StoredOpens
<1>3. ASSUME NEW i \in Chunks, OpenChunk(i) PROVE CipherInv'
  <2>1. /\ phase = "reading" /\ i \in Indices /\ Opens(i)
        /\ opened' = [k \in DOMAIN opened \cup {i} |-> IF k = i THEN disk[i] ELSE opened[k]]
        /\ UNCHANGED <<len, size, base, sealed, refused, tags, disk, phase>>
    BY <1>3 DEF OpenChunk
  <2>2. disk[i] = sealed[i]
    BY <2>1 DEF Opens, StoredAsSealed, Stored
  <2>3. \A k : Seal(k)' = Seal(k) /\ Iv(k)' = Iv(k)
    BY <2>1 DEF Seal, Iv, From, To
  <2>4. Indices' = Indices
    BY <2>1 DEF Indices
  <2>5. TypeOK' /\ SealedByIndex' /\ Refusals'
    BY <2>1, <2>3, <2>4 DEF TypeOK, SealedByIndex, Refusals
  <2>6. OpenedAsSealed'
    BY <2>1, <2>2 DEF OpenedAsSealed, Stored
  <2>7. StoredAsSealed' /\ StoredOpens'
    BY <2>1, <2>4 DEF StoredAsSealed, Stored, StoredOpens
  <2>8. QED
    BY <2>5, <2>6, <2>7
<1>4. ASSUME NEW i \in Chunks, OpenFails(i) PROVE CipherInv'
  <2>1. /\ phase = "reading" /\ i \in Indices /\ ~Opens(i) /\ phase' = "error"
        /\ UNCHANGED <<len, size, base, sealed, refused, tags, disk, opened>>
    BY <1>4 DEF OpenFails
  <2>2. disk # sealed
    <3>1. SUFFICES ASSUME disk = sealed PROVE Opens(i)
      BY <2>1
    <3>2. i \in DOMAIN tags /\ disk[i] = tags[i] /\ disk[i] = Seal(i) /\ Iv(i) # None
      BY <2>1, <3>1 DEF StoredAsSealed, Stored, SealedByIndex
    <3>3. disk[i] = Unsealed \/ disk[i].iv = Iv(i)
      BY <3>2 DEF Seal
    <3>4. QED
      BY <3>2, <3>3 DEF Opens
  <2>3. \A k : Seal(k)' = Seal(k) /\ Iv(k)' = Iv(k)
    BY <2>1 DEF Seal, Iv, From, To
  <2>4. Indices' = Indices
    BY <2>1 DEF Indices
  <2>5. TypeOK' /\ SealedByIndex' /\ Refusals'
    BY <2>1, <2>3, <2>4 DEF TypeOK, SealedByIndex, Refusals
  <2>6. StoredAsSealed' /\ OpenedAsSealed' /\ StoredOpens'
    BY <2>1, <2>2, <2>4 DEF StoredAsSealed, Stored, OpenedAsSealed, StoredOpens
  <2>7. QED
    BY <2>5, <2>6
<1>5. CASE Damage
  <2>1. /\ phase = "stored" /\ UNCHANGED <<len, size, base, sealed, refused, tags, opened, phase>>
    BY <1>5 DEF Damage
  <2>2. DOMAIN disk' = DOMAIN disk
    BY <1>5 DEF Damage
  <2>3. \A k : Seal(k)' = Seal(k) /\ Iv(k)' = Iv(k)
    BY <2>1 DEF Seal, Iv, From, To
  <2>4. Indices' = Indices
    BY <2>1 DEF Indices
  <2>5. QED
    BY <2>1, <2>2, <2>3, <2>4 DEF TypeOK, SealedByIndex, Refusals, StoredAsSealed, Stored,
                            OpenedAsSealed, StoredOpens
<1>6. CASE CollectError \/ Collect \/ Open \/ Publish \/ UNCHANGED vars
  <2>1. UNCHANGED <<len, size, base, sealed, refused, opened>>
    BY <1>6 DEF CollectError, Collect, Open, Publish, vars
  <2>2. \A k : Seal(k)' = Seal(k) /\ Iv(k)' = Iv(k)
    BY <2>1 DEF Seal, Iv, From, To
  <2>3. Indices' = Indices
    BY <2>1 DEF Indices
  <2>4. TypeOK'
    BY <1>6, <2>1, <2>3 DEF TypeOK, CollectError, Collect, Open, Publish, vars
  <2>5. SealedByIndex'
    BY <2>1, <2>2 DEF SealedByIndex
  <2>6. Refusals'
    BY <1>6, <2>1, <2>2, <2>3 DEF Refusals, CollectError, Collect, Open, Publish, vars
  <2>7. StoredAsSealed'
    BY <1>6, <2>1, <2>3 DEF StoredAsSealed, Stored, CollectError, Collect, Open, Publish, vars
  <2>8. OpenedAsSealed'
    BY <1>6, <2>1, <2>3 DEF OpenedAsSealed, Stored, CollectError, Collect, Open, Publish, vars
  <2>9. StoredOpens'
    BY <1>6, <2>1 DEF StoredOpens, CollectError, Collect, Open, Publish, vars
  <2>10. QED
    BY <2>4, <2>5, <2>6, <2>7, <2>8, <2>9
<1>7. QED
  BY <1>1, <1>2, <1>3, <1>4, <1>5, <1>6 DEF Next

LEMMA CipherAlways == Spec => []CipherInv
<1>1. QED
  BY CipherInit, CipherStep, PTL DEF Spec

-----------------------------------------------------------------------------
(* Every state of a save and a read is one the code can have. *)
THEOREM TypeCorrect == Spec => []TypeOK
<1>1. CipherInv => TypeOK
  BY DEF CipherInv
<1>2. QED
  BY <1>1, CipherAlways, PTL

(* derive_chunk_iv gives no two chunks of a tensor one IV, wherever the     *)
(* random base counter lies and however many chunks there are.              *)
THEOREM IvsUnique == Spec => []NoIvTwice
<1>1. CipherInv => NoIvTwice
  <2> SUFFICES ASSUME CipherInv, NEW i \in DOMAIN sealed, NEW j \in DOMAIN sealed,
                      sealed[i].iv = sealed[j].iv
               PROVE  i = j
    BY DEF NoIvTwice
  <2>1. i \in Indices /\ j \in Indices /\ Iv(i) # None /\ Iv(j) # None
    BY DEF CipherInv, TypeOK, SealedByIndex
  <2>2. CASE size = None
    BY <2>1, <2>2 DEF Indices
  <2>3. CASE size # None
    <3>1. sealed[i].iv = Iv(i) /\ sealed[j].iv = Iv(j)
      BY <2>3 DEF CipherInv, SealedByIndex, Seal
    <3>2. Iv(i) = base + i /\ Iv(j) = base + j
      BY <2>1, IvValue DEF CipherInv
    <3>3. i \in Nat /\ j \in Nat /\ base \in Nat
      BY <2>1, Parameters DEF CipherInv
    <3>4. base + i = base + j
      BY <3>1, <3>2
    <3>5. QED
      BY <3>3, <3>4
  <2>4. QED
    BY <2>2, <2>3
<1>2. QED
  BY <1>1, CipherAlways, PTL

(* The chunks cover every byte of the tensor once, for every length and     *)
(* every chunk size.                                                        *)
THEOREM PartitionCorrect == Spec => []ChunksPartition
<1>1. CipherInv => ChunksPartition
  BY Parameters, PartitionLemma DEF CipherInv
<1>2. QED
  BY <1>1, CipherAlways, PTL

LEMMA ReadLemma == CipherInv => ReadIsWritten /\ StoredOpens
<1> SUFFICES ASSUME CipherInv, phase = "read", NEW i \in Indices
             PROVE  opened[i].from = From(i) /\ opened[i].to = To(i)
  BY DEF CipherInv, ReadIsWritten
<1>1. opened[i] = Seal(i)
  BY DEF CipherInv, OpenedAsSealed, StoredAsSealed, Stored, SealedByIndex
<1>2. CASE size = None /\ len = 0
  BY <1>1, <1>2 DEF Seal, Unsealed, From, To
<1>3. CASE ~(size = None /\ len = 0)
  BY <1>1, <1>3 DEF Seal
<1>4. QED
  BY <1>2, <1>3

(* A reader gets at every byte what the writer put there or an error.       *)
THEOREM ReadCorrect == Spec => []ReadIsWritten
BY CipherAlways, ReadLemma, PTL

(* The error comes only when the stored bytes are no longer the writer's.   *)
THEOREM StoredCorrect == Spec => []StoredOpens
BY CipherAlways, ReadLemma, PTL

(* A save is refused only when the counter would run over.                  *)
THEOREM RefusalCorrect == Spec => []RefusedOnlyOnOverflow
<1>1. CipherInv => RefusedOnlyOnOverflow
  BY IvOverflow DEF CipherInv, Refusals, RefusedOnlyOnOverflow
<1>2. QED
  BY <1>1, CipherAlways, PTL
=============================================================================
