---------------------------- MODULE ChunkedCipher ----------------------------
(**************************************************************************)
(* The bytes of one tensor under its data encryption key: encrypt cuts    *)
(* them into chunks, seals the chunks in parallel and collects their      *)
(* tags; perform_decryption and decrypt_from_file open them again with    *)
(* the tags and the base IV of the header.                                *)
(*                                                                        *)
(* An IV is its 32-bit counter: the eight bytes before it are the same    *)
(* for every chunk.  A sealed chunk, and its tag, is the record of what   *)
(* was sealed with which IV: opening it with any other IV or tag, or      *)
(* other bytes than those, fails.  Version 1 files have one chunk with an *)
(* IV of its own and no counter.                                          *)
(**************************************************************************)
EXTENDS Naturals, FiniteSets, Sequences

CONSTANTS
    None,
    Lengths,        \* tensor lengths in bytes
    ChunkSizes,     \* chunk_size of the configurations; None for version 1
    CounterMax      \* the greatest u32

ASSUME ChunkAssumption ==
    /\ Lengths \subseteq Nat
    /\ ChunkSizes \subseteq (Nat \ {0}) \cup {None}
    /\ None \notin Nat
    /\ CounterMax \in Nat

VARIABLES
    len,        \* the tensor's length
    size,       \* CryptoTensors::chunk_size: writer's, and from the header
    base,       \* the counter of the random base IV
    sealed,     \* what the closure has sealed, by chunk index
    refused,    \* an IV could not be derived
    tags,       \* the tags in the header, once encrypt has set them
    disk,       \* the sealed chunks in the file
    opened,     \* what the reader's buffer holds, by chunk index
    phase       \* "sealing", "refused", "stored", "reading", "read" or "error"

vars == <<len, size, base, sealed, refused, tags, disk, opened, phase>>

------------------------------------------------------------------------------

(* Mutant: the division rounds down.                                       *)
ChunkCountFloor(n, c) == IF n < c THEN 1 ELSE n \div c

(* buffer.len().div_ceil(c_size), and 1 for an empty tensor                *)
ChunkCount(n, c) == IF n = 0 THEN 1 ELSE (n + c - 1) \div c

Indices == IF size = None THEN {0} ELSE 0..(ChunkCount(len, size) - 1)

(* par_chunks_mut(c_size): the bytes of chunk i                            *)
From(i) == IF size = None THEN 0 ELSE i * size
To(i)   == IF size = None \/ len < (i + 1) * size THEN len ELSE (i + 1) * size

(* Mutant: the sum is checked, the index is cast.                          *)
DeriveIvCast(b, i) ==
    LET index == i % (CounterMax + 1)
    IN  IF b + index <= CounterMax THEN b + index ELSE None

(* Mutant: the last counter is not used.                                   *)
DeriveIvEarly(b, i) == IF b + i < CounterMax THEN b + i ELSE None

(* derive_chunk_iv: no IV when the index or the sum is not a u32           *)
DeriveIv(b, i) == IF i <= CounterMax /\ b + i <= CounterMax THEN b + i ELSE None

(* The IV of chunk i; an empty tensor uses the base IV itself, a version 1 *)
(* tensor the nonce encrypt_data made for it.                              *)
Iv(i) == IF size = None \/ len = 0 THEN base ELSE DeriveIv(base, i)

(* Version 1 seals nothing for an empty tensor: its IV and tag are empty.  *)
Unsealed == [iv |-> None, from |-> 0, to |-> 0]

Seal(i) == IF size = None /\ len = 0 THEN Unsealed
           ELSE [iv |-> Iv(i), from |-> From(i), to |-> To(i)]

Init ==
    /\ len \in Lengths
    /\ size \in ChunkSizes
    /\ base \in 0..CounterMax
    /\ sealed = <<>>
    /\ refused = FALSE
    /\ tags = <<>>
    /\ disk = <<>>
    /\ opened = <<>>
    /\ phase = "sealing"

(* Mutant: one chunk too many.                                             *)
SealChunkOneMore(i) ==
    /\ phase = "sealing"
    /\ i \in 0..Cardinality(Indices) \ DOMAIN sealed
    /\ Iv(i) # None
    /\ sealed' = [k \in DOMAIN sealed \cup {i} |-> IF k = i THEN Seal(i) ELSE sealed[k]]
    /\ UNCHANGED <<len, size, base, refused, tags, disk, opened, phase>>

(* One task of the parallel iterator: any chunk, in any order.             *)
SealChunk(i) ==
    /\ phase = "sealing"
    /\ i \in Indices \ DOMAIN sealed
    /\ Iv(i) # None
    /\ sealed' = [k \in DOMAIN sealed \cup {i} |-> IF k = i THEN Seal(i) ELSE sealed[k]]
    /\ UNCHANGED <<len, size, base, refused, tags, disk, opened, phase>>

RefuseChunk(i) ==
    /\ phase = "sealing"
    /\ i \in Indices
    /\ Iv(i) = None
    /\ refused' = TRUE
    /\ UNCHANGED <<len, size, base, sealed, tags, disk, opened, phase>>

(* tags_res?: an error leaves every field of the cryptor unset.            *)
CollectError ==
    /\ phase = "sealing"
    /\ refused
    /\ phase' = "refused"
    /\ UNCHANGED <<len, size, base, sealed, refused, tags, disk, opened>>

(* Mutant: tags are collected as the tasks end, here last chunk first.     *)
CollectReversed ==
    /\ phase = "sealing"
    /\ ~refused
    /\ DOMAIN sealed = Indices
    /\ tags' = [i \in Indices |-> sealed[Cardinality(Indices) - 1 - i]]
    /\ disk' = sealed
    /\ phase' = "stored"
    /\ UNCHANGED <<len, size, base, sealed, refused, opened>>

(* collect() keeps the order of the chunks; base_iv, tags, the wrapped key *)
(* and the buffer are set and serialize writes header and buffer.          *)
Collect ==
    /\ phase = "sealing"
    /\ ~refused
    /\ DOMAIN sealed = Indices
    /\ tags' = sealed
    /\ disk' = sealed
    /\ phase' = "stored"
    /\ UNCHANGED <<len, size, base, sealed, refused, opened>>

------------------------------------------------------------------------------
(* External: the stored bytes of two chunks change places, or those of one *)
(* chunk are replaced by another's.                                        *)
Damage ==
    /\ phase = "stored"
    /\ disk = sealed
    /\ \E i, j \in Indices :
          /\ To(i) - From(i) = To(j) - From(j)
          /\ disk' \in {[disk EXCEPT ![i] = disk[j], ![j] = disk[i]],
                        [disk EXCEPT ![i] = disk[j]]}
          /\ disk' # disk
    /\ UNCHANGED <<len, size, base, sealed, refused, tags, opened, phase>>

(* A reader with the header's base IV, tags and chunk size                 *)
Open ==
    /\ phase = "stored"
    /\ phase' = "reading"
    /\ UNCHANGED <<len, size, base, sealed, refused, tags, disk, opened>>

(* Mutant: the tag is not checked against the bytes.                       *)
OpensAnyBytes(i) == i \in DOMAIN tags

(* decrypt_data for chunk i: the tag is there, the IV can be derived, and  *)
(* both are those the bytes were sealed with; all of them empty in a       *)
(* version 1 file is no error.                                             *)
Opens(i) ==
    /\ i \in DOMAIN tags
    /\ disk[i] = tags[i]
    /\ \/ disk[i] = Unsealed
       \/ Iv(i) # None /\ disk[i].iv = Iv(i)

OpenChunk(i) ==
    /\ phase = "reading"
    /\ i \in Indices \ DOMAIN opened
    /\ Opens(i)
    /\ opened' = [k \in DOMAIN opened \cup {i} |-> IF k = i THEN disk[i] ELSE opened[k]]
    /\ UNCHANGED <<len, size, base, sealed, refused, tags, disk, phase>>

OpenFails(i) ==
    /\ phase = "reading"
    /\ i \in Indices \ DOMAIN opened
    /\ ~Opens(i)
    /\ phase' = "error"
    /\ UNCHANGED <<len, size, base, sealed, refused, tags, disk, opened>>

Publish ==
    /\ phase = "reading"
    /\ DOMAIN opened = Indices
    /\ phase' = "read"
    /\ UNCHANGED <<len, size, base, sealed, refused, tags, disk, opened>>

Chunks == UNION {0..(ChunkCount(n, c) - 1) : n \in Lengths, c \in ChunkSizes \ {None}} \cup {0}

Next ==
    \/ \E i \in Chunks : SealChunk(i) \/ RefuseChunk(i) \/ OpenChunk(i) \/ OpenFails(i)
    \/ CollectError \/ Collect \/ Damage \/ Open \/ Publish

Spec == Init /\ [][Next]_vars

------------------------------------------------------------------------------
TypeOK ==
    /\ len \in Lengths /\ size \in ChunkSizes /\ base \in 0..CounterMax
    /\ DOMAIN sealed \subseteq Indices /\ DOMAIN opened \subseteq Indices
    /\ refused \in BOOLEAN
    /\ phase \in {"sealing", "refused", "stored", "reading", "read", "error"}

(* No two chunks are sealed under the key with one IV, whatever the base   *)
(* counter (derive_chunk_iv: "Complies with NIST SP 800-38D deterministic  *)
(* IV construction").                                                      *)
NoIvTwice ==
    \A i, j \in DOMAIN sealed : sealed[i].iv = sealed[j].iv => i = j

(* A byte of the tensor lies in exactly one chunk.                         *)
ChunksPartition ==
    \A b \in 0..(len - 1) :
        \E i \in Indices : /\ From(i) <= b /\ b < To(i)
                           /\ \A j \in Indices : From(j) <= b /\ b < To(j) => j = i

(* A reader that gets a buffer gets, at every byte, what the writer put    *)
(* there, wherever the stored chunks went in between ...                   *)
ReadIsWritten ==
    phase = "read" =>
        \A i \in Indices : opened[i].from = From(i) /\ opened[i].to = To(i)

(* ... and a reader of the bytes as they were stored gets a buffer, for    *)
(* every length and chunk size, a last chunk that is short, an empty       *)
(* tensor and a base counter near its end included.                        *)
StoredOpens ==
    phase = "error" => disk # sealed

(* A save fails only when the chunks do not fit above the base counter.    *)
RefusedOnlyOnOverflow ==
    phase = "refused" => base + ChunkCount(len, size) - 1 > CounterMax
==============================================================================
