------------------------------- MODULE Layout -------------------------------
(***************************************************************************)
(* Where the tensors lie in a file (src/safetensors/src/tensor.rs).        *)
(*                                                                         *)
(* A writer (prepare, serialize) sorts the tensors, gives each the span    *)
(* behind the one before, validates the header it made and writes length,  *)
(* padded header and data.  A reader (read_metadata) takes a buffer it     *)
(* knows nothing of, sorts the entries of its header by offset and walks   *)
(* them once in validate: that walk is all that stands between a header    *)
(* and slices of the data.  rewrap puts a new header before the old data.  *)
(*                                                                         *)
(* Sealing keeps a tensor's length (its tag and IV are in the header), so  *)
(* an encrypted tensor is laid out as a plain one is.  Arithmetic on usize *)
(* wraps at Limit where the code does not check it, as a release build     *)
(* does.                                                                   *)
(***************************************************************************)
EXTENDS Naturals, FiniteSets, Sequences, SequencesExt

CONSTANTS
    None,
    BitSize,    \* Dtype::bitsize by position in the enum, smallest alignment first
    Inputs,     \* what callers save: sequences of [name, dtype, shape, bytes];
                \* a name is its place in the order of the strings
    Buffers,    \* files of other origin: records like those of file
    JsonLens,   \* the lengths a header's JSON may have
    MaxHeader,  \* MAX_HEADER_SIZE
    Limit,      \* 2^w for a usize of w bits
    MaxRewraps  \* bound on rewrap

ASSUME LayoutAssumption ==
    /\ MaxHeader \in Nat /\ Limit \in Nat
    /\ 8 + MaxHeader < Limit
    /\ JsonLens \subseteq Nat
    /\ MaxRewraps \in Nat
    /\ BitSize \in Seq(Nat \ {0})
    /\ \A s \in Inputs :
          /\ Len(s) \in Nat /\ DOMAIN s = 1..Len(s)
          /\ \A i \in DOMAIN s : /\ s[i].name \in Nat /\ s[i].bytes \in 0..(Limit - 1)
                                /\ s[i].dtype \in DOMAIN BitSize /\ s[i].shape \in Seq(Nat)
    /\ \A f \in Buffers :
          /\ f.n \in Nat /\ IsFiniteSet(DOMAIN f.infos)
          /\ \A x \in DOMAIN f.infos : /\ f.infos[x].dtype \in DOMAIN BitSize
                                      /\ f.infos[x].shape \in Seq(Nat)

(* Dtype's order: an element of a byte or more has a size that divides the *)
(* sizes of the types behind it, and eight bytes.                          *)
ASSUME AlignmentAssumption ==
    \A d \in DOMAIN BitSize : BitSize[d] % 8 = 0 =>
        /\ 64 % BitSize[d] = 0
        /\ \A e \in DOMAIN BitSize :
              d <= e => BitSize[d] = 8 \/ BitSize[e] % BitSize[d] = 0

VARIABLES
    phase,      \* where writer or reader is
    input,      \* the tensors the caller saves, or None for a file of other origin
    sorted,     \* PreparedData: those tensors in the order they are written
    tensors,    \* Metadata: the entries in order, each with its name
    start,      \* validate: where the next span must start
    walked,     \* validate: how many entries have passed
    file,       \* [n, infos, data, len]: header length, entries by name, data
                \* bytes, length of the buffer
    rewraps,
    damaged     \* the file has been cut or extended since it was written

vars == <<phase, input, sorted, tensors, start, walked, file, rewraps, damaged>>

N_LEN == 8

Padded(n) == ((n + 7) \div 8) * 8

(* try_fold(1, checked_mul): None as soon as a partial product overflows   *)
CheckedMul(a, b) == IF a = None \/ a * b >= Limit THEN None ELSE a * b
NElements(shape) ==
    LET p[k \in 0..Len(shape)] == IF k = 0 THEN 1 ELSE CheckedMul(p[k - 1], shape[k])
    IN  p[Len(shape)]

(* The size of a shape in bits, however large                              *)
Product(shape) ==
    LET p[k \in 0..Len(shape)] == IF k = 0 THEN 1 ELSE p[k - 1] * shape[k]
    IN  p[Len(shape)]
TrueBits(info) == BitSize[info.dtype] * Product(info.shape)

(* Mutant: the products wrap.                                              *)
NBitsWrapping(info) == TrueBits(info) % Limit

NBits(info)    == CheckedMul(NElements(info.shape), BitSize[info.dtype])

(* The i-th byte of a tensor, and the bytes of tensors one after another   *)
BytesOf(t) == [i \in 1..t.bytes |-> <<t.name, i>>]
Written(s) ==
    LET d[k \in 0..Len(s)] == IF k = 0 THEN <<>> ELSE d[k - 1] \o BytesOf(s[k])
    IN  d[Len(s)]

------------------------------------------------------------------------------
(* prepare and serialize                                                   *)

(* Mutant: the smallest alignment first.                                   *)
PrecedesAscending(s, t) ==
    s.dtype < t.dtype \/ (s.dtype = t.dtype /\ s.name < t.name)

Precedes(s, t) ==
    s.dtype > t.dtype \/ (s.dtype = t.dtype /\ s.name < t.name)

(* sort_by is stable: tensors of one name and type keep their order.       *)
SortOrders(s) ==
    {p \in [DOMAIN s -> DOMAIN s] :
        \A i, j \in DOMAIN s : i < j =>
            \/ Precedes(s[p[i]], s[p[j]])
            \/ ~Precedes(s[p[j]], s[p[i]]) /\ p[i] < p[j]}

Sort ==
    /\ phase = "sort"
    /\ \E p \in SortOrders(input) : sorted' = [i \in DOMAIN input |-> input[p[i]]]
    /\ phase' = "lay out"
    /\ UNCHANGED <<input, tensors, start, walked, file, rewraps, damaged>>

Offset == IF tensors = <<>> THEN 0 ELSE Last(tensors).to

LayOut ==
    /\ phase = "lay out"
    /\ Len(tensors) < Len(sorted)
    /\ LET t == sorted[Len(tensors) + 1]
       IN  tensors' = Append(tensors, [name |-> t.name, dtype |-> t.dtype, shape |-> t.shape,
                                       from |-> Offset, to |-> (Offset + t.bytes) % Limit])
    /\ UNCHANGED <<phase, input, sorted, start, walked, file, rewraps, damaged>>

(* Metadata::new                                                           *)
LaidOut ==
    /\ phase = "lay out"
    /\ Len(tensors) = Len(sorted)
    /\ phase' = "check written"
    /\ start' = 0 /\ walked' = 0
    /\ UNCHANGED <<input, sorted, tensors, file, rewraps, damaged>>

Names(s) == {s[i].name : i \in DOMAIN s}
IndexMap(s) == [x \in Names(s) |-> CHOOSE i \in DOMAIN s :
                    s[i].name = x /\ \A j \in DOMAIN s : s[j].name = x => j <= i]

(* Serialize for Metadata sizes its list of names by index_map, where one  *)
(* of two tensors of one name is lost, and indexes it by position.         *)
SerializePanics ==
    /\ phase = "serialize"
    /\ \E x \in Names(tensors) : IndexMap(tensors)[x] > Cardinality(Names(tensors))
    /\ phase' = "panic"
    /\ UNCHANGED <<input, sorted, tensors, start, walked, file, rewraps, damaged>>

(* Mutant: the data is written in the caller's order.                      *)
DataUnsorted == Written(input)

(* The data in the order it was laid out *)
Data == Written(sorted)

Entries(s) == [x \in Names(s) |->
                  LET t == s[IndexMap(s)[x]]
                  IN  [dtype |-> t.dtype, shape |-> t.shape, from |-> t.from, to |-> t.to]]

HeaderTooLarge(n) == n > MaxHeader

Serialize ==
    /\ phase = "serialize"
    /\ \A x \in Names(tensors) : IndexMap(tensors)[x] <= Cardinality(Names(tensors))
    /\ \E json \in JsonLens :
          IF HeaderTooLarge(Padded(json))
          THEN phase' = "not written" /\ UNCHANGED file
          ELSE /\ file' = [n |-> Padded(json), infos |-> Entries(tensors), data |-> Data,
                           len |-> N_LEN + Padded(json) + Len(Data)]
               /\ phase' = "stored"
    /\ UNCHANGED <<input, sorted, tensors, start, walked, rewraps, damaged>>

------------------------------------------------------------------------------
(* Metadata::validate, one entry at a time                                 *)

Entry == tensors[walked + 1]

Validating == phase \in {"check written", "check read", "check header"}

(* Mutant: spans may leave gaps.                                           *)
EntryOkGap ==
    /\ Entry.from >= start /\ Entry.to >= Entry.from
    /\ NBits(Entry) # None
    /\ NBits(Entry) % 8 = 0
    /\ Entry.to - Entry.from = NBits(Entry) \div 8

EntryOk ==
    /\ Entry.from = start /\ Entry.to >= Entry.from
    /\ NBits(Entry) # None
    /\ NBits(Entry) % 8 = 0
    /\ Entry.to - Entry.from = NBits(Entry) \div 8

ValidateEntry ==
    /\ Validating
    /\ walked < Len(tensors)
    /\ EntryOk
    /\ start' = Entry.to
    /\ walked' = walked + 1
    /\ UNCHANGED <<phase, input, sorted, tensors, file, rewraps, damaged>>

(* InvalidOffset, ValidationOverflow, MisalignedSlice, TensorInvalidInfo   *)
RefuseEntry ==
    /\ Validating
    /\ walked < Len(tensors)
    /\ ~EntryOk
    /\ phase' = IF phase = "check written" THEN "not written" ELSE "refused"
    /\ UNCHANGED <<input, sorted, tensors, start, walked, file, rewraps, damaged>>

WriterValidated ==
    /\ phase = "check written"
    /\ walked = Len(tensors)
    /\ phase' = "serialize"
    /\ UNCHANGED <<input, sorted, tensors, start, walked, file, rewraps, damaged>>

------------------------------------------------------------------------------
(* read_metadata                                                           *)

(* The buffer holds the length, then at most MAX_HEADER_SIZE bytes of      *)
(* header that are all there.                                              *)
HeaderInside ==
    /\ file.len >= N_LEN
    /\ file.n <= MaxHeader
    /\ N_LEN + file.n <= file.len

(* The JSON of the header deserializes: its offsets are usizes.            *)
Deserializes == \A x \in DOMAIN file.infos :
                    {file.infos[x].from, file.infos[x].to} \subseteq 0..(Limit - 1)

(* HeaderTooSmall, HeaderTooLarge, InvalidHeaderLength,                    *)
(* InvalidHeaderDeserialization                                            *)
ReadRefused ==
    /\ phase = "stored"
    /\ ~(HeaderInside /\ Deserializes)
    /\ phase' = "refused"
    /\ UNCHANGED <<input, sorted, tensors, start, walked, file, rewraps, damaged>>

LexLeq(a, b) == a.from < b.from \/ (a.from = b.from /\ a.to <= b.to)

(* Mutant: entries keep the order the header's map yields them in.         *)
OrdersAny(infos) == SetToSeqs(DOMAIN infos)

(* TryFrom<HashMetadata> sorts what comes out of a hash map by offsets:    *)
(* entries of equal offsets come in any order.                             *)
Orders(infos) ==
    {s \in SetToSeqs(DOMAIN infos) :
        \A i, j \in DOMAIN s : i < j => LexLeq(infos[s[i]], infos[s[j]])}

(* The entries in the order s, which Metadata::new keeps                   *)
Listed(infos, s) ==
    [i \in DOMAIN s |->
        LET t == infos[s[i]]
        IN  [name |-> s[i], dtype |-> t.dtype, shape |-> t.shape, from |-> t.from, to |-> t.to]]

(* Mutant: the second reading goes on where the first one ended.           *)
ParseUnreset ==
    /\ phase = "stored"
    /\ HeaderInside /\ Deserializes
    /\ \E s \in Orders(file.infos) : tensors' = Listed(file.infos, s)
    /\ \/ phase' = "check read" /\ file.len < Limit
       \/ phase' = "check header"
    /\ walked' = 0
    /\ UNCHANGED <<input, sorted, start, file, rewraps, damaged>>

(* A whole file is read from one buffer, so its length is a usize; only    *)
(* the header's bytes are handed to read_metadata_header_only.             *)
Parse ==
    /\ phase = "stored"
    /\ HeaderInside /\ Deserializes
    /\ \E s \in Orders(file.infos) : tensors' = Listed(file.infos, s)
    /\ \/ phase' = "check read" /\ file.len < Limit
       \/ phase' = "check header"
    /\ start' = 0 /\ walked' = 0
    /\ UNCHANGED <<input, sorted, file, rewraps, damaged>>

(* buffer_end + N_LEN + n == buffer_len, in usize                          *)
Complete == (start + N_LEN + file.n) % Limit = file.len

ReadDone ==
    /\ phase = "check read"
    /\ walked = Len(tensors)
    /\ phase' = IF Complete THEN "open" ELSE "refused"
    /\ UNCHANGED <<input, sorted, tensors, start, walked, file, rewraps, damaged>>

(* read_metadata_header_only                                               *)
HeaderDone ==
    /\ phase = "check header"
    /\ walked = Len(tensors)
    /\ phase' = "open header"
    /\ UNCHANGED <<input, sorted, tensors, start, walked, file, rewraps, damaged>>

(* rewrap_header makes a header of another length for the entries it read; *)
(* rewrap, or the caller, puts it before the bytes that followed the old.  *)
Rewrap ==
    /\ phase \in {"open", "open header"}
    /\ rewraps < MaxRewraps
    /\ rewraps' = rewraps + 1
    /\ \E json \in JsonLens :
          IF HeaderTooLarge(Padded(json))
          THEN UNCHANGED <<file, phase>>
          ELSE /\ file' = [n |-> Padded(json), infos |-> Entries(tensors), data |-> file.data,
                           len |-> N_LEN + Padded(json) + (file.len - N_LEN - file.n)]
               /\ phase' = "stored"
    /\ UNCHANGED <<input, sorted, tensors, start, walked, damaged>>

(* External: the stored file loses its end, or something is added to it.   *)
Tear ==
    /\ phase = "stored"
    /\ input # None /\ ~damaged
    /\ damaged' = TRUE
    /\ \E l \in 0..(file.len + 1) \ {file.len} :
          file' = [n |-> file.n, infos |-> file.infos, data |-> file.data, len |-> l]
    /\ UNCHANGED <<phase, input, sorted, tensors, start, walked, rewraps>>

Init ==
    /\ sorted = <<>> /\ tensors = <<>>
    /\ start = 0 /\ walked = 0 /\ rewraps = 0 /\ damaged = FALSE
    /\ \/ phase = "sort" /\ input \in Inputs /\ file = None
       \/ phase = "stored" /\ input = None /\ file \in Buffers

Next ==
    \/ Sort \/ LayOut \/ LaidOut \/ WriterValidated \/ SerializePanics \/ Serialize
    \/ ValidateEntry \/ RefuseEntry
    \/ ReadRefused \/ Parse \/ ReadDone \/ HeaderDone \/ Rewrap
    \/ Tear

Spec == Init /\ [][Next]_vars

------------------------------------------------------------------------------
Phases == {"sort", "lay out", "check written", "serialize", "not written", "panic", "stored",
           "check read", "check header", "open", "open header", "refused"}

TypeOK ==
    /\ phase \in Phases
    /\ walked \in 0..Len(tensors)
    /\ start = IF walked = 0 THEN 0 ELSE tensors[walked].to
    /\ start < Limit
    /\ rewraps \in 0..MaxRewraps
    /\ damaged \in BOOLEAN

(* The entries walked so far lie end to end from 0 to start, in order.     *)
WalkedTile ==
    /\ \A i \in 1..walked : tensors[i].from <= tensors[i].to /\ tensors[i].to <= start
    /\ \A i, j \in 1..walked : i < j => tensors[i].to <= tensors[j].from
    /\ \A b \in 0..(start - 1) :
          \E i \in 1..walked : tensors[i].from <= b /\ b < tensors[i].to

(* A file that opens is complete to the byte, and every byte of its data   *)
(* belongs to exactly one tensor: what tensor() slices out exists and      *)
(* overlaps nothing.  This holds for any buffer, although the sum that is  *)
(* compared with the buffer's length may wrap (tensor.rs 603-606:          *)
(* "validates that the buffer contains complete tensor data").             *)
OpenTiles ==
    phase = "open" =>
        /\ walked = Len(tensors)
        /\ WalkedTile
        /\ N_LEN + file.n + start = file.len

(* Every tensor of a header that opens has the bytes its shape and type    *)
(* need, whatever their product would wrap to (Metadata::validate).        *)
OpenSized ==
    phase \in {"open", "open header"} =>
        \A i \in DOMAIN tensors :
            8 * (tensors[i].to - tensors[i].from) = TrueBits(tensors[i])

(* What was saved reads back: every tensor under its name, with its type   *)
(* and shape, and in its span the bytes it had, also after rewraps changed *)
(* the length of the header.                                               *)
ReadsBack ==
    phase = "open" /\ input # None =>
        \A k \in DOMAIN input :
            /\ input[k].name \in DOMAIN file.infos
            /\ LET info == file.infos[input[k].name]
               IN  /\ info.dtype = input[k].dtype /\ info.shape = input[k].shape
                   /\ SubSeq(file.data, info.from + 1, info.to) = BytesOf(input[k])

(* A file as serialize or rewrap wrote it is never refused.                *)
WrittenOpens == phase = "refused" => input = None \/ damaged

(* Every tensor of a file serialize wrote starts at a multiple of its      *)
(* element size, counted from the start of the file, which is what the     *)
(* sort by alignment and the padded header are for.                        *)
ElementsAligned ==
    phase = "stored" /\ input # None =>
        \A x \in DOMAIN file.infos :
            LET bits == BitSize[file.infos[x].dtype]
            IN  bits % 8 = 0 => (N_LEN + file.n + file.infos[x].from) % (bits \div 8) = 0
==============================================================================
