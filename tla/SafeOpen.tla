------------------------------- MODULE SafeOpen -------------------------------
(***************************************************************************)
(* Reading tensors of a file from Python (safe_open and PySafeSlice,       *)
(* src/bindings/python/src/lib.rs) while another process writes it:        *)
(* serialize_file and rewrap_file truncate and rewrite the file in place,  *)
(* and may fail half way; others replace it by renaming a new file.        *)
(*                                                                         *)
(* An open handle keeps the header it parsed, a mapping of the file it     *)
(* opened (or, for Torch and Paddle, storage those make from the file's    *)
(* path), the file itself for encrypted tensors, and the cache of what it  *)
(* decrypted.  The slices it gave out share all of these and outlive it.   *)
(*                                                                         *)
(* A file is a sequence of cells: the parts of its header, then one cell   *)
(* for each tensor.  Sealing is perfect: the cell of an encrypted tensor   *)
(* opens under the header of its own save only, whoever rewrapped it, and  *)
(* at any position.  The process of the handles has the keys.  Threads     *)
(* that decrypt one tensor at once are the subject of SingleCryptor.       *)
(***************************************************************************)
EXTENDS Naturals, FiniteSets, Sequences

CONSTANTS
    None, Changed, Error, Closed, Fault,
    Handles,        \* the safe_open objects
    Order,          \* the tensors, in the order they lie in a file
    HeaderLens,     \* the lengths, in cells, a header may have
    Frameworks,     \* what callers pass: records [name, version]
    MaxFiles,       \* bound on files ever created under the path
    MaxSaves,       \* bound on saves
    MaxRewraps      \* bound on rewraps

Tensors == {Order[i] : i \in DOMAIN Order}

VARIABLES
    files,      \* the contents of the files, the path's and those it replaced
    path,       \* which of them the path names
    writer,     \* [phase, image, file]: the process that saves and rewraps
    saves, rewraps,
    handles,    \* the state of each safe_open object
    memory,     \* bytes of a tensor this process holds for a handle: the
                \* cryptor's buffer, or changed pages of a private mapping
    exports,    \* <<handle, tensor>>: Python has an array over that memory
    slices      \* <<handle, tensor>>: the PySafeSlice objects

vars == <<files, path, writer, saves, rewraps, handles, memory, exports, slices>>
reading == <<handles, memory, exports, slices>>

------------------------------------------------------------------------------
(* Files                                                                   *)

(* A header: the save it belongs to, the tensors that save encrypted, how  *)
(* often it was rewrapped and its length.                                  *)
Headers == [save : 1..MaxSaves, secret : SUBSET Tensors, wraps : 0..MaxRewraps,
            len : HeaderLens]

Part(h, i)    == [header |-> h, save |-> h.save, at |-> i]
Stored(s, t)  == [header |-> None, save |-> s, at |-> t]

(* A file is made with a save, and its header is never empty: it begins     *)
(* with its length.  None is neither a header nor a cell.                   *)
ASSUME ConstantsAssumption ==
    /\ Order \in Seq(Tensors)
    /\ HeaderLens \subseteq Nat \ {0}
    /\ MaxSaves \in Nat \ {0} /\ MaxRewraps \in Nat
    /\ None \notin Headers
    /\ \A s \in 1..MaxSaves, t \in Tensors : Stored(s, t) # None

Image(h) == [i \in 1..h.len |-> Part(h, i)] \o [i \in DOMAIN Order |-> Stored(h.save, Order[i])]

Position(h, t) == h.len + CHOOSE i \in DOMAIN Order : Order[i] = t

(* The header at the front of a file, if it is all there *)
HeaderOf(f) ==
    LET h == IF f = <<>> THEN None ELSE f[1].header
    IN  IF h # None /\ h.len <= Len(f) /\ \A i \in 1..h.len : f[i] = Part(h, i) THEN h ELSE None

(* Mutant: the data may end before the buffer does, or after it.           *)
AcceptsHeaderOnly(f, length) == HeaderOf(f) # None

(* read_metadata: the header, and data that ends where the buffer ends     *)
Accepts(f, length) ==
    /\ HeaderOf(f) # None
    /\ HeaderOf(f).len + Len(Order) = length

------------------------------------------------------------------------------
(* The writing process                                                     *)

Idle == [phase |-> "idle", image |-> <<>>, file |-> path]

(* Everything that can fail before the file is touched has not failed: the *)
(* image to write is complete in memory.                                   *)
SerializeFile ==
    /\ writer.phase = "idle"
    /\ saves < MaxSaves
    /\ saves' = saves + 1
    /\ \E secret \in SUBSET Tensors, len \in HeaderLens :
          writer' = [phase |-> "ready", file |-> path,
                     image |-> Image([save |-> saves', secret |-> secret,
                                      wraps |-> 0, len |-> len])]
    /\ UNCHANGED <<files, path, rewraps, reading>>

(* rewrap_file reads the whole file; one without encrypted tensors, or one *)
(* read_metadata refuses, is an error.                                     *)
RewrapFile ==
    /\ writer.phase = "idle"
    /\ rewraps < MaxRewraps
    /\ Accepts(files[path], Len(files[path]))
    /\ HeaderOf(files[path]).secret # {}
    /\ rewraps' = rewraps + 1
    /\ \E len \in HeaderLens :
          LET h == [HeaderOf(files[path]) EXCEPT !.wraps = @ + 1, !.len = len]
          IN  writer' = [phase |-> "ready", file |-> path,
                         image |-> [i \in 1..len |-> Part(h, i)] \o
                             SubSeq(files[path], HeaderOf(files[path]).len + 1, Len(files[path]))]
    /\ UNCHANGED <<files, path, saves, reading>>

(* File::create on the path, whatever it names by now *)
Truncate ==
    /\ writer.phase = "ready"
    /\ writer' = [writer EXCEPT !.phase = "writing", !.file = path]
    /\ files' = [files EXCEPT ![path] = <<>>]
    /\ UNCHANGED <<path, saves, rewraps, reading>>

WriteCell ==
    /\ writer.phase = "writing"
    /\ LET f == files[writer.file]
           g == Append(f, writer.image[Len(f) + 1])
       IN  /\ files' = [files EXCEPT ![writer.file] = g]
           /\ writer' = IF g = writer.image THEN Idle ELSE writer
    /\ UNCHANGED <<path, saves, rewraps, reading>>

(* The process ends, or a write fails: the error is returned, the file     *)
(* stays as it is.                                                         *)
WriterFails ==
    /\ writer.phase \in {"ready", "writing"}
    /\ writer' = Idle
    /\ UNCHANGED <<files, path, saves, rewraps, reading>>

(* External: a new, complete file is renamed to the path.                  *)
Replace ==
    /\ Len(files) < MaxFiles
    /\ saves < MaxSaves
    /\ saves' = saves + 1
    /\ \E secret \in SUBSET Tensors, len \in HeaderLens :
          files' = Append(files, Image([save |-> saves', secret |-> secret,
                                        wraps |-> 0, len |-> len]))
    /\ path' = Len(files')
    /\ UNCHANGED <<writer, rewraps, reading>>

------------------------------------------------------------------------------
(* Open::new                                                               *)

(* Version's derived order *)
AtLeast(v, w) ==
    \/ v[1] > w[1]
    \/ v[1] = w[1] /\ (v[2] > w[2] \/ (v[2] = w[2] /\ v[3] >= w[3]))

StorageOf(fw) ==
    IF fw.name = "paddle" /\ (AtLeast(fw.version, <<3, 1, 1>>) \/ fw.version = <<0, 0, 0>>)
    THEN "PaddleStorage"
    ELSE IF fw.name = "torch" /\ AtLeast(fw.version, <<1, 11, 0>>) THEN "TorchStorage"
    ELSE "Mmap"

Unopened == [state |-> "none", fw |-> None, file |-> 0, length |-> 0, header |-> None, store |-> 0]

Set(o, h) == handles' = [handles EXCEPT ![o] = h]
nothing == <<files, path, writer, saves, rewraps, memory, exports, slices>>

(* File::open *)
OpenFile(o) ==
    /\ handles[o].state = "none"
    /\ \E fw \in Frameworks : Set(o, [Unopened EXCEPT !.state = "file", !.fw = fw, !.file = path])
    /\ UNCHANGED nothing

(* map_copy_read_only maps as many bytes as the file has now.              *)
MapFile(o) ==
    /\ handles[o].state = "file"
    /\ Set(o, [handles[o] EXCEPT !.state = "mapped", !.length = Len(files[handles[o].file])])
    /\ UNCHANGED nothing

(* The mapping is read beyond the end the file has by now: SIGBUS.         *)
Kill == /\ handles' = [o \in Handles |-> [handles[o] EXCEPT !.state = "killed"]]
        /\ UNCHANGED nothing

(* Mutant: an error of read_metadata is dropped.                           *)
ReadMetadataAnyway(o) ==
    /\ handles[o].state = "mapped"
    /\ Set(o, [handles[o] EXCEPT !.state = "parsed", !.header = HeaderOf(files[handles[o].file])])
    /\ UNCHANGED nothing

(* read_metadata and from_header_with_config over the mapping *)
ReadMetadata(o) ==
    /\ handles[o].state = "mapped"
    /\ LET f == files[handles[o].file]
       IN  IF Accepts(f, handles[o].length)
           THEN Set(o, [handles[o] EXCEPT !.state = "parsed", !.header = HeaderOf(f)])
           ELSE Set(o, [handles[o] EXCEPT !.state = "refused"])
    /\ UNCHANGED nothing

MetadataFaults(o) ==
    /\ handles[o].state = "mapped"
    /\ Len(files[handles[o].file]) < handles[o].length
    /\ HeaderOf(files[handles[o].file]) = None
    /\ Kill

(* The mapping becomes the storage.                                        *)
KeepMapping(o) ==
    /\ handles[o].state = "parsed"
    /\ StorageOf(handles[o].fw) = "Mmap"
    /\ Set(o, [handles[o] EXCEPT !.state = "open", !.store = handles[o].file])
    /\ UNCHANGED nothing

(* Torch or Paddle maps the path again; external: a file shorter than the  *)
(* length asked for is refused.                                            *)
MapPath(o) ==
    /\ handles[o].state = "parsed"
    /\ StorageOf(handles[o].fw) # "Mmap"
    /\ IF Len(files[path]) >= handles[o].length
       THEN Set(o, [handles[o] EXCEPT !.state = "open", !.store = path])
       ELSE Set(o, [handles[o] EXCEPT !.state = "refused"])
    /\ UNCHANGED nothing

------------------------------------------------------------------------------
(* Reading                                                                 *)

Secret(o, t) == t \in handles[o].header.secret

(* Mutant: the data offsets count from the length field, not from the      *)
(* data.                                                                   *)
CellFromStart(o, f) ==
    [t \in Tensors |->
        LET p == Position(handles[o].header, t) - handles[o].header.len
        IN  IF p <= Len(f) THEN f[p] ELSE None]

(* What file f has where the header of o puts a tensor: data_offsets plus  *)
(* the offset of Open                                                      *)
Cell(o, f) ==
    [t \in Tensors |->
        LET p == Position(handles[o].header, t) IN IF p <= Len(f) THEN f[p] ELSE None]

(* Mutant: bytes that do not open are handed out as they are.              *)
DecryptUnchecked(o, t) ==
    IF memory[o][t] # None THEN memory[o][t]
    ELSE IF Cell(o, files[handles[o].file])[t] = None THEN Error
    ELSE Cell(o, files[handles[o].file])[t]

(* silent_decrypt_from_file: once decrypted, the buffer is the answer;     *)
(* else the bytes are read from the file that was opened and must open     *)
(* under the header's key.                                                 *)
Decrypt(o, t) ==
    IF memory[o][t] # None THEN memory[o][t]
    ELSE IF Cell(o, files[handles[o].file])[t] = Stored(handles[o].header.save, t)
    THEN Stored(handles[o].header.save, t) ELSE Error

(* The bytes of a plain tensor in the storage *)
Plain(o, t) ==
    IF memory[o][t] # None THEN memory[o][t]
    ELSE IF Cell(o, files[handles[o].store])[t] = None THEN Fault
    ELSE Cell(o, files[handles[o].store])[t]

(* get_tensor has a branch for each storage: an encrypted tensor comes     *)
(* from its cryptor, a plain one from the mapping, ...                     *)
MmapTensor(o, t)   == IF Secret(o, t) THEN Decrypt(o, t) ELSE Plain(o, t)
(* ... a slice of Torch's storage, or of Paddle's                          *)
TorchTensor(o, t)  == IF Secret(o, t) THEN Decrypt(o, t) ELSE Plain(o, t)
PaddleTensor(o, t) == IF Secret(o, t) THEN Decrypt(o, t) ELSE Plain(o, t)

GetTensor(o, t) ==
    IF handles[o].state = "closed" THEN Closed
    ELSE CASE StorageOf(handles[o].fw) = "Mmap"          -> MmapTensor(o, t)
           [] StorageOf(handles[o].fw) = "TorchStorage"  -> TorchTensor(o, t)
           [] StorageOf(handles[o].fw) = "PaddleStorage" -> PaddleTensor(o, t)

(* __getitem__ of a slice, by storage.  Over a mapping, with cryptors for  *)
(* some of the tensors, it expects a decrypted buffer for every tensor.    *)
MmapItem(o, t) ==
    IF handles[o].header.secret = {} THEN Plain(o, t)
    ELSE IF Secret(o, t) THEN Decrypt(o, t) ELSE Error
TorchItem(o, t)  == IF Secret(o, t) THEN Decrypt(o, t) ELSE Plain(o, t)
PaddleItem(o, t) == IF Secret(o, t) THEN Decrypt(o, t) ELSE Plain(o, t)

GetItem(o, t) ==
    CASE StorageOf(handles[o].fw) = "Mmap"          -> MmapItem(o, t)
      [] StorageOf(handles[o].fw) = "TorchStorage"  -> TorchItem(o, t)
      [] StorageOf(handles[o].fw) = "PaddleStorage" -> PaddleItem(o, t)

(* An array that shares memory: torch.asarray and frombuffer over a        *)
(* DecryptedBuffer, or over Torch's own storage; everything else copies.   *)
Shares(o, t, slice) ==
    /\ handles[o].fw.name \in {"torch", "numpy"}
    /\ StorageOf(handles[o].fw) = "Mmap" => Secret(o, t) /\ ~slice

(* A read that answers r: a decrypted buffer stays in its cryptor.         *)
Read(o, t, slice, r) ==
    IF r = Fault THEN Kill
    ELSE /\ memory' = IF r \notin {Error, Closed} /\ Secret(o, t)
                      THEN [memory EXCEPT ![o][t] = r] ELSE memory
         /\ exports' = IF r \notin {Error, Closed} /\ Shares(o, t, slice)
                       THEN exports \cup {<<o, t>>} ELSE exports
         /\ UNCHANGED <<files, path, writer, saves, rewraps, handles, slices>>

ReadTensor(o, t) ==
    /\ handles[o].state = "open"
    /\ Read(o, t, FALSE, GetTensor(o, t))

(* get_slice *)
TakeSlice(o, t) ==
    /\ handles[o].state = "open"
    /\ slices' = slices \cup {<<o, t>>}
    /\ UNCHANGED <<files, path, writer, saves, rewraps, handles, memory, exports>>

ReadSlice(o, t) ==
    /\ handles[o].state \in {"open", "closed"}
    /\ <<o, t>> \in slices
    /\ Read(o, t, TRUE, GetItem(o, t))

(* Python writes through an array that shares memory.                      *)
Poke(o, t) ==
    /\ handles[o].state \in {"open", "closed"}
    /\ <<o, t>> \in exports
    /\ memory' = [memory EXCEPT ![o][t] = Changed]
    /\ UNCHANGED <<files, path, writer, saves, rewraps, handles, exports, slices>>

(* __exit__ *)
Exit(o) ==
    /\ handles[o].state = "open"
    /\ Set(o, [handles[o] EXCEPT !.state = "closed"])
    /\ UNCHANGED nothing

Init ==
    /\ \E secret \in SUBSET Tensors, len \in HeaderLens :
          files = <<Image([save |-> 1, secret |-> secret, wraps |-> 0, len |-> len])>>
    /\ path = 1
    /\ writer = Idle
    /\ saves = 1 /\ rewraps = 0
    /\ handles = [o \in Handles |-> Unopened]
    /\ memory = [o \in Handles |-> [t \in Tensors |-> None]]
    /\ exports = {} /\ slices = {}

Next ==
    \/ SerializeFile \/ RewrapFile \/ Truncate \/ WriteCell \/ WriterFails \/ Replace
    \/ \E o \in Handles :
          \/ OpenFile(o) \/ MapFile(o) \/ ReadMetadata(o) \/ MetadataFaults(o)
          \/ KeepMapping(o) \/ MapPath(o) \/ Exit(o)
          \/ \E t \in Tensors : ReadTensor(o, t) \/ TakeSlice(o, t) \/ ReadSlice(o, t) \/ Poke(o, t)

Spec == Init /\ [][Next]_vars

------------------------------------------------------------------------------
TypeOK ==
    /\ path \in DOMAIN files /\ writer.file \in DOMAIN files
    /\ writer.phase \in {"idle", "ready", "writing"}
    /\ \A o \in Handles :
          /\ handles[o].state \in {"parsed", "open", "closed"} => handles[o].header \in Headers
          /\ handles[o].state \in {"open", "closed"} => handles[o].store \in DOMAIN files
          /\ \A t \in Tensors : memory[o][t] # None => handles[o].state \in {"open", "closed", "killed"}
    /\ exports \subseteq Handles \X Tensors /\ slices \subseteq Handles \X Tensors

Live(o) == handles[o].state \in {"open", "closed"}

(* What a caller may be answered with for the tensor of the file whose     *)
(* header was parsed: its bytes, or what Python wrote over them            *)
Genuine(o, t, r) ==
    \/ r = Stored(handles[o].header.save, t)
    \/ r = Changed /\ <<o, t>> \in exports

(* An encrypted tensor is never answered with bytes of another save or     *)
(* another tensor: whatever was truncated, rewritten, moved or replaced    *)
(* since, and although the offsets are those of the old header, the answer *)
(* is the tensor of the save whose header was parsed, or an error          *)
(* (silent_decrypt_from_file).                                             *)
EncryptedGenuine ==
    \A o \in Handles, t \in Tensors :
        Live(o) /\ Secret(o, t) =>
            /\ GetTensor(o, t) \in {Error, Closed} \/ Genuine(o, t, GetTensor(o, t))
            /\ GetItem(o, t) = Error \/ Genuine(o, t, GetItem(o, t))

(* The file of a handle, and what Torch mapped under its path, has the     *)
(* tensors where the parsed header has them: it is the file of that        *)
(* header, or one rewrapped to a header of the same length.                *)
InPlace(f, h) ==
    /\ Len(f) = h.len + Len(Order)
    /\ \A i \in DOMAIN Order : f[h.len + i] = Stored(h.save, Order[i])

Undisturbed(o) ==
    /\ InPlace(files[handles[o].file], handles[o].header)
    /\ InPlace(files[handles[o].store], handles[o].header)

(* As long as nobody wrote over the files of a handle, every tensor reads, *)
(* plain and encrypted, in every framework, also after the path came to    *)
(* name another file and after a rewrap in place that kept the header's    *)
(* length; slices also after the safe_open they came from was closed       *)
(* (get_slice: "A dummy object you can slice into to get a real tensor").  *)
(* Left out are slices of plain tensors of a partly encrypted file over a  *)
(* mapping.                                                                *)
UndisturbedReads ==
    \A o \in Handles, t \in Tensors :
        Live(o) /\ Undisturbed(o) =>
            /\ handles[o].state = "open" => Genuine(o, t, GetTensor(o, t))
            /\ <<o, t>> \in slices /\ (Secret(o, t) \/ handles[o].header.secret = {}
                                       \/ StorageOf(handles[o].fw) # "Mmap")
                  => Genuine(o, t, GetItem(o, t))

(* The same without the exception *)
EverySliceReads ==
    \A o \in Handles, t \in Tensors :
        Live(o) /\ Undisturbed(o) /\ <<o, t>> \in slices => Genuine(o, t, GetItem(o, t))

(* A header is accepted only over a file that has all of its data, unless  *)
(* the file shrank after it was mapped: what a save or a rewrap that       *)
(* failed half way leaves behind is never opened (read_metadata:           *)
(* "validates that the buffer contains complete tensor data").             *)
AcceptsOnlyWhole ==
    [][\A o \in Handles :
          /\ handles[o].state = "mapped" /\ handles'[o].state = "parsed"
          /\ Len(files[handles[o].file]) >= handles[o].length
          => InPlace(files[handles[o].file], handles'[o].header)]_vars
==============================================================================
