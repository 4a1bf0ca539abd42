# CryptoTensors, specified and checked

CryptoTensors is safetensors with encrypted tensors: every selected tensor is
encrypted under a data key (DEK) of its own, the DEKs are wrapped by a master
key, and the header that carries them is signed. This directory holds TLA+
modules translated from the Rust sources under `src/safetensors/src` and
`src/bindings/python/src`, the TLC configurations that check them on small
instances, and TLAPS proofs of what holds for every size. `PROJECT.json` is the
machine-readable index: which lines each definition stands for, what each run
checks, the mutants that show a property can fail, the hazards and the findings.

Paths below are relative to `src/safetensors/src` unless they say otherwise;
`lib.rs` of the Python binding is `src/bindings/python/src/lib.rs`.

## 1. Inventory

### The parts and how they interact

| part | source | state it keeps | operations that change it | modelled by |
|---|---|---|---|---|
| file life cycle | `tensor.rs`, `cryptotensors.rs` | the file: header (order, offsets, crypto header), data | `serialize`, `serialize_to_file`, `rewrap_header`, `rewrap`, `rewrap_file` | `CryptoTensors`; torn writes in `SafeOpen` |
| opened file | `CryptoTensors`, `SafeTensors` | per tensor a `SingleCryptor` (wrapped DEK, prepared context, buffer), the two keys, the policy, the signer and its one signature | `from_serialize_config`, `from_header_with_config`, `silent_decrypt`, `rewrap`, `generate_metadata` | `CryptoTensors` |
| lazy decryption | `SingleCryptor` | a sync `OnceCell` per tensor | `decrypt`, `decrypt_from_file`, `with_new_key` | `SingleCryptor` |
| key registry | `registry.rs` | `RwLock<Vec<ProviderEntry>>` | register, load, disable, enable, clear; three lookups | `Registry` |
| key material | `key.rs`, the two configs | none of its own | JWK parsing and validation, `resolve_key`, the overlay of kid and jku | `KeyResolution` |
| header layout | `tensor.rs` | none | `prepare`, `Metadata::new`, `validate`, (de)serialization | `Layout` |
| AEAD, chunk IVs | `encryption.rs`, `cryptotensors.rs` | none | `encrypt_data`, `decrypt_data`, `derive_chunk_iv`, the chunk loops | `ChunkedCipher` |
| slicing | `slice.rs`, `lib.rs` of the Python binding | an iterator | `new`, `next` | `SliceIterator` |
| Python binding | `src/bindings/python/src` | an open file, slices, decrypted buffers | `safe_open`, `get_tensor`, `get_slice`, registry functions | `SafeOpen` |
| signing | `signing.rs` | none | sign, verify | taken as perfect |
| access policy | `policy.rs` | a compiled engine | evaluate | a Boolean |

A save resolves the two keys (config, then registry), lays the tensors out
(`prepare`), encrypts the selected ones, wraps the DEKs, signs the header once
and writes header and data. An open parses the header, which arrives as a
`HashMap`, sorts it by offsets, resolves both keys, verifies the signature over
the header *rebuilt in that order*, evaluates the policy and unwraps every DEK
into a prepared context. A read decrypts into the tensor's buffer the first time
and answers from it afterwards. A rewrap parses, replaces the cryptors, the keys,
the signer and the policy, in this order, signs a new header and puts it before
the unchanged data. The registry is shared by all of them and by the Python
functions that register and disable providers. A Python handle keeps the header
it parsed, a mapping, the open file and the buffers of its cryptors, and shares
all of them with the slices it gave out.

### What is hard here

* *Half-done steps.* `CryptoTensors::rewrap` can fail between any two of its
  assignments, and the object is public and stays in the caller's hands.
* *Order that nobody fixed.* The signature covers an order of tensors which the
  reader reconstructs from a `HashMap`.
* *Stale objects.* A file is written back from an object parsed from an older
  one; a Python handle keeps offsets of a header that is no longer there, and
  Torch and Paddle open the path a second time.
* *Threads.* Many readers of one tensor meet on a `OnceCell` whose initializer
  itself waits for the rayon pool.
* *A file that changes while it is read.* Chunks are read one `pread` at a time.
* *A list scanned while its sources change.* Providers are tested and asked in
  separate steps; the environment variable and the key file behind them move,
  and the two keys of one save are looked up one after the other.
* *Long sequences of registry calls.* Disabling removes, enabling sets a flag,
  registering replaces by name and sorts.
* *Crashes.* `serialize_to_file` and `rewrap_file` truncate and write in place.
* *Numbers.* The walk of `validate` is all that stands between a header of any
  origin and slices of the data; IVs are a counter on a random base; slices cut
  nested byte ranges of elements smaller than a byte.

`PROJECT.json` lists each of these as a hazard at its line, with the properties
that would catch it going wrong, or why there is none.

### What makes each part correct

* *File life cycle*: header and data belong together; exactly the keys the
  header names open it; a rewrap changes the keys and the policy and nothing
  else; a failed call leaves the file alone; a torn file is not opened.
* *Opened file*: `tensor()` answers with what was saved or with an error, no
  matter how many rewraps came in between; a context is prepared for every
  encrypted tensor; one signature per signer.
* *Lazy decryption*: one closure at a time; only authenticated plaintext is
  published; a published buffer never changes; every call returns; after the
  first success no call fails.
* *Registry*: one provider per name; priority, then age; a lookup passes over no
  provider that could answer it; a disabled provider is silent.
* *Key resolution*: what was saved with keys of the registry opens with them;
  rotated keys open old files.
* *Header layout*: what opens is tiled by its tensors to the byte; what was
  written opens and reads back; elements lie aligned in the file.
* *Chunks*: no IV is used twice under one DEK; the chunks partition the data;
  what opens is what was sealed.
* *Slices*: the iterator yields the bytes the index expression denotes.
* *Handles*: an encrypted tensor is genuine or an error whatever happens to the
  file; a handle nobody disturbs reads everything, also through slices that
  outlive it.

## 2. The modules

| module | what it is |
|---|---|
| `EncryptedFile` | abstract: what an encrypted file promises, without cryptography |
| `CryptoTensors` | the file's life as the code implements it; refines `EncryptedFile` |
| `LazyTensor` | abstract: what a lazily decrypted tensor promises |
| `SingleCryptor` | one tensor, its `OnceCell`, the pool, the changing file; refines `LazyTensor` |
| `Registry` | the provider list, its writers and its scans |
| `KeyResolution` | the keys of saves, opens and rewraps, over a changing registry |
| `Layout` | `prepare`, `validate`, reading and writing headers over a bounded `usize` |
| `ChunkedCipher` | chunks, IVs, sealing and opening by parallel tasks |
| `SliceIterator` | the walk of `SliceIterator::new` and `next`, from Rust and from Python |
| `SafeOpen` | Python handles and slices on a path that is written, torn and replaced |
| `MC...` | the instances for TLC |
| `CryptoTensorsProofs`, `SingleCryptorProofs`, `RegistryProofs`, `KeyResolutionProofs`, `LayoutProofs`, `ChunkedCipherProofs`, `SafeOpenProofs`, `SliceIteratorProofs` | the theorems |

### CryptoTensors

`disk` is the file and `obj` the opened `SafeTensors` with its `CryptoTensors`;
`saves` numbers the generations of contents and `reply` is what the last call
returned. The serialized order of the tensors is a strict total order and the
`data_offsets` are a function into pairs of numbers; one unit of length stands
for every size but zero.

| action | code |
|---|---|
| `Save` | `serialize`: `prepare`, `from_serialize_config`, encryption, `generate_metadata`, the write |
| `Open` | `deserialize_with_config`, `from_header_with_config`; the order the parser finds is any that `Parses` allows |
| `Tensor`, `Iter` | `tensor` passes a decryption error on; `iter` and `tensors` answer with the raw bytes |
| `Rewrap` | `CryptoTensors::rewrap` to its end |
| `RewrapOtherAlgorithm`, `RewrapInterrupted`, `RewrapBadSigner`, `RewrapPlain` | its failing exits: before the first cryptor, between two cryptors, after the keys and before the signer, no crypto header at all |
| `WriteBack`, `WriteBackSigned` | `generate_metadata`, which signs once, and the write of `rewrap_file` |
| `DamageBlock` | bytes that rot on disk |
| `Close` | the object is dropped |

The constant `KeepOnError` says what the caller of a failed rewrap does.
`rewrap_header` returns the error and drops the object (`FALSE`);
`CryptoTensors::rewrap` is public and takes `&mut self`, so a direct caller may
go on with it (`TRUE`).

Cryptography is perfect: a wrapped DEK opens under the key it was wrapped by, a
block under the DEK it was made with, a signature verifies for its key over the
header it was made for. Keys arrive as parameters of the actions, which covers
every content of the registry. A policy is the Boolean it evaluates to.

`EncryptedFile` says the same without wrapping, signing, order or offsets: a
file is a generation of contents with a set of secret tensors and one pair of
keys. `KeepsPromise` is the refinement, with `AbstractFile` and
`AbstractHandle` as the mapping.

### SingleCryptor

`cell`, `buffer` and `owner` are the `OnceCell`, what it holds and whose closure
runs; `chunk` and `bytes` are the state of the chunks and what was read for
them; `call` is where each call is; `stack` is what each rayon worker has on
its stack. `file` says of each chunk on disk whether it is the one the
cryptor's DEK and tags were made for. `pooled` is the set of calls made by tasks
of the pool (tensors read in a `par_iter`), chosen once from `Callers`.

`EnterFull`, `EnterEmpty` and `EnterBusy` are the three cases of
`get_or_try_init`. `ReadWhole`, `StartWhole` and `ReadWholeShort` are the
strategy that reads everything first, `ReadChunk`, `ReadChunkShort` and
`DecryptChunk` a chunk's task, `Finish` the closure's return. `TakeCall` and
`TakeChunk` are the pool: a worker that waits for its join steals, in particular
another call that reads the same tensor. `Rewrite` is another process that writes
the file. The v1 format, one block per tensor, is the instance with one chunk. In
an instance either all calls are made on threads or all on the pool: the root job
that a thread's closure hands to a worker, which could then also wait and steal,
is not modelled, so an instance that mixes the two would show too few deadlocks.

### Registry

`list` is the vector, `envKeys` and `fileKeys` what stands behind two of the
providers, `scan` the lookups under way, `answer` their results. `could` and
`silenced` are history variables: the providers that could have answered a
lookup at every moment since it began, and the names disabled since they were
last registered. Writers have the lock for the whole of their change (`Unread`)
and are one action each; a reader holds it for the scan, which is a step per
provider test (`TestProvider`) and per key request (`GetKey`), with
`ChangeSource` in between. `Arranged` says what `Vec::retain` and the stable
`sort_by` leave of the vector, by its elements and their order.

A provider is registered at any priority (`RegisterWithPriority`, with 100 from
Python), at the default one (`RegisterDefault`, 0) or as a native one
(`LoadNative`, 50). Rust programs may register the environment or the file
provider again, so entries of different kinds tie, and one provider comes at
different priorities.

### KeyResolution

`job` is the save, open or rewrap under way, and each of its key lookups is a
step: `OpenEnc` and `OpenSign` (`from_header_with_config`), `MakeEnc` and
`MakeSign` (`from_serialize_config`, `CryptoTensors::rewrap`). Between any two of
them `Change` registers or disables a provider, sets the environment variable or
replaces the key file. `saved` is the file: the two keys its header names, which
is what serialization leaves of a `KeyMaterial` (`InHeader`), and the secrets it
was made with. `Answer` gives what each provider answers, `LookUp` the first
answer, `ResolveKey` the order given key, registry, error, with `from_jwk`'s
checks; `Overlay` and `UpdateFromKey` are what the two configs do to a key that
was found. A lookup is one step here; `Registry` takes it apart. The order of
the registry is that of its providers' priorities from the first registration
on (`sorted`), before it that of `Initial`; direct providers are registered at
`PRIORITY_DIRECT` there, as from Python. `KidsAgree` (a `DirectKeyProvider`
holds a key under the kid the key bears) and `PairsMatch` (the two halves of a
JWK are a pair) are what `SavedOpens` depends on.

### Layout

One state machine runs writer and reader. `Sort`, `LayOut`, `LaidOut`,
`ValidateEntry`, `RefuseEntry`, `WriterValidated`, `SerializePanics` and
`Serialize` are `prepare`, `Metadata::new` with its `validate`, and `serialize`;
`ReadRefused`, `Parse`, again `ValidateEntry` and `RefuseEntry`, `ReadDone` and
`HeaderDone` are `read_metadata` and `read_metadata_header_only`. The reader
starts from what was written, from a file somebody cut or extended (`Tear`), or
from a buffer of any other origin. `Rewrap` puts a header of another length
before the data. Products in `validate` are checked and give `None`; sums of
offsets that the code leaves unchecked wrap at `Limit`. A buffer is a slice, so
its length is below `Limit`: a file too long for that cannot be read whole
(`Parse`), only its header can. Of the JSON only the entries and their lengths
are kept. The products of shapes and the data that was written are recursive
functions (`NElements`, `Product`, `Written`). `AlignmentAssumption` is a fact
of `Dtype`: types are declared in the order of their sizes, and among those of
whole bytes each size divides the larger ones.

### ChunkedCipher

`Init` chooses a length, a chunk size (or none, the v1 format) and a base IV.
`SealChunk` and `RefuseChunk` are the tasks of `encrypt`, in any order,
`Collect` and `CollectError` the collection of their tags in index order or of
the first error; `OpenChunk` and `OpenFails` the tasks of `perform_decryption`,
`Publish` its end. An IV is its counter: the other eight bytes are common to
all chunks. What opens is what was sealed with that IV and tag, nothing else.

### SliceIterator

`RustSlice`, `PythonSlice` and `PythonRefused` are the two ways in. The walk over
the dimensions, innermost first, is one action per branch: `Whole`, `FirstCut`,
`Repeat`, and the refusals `TooMany`, `OutOfRange`, `Misaligned`; `Reversed` is
the panic of a range that ends before it begins, at the push in a debug build
and later in a release build; `Overflows` is the panic of a debug build at a
bound whose `+ 1` passes the largest `usize`, which a release build wraps
(`PlusOne`). `NextChunk` is `next`. The reference definition
against which the chunks are compared (`WantedBits`) says which elements of a row
major tensor the indices select, and knows nothing of spans; `ShapeAsked` does the
same for the shape. Products and lengths are recursive functions (`Inner`,
`RemainingByteLen`). `Limit` is where `usize` ends: for the bounds, for the 1 that
is added to them and for the subtraction of a reversed range. The span of a view
and of each of its inner dimensions fits in a `usize` (`SizeAssumption`): left
out are tensors without elements whose other dimensions overflow by themselves.

### SafeOpen

A file is a sequence of cells: the parts of its header, then one cell per
tensor. `SerializeFile` or `RewrapFile` makes the image to write, `Truncate`
and `WriteCell` write it, `WriterFails` stops anywhere in between; `Replace`
is a rename from outside. On the reading side `OpenFile`, `MapFile`,
`ReadMetadata`, `KeepMapping` and `MapPath` are the steps of `Open::new`,
interleaved with the writer's; `ReadTensor`, `TakeSlice`, `ReadSlice`, `Exit`
are the methods, by storage; `Poke` is Python code that writes through an array
that shares memory with a decrypted buffer. `MetadataFaults` and a plain read
beyond the end of a shrunken file kill the process.

## 3. The runs

| run | bounds | shows |
|---|---|---|
| `core` | 2 tensors, 3 master keys of 2 algorithms, 3 signing keys of which 1 does not decode, 1 save, at most 1 empty tensor | `TypeOK`, `HeaderCoherent`, `NamedKeysOpen`, `DeksMatchData`, `ReadsGenuine`, and the refinement `KeepsPromise` |
| `lazy` | 3 calls, on threads or on the pool, 2 workers, 2 chunks | `TypeOK`, `OneInitializer`, `PublishedIsPlain`, `PublishedOnce`, `ThreadedCallsReturn`, `IsLazyTensor` |
| `registry` | 2 direct providers, 1 native, file and environment, priorities 100 and the default 0, 3 changes, 1 thread | `TypeOK`, `NamesUnique`, `PriorityThenAge`, `FirstAbleAnswers`, `DisabledAreSilent` |
| `resolve` | 2 kids, 2 secrets, 2 encryption algorithms, 4 contents of a direct provider, 2 of environment and file, 7 configurations, 2 changes | `TypeOK`, `SavedOpens`, `RotatedKeysOpen` |
| `layout` | saves of up to 3 tensors of 5 types, foreign headers of up to 3 entries, `Limit` 64, headers up to 40 bytes, 1 rewrap | `TypeOK`, `OpenTiles`, `OpenSized`, `ReadsBack`, `WrittenOpens`, `ElementsAligned` |
| `chunks` | lengths 0 to 6, chunk sizes none and 1 to 3, counter 0 to 4 | `TypeOK`, `NoIvTwice`, `ChunksPartition`, `ReadIsWritten`, `StoredOpens`, `RefusedOnlyOnOverflow` |
| `slices` | 9 shapes of up to 3 dimensions, elements of 4, 6 and 8 bits, every pair of indices with bounds up to 3 and at the largest `usize` (fewer kinds for three and four indices), debug and release builds | `TypeOK`, `ChunksAreSelection`, `ShapeMatchesBytes`, `WholeBytesServed` |
| `safe_open` | 1 handle of each of 4 frameworks, 2 tensors, headers of 1 or 2 cells, 2 files, 2 saves, 1 rewrap | `TypeOK`, `EncryptedGenuine`, `UndisturbedReads`, `AcceptsOnlyWhole` |
| `two_empty`, `lazy_pool`, `slice_empty`, `plain_slice` | | the findings of section 6, each a property the code does not have |

Why the bounds are enough to be interesting.

* *core*. Two tensors are the fewest that have an order, a rewrap that is half
  done and a file that is partly encrypted. The two keys of one algorithm and the
  third of another give a rewrap that succeeds and one that is refused; the
  signing key that does not decode is the only way to the exit after the keys
  were replaced. One empty tensor gives equal starts of two spans; with two the
  spans tie (run `two_empty`). Within one save an object already meets a file
  that other rewraps have written back. A second save, where an object of one
  generation is written over another, is not in the run for its size; that case
  is proved, for any number of saves (`DataCorrect`, `HeaderCorrect`,
  `NamedKeysCorrect`), and a reader's view of it is `safe_open`'s.
* *lazy*. Three calls give an owner, a waiter and a call that arrives after a
  failed closure. Two chunks are the fewest that can be read from two files, and
  two workers the fewest of which one waits for the other's chunk.
* *registry*. Three changes are register, disable and register again. At 100 the
  direct, file and environment providers tie, at 0 all of them with the initial
  environment entry; a direct provider registered again at the other priority
  moves. The two direct providers share a name and differ in their keys.
* *resolve*. A rotation needs the old and the new key, one kid each; two changes
  put one before and one after a save, or both between its two lookups. The
  direct sets hold a key under a kid it does not bear, a key of the other
  algorithm, and a pair without its private half.
* *layout*. Below 64 there are shapes whose partial products overflow, shapes
  whose product wraps to a small number, offsets at the limit, and sums of
  offsets that wrap; behind a header of 40 bytes the lengths of three tensors
  wrap the final sum of `read_metadata` as well. Three entries are the fewest of
  which one has neighbours on both sides. `JsonLens` lie on both sides of a
  multiple of eight and of the largest header.
* *chunks*. The lengths are below, at and above multiples of the chunk sizes,
  and zero; six chunks overflow the counter from every base.
* *slices*. Four bits make odd ranges that do not end on a byte, six bits
  ranges that end on one every fourth element; sizes 0 and 1 are the dimensions
  where whole and partial, or empty and partial, can be confused. The largest
  `usize` stands in every kind of bound, from Rust and from Python.
* *safe_open*. Handles share nothing but the files, and the writer does not see
  them, so one handle shows what any of them sees. Two header lengths are the
  fewest with which a rewrap moves the data. Two files and two saves give a
  handle on the old file while the path names the new one. The four frameworks
  lie on both sides of the versions `Open::new` compares with.

Every mutant in `PROJECT.json` is found within these bounds.

Deadlock is checked in `core`, `lazy`, `registry`, `resolve` and `two_empty`,
`lazy_pool`. The other configurations switch it off because their systems end:
a layout that was read, a tensor that was opened, an iterator that is exhausted,
a process that was killed. `SingleCryptor` can always take `Rewrite`, so a
deadlock of its calls shows as a violation of `EveryCallReturns` and not as a
TLC deadlock.

### Fairness

`SingleCryptor` assumes weak fairness of every call's steps and of every
worker's: the operating system runs every runnable thread, and a rayon worker
looks for tasks while there are any. Nothing is assumed of those who write the
file. Under it `ThreadedCallsReturn` holds: when all calls are made on threads
every call returns, and that it does not hold of calls on the pool is run
`lazy_pool`. `LazyTensor`, and with it `IsLazyTensor`, is a safety
specification. `Registry` has weak fairness of the lookups' steps and none of the
writers or the sources. The other modules state safety properties and no
fairness.

## 4. What is proved

Eight modules hold theorems. The assumptions are those of the modules
(`ConstantsOK`, `NoneOK`, `PromiseOK`, `CallsOK`, `ConstantsAssumption` of
`Registry` and of `SafeOpen`, `KeysAssumption`, `NoneAssumption`,
`LayoutAssumption`, `AlignmentAssumption`, `ChunkAssumption`, `SliceAssumption`,
`SizeAssumption`), which TLC evaluates on each run; where a theorem assumes more,
it says so.

Each theorem is the usual three facts, the invariant initially, its preservation
by each action of `Next`, and its strength.

**CryptoTensorsProofs**, for every set of tensors and keys, every bound and
every assignment of algorithms:

* `TypeCorrect`: `Spec => [](TypeOK /\ ContextsPrepared)`. `TypeOK` alone is not
  inductive: a rewrap wraps the DEK out of the prepared context, and is well
  typed only if there is one. `ContextsPrepared` (every cryptor of an opened
  object with a wrapped DEK has that DEK in its context) is the strengthening.
* `DataCorrect` (`DeksMatchData`) and `ReadsCorrect` (`ReadsGenuine`), whether
  callers keep failed objects or not (the run checks it for callers that do
  not). The invariant `DataInv` adds to `TypeInv` that an opened object's
  blocks, too, match its DEKs: it is the object that is written back, possibly
  over another file, and the object whose context decrypts.
* `HeaderCorrect`: `KeepOnError = FALSE` implies `Spec => []HeaderCoherent`. The
  invariant `HeaderInv` adds `KeysAgree`: in an opened object every DEK is
  wrapped by `enc` and the signer is `sign`. It is what a failed rewrap breaks,
  and why the assumption is needed: with `KeepOnError = TRUE` in `core.cfg` TLC
  finds a header that names keys which did not wrap or sign it.

and for `KeepOnError = FALSE` and `MaxEmpty <= 1`:

* `NamedKeysCorrect`: exactly the keys a header names open the file. The
  invariant `KeysInv` adds to `HeaderInv` that the offsets of a file determine
  its order: starts grow along the order, strictly behind a tensor that has
  bytes, and of two tensors at most one has none. Then `Parses` yields one order
  only (`ParseUnique`) and the signature is verified over the header that was
  signed. The bound on empty tensors cannot be dropped (run `two_empty`).
* `KeepsPromiseCorrect`: `CryptoTensors` implements `EncryptedFile`. Initial
  states map to initial states, and each action is shown to be a step of the
  promise, or none, under `AbstractFile` and `AbstractHandle`. The invariant
  `PromiseInv` is `KeysInv`, `DataInv` and two facts the mapping needs: a block
  that was damaged before the file was opened has no buffer of decrypted data
  (`BuffersIntact`, so an error of `tensor()` is one the promise allows), and
  there are keys wherever there is a file (`KeysExist`, so the abstract file
  always has a pair).

**SingleCryptorProofs**, for every number of calls, workers and chunks, with
calls on threads and on the pool in any mixture: `TypeCorrect`,
`InitializerCorrect` (`OneInitializer`), `PublishedCorrect`
(`PublishedIsPlain`), `PublishedForGood` (`PublishedOnce`) and `Refinement`
(`IsLazyTensor`, a step at a time). The invariant `ClosureInv` needs three facts
besides the properties: a chunk is on at most one stack, and once
(`OnceOnStack`), so a stolen chunk is done once; no chunk is queued or taken
before the closure waits for its chunks (`QueuedForJoin`); and a chunk is
skipped only after another failed (`SkippedAfterFailure`), so `Finish` publishes
only if all were decrypted.

**RegistryProofs**, for any providers, priorities, threads and number of changes:

* `NamesCorrect` (`NamesUnique`) and `OrderCorrect` (`PriorityThenAge`). The
  invariant `ListInv` says what the vector is between two calls: no name twice
  and no entry younger than the last change (`Kept`), and either sorted or still
  the initial vector, which its `OnceLock` fills unsorted. The lemmas about
  `Arranged` carry both through `retain` and `sort_by`.
* `TypeCorrect`, `FirstAbleCorrect` (`FirstAbleAnswers`) and `SilenceCorrect`
  (`DisabledAreSilent`). `ScanInv` says of a lookup under way (`Sound`) that the
  providers which could have answered it since it began can answer it now, and
  that its position is not past one of them; no writer comes in between to move
  the entries.

**KeyResolutionProofs**, for any keys, kids, algorithms and contents of the
providers:

* `TypeCorrect`. `TypeInv` adds the types of the providers, which decide what a
  lookup can return, to `TypeOK`.
* `RotatedKeysCorrect` (`RotatedKeysOpen`), an action property: whenever the
  kids in a header still stand for its keys, the open succeeds.
* `SavedOpensCorrect` (`SavedOpens`), under `KidsAgree` and `PairsMatch`,
  without which a registry can answer a kid with a key that bears another one.
  The invariant `SteadyInv` says that a file whose save saw no change names its
  keys as the registry does, and that a job no change has interrupted has found
  the key it would find now.

**LayoutProofs**, for every buffer, every list of tensors and every limit of
`usize` that holds the largest header:

* `TypeCorrect`, and `TilesCorrect` (`OpenTiles`): the tensors of whatever opens
  lie end to end over all of the data. The sum that `read_metadata` compares
  with the buffer's length may wrap, and `CompleteExact` shows that the
  comparison then fails. The invariant `LayoutInv` adds to the types of writer
  and reader the tiling of the entries walked so far (`Walk`).
* `SizedCorrect` (`OpenSized`): what opens has spans of its tensors' sizes,
  whatever partial product would have wrapped. `HeaderInv` adds that the walked
  entries passed the checked products (`WalkOk`).
* `ReadsBackCorrect` (`ReadsBack`): `ServesInv` follows the entries from the
  caller to the file and through the reader's sort, by name, with the bytes they
  span.
* `AlignedCorrect` (`ElementsAligned`): `AlignedInv` follows the remainder of
  every offset through a save that is sorted by type, and rests on
  `AlignmentAssumption` and on the padding of the header.
* `WrittenOpensCorrect` (`WrittenOpens`): no check of the reader refuses what
  the writer wrote. `OpensInv` says that a written file's entries form a chain
  that fills the data; the reader's sort may leave entries of equal offsets in
  another order, and `SortedAlike` shows that their spans are then the same, so
  the walk meets the same numbers.

**ChunkedCipherProofs**, for every length, chunk size and counter width:
`TypeCorrect`, `IvsUnique` (`NoIvTwice`), `PartitionCorrect`
(`ChunksPartition`), `ReadCorrect` (`ReadIsWritten`), `StoredCorrect`
(`StoredOpens`) and `RefusalCorrect` (`RefusedOnlyOnOverflow`). The invariant
`CipherInv` says that what is sealed at an index is `Seal` of that index, what
is stored is what was sealed unless it was damaged, and what was opened is what
was sealed; the arithmetic of quotients is in lemmas of its own.

**SafeOpenProofs**, for any number of handles, tensors, files, saves and
rewraps:

* `GenuineCorrect` (`EncryptedGenuine`). The invariant `OpenInv` says that a
  handle holds bytes of an encrypted tensor only if they are those of the save
  whose header it parsed or were changed through an array over them; nothing is
  needed about the files, since sealing answers for them.
* `TypeCorrect`, `WholeCorrect` (`AcceptsOnlyWhole`) and `UndisturbedCorrect`
  (`UndisturbedReads`), from `ReadInv`, which adds what the files are
  (`FilesInv`: each is the beginning of the image of some header made so far,
  the writer's file the beginning of the image it is writing) and what a handle
  has at each stage of an open (`HandlesInv`). A header found whole in front of
  a file is then in front of its own image, and the cells behind it are those of
  its save.

**SliceIteratorProofs**, for tensors of any shape and element size, for any
request of either language, the largest `usize` included, and for both builds:

* `TypeCorrect`. `TypeInv` adds that `index` holds indexers, and that the view
  and the request are among those of the constants.
* `ServesCorrect` (`WholeBytesServed`). `IndexRight` says that the indexers walked
  over are those of the request, and `Indexed` which indices an indexer takes:
  the range from `Begin` to `End`, and this is what the caller chose, unless a
  bound wraps, which no request that is to be served has. `ServedInv`
  says that the span stays a number of whole bytes and that no range found runs
  backwards, so neither the alignment checks nor `next` can fail.
* `SelectsCorrect` (`ChunksAreSelection`). `SelectionInv` says at each turn of the
  loop that the span is the `Stride` of the dimension, that the ranges found so
  far hold exactly the bits `Selected` in one index of it, in ascending order and
  inside its span, and that there are none only if every dimension inside was
  taken whole; afterwards, that what was handed out and what is left are the
  selection. `SelectedOutwards` takes `Selected` from one dimension to the next,
  `CutSelects` and `RepeatSelects` do the same for the ranges of the first cut
  and of a repetition.
* `ShapesCorrect` (`ShapeMatchesBytes`). `ShapeInv` says that the shape pushed so
  far is the one asked for on the dimensions walked, and that the ranges are of
  one length and together as many bits as that shape has.

The last two carry their exceptions in the properties themselves: what the
binding ignores of a Python request (`WithinPython`), an empty selection outside
of a cut (`EmptyOutsideCut`, which `slice_empty` shows to be necessary), in a
release build a bound whose `+ 1` wraps (`BoundWraps`; without it TLC finds both
violated) and, for the shape, a range that ends before it begins
(`ReversedRange`). For a cut whose bits do not end on bytes nothing is claimed:
it is refused.

In `LayoutProofs` and `SliceIteratorProofs` the recursive functions are reasoned
about by induction on a number: `Induct` and `Recursion`, derived from `WFMin`
and `NatLessThanWellFounded`, give their values, and every other lemma about
products, written data, shapes and lengths rests on these two.

Of the properties of the runs only `ThreadedCallsReturn` has no theorem: liveness
under fairness, and `ENABLED`, are out of the prover's reach, and it stays with
TLC. The library's theorems on induction and recursive definition take an
operator as a parameter and cannot be instantiated by the provers here, which is
why the functions a theorem depends on are recursive functions on numbers and
never `RECURSIVE` operators.

## 5. What is not modelled, and why

* Cryptographic algorithms, signing and the Rego engine are libraries or wrap
  them; they are taken as perfect. A policy is the Boolean it evaluates to.
* JSON, UTF-8 and base64 are abstracted to the entries and keys they carry.
* The framework adapters (`src/bindings/python/py_src`) convert between tensors
  and bytes and have no protocol of their own. `view.rs` of the binding is not
  compiled (`lib.rs` has no `mod view`). The zero copy feature of the binding is
  taken as built.
* Verification of a native provider's library is the guard of `LoadNative`; a
  load that fails leaves the registry alone.
* The file provider of `Registry` has no search paths, so that it matches by
  `jku`. Providers of a program's own (`KeyProvider` is a public trait) are not
  in `Registry`; priorities are arbitrary all the same.
* `KeyMaterial::load_key`, which no other code calls, policies in
  `KeyResolution`, JWKs whose two halves do not belong together, key dicts
  without key bytes (`new_enc_key` then draws a random key).
* `CryptoTensors` re-keyed before it was ever serialized.
* Re-entrant providers: a provider that calls the registry back under its lock
  waits for itself, in one step and whatever else happens; those of this
  repository do not. A lock poisoned by a provider that panics is not modelled.
* Pool tasks and threads that read one tensor at the same time are in the
  theorems of `SingleCryptorProofs` but not in the runs: see section 2.
* Benchmarks, fuzz targets, samples, the compatibility package and CI.

## 6. Findings

Each is a run that TLC finds violated; `PROJECT.json` quotes the line that says
otherwise.

1. `two_empty`: two empty tensors have equal offsets, the parser's order of them
   is that of a `HashMap`, and the rebuilt header does not always verify: the
   rightful keys fail now and then.
2. `lazy_pool`: tensors read from rayon tasks can deadlock: a worker waiting for
   its chunks takes another call for the same tensor, which waits for the closure
   below it on the same stack.
3. `slice_empty`: a selection that keeps no element of an outer dimension while
   it cuts an inner one yields the bytes of the whole tensor (`slice.rs` 364).
4. `plain_slice`: `__getitem__` of a plain tensor's slice in a partly encrypted
   file fails over a memory mapping; `get_tensor`, and the slices of Torch and
   Paddle storages, read it (`lib.rs` 1850).

Remarks without a run, met while translating.

*Files and opened files*

* An object kept after a failed `CryptoTensors::rewrap` can write a header that
  names keys which did not wrap its DEKs or sign it (`cryptotensors.rs` 1770;
  `KeepOnError = TRUE`).
* `iter()` and `tensors()` hand out the stored bytes of a tensor that does not
  decrypt (`tensor.rs` 775), where `tensor()` returns the error.
* `with_new_key` compares algorithms as they are spelled (`cryptotensors.rs` 970):
  an alias of the same algorithm is refused.
* With one key given, the other is still looked up in the registry
  (`cryptotensors.rs` 1340, 1353); `KEY_MANAGEMENT_GUIDE.md` 50 says that a lookup
  only occurs when both are absent.
* After an in-place rewrap to a header of another length, an open handle reads
  other bytes for a plain tensor, silently, and an error for an encrypted one; a
  rewrap that keeps the header's length leaves handles readable. A mapping of a
  file another process shortens faults.
* `_safe_open_handle` opens the name of the file object it is given again.

*Headers*

* Duplicate tensor names panic in `Serialize for Metadata`; entries of equal
  offsets come back in any order.
* The unchecked sums of `read_metadata` and `prepare` can wrap in a release
  build, without consequence (`TilesCorrect`). `TensorView::new` multiplies the
  shape unchecked.

*Slices*

* Ranges of sub-byte elements are refused as `Misaligned` per dimension, also where
  the whole request falls on bytes in another way (`WholeBytesServed` states what
  is served). Any narrowing of a dimension of size zero, `[:]` too, is out of range.
* A range that ends before it begins panics, earlier in a debug build.
* The `+ 1` of a bound is not checked (`slice.rs` 302 to 316). In a release build
  `..=usize::MAX` of one dimension is answered with no bytes and a length of 0, and
  `(Excluded(usize::MAX), Unbounded)` with the whole dimension; a debug build
  panics (`BoundWraps`).
* From Python: the step of a slice is ignored, though the docstring of
  `get_slice` shows one; surplus indices are dropped by `zip`; negative bounds are
  refused; a 4 bit tensor's slice over Torch storage does not halve the shape.

*Keys*

* Until the first registration the environment provider answers before the file
  provider (`registry.rs` 766), against `KEY_MANAGEMENT_GUIDE.md` 321.
* A JWK without `alg` does not parse (`key.rs` 72), though the field is treated as
  optional (`key.rs` 28).
* A provider's JWK that `from_jwk` rejects shadows every provider behind it. The
  environment and file providers never give a signing key.
* A JWK's own `jku` goes into the header of a file whose key was not found by it,
  and the open may then find another key; `SavedOpens` names the case.
* The two keys of one save may come from two moments of the registry.
* The second fallback lookup in `from_header_with_config` is never reached.
* `docs/source/crypto/key_management.mdx` 215-216 disables a provider named
  "temp". No provider has that name (`DirectKeyProvider` holds what a program
  registers), so the call changes nothing.

## 7. Plan

What is left, in order of worth.

| module | what |
|---|---|
| `SingleCryptor` | the root job of a closure that runs on a thread, so that runs may mix threads and pool tasks |
| `KeyResolution` with `Registry` | a lookup taken apart between the steps of a save |
| `Registry` | providers that call back or panic under the lock |
