--------------------------- MODULE SingleCryptor ---------------------------
(***************************************************************************)
(* One encrypted tensor read by several threads at once.  The first read   *)
(* decrypts it chunk by chunk into SingleCryptor::buffer, a sync OnceCell; *)
(* the others wait for it.                                                 *)
(*                                                                         *)
(* The chunks are tasks of the rayon pool (par_chunks_mut, try_for_each).  *)
(* A call made on a thread of its own sleeps while the pool works; a call  *)
(* made by a task of the pool ("pooled": the caller reads tensors from a   *)
(* par_iter) keeps its worker, and a worker that waits for chunks other    *)
(* workers took runs further tasks on top of its stack.                    *)
(*                                                                         *)
(* The file may change while it is read: rewrap_file and serialize_to_file *)
(* write in place, and nothing locks the file.                             *)
(***************************************************************************)
EXTENDS Naturals, Sequences, FiniteSets

CONSTANTS
    Calls,      \* calls of decrypt_from_file, or of decrypt, on this tensor
    Callers,    \* which of them may be made by tasks of the rayon pool: sets
    Workers,    \* the pool's workers
    Chunks,     \* 1 .. number of chunks
    None

ASSUME CallsOK ==
    /\ Callers \subseteq SUBSET Calls
    /\ Chunks \subseteq Nat /\ IsFiniteSet(Chunks)
    /\ Calls \cap Chunks = {}
    /\ None \notin Calls

VARIABLES
    pooled,    \* the calls made by a task of the rayon pool
    file,      \* the bytes of each chunk on disk: those this cryptor's DEK
               \* and tags were made for ("own"), or anything else ("other")
    cell,      \* the OnceCell: "empty", "busy" or "full"
    buffer,    \* what it holds once full
    owner,     \* the call whose closure runs
    bytes,     \* the bytes the running closure has read, per chunk
    chunk,     \* the state of its chunks
    call,      \* where each call is
    stack      \* each worker's tasks, the running one last

vars == <<pooled, file, cell, buffer, owner, bytes, chunk, call, stack>>

Bytes      == {"own", "other"}
ChunkState == {"todo", "queued", "taken", "plain", "failed", "skipped"}
CallState  == {"new", "wait", "read", "join", "ok", "error"}
Tasks      == Calls \cup Chunks

TypeOK ==
    /\ pooled \in Callers
    /\ file \in [Chunks -> Bytes]
    /\ cell \in {"empty", "busy", "full"}
    /\ buffer \in [Chunks -> ChunkState] \cup {None}
    /\ owner \in Calls \cup {None}
    /\ bytes \in [Chunks -> Bytes \cup {None}]
    /\ chunk \in [Chunks -> ChunkState]
    /\ call \in [Calls -> CallState]
    /\ stack \in [Workers -> Seq(Tasks)]

AllDone == \A k \in Chunks : chunk[k] \in {"plain", "failed", "skipped"}
Failing == \E k \in Chunks : chunk[k] = "failed"

-----------------------------------------------------------------------------
(* The pool *)

Idle(w)       == stack[w] = <<>>
Top(w)        == stack[w][Len(stack[w])]
OnTop(w, task) == ~Idle(w) /\ Top(w) = task
Push(w, task) == stack' = [stack EXCEPT ![w] = Append(@, task)]
Pop(w)        == stack' = [stack EXCEPT ![w] = SubSeq(@, 1, Len(@) - 1)]

(* A call executes on a thread of its own, or on top of its worker's stack, *)
(* and leaves the stack as it returns.                                      *)
Runs(c)  == c \in pooled => \E w \in Workers : OnTop(w, c)
Leave(c) == IF c \in pooled THEN \E w \in Workers : OnTop(w, c) /\ Pop(w)
                            ELSE UNCHANGED stack

(* A worker takes a task when it has none, or while its own closure is at   *)
(* its join: one of the closure's chunks, or, once others took some of them *)
(* and it must wait, whatever task it finds.                                *)
Joins(w) == ~Idle(w) /\ Top(w) = owner /\ call[owner] = "join" /\ ~AllDone

TakeCall(w, c) ==
    /\ c \in pooled
    /\ call[c] = "new"
    /\ \A v \in Workers : \A i \in 1 .. Len(stack[v]) : stack[v][i] # c
    /\ \/ Idle(w)
       \/ Joins(w) /\ \E k \in Chunks : chunk[k] = "taken"
    /\ Push(w, c)
    /\ UNCHANGED <<file, cell, buffer, owner, bytes, chunk, call>>

(* try_for_each: a chunk that starts after another one failed is skipped.   *)
TakeChunk(w, k) ==
    /\ chunk[k] = "queued"
    /\ Idle(w) \/ Joins(w)
    /\ IF Failing
       THEN chunk' = [chunk EXCEPT ![k] = "skipped"] /\ UNCHANGED stack
       ELSE chunk' = [chunk EXCEPT ![k] = "taken"] /\ Push(w, k)
    /\ UNCHANGED <<file, cell, buffer, owner, bytes, call>>

-----------------------------------------------------------------------------
(* get_or_try_init *)

Return(c, result) ==
    /\ call' = [call EXCEPT ![c] = result]
    /\ Leave(c)

(* Mutant: a call that had to wait reports that as an error. *)
EnterFullWaiterFails(c) ==
    /\ call[c] \in {"new", "wait"}
    /\ Runs(c)
    /\ cell = "full"
    /\ Return(c, IF call[c] = "wait" THEN "error" ELSE "ok")
    /\ UNCHANGED <<file, cell, buffer, owner, bytes, chunk>>

(* The cell is full: return its contents. *)
EnterFull(c) ==
    /\ call[c] \in {"new", "wait"}
    /\ Runs(c)
    /\ cell = "full"
    /\ Return(c, "ok")
    /\ UNCHANGED <<file, cell, buffer, owner, bytes, chunk>>

(* The closure reads chunk by chunk in its tasks (strategy B) or all of it  *)
(* first (strategy A, and decrypt).                                         *)
RunClosure(c) ==
    /\ cell' = "busy"
    /\ owner' = c
    /\ bytes' = [k \in Chunks |-> None]
    /\ \/ call' = [call EXCEPT ![c] = "join"] /\ chunk' = [k \in Chunks |-> "queued"]
       \/ call' = [call EXCEPT ![c] = "read"] /\ chunk' = [k \in Chunks |-> "todo"]
    /\ UNCHANGED <<file, buffer, stack>>

(* Mutant: a cell that is busy is taken for an empty one. *)
EnterEmptyOrBusy(c) ==
    /\ call[c] \in {"new", "wait"}
    /\ Runs(c)
    /\ cell # "full"
    /\ RunClosure(c)

(* Mutant: a full cell is decrypted again. *)
EnterEmptyOrFull(c) ==
    /\ call[c] \in {"new", "wait"}
    /\ Runs(c)
    /\ cell # "busy"
    /\ RunClosure(c)

(* It is empty, at first or after a closure failed: run the closure.        *)
EnterEmpty(c) ==
    /\ call[c] \in {"new", "wait"}
    /\ Runs(c)
    /\ cell = "empty"
    /\ RunClosure(c)

(* Another call is running its closure: wait, keeping the thread. *)
EnterBusy(c) ==
    /\ call[c] = "new"
    /\ Runs(c)
    /\ cell = "busy"
    /\ call' = [call EXCEPT ![c] = "wait"]
    /\ UNCHANGED <<file, cell, buffer, owner, bytes, chunk, stack>>

(* Reading it all first is not atomic with respect to a writer of the file; *)
(* perform_decryption then queues the chunks.                               *)
ReadWhole(c) ==
    /\ call[c] = "read"
    /\ \E k \in Chunks :
         /\ bytes[k] = None
         /\ \A j \in Chunks : j < k => bytes[j] # None
         /\ bytes' = [bytes EXCEPT ![k] = file[k]]
    /\ UNCHANGED <<file, cell, buffer, owner, chunk, call, stack>>

StartWhole(c) ==
    /\ call[c] = "read"
    /\ \A k \in Chunks : bytes[k] # None
    /\ call' = [call EXCEPT ![c] = "join"]
    /\ chunk' = [k \in Chunks |-> "queued"]
    /\ UNCHANGED <<file, cell, buffer, owner, bytes, stack>>

(* read_exact_at fails when a shorter file has taken the place of the old.  *)
ReadWholeShort(c) ==
    /\ call[c] = "read"
    /\ \E k \in Chunks : bytes[k] = None /\ file[k] = "other"
    /\ cell' = "empty"
    /\ owner' = None
    /\ Return(c, "error")
    /\ UNCHANGED <<file, buffer, bytes, chunk>>

(* One chunk in its task: pread, unless the bytes are there, then the       *)
(* authenticated decryption in place.                                       *)
ReadChunk(w, k) ==
    /\ OnTop(w, k)
    /\ bytes[k] = None
    /\ bytes' = [bytes EXCEPT ![k] = file[k]]
    /\ UNCHANGED <<file, cell, buffer, owner, chunk, call, stack>>

ReadChunkShort(w, k) ==
    /\ OnTop(w, k)
    /\ bytes[k] = None
    /\ file[k] = "other"
    /\ chunk' = [chunk EXCEPT ![k] = "failed"]
    /\ Pop(w)
    /\ UNCHANGED <<file, cell, buffer, owner, bytes, call>>

DecryptChunk(w, k) ==
    /\ OnTop(w, k)
    /\ bytes[k] # None
    /\ chunk' = [chunk EXCEPT ![k] = IF bytes[k] = "own" THEN "plain" ELSE "failed"]
    /\ Pop(w)
    /\ UNCHANGED <<file, cell, buffer, owner, bytes, call>>

(* Mutant: what was read is published instead of what was decrypted. *)
FinishRaw(c) ==
    /\ owner = c
    /\ call[c] = "join"
    /\ Runs(c)
    /\ AllDone
    /\ owner' = None
    /\ IF Failing
       THEN cell' = "empty" /\ Return(c, "error") /\ UNCHANGED buffer
       ELSE cell' = "full" /\ buffer' = bytes /\ Return(c, "ok")
    /\ UNCHANGED <<file, bytes, chunk>>

(* Mutant: the results of the chunks are dropped. *)
FinishUnchecked(c) ==
    /\ owner = c
    /\ call[c] = "join"
    /\ Runs(c)
    /\ AllDone
    /\ owner' = None
    /\ cell' = "full" /\ buffer' = chunk /\ Return(c, "ok")
    /\ UNCHANGED <<file, bytes, chunk>>

(* Mutant: a failed closure leaves the cell as it is. *)
FinishPoisons(c) ==
    /\ owner = c
    /\ call[c] = "join"
    /\ Runs(c)
    /\ AllDone
    /\ owner' = None
    /\ IF Failing
       THEN Return(c, "error") /\ UNCHANGED <<cell, buffer>>
       ELSE cell' = "full" /\ buffer' = chunk /\ Return(c, "ok")
    /\ UNCHANGED <<file, bytes, chunk>>

(* The closure returns: its buffer is published, or the error goes to its   *)
(* caller and the cell is empty again.                                      *)
Finish(c) ==
    /\ owner = c
    /\ call[c] = "join"
    /\ Runs(c)
    /\ AllDone
    /\ owner' = None
    /\ IF Failing
       THEN cell' = "empty" /\ Return(c, "error") /\ UNCHANGED buffer
       ELSE cell' = "full" /\ buffer' = chunk /\ Return(c, "ok")
    /\ UNCHANGED <<file, bytes, chunk>>

(* Another process writes the file, or writes it back. *)
Rewrite(k) ==
    /\ \E b \in Bytes \ {file[k]} : file' = [file EXCEPT ![k] = b]
    /\ UNCHANGED <<pooled, cell, buffer, owner, bytes, chunk, call, stack>>

-----------------------------------------------------------------------------
Init ==
    /\ pooled \in Callers
    /\ file = [k \in Chunks |-> "own"]
    /\ cell = "empty"
    /\ buffer = None
    /\ owner = None
    /\ bytes = [k \in Chunks |-> None]
    /\ chunk = [k \in Chunks |-> "todo"]
    /\ call = [c \in Calls |-> "new"]
    /\ stack = [w \in Workers |-> <<>>]

CallStep(c) ==
    /\ \/ EnterFull(c) \/ EnterEmpty(c) \/ EnterBusy(c)
       \/ ReadWhole(c) \/ StartWhole(c) \/ ReadWholeShort(c)
       \/ Finish(c)
    /\ UNCHANGED pooled

WorkerStep(w) ==
    /\ \/ \E c \in Calls : TakeCall(w, c)
       \/ \E k \in Chunks :
            TakeChunk(w, k) \/ ReadChunk(w, k) \/ ReadChunkShort(w, k) \/ DecryptChunk(w, k)
    /\ UNCHANGED pooled

Next ==
    \/ \E c \in Calls : CallStep(c)
    \/ \E w \in Workers : WorkerStep(w)
    \/ \E k \in Chunks : Rewrite(k)

(* The scheduler runs every thread that can run; it owes nothing to those   *)
(* who write the file.                                                      *)
Fairness ==
    /\ \A c \in Calls : WF_vars(CallStep(c))
    /\ \A w \in Workers : WF_vars(WorkerStep(w))

Spec == Init /\ [][Next]_vars /\ Fairness

-----------------------------------------------------------------------------
(* Properties *)

(* At most one closure runs, it is the owner's, and the pool works on a     *)
(* chunk only for a running closure: a failed closure leaves no task behind *)
(* that could write into the next one's buffer.                             *)
OneInitializer ==
    /\ cell = "busy" <=> owner # None
    /\ \A c \in Calls : call[c] \in {"read", "join"} <=> c = owner
    /\ \A w \in Workers : \A i \in 1 .. Len(stack[w]) :
         stack[w][i] \in Chunks => cell = "busy" /\ chunk[stack[w][i]] = "taken"

(* What is published is plaintext in every chunk, whatever was written to   *)
(* the file between the reads of two chunks, and a call that returned ok    *)
(* finds it there (silent_decrypt's "Decrypted buffer not available" and    *)
(* get_buffer's None never happen after a success).                         *)
PublishedIsPlain ==
    /\ cell = "full" => \A k \in Chunks : buffer[k] = "plain"
    /\ \A c \in Calls : call[c] = "ok" => cell = "full"

(* A published buffer stays for the life of the cryptor: views of it were   *)
(* handed out.                                                              *)
PublishedOnce == [][cell = "full" => UNCHANGED <<cell, buffer>>]_vars

(* cryptotensors.rs 623-624 of decrypt_from_file: "`Ok(&[u8])` - A          *)
(* reference to the decrypted data" or "`Err(CryptoTensorsError)` - If      *)
(* reading or decryption fails": one of the two comes back.                 *)
EveryCallReturns == \A c \in Calls : <>(call[c] \in {"ok", "error"})

(* It does when no call is made by a task of the pool: a caller that waits  *)
(* for the closure keeps no worker from its chunks.                         *)
ThreadedCallsReturn ==
    \A c \in Calls : pooled = {} ~> call[c] \in {"ok", "error"}

Lazy == INSTANCE LazyTensor WITH
          cached <- cell = "full",
          result <- [c \in Calls |-> IF call[c] = "ok" THEN "plaintext"
                                     ELSE IF call[c] = "error" THEN "error"
                                     ELSE "pending"]

(* The code does what LazyTensor allows and nothing else: a call fails only *)
(* while no call has succeeded, and what has succeeded once is cached.      *)
IsLazyTensor == Lazy!Spec

=============================================================================
