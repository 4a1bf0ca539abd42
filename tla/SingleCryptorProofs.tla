------------------------ MODULE SingleCryptorProofs ------------------------
(***************************************************************************)
(* What SingleCryptor guarantees for every number of calls, made by        *)
(* threads and by tasks of the pool alike, of workers and of chunks.       *)
(***************************************************************************)
EXTENDS SingleCryptor, TLAPS

-----------------------------------------------------------------------------
(* Type correctness *)

LEMMA TypeInit == Init => TypeOK
BY CallsOK DEF Init, TypeOK, Bytes, ChunkState, CallState, Tasks

(* Taking a task and leaving one keep the stacks sequences of tasks. *)
LEMMA StackType ==
    ASSUME stack \in [Workers -> Seq(Tasks)], NEW w \in Workers
    PROVE  /\ \A task \in Tasks : Push(w, task) => stack' \in [Workers -> Seq(Tasks)]
           /\ ~Idle(w) /\ Pop(w) => stack' \in [Workers -> Seq(Tasks)]
<1>1. stack[w] \in Seq(Tasks)
  OBVIOUS
<1>2. ASSUME NEW task \in Tasks, Push(w, task) PROVE stack' \in [Workers -> Seq(Tasks)]
  <2>1. Append(stack[w], task) \in Seq(Tasks)
    BY <1>1
  <2>2. QED
    BY <1>2, <2>1 DEF Push
<1>3. ASSUME ~Idle(w), Pop(w) PROVE stack' \in [Workers -> Seq(Tasks)]
  <2>1. SubSeq(stack[w], 1, Len(stack[w]) - 1) \in Seq(Tasks)
    BY <1>1, <1>3 DEF Idle
  <2>2. QED
    BY <1>3, <2>1 DEF Pop
<1>4. QED
  BY <1>2, <1>3

LEMMA LeaveType ==
    ASSUME stack \in [Workers -> Seq(Tasks)], NEW c \in Calls, Leave(c)
    PROVE  stack' \in [Workers -> Seq(Tasks)]
<1>1. CASE c \in pooled
  <2>1. PICK w \in Workers : OnTop(w, c) /\ Pop(w)
    BY <1>1 DEF Leave
  <2>2. QED
    BY <2>1, StackType DEF OnTop
<1>2. CASE c \notin pooled
  BY <1>2 DEF Leave
<1>3. QED
  BY <1>1, <1>2

(* The states a call and a chunk move to *)
LEMMA TypeStep ==
    ASSUME TypeOK, [Next]_vars
    PROVE  TypeOK'
<1> USE DEF Bytes, ChunkState, CallState
<1>1. ASSUME NEW c \in Calls, CallStep(c) PROVE TypeOK'
  <2> USE DEF TypeOK
  <2>1. CASE EnterFull(c)
    BY <1>1, <2>1, LeaveType DEF CallStep, EnterFull, Return
  <2>2. CASE EnterEmpty(c)
    BY <1>1, <2>2 DEF CallStep, EnterEmpty, RunClosure
  <2>3. CASE EnterBusy(c)
    BY <1>1, <2>3 DEF CallStep, EnterBusy
  <2>4. CASE ReadWhole(c)
    BY <1>1, <2>4 DEF CallStep, ReadWhole
  <2>5. CASE StartWhole(c)
    BY <1>1, <2>5 DEF CallStep, StartWhole
  <2>6. CASE ReadWholeShort(c)
    BY <1>1, <2>6, LeaveType DEF CallStep, ReadWholeShort, Return
  <2>7. CASE Finish(c)
    BY <1>1, <2>7, LeaveType DEF CallStep, Finish, Return
  <2>8. QED
    BY <1>1, <2>1, <2>2, <2>3, <2>4, <2>5, <2>6, <2>7 DEF CallStep
<1>2. ASSUME NEW w \in Workers, WorkerStep(w) PROVE TypeOK'
  <2> USE DEF TypeOK
  <2>1. ASSUME NEW c \in Calls, TakeCall(w, c) PROVE TypeOK'
    BY <1>2, <2>1, StackType DEF WorkerStep, TakeCall, Tasks
  <2>2. ASSUME NEW k \in Chunks, TakeChunk(w, k) PROVE TypeOK'
    BY <1>2, <2>2, StackType DEF WorkerStep, TakeChunk, Tasks
  <2>3. ASSUME NEW k \in Chunks, ReadChunk(w, k) PROVE TypeOK'
    BY <1>2, <2>3 DEF WorkerStep, ReadChunk
  <2>4. ASSUME NEW k \in Chunks, ReadChunkShort(w, k) PROVE TypeOK'
    BY <1>2, <2>4, StackType DEF WorkerStep, ReadChunkShort, OnTop
  <2>5. ASSUME NEW k \in Chunks, DecryptChunk(w, k) PROVE TypeOK'
    BY <1>2, <2>5, StackType DEF WorkerStep, DecryptChunk, OnTop
  <2>6. QED
    BY <1>2, <2>1, <2>2, <2>3, <2>4, <2>5 DEF WorkerStep
<1>3. ASSUME NEW k \in Chunks, Rewrite(k) PROVE TypeOK'
  BY <1>3 DEF Rewrite, TypeOK
<1>4. CASE UNCHANGED vars
  BY <1>4 DEF vars, TypeOK
<1>5. QED
  BY <1>1, <1>2, <1>3, <1>4 DEF Next

(* Every state of the cell, the calls, the chunks and the stacks is one the *)
(* code can have.                                                           *)
THEOREM TypeCorrect == Spec => []TypeOK
<1>1. QED
  BY TypeInit, TypeStep, PTL DEF Spec

-----------------------------------------------------------------------------
(* One initializer.  OneInitializer is inductive only with three more facts *)
(* about the chunks: none is on two stacks, or twice on one, so that a      *)
(* chunk that is done is on none; none is queued or taken before the        *)
(* closure waits for them; and one is skipped only after another failed.    *)

OnceOnStack ==
    \A v, w \in Workers : \A i \in 1 .. Len(stack[v]), j \in 1 .. Len(stack[w]) :
        stack[v][i] \in Chunks /\ stack[v][i] = stack[w][j] => v = w /\ i = j

QueuedForJoin ==
    \A k \in Chunks : chunk[k] \in {"queued", "taken"} => owner # None /\ call[owner] = "join"

SkippedAfterFailure == \A k \in Chunks : chunk[k] = "skipped" => Failing

ClosureInv ==
    /\ TypeOK
    /\ OneInitializer
    /\ OnceOnStack
    /\ QueuedForJoin
    /\ SkippedAfterFailure
    /\ PublishedIsPlain

(* The chunks on the stacks after a task was pushed, and after one was left *)
LEMMA PushEntries ==
    ASSUME stack \in [Workers -> Seq(Tasks)], NEW w \in Workers, NEW task \in Tasks,
           Push(w, task)
    PROVE  \A v \in Workers : \A i \in 1 .. Len(stack'[v]) :
              \/ i \in 1 .. Len(stack[v]) /\ stack'[v][i] = stack[v][i]
              \/ v = w /\ i = Len(stack[w]) + 1 /\ stack'[v][i] = task
<1> SUFFICES ASSUME NEW v \in Workers, NEW i \in 1 .. Len(stack'[v])
             PROVE  \/ i \in 1 .. Len(stack[v]) /\ stack'[v][i] = stack[v][i]
                    \/ v = w /\ i = Len(stack[w]) + 1 /\ stack'[v][i] = task
  OBVIOUS
<1>1. CASE v = w
  <2>1. stack'[v] = Append(stack[w], task) /\ stack[w] \in Seq(Tasks)
    BY <1>1 DEF Push
  <2>2. QED
    BY <1>1, <2>1
<1>2. CASE v # w
  BY <1>2 DEF Push
<1>3. QED
  BY <1>1, <1>2

LEMMA PopEntries ==
    ASSUME stack \in [Workers -> Seq(Tasks)], NEW w \in Workers, ~Idle(w), Pop(w)
    PROVE  \A v \in Workers : \A i \in 1 .. Len(stack'[v]) :
              /\ i \in 1 .. Len(stack[v])
              /\ stack'[v][i] = stack[v][i]
              /\ v = w => i # Len(stack[w])
<1> SUFFICES ASSUME NEW v \in Workers, NEW i \in 1 .. Len(stack'[v])
             PROVE  /\ i \in 1 .. Len(stack[v])
                    /\ stack'[v][i] = stack[v][i]
                    /\ v = w => i # Len(stack[w])
  OBVIOUS
<1>1. CASE v = w
  <2>1. /\ stack'[v] = SubSeq(stack[w], 1, Len(stack[w]) - 1)
        /\ stack[w] \in Seq(Tasks) /\ Len(stack[w]) >= 1
    BY <1>1 DEF Pop, Idle
  <2>2. QED
    BY <1>1, <2>1
<1>2. CASE v # w
  BY <1>2 DEF Pop
<1>3. QED
  BY <1>1, <1>2

(* So no step puts a chunk on a stack twice: taking one needs it off them. *)
LEMMA LeaveEntries ==
    ASSUME stack \in [Workers -> Seq(Tasks)], NEW c \in Calls, Leave(c)
    PROVE  \A v \in Workers : \A i \in 1 .. Len(stack'[v]) :
              i \in 1 .. Len(stack[v]) /\ stack'[v][i] = stack[v][i]
<1>1. CASE c \in pooled
  <2>1. PICK w \in Workers : OnTop(w, c) /\ Pop(w)
    BY <1>1 DEF Leave
  <2>2. QED
    BY <2>1, PopEntries DEF OnTop
<1>2. CASE c \notin pooled
  BY <1>2 DEF Leave
<1>3. QED
  BY <1>1, <1>2

(* When stacks only lose entries, none of them a chunk that is still taken, *)
(* no chunk comes to be on two of them.                                     *)
LEMMA FewerEntries ==
    ASSUME OnceOnStack,
           \A v \in Workers : \A i \in 1 .. Len(stack'[v]) :
              i \in 1 .. Len(stack[v]) /\ stack'[v][i] = stack[v][i]
    PROVE  OnceOnStack'
BY DEF OnceOnStack

LEMMA ClosureInit == Init => ClosureInv
<1> SUFFICES ASSUME Init PROVE ClosureInv
  OBVIOUS
<1>1. TypeOK
  BY TypeInit
<1>2. \A w \in Workers : 1 .. Len(stack[w]) = {}
  BY DEF Init
<1>3. owner \notin Calls
  BY CallsOK DEF Init
<1>4. OneInitializer /\ OnceOnStack
  BY <1>2, <1>3 DEF Init, OneInitializer, OnceOnStack
<1>5. QueuedForJoin /\ SkippedAfterFailure /\ PublishedIsPlain
  BY DEF Init, QueuedForJoin, SkippedAfterFailure, PublishedIsPlain
<1>6. QED
  BY <1>1, <1>4, <1>5 DEF ClosureInv

LEMMA ClosureCall ==
    ASSUME ClosureInv, TypeOK', NEW c \in Calls, CallStep(c)
    PROVE  ClosureInv'
<1> USE DEF ClosureInv, CallStep
<1>1. None \notin Calls /\ Calls \cap Chunks = {}
  BY CallsOK
<1>2. CASE EnterFull(c)
  <2>1. \A v \in Workers : \A i \in 1 .. Len(stack'[v]) :
          i \in 1 .. Len(stack[v]) /\ stack'[v][i] = stack[v][i]
    BY <1>2, LeaveEntries DEF EnterFull, Return, TypeOK
  <2>2. call' = [call EXCEPT ![c] = "ok"] /\ call[c] \in {"new", "wait"} /\ cell = "full"
        /\ UNCHANGED <<file, cell, buffer, owner, bytes, chunk>>
    BY <1>2 DEF EnterFull, Return
  <2>3. OneInitializer'
    BY <2>1, <2>2 DEF OneInitializer, TypeOK
  <2>4. OnceOnStack'
    BY <2>1, FewerEntries
  <2>5. QueuedForJoin' /\ SkippedAfterFailure' /\ PublishedIsPlain'
    BY <2>2 DEF QueuedForJoin, SkippedAfterFailure, PublishedIsPlain, Failing, TypeOK
  <2>6. QED
    BY <2>3, <2>4, <2>5
<1>3. CASE EnterEmpty(c)
  <2>1. /\ cell = "empty" /\ cell' = "busy" /\ owner = None /\ owner' = c
        /\ call'[c] \in {"read", "join"}
        /\ \A d \in Calls \ {c} : call'[d] = call[d]
        /\ (\E k \in Chunks : chunk'[k] \in {"queued", "taken"}) => call'[c] = "join"
        /\ \A k \in Chunks : chunk'[k] \in {"queued", "todo"}
        /\ stack' = stack /\ buffer' = buffer
    BY <1>3 DEF EnterEmpty, RunClosure, OneInitializer, TypeOK
  <2>2. \A w \in Workers : \A i \in 1 .. Len(stack[w]) : stack[w][i] \notin Chunks
    BY <2>1 DEF OneInitializer
  <2>3. OneInitializer'
    BY <1>1, <2>1, <2>2 DEF OneInitializer
  <2>4. OnceOnStack'
    BY <2>1 DEF OnceOnStack
  <2>5. QueuedForJoin' /\ SkippedAfterFailure' /\ PublishedIsPlain'
    BY <1>1, <2>1 DEF QueuedForJoin, SkippedAfterFailure, PublishedIsPlain
  <2>6. QED
    BY <2>3, <2>4, <2>5
<1>4. CASE EnterBusy(c)
  <2>1. call' = [call EXCEPT ![c] = "wait"] /\ call[c] = "new"
        /\ UNCHANGED <<file, cell, buffer, owner, bytes, chunk, stack>>
    BY <1>4 DEF EnterBusy
  <2>2. OneInitializer' /\ OnceOnStack'
    BY <2>1 DEF OneInitializer, OnceOnStack, TypeOK
  <2>3. QueuedForJoin' /\ SkippedAfterFailure' /\ PublishedIsPlain'
    BY <2>1 DEF QueuedForJoin, SkippedAfterFailure, PublishedIsPlain, Failing, TypeOK
  <2>4. QED
    BY <2>2, <2>3
<1>5. CASE ReadWhole(c)
  BY <1>5 DEF ReadWhole, OneInitializer, OnceOnStack, QueuedForJoin, SkippedAfterFailure,
              PublishedIsPlain, Failing
<1>6. CASE StartWhole(c)
  <2>1. call' = [call EXCEPT ![c] = "join"] /\ call[c] = "read" /\ owner = c
        /\ chunk' = [k \in Chunks |-> "queued"]
        /\ UNCHANGED <<file, cell, buffer, owner, bytes, stack>>
    BY <1>6 DEF StartWhole, OneInitializer
  <2>2. \A w \in Workers : \A i \in 1 .. Len(stack[w]) : stack[w][i] \notin Chunks
    BY <2>1 DEF OneInitializer, QueuedForJoin
  <2>3. OneInitializer' /\ OnceOnStack'
    BY <2>1, <2>2 DEF OneInitializer, OnceOnStack, TypeOK
  <2>4. QueuedForJoin' /\ SkippedAfterFailure' /\ PublishedIsPlain'
    BY <1>1, <2>1 DEF QueuedForJoin, SkippedAfterFailure, PublishedIsPlain, TypeOK
  <2>5. QED
    BY <2>3, <2>4
<1>7. CASE ReadWholeShort(c)
  <2>1. \A v \in Workers : \A i \in 1 .. Len(stack'[v]) :
          i \in 1 .. Len(stack[v]) /\ stack'[v][i] = stack[v][i]
    BY <1>7, LeaveEntries DEF ReadWholeShort, Return, TypeOK
  <2>2. call' = [call EXCEPT ![c] = "error"] /\ call[c] = "read" /\ owner = c
        /\ cell' = "empty" /\ owner' = None /\ UNCHANGED <<file, buffer, bytes, chunk>>
    BY <1>7 DEF ReadWholeShort, Return, OneInitializer
  <2>3. \A k \in Chunks : chunk[k] \notin {"queued", "taken"}
    BY <2>2 DEF QueuedForJoin
  <2>4. OneInitializer'
    BY <1>1, <2>1, <2>2, <2>3 DEF OneInitializer, TypeOK
  <2>5. OnceOnStack'
    BY <2>1, FewerEntries
  <2>6. QueuedForJoin' /\ SkippedAfterFailure'
    BY <2>2, <2>3 DEF QueuedForJoin, SkippedAfterFailure, Failing
  <2>7. cell = "busy"
    BY <1>1, <2>2 DEF OneInitializer
  <2>8. PublishedIsPlain'
    BY <2>2, <2>7 DEF PublishedIsPlain, TypeOK
  <2>9. QED
    BY <2>4, <2>5, <2>6, <2>8
<1>8. CASE Finish(c)
  <2>1. \A v \in Workers : \A i \in 1 .. Len(stack'[v]) :
          i \in 1 .. Len(stack[v]) /\ stack'[v][i] = stack[v][i]
    BY <1>8, LeaveEntries DEF Finish, Return, TypeOK
  <2>2. /\ owner = c /\ call[c] = "join" /\ AllDone /\ owner' = None
        /\ UNCHANGED <<file, bytes, chunk>>
        /\ \/ Failing /\ cell' = "empty" /\ call' = [call EXCEPT ![c] = "error"] /\ buffer' = buffer
           \/ ~Failing /\ cell' = "full" /\ call' = [call EXCEPT ![c] = "ok"] /\ buffer' = chunk
    BY <1>8 DEF Finish, Return
  <2>3. cell = "busy"
    BY <1>1, <2>2 DEF OneInitializer
  <2>4. \A k \in Chunks : chunk[k] \notin {"queued", "taken"}
    BY <2>2 DEF AllDone
  <2>5. OneInitializer'
    <3>1. \A v \in Workers : \A i \in 1 .. Len(stack'[v]) : stack'[v][i] \notin Chunks
      BY <2>1, <2>4 DEF OneInitializer
    <3>2. \A d \in Calls : call'[d] \notin {"read", "join"}
      BY <2>2 DEF OneInitializer, TypeOK
    <3>3. cell' # "busy" /\ owner' \notin Calls
      BY <1>1, <2>2
    <3>4. QED
      BY <2>2, <3>1, <3>2, <3>3 DEF OneInitializer
  <2>6. OnceOnStack'
    BY <2>1, FewerEntries
  <2>7. QueuedForJoin' /\ SkippedAfterFailure'
    BY <2>2, <2>4 DEF QueuedForJoin, SkippedAfterFailure, Failing
  <2>8. ~Failing => \A k \in Chunks : chunk[k] = "plain"
    BY <2>2 DEF AllDone, Failing, SkippedAfterFailure
  <2>9. PublishedIsPlain'
    BY <2>2, <2>3, <2>8 DEF PublishedIsPlain, TypeOK
  <2>10. QED
    BY <2>5, <2>6, <2>7, <2>9
<1>9. QED
  BY <1>2, <1>3, <1>4, <1>5, <1>6, <1>7, <1>8

LEMMA ClosureWorker ==
    ASSUME ClosureInv, TypeOK', NEW w \in Workers, WorkerStep(w)
    PROVE  ClosureInv'
<1> USE DEF ClosureInv
<1>1. None \notin Calls /\ Calls \cap Chunks = {}
  BY CallsOK
<1>2. ASSUME NEW c \in Calls, TakeCall(w, c) PROVE ClosureInv'
  <2>1. \A v \in Workers : \A i \in 1 .. Len(stack'[v]) :
          \/ i \in 1 .. Len(stack[v]) /\ stack'[v][i] = stack[v][i]
          \/ stack'[v][i] = c
    BY <1>2, PushEntries DEF TakeCall, TypeOK, Tasks
  <2>2. UNCHANGED <<file, cell, buffer, owner, bytes, chunk, call>>
    BY <1>2 DEF TakeCall
  <2>3. OneInitializer' /\ OnceOnStack'
    <3>1. c \notin Chunks
      BY <1>1
    <3>2. OneInitializer'
      BY <2>1, <2>2, <3>1 DEF OneInitializer
    <3>3. \A v \in Workers : \A i \in 1 .. Len(stack'[v]) :
             stack'[v][i] \in Chunks =>
                i \in 1 .. Len(stack[v]) /\ stack'[v][i] = stack[v][i]
      BY <2>1, <3>1
    <3>4. OnceOnStack'
      BY <3>3 DEF OnceOnStack
    <3>5. QED
      BY <3>2, <3>4
  <2>4. QueuedForJoin' /\ SkippedAfterFailure' /\ PublishedIsPlain'
    BY <2>2 DEF QueuedForJoin, SkippedAfterFailure, PublishedIsPlain, Failing
  <2>5. QED
    BY <2>3, <2>4
<1>3. ASSUME NEW k \in Chunks, TakeChunk(w, k) PROVE ClosureInv'
  <2>1. chunk[k] = "queued" /\ UNCHANGED <<file, cell, buffer, owner, bytes, call>>
    BY <1>3 DEF TakeChunk
  <2>2. \A v \in Workers : \A i \in 1 .. Len(stack[v]) : stack[v][i] # k
    BY <2>1 DEF OneInitializer
  <2>3. owner # None /\ cell = "busy" /\ call[owner] = "join"
    BY <2>1 DEF OneInitializer, QueuedForJoin
  <2>4. CASE Failing
    <3>1. chunk' = [chunk EXCEPT ![k] = "skipped"] /\ stack' = stack
      BY <1>3, <2>4 DEF TakeChunk
    <3>2. OneInitializer' /\ OnceOnStack'
      BY <2>1, <2>2, <3>1 DEF OneInitializer, OnceOnStack, TypeOK
    <3>3. Failing'
      BY <2>1, <2>4, <3>1 DEF Failing, TypeOK
    <3>4. QueuedForJoin' /\ SkippedAfterFailure' /\ PublishedIsPlain'
      BY <2>1, <3>1, <3>3 DEF QueuedForJoin, SkippedAfterFailure, PublishedIsPlain, TypeOK
    <3>5. QED
      BY <3>2, <3>4
  <2>5. CASE ~Failing
    <3>1. chunk' = [chunk EXCEPT ![k] = "taken"] /\ Push(w, k)
      BY <1>3, <2>5 DEF TakeChunk
    <3>2. \A v \in Workers : \A i \in 1 .. Len(stack'[v]) :
            \/ i \in 1 .. Len(stack[v]) /\ stack'[v][i] = stack[v][i]
            \/ v = w /\ i = Len(stack[w]) + 1 /\ stack'[v][i] = k
      BY <3>1, PushEntries DEF TypeOK, Tasks
    <3>3. OneInitializer'
      <4>1. \A v \in Workers : \A i \in 1 .. Len(stack'[v]) :
              stack'[v][i] \in Chunks => cell' = "busy" /\ chunk'[stack'[v][i]] = "taken"
        <5>1. \A j \in Chunks : chunk'[j] = IF j = k THEN "taken" ELSE chunk[j]
          BY <3>1 DEF TypeOK
        <5>2. \A v \in Workers : \A i \in 1 .. Len(stack[v]) :
                stack[v][i] \in Chunks => chunk[stack[v][i]] = "taken"
          BY DEF OneInitializer
        <5>3. cell' = "busy"
          BY <2>1, <2>3
        <5>4. QED
          BY <3>2, <5>1, <5>2, <5>3
      <4>2. QED
        BY <2>1, <4>1 DEF OneInitializer
    <3>4. OnceOnStack'
      BY <2>2, <3>2 DEF OnceOnStack
    <3>5. QueuedForJoin' /\ SkippedAfterFailure' /\ PublishedIsPlain'
      BY <2>1, <2>3, <2>5, <3>1
         DEF QueuedForJoin, SkippedAfterFailure, PublishedIsPlain, TypeOK, Failing
    <3>6. QED
      BY <3>3, <3>4, <3>5
  <2>6. QED
    BY <2>4, <2>5
<1>4. ASSUME NEW k \in Chunks, ReadChunk(w, k) PROVE ClosureInv'
  BY <1>4 DEF ReadChunk, OneInitializer, OnceOnStack, QueuedForJoin, SkippedAfterFailure,
              PublishedIsPlain, Failing
<1>5. ASSUME NEW k \in Chunks, ReadChunkShort(w, k) \/ DecryptChunk(w, k) PROVE ClosureInv'
  <2>1. /\ OnTop(w, k) /\ Pop(w)
        /\ UNCHANGED <<file, cell, buffer, owner, bytes, call>>
        /\ \E s \in {"plain", "failed"} : chunk' = [chunk EXCEPT ![k] = s]
    BY <1>5 DEF ReadChunkShort, DecryptChunk
  <2>2. \A v \in Workers : \A i \in 1 .. Len(stack'[v]) :
          /\ i \in 1 .. Len(stack[v])
          /\ stack'[v][i] = stack[v][i]
          /\ v = w => i # Len(stack[w])
    BY <2>1, PopEntries DEF OnTop, TypeOK
  <2>3. Len(stack[w]) \in 1 .. Len(stack[w]) /\ stack[w][Len(stack[w])] = k
    <3>1. stack[w] \in Seq(Tasks) /\ stack[w] # <<>>
      BY <2>1 DEF TypeOK, OnTop, Idle
    <3>2. QED
      BY <2>1, <3>1 DEF OnTop, Top
  <2>4. chunk[k] = "taken"
    BY <2>3 DEF OneInitializer
  <2>5. \A v \in Workers : \A i \in 1 .. Len(stack'[v]) : stack'[v][i] # k
    BY <2>2, <2>3 DEF OnceOnStack
  <2>6. OneInitializer'
    BY <2>1, <2>2, <2>5 DEF OneInitializer, TypeOK
  <2>7. OnceOnStack'
    BY <2>2, FewerEntries
  <2>8. QueuedForJoin' /\ SkippedAfterFailure' /\ PublishedIsPlain'
    BY <2>1, <2>4 DEF QueuedForJoin, SkippedAfterFailure, PublishedIsPlain, Failing, TypeOK
  <2>9. QED
    BY <2>6, <2>7, <2>8
<1>6. QED
  BY <1>2, <1>3, <1>4, <1>5 DEF WorkerStep

LEMMA ClosureStep ==
    ASSUME ClosureInv, [Next]_vars
    PROVE  ClosureInv'
<1>1. TypeOK'
  BY TypeStep DEF ClosureInv
<1>2. ASSUME NEW k \in Chunks, Rewrite(k) PROVE ClosureInv'
  BY <1>1, <1>2 DEF Rewrite, ClosureInv, OneInitializer, OnceOnStack, QueuedForJoin,
                    SkippedAfterFailure, PublishedIsPlain, Failing
<1>3. CASE UNCHANGED vars
  BY <1>1, <1>3 DEF vars, ClosureInv, OneInitializer, OnceOnStack, QueuedForJoin,
                    SkippedAfterFailure, PublishedIsPlain, Failing
<1>4. QED
  BY <1>1, <1>2, <1>3, ClosureCall, ClosureWorker DEF Next

(* At most one closure decrypts at a time, and no task of a failed closure  *)
(* is left to write into the buffer of the next.                            *)
THEOREM InitializerCorrect == Spec => []OneInitializer
<1>1. ClosureInv => OneInitializer
  BY DEF ClosureInv
<1>2. QED
  BY <1>1, ClosureInit, ClosureStep, PTL DEF Spec

(* Whatever is published is plaintext in every chunk, however the file      *)
(* changed while it was read, and a call that returned ok finds it.         *)
THEOREM PublishedCorrect == Spec => []PublishedIsPlain
<1>1. ClosureInv => PublishedIsPlain
  BY DEF ClosureInv
<1>2. QED
  BY <1>1, ClosureInit, ClosureStep, PTL DEF Spec

-----------------------------------------------------------------------------
(* A full cell stays as it is: the closures that could change it run only   *)
(* while it is busy.                                                        *)
LEMMA FullStays ==
    ASSUME ClosureInv, [Next]_vars, cell = "full"
    PROVE  UNCHANGED <<cell, buffer>>
<1>1. \A c \in Calls : c # owner /\ call[c] \notin {"read", "join"}
  BY CallsOK DEF ClosureInv, OneInitializer
<1>2. ASSUME NEW c \in Calls, CallStep(c) PROVE UNCHANGED <<cell, buffer>>
  BY <1>1, <1>2 DEF CallStep, EnterFull, EnterEmpty, EnterBusy, ReadWhole, StartWhole,
                    ReadWholeShort, Finish
<1>3. ASSUME NEW w \in Workers, WorkerStep(w) PROVE UNCHANGED <<cell, buffer>>
  BY <1>3 DEF WorkerStep, TakeCall, TakeChunk, ReadChunk, ReadChunkShort, DecryptChunk
<1>4. ASSUME NEW k \in Chunks, Rewrite(k) PROVE UNCHANGED <<cell, buffer>>
  BY <1>4 DEF Rewrite
<1>5. QED
  BY <1>2, <1>3, <1>4 DEF Next, vars

(* A published buffer is never replaced or withdrawn: views of it were      *)
(* handed out.                                                              *)
THEOREM PublishedForGood == Spec => PublishedOnce
<1>1. ClosureInv /\ [Next]_vars => [cell = "full" => UNCHANGED <<cell, buffer>>]_vars
  BY FullStays
<1>2. QED
  BY <1>1, ClosureInit, ClosureStep, PTL DEF Spec, PublishedOnce

-----------------------------------------------------------------------------
(* The refinement of LazyTensor *)

Result == [c \in Calls |-> IF call[c] = "ok" THEN "plaintext"
                          ELSE IF call[c] = "error" THEN "error"
                          ELSE "pending"]

LEMMA LazyInit == Init => Lazy!Init
BY DEF Init, Lazy!Init

(* A call that returns nothing changes nothing LazyTensor sees. *)
LEMMA LazyStutter ==
    ASSUME cell' = "full" <=> cell = "full",
           \A c \in Calls : call'[c] \in {"ok", "error"} \/ call[c] \in {"ok", "error"} =>
                               call'[c] = call[c]
    PROVE  UNCHANGED Lazy!vars
<1>1. (cell' = "full") = (cell = "full")
  OBVIOUS
<1>2. Result' = Result
  BY DEF Result
<1>3. QED
  BY <1>1, <1>2, Zenon DEF Lazy!vars, Result

(* A return with the plaintext, and one with an error while nothing is      *)
(* cached                                                                   *)
LEMMA LazySucceed ==
    ASSUME TypeOK, NEW c \in Calls, call[c] \notin {"ok", "error"},
           call' = [call EXCEPT ![c] = "ok"], cell' = "full"
    PROVE  Lazy!Succeed(c)
<1>1. Result[c] = "pending" /\ Result' = [Result EXCEPT ![c] = "plaintext"]
  BY DEF Result, TypeOK
<1>2. (cell' = "full") = TRUE
  OBVIOUS
<1>3. QED
  BY <1>1, <1>2, Zenon DEF Lazy!Succeed, Result

LEMMA LazyFail ==
    ASSUME TypeOK, NEW c \in Calls, call[c] \notin {"ok", "error"},
           call' = [call EXCEPT ![c] = "error"], cell # "full", cell' # "full"
    PROVE  Lazy!Fail(c)
<1>1. Result[c] = "pending" /\ Result' = [Result EXCEPT ![c] = "error"]
  BY DEF Result, TypeOK
<1>2. (cell' = "full") = (cell = "full")
  OBVIOUS
<1>3. QED
  BY <1>1, <1>2, Zenon DEF Lazy!Fail, Result

LEMMA LazyStep ==
    ASSUME ClosureInv, [Next]_vars
    PROVE  [Lazy!Next]_(Lazy!vars)
<1> USE DEF ClosureInv
<1>1. None \notin Calls
  BY CallsOK
<1>2. ASSUME NEW c \in Calls, CallStep(c) PROVE [Lazy!Next]_(Lazy!vars)
  <2>1. CASE EnterFull(c)
    <3>1. Lazy!Succeed(c)
      BY <2>1, LazySucceed DEF EnterFull, Return
    <3>2. QED
      BY <3>1 DEF Lazy!Next, Lazy!Return
  <2>2. CASE EnterEmpty(c) \/ EnterBusy(c) \/ ReadWhole(c) \/ StartWhole(c)
    <3>1. cell' = "full" <=> cell = "full"
      BY <2>2 DEF EnterEmpty, RunClosure, EnterBusy, ReadWhole, StartWhole
    <3>2. \A d \in Calls : \/ call'[d] = call[d]
                           \/ /\ call[d] \in {"new", "wait", "read"}
                              /\ call'[d] \in {"wait", "read", "join"}
      BY <2>2 DEF EnterEmpty, RunClosure, EnterBusy, ReadWhole, StartWhole, TypeOK
    <3>3. UNCHANGED Lazy!vars
      BY <3>1, <3>2, LazyStutter
    <3>4. QED
      BY <3>3
  <2>3. CASE ReadWholeShort(c)
    <3>1. cell # "full"
      BY <1>1, <2>3 DEF ReadWholeShort, OneInitializer
    <3>2. Lazy!Fail(c)
      BY <2>3, <3>1, LazyFail DEF ReadWholeShort, Return
    <3>3. QED
      BY <3>2 DEF Lazy!Next, Lazy!Return
  <2>4. CASE Finish(c)
    <3>1. cell # "full"
      BY <1>1, <2>4 DEF Finish, OneInitializer
    <3>2. CASE Failing
      BY <2>4, <3>1, <3>2, LazyFail DEF Finish, Return, Lazy!Next, Lazy!Return
    <3>3. CASE ~Failing
      BY <2>4, <3>3, LazySucceed DEF Finish, Return, Lazy!Next, Lazy!Return
    <3>4. QED
      BY <3>2, <3>3
  <2>5. QED
    BY <1>2, <2>1, <2>2, <2>3, <2>4 DEF CallStep
<1>3. CASE \/ \E w \in Workers : WorkerStep(w)
           \/ \E k \in Chunks : Rewrite(k)
           \/ UNCHANGED vars
  <2>1. UNCHANGED <<cell, call>>
    BY <1>3 DEF WorkerStep, TakeCall, TakeChunk, ReadChunk, ReadChunkShort, DecryptChunk,
                Rewrite, vars
  <2>2. UNCHANGED Lazy!vars
    BY <2>1, LazyStutter
  <2>3. QED
    BY <2>2
<1>4. QED
  BY <1>2, <1>3 DEF Next

(* The code does what LazyTensor allows: a call returns once, with the      *)
(* plaintext or with an error, and with none once another has succeeded.    *)
THEOREM Refinement == Spec => IsLazyTensor
<1>1. QED
  BY ClosureInit, ClosureStep, LazyInit, LazyStep, PTL DEF Spec, IsLazyTensor, Lazy!Spec
=============================================================================
