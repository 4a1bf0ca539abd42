---------------------------- MODULE SafeOpenProofs ----------------------------
(***************************************************************************)
(* What an encrypted tensor is answered with, for any number of handles,   *)
(* tensors, files, saves and rewraps.                                      *)
(***************************************************************************)
EXTENDS SafeOpen, TLAPS

-----------------------------------------------------------------------------
(* The invariant: a handle holds bytes of a tensor only once it is open,    *)
(* and they are the bytes of the save whose header it parsed, or were       *)
(* changed through an array Python got from it.  Nothing is said of the     *)
(* files: sealing answers for them.                                         *)

(* The fields of a safe_open; a step sets some of them. *)
Shaped(h) ==
    h = [state |-> h.state, fw |-> h.fw, file |-> h.file, length |-> h.length,
         header |-> h.header, store |-> h.store]

Shapes ==
    /\ handles = [o \in Handles |-> handles[o]]
    /\ \A o \in Handles : Shaped(handles[o])
    /\ memory = [o \in Handles |-> memory[o]]
    /\ \A o \in Handles : memory[o] = [t \in Tensors |-> memory[o][t]]

MemoryGenuine ==
    \A o \in Handles, t \in Tensors :
        memory[o][t] # None =>
            /\ handles[o].state \in {"open", "closed", "killed"}
            /\ Genuine(o, t, memory[o][t])

OpenInv == Shapes /\ MemoryGenuine

(* silent_decrypt_from_file answers with a genuine buffer or with an error. *)
LEMMA DecryptGenuine ==
    ASSUME MemoryGenuine, NEW o \in Handles, NEW t \in Tensors, Secret(o, t)
    PROVE  Decrypt(o, t) = Error \/ Genuine(o, t, Decrypt(o, t))
<1>1. CASE memory[o][t] # None
  BY <1>1 DEF Decrypt, MemoryGenuine
<1>2. CASE memory[o][t] = None
  BY <1>2 DEF Decrypt, Genuine
<1>3. QED
  BY <1>1, <1>2

LEMMA StorageType ==
    ASSUME NEW fw
    PROVE  StorageOf(fw) \in {"Mmap", "TorchStorage", "PaddleStorage"}
BY DEF StorageOf

(* Each storage has a branch of its own, in get_tensor and in __getitem__,  *)
(* and each asks the cryptor of an encrypted tensor.                        *)
LEMMA AnswersDecrypt ==
    ASSUME NEW o \in Handles, NEW t \in Tensors, Secret(o, t)
    PROVE  /\ handles[o].state = "closed" => GetTensor(o, t) = Closed
           /\ handles[o].state # "closed" => GetTensor(o, t) = Decrypt(o, t)
           /\ GetItem(o, t) = Decrypt(o, t)
<1> DEFINE s == StorageOf(handles[o].fw)
<1>1. /\ MmapTensor(o, t) = Decrypt(o, t) /\ TorchTensor(o, t) = Decrypt(o, t)
      /\ PaddleTensor(o, t) = Decrypt(o, t)
      /\ TorchItem(o, t) = Decrypt(o, t) /\ PaddleItem(o, t) = Decrypt(o, t)
  BY DEF MmapTensor, TorchTensor, PaddleTensor, TorchItem, PaddleItem
<1>2. MmapItem(o, t) = Decrypt(o, t)
  BY DEF MmapItem, Secret
<1>3. s \in {"Mmap", "TorchStorage", "PaddleStorage"}
  BY StorageType
<1>4. GetItem(o, t) = Decrypt(o, t)
  <2>1. CASE s = "Mmap"
    BY <1>2, <2>1 DEF GetItem
  <2>2. CASE s = "TorchStorage"
    BY <1>1, <2>2 DEF GetItem
  <2>3. CASE s = "PaddleStorage"
    BY <1>1, <2>3 DEF GetItem
  <2>4. QED
    BY <1>3, <2>1, <2>2, <2>3
<1>5. ASSUME handles[o].state = "closed" PROVE GetTensor(o, t) = Closed
  BY <1>5 DEF GetTensor
<1>6. ASSUME handles[o].state # "closed" PROVE GetTensor(o, t) = Decrypt(o, t)
  <2>1. CASE s = "Mmap"
    BY <1>1, <1>6, <2>1 DEF GetTensor
  <2>2. CASE s = "TorchStorage"
    BY <1>1, <1>6, <2>2 DEF GetTensor
  <2>3. CASE s = "PaddleStorage"
    BY <1>1, <1>6, <2>3 DEF GetTensor
  <2>4. QED
    BY <1>3, <2>1, <2>2, <2>3
<1>7. QED
  BY <1>4, <1>5, <1>6

LEMMA OpenInvImplies == OpenInv => EncryptedGenuine
<1> SUFFICES ASSUME OpenInv, NEW o \in Handles, NEW t \in Tensors, Secret(o, t)
             PROVE  /\ GetTensor(o, t) \in {Error, Closed} \/ Genuine(o, t, GetTensor(o, t))
                    /\ GetItem(o, t) = Error \/ Genuine(o, t, GetItem(o, t))
  BY DEF EncryptedGenuine
<1>1. Decrypt(o, t) = Error \/ Genuine(o, t, Decrypt(o, t))
  BY DecryptGenuine DEF OpenInv
<1>2. QED
  BY <1>1, AnswersDecrypt

-----------------------------------------------------------------------------
LEMMA OpenInvInit == Init => OpenInv
<1> SUFFICES ASSUME Init PROVE OpenInv
  OBVIOUS
<1>1. /\ handles = [o \in Handles |-> Unopened]
      /\ memory = [o \in Handles |-> [t \in Tensors |-> None]]
  BY DEF Init
<1>2. Shaped(Unopened)
  BY DEF Shaped, Unopened
<1>3. QED
  BY <1>1, <1>2 DEF OpenInv, Shapes, MemoryGenuine

(* The bytes a handle holds stay genuine in a step that leaves its header   *)
(* alone and takes back no array.                                           *)
LEMMA HandleStep ==
    ASSUME OpenInv, UNCHANGED memory, exports \subseteq exports',
           handles' = [o \in Handles |-> handles'[o]],
           \A o \in Handles : Shaped(handles'[o]),
           \A o \in Handles :
              \/ \A t \in Tensors : memory[o][t] = None
              \/ /\ handles'[o].header = handles[o].header
                 /\ handles'[o].state \in {"open", "closed", "killed"}
    PROVE  OpenInv'
<1>1. Shapes'
  BY DEF OpenInv, Shapes
<1>2. ASSUME NEW o \in Handles, NEW t \in Tensors, memory'[o][t] # None
      PROVE  /\ handles'[o].state \in {"open", "closed", "killed"}
             /\ Genuine(o, t, memory[o][t])'
  <2>1. memory[o][t] # None /\ memory'[o][t] = memory[o][t]
    BY <1>2
  <2>2. handles'[o].header = handles[o].header /\ handles'[o].state \in {"open", "closed", "killed"}
    BY <2>1
  <2>3. Genuine(o, t, memory[o][t])
    BY <2>1 DEF OpenInv, MemoryGenuine
  <2>4. Genuine(o, t, memory[o][t]) => Genuine(o, t, memory[o][t])'
    BY <2>1, <2>2 DEF Genuine
  <2>5. QED
    BY <2>2, <2>3, <2>4
<1>3. QED
  BY <1>1, <1>2 DEF OpenInv, MemoryGenuine

(* A step of one handle *)
LEMMA SetStep ==
    ASSUME OpenInv, NEW p \in Handles, NEW h, Set(p, h), nothing' = nothing, Shaped(h),
           \/ handles[p].state \notin {"open", "closed", "killed"}
           \/ h.header = handles[p].header /\ h.state \in {"open", "closed", "killed"}
    PROVE  OpenInv'
<1>1. handles' = [handles EXCEPT ![p] = h] /\ memory' = memory /\ exports' = exports
  BY DEF Set, nothing
<1>2. handles = [o \in Handles |-> handles[o]] /\ \A o \in Handles : Shaped(handles[o])
  BY DEF OpenInv, Shapes
<1>3. /\ handles' = [o \in Handles |-> handles'[o]]
      /\ handles'[p] = h /\ \A o \in Handles \ {p} : handles'[o] = handles[o]
  BY <1>1, <1>2
<1>4. \A o \in Handles : Shaped(handles'[o])
  BY <1>2, <1>3
<1>5. ASSUME NEW o \in Handles
      PROVE  \/ \A t \in Tensors : memory[o][t] = None
             \/ /\ handles'[o].header = handles[o].header
                /\ handles'[o].state \in {"open", "closed", "killed"}
  <2>1. (\A t \in Tensors : memory[o][t] = None)
        \/ handles[o].state \in {"open", "closed", "killed"}
    BY DEF OpenInv, MemoryGenuine
  <2>2. QED
    BY <1>3, <2>1
<1>6. QED
  BY <1>1, <1>3, <1>4, <1>5, HandleStep

(* What EXCEPT makes of a handle *)
Handle(a, b, c, d, e, f) ==
    [state |-> a, fw |-> b, file |-> c, length |-> d, header |-> e, store |-> f]

LEMMA HandleShaped ==
    ASSUME NEW h, NEW a, NEW b, NEW c, NEW d, NEW e, NEW f, h = Handle(a, b, c, d, e, f)
    PROVE  Shaped(h) /\ h.header = e /\ h.state = a
BY DEF Shaped, Handle

LEMMA HandleExcept ==
    ASSUME NEW h, NEW a, NEW b, NEW c, NEW d, NEW e, NEW f, NEW x,
           h = Handle(a, b, c, d, e, f)
    PROVE  /\ Shaped([h EXCEPT !.state = x])
           /\ Shaped([h EXCEPT !.fw = x]) /\ Shaped([h EXCEPT !.file = x])
           /\ Shaped([h EXCEPT !.length = x]) /\ Shaped([h EXCEPT !.header = x])
           /\ Shaped([h EXCEPT !.store = x])
<1>1. [h EXCEPT !.state = x] = Handle(x, b, c, d, e, f)
  BY DEF Handle
<1>2. [h EXCEPT !.fw = x] = Handle(a, x, c, d, e, f)
  BY DEF Handle
<1>3. [h EXCEPT !.file = x] = Handle(a, b, x, d, e, f)
  BY DEF Handle
<1>4. [h EXCEPT !.length = x] = Handle(a, b, c, x, e, f)
  BY DEF Handle
<1>5. [h EXCEPT !.header = x] = Handle(a, b, c, d, x, f)
  BY DEF Handle
<1>6. [h EXCEPT !.store = x] = Handle(a, b, c, d, e, x)
  BY DEF Handle
<1>7. Shaped([h EXCEPT !.state = x])
  BY <1>1, HandleShaped, Zenon
<1>8. Shaped([h EXCEPT !.fw = x])
  BY <1>2, HandleShaped, Zenon
<1>9. Shaped([h EXCEPT !.file = x])
  BY <1>3, HandleShaped, Zenon
<1>10. Shaped([h EXCEPT !.length = x])
  BY <1>4, HandleShaped, Zenon
<1>11. Shaped([h EXCEPT !.header = x])
  BY <1>5, HandleShaped, Zenon
<1>12. Shaped([h EXCEPT !.store = x])
  BY <1>6, HandleShaped, Zenon
<1>13. QED
  BY <1>7, <1>8, <1>9, <1>10, <1>11, <1>12, Zenon

LEMMA ShapedExcept ==
    ASSUME NEW h, Shaped(h), NEW x
    PROVE  /\ Shaped([h EXCEPT !.state = x])
           /\ Shaped([h EXCEPT !.fw = x]) /\ Shaped([h EXCEPT !.file = x])
           /\ Shaped([h EXCEPT !.length = x]) /\ Shaped([h EXCEPT !.header = x])
           /\ Shaped([h EXCEPT !.store = x])
<1>1. h = Handle(h.state, h.fw, h.file, h.length, h.header, h.store)
  BY DEF Shaped, Handle
<1>2. QED
  BY <1>1, HandleExcept, Zenon

LEMMA StateExcept ==
    ASSUME NEW h, Shaped(h), NEW x
    PROVE  [h EXCEPT !.state = x].header = h.header /\ [h EXCEPT !.state = x].state = x
BY DEF Shaped

LEMMA ShapedTwice ==
    ASSUME NEW h, Shaped(h), NEW x, NEW y
    PROVE  /\ Shaped([h EXCEPT !.state = x, !.length = y])
           /\ Shaped([h EXCEPT !.state = x, !.header = y])
           /\ Shaped([h EXCEPT !.state = x, !.store = y])
<1>1. Shaped([h EXCEPT !.state = x])
  BY ShapedExcept, Zenon
<1>2. /\ [h EXCEPT !.state = x, !.length = y] = [[h EXCEPT !.state = x] EXCEPT !.length = y]
      /\ [h EXCEPT !.state = x, !.header = y] = [[h EXCEPT !.state = x] EXCEPT !.header = y]
      /\ [h EXCEPT !.state = x, !.store = y] = [[h EXCEPT !.state = x] EXCEPT !.store = y]
  OBVIOUS
<1>3. /\ Shaped([[h EXCEPT !.state = x] EXCEPT !.length = y])
      /\ Shaped([[h EXCEPT !.state = x] EXCEPT !.header = y])
      /\ Shaped([[h EXCEPT !.state = x] EXCEPT !.store = y])
  BY <1>1, ShapedExcept, Zenon
<1>4. QED
  BY <1>2, <1>3, Zenon

LEMMA UnopenedExcept ==
    ASSUME NEW x, NEW y, NEW z
    PROVE  Shaped([Unopened EXCEPT !.state = x, !.fw = y, !.file = z])
<1> DEFINE g == [Unopened EXCEPT !.state = x]
           h == [g EXCEPT !.fw = y]
<1>1. Shaped(Unopened)
  BY DEF Shaped, Unopened
<1>2. Shaped(g)
  BY <1>1, ShapedExcept, Zenon
<1>3. Shaped(h)
  BY <1>2, ShapedExcept, Zenon
<1>4. Shaped([h EXCEPT !.file = z])
  BY <1>3, ShapedExcept, Zenon
<1>5. [Unopened EXCEPT !.state = x, !.fw = y, !.file = z] = [h EXCEPT !.file = z]
  OBVIOUS
<1>6. QED
  BY <1>4, <1>5, Zenon

(* One cell of the memory is set. *)
LEMMA MemorySet ==
    ASSUME OpenInv, NEW p \in Handles, NEW u \in Tensors, NEW r,
           memory' = [memory EXCEPT ![p][u] = r], UNCHANGED handles,
           exports \subseteq exports', handles[p].state \in {"open", "closed"},
           Genuine(p, u, r)'
    PROVE  OpenInv'
<1>1. /\ memory = [o \in Handles |-> memory[o]]
      /\ \A o \in Handles : memory[o] = [t \in Tensors |-> memory[o][t]]
  BY DEF OpenInv, Shapes
<1>2. /\ memory' = [o \in Handles |-> memory'[o]]
      /\ \A o \in Handles \ {p} : memory'[o] = memory[o]
      /\ memory'[p] = [memory[p] EXCEPT ![u] = r]
  BY <1>1
<1>3. /\ memory'[p] = [t \in Tensors |-> memory'[p][t]]
      /\ memory'[p][u] = r /\ \A t \in Tensors \ {u} : memory'[p][t] = memory[p][t]
  <2>1. memory[p] = [t \in Tensors |-> memory[p][t]]
    BY <1>1
  <2>2. QED
    BY <1>2, <2>1
<1>4. Shapes'
  BY <1>1, <1>2, <1>3 DEF OpenInv, Shapes
<1>5. ASSUME NEW o \in Handles, NEW t \in Tensors, memory'[o][t] # None
      PROVE  /\ handles'[o].state \in {"open", "closed", "killed"}
             /\ Genuine(o, t, memory[o][t])'
  <2>1. CASE o = p /\ t = u
    BY <1>3, <2>1 DEF Secret
  <2>2. CASE ~(o = p /\ t = u)
    <3>1. memory'[o][t] = memory[o][t]
      BY <1>2, <1>3, <2>2
    <3>2. /\ handles[o].state \in {"open", "closed", "killed"}
          /\ Genuine(o, t, memory[o][t])
      BY <1>5, <3>1 DEF OpenInv, MemoryGenuine
    <3>3. QED
      BY <3>1, <3>2 DEF Secret, Genuine
  <2>3. QED
    BY <2>1, <2>2
<1>6. QED
  BY <1>4, <1>5 DEF OpenInv, MemoryGenuine

LEMMA OpenInvStep == OpenInv /\ [Next]_vars => OpenInv'
<1> SUFFICES ASSUME OpenInv, [Next]_vars PROVE OpenInv'
  OBVIOUS
<1>s. /\ handles = [o \in Handles |-> handles[o]]
      /\ \A o \in Handles : Shaped(handles[o])
  BY DEF OpenInv, Shapes
(* The writing process does not touch the reading one. *)
<1>1. ASSUME UNCHANGED reading PROVE OpenInv'
  <2>1. handles' = handles /\ memory' = memory /\ exports' = exports
    BY <1>1 DEF reading
  <2>2. QED
    BY <2>1 DEF OpenInv, Shapes, MemoryGenuine, Genuine
<1>2. ASSUME NEW o \in Handles, OpenFile(o) PROVE OpenInv'
  <2>1. PICK fw \in Frameworks : Set(o, [Unopened EXCEPT !.state = "file", !.fw = fw, !.file = path])
    BY <1>2 DEF OpenFile
  <2>2. nothing' = nothing /\ handles[o].state = "none"
    BY <1>2 DEF OpenFile, nothing
  <2>3. QED
    BY <2>1, <2>2, UnopenedExcept, SetStep
<1>3. ASSUME NEW o \in Handles, MapFile(o) PROVE OpenInv'
  <2> DEFINE l == Len(files[handles[o].file])
  <2>1. /\ Set(o, [handles[o] EXCEPT !.state = "mapped", !.length = l])
        /\ nothing' = nothing /\ handles[o].state = "file"
    BY <1>3 DEF MapFile, nothing
  <2> HIDE DEF l
  <2>2. Shaped([handles[o] EXCEPT !.state = "mapped", !.length = l])
    BY <1>s, ShapedExcept, ShapedTwice, Zenon
  <2>3. QED
    BY <2>1, <2>2, SetStep
<1>4. ASSUME NEW o \in Handles, ReadMetadata(o) PROVE OpenInv'
  <2> DEFINE f == files[handles[o].file]
             hd == HeaderOf(f)
  <2>1. /\ \/ Set(o, [handles[o] EXCEPT !.state = "parsed", !.header = hd])
           \/ Set(o, [handles[o] EXCEPT !.state = "refused"])
        /\ nothing' = nothing /\ handles[o].state = "mapped"
    BY <1>4 DEF ReadMetadata, nothing
  <2> HIDE DEF hd
  <2>2. /\ Shaped([handles[o] EXCEPT !.state = "parsed", !.header = hd])
        /\ Shaped([handles[o] EXCEPT !.state = "refused"])
    BY <1>s, ShapedExcept, ShapedTwice, Zenon
  <2>3. QED
    BY <2>1, <2>2, SetStep
<1>5. ASSUME Kill PROVE OpenInv'
  <2>1. /\ handles' = [o \in Handles |-> [handles[o] EXCEPT !.state = "killed"]]
        /\ memory' = memory /\ exports' = exports
    BY <1>5 DEF Kill, nothing
  <2>2. \A o \in Handles : handles'[o] = [handles[o] EXCEPT !.state = "killed"]
    BY <2>1
  <2>3. ASSUME NEW o \in Handles
        PROVE  /\ Shaped(handles'[o])
               /\ handles'[o].header = handles[o].header /\ handles'[o].state = "killed"
    <3>1. /\ Shaped([handles[o] EXCEPT !.state = "killed"])
          /\ [handles[o] EXCEPT !.state = "killed"].header = handles[o].header
          /\ [handles[o] EXCEPT !.state = "killed"].state = "killed"
      BY <1>s, ShapedExcept, StateExcept
    <3>2. QED
      BY <2>2, <3>1
  <2>4. handles' = [o \in Handles |-> handles'[o]]
    BY <2>1
  <2>5. QED
    BY <2>1, <2>3, <2>4, HandleStep
<1>6. ASSUME NEW o \in Handles, KeepMapping(o) PROVE OpenInv'
  <2> DEFINE f == handles[o].file
  <2>1. /\ Set(o, [handles[o] EXCEPT !.state = "open", !.store = f])
        /\ nothing' = nothing /\ handles[o].state = "parsed"
    BY <1>6 DEF KeepMapping, nothing
  <2> HIDE DEF f
  <2>2. Shaped([handles[o] EXCEPT !.state = "open", !.store = f])
    BY <1>s, ShapedExcept, ShapedTwice, Zenon
  <2>3. QED
    BY <2>1, <2>2, SetStep
<1>7. ASSUME NEW o \in Handles, MapPath(o) PROVE OpenInv'
  <2>1. /\ \/ Set(o, [handles[o] EXCEPT !.state = "open", !.store = path])
           \/ Set(o, [handles[o] EXCEPT !.state = "refused"])
        /\ nothing' = nothing /\ handles[o].state = "parsed"
    BY <1>7 DEF MapPath, nothing
  <2>2. /\ Shaped([handles[o] EXCEPT !.state = "open", !.store = path])
        /\ Shaped([handles[o] EXCEPT !.state = "refused"])
    BY <1>s, ShapedExcept, ShapedTwice, Zenon
  <2>3. QED
    BY <2>1, <2>2, SetStep
<1>8. ASSUME NEW o \in Handles, NEW t \in Tensors, NEW slice, NEW r, Read(o, t, slice, r),
             handles[o].state \in {"open", "closed"},
             Secret(o, t) => r \in {Error, Closed} \/ Genuine(o, t, r)
      PROVE  OpenInv'
  <2>1. CASE r = Fault
    BY <1>5, <1>8, <2>1 DEF Read
  <2>2. CASE r # Fault
    <3>1. /\ memory' = IF r \notin {Error, Closed} /\ Secret(o, t)
                       THEN [memory EXCEPT ![o][t] = r] ELSE memory
          /\ exports \subseteq exports' /\ handles' = handles
      BY <1>8, <2>2 DEF Read
    <3>2. CASE r \notin {Error, Closed} /\ Secret(o, t)
      <4>1. Genuine(o, t, r)
        BY <1>8, <3>2
      <4>2. Genuine(o, t, r)'
        BY <3>1, <4>1 DEF Genuine
      <4>3. QED
        BY <1>8, <3>1, <3>2, <4>2, MemorySet
    <3>3. CASE ~(r \notin {Error, Closed} /\ Secret(o, t))
      <4>1. memory' = memory
        BY <3>1, <3>3
      <4>2. /\ handles' = [p \in Handles |-> handles'[p]]
            /\ \A p \in Handles : Shaped(handles'[p])
        BY <1>s, <3>1
      <4>3. \A p \in Handles :
               \/ \A u \in Tensors : memory[p][u] = None
               \/ /\ handles'[p].header = handles[p].header
                  /\ handles'[p].state \in {"open", "closed", "killed"}
        BY <3>1 DEF OpenInv, MemoryGenuine
      <4>4. QED
        BY <3>1, <4>1, <4>2, <4>3, HandleStep
    <3>4. QED
      BY <3>2, <3>3
  <2>3. QED
    BY <2>1, <2>2
<1>9. ASSUME NEW o \in Handles, NEW t \in Tensors, ReadTensor(o, t) PROVE OpenInv'
  <2>1. Secret(o, t) => GetTensor(o, t) \in {Error, Closed} \/ Genuine(o, t, GetTensor(o, t))
    BY <1>9, OpenInvImplies DEF ReadTensor, EncryptedGenuine, Live
  <2>2. Read(o, t, FALSE, GetTensor(o, t)) /\ handles[o].state \in {"open", "closed"}
    BY <1>9 DEF ReadTensor
  <2>3. QED
    BY <1>8, <2>1, <2>2
<1>10. ASSUME NEW o \in Handles, NEW t \in Tensors, ReadSlice(o, t) PROVE OpenInv'
  <2>1. Secret(o, t) => GetItem(o, t) \in {Error, Closed} \/ Genuine(o, t, GetItem(o, t))
    BY <1>10, OpenInvImplies DEF ReadSlice, EncryptedGenuine, Live
  <2>2. Read(o, t, TRUE, GetItem(o, t)) /\ handles[o].state \in {"open", "closed"}
    BY <1>10 DEF ReadSlice
  <2>3. QED
    BY <1>8, <2>1, <2>2
<1>11. ASSUME NEW o \in Handles, NEW t \in Tensors, TakeSlice(o, t) PROVE OpenInv'
  <2>1. handles' = handles /\ memory' = memory /\ exports' = exports
    BY <1>11 DEF TakeSlice
  <2>2. QED
    BY <2>1 DEF OpenInv, Shapes, MemoryGenuine, Genuine
<1>12. ASSUME NEW o \in Handles, NEW t \in Tensors, Poke(o, t) PROVE OpenInv'
  <2>1. /\ handles[o].state \in {"open", "closed"} /\ <<o, t>> \in exports
        /\ memory' = [memory EXCEPT ![o][t] = Changed]
        /\ handles' = handles /\ exports' = exports
    BY <1>12 DEF Poke
  <2>2. Genuine(o, t, Changed)'
    BY <2>1 DEF Genuine
  <2>3. QED
    BY <2>1, <2>2, MemorySet
<1>13. ASSUME NEW o \in Handles, Exit(o) PROVE OpenInv'
  <2>1. /\ Set(o, [handles[o] EXCEPT !.state = "closed"])
        /\ nothing' = nothing /\ handles[o].state = "open"
    BY <1>13 DEF Exit, nothing
  <2>2. /\ Shaped([handles[o] EXCEPT !.state = "closed"])
        /\ [handles[o] EXCEPT !.state = "closed"].header = handles[o].header
        /\ [handles[o] EXCEPT !.state = "closed"].state = "closed"
    BY <1>s, ShapedExcept, StateExcept
  <2>3. QED
    BY <2>1, <2>2, SetStep
<1>14. CASE SerializeFile \/ RewrapFile \/ Truncate \/ WriteCell \/ WriterFails \/ Replace
  BY <1>1, <1>14 DEF SerializeFile, RewrapFile, Truncate, WriteCell, WriterFails, Replace
<1>15. CASE UNCHANGED vars
  BY <1>1, <1>15 DEF vars, reading
<1>16. ASSUME NEW o \in Handles, MetadataFaults(o) PROVE OpenInv'
  BY <1>5, <1>16 DEF MetadataFaults
<1>17. QED
  BY <1>2, <1>3, <1>4, <1>6, <1>7, <1>9, <1>10, <1>11, <1>12, <1>13, <1>14, <1>15, <1>16
     DEF Next

(* Whatever happens to the file, and however many handles read it, an       *)
(* encrypted tensor is answered with the bytes of the save whose header was *)
(* parsed, with what the process itself wrote over them, or with an error.  *)
THEOREM GenuineCorrect == Spec => []EncryptedGenuine
<1>1. Spec => []OpenInv
  BY OpenInvInit, OpenInvStep, PTL DEF Spec
<1>2. QED
  BY <1>1, OpenInvImplies, PTL

-----------------------------------------------------------------------------
(* The files: each is the beginning of what a save or a rewrap meant to     *)
(* write, and the writing process is about to write the next cell of it.    *)

Cells    == [header : Headers \cup {None}, save : 1 .. MaxSaves, at : Nat \cup Tensors]
Contents == Seq(Cells)
Writers  == [phase : {"idle", "ready", "writing"}, image : Contents, file : Nat]

Begins(f, g) ==
    /\ Len(f) <= Len(g)
    /\ \A i \in 1 .. Len(f) : f[i] = g[i]

(* The headers that this many rewraps can have made *)
Made(n) == {h \in Headers : h.wraps <= n}

FilesInv ==
    /\ files \in Seq(Contents)
    /\ saves \in 1 .. MaxSaves /\ rewraps \in 0 .. MaxRewraps
    /\ path \in DOMAIN files
    /\ \A n \in DOMAIN files : \E h \in Made(rewraps) : Begins(files[n], Image(h))
    /\ writer \in Writers /\ writer.file \in DOMAIN files
    /\ writer.phase # "idle" => \E h \in Made(rewraps) : writer.image = Image(h)
    /\ writer.phase = "writing" =>
          /\ Len(files[writer.file]) < Len(writer.image)
          /\ Begins(files[writer.file], writer.image)

LEMMA HeaderFields ==
    ASSUME NEW h \in Headers
    PROVE  /\ h.save \in 1 .. MaxSaves /\ h.secret \in SUBSET Tensors
           /\ h.wraps \in 0 .. MaxRewraps /\ h.len \in HeaderLens
           /\ h.len \in Nat /\ h.len >= 1
<1>1. /\ h.save \in 1 .. MaxSaves /\ h.secret \in SUBSET Tensors
      /\ h.wraps \in 0 .. MaxRewraps /\ h.len \in HeaderLens
  BY DEF Headers
<1>2. h.len \in Nat \ {0}
  BY <1>1, ConstantsAssumption
<1>3. h.len \in Nat /\ h.len >= 1
  BY <1>2
<1>4. QED
  BY <1>1, <1>3

LEMMA OrderFields ==
    /\ Len(Order) \in Nat /\ DOMAIN Order = 1 .. Len(Order)
    /\ \A i \in DOMAIN Order : Order[i] \in Tensors
BY ConstantsAssumption DEF Tensors

(* What a save writes *)
LEMMA ImageShape ==
    ASSUME NEW h \in Headers
    PROVE  /\ Image(h) \in Contents
           /\ Len(Image(h)) = h.len + Len(Order)
           /\ DOMAIN Image(h) = 1 .. h.len + Len(Order)
           /\ \A i \in 1 .. h.len : Image(h)[i] = Part(h, i)
           /\ \A i \in DOMAIN Order : Image(h)[h.len + i] = Stored(h.save, Order[i])
<1> DEFINE head == [i \in 1 .. h.len |-> Part(h, i)]
           tail == [i \in DOMAIN Order |-> Stored(h.save, Order[i])]
<1>1. h.save \in 1 .. MaxSaves /\ h.len \in Nat /\ Len(Order) \in Nat /\ DOMAIN Order = 1 .. Len(Order)
  BY HeaderFields, OrderFields
<1>2. \A i \in 1 .. h.len : Part(h, i) \in Cells
  BY <1>1 DEF Part, Cells
<1>3. \A i \in DOMAIN Order : Stored(h.save, Order[i]) \in Cells
  BY <1>1, OrderFields DEF Stored, Cells
<1>4. /\ head \in Seq(Cells) /\ Len(head) = h.len
      /\ \A i \in 1 .. h.len : head[i] = Part(h, i)
  BY <1>1, <1>2
<1>5. /\ tail \in Seq(Cells) /\ Len(tail) = Len(Order)
      /\ \A i \in DOMAIN Order : tail[i] = Stored(h.save, Order[i])
  BY <1>1, <1>3
<1>6. Image(h) = head \o tail
  BY DEF Image
<1> HIDE DEF head, tail
<1>7. /\ head \o tail \in Seq(Cells)
      /\ Len(head \o tail) = Len(head) + Len(tail)
      /\ DOMAIN (head \o tail) = 1 .. Len(head) + Len(tail)
      /\ \A i \in 1 .. Len(head) : (head \o tail)[i] = head[i]
      /\ \A i \in 1 .. Len(tail) : (head \o tail)[Len(head) + i] = tail[i]
  <2>1. Len(head) \in Nat /\ Len(tail) \in Nat
    BY <1>1, <1>4, <1>5
  <2>2. /\ head \o tail \in Seq(Cells) /\ Len(head \o tail) = Len(head) + Len(tail)
        /\ DOMAIN (head \o tail) = 1 .. Len(head) + Len(tail)
    BY <1>4, <1>5, <2>1
  <2>3. \A i \in 1 .. Len(head) : (head \o tail)[i] = head[i]
    BY <1>4, <1>5, <2>1
  <2>4. ASSUME NEW i \in 1 .. Len(tail)
        PROVE  (head \o tail)[Len(head) + i] = tail[i]
    <3>1. Len(head) + i \in 1 .. Len(head) + Len(tail) /\ Len(head) + i > Len(head)
          /\ (Len(head) + i) - Len(head) = i
      BY <2>1
    <3>2. (head \o tail)[Len(head) + i] = tail[(Len(head) + i) - Len(head)]
      BY <1>4, <1>5, <2>1, <3>1
    <3>3. QED
      BY <3>1, <3>2
  <2>5. QED
    BY <2>2, <2>3, <2>4
<1>8. QED
  BY <1>1, <1>4, <1>5, <1>6, <1>7 DEF Contents

(* The one header a file that begins an image can show is that image's. *)
LEMMA HeaderFound ==
    ASSUME NEW f \in Contents, NEW h \in Headers, Begins(f, Image(h)), HeaderOf(f) # None
    PROVE  HeaderOf(f) = h /\ h.len <= Len(f)
<1>1. f # <<>> /\ HeaderOf(f) = f[1].header /\ f[1].header.len <= Len(f)
  BY DEF HeaderOf
<1>2. 1 \in 1 .. Len(f) /\ 1 \in 1 .. h.len
  BY <1>1, HeaderFields DEF Contents
<1>3. f[1] = Part(h, 1)
  BY <1>2, ImageShape DEF Begins
<1>4. QED
  BY <1>1, <1>3 DEF Part

(* read_metadata: the header of a file that passes, and all of its data *)
LEMMA AcceptedWhole ==
    ASSUME NEW f \in Contents, NEW h \in Headers, Begins(f, Image(h)),
           NEW length, Accepts(f, length)
    PROVE  /\ HeaderOf(f) = h
           /\ length = h.len + Len(Order)
           /\ Len(f) >= length => InPlace(f, h)
<1>1. HeaderOf(f) = h /\ length = h.len + Len(Order)
  BY HeaderFound DEF Accepts
<1>2. ASSUME Len(f) >= length PROVE InPlace(f, h)
  <2>1. h.len \in Nat /\ Len(Order) \in Nat /\ DOMAIN Order = 1 .. Len(Order) /\ Len(f) \in Nat
    BY HeaderFields, OrderFields DEF Contents
  <2>2. Len(f) = h.len + Len(Order)
    BY <1>1, <1>2, <2>1, ImageShape DEF Begins
  <2>3. ASSUME NEW i \in DOMAIN Order PROVE f[h.len + i] = Stored(h.save, Order[i])
    <3>1. h.len + i \in 1 .. Len(f)
      BY <2>1, <2>2
    <3>2. QED
      BY <3>1, ImageShape DEF Begins
  <2>4. QED
    BY <2>2, <2>3 DEF InPlace
<1>3. QED
  BY <1>1, <1>2

(* A save, whatever it encrypts and however long its header is *)
LEMMA SavedHeader ==
    ASSUME NEW s \in 1 .. MaxSaves, NEW secret \in SUBSET Tensors, NEW len \in HeaderLens,
           NEW n \in 0 .. MaxRewraps
    PROVE  [save |-> s, secret |-> secret, wraps |-> 0, len |-> len] \in Made(n)
<1>1. 0 \in 0 .. MaxRewraps /\ 0 <= n
  BY ConstantsAssumption
<1>2. QED
  BY <1>1 DEF Made, Headers

LEMMA MadeMore ==
    ASSUME NEW n \in Nat, NEW h \in Made(n)
    PROVE  h \in Headers /\ h \in Made(n + 1)
<1>1. h \in Headers /\ h.wraps <= n /\ h.wraps \in 0 .. MaxRewraps
  BY HeaderFields DEF Made
<1>2. h.wraps <= n + 1
  BY <1>1, ConstantsAssumption
<1>3. QED
  BY <1>1, <1>2 DEF Made

LEMMA TailOf ==
    ASSUME NEW S, NEW s \in Seq(S), NEW n \in Nat, n <= Len(s)
    PROVE  /\ SubSeq(s, n + 1, Len(s)) \in Seq(S)
           /\ Len(SubSeq(s, n + 1, Len(s))) = Len(s) - n
           /\ \A i \in 1 .. Len(s) - n : SubSeq(s, n + 1, Len(s))[i] = s[n + i]
OBVIOUS

(* rewrap_file writes a header and the data it read: what a save with that  *)
(* header would have written.                                               *)
LEMMA RewrappedImage ==
    ASSUME NEW f \in Contents, NEW h \in Headers, NEW g \in Headers,
           InPlace(f, h), g.save = h.save
    PROVE  Image(g) = [i \in 1 .. g.len |-> Part(g, i)] \o SubSeq(f, h.len + 1, Len(f))
<1> DEFINE tail == [i \in DOMAIN Order |-> Stored(g.save, Order[i])]
           rest == SubSeq(f, h.len + 1, Len(f))
<1>1. /\ h.len \in Nat /\ Len(Order) \in Nat /\ DOMAIN Order = 1 .. Len(Order)
      /\ Len(f) = h.len + Len(Order)
  BY HeaderFields, OrderFields DEF InPlace
<1>2. /\ rest \in Seq(Cells) /\ Len(rest) = Len(Order)
      /\ \A i \in 1 .. Len(Order) : rest[i] = f[h.len + i]
  <2>1. f \in Seq(Cells) /\ h.len <= Len(f) /\ Len(f) - h.len = Len(Order)
    BY <1>1 DEF Contents
  <2>2. /\ SubSeq(f, h.len + 1, Len(f)) \in Seq(Cells)
        /\ Len(SubSeq(f, h.len + 1, Len(f))) = Len(f) - h.len
        /\ \A i \in 1 .. Len(f) - h.len : SubSeq(f, h.len + 1, Len(f))[i] = f[h.len + i]
    BY <1>1, <2>1, TailOf
  <2>3. QED
    BY <2>1, <2>2
<1>3. \A i \in 1 .. Len(Order) : f[h.len + i] = Stored(g.save, Order[i])
  BY <1>1 DEF InPlace
<1>4. rest = tail
  <2> HIDE DEF rest
  <2>1. rest = [i \in 1 .. Len(Order) |-> rest[i]]
    BY <1>2
  <2>2. QED
    BY <1>1, <1>2, <1>3, <2>1
<1>5. QED
  BY <1>4 DEF Image

(* One cell more of the image that is being written *)
LEMMA OneCellMore ==
    ASSUME NEW f \in Contents, NEW image \in Contents, Begins(f, image), Len(f) < Len(image)
    PROVE  /\ Append(f, image[Len(f) + 1]) \in Contents
           /\ Begins(Append(f, image[Len(f) + 1]), image)
           /\ Append(f, image[Len(f) + 1]) # image => Len(f) + 1 < Len(image)
<1> DEFINE c == image[Len(f) + 1]
           g == Append(f, c)
<1>1. Len(f) \in Nat /\ Len(image) \in Nat
  BY DEF Contents
<1>2. Len(f) + 1 \in 1 .. Len(image)
  BY <1>1
<1>3. c \in Cells
  BY <1>2 DEF Contents
<1>4. /\ g \in Seq(Cells) /\ Len(g) = Len(f) + 1
      /\ g[Len(f) + 1] = c /\ \A i \in 1 .. Len(f) : g[i] = f[i]
  BY <1>1, <1>3 DEF Contents
<1>5. \A i \in 1 .. Len(g) : i \in 1 .. Len(f) \/ i = Len(f) + 1
  BY <1>1, <1>4
<1>6. \A i \in 1 .. Len(g) : g[i] = image[i]
  BY <1>4, <1>5 DEF Begins
<1>7. Len(g) <= Len(image)
  BY <1>1, <1>4
<1>8. ASSUME ~(Len(f) + 1 < Len(image)) PROVE g = image
  <2>1. Len(g) = Len(image)
    BY <1>1, <1>4, <1>8
  <2>2. g = [i \in 1 .. Len(g) |-> g[i]] /\ image = [i \in 1 .. Len(image) |-> image[i]]
    BY <1>4 DEF Contents
  <2>3. QED
    BY <1>6, <2>1, <2>2
<1>9. QED
  BY <1>4, <1>6, <1>7, <1>8 DEF Begins, Contents

LEMMA FileSet ==
    ASSUME NEW s \in Seq(Contents), NEW n \in DOMAIN s, NEW c \in Contents
    PROVE  /\ [s EXCEPT ![n] = c] \in Seq(Contents)
           /\ DOMAIN [s EXCEPT ![n] = c] = DOMAIN s
           /\ [s EXCEPT ![n] = c][n] = c
           /\ \A m \in DOMAIN s \ {n} : [s EXCEPT ![n] = c][m] = s[m]
OBVIOUS

LEMMA FileAdded ==
    ASSUME NEW s \in Seq(Contents), NEW c \in Contents
    PROVE  /\ Append(s, c) \in Seq(Contents)
           /\ Len(Append(s, c)) \in DOMAIN Append(s, c)
           /\ DOMAIN s \subseteq DOMAIN Append(s, c)
           /\ Append(s, c)[Len(Append(s, c))] = c
           /\ \A m \in DOMAIN s : Append(s, c)[m] = s[m]
           /\ \A m \in DOMAIN Append(s, c) : m \in DOMAIN s \/ m = Len(Append(s, c))
<1>1. Len(Append(s, c)) = Len(s) + 1 /\ Len(s) \in Nat /\ Append(s, c) \in Seq(Contents)
  OBVIOUS
<1>2. /\ DOMAIN Append(s, c) = 1 .. Len(s) + 1 /\ DOMAIN s = 1 .. Len(s)
      /\ Append(s, c)[Len(s) + 1] = c /\ \A m \in 1 .. Len(s) : Append(s, c)[m] = s[m]
  BY <1>1
<1>3. \A m \in 1 .. Len(s) + 1 : m \in 1 .. Len(s) \/ m = Len(s) + 1
  BY <1>1
<1>4. QED
  BY <1>1, <1>2, <1>3

(* The image of a header that can have been made begins itself. *)
LEMMA WholeImage ==
    ASSUME NEW n \in Nat, NEW h \in Made(n)
    PROVE  h \in Headers /\ Image(h) \in Contents /\ Begins(Image(h), Image(h))
<1>1. h \in Headers
  BY DEF Made
<1>2. Image(h) \in Contents
  BY <1>1, ImageShape
<1>3. QED
  BY <1>1, <1>2 DEF Begins, Contents

LEMMA FilesInvInit == Init => FilesInv
<1> SUFFICES ASSUME Init PROVE FilesInv
  OBVIOUS
<1>1. /\ path = 1 /\ saves = 1 /\ rewraps = 0
      /\ writer = [phase |-> "idle", image |-> <<>>, file |-> 1]
  BY DEF Init, Idle
<1>2. 1 \in 1 .. MaxSaves /\ 0 \in 0 .. MaxRewraps /\ 0 \in Nat
  BY ConstantsAssumption
<1>3. PICK secret \in SUBSET Tensors, len \in HeaderLens :
         files = <<Image([save |-> 1, secret |-> secret, wraps |-> 0, len |-> len])>>
  BY DEF Init
<1> DEFINE h == [save |-> 1, secret |-> secret, wraps |-> 0, len |-> len]
<1>4. h \in Made(0) /\ files = <<Image(h)>>
  BY <1>2, <1>3, SavedHeader
<1> HIDE DEF h
<1>5. Image(h) \in Contents /\ Begins(Image(h), Image(h))
  BY <1>2, <1>4, WholeImage
<1>6. /\ files \in Seq(Contents) /\ DOMAIN files = {1} /\ files[1] = Image(h)
  BY <1>4, <1>5
<1>7. writer \in Writers /\ writer.file \in DOMAIN files /\ writer.phase = "idle"
  BY <1>1, <1>6 DEF Writers, Contents
<1>8. \A n \in DOMAIN files : \E g \in Made(rewraps) : Begins(files[n], Image(g))
  BY <1>1, <1>4, <1>5, <1>6
<1>9. QED
  BY <1>1, <1>2, <1>6, <1>7, <1>8 DEF FilesInv

(* The writing process is idle, or about to write what it made. *)
LEMMA WriterReady ==
    ASSUME FilesInv, NEW h \in Made(rewraps')
    PROVE  LET w == [phase |-> "ready", file |-> path, image |-> Image(h)]
           IN  w \in Writers /\ w.phase = "ready" /\ w.file = path /\ w.image = Image(h)
<1>1. Image(h) \in Contents
  BY ImageShape DEF Made
<1>2. path \in Nat
  BY DEF FilesInv
<1>3. QED
  BY <1>1, <1>2 DEF Writers

LEMMA FilesInvStep == FilesInv /\ [Next]_vars => FilesInv'
<1> SUFFICES ASSUME FilesInv, [Next]_vars PROVE FilesInv'
  OBVIOUS
<1>f. /\ files \in Seq(Contents) /\ path \in DOMAIN files /\ path \in Nat
      /\ saves \in 1 .. MaxSaves /\ rewraps \in 0 .. MaxRewraps /\ rewraps \in Nat
      /\ writer \in Writers /\ writer.file \in DOMAIN files
  BY ConstantsAssumption DEF FilesInv
<1>w. /\ writer.phase \in {"idle", "ready", "writing"} /\ writer.image \in Contents
      /\ writer.file \in Nat
  BY <1>f DEF Writers
(* The reading process does not touch the files. *)
<1>1. ASSUME UNCHANGED <<files, path, writer, saves, rewraps>> PROVE FilesInv'
  BY <1>1 DEF FilesInv
(* A header was made, and its image is to be written. *)
<1>2. ASSUME NEW h, h \in Made(rewraps'), writer.phase = "idle",
             writer' = [phase |-> "ready", file |-> path, image |-> Image(h)],
             saves' \in 1 .. MaxSaves, rewraps' \in 0 .. MaxRewraps,
             \A g \in Made(rewraps) : g \in Made(rewraps'),
             UNCHANGED <<files, path>>
      PROVE  FilesInv'
  <2>1. writer' \in Writers /\ writer'.phase = "ready" /\ writer'.image = Image(h)
        /\ writer'.file = path
    BY <1>2, WriterReady
  <2>2. \A n \in DOMAIN files : \E g \in Made(rewraps') : Begins(files[n], Image(g))
    BY <1>2 DEF FilesInv
  <2>3. QED
    BY <1>f, <1>2, <2>1, <2>2 DEF FilesInv
<1>3. CASE SerializeFile
  <2>1. /\ writer.phase = "idle" /\ saves' = saves + 1 /\ saves < MaxSaves
        /\ rewraps' = rewraps /\ UNCHANGED <<files, path>>
    BY <1>3 DEF SerializeFile
  <2>2. PICK secret \in SUBSET Tensors, len \in HeaderLens :
           writer' = [phase |-> "ready", file |-> path,
                      image |-> Image([save |-> saves', secret |-> secret,
                                       wraps |-> 0, len |-> len])]
    BY <1>3 DEF SerializeFile
  <2>3. saves' \in 1 .. MaxSaves
    BY <1>f, <2>1, ConstantsAssumption
  <2>4. [save |-> saves', secret |-> secret, wraps |-> 0, len |-> len] \in Made(rewraps')
    BY <1>f, <2>1, <2>3, SavedHeader
  <2>5. QED
    BY <1>2, <1>f, <2>1, <2>2, <2>3, <2>4
<1>4. CASE RewrapFile
  <2> DEFINE f == files[path]
             g == HeaderOf(f)
  <2>1. /\ writer.phase = "idle" /\ rewraps' = rewraps + 1 /\ rewraps < MaxRewraps
        /\ Accepts(f, Len(f)) /\ saves' = saves /\ UNCHANGED <<files, path>>
    BY <1>4 DEF RewrapFile
  <2>2. PICK len \in HeaderLens :
           writer' = [phase |-> "ready", file |-> path,
                      image |-> [i \in 1 .. len |-> Part([g EXCEPT !.wraps = @ + 1, !.len = len], i)]
                                   \o SubSeq(f, g.len + 1, Len(f))]
    BY <1>4 DEF RewrapFile
  <2>3. f \in Contents
    BY <1>f
  <2>4. PICK k \in Made(rewraps) : Begins(f, Image(k))
    BY <1>f DEF FilesInv
  <2>5. k \in Headers /\ k.wraps <= rewraps
    BY <2>4 DEF Made
  <2> HIDE DEF f
  <2>6. g = k /\ InPlace(f, k)
    <3>1. Len(f) >= Len(f)
      BY <2>3 DEF Contents
    <3>2. QED
      BY <2>1, <2>3, <2>4, <2>5, <3>1, AcceptedWhole
  <2> HIDE DEF g
  <2> DEFINE h == [k EXCEPT !.wraps = @ + 1, !.len = len]
  <2>7. h \in Headers /\ h.wraps = k.wraps + 1 /\ h.save = k.save /\ h.len = len
    <3>1. k.wraps + 1 \in 0 .. MaxRewraps
      BY <1>f, <2>1, <2>5, HeaderFields, ConstantsAssumption
    <3>2. QED
      BY <2>5, <3>1 DEF Headers
  <2> HIDE DEF h
  <2>8. h \in Made(rewraps')
    <3>1. k.wraps + 1 <= rewraps + 1
      BY <1>f, <2>5, HeaderFields, ConstantsAssumption
    <3>2. QED
      BY <2>1, <2>7, <3>1 DEF Made
  <2>9. Image(h) = [i \in 1 .. h.len |-> Part(h, i)] \o SubSeq(f, k.len + 1, Len(f))
    BY <2>3, <2>5, <2>6, <2>7, RewrappedImage
  <2>10. writer' = [phase |-> "ready", file |-> path, image |-> Image(h)]
    BY <2>2, <2>6, <2>7, <2>9 DEF h
  <2>11. rewraps' \in 0 .. MaxRewraps /\ saves' \in 1 .. MaxSaves
    BY <1>f, <2>1, ConstantsAssumption
  <2>12. \A j \in Made(rewraps) : j \in Made(rewraps')
    BY <1>f, <2>1, MadeMore
  <2>13. QED
    BY <1>2, <2>1, <2>8, <2>10, <2>11, <2>12
<1>5. CASE Truncate
  <2>1. /\ writer.phase = "ready" /\ files' = [files EXCEPT ![path] = <<>>]
        /\ writer' = [writer EXCEPT !.phase = "writing", !.file = path]
        /\ path' = path /\ saves' = saves /\ rewraps' = rewraps
    BY <1>5 DEF Truncate
  <2>2. <<>> \in Contents
    BY DEF Contents
  <2>3. /\ files' \in Seq(Contents) /\ DOMAIN files' = DOMAIN files /\ files'[path] = <<>>
        /\ \A m \in DOMAIN files \ {path} : files'[m] = files[m]
    BY <1>f, <2>1, <2>2, FileSet
  <2>4. PICK h \in Made(rewraps) : writer.image = Image(h)
    BY <2>1 DEF FilesInv
  <2>5. h \in Headers /\ Image(h) \in Contents /\ Len(Image(h)) = h.len + Len(Order)
        /\ h.len \in Nat /\ h.len >= 1 /\ Len(Order) \in Nat
    BY <2>4, ImageShape, HeaderFields, OrderFields DEF Made
  <2>6. Begins(<<>>, Image(h)) /\ Len(<<>>) < Len(Image(h))
    BY <2>5 DEF Begins, Contents
  <2>7. /\ writer' \in Writers /\ writer'.phase = "writing" /\ writer'.file = path
        /\ writer'.image = writer.image
    BY <1>f, <2>1 DEF Writers
  <2>8. \A n \in DOMAIN files' : \E k \in Made(rewraps) : Begins(files'[n], Image(k))
    <3>1. ASSUME NEW n \in DOMAIN files'
          PROVE  \E k \in Made(rewraps) : Begins(files'[n], Image(k))
      <4>1. CASE n = path
        BY <2>3, <2>4, <2>6, <4>1
      <4>2. CASE n # path
        BY <2>3, <4>2 DEF FilesInv
      <4>3. QED
        BY <4>1, <4>2
    <3>2. QED
      BY <3>1
  <2>9. QED
    BY <1>f, <2>1, <2>3, <2>4, <2>6, <2>7, <2>8 DEF FilesInv
<1>6. ASSUME writer' = Idle, UNCHANGED <<saves, rewraps, path>>,
             files' \in Seq(Contents), DOMAIN files' = DOMAIN files,
             \A n \in DOMAIN files' : \E h \in Made(rewraps) : Begins(files'[n], Image(h))
      PROVE  FilesInv'
  <2>1. writer' \in Writers /\ writer'.phase = "idle" /\ writer'.file = path
    BY <1>f, <1>6 DEF Idle, Writers, Contents
  <2>2. QED
    BY <1>f, <1>6, <2>1 DEF FilesInv
<1>7. CASE WriteCell
  <2> DEFINE n == writer.file
             f == files[n]
             g == Append(f, writer.image[Len(f) + 1])
  <2>1. /\ writer.phase = "writing" /\ files' = [files EXCEPT ![n] = g]
        /\ writer' = IF g = writer.image THEN Idle ELSE writer
        /\ UNCHANGED <<path, saves, rewraps>>
    BY <1>7 DEF WriteCell
  <2>2. PICK h \in Made(rewraps) : writer.image = Image(h)
    BY <2>1 DEF FilesInv
  <2>3. f \in Contents /\ Begins(f, writer.image) /\ Len(f) < Len(writer.image)
    BY <1>f, <2>1 DEF FilesInv
  <2>4. g \in Contents /\ Begins(g, writer.image) /\ Len(f) \in Nat
        /\ (g # writer.image => Len(f) + 1 < Len(writer.image))
        /\ Len(g) = Len(f) + 1
    <3>1. Len(f) \in Nat /\ Len(f) + 1 \in 1 .. Len(writer.image)
      BY <1>w, <2>3 DEF Contents
    <3>2. Len(g) = Len(f) + 1
      BY <1>w, <2>3, <3>1 DEF Contents
    <3>3. QED
      BY <1>w, <2>3, <3>1, <3>2, OneCellMore
  <2> HIDE DEF g
  <2>5. /\ files' \in Seq(Contents) /\ DOMAIN files' = DOMAIN files /\ files'[n] = g
        /\ \A m \in DOMAIN files \ {n} : files'[m] = files[m]
    BY <1>f, <2>1, <2>4, FileSet
  <2>6. \A m \in DOMAIN files' : \E k \in Made(rewraps) : Begins(files'[m], Image(k))
    <3>1. ASSUME NEW m \in DOMAIN files'
          PROVE  \E k \in Made(rewraps) : Begins(files'[m], Image(k))
      <4>1. CASE m = n
        BY <2>2, <2>4, <2>5, <4>1
      <4>2. CASE m # n
        BY <2>5, <4>2 DEF FilesInv
      <4>3. QED
        BY <4>1, <4>2
    <3>2. QED
      BY <3>1
  <2>7. CASE g = writer.image
    BY <1>6, <2>1, <2>5, <2>6, <2>7
  <2>8. CASE g # writer.image
    <3>1. writer' = writer /\ Len(files'[writer.file]) < Len(writer.image)
          /\ Begins(files'[writer.file], writer.image)
      BY <2>1, <2>4, <2>5, <2>8
    <3>2. QED
      BY <1>f, <2>1, <2>2, <2>5, <2>6, <3>1 DEF FilesInv
  <2>9. QED
    BY <2>7, <2>8
<1>8. CASE WriterFails
  <2>1. writer' = Idle /\ UNCHANGED <<files, path, saves, rewraps>>
    BY <1>8 DEF WriterFails
  <2>2. \A n \in DOMAIN files' : \E h \in Made(rewraps) : Begins(files'[n], Image(h))
    BY <2>1 DEF FilesInv
  <2>3. QED
    BY <1>6, <1>f, <2>1, <2>2
<1>9. CASE Replace
  <2>1. /\ saves' = saves + 1 /\ saves < MaxSaves /\ path' = Len(files')
        /\ writer' = writer /\ rewraps' = rewraps
    BY <1>9 DEF Replace
  <2>2. PICK secret \in SUBSET Tensors, len \in HeaderLens :
           files' = Append(files, Image([save |-> saves', secret |-> secret,
                                         wraps |-> 0, len |-> len]))
    BY <1>9 DEF Replace
  <2> DEFINE h == [save |-> saves', secret |-> secret, wraps |-> 0, len |-> len]
  <2>3. saves' \in 1 .. MaxSaves
    BY <1>f, <2>1, ConstantsAssumption
  <2>4. h \in Made(rewraps)
    BY <1>f, <2>3, SavedHeader
  <2>5. Image(h) \in Contents /\ Begins(Image(h), Image(h)) /\ files' = Append(files, Image(h))
    BY <1>f, <2>2, <2>4, WholeImage
  <2> HIDE DEF h
  <2>6. /\ files' \in Seq(Contents) /\ path' \in DOMAIN files' /\ files'[path'] = Image(h)
        /\ DOMAIN files \subseteq DOMAIN files'
        /\ \A m \in DOMAIN files : files'[m] = files[m]
        /\ \A m \in DOMAIN files' : m \in DOMAIN files \/ m = path'
    BY <1>f, <2>1, <2>5, FileAdded
  <2>7. \A m \in DOMAIN files' : \E k \in Made(rewraps) : Begins(files'[m], Image(k))
    <3>1. ASSUME NEW m \in DOMAIN files'
          PROVE  \E k \in Made(rewraps) : Begins(files'[m], Image(k))
      <4>1. CASE m = path'
        BY <2>4, <2>5, <2>6, <4>1
      <4>2. CASE m \in DOMAIN files
        BY <2>6, <4>2 DEF FilesInv
      <4>3. QED
        BY <2>6, <4>1, <4>2
    <3>2. QED
      BY <3>1
  <2>8. writer.file \in DOMAIN files' /\ files'[writer.file] = files[writer.file]
    BY <1>f, <2>6
  <2>9. QED
    BY <1>f, <2>1, <2>3, <2>6, <2>7, <2>8 DEF FilesInv
<1>10. ASSUME Kill PROVE FilesInv'
  BY <1>1, <1>10 DEF Kill, nothing
<1>11. ASSUME NEW o \in Handles,
              OpenFile(o) \/ MapFile(o) \/ ReadMetadata(o) \/ KeepMapping(o) \/ MapPath(o) \/ Exit(o)
       PROVE  FilesInv'
  BY <1>1, <1>11 DEF OpenFile, MapFile, ReadMetadata, KeepMapping, MapPath, Exit, nothing
<1>12. ASSUME NEW o \in Handles, MetadataFaults(o) PROVE FilesInv'
  BY <1>10, <1>12 DEF MetadataFaults
<1>13. ASSUME NEW o \in Handles, NEW t \in Tensors, NEW slice, NEW r, Read(o, t, slice, r)
       PROVE  FilesInv'
  BY <1>1, <1>10, <1>13 DEF Read
<1>14. ASSUME NEW o \in Handles, NEW t \in Tensors,
              ReadTensor(o, t) \/ TakeSlice(o, t) \/ ReadSlice(o, t) \/ Poke(o, t)
       PROVE  FilesInv'
  BY <1>1, <1>13, <1>14 DEF ReadTensor, TakeSlice, ReadSlice, Poke
<1>15. CASE UNCHANGED vars
  BY <1>1, <1>15 DEF vars
<1>16. QED
  BY <1>3, <1>4, <1>5, <1>7, <1>8, <1>9, <1>11, <1>12, <1>14, <1>15 DEF Next

-----------------------------------------------------------------------------
(* The handles: each has a file, and from then on where it says, the header *)
(* it parsed and the storage it reads from.                                 *)

HandlesInv ==
    /\ \A o \in Handles :
          /\ handles[o].state \in {"file", "mapped", "parsed", "open", "closed"}
                => handles[o].file \in DOMAIN files
          /\ handles[o].state \in {"parsed", "open", "closed"} => handles[o].header \in Headers
          /\ handles[o].state \in {"open", "closed"} => handles[o].store \in DOMAIN files
    /\ exports \subseteq Handles \X Tensors /\ slices \subseteq Handles \X Tensors

ReadInv == OpenInv /\ FilesInv /\ HandlesInv

(* No file is ever gone. *)
LEMMA FilesStay == FilesInv /\ [Next]_vars => DOMAIN files \subseteq DOMAIN files'
<1> SUFFICES ASSUME FilesInv, [Next]_vars PROVE DOMAIN files \subseteq DOMAIN files'
  OBVIOUS
<1>1. files \in Seq(Contents)
  BY DEF FilesInv
<1>2. CASE Truncate
  BY <1>1, <1>2 DEF Truncate
<1>3. CASE WriteCell
  BY <1>1, <1>3 DEF WriteCell
<1>4. CASE Replace
  BY <1>1, <1>4 DEF Replace
<1>5. CASE SerializeFile \/ RewrapFile \/ WriterFails
  BY <1>5 DEF SerializeFile, RewrapFile, WriterFails
<1>6. CASE UNCHANGED vars
  BY <1>6 DEF vars
<1>7. ASSUME Kill PROVE files' = files
  BY <1>7 DEF Kill, nothing
<1>8. ASSUME NEW o \in Handles,
             OpenFile(o) \/ MapFile(o) \/ ReadMetadata(o) \/ KeepMapping(o) \/ MapPath(o) \/ Exit(o)
      PROVE  files' = files
  BY <1>8 DEF OpenFile, MapFile, ReadMetadata, KeepMapping, MapPath, Exit, nothing
<1>9. ASSUME NEW o \in Handles, MetadataFaults(o) PROVE files' = files
  BY <1>7, <1>9 DEF MetadataFaults
<1>10. ASSUME NEW o \in Handles, NEW t \in Tensors,
              ReadTensor(o, t) \/ TakeSlice(o, t) \/ ReadSlice(o, t) \/ Poke(o, t)
       PROVE  files' = files
  BY <1>7, <1>10 DEF ReadTensor, TakeSlice, ReadSlice, Poke, Read
<1>11. QED
  BY <1>2, <1>3, <1>4, <1>5, <1>6, <1>8, <1>9, <1>10 DEF Next

(* read_metadata over a handle's mapping *)
LEMMA HandleAccepts ==
    ASSUME FilesInv, NEW n \in DOMAIN files, NEW length, Accepts(files[n], length)
    PROVE  /\ HeaderOf(files[n]) \in Headers
           /\ Len(files[n]) >= length => InPlace(files[n], HeaderOf(files[n]))
<1>1. PICK h \in Made(rewraps) : Begins(files[n], Image(h))
  BY DEF FilesInv
<1>2. h \in Headers /\ files[n] \in Contents
  BY <1>1 DEF Made, FilesInv
<1>3. QED
  BY <1>1, <1>2, AcceptedWhole

(* A step of one handle *)
LEMMA HandleSet ==
    ASSUME OpenInv, FilesInv, HandlesInv, NEW p \in Handles, NEW h, Set(p, h), nothing' = nothing,
           h.state \in {"file", "mapped", "parsed", "open", "closed"} => h.file \in DOMAIN files,
           h.state \in {"parsed", "open", "closed"} => h.header \in Headers,
           h.state \in {"open", "closed"} => h.store \in DOMAIN files
    PROVE  HandlesInv'
<1>1. handles' = [handles EXCEPT ![p] = h] /\ handles = [o \in Handles |-> handles[o]]
  BY DEF Set, OpenInv, Shapes
<1>2. handles'[p] = h /\ \A o \in Handles \ {p} : handles'[o] = handles[o]
  BY <1>1
<1>3. files' = files /\ exports' = exports /\ slices' = slices
  BY DEF nothing
<1>4. QED
  BY <1>2, <1>3 DEF HandlesInv

LEMMA HandlesInvInit == Init => HandlesInv
BY DEF Init, HandlesInv, Unopened

LEMMA HandlesInvStep == ReadInv /\ [Next]_vars => HandlesInv'
<1> SUFFICES ASSUME OpenInv, FilesInv, HandlesInv, [Next]_vars PROVE HandlesInv'
  BY DEF ReadInv
<1>s. handles = [o \in Handles |-> handles[o]] /\ \A o \in Handles : Shaped(handles[o])
  BY DEF OpenInv, Shapes
<1>1. ASSUME UNCHANGED handles, exports' \subseteq Handles \X Tensors,
             slices' \subseteq Handles \X Tensors
      PROVE  HandlesInv'
  BY <1>1, FilesStay DEF HandlesInv
<1>2. ASSUME NEW o \in Handles, OpenFile(o) PROVE HandlesInv'
  <2>1. PICK fw \in Frameworks : Set(o, [Unopened EXCEPT !.state = "file", !.fw = fw, !.file = path])
    BY <1>2 DEF OpenFile
  <2>2. nothing' = nothing /\ path \in DOMAIN files
    BY <1>2 DEF OpenFile, nothing, FilesInv
  <2> DEFINE h == [Unopened EXCEPT !.state = "file", !.fw = fw, !.file = path]
  <2>3. h.state = "file" /\ h.file = path
    BY DEF Unopened
  <2> HIDE DEF h
  <2>4. Set(o, h)
    BY <2>1 DEF h
  <2>5. QED
    BY <2>2, <2>3, <2>4, HandleSet
<1>3. ASSUME NEW o \in Handles, MapFile(o) PROVE HandlesInv'
  <2> DEFINE l == Len(files[handles[o].file])
             h == [handles[o] EXCEPT !.state = "mapped", !.length = l]
  <2>1. Set(o, h) /\ nothing' = nothing /\ handles[o].state = "file"
    BY <1>3 DEF MapFile, nothing
  <2>2. h.state = "mapped" /\ h.file = handles[o].file
    BY <1>s DEF Shaped
  <2>3. handles[o].file \in DOMAIN files
    BY <2>1 DEF HandlesInv
  <2> HIDE DEF h
  <2>4. QED
    BY <2>1, <2>2, <2>3, HandleSet
<1>4. ASSUME NEW o \in Handles, ReadMetadata(o) PROVE HandlesInv'
  <2> DEFINE f == files[handles[o].file]
             hd == HeaderOf(f)
             h == [handles[o] EXCEPT !.state = "parsed", !.header = hd]
             r == [handles[o] EXCEPT !.state = "refused"]
  <2>1. nothing' = nothing /\ handles[o].state = "mapped"
    BY <1>4 DEF ReadMetadata, nothing
  <2>2. handles[o].file \in DOMAIN files
    BY <2>1 DEF HandlesInv
  <2>3. h.state = "parsed" /\ h.file = handles[o].file /\ h.header = hd /\ r.state = "refused"
    BY <1>s DEF Shaped
  <2>4. (Set(o, h) /\ Accepts(f, handles[o].length)) \/ Set(o, r)
    BY <1>4 DEF ReadMetadata
  <2>5. Accepts(f, handles[o].length) => hd \in Headers
    BY <2>2, HandleAccepts
  <2> HIDE DEF h, r, hd, f
  <2>6. CASE Set(o, h) /\ Accepts(f, handles[o].length)
    BY <2>1, <2>2, <2>3, <2>5, <2>6, HandleSet
  <2>7. CASE Set(o, r)
    BY <2>1, <2>3, <2>7, HandleSet
  <2>8. QED
    BY <2>4, <2>6, <2>7
<1>5. ASSUME Kill PROVE HandlesInv'
  <2>1. \A o \in Handles : handles'[o].state = "killed"
    BY <1>5, <1>s, StateExcept DEF Kill
  <2>2. exports' = exports /\ slices' = slices
    BY <1>5 DEF Kill, nothing
  <2>3. QED
    BY <2>1, <2>2 DEF HandlesInv
<1>6. ASSUME NEW o \in Handles, KeepMapping(o) PROVE HandlesInv'
  <2> DEFINE h == [handles[o] EXCEPT !.state = "open", !.store = handles[o].file]
  <2>1. Set(o, h) /\ nothing' = nothing /\ handles[o].state = "parsed"
    BY <1>6 DEF KeepMapping, nothing
  <2>2. /\ h.state = "open" /\ h.file = handles[o].file /\ h.header = handles[o].header
        /\ h.store = handles[o].file
    BY <1>s DEF Shaped
  <2>3. handles[o].file \in DOMAIN files /\ handles[o].header \in Headers
    BY <2>1 DEF HandlesInv
  <2> HIDE DEF h
  <2>4. QED
    BY <2>1, <2>2, <2>3, HandleSet
<1>7. ASSUME NEW o \in Handles, MapPath(o) PROVE HandlesInv'
  <2> DEFINE h == [handles[o] EXCEPT !.state = "open", !.store = path]
             r == [handles[o] EXCEPT !.state = "refused"]
  <2>1. (Set(o, h) \/ Set(o, r)) /\ nothing' = nothing /\ handles[o].state = "parsed"
    BY <1>7 DEF MapPath, nothing
  <2>2. /\ h.state = "open" /\ h.file = handles[o].file /\ h.header = handles[o].header
        /\ h.store = path /\ r.state = "refused"
    BY <1>s DEF Shaped
  <2>3. handles[o].file \in DOMAIN files /\ handles[o].header \in Headers /\ path \in DOMAIN files
    BY <2>1 DEF HandlesInv, FilesInv
  <2> HIDE DEF h, r
  <2>4. CASE Set(o, h)
    BY <2>1, <2>2, <2>3, <2>4, HandleSet
  <2>5. CASE Set(o, r)
    BY <2>1, <2>2, <2>5, HandleSet
  <2>6. QED
    BY <2>1, <2>4, <2>5
<1>8. ASSUME NEW o \in Handles, Exit(o) PROVE HandlesInv'
  <2> DEFINE h == [handles[o] EXCEPT !.state = "closed"]
  <2>1. Set(o, h) /\ nothing' = nothing /\ handles[o].state = "open"
    BY <1>8 DEF Exit, nothing
  <2>2. /\ h.state = "closed" /\ h.file = handles[o].file /\ h.header = handles[o].header
        /\ h.store = handles[o].store
    BY <1>s DEF Shaped
  <2>3. /\ handles[o].file \in DOMAIN files /\ handles[o].header \in Headers
        /\ handles[o].store \in DOMAIN files
    BY <2>1 DEF HandlesInv
  <2> HIDE DEF h
  <2>4. QED
    BY <2>1, <2>2, <2>3, HandleSet
<1>9. ASSUME NEW o \in Handles, NEW t \in Tensors, NEW slice, NEW r, Read(o, t, slice, r)
      PROVE  HandlesInv'
  <2>1. CASE r = Fault
    BY <1>5, <1>9, <2>1 DEF Read
  <2>2. CASE r # Fault
    <3>1. /\ handles' = handles /\ slices' = slices
          /\ exports' = exports \/ exports' = exports \cup {<<o, t>>}
      BY <1>9, <2>2 DEF Read
    <3>2. QED
      BY <1>1, <3>1 DEF HandlesInv
  <2>3. QED
    BY <2>1, <2>2
<1>10. ASSUME NEW o \in Handles, NEW t \in Tensors, ReadTensor(o, t) \/ ReadSlice(o, t)
       PROVE  HandlesInv'
  BY <1>9, <1>10 DEF ReadTensor, ReadSlice
<1>11. ASSUME NEW o \in Handles, NEW t \in Tensors, TakeSlice(o, t) \/ Poke(o, t)
       PROVE  HandlesInv'
  <2>1. /\ handles' = handles /\ exports' = exports
        /\ slices' = slices \/ slices' = slices \cup {<<o, t>>}
    BY <1>11 DEF TakeSlice, Poke
  <2>2. QED
    BY <1>1, <2>1 DEF HandlesInv
<1>12. CASE SerializeFile \/ RewrapFile \/ Truncate \/ WriteCell \/ WriterFails \/ Replace
  <2>1. handles' = handles /\ exports' = exports /\ slices' = slices
    BY <1>12 DEF SerializeFile, RewrapFile, Truncate, WriteCell, WriterFails, Replace, reading
  <2>2. QED
    BY <1>1, <2>1 DEF HandlesInv
<1>13. CASE UNCHANGED vars
  BY <1>1, <1>13 DEF vars, HandlesInv
<1>14. ASSUME NEW o \in Handles, MetadataFaults(o) PROVE HandlesInv'
  BY <1>5, <1>14 DEF MetadataFaults
<1>15. QED
  BY <1>2, <1>3, <1>4, <1>6, <1>7, <1>8, <1>10, <1>11, <1>12, <1>13, <1>14 DEF Next

LEMMA ReadInvAlways == Spec => []ReadInv
<1>1. Init => ReadInv
  BY OpenInvInit, FilesInvInit, HandlesInvInit DEF ReadInv
<1>2. ReadInv /\ [Next]_vars => ReadInv'
  BY OpenInvStep, FilesInvStep, HandlesInvStep DEF ReadInv
<1>3. QED
  BY <1>1, <1>2, PTL DEF Spec

(* Handles and the writing process name files that exist; an open handle    *)
(* has a header and holds bytes only then.                                  *)
THEOREM TypeCorrect == Spec => []TypeOK
<1>1. ReadInv => TypeOK
  <2> SUFFICES ASSUME OpenInv, FilesInv, HandlesInv PROVE TypeOK
    BY DEF ReadInv
  <2>1. /\ path \in DOMAIN files /\ writer.file \in DOMAIN files
        /\ writer.phase \in {"idle", "ready", "writing"}
    BY DEF FilesInv, Writers
  <2>2. \A o \in Handles : \A t \in Tensors :
           memory[o][t] # None => handles[o].state \in {"open", "closed", "killed"}
    BY DEF OpenInv, MemoryGenuine
  <2>3. QED
    BY <2>1, <2>2 DEF TypeOK, HandlesInv
<1>2. QED
  BY <1>1, ReadInvAlways, PTL

-----------------------------------------------------------------------------
(* What a save or a rewrap that failed half way leaves behind is the        *)
(* beginning of an image, and a header is accepted over the length of a     *)
(* whole one.                                                               *)
LEMMA WholeStep ==
    ReadInv /\ [Next]_vars =>
        \A o \in Handles :
           /\ handles[o].state = "mapped" /\ handles'[o].state = "parsed"
           /\ Len(files[handles[o].file]) >= handles[o].length
           => InPlace(files[handles[o].file], handles'[o].header)
<1> SUFFICES ASSUME OpenInv, FilesInv, HandlesInv, [Next]_vars, NEW o \in Handles,
                    handles[o].state = "mapped", handles'[o].state = "parsed",
                    Len(files[handles[o].file]) >= handles[o].length
             PROVE  InPlace(files[handles[o].file], handles'[o].header)
  BY DEF ReadInv
<1>s. handles = [p \in Handles |-> handles[p]] /\ \A p \in Handles : Shaped(handles[p])
  BY DEF OpenInv, Shapes
<1>1. handles' # handles
  OBVIOUS
<1>2. ~Kill
  <2>1. Kill => handles'[o].state = "killed"
    BY <1>s, StateExcept DEF Kill
  <2>2. QED
    BY <2>1
<1>3. ASSUME NEW p \in Handles, NEW h, Set(p, h),
             handles[p].state # "mapped" \/ h.state # "parsed"
      PROVE  FALSE
  <2>1. handles' = [handles EXCEPT ![p] = h]
    BY <1>3 DEF Set
  <2>2. handles'[p] = h /\ \A q \in Handles \ {p} : handles'[q] = handles[q]
    BY <1>s, <2>1
  <2>3. QED
    BY <1>3, <2>2
<1>4. ASSUME NEW p \in Handles PROVE ~OpenFile(p)
  BY <1>3 DEF OpenFile
<1>5. ASSUME NEW p \in Handles PROVE ~MapFile(p)
  BY <1>3 DEF MapFile
<1>6. ASSUME NEW p \in Handles PROVE ~KeepMapping(p)
  BY <1>3 DEF KeepMapping
<1>7. ASSUME NEW p \in Handles PROVE ~MapPath(p)
  <2>1. MapPath(p) => \E h : Set(p, h) /\ handles[p].state = "parsed"
    BY Zenon DEF MapPath
  <2>2. QED
    BY <1>3, <2>1
<1>8. ASSUME NEW p \in Handles PROVE ~Exit(p)
  BY <1>3 DEF Exit
<1>9. ASSUME NEW p \in Handles, NEW t \in Tensors
      PROVE  ~(ReadTensor(p, t) \/ ReadSlice(p, t) \/ TakeSlice(p, t) \/ Poke(p, t))
  BY <1>1, <1>2 DEF ReadTensor, ReadSlice, TakeSlice, Poke, Read
<1>10. ~(SerializeFile \/ RewrapFile \/ Truncate \/ WriteCell \/ WriterFails \/ Replace)
  BY <1>1 DEF SerializeFile, RewrapFile, Truncate, WriteCell, WriterFails, Replace, reading
<1>11. PICK p \in Handles : ReadMetadata(p)
  BY <1>1, <1>2, <1>4, <1>5, <1>6, <1>7, <1>8, <1>9, <1>10 DEF Next, MetadataFaults, vars
<1> DEFINE f == files[handles[p].file]
           h == [handles[p] EXCEPT !.state = "parsed", !.header = HeaderOf(f)]
           r == [handles[p] EXCEPT !.state = "refused"]
<1>12. (Accepts(f, handles[p].length) /\ Set(p, h)) \/ Set(p, r)
  BY <1>11 DEF ReadMetadata
<1>13. r.state = "refused" /\ h.header = HeaderOf(f)
  BY <1>s DEF Shaped
<1> HIDE DEF h, r
<1>14. Accepts(f, handles[p].length) /\ Set(p, h)
  BY <1>3, <1>12, <1>13
<1>15. p = o /\ handles'[o] = h
  BY <1>s, <1>14 DEF Set
<1>16. handles[o].file \in DOMAIN files
  BY DEF HandlesInv
<1>17. QED
  BY <1>13, <1>14, <1>15, <1>16, HandleAccepts

(* Open::new accepts a header only over a file with all of its data, unless *)
(* the file shrank after it was mapped.                                     *)
THEOREM WholeCorrect == Spec => AcceptsOnlyWhole
<1>1. ReadInv /\ [Next]_vars =>
         [\A o \in Handles :
            /\ handles[o].state = "mapped" /\ handles'[o].state = "parsed"
            /\ Len(files[handles[o].file]) >= handles[o].length
            => InPlace(files[handles[o].file], handles'[o].header)]_vars
  BY WholeStep
<1>2. QED
  BY <1>1, ReadInvAlways, PTL DEF Spec, AcceptsOnlyWhole

-----------------------------------------------------------------------------
(* The tensors of a file nobody wrote over *)

LEMMA PositionOf ==
    ASSUME NEW h, NEW t \in Tensors
    PROVE  \E i \in DOMAIN Order : Order[i] = t /\ Position(h, t) = h.len + i
<1>1. \E i \in DOMAIN Order : Order[i] = t
  BY DEF Tensors
<1> DEFINE i == CHOOSE j \in DOMAIN Order : Order[j] = t
<1>2. i \in DOMAIN Order /\ Order[i] = t
  BY <1>1
<1>3. Position(h, t) = h.len + i
  BY DEF Position
<1> HIDE DEF i
<1>4. QED
  BY <1>2, <1>3

LEMMA InPlaceCell ==
    ASSUME NEW o \in Handles, NEW t \in Tensors, NEW f, handles[o].header \in Headers,
           InPlace(f, handles[o].header)
    PROVE  Cell(o, f)[t] = Stored(handles[o].header.save, t) /\ Cell(o, f)[t] # None
<1> DEFINE h == handles[o].header
<1>1. PICK i \in DOMAIN Order : Order[i] = t /\ Position(h, t) = h.len + i
  BY PositionOf
<1>2. /\ h.len \in Nat /\ h.save \in 1 .. MaxSaves /\ Len(Order) \in Nat
      /\ DOMAIN Order = 1 .. Len(Order)
  BY HeaderFields, OrderFields
<1>3. Position(h, t) <= Len(f)
  BY <1>1, <1>2 DEF InPlace
<1>4. f[Position(h, t)] = Stored(h.save, t)
  BY <1>1 DEF InPlace
<1>5. Cell(o, f)[t] = Stored(h.save, t)
  BY <1>3, <1>4 DEF Cell
<1>6. Stored(h.save, t) # None
  BY <1>2, ConstantsAssumption
<1>7. QED
  BY <1>5, <1>6

LEMMA UndisturbedStep == ReadInv => UndisturbedReads
<1> SUFFICES ASSUME OpenInv, HandlesInv, NEW o \in Handles, NEW t \in Tensors,
                    Live(o), Undisturbed(o)
             PROVE  /\ handles[o].state = "open" => Genuine(o, t, GetTensor(o, t))
                    /\ <<o, t>> \in slices /\ (Secret(o, t) \/ handles[o].header.secret = {}
                                               \/ StorageOf(handles[o].fw) # "Mmap")
                          => Genuine(o, t, GetItem(o, t))
  BY DEF ReadInv, UndisturbedReads
<1> DEFINE s == StorageOf(handles[o].fw)
<1>1. handles[o].header \in Headers
  BY DEF HandlesInv, Live
<1>2. ASSUME memory[o][t] # None PROVE Genuine(o, t, memory[o][t])
  BY <1>2 DEF OpenInv, MemoryGenuine
<1>3. Genuine(o, t, Decrypt(o, t))
  <2>1. Cell(o, files[handles[o].file])[t] = Stored(handles[o].header.save, t)
    BY <1>1, InPlaceCell DEF Undisturbed
  <2>2. QED
    BY <1>2, <2>1 DEF Decrypt, Genuine
<1>4. Genuine(o, t, Plain(o, t))
  <2>1. /\ Cell(o, files[handles[o].store])[t] = Stored(handles[o].header.save, t)
        /\ Cell(o, files[handles[o].store])[t] # None
    BY <1>1, InPlaceCell DEF Undisturbed
  <2>2. QED
    BY <1>2, <2>1 DEF Plain, Genuine
<1>5. s \in {"Mmap", "TorchStorage", "PaddleStorage"}
  BY StorageType
<1>6. ASSUME handles[o].state = "open" PROVE Genuine(o, t, GetTensor(o, t))
  <2>1. /\ Genuine(o, t, MmapTensor(o, t)) /\ Genuine(o, t, TorchTensor(o, t))
        /\ Genuine(o, t, PaddleTensor(o, t))
    BY <1>3, <1>4 DEF MmapTensor, TorchTensor, PaddleTensor
  <2>2. CASE s = "Mmap"
    BY <1>6, <2>1, <2>2 DEF GetTensor
  <2>3. CASE s = "TorchStorage"
    BY <1>6, <2>1, <2>3 DEF GetTensor
  <2>4. CASE s = "PaddleStorage"
    BY <1>6, <2>1, <2>4 DEF GetTensor
  <2>5. QED
    BY <1>5, <2>2, <2>3, <2>4
<1>7. ASSUME Secret(o, t) \/ handles[o].header.secret = {} \/ s # "Mmap"
      PROVE  Genuine(o, t, GetItem(o, t))
  <2>1. Genuine(o, t, TorchItem(o, t)) /\ Genuine(o, t, PaddleItem(o, t))
    BY <1>3, <1>4 DEF TorchItem, PaddleItem
  <2>2. CASE s = "Mmap"
    <3>1. MmapItem(o, t) = Plain(o, t) \/ MmapItem(o, t) = Decrypt(o, t)
      BY <1>7, <2>2 DEF MmapItem
    <3>2. QED
      BY <1>3, <1>4, <2>2, <3>1 DEF GetItem
  <2>3. CASE s = "TorchStorage"
    BY <2>1, <2>3 DEF GetItem
  <2>4. CASE s = "PaddleStorage"
    BY <2>1, <2>4 DEF GetItem
  <2>5. QED
    BY <1>5, <2>2, <2>3, <2>4
<1>8. QED
  BY <1>6, <1>7

(* As long as nobody wrote over the files of a handle, get_tensor and the   *)
(* slices of every framework answer with the tensor that was saved.         *)
THEOREM UndisturbedCorrect == Spec => []UndisturbedReads
BY ReadInvAlways, UndisturbedStep, PTL

=============================================================================
