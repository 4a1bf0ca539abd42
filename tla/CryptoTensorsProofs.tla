------------------------ MODULE CryptoTensorsProofs ------------------------
(***************************************************************************)
(* What CryptoTensors guarantees for every set of tensors and keys: types, *)
(* blocks that match their DEKs, a header of one piece.  That the two keys *)
(* a header names open the file and no other pair does, and with it the    *)
(* promise of EncryptedFile, holds as long as at most one tensor of a file *)
(* has size zero: two of them have equal offsets, and the parser may swap  *)
(* them (the run two_empty).                                               *)
(***************************************************************************)
EXTENDS CryptoTensors, FiniteSetTheorems, TLAPS

-----------------------------------------------------------------------------
(* Type correctness.  WithNewKey takes the DEK out of the prepared context, *)
(* so it is inductive only together with the fact that every cryptor of an  *)
(* opened object has its context ("We assume CryptoContext is prepared").   *)

ContextsPrepared ==
    obj # None /\ obj.crypto # None =>
        \A t \in Tensors : obj.crypto.wrapped[t] # None =>
            obj.crypto.ctx[t] = obj.crypto.wrapped[t].dek

TypeInv == TypeOK /\ ContextsPrepared

(* The layout serialize computes is a table of offsets. *)
LEMMA LayoutType ==
    ASSUME NEW order, NEW empty
    PROVE  Layout(order, empty) \in Spans
<1>1. ASSUME NEW t \in Tensors
      PROVE  Cardinality({u \in Tensors \ empty : <<u, t>> \in order}) \in Nat
  <2>1. IsFiniteSet({u \in Tensors \ empty : <<u, t>> \in order})
    BY ConstantsOK, FS_Subset
  <2>2. QED
    BY <2>1, FS_CardinalityType
<1>2. QED
  BY <1>1 DEF Layout, Spans

(* serialize writes a file of the right type. *)
LEMMA FileOfType ==
    ASSUME NEW S \in SUBSET Tensors, NEW ek \in EncKeys, NEW sk \in SignKeys,
           NEW policy \in BOOLEAN, NEW order \in Orders, NEW empty \in SUBSET Tensors,
           NEW v \in 1 .. MaxSaves
    PROVE  FileOf(S, ek, sk, policy, order, empty, v) \in Files
<1> DEFINE span == Layout(order, empty)
           c    == [enc |-> ek, sign |-> sk, policy |-> policy, wrapped |-> WrapAll(S, v, ek)]
<1>1. span \in Spans
  BY LayoutType
<1>2. WrapAll(S, v, ek) \in [Tensors -> Wrapped]
  BY DEF WrapAll, Wrapped, Deks, Values
<1>3. EncryptTensors(S, v) \in [Tensors -> Blocks]
  BY DEF EncryptTensors, Blocks, Deks, Values
<1> HIDE DEF span
<1>4. Body(order, span, c) \in Bodies
  BY <1>1, <1>2 DEF Body, Bodies
<1>5. GenerateMetadata(order, span, c, sk) \in Headers
  BY <1>2, <1>4 DEF GenerateMetadata, Headers, Signatures
<1>6. QED
  BY <1>1, <1>3, <1>5 DEF FileOf, Files, span

(* Opening a header yields a CryptoTensors with every context prepared. *)
LEMMA CryptoOfType ==
    ASSUME NEW h \in Headers, NEW ek \in EncKeys, NEW sk \in SignKeys
    PROVE  /\ CryptoOf(h, ek, sk) \in Cryptos
           /\ \A t \in Tensors : h.wrapped[t] # None =>
                 CryptoOf(h, ek, sk).ctx[t] = CryptoOf(h, ek, sk).wrapped[t].dek
<1>1. \A t \in Tensors : h.wrapped[t] # None => h.wrapped[t].dek \in Deks
  BY DEF Headers, Wrapped
<1>2. AlgName[ek] \in AlgNames
  BY DEF AlgNames
<1>3. QED
  BY <1>1, <1>2 DEF CryptoOf, Cryptos, Headers

(* Rewrapping some of the cryptors keeps the type and the contexts. *)
LEMMA WithNewKeyType ==
    ASSUME NEW c \in Cryptos, NEW S \in SUBSET Secret(c), NEW ek \in EncKeys,
           \A t \in Tensors : c.wrapped[t] # None => c.ctx[t] = c.wrapped[t].dek
    PROVE  /\ WithNewKey(c, S, ek) \in Cryptos
           /\ WithNewKey(c, S, ek).ctx = c.ctx
           /\ WithNewKey(c, S, ek).signer = c.signer
           /\ WithNewKey(c, S, ek).sign = c.sign
           /\ WithNewKey(c, S, ek).enc = c.enc
           /\ \A t \in Tensors :
                /\ WithNewKey(c, S, ek).wrapped[t] =
                     IF t \in S THEN [dek |-> c.wrapped[t].dek, by |-> ek] ELSE c.wrapped[t]
                /\ WithNewKey(c, S, ek).buf[t] = IF t \in S THEN None ELSE c.buf[t]
<1> DEFINE n == WithNewKey(c, S, ek)
<1>1. \A t \in S : t \in Tensors /\ c.wrapped[t] # None
  BY DEF Secret
<1>2. \A t \in S : c.ctx[t] = c.wrapped[t].dek /\ c.ctx[t] \in Deks
  BY <1>1 DEF Cryptos, Wrapped
<1>3. /\ n = [c EXCEPT !.wrapped = n.wrapped, !.buf = n.buf]
      /\ n.wrapped = [t \in Tensors |-> IF t \in S THEN [dek |-> c.ctx[t], by |-> ek]
                                                   ELSE c.wrapped[t]]
      /\ n.buf = [t \in Tensors |-> IF t \in S THEN None ELSE c.buf[t]]
  BY DEF WithNewKey, Cryptos
<1>4. n.wrapped \in [Tensors -> Wrapped] /\ n.buf \in [Tensors -> Values \cup {None}]
  BY <1>1, <1>2, <1>3 DEF Cryptos, Wrapped
<1> HIDE DEF n
<1>5. n \in Cryptos /\ n.ctx = c.ctx /\ n.signer = c.signer /\ n.sign = c.sign /\ n.enc = c.enc
  BY <1>3, <1>4 DEF Cryptos
<1>6. QED
  BY <1>2, <1>3, <1>5 DEF n

-----------------------------------------------------------------------------
(* Before the first save nothing is on disk and nothing is open. *)
LEMMA TypeInvInit == Init => TypeInv
BY ConstantsOK DEF Init, TypeInv, TypeOK, ContextsPrepared, Said, Replies, Calls

(* Calls that leave the object alone or drop it keep its contexts; one that *)
(* installs a CryptoTensors (deserialize, rewrap) must show them prepared.  *)
LEMMA TypeInvStep == TypeInv /\ [Next]_vars => TypeInv'
<1> SUFFICES ASSUME TypeInv, [Next]_vars PROVE TypeInv'
  OBVIOUS
<1> USE DEF TypeInv
<1>0. \A call \in Calls, ok \in BOOLEAN : Said(call, ok) \in Replies
  BY DEF Said, Replies
<1> DEFINE Prepared(o) == o.crypto # None =>
                             \A t \in Tensors : o.crypto.wrapped[t] # None =>
                                o.crypto.ctx[t] = o.crypto.wrapped[t].dek
<1>1. ASSUME NEW S \in SUBSET Tensors, NEW empty \in SUBSET Tensors,
             NEW ek \in EncKeys, NEW sk \in SignKeys, NEW policy \in BOOLEAN,
             NEW order \in Orders, Save(S, ek, sk, policy, order, empty)
      PROVE  TypeInv'
  <2>1. saves' \in 0 .. MaxSaves /\ disk' \in Files \cup {None}
    <3>1. CASE S # {} /\ sk \in BadSignKeys
      BY <1>1, <3>1 DEF Save, TypeOK
    <3>2. CASE ~(S # {} /\ sk \in BadSignKeys)
      <4>1. saves + 1 \in 1 .. MaxSaves
        BY <1>1, ConstantsOK DEF Save, TypeOK
      <4>2. FileOf(S, ek, sk, policy, order, empty, saves + 1) \in Files
        BY <4>1, FileOfType
      <4>3. saves' = saves + 1 /\ disk' = FileOf(S, ek, sk, policy, order, empty, saves + 1)
        BY <1>1, <3>2, Zenon DEF Save
      <4>4. saves + 1 \in 0 .. MaxSaves
        BY <4>1, ConstantsOK
      <4>5. QED
        BY <4>2, <4>3, <4>4
    <3>3. QED
      BY <3>1, <3>2
  <2>2. reply' \in Replies /\ obj' = obj
    BY <1>0, <1>1 DEF Save, Calls
  <2>3. QED
    BY <2>1, <2>2 DEF TypeOK, ContextsPrepared
<1>2. ASSUME NEW t \in Tensors, DamageBlock(t) PROVE TypeInv'
  <2>1. disk' \in Files
    BY <1>2 DEF DamageBlock, TypeOK, Files, Blocks
  <2>2. reply' \in Replies /\ obj' = obj /\ saves' = saves
    BY <1>0, <1>2 DEF DamageBlock, Calls
  <2>3. QED
    BY <2>1, <2>2 DEF TypeOK, ContextsPrepared
<1>3. ASSUME NEW ek \in EncKeys, NEW sk \in SignKeys, Open(ek, sk) PROVE TypeInv'
  <2> DEFINE opened(parsed, c) ==
               [order |-> parsed, span |-> disk.span, ver |-> disk.ver,
                blocks |-> disk.blocks, crypto |-> c]
  <2>1. PICK parsed \in Parses(disk.span) :
          \/ obj' = None
          \/ disk.crypto = None /\ obj' = opened(parsed, None)
          \/ disk.crypto # None /\ obj' = opened(parsed, CryptoOf(disk.crypto, ek, sk))
    BY <1>3 DEF Open
  <2>2. disk \in Files /\ parsed \in Orders
    BY <1>3, <2>1 DEF Open, TypeOK, Parses
  <2>3. obj' \in Objects \cup {None} /\ (obj' # None => Prepared(obj'))
    <3>1. CASE disk.crypto = None
      BY <2>1, <2>2, <3>1 DEF Files, Objects
    <3>2. CASE disk.crypto # None
      <4>1. disk.crypto \in Headers
        BY <2>2, <3>2 DEF Files
      <4>2. CryptoOf(disk.crypto, ek, sk) \in Cryptos
        BY <4>1, CryptoOfType
      <4>3. opened(parsed, CryptoOf(disk.crypto, ek, sk)) \in Objects
        BY <2>2, <4>2 DEF Files, Objects
      <4>4. Prepared(opened(parsed, CryptoOf(disk.crypto, ek, sk)))
        <5>1. \A t \in Tensors : disk.crypto.wrapped[t] # None =>
                CryptoOf(disk.crypto, ek, sk).ctx[t] = CryptoOf(disk.crypto, ek, sk).wrapped[t].dek
          BY <4>1, CryptoOfType
        <5>2. CryptoOf(disk.crypto, ek, sk).wrapped = disk.crypto.wrapped
          BY DEF CryptoOf
        <5>3. QED
          BY <5>1, <5>2
      <4>5. QED
        BY <2>1, <3>2, <4>3, <4>4
    <3>3. QED
      BY <3>1, <3>2
  <2>4. reply' \in Replies /\ disk' = disk /\ saves' = saves
    BY <1>0, <1>3 DEF Open, Calls
  <2>5. QED
    BY <2>3, <2>4 DEF TypeOK, ContextsPrepared
<1>4. CASE Close
  BY <1>0, <1>4 DEF Close, TypeOK, ContextsPrepared, Calls
<1>5. ASSUME NEW t \in Tensors, NEW call \in {"tensor", "iter"}, obj # None,
             \/ ReadPlain(call, t)
             \/ ReadSecret(call, t)
             \/ ReadDamaged(t) /\ reply' = Got(call, t, FALSE, None)
             \/ ReadDamaged(t) /\ reply' = Got(call, t, TRUE, Raw(obj, t)),
             UNCHANGED <<disk, saves>>
      PROVE  TypeInv'
  <2>1. obj \in Objects
    BY <1>5 DEF TypeOK
  <2>2. obj.blocks[t] # Garbage => obj.blocks[t].val \in Values
    BY <2>1 DEF Objects, Blocks
  <2>3. Raw(obj, t) \in Values \cup {Garbage}
    BY <2>2 DEF Raw
  <2>4. ASSUME ReadSecret(call, t)
        PROVE  /\ Decrypted(obj, t) \in Values
               /\ obj' \in Objects /\ obj'.crypto.wrapped = obj.crypto.wrapped
               /\ obj'.crypto.ctx = obj.crypto.ctx /\ obj.crypto # None
    <3>1. obj.crypto \in Cryptos
      BY <2>1, <2>4 DEF ReadSecret, Encrypted, Objects
    <3>2. Decrypted(obj, t) \in Values
      BY <2>2, <2>4, <3>1 DEF ReadSecret, CanDecrypt, Decrypted, Cryptos
    <3>3. [obj.crypto EXCEPT !.buf[t] = Decrypted(obj, t)] \in Cryptos
      BY <3>1, <3>2 DEF Cryptos
    <3>4. obj' = [obj EXCEPT !.crypto = [obj.crypto EXCEPT !.buf[t] = Decrypted(obj, t)]]
      BY <2>1, <2>4, <3>1 DEF ReadSecret, Objects, Cryptos
    <3>5. QED
      BY <2>1, <2>4, <3>1, <3>2, <3>3, <3>4 DEF Objects, Cryptos, ReadSecret, Encrypted
  <2>5. reply' \in Replies
    <3>1. \A ok \in BOOLEAN, v \in Values \cup {None, Garbage} : Got(call, t, ok, v) \in Replies
      BY DEF Got, Replies, Calls
    <3>2. CASE ReadPlain(call, t)
      BY <2>3, <3>1, <3>2 DEF ReadPlain
    <3>3. CASE ReadSecret(call, t)
      BY <2>4, <3>1, <3>3 DEF ReadSecret
    <3>4. QED
      BY <1>5, <2>3, <3>1, <3>2, <3>3
  <2>6. obj' \in Objects \cup {None} /\ ContextsPrepared'
    <3>1. CASE ReadSecret(call, t)
      <4>1. /\ obj' \in Objects /\ obj'.crypto.wrapped = obj.crypto.wrapped
            /\ obj'.crypto.ctx = obj.crypto.ctx /\ obj.crypto # None
        BY <2>4, <3>1
      <4>2. ContextsPrepared'
        BY <1>5, <4>1 DEF ContextsPrepared
      <4>3. QED
        BY <4>1, <4>2
    <3>2. CASE obj' = obj
      BY <2>1, <3>2 DEF ContextsPrepared
    <3>3. QED
      BY <1>5, <3>1, <3>2 DEF ReadPlain, ReadDamaged
  <2>7. QED
    BY <1>5, <2>5, <2>6 DEF TypeOK
<1>6. ASSUME NEW c, FailRewrap(c), obj # None, c \in Cryptos,
             \A t \in Tensors : c.wrapped[t] # None => c.ctx[t] = c.wrapped[t].dek
      PROVE  TypeInv'
  <2>1. obj \in Objects
    BY <1>6 DEF TypeOK
  <2>2. obj' = [obj EXCEPT !.crypto = c] \/ obj' = None
    BY <1>6 DEF FailRewrap
  <2>3. [obj EXCEPT !.crypto = c] \in Objects /\ [obj EXCEPT !.crypto = c].crypto = c
    BY <1>6, <2>1 DEF Objects
  <2>4. reply' \in Replies /\ disk' = disk /\ saves' = saves
    BY <1>0, <1>6 DEF FailRewrap, Calls
  <2>5. QED
    BY <1>6, <2>2, <2>3, <2>4 DEF TypeOK, ContextsPrepared
<1>7. ASSUME obj # None, obj.crypto # None
      PROVE  /\ obj \in Objects /\ obj.crypto \in Cryptos
             /\ \A t \in Tensors : obj.crypto.wrapped[t] # None =>
                   obj.crypto.ctx[t] = obj.crypto.wrapped[t].dek
             /\ \A t \in Secret(obj.crypto) : obj.crypto.wrapped[t].dek \in Deks
  BY <1>7 DEF TypeOK, ContextsPrepared, Objects, Cryptos, Wrapped, Secret
<1>8. ASSUME NEW S \in SUBSET Secret(obj.crypto), NEW ek \in EncKeys,
             obj # None, obj.crypto # None
      PROVE  /\ WithNewKey(obj.crypto, S, ek) \in Cryptos
             /\ \A t \in Tensors : WithNewKey(obj.crypto, S, ek).wrapped[t] # None =>
                  WithNewKey(obj.crypto, S, ek).ctx[t] = WithNewKey(obj.crypto, S, ek).wrapped[t].dek
  <2> DEFINE n == WithNewKey(obj.crypto, S, ek)
  <2>1. n \in Cryptos /\ n.ctx = obj.crypto.ctx
        /\ \A t \in Tensors : n.wrapped[t] =
              IF t \in S THEN [dek |-> obj.crypto.wrapped[t].dek, by |-> ek]
                         ELSE obj.crypto.wrapped[t]
    <3>1. /\ obj.crypto \in Cryptos
          /\ \A t \in Tensors : obj.crypto.wrapped[t] # None =>
                obj.crypto.ctx[t] = obj.crypto.wrapped[t].dek
      BY <1>7, <1>8
    <3>2. QED
      BY <3>1, WithNewKeyType, SMTT(150)
  <2> HIDE DEF n
  <2>2. ASSUME NEW t \in Tensors, n.wrapped[t] # None PROVE n.ctx[t] = n.wrapped[t].dek
    <3>1. CASE t \in S
      <4>1. obj.crypto.wrapped[t] # None
        BY <3>1 DEF Secret
      <4>2. n.wrapped[t] = [dek |-> obj.crypto.wrapped[t].dek, by |-> ek]
        BY <2>1, <3>1, Zenon
      <4>3. n.wrapped[t].dek = obj.crypto.wrapped[t].dek
        BY <4>2
      <4>4. QED
        BY <1>7, <1>8, <2>1, <4>1, <4>3
    <3>2. CASE t \notin S
      BY <1>7, <1>8, <2>1, <2>2, <3>2
    <3>3. QED
      BY <3>1, <3>2
  <2>3. QED
    BY <2>1, <2>2 DEF n
<1>9. CASE RewrapPlain
  BY <1>0, <1>9 DEF RewrapPlain, TypeOK, ContextsPrepared, Calls
<1>10. ASSUME NEW ek \in EncKeys, NEW sk \in SignKeys, NEW policy \in BOOLEAN,
              Rewrap(ek, sk, policy)
       PROVE  TypeInv'
  <2> DEFINE n == WithNewKey(obj.crypto, Secret(obj.crypto), ek)
             m == [n EXCEPT !.enc = ek, !.sign = sk, !.signer = sk, !.sig = None,
                            !.policy = policy]
  <2>1. obj \in Objects /\ obj # None /\ obj.crypto # None
    BY <1>7, <1>10 DEF Rewrap
  <2>2. n \in Cryptos /\ \A t \in Tensors : n.wrapped[t] # None => n.ctx[t] = n.wrapped[t].dek
    BY <1>8, <2>1
  <2>3. obj' = [obj EXCEPT !.crypto = m]
    BY <1>10 DEF Rewrap
  <2> HIDE DEF n
  <2>4. m \in Cryptos /\ m.wrapped = n.wrapped /\ m.ctx = n.ctx
    BY <2>2 DEF Cryptos
  <2> HIDE DEF m
  <2>5. obj' \in Objects /\ obj'.crypto = m
    BY <2>1, <2>3, <2>4 DEF Objects
  <2>6. reply' \in Replies /\ disk' = disk /\ saves' = saves
    BY <1>0, <1>10 DEF Rewrap, Calls
  <2>7. QED
    BY <2>2, <2>4, <2>5, <2>6 DEF TypeOK, ContextsPrepared
<1>11. ASSUME NEW ek \in EncKeys, RewrapOtherAlgorithm(ek) PROVE TypeInv'
  BY <1>6, <1>7, <1>11 DEF RewrapOtherAlgorithm
<1>12. ASSUME NEW S \in SUBSET Tensors, NEW ek \in EncKeys, RewrapInterrupted(S, ek)
       PROVE  TypeInv'
  BY <1>6, <1>8, <1>12 DEF RewrapInterrupted
<1>13. ASSUME NEW ek \in EncKeys, NEW sk \in SignKeys, RewrapBadSigner(ek, sk)
       PROVE  TypeInv'
  <2> DEFINE n == WithNewKey(obj.crypto, Secret(obj.crypto), ek)
             m == [n EXCEPT !.enc = ek, !.sign = sk]
  <2>1. n \in Cryptos /\ \A t \in Tensors : n.wrapped[t] # None => n.ctx[t] = n.wrapped[t].dek
    BY <1>8, <1>13 DEF RewrapBadSigner
  <2>2. FailRewrap(m) /\ obj # None
    BY <1>13 DEF RewrapBadSigner
  <2> HIDE DEF n
  <2>3. m \in Cryptos /\ m.wrapped = n.wrapped /\ m.ctx = n.ctx
    BY <2>1 DEF Cryptos
  <2> HIDE DEF m
  <2>4. QED
    BY <1>6, <2>1, <2>2, <2>3
<1>14. CASE WriteBack
  <2> DEFINE h == GenerateMetadata(obj.order, obj.span, obj.crypto, obj.crypto.signer)
             f == [order |-> obj.order, span |-> obj.span, ver |-> obj.ver,
                   blocks |-> obj.blocks, crypto |-> h]
  <2>1. obj \in Objects /\ obj.crypto \in Cryptos /\ obj # None /\ obj.crypto # None
    BY <1>7, <1>14 DEF WriteBack
  <2>2. Body(obj.order, obj.span, obj.crypto) \in Bodies
    BY <2>1 DEF Objects, Cryptos, Body, Bodies
  <2>3. h \in Headers
    BY <2>1, <2>2 DEF GenerateMetadata, Headers, Signatures, Cryptos
  <2>4. disk' = f /\ obj' = [obj EXCEPT !.crypto.sig = h.sig]
    BY <1>14 DEF WriteBack
  <2> HIDE DEF h
  <2>5. f \in Files
    BY <2>1, <2>3 DEF Files, Objects
  <2>6. [obj.crypto EXCEPT !.sig = h.sig] \in Cryptos
    BY <2>1, <2>3 DEF Cryptos, Headers
  <2>7. obj' = [obj EXCEPT !.crypto = [obj.crypto EXCEPT !.sig = h.sig]]
    BY <2>1, <2>4 DEF Objects
  <2>8. obj' \in Objects /\ obj'.crypto.wrapped = obj.crypto.wrapped
        /\ obj'.crypto.ctx = obj.crypto.ctx
    BY <2>1, <2>6, <2>7 DEF Objects, Cryptos
  <2>9. reply' \in Replies /\ saves' = saves
    BY <1>0, <1>14 DEF WriteBack, Calls
  <2>10. QED
    BY <1>7, <2>1, <2>4, <2>5, <2>8, <2>9 DEF TypeOK, ContextsPrepared
<1>15. CASE WriteBackSigned
  BY <1>0, <1>15 DEF WriteBackSigned, TypeOK, ContextsPrepared, Calls
<1>16. CASE UNCHANGED vars
  BY <1>16 DEF vars, TypeOK, ContextsPrepared
<1>17. ASSUME NEW t \in Tensors, Tensor(t) \/ Iter(t) PROVE TypeInv'
  BY <1>5, <1>17 DEF Tensor, Iter
<1>18. QED
  BY <1>1, <1>2, <1>3, <1>4, <1>9, <1>10, <1>11, <1>12, <1>13, <1>14, <1>15, <1>16, <1>17
     DEF Next

(* Every reachable state is well typed, and every cryptor of an opened      *)
(* object has its decryption context: with_new_key and decrypt never meet   *)
(* an unprepared one.                                                       *)
THEOREM TypeCorrect == Spec => [](TypeOK /\ ContextsPrepared)
<1>1. Spec => []TypeInv
  BY TypeInvInit, TypeInvStep, PTL DEF Spec
<1>2. QED
  BY <1>1, PTL DEF TypeInv

-----------------------------------------------------------------------------
(* The data invariant.  DeksMatchData speaks of the file alone; WriteBack   *)
(* makes the file of the object, so the object must keep the same bond, and *)
(* its buffers must hold nothing but what was saved.                        *)

(* Every block is the plaintext of its generation under the DEK of f.       *)
BlocksMatch(f) ==
    \A t \in Tensors :
        f.blocks[t] # Garbage =>
            /\ f.blocks[t].val = <<t, f.ver>>
            /\ f.blocks[t].dek = IF f.crypto # None /\ t \in Secret(f.crypto)
                                 THEN f.crypto.wrapped[t].dek ELSE None

BuffersMatch(o) ==
    o.crypto # None => \A t \in Tensors : o.crypto.buf[t] \in {None, <<t, o.ver>>}

ReplyGenuine ==
    obj # None /\ obj.crypto # None /\ reply.call = "tensor"
        /\ reply.name \in Secret(obj.crypto) =>
            IF reply.ok THEN reply.got = <<reply.name, obj.ver>>
                        ELSE obj.blocks[reply.name] = Garbage

DataInv ==
    /\ TypeInv
    /\ disk # None => BlocksMatch(disk)
    /\ obj # None => BlocksMatch(obj) /\ BuffersMatch(obj)
    /\ ReplyGenuine

(* The invariant is as strong as the two properties it is for. *)
LEMMA DataInvImplies == DataInv => DeksMatchData /\ ReadsGenuine
<1> SUFFICES ASSUME DataInv PROVE DeksMatchData /\ ReadsGenuine
  OBVIOUS
<1>1. DeksMatchData
  BY DEF DataInv, DeksMatchData, BlocksMatch
<1>2. ReadsGenuine
  BY DEF DataInv, ReadsGenuine, BuffersMatch, ReplyGenuine, Secret
<1>3. QED
  BY <1>1, <1>2

(* serialize pairs every block with the DEK it puts into the header.        *)
LEMMA FileOfMatches ==
    ASSUME NEW S \in SUBSET Tensors, NEW ek \in EncKeys, NEW sk \in SignKeys,
           NEW policy \in BOOLEAN, NEW order \in Orders, NEW empty \in SUBSET Tensors,
           NEW v \in 1 .. MaxSaves
    PROVE  BlocksMatch(FileOf(S, ek, sk, policy, order, empty, v))
<1> DEFINE f == FileOf(S, ek, sk, policy, order, empty, v)
<1>1. f.ver = v /\ f.blocks = EncryptTensors(S, v)
  BY DEF FileOf
<1>2. S = {} => f.crypto = None
  BY DEF FileOf
<1>3. S # {} => f.crypto # None /\ f.crypto.wrapped = WrapAll(S, v, ek)
  <2>1. ASSUME S # {} PROVE f.crypto.wrapped = WrapAll(S, v, ek)
    BY <2>1 DEF FileOf, GenerateMetadata
  <2>2. ASSUME S # {} PROVE f.crypto # None
    <3> DEFINE c == [enc |-> ek, sign |-> sk, policy |-> policy, wrapped |-> WrapAll(S, v, ek)]
    <3>1. Body(order, Layout(order, empty), c) \in Bodies
      BY LayoutType DEF Body, Bodies, WrapAll, Wrapped, Deks, Values
    <3>2. WrapAll(S, v, ek) \in [Tensors -> Wrapped]
      BY DEF WrapAll, Wrapped, Deks, Values
    <3>3. GenerateMetadata(order, Layout(order, empty), c, sk) \in Headers
      BY <3>1, <3>2 DEF GenerateMetadata, Headers, Signatures
    <3>4. f.crypto = GenerateMetadata(order, Layout(order, empty), c, sk)
      BY <2>2 DEF FileOf
    <3>5. QED
      BY <3>3, <3>4, NoneOK
  <2>3. QED
    BY <2>1, <2>2
<1> HIDE DEF f
<1>4. \A t \in Tensors : t \in S => WrapAll(S, v, ek)[t] = [dek |-> <<t, v>>, by |-> ek]
                      /\ WrapAll(S, v, ek)[t] # None
  <2>1. ASSUME NEW t \in S PROVE [dek |-> <<t, v>>, by |-> ek] # None
    <3>1. [dek |-> <<t, v>>, by |-> ek] \in [dek : Deks, by : EncKeys]
      BY DEF Deks, Values
    <3>2. QED
      BY <3>1, NoneOK
  <2>2. QED
    BY <2>1 DEF WrapAll
<1>5. \A t \in Tensors : t \notin S => WrapAll(S, v, ek)[t] = None
  BY DEF WrapAll
<1>6. ASSUME NEW t \in Tensors
      PROVE  /\ f.blocks[t].val = <<t, f.ver>>
             /\ f.blocks[t].dek = IF f.crypto # None /\ t \in Secret(f.crypto)
                                  THEN f.crypto.wrapped[t].dek ELSE None
  <2>1. f.blocks[t] = [dek |-> IF t \in S THEN <<t, v>> ELSE None, val |-> <<t, v>>]
    BY <1>1 DEF EncryptTensors
  <2>2. CASE t \in S
    <3>1. f.crypto # None /\ f.crypto.wrapped = WrapAll(S, v, ek)
      BY <1>3, <2>2
    <3>2. f.crypto.wrapped[t] = [dek |-> <<t, v>>, by |-> ek] /\ f.crypto.wrapped[t] # None
      BY <1>4, <2>2, <3>1
    <3>3. f.crypto.wrapped[t].dek = <<t, v>>
      BY <3>2
    <3>4. QED
      BY <1>1, <2>1, <2>2, <3>1, <3>2, <3>3 DEF Secret
  <2>3. CASE t \notin S
    <3>1. ~(f.crypto # None /\ t \in Secret(f.crypto))
      BY <1>2, <1>3, <1>5, <2>3 DEF Secret
    <3>2. QED
      BY <1>1, <2>1, <2>3, <3>1
  <2>4. QED
    BY <2>2, <2>3
<1>7. QED
  BY <1>6 DEF BlocksMatch, f

(* Replacing a CryptoTensors by one with the same DEKs keeps the bond.      *)
LEMMA SameDeksMatch ==
    ASSUME NEW o, NEW p, BlocksMatch(o), p.blocks = o.blocks, p.ver = o.ver,
           o.crypto # None, p.crypto # None,
           \A t \in Tensors :
              /\ p.crypto.wrapped[t] # None <=> o.crypto.wrapped[t] # None
              /\ o.crypto.wrapped[t] # None =>
                    p.crypto.wrapped[t].dek = o.crypto.wrapped[t].dek
    PROVE  BlocksMatch(p)
<1>1. Secret(p.crypto) = Secret(o.crypto)
  BY DEF Secret
<1>2. \A t \in Secret(o.crypto) : p.crypto.wrapped[t].dek = o.crypto.wrapped[t].dek
  BY DEF Secret
<1>3. QED
  BY <1>1, <1>2 DEF BlocksMatch

(* What a rewrap leaves in the object, complete or not, has the old DEKs.   *)
LEMMA WithNewKeyKeepsDeks ==
    ASSUME NEW c \in Cryptos, NEW S \in SUBSET Secret(c), NEW ek \in EncKeys,
           \A t \in Tensors : c.wrapped[t] # None => c.ctx[t] = c.wrapped[t].dek
    PROVE  \A t \in Tensors :
              /\ WithNewKey(c, S, ek).wrapped[t] # None <=> c.wrapped[t] # None
              /\ c.wrapped[t] # None =>
                    WithNewKey(c, S, ek).wrapped[t].dek = c.wrapped[t].dek
              /\ WithNewKey(c, S, ek).buf[t] \in {None, c.buf[t]}
<1> DEFINE n == WithNewKey(c, S, ek)
<1>1. \A t \in Tensors :
        /\ n.wrapped[t] = IF t \in S THEN [dek |-> c.wrapped[t].dek, by |-> ek] ELSE c.wrapped[t]
        /\ n.buf[t] = IF t \in S THEN None ELSE c.buf[t]
  BY WithNewKeyType, SMTT(150)
<1> HIDE DEF n
<1>2. ASSUME NEW t \in Tensors
      PROVE  /\ n.wrapped[t] # None <=> c.wrapped[t] # None
             /\ c.wrapped[t] # None => n.wrapped[t].dek = c.wrapped[t].dek
             /\ n.buf[t] \in {None, c.buf[t]}
  <2>1. CASE t \in S
    <3>1. c.wrapped[t] # None /\ c.wrapped[t].dek \in Deks
      BY <2>1 DEF Secret, Cryptos, Wrapped
    <3>2. n.wrapped[t] = [dek |-> c.wrapped[t].dek, by |-> ek] /\ n.buf[t] = None
      BY <1>1, <2>1
    <3>3. [dek |-> c.wrapped[t].dek, by |-> ek] # None
      BY <3>1, NoneOK
    <3>4. QED
      BY <3>1, <3>2, <3>3
  <2>2. CASE t \notin S
    BY <1>1, <2>2
  <2>3. QED
    BY <2>1, <2>2
<1>3. QED
  BY <1>2 DEF n

(* With no file and no object there is nothing to mismatch. *)
LEMMA DataInvInit == Init => DataInv
<1>1. Init => TypeInv
  BY TypeInvInit
<1>2. QED
  BY <1>1, NoneOK DEF Init, DataInv, ReplyGenuine

(* Every call of serialize, deserialize, tensor, iter, rewrap and write back *)
(* keeps header and data, on disk and in the object, together.              *)
LEMMA DataInvStep == DataInv /\ [Next]_vars => DataInv'
<1> SUFFICES ASSUME DataInv, [Next]_vars PROVE DataInv'
  OBVIOUS
<1>t. TypeInv /\ TypeInv'
  BY TypeInvStep DEF DataInv
(* Outside tensor() the reply promises nothing. *)
<1>r. reply'.call # "tensor" => ReplyGenuine'
  BY DEF ReplyGenuine
<1>s. \A call, ok : Said(call, ok).call = call
  BY DEF Said
<1>1. ASSUME NEW S \in SUBSET Tensors, NEW empty \in SUBSET Tensors,
             NEW ek \in EncKeys, NEW sk \in SignKeys, NEW policy \in BOOLEAN,
             NEW order \in Orders, Save(S, ek, sk, policy, order, empty)
      PROVE  DataInv'
  <2>1. disk' = disk \/ BlocksMatch(disk')
    <3>1. CASE S # {} /\ sk \in BadSignKeys
      BY <1>1, <3>1 DEF Save
    <3>2. CASE ~(S # {} /\ sk \in BadSignKeys)
      <4>1. disk' = FileOf(S, ek, sk, policy, order, empty, saves + 1)
        BY <1>1, <3>2, Zenon DEF Save
      <4>2. saves + 1 \in 1 .. MaxSaves
        BY <1>1, <1>t, ConstantsOK DEF Save, TypeInv, TypeOK
      <4>3. QED
        BY <4>1, <4>2, FileOfMatches
    <3>3. QED
      BY <3>1, <3>2
  <2>2. obj' = obj /\ reply'.call = "save"
    BY <1>1, <1>s DEF Save
  <2>3. QED
    BY <1>t, <1>r, <2>1, <2>2 DEF DataInv
<1>2. ASSUME NEW t \in Tensors, DamageBlock(t) PROVE DataInv'
  <2>1. disk \in Files /\ disk # None
    BY <1>2, <1>t DEF DamageBlock, TypeInv, TypeOK
  <2>2. disk' = [disk EXCEPT !.blocks = [disk.blocks EXCEPT ![t] = Garbage]]
    BY <1>2, <2>1 DEF DamageBlock, Files
  <2>3. /\ disk'.crypto = disk.crypto /\ disk'.ver = disk.ver
        /\ \A u \in Tensors : disk'.blocks[u] # Garbage => disk'.blocks[u] = disk.blocks[u]
    BY <2>1, <2>2 DEF Files
  <2>4. BlocksMatch(disk')
    BY <2>1, <2>3 DEF DataInv, BlocksMatch
  <2>5. obj' = obj /\ reply'.call = "none"
    BY <1>2, <1>s DEF DamageBlock
  <2>6. QED
    BY <1>t, <1>r, <2>4, <2>5 DEF DataInv
<1>3. ASSUME NEW ek \in EncKeys, NEW sk \in SignKeys, Open(ek, sk) PROVE DataInv'
  <2> DEFINE opened(parsed, c) ==
               [order |-> parsed, span |-> disk.span, ver |-> disk.ver,
                blocks |-> disk.blocks, crypto |-> c]
  <2>1. PICK parsed \in Parses(disk.span) :
          \/ obj' = None
          \/ disk.crypto = None /\ obj' = opened(parsed, None)
          \/ disk.crypto # None /\ obj' = opened(parsed, CryptoOf(disk.crypto, ek, sk))
    BY <1>3 DEF Open
  <2>2. BlocksMatch(disk) /\ disk \in Files
    BY <1>3, <1>t DEF Open, DataInv, TypeInv, TypeOK
  <2>3. obj' # None => BlocksMatch(obj') /\ BuffersMatch(obj')
    <3>1. CASE disk.crypto = None /\ obj' = opened(parsed, None)
      BY <2>2, <3>1 DEF BlocksMatch, BuffersMatch
    <3>2. CASE disk.crypto # None /\ obj' = opened(parsed, CryptoOf(disk.crypto, ek, sk))
      <4>1. CryptoOf(disk.crypto, ek, sk) \in Cryptos
        BY <2>2, <3>2, CryptoOfType DEF Files
      <4>2. obj'.crypto # None /\ obj'.blocks = disk.blocks /\ obj'.ver = disk.ver
            /\ obj'.crypto = CryptoOf(disk.crypto, ek, sk)
        BY <3>2, <4>1, NoneOK
      <4>3. obj'.crypto.wrapped = disk.crypto.wrapped
        BY <4>2 DEF CryptoOf
      <4>4. BlocksMatch(obj')
        BY <2>2, <3>2, <4>2, <4>3, SameDeksMatch
      <4>5. \A t \in Tensors : obj'.crypto.buf[t] = None
        BY <4>2 DEF CryptoOf
      <4>6. QED
        BY <4>4, <4>5 DEF BuffersMatch
    <3>3. QED
      BY <2>1, <3>1, <3>2
  <2>4. disk' = disk /\ reply'.call = "open"
    BY <1>3, <1>s DEF Open
  <2>5. QED
    BY <1>t, <1>r, <2>3, <2>4 DEF DataInv
<1>4. CASE Close
  <2>1. obj' = None /\ disk' = disk /\ reply'.call = "none"
    BY <1>4, <1>s DEF Close
  <2>2. QED
    BY <1>t, <1>r, <2>1 DEF DataInv
<1>5. ASSUME NEW t \in Tensors, NEW call \in {"tensor", "iter"}, obj # None,
             \/ ReadPlain(call, t)
             \/ ReadSecret(call, t)
             \/ ReadDamaged(t) /\ reply' = Got(call, t, FALSE, None)
             \/ ReadDamaged(t) /\ call = "iter" /\ reply' = Got(call, t, TRUE, Raw(obj, t)),
             UNCHANGED <<disk, saves>>
      PROVE  DataInv'
  <2>1. obj \in Objects /\ BlocksMatch(obj) /\ BuffersMatch(obj)
    BY <1>5, <1>t DEF TypeInv, TypeOK, DataInv
  <2>g. \A ok, v : /\ Got(call, t, ok, v).call = call /\ Got(call, t, ok, v).name = t
                   /\ Got(call, t, ok, v).ok = ok /\ Got(call, t, ok, v).got = v
    BY DEF Got
  <2>2. CASE ReadPlain(call, t)
    <3>1. obj' = obj /\ reply'.name = t /\ ~Encrypted(obj, t)
      BY <2>2, <2>g DEF ReadPlain
    <3>2. ReplyGenuine'
      BY <3>1 DEF ReplyGenuine, Encrypted, Secret
    <3>3. QED
      BY <1>5, <1>t, <3>1, <3>2 DEF DataInv
  <2>3. CASE ReadSecret(call, t)
    <3>1. obj.crypto \in Cryptos /\ obj.crypto # None /\ obj.crypto.wrapped[t] # None
      BY <2>1, <2>3 DEF ReadSecret, Encrypted, Objects
    <3>2. Decrypted(obj, t) = <<t, obj.ver>>
      <4>1. CASE obj.crypto.buf[t] # None
        BY <2>1, <3>1, <4>1 DEF Decrypted, BuffersMatch
      <4>2. CASE obj.crypto.buf[t] = None
        <5>1. obj.blocks[t] # Garbage
          BY <2>3, <4>2 DEF ReadSecret, CanDecrypt
        <5>2. QED
          BY <2>1, <4>2, <5>1 DEF Decrypted, BlocksMatch
      <4>3. QED
        BY <4>1, <4>2
    <3>3. obj' = [obj EXCEPT !.crypto = [obj.crypto EXCEPT
                     !.buf = [obj.crypto.buf EXCEPT ![t] = Decrypted(obj, t)]]]
      BY <2>1, <2>3, <3>1 DEF ReadSecret, Objects, Cryptos
    <3>4. /\ obj'.blocks = obj.blocks /\ obj'.ver = obj.ver
          /\ obj'.crypto = [obj.crypto EXCEPT
                              !.buf = [obj.crypto.buf EXCEPT ![t] = Decrypted(obj, t)]]
      BY <2>1, <3>3 DEF Objects
    <3>5. /\ obj'.crypto.wrapped = obj.crypto.wrapped
          /\ obj'.crypto \in Cryptos
          /\ \A u \in Tensors : obj'.crypto.buf[u] =
                IF u = t THEN Decrypted(obj, t) ELSE obj.crypto.buf[u]
      <4>1. Decrypted(obj, t) \in Values
        BY <2>1, <3>2 DEF Values, Objects
      <4>2. QED
        BY <3>1, <3>4, <4>1 DEF Cryptos
    <3>6. obj'.crypto # None
      BY <3>5, NoneOK
    <3>7. BlocksMatch(obj')
      BY <2>1, <3>1, <3>4, <3>5, <3>6, SameDeksMatch
    <3>8. BuffersMatch(obj')
      BY <2>1, <3>1, <3>2, <3>4, <3>5 DEF BuffersMatch
    <3>9. ReplyGenuine'
      <4>1. reply'.name = t /\ reply'.ok = TRUE /\ reply'.got = Decrypted(obj, t)
        BY <2>3, <2>g DEF ReadSecret
      <4>2. QED
        BY <3>2, <3>4, <4>1 DEF ReplyGenuine
    <3>10. QED
      BY <1>5, <1>t, <3>7, <3>8, <3>9 DEF DataInv
  <2>4. CASE ReadDamaged(t)
    <3>1. obj' = obj /\ obj.crypto # None /\ obj.crypto.wrapped[t] # None /\ ~CanDecrypt(obj, t)
      BY <2>4 DEF ReadDamaged, Encrypted
    <3>2. obj.blocks[t] = Garbage
      <4>1. obj.crypto.ctx[t] = obj.crypto.wrapped[t].dek
        BY <1>5, <1>t, <3>1 DEF TypeInv, ContextsPrepared
      <4>2. obj.blocks[t] # Garbage => obj.blocks[t].dek = obj.crypto.wrapped[t].dek
        BY <2>1, <3>1 DEF BlocksMatch, Secret
      <4>3. QED
        BY <3>1, <4>1, <4>2 DEF CanDecrypt
    <3>3. ReplyGenuine'
      <4>1. CASE reply' = Got(call, t, FALSE, None)
        <5>1. reply'.name = t /\ reply'.ok = FALSE
          BY <4>1 DEF Got
        <5>2. obj'.blocks[t] = Garbage
          BY <3>1, <3>2
        <5>3. QED
          BY <5>1, <5>2 DEF ReplyGenuine
      <4>2. CASE reply'.call = "iter"
        BY <4>2 DEF ReplyGenuine
      <4>3. ~ReadPlain(call, t) /\ ~ReadSecret(call, t)
        BY <2>4 DEF ReadPlain, ReadSecret, ReadDamaged
      <4>4. \/ reply' = Got(call, t, FALSE, None)
            \/ call = "iter" /\ reply' = Got(call, t, TRUE, Raw(obj, t))
        BY <1>5, <4>3
      <4>5. CASE call = "iter" /\ reply' = Got(call, t, TRUE, Raw(obj, t))
        <5>1. reply'.call = "iter"
          BY <4>5 DEF Got
        <5>2. QED
          BY <4>2, <5>1
      <4>6. QED
        BY <4>1, <4>4, <4>5
    <3>4. QED
      BY <1>5, <1>t, <3>1, <3>3 DEF DataInv
  <2>5. QED
    BY <1>5, <2>2, <2>3, <2>4
<1>6. ASSUME NEW c \in Cryptos, obj # None, obj.crypto # None, saves' = saves, disk' = disk,
             \/ obj' = None
             \/ obj' = obj
             \/ obj' = [obj EXCEPT !.crypto = c],
             reply'.call = "rewrap",
             \A t \in Tensors : /\ c.wrapped[t] # None <=> obj.crypto.wrapped[t] # None
                                /\ obj.crypto.wrapped[t] # None =>
                                      c.wrapped[t].dek = obj.crypto.wrapped[t].dek
                                /\ c.buf[t] \in {None, obj.crypto.buf[t]}
      PROVE  DataInv'
  <2>1. obj \in Objects /\ BlocksMatch(obj) /\ BuffersMatch(obj) /\ c # None
    BY <1>6, <1>t, NoneOK DEF TypeInv, TypeOK, DataInv
  <2>2. CASE obj' = [obj EXCEPT !.crypto = c]
    <3>1. obj'.crypto = c /\ obj'.blocks = obj.blocks /\ obj'.ver = obj.ver
      BY <2>1, <2>2 DEF Objects
    <3>2. BlocksMatch(obj')
      BY <1>6, <2>1, <3>1, SameDeksMatch
    <3>3. BuffersMatch(obj')
      BY <1>6, <2>1, <3>1 DEF BuffersMatch
    <3>4. QED
      BY <1>6, <1>t, <1>r, <3>2, <3>3 DEF DataInv
  <2>3. QED
    BY <1>6, <1>t, <1>r, <2>2 DEF DataInv
<1>7. ASSUME obj # None, obj.crypto # None
      PROVE  /\ obj.crypto \in Cryptos
             /\ \A t \in Tensors : obj.crypto.wrapped[t] # None =>
                   obj.crypto.ctx[t] = obj.crypto.wrapped[t].dek
  BY <1>7, <1>t DEF TypeInv, TypeOK, ContextsPrepared, Objects
<1>8. ASSUME NEW c \in Cryptos, FailRewrap(c), obj # None, obj.crypto # None,
             \A t \in Tensors : /\ c.wrapped[t] # None <=> obj.crypto.wrapped[t] # None
                                /\ obj.crypto.wrapped[t] # None =>
                                      c.wrapped[t].dek = obj.crypto.wrapped[t].dek
                                /\ c.buf[t] \in {None, obj.crypto.buf[t]}
      PROVE  DataInv'
  <2>1. reply'.call = "rewrap" /\ disk' = disk /\ saves' = saves
        /\ (obj' = None \/ obj' = [obj EXCEPT !.crypto = c])
    BY <1>8, <1>s DEF FailRewrap
  <2>2. QED
    BY <1>6, <1>8, <2>1
<1>9. CASE RewrapPlain
  <2>1. obj' = obj /\ disk' = disk /\ reply'.call = "rewrap"
    BY <1>9, <1>s DEF RewrapPlain
  <2>2. QED
    BY <1>t, <1>r, <2>1 DEF DataInv
(* The three ways to fail and the one to succeed all install a              *)
(* WithNewKey(obj.crypto, S, ek) with other keys. *)
<1>w. ASSUME NEW S \in SUBSET Secret(obj.crypto), NEW ek \in EncKeys, obj # None, obj.crypto # None
      PROVE  /\ WithNewKey(obj.crypto, S, ek) \in Cryptos
             /\ \A t \in Tensors :
                  /\ WithNewKey(obj.crypto, S, ek).wrapped[t] # None <=> obj.crypto.wrapped[t] # None
                  /\ obj.crypto.wrapped[t] # None =>
                        WithNewKey(obj.crypto, S, ek).wrapped[t].dek = obj.crypto.wrapped[t].dek
                  /\ WithNewKey(obj.crypto, S, ek).buf[t] \in {None, obj.crypto.buf[t]}
  <2>1. /\ obj.crypto \in Cryptos
        /\ \A t \in Tensors : obj.crypto.wrapped[t] # None =>
              obj.crypto.ctx[t] = obj.crypto.wrapped[t].dek
    BY <1>7, <1>w
  <2>2. WithNewKey(obj.crypto, S, ek) \in Cryptos
    BY <2>1, WithNewKeyType, SMTT(150)
  <2>3. QED
    BY <2>1, <2>2, WithNewKeyKeepsDeks, SMTT(150)
<1>10. ASSUME NEW ek \in EncKeys, NEW sk \in SignKeys, NEW policy \in BOOLEAN,
              Rewrap(ek, sk, policy)
       PROVE  DataInv'
  <2> DEFINE n == WithNewKey(obj.crypto, Secret(obj.crypto), ek)
             m == [n EXCEPT !.enc = ek, !.sign = sk, !.signer = sk, !.sig = None,
                            !.policy = policy]
  <2>1. obj # None /\ obj.crypto # None /\ reply'.call = "rewrap" /\ disk' = disk /\ saves' = saves
    BY <1>10, <1>s DEF Rewrap
  <2>2. n \in Cryptos /\ \A t \in Tensors :
                  /\ n.wrapped[t] # None <=> obj.crypto.wrapped[t] # None
                  /\ obj.crypto.wrapped[t] # None =>
                        n.wrapped[t].dek = obj.crypto.wrapped[t].dek
                  /\ n.buf[t] \in {None, obj.crypto.buf[t]}
    BY <1>w, <2>1
  <2>3. obj' = [obj EXCEPT !.crypto = m]
    BY <1>10 DEF Rewrap
  <2> HIDE DEF n
  <2>4. m \in Cryptos /\ m.wrapped = n.wrapped /\ m.buf = n.buf
    BY <2>2 DEF Cryptos
  <2> HIDE DEF m
  <2>5. QED
    BY <1>6, <2>1, <2>2, <2>3, <2>4
<1>11. ASSUME NEW ek \in EncKeys, RewrapOtherAlgorithm(ek) PROVE DataInv'
  BY <1>7, <1>8, <1>11 DEF RewrapOtherAlgorithm
<1>12. ASSUME NEW S \in SUBSET Tensors, NEW ek \in EncKeys, RewrapInterrupted(S, ek)
       PROVE  DataInv'
  BY <1>8, <1>w, <1>12 DEF RewrapInterrupted
<1>13. ASSUME NEW ek \in EncKeys, NEW sk \in SignKeys, RewrapBadSigner(ek, sk)
       PROVE  DataInv'
  <2> DEFINE n == WithNewKey(obj.crypto, Secret(obj.crypto), ek)
             m == [n EXCEPT !.enc = ek, !.sign = sk]
  <2>1. obj # None /\ obj.crypto # None /\ FailRewrap(m)
    BY <1>13 DEF RewrapBadSigner
  <2>2. n \in Cryptos /\ \A t \in Tensors :
                  /\ n.wrapped[t] # None <=> obj.crypto.wrapped[t] # None
                  /\ obj.crypto.wrapped[t] # None =>
                        n.wrapped[t].dek = obj.crypto.wrapped[t].dek
                  /\ n.buf[t] \in {None, obj.crypto.buf[t]}
    BY <1>w, <2>1
  <2> HIDE DEF n
  <2>3. m \in Cryptos /\ m.wrapped = n.wrapped /\ m.buf = n.buf
    BY <2>2 DEF Cryptos
  <2> HIDE DEF m
  <2>4. QED
    BY <1>8, <2>1, <2>2, <2>3
<1>14. CASE WriteBack
  <2> DEFINE h == GenerateMetadata(obj.order, obj.span, obj.crypto, obj.crypto.signer)
  <2>1. obj \in Objects /\ obj.crypto \in Cryptos /\ obj # None /\ obj.crypto # None
        /\ BlocksMatch(obj) /\ BuffersMatch(obj)
    BY <1>7, <1>14, <1>t DEF WriteBack, TypeInv, TypeOK, DataInv
  <2>2. disk' = [order |-> obj.order, span |-> obj.span, ver |-> obj.ver,
                 blocks |-> obj.blocks, crypto |-> h]
        /\ obj' = [obj EXCEPT !.crypto.sig = h.sig] /\ saves' = saves
    BY <1>14 DEF WriteBack
  <2>3. h.wrapped = obj.crypto.wrapped
    BY DEF GenerateMetadata
  <2>4. h \in Headers /\ h # None
    <3>1. Body(obj.order, obj.span, obj.crypto) \in Bodies
      BY <2>1 DEF Objects, Cryptos, Body, Bodies
    <3>2. h \in Headers
      BY <2>1, <3>1 DEF GenerateMetadata, Headers, Signatures, Cryptos
    <3>3. QED
      BY <3>2, NoneOK
  <2> HIDE DEF h
  <2>5. BlocksMatch(disk')
    BY <2>1, <2>2, <2>3, <2>4, SameDeksMatch
  <2>6. obj' = [obj EXCEPT !.crypto = [obj.crypto EXCEPT !.sig = h.sig]]
    BY <2>1, <2>2 DEF Objects
  <2>7. obj'.blocks = obj.blocks /\ obj'.ver = obj.ver
        /\ obj'.crypto.wrapped = obj.crypto.wrapped /\ obj'.crypto.buf = obj.crypto.buf
    BY <2>1, <2>6 DEF Objects, Cryptos
  <2>8. obj' # None => BlocksMatch(obj') /\ BuffersMatch(obj')
    <3>1. [obj.crypto EXCEPT !.sig = h.sig] \in Cryptos
      BY <2>1, <2>4 DEF Cryptos, Headers
    <3>2. obj'.crypto # None
      BY <2>1, <2>6, <3>1, NoneOK DEF Objects
    <3>3. QED
      BY <2>1, <2>7, <3>2, SameDeksMatch DEF BuffersMatch
  <2>9. reply'.call = "write"
    BY <1>14, <1>s DEF WriteBack
  <2>10. QED
    BY <1>t, <1>r, <2>5, <2>8, <2>9 DEF DataInv
<1>15. CASE WriteBackSigned
  <2>1. obj' = obj /\ disk' = disk /\ reply'.call = "write"
    BY <1>15, <1>s DEF WriteBackSigned
  <2>2. QED
    BY <1>t, <1>r, <2>1 DEF DataInv
<1>16. CASE UNCHANGED vars
  BY <1>16, <1>t DEF vars, DataInv, ReplyGenuine
<1>17. ASSUME NEW t \in Tensors, Tensor(t) \/ Iter(t) PROVE DataInv'
  BY <1>5, <1>17 DEF Tensor, Iter
<1>18. QED
  BY <1>1, <1>2, <1>3, <1>4, <1>9, <1>10, <1>11, <1>12, <1>13, <1>14, <1>15, <1>16, <1>17
     DEF Next

LEMMA DataAlways == Spec => []DataInv
BY DataInvInit, DataInvStep, PTL DEF Spec

(* No sequence of saves, openings, complete or broken rewraps and writes    *)
(* pairs a header with foreign data, whether or not a caller keeps an       *)
(* object whose rewrap failed.                                              *)
THEOREM DataCorrect == Spec => []DeksMatchData
BY DataAlways, DataInvImplies, PTL

(* tensor() answers an encrypted tensor with what was saved, out of the     *)
(* buffer or not and through any number of rewraps, and fails only for a    *)
(* damaged block.                                                           *)
THEOREM ReadsCorrect == Spec => []ReadsGenuine
BY DataAlways, DataInvImplies, PTL

-----------------------------------------------------------------------------
(* The header invariant.  WriteBack makes the header from the object, so    *)
(* its cryptors, keys and signer must agree whenever a caller holds it: the *)
(* failing exits of rewrap break this, and only dropping the object, as     *)
(* rewrap_header does, keeps it.                                            *)

KeysAgree(c) ==
    /\ \A t \in Secret(c) : c.wrapped[t].by = c.enc
    /\ c.signer = c.sign

HeaderInv ==
    /\ TypeInv
    /\ HeaderCoherent
    /\ obj # None /\ obj.crypto # None => KeysAgree(obj.crypto)

Coherent(h, order, span) ==
    /\ \A t \in Secret(h) : h.wrapped[t].by = h.enc
    /\ h.sig = [by |-> h.sign, over |-> Body(order, span, h)]

(* What generate_metadata makes of agreeing keys is a coherent header.      *)
LEMMA MetadataCoherent ==
    ASSUME NEW order, NEW span, NEW c, NEW signer,
           \A t \in Secret(c) : c.wrapped[t].by = c.enc, signer = c.sign
    PROVE  Coherent(GenerateMetadata(order, span, c, signer), order, span)
<1> DEFINE h == GenerateMetadata(order, span, c, signer)
<1>1. /\ h.enc = c.enc /\ h.sign = c.sign /\ h.policy = c.policy /\ h.wrapped = c.wrapped
      /\ h.sig = [by |-> signer, over |-> Body(order, span, c)]
  BY DEF GenerateMetadata
<1> HIDE DEF h
<1>2. Body(order, span, h) = Body(order, span, c)
  BY <1>1 DEF Body
<1>3. Secret(h) = Secret(c)
  BY <1>1 DEF Secret
<1>4. Coherent(h, order, span)
  BY <1>1, <1>2, <1>3 DEF Coherent
<1>5. QED
  BY <1>4 DEF h

(* The same calls keep the keys of header and object in agreement, if a     *)
(* failed rewrap drops the object.                                          *)
LEMMA HeaderInvStep ==
    ASSUME KeepOnError = FALSE, HeaderInv, [Next]_vars
    PROVE  HeaderInv'
<1>t. TypeInv /\ TypeInv'
  BY TypeInvStep DEF HeaderInv
<1>1. ASSUME NEW S \in SUBSET Tensors, NEW empty \in SUBSET Tensors,
             NEW ek \in EncKeys, NEW sk \in SignKeys, NEW policy \in BOOLEAN,
             NEW order \in Orders, Save(S, ek, sk, policy, order, empty)
      PROVE  HeaderInv'
  <2>1. HeaderCoherent'
    <3>1. CASE S # {} /\ sk \in BadSignKeys
      BY <1>1, <3>1 DEF Save, HeaderInv, HeaderCoherent
    <3>2. CASE ~(S # {} /\ sk \in BadSignKeys)
      <4> DEFINE span == Layout(order, empty)
                 c    == [enc |-> ek, sign |-> sk, policy |-> policy,
                          wrapped |-> WrapAll(S, saves + 1, ek)]
                 h    == GenerateMetadata(order, span, c, sk)
      <4>1. disk' = FileOf(S, ek, sk, policy, order, empty, saves + 1)
        BY <1>1, <3>2, Zenon DEF Save
      <4>2. disk'.order = order /\ disk'.span = span /\ disk'.crypto \in {None, h}
        BY <4>1 DEF FileOf
      <4>3. c.enc = ek /\ c.sign = sk /\ c.wrapped = WrapAll(S, saves + 1, ek)
        OBVIOUS
      <4> HIDE DEF c
      <4>4. \A t \in Secret(c) : c.wrapped[t].by = c.enc
        <5>1. ASSUME NEW t \in Secret(c) PROVE c.wrapped[t].by = c.enc
          <6>1. c.wrapped[t] = [dek |-> <<t, saves + 1>>, by |-> ek]
            BY <4>3, <5>1 DEF Secret, WrapAll
          <6>2. QED
            BY <4>3, <6>1
        <5>2. QED
          BY <5>1
      <4>5. Coherent(h, order, span)
        BY <4>3, <4>4, MetadataCoherent
      <4> HIDE DEF h, span
      <4>6. QED
        BY <4>2, <4>5 DEF HeaderCoherent, Coherent
    <3>3. QED
      BY <3>1, <3>2
  <2>2. obj' = obj
    BY <1>1 DEF Save
  <2>3. QED
    BY <1>t, <2>1, <2>2 DEF HeaderInv
<1>2. ASSUME NEW t \in Tensors, DamageBlock(t) PROVE HeaderInv'
  <2>1. disk \in Files /\ disk # None
    BY <1>2, <1>t DEF DamageBlock, TypeInv, TypeOK
  <2>2. disk'.crypto = disk.crypto /\ disk'.order = disk.order /\ disk'.span = disk.span
    BY <1>2, <2>1 DEF DamageBlock, Files
  <2>3. HeaderCoherent'
    BY <2>1, <2>2 DEF HeaderInv, HeaderCoherent
  <2>4. obj' = obj
    BY <1>2 DEF DamageBlock
  <2>5. QED
    BY <1>t, <2>3, <2>4 DEF HeaderInv
<1>3. ASSUME NEW ek \in EncKeys, NEW sk \in SignKeys, Open(ek, sk) PROVE HeaderInv'
  <2> DEFINE o(parsed, c) == [order |-> parsed, span |-> disk.span, ver |-> disk.ver,
                              blocks |-> disk.blocks, crypto |-> c]
  <2>1. PICK parsed \in Parses(disk.span) :
          \/ obj' = None
          \/ obj' = o(parsed, None)
          \/ Opens(disk, parsed, ek, sk) /\ obj' = o(parsed, CryptoOf(disk.crypto, ek, sk))
    BY <1>3 DEF Open
  <2>2. Opens(disk, parsed, ek, sk) => KeysAgree(CryptoOf(disk.crypto, ek, sk))
    <3> DEFINE c == CryptoOf(disk.crypto, ek, sk)
    <3>1. c.wrapped = disk.crypto.wrapped /\ c.enc = ek /\ c.sign = sk /\ c.signer = sk
      BY DEF CryptoOf
    <3> HIDE DEF c
    <3>2. Secret(c) = Secret(disk.crypto)
      BY <3>1 DEF Secret
    <3>3. QED
      BY <3>1, <3>2 DEF Opens, KeysAgree, c
  <2>3. obj' # None /\ obj'.crypto # None => KeysAgree(obj'.crypto)
    BY <2>1, <2>2
  <2>4. disk' = disk
    BY <1>3 DEF Open
  <2>5. QED
    BY <1>t, <2>3, <2>4 DEF HeaderInv, HeaderCoherent
(* A call that leaves the file alone and gives up the object, or leaves its *)
(* keys as they are, cannot hurt. *)
<1>4. ASSUME disk' = disk, obj' = None \/ obj' = obj PROVE HeaderInv'
  BY <1>t, <1>4 DEF HeaderInv, HeaderCoherent
<1>5. CASE Close
  BY <1>4, <1>5 DEF Close
<1>6. ASSUME NEW t \in Tensors, Tensor(t) \/ Iter(t) PROVE HeaderInv'
  <2>1. CASE obj' = obj
    BY <1>4, <1>6, <2>1 DEF Tensor, Iter
  <2>2. CASE obj' # obj
    <3>1. PICK v : /\ obj' = [obj EXCEPT !.crypto.buf[t] = v]
                   /\ obj # None /\ obj.crypto # None /\ disk' = disk
      BY <1>6, <2>2 DEF Tensor, Iter, ReadPlain, ReadSecret, ReadDamaged, Encrypted
    <3>2. obj \in Objects /\ obj.crypto \in Cryptos
      BY <1>t, <3>1 DEF TypeInv, TypeOK, Objects
    <3>3. /\ obj'.crypto.wrapped = obj.crypto.wrapped /\ obj'.crypto.enc = obj.crypto.enc
          /\ obj'.crypto.sign = obj.crypto.sign /\ obj'.crypto.signer = obj.crypto.signer
      BY <3>1, <3>2 DEF Objects, Cryptos
    <3>4. KeysAgree(obj'.crypto)
      BY <3>1, <3>3 DEF HeaderInv, KeysAgree, Secret
    <3>5. QED
      BY <1>t, <3>1, <3>4 DEF HeaderInv, HeaderCoherent
  <2>3. QED
    BY <2>1, <2>2
<1>7. CASE RewrapPlain
  BY <1>4, <1>7 DEF RewrapPlain
<1>8. ASSUME NEW c, FailRewrap(c) PROVE HeaderInv'
  BY <1>4, <1>8 DEF FailRewrap
<1>9. ASSUME NEW ek \in EncKeys, NEW sk \in SignKeys, NEW policy \in BOOLEAN,
             Rewrap(ek, sk, policy)
      PROVE  HeaderInv'
  <2> DEFINE S == Secret(obj.crypto)
             n == WithNewKey(obj.crypto, S, ek)
             m == [n EXCEPT !.enc = ek, !.sign = sk, !.signer = sk, !.sig = None,
                            !.policy = policy]
  <2>1. /\ obj \in Objects /\ obj.crypto \in Cryptos
        /\ \A t \in Tensors : obj.crypto.wrapped[t] # None =>
              obj.crypto.ctx[t] = obj.crypto.wrapped[t].dek
    BY <1>9, <1>t DEF Rewrap, TypeInv, TypeOK, ContextsPrepared, Objects
  <2>2. obj' = [obj EXCEPT !.crypto = m] /\ disk' = disk
    BY <1>9 DEF Rewrap
  <2>3. /\ n \in Cryptos
        /\ \A t \in Tensors : n.wrapped[t] =
              IF t \in S THEN [dek |-> obj.crypto.wrapped[t].dek, by |-> ek]
                         ELSE obj.crypto.wrapped[t]
    BY <2>1, WithNewKeyType, SMTT(150)
  <2> HIDE DEF n
  <2>4. m.wrapped = n.wrapped /\ m.enc = ek /\ m.sign = sk /\ m.signer = sk
    BY <2>3 DEF Cryptos
  <2> HIDE DEF m
  <2>5. ASSUME NEW t \in Secret(m) PROVE m.wrapped[t].by = ek
    <3>1. t \in S
      BY <2>3, <2>4, <2>5 DEF Secret
    <3>2. m.wrapped[t] = [dek |-> obj.crypto.wrapped[t].dek, by |-> ek]
      BY <2>3, <2>4, <3>1 DEF Secret
    <3>3. QED
      BY <3>2
  <2>6. obj'.crypto = m
    BY <2>1, <2>2 DEF Objects
  <2>7. KeysAgree(obj'.crypto)
    BY <2>4, <2>5, <2>6 DEF KeysAgree
  <2>8. QED
    BY <1>t, <2>2, <2>7 DEF HeaderInv, HeaderCoherent
<1>10. ASSUME NEW ek \in EncKeys, RewrapOtherAlgorithm(ek) PROVE HeaderInv'
  BY <1>8, <1>10 DEF RewrapOtherAlgorithm
<1>11. ASSUME NEW S \in SUBSET Tensors, NEW ek \in EncKeys, RewrapInterrupted(S, ek)
       PROVE  HeaderInv'
  BY <1>8, <1>11 DEF RewrapInterrupted
<1>12. ASSUME NEW ek \in EncKeys, NEW sk \in SignKeys, RewrapBadSigner(ek, sk)
       PROVE  HeaderInv'
  BY <1>8, <1>12 DEF RewrapBadSigner
<1>13. CASE WriteBack
  <2> DEFINE h == GenerateMetadata(obj.order, obj.span, obj.crypto, obj.crypto.signer)
  <2>1. obj \in Objects /\ obj.crypto \in Cryptos /\ KeysAgree(obj.crypto)
    BY <1>13, <1>t DEF WriteBack, TypeInv, TypeOK, Objects, HeaderInv
  <2>2. /\ disk' = [order |-> obj.order, span |-> obj.span, ver |-> obj.ver,
                    blocks |-> obj.blocks, crypto |-> h]
        /\ obj' = [obj EXCEPT !.crypto.sig = h.sig]
    BY <1>13 DEF WriteBack
  <2>3. Coherent(h, obj.order, obj.span)
    BY <2>1, MetadataCoherent DEF KeysAgree
  <2> HIDE DEF h
  <2>4. HeaderCoherent'
    BY <2>2, <2>3 DEF HeaderCoherent, Coherent
  <2>5. /\ obj'.crypto.wrapped = obj.crypto.wrapped /\ obj'.crypto.enc = obj.crypto.enc
        /\ obj'.crypto.sign = obj.crypto.sign /\ obj'.crypto.signer = obj.crypto.signer
    BY <2>1, <2>2 DEF Objects, Cryptos
  <2>6. KeysAgree(obj'.crypto)
    BY <2>1, <2>5 DEF KeysAgree, Secret
  <2>7. QED
    BY <1>t, <2>4, <2>6 DEF HeaderInv
<1>14. CASE WriteBackSigned
  BY <1>4, <1>14 DEF WriteBackSigned
<1>15. CASE UNCHANGED vars
  BY <1>4, <1>15 DEF vars
<1>16. QED
  BY <1>1, <1>2, <1>3, <1>5, <1>6, <1>7, <1>9, <1>10, <1>11, <1>12, <1>13, <1>14, <1>15
     DEF Next

(* As long as callers drop an object whose rewrap failed, the way           *)
(* rewrap_header does, the header on disk is of one piece, whatever         *)
(* failed in between and whichever object is written back.                  *)
THEOREM HeaderCorrect ==
    ASSUME KeepOnError = FALSE
    PROVE  Spec => []HeaderCoherent
<1>1. Init => HeaderInv
  BY TypeInvInit DEF Init, HeaderInv, HeaderCoherent
<1>2. HeaderInv /\ [Next]_vars => HeaderInv'
  BY HeaderInvStep
<1>3. HeaderInv => HeaderCoherent
  BY DEF HeaderInv
<1>4. QED
  BY <1>1, <1>2, <1>3, PTL DEF Spec

-----------------------------------------------------------------------------
(* The order of the tensors and their offsets *)

(* The offsets alone give the order away. *)
Determined(order, span) ==
    \A t, u \in Tensors :
        <<t, u>> \in order => SpanLE(span[t], span[u]) /\ ~SpanLE(span[u], span[t])

(* Then the parser finds it again, however its HashMap yields the tensors.  *)
LEMMA ParseUnique ==
    ASSUME NEW order \in Orders, NEW span, Determined(order, span),
           NEW parsed \in Parses(span)
    PROVE  parsed = order
<1>1. parsed \in Orders
      /\ \A t, u \in Tensors : <<t, u>> \in parsed => SpanLE(span[t], span[u])
  BY DEF Parses
<1>2. /\ parsed \subseteq Tensors \X Tensors /\ StrictTotal(parsed)
      /\ order \subseteq Tensors \X Tensors /\ StrictTotal(order)
  BY <1>1 DEF Orders
<1>3. ASSUME NEW t \in Tensors, NEW u \in Tensors
      PROVE  <<t, u>> \in parsed <=> <<t, u>> \in order
  <2>1. CASE t = u
    BY <1>2, <2>1 DEF StrictTotal
  <2>2. CASE t # u
    <3>1. /\ <<t, u>> \in parsed <=> <<u, t>> \notin parsed
          /\ <<t, u>> \in order <=> <<u, t>> \notin order
      BY <1>2, <2>2 DEF StrictTotal
    <3>2. <<t, u>> \in order => <<u, t>> \notin parsed
      BY <1>1 DEF Determined
    <3>3. <<u, t>> \in order => <<t, u>> \notin parsed
      BY <1>1 DEF Determined
    <3>4. QED
      BY <3>1, <3>2, <3>3
  <2>3. QED
    BY <2>1, <2>2
<1>4. ASSUME NEW p PROVE p \in parsed <=> p \in order
  <2>1. p \in parsed \/ p \in order => \E t, u \in Tensors : p = <<t, u>>
    BY <1>2
  <2>2. QED
    BY <1>3, <2>1
<1>5. QED
  BY <1>4

(* The tensors with bytes that lie before t *)
Before(order, empty, t) == {u \in Tensors \ empty : <<u, t>> \in order}

(* prepare gives a tensor as its start the number of tensors before it that *)
(* have bytes; this number does not shrink along the order, and it grows    *)
(* behind a tensor that has bytes.                                          *)
LEMMA StartsGrow ==
    ASSUME NEW order \in Orders, NEW empty \in SUBSET Tensors,
           NEW t \in Tensors, NEW u \in Tensors, <<t, u>> \in order
    PROVE  /\ Cardinality(Before(order, empty, t)) \in Nat
           /\ Cardinality(Before(order, empty, u)) \in Nat
           /\ Cardinality(Before(order, empty, t)) <= Cardinality(Before(order, empty, u))
           /\ t \notin empty =>
                 Cardinality(Before(order, empty, t)) + 1 <= Cardinality(Before(order, empty, u))
<1> DEFINE P == Before(order, empty, t)
           Q == Before(order, empty, u)
<1>1. IsFiniteSet(P) /\ IsFiniteSet(Q)
  <2>1. P \subseteq Tensors /\ Q \subseteq Tensors
    BY DEF Before
  <2>2. QED
    BY <2>1, ConstantsOK, FS_Subset
<1>2. P \subseteq Q
  BY DEF Before, Orders, StrictTotal
<1>3. t \notin P /\ (t \notin empty => t \in Q)
  BY DEF Before, Orders, StrictTotal
<1> HIDE DEF P, Q
<1>4. /\ Cardinality(P) \in Nat /\ Cardinality(Q) \in Nat
      /\ Cardinality(P) <= Cardinality(Q)
  BY <1>1, <1>2, FS_CardinalityType, FS_Subset
<1>5. ASSUME t \notin empty PROVE Cardinality(P) + 1 <= Cardinality(Q)
  <2>1. P \cup {t} \subseteq Q
    BY <1>2, <1>3, <1>5
  <2>2. Cardinality(P \cup {t}) = Cardinality(P) + 1
    BY <1>1, <1>3, FS_AddElement
  <2>3. Cardinality(P \cup {t}) <= Cardinality(Q)
    BY <1>1, <2>1, FS_Subset
  <2>4. QED
    BY <2>2, <2>3
<1>6. QED
  BY <1>4, <1>5 DEF P, Q

(* So the layout gives the order away if at most one tensor is empty.       *)
LEMMA LayoutDetermined ==
    ASSUME NEW order \in Orders, NEW empty \in SUBSET Tensors, Cardinality(empty) <= 1
    PROVE  Determined(order, Layout(order, empty))
<1> DEFINE span == Layout(order, empty)
           n(w) == Cardinality(Before(order, empty, w))
<1>1. \A w \in Tensors : span[w] = <<n(w), IF w \in empty THEN n(w) ELSE n(w) + 1>>
  BY DEF Layout, Before
<1>2. ASSUME NEW t \in empty, NEW u \in empty PROVE t = u
  <2>1. IsFiniteSet(empty) /\ Cardinality(empty) \in Nat
    BY ConstantsOK, FS_Subset, FS_CardinalityType
  <2>2. {t, u} \subseteq empty
    OBVIOUS
  <2>3. Cardinality({t, u}) <= Cardinality(empty)
    BY <2>1, <2>2, FS_Subset
  <2>4. t # u => Cardinality({t, u}) = 2
    <3>1. IsFiniteSet({t}) /\ Cardinality({t}) = 1
      BY FS_Singleton
    <3>2. {t} \cup {u} = {t, u}
      OBVIOUS
    <3>3. t # u => Cardinality({t} \cup {u}) = Cardinality({t}) + 1
      BY <3>1, FS_AddElement, Zenon
    <3>4. QED
      BY <3>1, <3>2, <3>3
  <2>5. QED
    BY <2>1, <2>3, <2>4
<1>3. ASSUME NEW t \in Tensors, NEW u \in Tensors, <<t, u>> \in order
      PROVE  SpanLE(span[t], span[u]) /\ ~SpanLE(span[u], span[t])
  <2>1. /\ n(t) \in Nat /\ n(u) \in Nat /\ n(t) <= n(u)
        /\ t \notin empty => n(t) + 1 <= n(u)
    BY <1>3, StartsGrow
  <2>2. t # u
    BY <1>3 DEF Orders, StrictTotal
  <2>3. /\ span[t] = <<n(t), IF t \in empty THEN n(t) ELSE n(t) + 1>>
        /\ span[u] = <<n(u), IF u \in empty THEN n(u) ELSE n(u) + 1>>
    BY <1>1
  <2>4. t \notin empty \/ u \notin empty
    BY <1>2, <2>2
  <2> HIDE DEF n, span
  <2>5. CASE t \notin empty
    BY <2>1, <2>3, <2>5 DEF SpanLE
  <2>6. CASE t \in empty /\ u \notin empty
    BY <2>1, <2>3, <2>6 DEF SpanLE
  <2>7. QED
    BY <2>4, <2>5, <2>6
<1>4. QED
  BY <1>3 DEF Determined, span

-----------------------------------------------------------------------------
(* The invariant.  Besides a coherent header it takes that the offsets give *)
(* the order away, that some tensor is encrypted (else any master key       *)
(* opens), and that the signing key can be decoded; and it takes all three  *)
(* of an opened object too, since WriteBack makes the file from it.         *)

Reopens(order, span, c) ==
    /\ Determined(order, span)
    /\ Secret(c) # {}
    /\ c.sign \notin BadSignKeys

KeysInv ==
    /\ HeaderInv
    /\ disk # None /\ disk.crypto # None => Reopens(disk.order, disk.span, disk.crypto)
    /\ obj # None /\ obj.crypto # None => Reopens(obj.order, obj.span, obj.crypto)

LEMMA ReopensSame ==
    ASSUME NEW order, NEW span, NEW c, NEW d, Reopens(order, span, c),
           \A t \in Tensors : c.wrapped[t] # None => d.wrapped[t] # None,
           d.sign \notin BadSignKeys
    PROVE  Reopens(order, span, d)
BY DEF Reopens, Secret

(* A header all of whose DEKs are wrapped by one key and that is signed     *)
(* over the only order the parser finds opens for the two keys it names.    *)
LEMMA KeysInvImplies == KeysInv => NamedKeysOpen
<1> SUFFICES ASSUME KeysInv, disk # None, disk.crypto # None,
                    NEW parsed \in Parses(disk.span), NEW ek \in EncKeys, NEW sk \in SignKeys
             PROVE  Opens(disk, parsed, ek, sk) <=>
                       disk.crypto.policy /\ ek = disk.crypto.enc /\ sk = disk.crypto.sign
  BY DEF NamedKeysOpen
<1> DEFINE h == disk.crypto
<1>1. /\ \A t \in Secret(h) : h.wrapped[t].by = h.enc
      /\ h.sig = [by |-> h.sign, over |-> Body(disk.order, disk.span, h)]
      /\ Determined(disk.order, disk.span) /\ Secret(h) # {} /\ h.sign \notin BadSignKeys
  BY DEF KeysInv, HeaderInv, HeaderCoherent, Reopens
<1>2. disk.order \in Orders
  BY DEF KeysInv, HeaderInv, TypeInv, TypeOK, Files
<1>3. parsed = disk.order
  BY <1>1, <1>2, ParseUnique
<1> DEFINE body == Body(disk.order, disk.span, h)
<1> HIDE DEF h, body
<1>4. h.sig = [by |-> sk, over |-> body] <=> sk = h.sign
  BY <1>1 DEF body
<1>5. Opens(disk, parsed, ek, sk) <=>
        /\ sk \notin BadSignKeys
        /\ h.sig = [by |-> sk, over |-> body]
        /\ h.policy
        /\ \A t \in Secret(h) : h.wrapped[t].by = ek
  BY <1>3 DEF Opens, h, body
<1>6. (\A t \in Secret(h) : h.wrapped[t].by = ek) <=> ek = h.enc
  BY <1>1
<1>7. QED
  BY <1>1, <1>4, <1>5, <1>6 DEF h

(* A rewrap changes no DEK, encrypts nothing new and drops the buffers it   *)
(* does not keep.                                                           *)
LEMMA WithNewKeyWhole ==
    ASSUME NEW c \in Cryptos, NEW ek \in EncKeys,
           \A t \in Tensors : c.wrapped[t] # None => c.ctx[t] = c.wrapped[t].dek
    PROVE  /\ WithNewKey(c, Secret(c), ek) \in Cryptos
           /\ \A t \in Tensors :
                 /\ WithNewKey(c, Secret(c), ek).wrapped[t] # None <=> c.wrapped[t] # None
                 /\ WithNewKey(c, Secret(c), ek).buf[t] \in {None, c.buf[t]}
<1>1. Secret(c) \in SUBSET Secret(c)
  OBVIOUS
<1>2. WithNewKey(c, Secret(c), ek) \in Cryptos
  BY <1>1, WithNewKeyType, Zenon
<1>3. \A t \in Tensors :
         /\ WithNewKey(c, Secret(c), ek).wrapped[t] # None <=> c.wrapped[t] # None
         /\ c.wrapped[t] # None =>
               WithNewKey(c, Secret(c), ek).wrapped[t].dek = c.wrapped[t].dek
         /\ WithNewKey(c, Secret(c), ek).buf[t] \in {None, c.buf[t]}
  BY <1>1, WithNewKeyKeepsDeks, Zenon
<1>4. QED
  BY <1>2, <1>3, Zenon

LEMMA KeysInvStep ==
    ASSUME KeepOnError = FALSE, MaxEmpty <= 1, KeysInv, [Next]_vars
    PROVE  KeysInv'
<1>t. TypeInv /\ HeaderInv /\ HeaderInv'
  BY HeaderInvStep DEF KeysInv, HeaderInv
<1>1. ASSUME NEW S \in SUBSET Tensors, NEW empty \in SUBSET Tensors,
             NEW ek \in EncKeys, NEW sk \in SignKeys, NEW policy \in BOOLEAN,
             NEW order \in Orders, Save(S, ek, sk, policy, order, empty)
      PROVE  KeysInv'
  <2>1. obj' = obj
    BY <1>1 DEF Save
  <2>2. CASE S # {} /\ sk \in BadSignKeys
    BY <1>1, <1>t, <2>1, <2>2 DEF Save, KeysInv
  <2>3. CASE ~(S # {} /\ sk \in BadSignKeys)
    <3>1. disk' = FileOf(S, ek, sk, policy, order, empty, saves + 1)
      BY <1>1, <2>3, Zenon DEF Save
    <3>2. Determined(order, Layout(order, empty))
      <4>1. Cardinality(empty) <= MaxEmpty
        BY <1>1 DEF Save
      <4>2. Cardinality(empty) \in Nat
        BY ConstantsOK, FS_Subset, FS_CardinalityType
      <4>3. Cardinality(empty) <= 1
        BY <4>1, <4>2, ConstantsOK
      <4>4. QED
        BY <4>3, LayoutDetermined
    <3> DEFINE span == Layout(order, empty)
               c    == [enc |-> ek, sign |-> sk, policy |-> policy,
                        wrapped |-> WrapAll(S, saves + 1, ek)]
               h    == GenerateMetadata(order, span, c, sk)
    <3>3. /\ disk'.order = order /\ disk'.span = span
          /\ disk'.crypto = IF S = {} THEN None ELSE h
      BY <3>1 DEF FileOf
    <3>4. h.sign = sk /\ h.wrapped = WrapAll(S, saves + 1, ek)
      BY DEF GenerateMetadata
    <3> HIDE DEF h, span
    <3>5. ASSUME S # {} PROVE Reopens(order, span, h)
      <4>1. PICK t \in S : TRUE
        BY <3>5
      <4>2. h.wrapped[t] = [dek |-> <<t, saves + 1>>, by |-> ek]
        BY <3>4, <4>1 DEF WrapAll
      <4>3. saves + 1 \in 1 .. MaxSaves
        BY <1>1, <1>t, ConstantsOK DEF Save, TypeInv, TypeOK
      <4>4. h.wrapped[t] # None
        BY <4>1, <4>2, <4>3, NoneOK DEF Deks, Values
      <4>5. sk \notin BadSignKeys
        BY <2>3, <3>5
      <4>6. QED
        BY <3>2, <3>4, <4>1, <4>4, <4>5 DEF Reopens, Secret, span
    <3>6. QED
      BY <1>t, <2>1, <3>3, <3>5 DEF KeysInv
  <2>4. QED
    BY <2>2, <2>3
<1>2. ASSUME NEW t \in Tensors, DamageBlock(t) PROVE KeysInv'
  <2>1. disk \in Files /\ disk # None
    BY <1>2, <1>t DEF DamageBlock, TypeInv, TypeOK
  <2>2. disk'.crypto = disk.crypto /\ disk'.order = disk.order /\ disk'.span = disk.span
    BY <1>2, <2>1 DEF DamageBlock, Files
  <2>3. obj' = obj
    BY <1>2 DEF DamageBlock
  <2>4. QED
    BY <1>t, <2>1, <2>2, <2>3 DEF KeysInv
<1>3. ASSUME NEW ek \in EncKeys, NEW sk \in SignKeys, Open(ek, sk) PROVE KeysInv'
  <2> DEFINE o(parsed, c) == [order |-> parsed, span |-> disk.span, ver |-> disk.ver,
                              blocks |-> disk.blocks, crypto |-> c]
  <2>1. PICK parsed \in Parses(disk.span) :
          \/ obj' = None
          \/ obj' = o(parsed, None)
          \/ /\ disk.crypto # None /\ Opens(disk, parsed, ek, sk)
             /\ obj' = o(parsed, CryptoOf(disk.crypto, ek, sk))
    BY <1>3 DEF Open
  <2>2. disk' = disk /\ disk # None /\ disk \in Files
    BY <1>3, <1>t DEF Open, TypeInv, TypeOK
  <2>3. ASSUME disk.crypto # None, Opens(disk, parsed, ek, sk)
        PROVE  Reopens(parsed, disk.span, CryptoOf(disk.crypto, ek, sk))
    <3>1. Reopens(disk.order, disk.span, disk.crypto)
      BY <2>2, <2>3 DEF KeysInv
    <3>2. parsed = disk.order
      BY <2>2, <3>1, ParseUnique DEF Files, Reopens
    <3>3. /\ CryptoOf(disk.crypto, ek, sk).wrapped = disk.crypto.wrapped
          /\ CryptoOf(disk.crypto, ek, sk).sign = sk
      BY DEF CryptoOf
    <3>4. sk \notin BadSignKeys
      BY <2>3 DEF Opens
    <3>5. QED
      BY <3>1, <3>2, <3>3, <3>4, ReopensSame
  <2>4. obj' # None /\ obj'.crypto # None => Reopens(obj'.order, obj'.span, obj'.crypto)
    BY <2>1, <2>3
  <2>5. QED
    BY <1>t, <2>2, <2>4 DEF KeysInv
<1>4. ASSUME disk' = disk, obj' = None \/ obj' = obj PROVE KeysInv'
  BY <1>t, <1>4 DEF KeysInv
<1>5. CASE Close
  BY <1>4, <1>5 DEF Close
<1>6. ASSUME NEW t \in Tensors, Tensor(t) \/ Iter(t) PROVE KeysInv'
  <2>1. CASE obj' = obj
    BY <1>4, <1>6, <2>1 DEF Tensor, Iter
  <2>2. CASE obj' # obj
    <3>1. PICK v : /\ obj' = [obj EXCEPT !.crypto.buf[t] = v]
                   /\ obj # None /\ obj.crypto # None /\ disk' = disk
      BY <1>6, <2>2 DEF Tensor, Iter, ReadPlain, ReadSecret, ReadDamaged, Encrypted
    <3>2. obj \in Objects /\ obj.crypto \in Cryptos
      BY <1>t, <3>1 DEF TypeInv, TypeOK, Objects
    <3>3. /\ obj'.crypto.wrapped = obj.crypto.wrapped /\ obj'.crypto.sign = obj.crypto.sign
          /\ obj'.order = obj.order /\ obj'.span = obj.span
      BY <3>1, <3>2 DEF Objects, Cryptos
    <3>4. Reopens(obj'.order, obj'.span, obj'.crypto)
      BY <3>1, <3>3 DEF KeysInv, Reopens, Secret
    <3>5. QED
      BY <1>t, <3>1, <3>4 DEF KeysInv
  <2>3. QED
    BY <2>1, <2>2
<1>7. CASE RewrapPlain
  BY <1>4, <1>7 DEF RewrapPlain
<1>8. ASSUME NEW c, FailRewrap(c) PROVE KeysInv'
  BY <1>4, <1>8 DEF FailRewrap
<1>9. ASSUME NEW ek \in EncKeys, NEW sk \in SignKeys, NEW policy \in BOOLEAN,
             Rewrap(ek, sk, policy)
      PROVE  KeysInv'
  <2> DEFINE S == Secret(obj.crypto)
             n == WithNewKey(obj.crypto, S, ek)
             m == [n EXCEPT !.enc = ek, !.sign = sk, !.signer = sk, !.sig = None,
                            !.policy = policy]
  <2>1. /\ obj \in Objects /\ obj.crypto \in Cryptos /\ obj # None /\ obj.crypto # None
        /\ \A t \in Tensors : obj.crypto.wrapped[t] # None =>
              obj.crypto.ctx[t] = obj.crypto.wrapped[t].dek
    BY <1>9, <1>t DEF Rewrap, TypeInv, TypeOK, ContextsPrepared, Objects
  <2>2. obj' = [obj EXCEPT !.crypto = m] /\ disk' = disk /\ sk \notin BadSignKeys
    BY <1>9 DEF Rewrap
  <2>3. n \in Cryptos
    BY <2>1, WithNewKeyWhole, Zenon
  <2>4. \A t \in Tensors : obj.crypto.wrapped[t] # None => n.wrapped[t] # None
    BY <2>1, WithNewKeyWhole, Zenon
  <2> HIDE DEF n
  <2>5. m.wrapped = n.wrapped /\ m.sign = sk
    BY <2>3 DEF Cryptos
  <2> HIDE DEF m
  <2>6. obj'.crypto = m /\ obj'.order = obj.order /\ obj'.span = obj.span
    BY <2>1, <2>2 DEF Objects
  <2>7. Reopens(obj.order, obj.span, obj.crypto)
    BY <2>1 DEF KeysInv
  <2>8. Reopens(obj'.order, obj'.span, obj'.crypto)
    BY <2>2, <2>4, <2>5, <2>6, <2>7, ReopensSame
  <2>9. QED
    BY <1>t, <2>2, <2>8 DEF KeysInv
<1>10. ASSUME NEW ek \in EncKeys, RewrapOtherAlgorithm(ek) PROVE KeysInv'
  BY <1>8, <1>10 DEF RewrapOtherAlgorithm
<1>11. ASSUME NEW S \in SUBSET Tensors, NEW ek \in EncKeys, RewrapInterrupted(S, ek)
       PROVE  KeysInv'
  BY <1>8, <1>11 DEF RewrapInterrupted
<1>12. ASSUME NEW ek \in EncKeys, NEW sk \in SignKeys, RewrapBadSigner(ek, sk)
       PROVE  KeysInv'
  BY <1>8, <1>12 DEF RewrapBadSigner
<1>13. CASE WriteBack
  <2> DEFINE h == GenerateMetadata(obj.order, obj.span, obj.crypto, obj.crypto.signer)
  <2>1. obj \in Objects /\ obj.crypto \in Cryptos /\ obj # None /\ obj.crypto # None
    BY <1>13, <1>t DEF WriteBack, TypeInv, TypeOK, Objects
  <2>2. /\ disk' = [order |-> obj.order, span |-> obj.span, ver |-> obj.ver,
                    blocks |-> obj.blocks, crypto |-> h]
        /\ obj' = [obj EXCEPT !.crypto.sig = h.sig]
    BY <1>13 DEF WriteBack
  <2>3. h.wrapped = obj.crypto.wrapped /\ h.sign = obj.crypto.sign
    BY DEF GenerateMetadata
  <2> HIDE DEF h
  <2>4. Reopens(obj.order, obj.span, obj.crypto)
    BY <2>1 DEF KeysInv
  <2>5. Reopens(disk'.order, disk'.span, disk'.crypto)
    BY <2>2, <2>3, <2>4 DEF Reopens, Secret
  <2>6. /\ obj'.order = obj.order /\ obj'.span = obj.span
        /\ obj'.crypto.wrapped = obj.crypto.wrapped /\ obj'.crypto.sign = obj.crypto.sign
    BY <2>1, <2>2 DEF Objects, Cryptos
  <2>7. Reopens(obj'.order, obj'.span, obj'.crypto)
    BY <2>4, <2>6 DEF Reopens, Secret
  <2>8. QED
    BY <1>t, <2>5, <2>7 DEF KeysInv
<1>14. CASE WriteBackSigned
  BY <1>4, <1>14 DEF WriteBackSigned
<1>15. CASE UNCHANGED vars
  BY <1>4, <1>15 DEF vars
<1>16. QED
  BY <1>1, <1>2, <1>3, <1>5, <1>6, <1>7, <1>9, <1>10, <1>11, <1>12, <1>13, <1>14, <1>15
     DEF Next

(* If callers drop an object whose rewrap failed and no file has two empty  *)
(* tensors, the file opens for exactly the two keys its header names        *)
(* (from_header_with_config), after any number of saves and rewraps.        *)
THEOREM NamedKeysCorrect ==
    ASSUME KeepOnError = FALSE, MaxEmpty <= 1
    PROVE  Spec => []NamedKeysOpen
<1>1. Init => KeysInv
  BY TypeInvInit DEF Init, KeysInv, HeaderInv, HeaderCoherent
<1>2. KeysInv /\ [Next]_vars => KeysInv'
  BY KeysInvStep
<1>3. QED
  BY <1>1, <1>2, KeysInvImplies, PTL DEF Spec

-----------------------------------------------------------------------------
(* The refinement.  Two facts join the invariants: a block that was damaged *)
(* when the file was opened has no buffer of decrypted data, and there are  *)
(* keys if there is a file.                                                 *)

BuffersIntact ==
    obj # None /\ obj.crypto # None =>
        \A t \in Tensors : obj.crypto.buf[t] # None => obj.blocks[t] # Garbage

KeysExist == disk # None \/ obj # None => EncKeys # {} /\ SignKeys # {}

PromiseInv == KeysInv /\ DataInv /\ BuffersIntact /\ KeysExist

(* A block that decrypts was not damaged.                                   *)
LEMMA CanDecryptIntact ==
    ASSUME BuffersIntact, obj # None, NEW t \in Tensors, Encrypted(obj, t), CanDecrypt(obj, t)
    PROVE  obj.blocks[t] # Garbage
BY DEF BuffersIntact, Encrypted, CanDecrypt

LEMMA BuffersIntactStep ==
    ASSUME TypeInv, KeepOnError = FALSE, BuffersIntact, [Next]_vars
    PROVE  BuffersIntact'
<1>1. ASSUME obj' = obj \/ obj' = None PROVE BuffersIntact'
  BY <1>1 DEF BuffersIntact
<1>2. ASSUME NEW ek \in EncKeys, NEW sk \in SignKeys, Open(ek, sk) PROVE BuffersIntact'
  <2>1. PICK parsed :
          \/ obj' = None
          \/ obj' = [order |-> parsed, span |-> disk.span, ver |-> disk.ver,
                     blocks |-> disk.blocks, crypto |-> None]
          \/ obj' = [order |-> parsed, span |-> disk.span, ver |-> disk.ver,
                     blocks |-> disk.blocks, crypto |-> CryptoOf(disk.crypto, ek, sk)]
    BY <1>2 DEF Open
  <2>2. \A t \in Tensors : CryptoOf(disk.crypto, ek, sk).buf[t] = None
    BY DEF CryptoOf
  <2>3. QED
    BY <2>1, <2>2 DEF BuffersIntact
<1>3. ASSUME NEW t \in Tensors, Tensor(t) \/ Iter(t) PROVE BuffersIntact'
  <2>1. CASE obj' = obj
    BY <1>1, <2>1
  <2>2. CASE obj' # obj
    <3>1. PICK v : /\ obj' = [obj EXCEPT !.crypto.buf[t] = v]
                   /\ obj # None /\ Encrypted(obj, t) /\ CanDecrypt(obj, t)
      BY <1>3, <2>2 DEF Tensor, Iter, ReadPlain, ReadSecret, ReadDamaged
    <3>2. obj \in Objects /\ obj.crypto # None /\ obj.crypto \in Cryptos
      BY <3>1 DEF TypeInv, TypeOK, Objects, Encrypted
    <3>3. /\ obj'.blocks = obj.blocks
          /\ \A u \in Tensors \ {t} : obj'.crypto.buf[u] = obj.crypto.buf[u]
      BY <3>1, <3>2 DEF Objects, Cryptos
    <3>4. obj.blocks[t] # Garbage
      BY <3>1, CanDecryptIntact
    <3>5. ASSUME NEW u \in Tensors, obj'.crypto.buf[u] # None
          PROVE  obj'.blocks[u] # Garbage
      <4>1. CASE u = t
        BY <3>3, <3>4, <4>1
      <4>2. CASE u # t
        BY <3>1, <3>2, <3>3, <3>5, <4>2 DEF BuffersIntact
      <4>3. QED
        BY <4>1, <4>2
    <3>6. QED
      BY <3>5 DEF BuffersIntact
  <2>3. QED
    BY <2>1, <2>2
<1>4. ASSUME NEW c, FailRewrap(c) PROVE BuffersIntact'
  BY <1>1, <1>4 DEF FailRewrap
<1>5. ASSUME NEW ek \in EncKeys, NEW sk \in SignKeys, NEW policy \in BOOLEAN,
             Rewrap(ek, sk, policy)
      PROVE  BuffersIntact'
  <2> DEFINE n == WithNewKey(obj.crypto, Secret(obj.crypto), ek)
             m == [n EXCEPT !.enc = ek, !.sign = sk, !.signer = sk, !.sig = None,
                            !.policy = policy]
  <2>1. obj \in Objects /\ obj.crypto \in Cryptos /\ obj # None /\ obj.crypto # None
        /\ \A t \in Tensors : obj.crypto.wrapped[t] # None =>
              obj.crypto.ctx[t] = obj.crypto.wrapped[t].dek
    BY <1>5 DEF Rewrap, TypeInv, TypeOK, ContextsPrepared, Objects
  <2>2. obj' = [obj EXCEPT !.crypto = m]
    BY <1>5 DEF Rewrap
  <2>3. n \in Cryptos
    BY <2>1, WithNewKeyWhole, Zenon
  <2>4. \A t \in Tensors : n.buf[t] \in {None, obj.crypto.buf[t]}
    BY <2>1, WithNewKeyWhole, Zenon
  <2> HIDE DEF n
  <2>5. m.buf = n.buf
    BY <2>3 DEF Cryptos
  <2> HIDE DEF m
  <2>6. obj'.crypto = m /\ obj'.blocks = obj.blocks
    BY <2>1, <2>2 DEF Objects
  <2>7. QED
    BY <2>1, <2>4, <2>5, <2>6 DEF BuffersIntact
<1>6. CASE WriteBack
  <2>1. /\ obj \in Objects /\ obj.crypto \in Cryptos /\ obj # None /\ obj.crypto # None
    BY <1>6 DEF WriteBack, TypeInv, TypeOK, Objects
  <2>2. PICK s : obj' = [obj EXCEPT !.crypto.sig = s]
    BY <1>6 DEF WriteBack
  <2>3. obj'.blocks = obj.blocks /\ obj'.crypto.buf = obj.crypto.buf
    BY <2>1, <2>2 DEF Objects, Cryptos
  <2>4. QED
    BY <2>1, <2>3 DEF BuffersIntact
<1>7. ASSUME NEW S, NEW ek, NEW sk, NEW policy, NEW order, NEW empty,
             Save(S, ek, sk, policy, order, empty)
      PROVE  obj' = obj
  BY <1>7 DEF Save
<1>8. ASSUME NEW t \in Tensors, DamageBlock(t) PROVE obj' = obj
  BY <1>8 DEF DamageBlock
<1>9. ASSUME Close \/ RewrapPlain \/ WriteBackSigned PROVE obj' = obj \/ obj' = None
  BY <1>9 DEF Close, RewrapPlain, WriteBackSigned
<1>10. ASSUME NEW ek \in EncKeys, RewrapOtherAlgorithm(ek) PROVE BuffersIntact'
  BY <1>4, <1>10 DEF RewrapOtherAlgorithm
<1>11. ASSUME NEW S \in SUBSET Tensors, NEW ek \in EncKeys, RewrapInterrupted(S, ek)
       PROVE  BuffersIntact'
  BY <1>4, <1>11 DEF RewrapInterrupted
<1>12. ASSUME NEW ek \in EncKeys, NEW sk \in SignKeys, RewrapBadSigner(ek, sk)
       PROVE  BuffersIntact'
  BY <1>4, <1>12 DEF RewrapBadSigner
<1>13. CASE UNCHANGED vars
  BY <1>1, <1>13 DEF vars
<1>14. QED
  BY <1>1, <1>2, <1>3, <1>5, <1>6, <1>7, <1>8, <1>9, <1>10, <1>11, <1>12, <1>13 DEF Next

LEMMA KeysExistStep == KeysExist /\ [Next]_vars => KeysExist'
<1> SUFFICES ASSUME KeysExist, [Next]_vars, EncKeys = {} \/ SignKeys = {}
             PROVE  disk' = None /\ obj' = None
  BY DEF KeysExist
<1>1. disk = None /\ obj = None
  BY DEF KeysExist
<1>2. ~Close /\ ~RewrapPlain /\ ~WriteBack /\ ~WriteBackSigned
  BY <1>1 DEF Close, RewrapPlain, WriteBack, WriteBackSigned
<1>3. \A t \in Tensors : ~DamageBlock(t) /\ ~Tensor(t) /\ ~Iter(t)
  BY <1>1 DEF DamageBlock, Tensor, Iter
<1>4. \A S \in SUBSET Tensors, ek \in EncKeys :
         ~RewrapOtherAlgorithm(ek) /\ ~RewrapInterrupted(S, ek)
  BY <1>1 DEF RewrapOtherAlgorithm, RewrapInterrupted
<1>5. QED
  BY <1>1, <1>2, <1>3, <1>4 DEF Next, vars

LEMMA PromiseInvStep ==
    ASSUME KeepOnError = FALSE, MaxEmpty <= 1, PromiseInv, [Next]_vars
    PROVE  PromiseInv'
<1>1. KeysInv' /\ DataInv' /\ KeysExist'
  BY KeysInvStep, DataInvStep, KeysExistStep DEF PromiseInv
<1>2. BuffersIntact'
  BY BuffersIntactStep DEF PromiseInv, DataInv
<1>3. QED
  BY <1>1, <1>2 DEF PromiseInv

LEMMA PromiseInvInit == Init => PromiseInv
<1>1. Init => KeysInv
  BY TypeInvInit DEF Init, KeysInv, HeaderInv, HeaderCoherent
<1>2. QED
  BY <1>1, DataInvInit DEF Init, PromiseInv, BuffersIntact, KeysExist

(* EncryptedFile sees of a file and of an object the same: the generation,  *)
(* the damaged and the secret tensors, the keys and the policy.             *)
LEMMA SameAbstract ==
    ASSUME NEW f, NEW g, g.ver = f.ver, g.blocks = f.blocks,
           f.crypto = None <=> g.crypto = None,
           f.crypto # None =>
              /\ \A t \in Tensors : g.crypto.wrapped[t] # None <=> f.crypto.wrapped[t] # None
              /\ g.crypto.enc = f.crypto.enc /\ g.crypto.sign = f.crypto.sign
              /\ g.crypto.policy = f.crypto.policy
    PROVE  Abstract(g) = Abstract(f)
<1>1. Damaged(g) = Damaged(f)
  BY DEF Damaged
<1>2. CASE f.crypto = None
  BY <1>1, <1>2 DEF Abstract
<1>3. CASE f.crypto # None
  <2>1. Secret(g.crypto) = Secret(f.crypto)
    BY <1>3 DEF Secret
  <2>2. g.crypto # None
    BY <1>3
  <2>3. /\ (IF g.crypto = None THEN {} ELSE Secret(g.crypto)) =
                (IF f.crypto = None THEN {} ELSE Secret(f.crypto))
        /\ (IF g.crypto = None THEN None ELSE <<g.crypto.enc, g.crypto.sign>>) =
                (IF f.crypto = None THEN None ELSE <<f.crypto.enc, f.crypto.sign>>)
        /\ (g.crypto = None \/ g.crypto.policy) = (f.crypto = None \/ f.crypto.policy)
    BY <1>3, <2>1, <2>2
  <2>4. QED
    BY <1>1, <2>3 DEF Abstract
<1>4. QED
  BY <1>2, <1>3

(* What EncryptedFile sees of a save                                        *)
Saved(S, ek, sk, policy, v) ==
    [ver |-> v, secret |-> S, damaged |-> {}, keys |-> IF S = {} THEN None ELSE <<ek, sk>>,
     policy |-> S = {} \/ policy]

LEMMA SavedAbstract ==
    ASSUME NEW S \in SUBSET Tensors, NEW ek \in EncKeys, NEW sk \in SignKeys,
           NEW policy \in BOOLEAN, NEW order \in Orders, NEW empty \in SUBSET Tensors,
           NEW v \in 1 .. MaxSaves
    PROVE  Abstract(FileOf(S, ek, sk, policy, order, empty, v)) = Saved(S, ek, sk, policy, v)
<1> DEFINE f == FileOf(S, ek, sk, policy, order, empty, v)
           c == [enc |-> ek, sign |-> sk, policy |-> policy, wrapped |-> WrapAll(S, v, ek)]
           h == GenerateMetadata(order, Layout(order, empty), c, sk)
<1>1. /\ f.ver = v /\ f.blocks = EncryptTensors(S, v)
      /\ f.crypto = IF S = {} THEN None ELSE h
  BY DEF FileOf
<1>2. h.enc = ek /\ h.sign = sk /\ h.policy = policy /\ h.wrapped = WrapAll(S, v, ek)
  BY DEF GenerateMetadata
<1>3. WrapAll(S, v, ek) \in [Tensors -> Wrapped]
  BY DEF WrapAll, Wrapped, Deks, Values
<1>4. h # None
  <2>1. Body(order, Layout(order, empty), c) \in Bodies
    BY <1>3, LayoutType DEF Body, Bodies
  <2>2. h \in Headers
    BY <1>3, <2>1 DEF GenerateMetadata, Headers, Signatures
  <2>3. QED
    BY <2>2, NoneOK
<1> HIDE DEF f, h
<1>5. Damaged(f) = {}
  <2>1. ASSUME NEW t \in Tensors PROVE f.blocks[t] # Garbage
    <3>1. f.blocks[t] = [dek |-> IF t \in S THEN <<t, v>> ELSE None, val |-> <<t, v>>]
      BY <1>1 DEF EncryptTensors
    <3>2. f.blocks[t] \in [dek : Deks \cup {None}, val : Values]
      BY <3>1 DEF Deks, Values
    <3>3. QED
      BY <3>2, NoneOK
  <2>2. QED
    BY <2>1 DEF Damaged
<1>6. CASE S = {}
  <2>1. f.crypto = None
    BY <1>1, <1>6
  <2>2. QED
    BY <1>1, <1>5, <1>6, <2>1 DEF Abstract, Saved, f
<1>7. CASE S # {}
  <2>1. f.crypto = h /\ f.crypto # None
    BY <1>1, <1>4, <1>7
  <2>2. Secret(h) = S
    <3>1. ASSUME NEW t \in S PROVE h.wrapped[t] # None
      <4>1. h.wrapped[t] = [dek |-> <<t, v>>, by |-> ek]
        BY <1>2 DEF WrapAll
      <4>2. h.wrapped[t] \in [dek : Deks, by : EncKeys]
        BY <4>1 DEF Deks, Values
      <4>3. QED
        BY <4>2, NoneOK
    <3>2. \A t \in Tensors \ S : h.wrapped[t] = None
      BY <1>2 DEF WrapAll
    <3>3. QED
      BY <3>1, <3>2 DEF Secret
  <2>3. (f.crypto = None \/ f.crypto.policy) = (S = {} \/ policy)
    BY <1>2, <1>7, <2>1
  <2>4. /\ (IF f.crypto = None THEN {} ELSE Secret(f.crypto)) = S
        /\ (IF f.crypto = None THEN None ELSE <<f.crypto.enc, f.crypto.sign>>) = <<ek, sk>>
        /\ (IF S = {} THEN None ELSE <<ek, sk>>) = <<ek, sk>>
    BY <1>2, <1>7, <2>1, <2>2
  <2>5. Abstract(f) = [ver |-> v, secret |-> S, damaged |-> {},
                       keys |-> IF S = {} THEN None ELSE <<ek, sk>>,
                       policy |-> S = {} \/ policy]
    BY <1>1, <1>5, <2>3, <2>4 DEF Abstract
  <2>6. QED
    BY <2>5 DEF Saved, f
<1>8. QED
  BY <1>6, <1>7

LEMMA AbstractType ==
    ASSUME NEW f \in Files \cup Objects
    PROVE  /\ Abstract(f) \in Promise!Files /\ Abstract(f) # None
           /\ \A b \in BOOLEAN : [of |-> Abstract(f), rewrapped |-> b] # None
           /\ Abstract(f).keys = None <=> f.crypto = None
<1>1. f.ver \in 1 .. MaxSaves /\ (f.crypto = None \/ f.crypto.policy) \in BOOLEAN
  BY DEF Files, Objects
<1>2. /\ Damaged(f) \in SUBSET Tensors
      /\ (IF f.crypto = None THEN {} ELSE Secret(f.crypto)) \in SUBSET Tensors
  BY DEF Damaged, Secret
<1>3. f.crypto # None => <<f.crypto.enc, f.crypto.sign>> \in EncKeys \X SignKeys
  BY DEF Files, Objects, Headers, Cryptos
<1>4. (IF f.crypto = None THEN None ELSE <<f.crypto.enc, f.crypto.sign>>)
         \in Promise!Keys \cup {None}
  BY <1>3 DEF Promise!Keys
<1>5. Abstract(f) \in Promise!Files
  BY <1>1, <1>2, <1>4 DEF Abstract, Promise!Files
<1>6. \A b \in BOOLEAN : [of |-> Abstract(f), rewrapped |-> b] \in Promise!Handles
  BY <1>5 DEF Promise!Handles
<1>7. Abstract(f).keys = None <=> f.crypto = None
  BY <1>3, NoneOK DEF Abstract
<1>8. QED
  BY <1>5, <1>6, <1>7, PromiseOK

(* The file and the handle of EncryptedFile after a step                    *)
LEMMA AbstractNext ==
    /\ AbstractFile' = IF disk' = None THEN None ELSE Abstract(disk')
    /\ AbstractHandle' = IF obj' = None THEN None
                         ELSE [of |-> Abstract(obj'),
                               rewrapped |-> obj'.crypto # None /\ obj'.crypto.sig = None]
BY DEF AbstractFile, AbstractHandle

promised == <<AbstractFile, AbstractHandle, saves, reply>>

(* serialize *)
LEMMA SavePromised ==
    ASSUME PromiseInv, NEW S \in SUBSET Tensors, NEW empty \in SUBSET Tensors,
           NEW ek \in EncKeys, NEW sk \in SignKeys, NEW policy \in BOOLEAN,
           NEW order \in Orders, Save(S, ek, sk, policy, order, empty)
    PROVE  Promise!Next
<1>1. saves < MaxSaves /\ AbstractHandle' = AbstractHandle
  BY DEF Save, AbstractHandle
<1>2. <<ek, sk>> \in Promise!Keys
  BY DEF Promise!Keys
<1>3. Promise!Save(S, <<ek, sk>>, policy)
  <2>1. CASE S # {} /\ sk \in BadSignKeys
    <3>1. reply' = Promise!Said("save", FALSE) /\ AbstractFile' = AbstractFile /\ saves' = saves
      BY <2>1 DEF Save, AbstractFile, Said, Promise!Said
    <3>2. QED
      BY <1>1, <3>1 DEF Promise!Save
  <2>2. CASE ~(S # {} /\ sk \in BadSignKeys)
    <3>1. /\ disk' = FileOf(S, ek, sk, policy, order, empty, saves + 1)
          /\ saves' = saves + 1
          /\ reply' = Promise!Said("save", TRUE)
      BY <2>2, Zenon DEF Save, Said, Promise!Said
    <3>2. saves + 1 \in 1 .. MaxSaves
      BY <1>1, ConstantsOK DEF PromiseInv, DataInv, TypeInv, TypeOK
    <3>3. disk' # None
      BY <3>1, <3>2, FileOfType, NoneOK
    <3> DEFINE f == FileOf(S, ek, sk, policy, order, empty, saves + 1)
    <3>4. Abstract(f) = [ver |-> saves + 1, secret |-> S, damaged |-> {},
                         keys |-> IF S = {} THEN None ELSE <<ek, sk>>,
                         policy |-> S = {} \/ policy]
      <4>1. Abstract(f) = Saved(S, ek, sk, policy, saves + 1)
        BY <3>2, SavedAbstract
      <4>2. QED
        BY <4>1 DEF Saved
    <3> HIDE DEF f
    <3>5. AbstractFile' = [ver |-> saves + 1, secret |-> S, damaged |-> {},
                           keys |-> IF S = {} THEN None ELSE <<ek, sk>>,
                           policy |-> S = {} \/ policy]
      <4>1. AbstractFile' = Abstract(disk') /\ disk' = f
        BY <3>1, <3>3, AbstractNext DEF f
      <4>2. QED
        BY <3>4, <4>1
    <3>6. QED
      BY <1>1, <3>1, <3>5 DEF Promise!Save
  <2>3. QED
    BY <2>1, <2>2
<1>4. QED
  BY <1>2, <1>3 DEF Promise!Next

LEMMA DamagePromised ==
    ASSUME PromiseInv, NEW t \in Tensors, DamageBlock(t)
    PROVE  Promise!Next
<1>1. disk \in Files /\ disk # None /\ disk' = [disk EXCEPT !.blocks[t] = Garbage]
  BY DEF DamageBlock, PromiseInv, DataInv, TypeInv, TypeOK
<1>2. /\ disk'.ver = disk.ver /\ disk'.crypto = disk.crypto /\ disk' \in Files
      /\ disk'.blocks = [disk.blocks EXCEPT ![t] = Garbage]
  BY <1>1 DEF Files, Blocks
<1>3. Damaged(disk') = Damaged(disk) \cup {t}
  BY <1>1, <1>2 DEF Damaged, Files
<1>4. disk' # None
  BY <1>2, NoneOK
<1>5. AbstractFile = Abstract(disk) /\ AbstractFile' = Abstract(disk')
  BY <1>1, <1>4, AbstractNext DEF AbstractFile
<1>6. Abstract(disk') = [Abstract(disk) EXCEPT !.damaged = @ \cup {t}]
  BY <1>2, <1>3 DEF Abstract
<1>7. Abstract(disk) # None
  BY <1>1, AbstractType
<1>8. AbstractHandle' = AbstractHandle /\ saves' = saves /\ reply' = Promise!Said("none", TRUE)
  BY DEF DamageBlock, AbstractHandle, Said, Promise!Said
<1>9. Promise!Damage(t)
  BY <1>5, <1>6, <1>7, <1>8 DEF Promise!Damage
<1>10. QED
  BY <1>9 DEF Promise!Next

(* What PromiseInv says of the file and of an opened object                 *)
LEMMA Held ==
    ASSUME PromiseInv
    PROVE  /\ disk # None => disk \in Files /\ AbstractFile = Abstract(disk)
           /\ obj # None =>
                /\ obj \in Objects /\ BlocksMatch(obj) /\ BuffersMatch(obj)
                /\ AbstractHandle = [of |-> Abstract(obj),
                                     rewrapped |-> obj.crypto # None /\ obj.crypto.sig = None]
                /\ AbstractHandle # None
           /\ obj # None /\ obj.crypto # None =>
                /\ obj.crypto \in Cryptos
                /\ \A t \in Tensors : obj.crypto.wrapped[t] # None =>
                      obj.crypto.ctx[t] = obj.crypto.wrapped[t].dek
<1>1. TypeOK /\ ContextsPrepared
  BY DEF PromiseInv, DataInv, TypeInv
<1>2. ASSUME obj # None PROVE AbstractHandle # None
  <2>1. obj \in Objects /\ (obj.crypto # None /\ obj.crypto.sig = None) \in BOOLEAN
    BY <1>1, <1>2 DEF TypeOK
  <2>2. QED
    BY <1>2, <2>1, AbstractType DEF AbstractHandle
<1>3. QED
  BY <1>1, <1>2 DEF PromiseInv, DataInv, TypeOK, ContextsPrepared, AbstractFile, AbstractHandle, Objects

(* deserialize                                                              *)
LEMMA OpenPromised ==
    ASSUME PromiseInv, NEW ek \in EncKeys, NEW sk \in SignKeys, Open(ek, sk)
    PROVE  Promise!Next
<1> DEFINE o(parsed, c) == [order |-> parsed, span |-> disk.span, ver |-> disk.ver,
                            blocks |-> disk.blocks, crypto |-> c]
           F == Abstract(disk)
<1>1. disk # None /\ disk \in Files /\ disk' = disk /\ saves' = saves
  BY Held DEF Open
<1>2. PICK parsed \in Parses(disk.span) :
        LET ok == disk.crypto = None \/ Opens(disk, parsed, ek, sk)
        IN  /\ obj' = IF ~ok THEN None
                      ELSE IF disk.crypto = None THEN o(parsed, None)
                      ELSE o(parsed, CryptoOf(disk.crypto, ek, sk))
            /\ reply' = Said("open", ok)
  BY DEF Open
<1>3. /\ AbstractFile = F /\ AbstractFile' = F
      /\ F # None /\ (F.keys = None <=> disk.crypto = None)
  BY <1>1, AbstractType DEF AbstractFile
<1>4. disk.crypto # None => F.keys = <<disk.crypto.enc, disk.crypto.sign>> /\ F.policy = disk.crypto.policy
  BY <1>1 DEF Abstract, Files, Headers
<1>5. disk.crypto # None =>
         (Opens(disk, parsed, ek, sk) <=> F.keys = <<ek, sk>> /\ F.policy)
  <2>1. NamedKeysOpen
    BY KeysInvImplies DEF PromiseInv
  <2>2. disk.crypto # None =>
          (Opens(disk, parsed, ek, sk) <=>
              disk.crypto.policy /\ ek = disk.crypto.enc /\ sk = disk.crypto.sign)
    BY <1>1, <2>1 DEF NamedKeysOpen
  <2>3. QED
    BY <1>4, <2>2
<1>6. <<ek, sk>> \in Promise!Keys
  BY DEF Promise!Keys
<1>7. CASE disk.crypto = None
  <2>1. obj' = o(parsed, None) /\ reply' = Said("open", TRUE)
    BY <1>2, <1>7
  <2>2. o(parsed, None) \in Objects
    BY <1>1, <1>2, <1>7 DEF Files, Objects, Parses
  <2>3. obj' # None /\ obj'.crypto = None /\ obj'.ver = disk.ver /\ obj'.blocks = disk.blocks
    BY <2>1, <2>2, NoneOK
  <2>4. Abstract(obj') = F
    BY <1>7, <2>3, SameAbstract
  <2>5. AbstractHandle' = [of |-> F, rewrapped |-> FALSE]
    BY <2>3, <2>4, AbstractNext
  <2>6. Promise!Open(<<ek, sk>>)
    BY <1>1, <1>3, <1>7, <2>1, <2>5 DEF Promise!Open, Promise!Said, Said
  <2>7. QED
    BY <1>6, <2>6 DEF Promise!Next
<1>8. CASE disk.crypto # None /\ Opens(disk, parsed, ek, sk)
  <2> DEFINE c == CryptoOf(disk.crypto, ek, sk)
  <2>1. obj' = o(parsed, c) /\ reply' = Said("open", TRUE)
    BY <1>2, <1>8
  <2>2. disk.crypto \in Headers
    BY <1>1, <1>8 DEF Files
  <2>3. c \in Cryptos
    BY <2>2, CryptoOfType
  <2>4. /\ c.wrapped = disk.crypto.wrapped /\ c.enc = ek /\ c.sign = sk
        /\ c.policy = disk.crypto.policy /\ c.sig = disk.crypto.sig
    BY DEF CryptoOf
  <2> HIDE DEF c
  <2>5. o(parsed, c) \in Objects
    BY <1>1, <1>2, <2>3 DEF Files, Objects, Parses
  <2>6. obj' # None /\ obj'.crypto = c /\ obj'.ver = disk.ver /\ obj'.blocks = disk.blocks
    BY <2>1, <2>5, NoneOK
  <2>7. c # None /\ c.sig # None
    BY <2>2, <2>3, <2>4, NoneOK DEF Headers
  <2>8. ek = disk.crypto.enc /\ sk = disk.crypto.sign
    BY <1>4, <1>5, <1>8
  <2>9. Abstract(obj') = F
    BY <1>8, <2>4, <2>6, <2>7, <2>8, SameAbstract
  <2>10. AbstractHandle' = [of |-> F, rewrapped |-> FALSE]
    BY <2>6, <2>7, <2>9, AbstractNext
  <2>11. F.keys = <<ek, sk>> /\ F.policy
    BY <1>5, <1>8
  <2>12. Promise!Open(<<ek, sk>>)
    BY <1>1, <1>3, <2>1, <2>10, <2>11 DEF Promise!Open, Promise!Said, Said
  <2>13. QED
    BY <1>6, <2>12 DEF Promise!Next
<1>9. CASE disk.crypto # None /\ ~Opens(disk, parsed, ek, sk)
  <2>1. obj' = None /\ reply' = Said("open", FALSE)
    BY <1>2, <1>9
  <2>2. AbstractHandle' = None
    BY <2>1, AbstractNext
  <2>3. ~(F.keys = None \/ (F.keys = <<ek, sk>> /\ F.policy))
    BY <1>3, <1>5, <1>9
  <2>4. Promise!Open(<<ek, sk>>)
    BY <1>1, <1>3, <2>1, <2>2, <2>3 DEF Promise!Open, Promise!Said, Said
  <2>5. QED
    BY <1>6, <2>4 DEF Promise!Next
<1>10. QED
  BY <1>7, <1>8, <1>9

(* tensor and iter                                                          *)
LEMMA ReadPromised ==
    ASSUME PromiseInv, NEW call \in {"tensor", "iter"}, NEW t \in Tensors, obj # None,
           \/ ReadPlain(call, t)
           \/ ReadSecret(call, t)
           \/ call = "tensor" /\ ReadDamaged(t) /\ reply' = Got(call, t, FALSE, None)
           \/ call = "iter" /\ ReadDamaged(t) /\ reply' = Got(call, t, TRUE, Raw(obj, t)),
           UNCHANGED <<disk, saves>>
    PROVE  Promise!Next
<1> DEFINE H == Abstract(obj)
<1>1. /\ obj \in Objects /\ BlocksMatch(obj) /\ BuffersMatch(obj)
      /\ AbstractHandle = [of |-> H, rewrapped |-> obj.crypto # None /\ obj.crypto.sig = None]
      /\ AbstractHandle # None
  BY Held
<1>2. /\ H.ver = obj.ver /\ H.damaged = Damaged(obj)
      /\ t \in H.damaged <=> obj.blocks[t] = Garbage
      /\ t \in H.secret <=> Encrypted(obj, t)
  BY DEF Abstract, Damaged, Secret, Encrypted
<1>3. obj.blocks[t] # Garbage => obj.blocks[t].val = <<t, obj.ver>>
  BY <1>1 DEF BlocksMatch
<1>4. AbstractFile' = AbstractFile /\ saves' = saves
  BY DEF AbstractFile
<1>5. ReadSecret(call, t) \/ obj' = obj
  BY DEF ReadPlain, ReadDamaged
<1>6. ReadSecret(call, t) => Decrypted(obj, t) = <<t, obj.ver>>
  <2>1. CASE obj.crypto.buf[t] = None
    BY <1>3, <2>1 DEF ReadSecret, CanDecrypt, Decrypted
  <2>2. CASE obj.crypto.buf[t] # None
    BY <1>1, <2>2 DEF ReadSecret, Encrypted, Decrypted, BuffersMatch
  <2>3. QED
    BY <2>1, <2>2
<1>7. AbstractHandle' = AbstractHandle
  <2>1. CASE obj' = obj
    BY <2>1 DEF AbstractHandle
  <2>2. CASE ReadSecret(call, t)
    <3>1. obj' = [obj EXCEPT !.crypto.buf[t] = <<t, obj.ver>>] /\ obj.crypto # None
      BY <1>6, <2>2 DEF ReadSecret, Encrypted
    <3>2. obj.crypto \in Cryptos
      BY <3>1, Held
    <3>3. <<t, obj.ver>> \in Values
      BY <1>1 DEF Objects, Values
    <3> DEFINE c == [obj.crypto EXCEPT !.buf[t] = <<t, obj.ver>>]
    <3>4. c \in Cryptos
      BY <3>2, <3>3 DEF Cryptos
    <3>5. /\ c.wrapped = obj.crypto.wrapped /\ c.enc = obj.crypto.enc
          /\ c.sign = obj.crypto.sign /\ c.policy = obj.crypto.policy
          /\ c.sig = obj.crypto.sig
      BY <3>2 DEF Cryptos
    <3>6. obj' = [obj EXCEPT !.crypto = c]
      BY <1>1, <3>1, <3>2 DEF Objects, Cryptos
    <3> HIDE DEF c
    <3>7. obj' \in Objects /\ obj'.ver = obj.ver /\ obj'.blocks = obj.blocks /\ obj'.crypto = c
      BY <1>1, <3>4, <3>6 DEF Objects
    <3>8. obj' # None /\ c # None
      BY <3>4, <3>7, NoneOK
    <3>9. Abstract(obj') = H
      BY <3>1, <3>5, <3>7, <3>8, SameAbstract
    <3>10. QED
      BY <1>1, <3>1, <3>5, <3>7, <3>8, <3>9, AbstractNext
  <2>3. QED
    BY <1>5, <2>1, <2>2
<1>8. /\ Encrypted(obj, t) /\ ~CanDecrypt(obj, t) => obj.blocks[t] = Garbage
      /\ Encrypted(obj, t) /\ CanDecrypt(obj, t) => obj.blocks[t] # Garbage
  <2>1. ASSUME Encrypted(obj, t), obj.blocks[t] # Garbage PROVE CanDecrypt(obj, t)
    <3>1. obj.crypto # None /\ obj.crypto.wrapped[t] # None
      BY <2>1 DEF Encrypted
    <3>2. obj.crypto.ctx[t] = obj.crypto.wrapped[t].dek
      BY <3>1, Held
    <3>3. obj.blocks[t].dek = obj.crypto.wrapped[t].dek
      BY <1>1, <2>1, <3>1 DEF BlocksMatch, Secret
    <3>4. QED
      BY <2>1, <3>2, <3>3 DEF CanDecrypt
  <2>2. QED
    BY <2>1, CanDecryptIntact DEF PromiseInv
<1>9. Promise!Read(call, t)
  <2>1. ASSUME reply' = IF t \notin H.damaged THEN Got(call, t, TRUE, <<t, H.ver>>)
                        ELSE IF call = "tensor" /\ t \in H.secret
                        THEN Got(call, t, FALSE, None) ELSE Got(call, t, TRUE, Garbage)
        PROVE  Promise!Read(call, t)
    <3>1. AbstractHandle.of = H
      BY <1>1
    <3>2. QED
      BY <1>1, <1>4, <1>7, <2>1, <3>1 DEF Promise!Read, Promise!Answer, Got
  <2>2. CASE ReadPlain(call, t)
    <3>1. reply' = Got(call, t, TRUE, Raw(obj, t)) /\ ~Encrypted(obj, t)
      BY <2>2 DEF ReadPlain
    <3>2. Raw(obj, t) = IF t \in H.damaged THEN Garbage ELSE <<t, H.ver>>
      BY <1>2, <1>3, <3>1 DEF Raw
    <3>3. QED
      BY <1>2, <2>1, <3>1, <3>2
  <2>3. CASE ReadSecret(call, t)
    <3>1. reply' = Got(call, t, TRUE, <<t, obj.ver>>) /\ t \notin H.damaged
      BY <1>2, <1>6, <1>8, <2>3 DEF ReadSecret
    <3>2. QED
      BY <1>2, <2>1, <3>1
  <2>4. CASE ReadDamaged(t)
    <3>1. t \in H.damaged /\ t \in H.secret /\ Raw(obj, t) = Garbage
      BY <1>2, <1>8, <2>4 DEF ReadDamaged, Raw
    <3>2. CASE reply' = Got(call, t, FALSE, None) /\ call = "tensor"
      BY <2>1, <3>1, <3>2
    <3>3. CASE reply' = Got(call, t, TRUE, Garbage) /\ call = "iter"
      BY <2>1, <3>1, <3>3
    <3>4. CASE ReadPlain(call, t) \/ ReadSecret(call, t)
      BY <2>2, <2>3, <3>4
    <3>5. QED
      BY <3>1, <3>2, <3>3, <3>4
  <2>5. QED
    BY <2>2, <2>3, <2>4
<1>10. QED
  BY <1>9 DEF Promise!Next

(* What EXCEPT makes of a handle and of a file                              *)
LEMMA HandleExcept ==
    ASSUME NEW h, NEW b, NEW x
    PROVE  [[of |-> h, rewrapped |-> b] EXCEPT !.rewrapped = x] = [of |-> h, rewrapped |-> x]
OBVIOUS

Content(v, d, s, k, b) == [ver |-> v, damaged |-> d, secret |-> s, keys |-> k, policy |-> b]
Rekeyed(f, k, b)       == [f EXCEPT !.keys = k, !.policy = b]

LEMMA RekeyedContent ==
    ASSUME NEW v, NEW d, NEW s, NEW k, NEW b, NEW x, NEW y
    PROVE  Rekeyed(Content(v, d, s, k, b), x, y) = Content(v, d, s, x, y)
<1>1. [Content(v, d, s, k, b) EXCEPT !.keys = x] = Content(v, d, s, x, b)
  BY DEF Content
<1>2. [Content(v, d, s, x, b) EXCEPT !.policy = y] = Content(v, d, s, x, y)
  BY DEF Content
<1>3. Rekeyed(Content(v, d, s, k, b), x, y) =
         [[Content(v, d, s, k, b) EXCEPT !.keys = x] EXCEPT !.policy = y]
  BY DEF Rekeyed
<1>4. QED
  BY <1>1, <1>2, <1>3

(* A rewrap that succeeds                                                   *)
LEMMA RewrapPromised ==
    ASSUME PromiseInv, NEW ek \in EncKeys, NEW sk \in SignKeys, NEW policy \in BOOLEAN,
           Rewrap(ek, sk, policy)
    PROVE  Promise!Next
<1> DEFINE H == Abstract(obj)
           n == WithNewKey(obj.crypto, Secret(obj.crypto), ek)
           m == [n EXCEPT !.enc = ek, !.sign = sk, !.signer = sk, !.sig = None,
                          !.policy = policy]
           g == [obj EXCEPT !.crypto = m]
<1>1. /\ obj # None /\ obj.crypto # None /\ obj \in Objects /\ obj.crypto \in Cryptos
      /\ AbstractHandle = [of |-> H, rewrapped |-> obj.crypto # None /\ obj.crypto.sig = None]
      /\ AbstractHandle # None
      /\ \A t \in Tensors : obj.crypto.wrapped[t] # None =>
            obj.crypto.ctx[t] = obj.crypto.wrapped[t].dek
  BY Held DEF Rewrap
<1>2. /\ obj' = g /\ reply' = Promise!Said("rewrap", TRUE)
      /\ AbstractFile' = AbstractFile /\ saves' = saves
  BY DEF Rewrap, AbstractFile, Said, Promise!Said
<1>3. n \in Cryptos
  BY <1>1, WithNewKeyWhole, Zenon
<1>4. \A t \in Tensors : n.wrapped[t] # None <=> obj.crypto.wrapped[t] # None
  BY <1>1, WithNewKeyWhole, Zenon
<1> HIDE DEF n
<1>5. /\ m \in Cryptos /\ m.wrapped = n.wrapped /\ m.enc = ek /\ m.sign = sk
      /\ m.sig = None /\ m.policy = policy
  BY <1>3 DEF Cryptos
<1> HIDE DEF m
<1>6. g \in Objects /\ g.ver = obj.ver /\ g.blocks = obj.blocks /\ g.crypto = m
  BY <1>1, <1>5 DEF Objects
<1> HIDE DEF g
<1>7. g # None /\ m # None
  BY <1>5, <1>6, NoneOK
<1>8. Abstract(g) = [H EXCEPT !.keys = <<ek, sk>>, !.policy = policy]
  <2>1. Damaged(g) = Damaged(obj) /\ Secret(g.crypto) = Secret(obj.crypto)
    BY <1>4, <1>5, <1>6 DEF Damaged, Secret
  <2>2. (g.crypto = None \/ g.crypto.policy) = policy
    BY <1>5, <1>6, <1>7
  <2>3. /\ (IF g.crypto = None THEN {} ELSE Secret(g.crypto)) = Secret(obj.crypto)
        /\ (IF obj.crypto = None THEN {} ELSE Secret(obj.crypto)) = Secret(obj.crypto)
        /\ (IF g.crypto = None THEN None ELSE <<g.crypto.enc, g.crypto.sign>>) = <<ek, sk>>
    BY <1>1, <1>5, <1>6, <1>7, <2>1
  <2>4. Abstract(g) = Content(obj.ver, Damaged(obj), Secret(obj.crypto), <<ek, sk>>, policy)
    BY <1>6, <2>1, <2>2, <2>3 DEF Abstract, Content
  <2>5. \E k, b : H = Content(obj.ver, Damaged(obj), Secret(obj.crypto), k, b)
    BY <2>3 DEF Abstract, Content
  <2> HIDE DEF H
  <2>6. Abstract(g) = Rekeyed(H, <<ek, sk>>, policy)
    BY <2>4, <2>5, RekeyedContent
  <2>7. QED
    BY <2>6 DEF Rekeyed
<1>9. AbstractHandle' = [of |-> Abstract(g), rewrapped |-> TRUE]
  BY <1>2, <1>5, <1>6, <1>7, AbstractNext
<1>10. H.keys # None /\ AbstractHandle.of = H
  BY <1>1, AbstractType
<1>11. <<ek, sk>> \in Promise!Keys
  BY DEF Promise!Keys
<1> HIDE DEF H
<1>12. Promise!Rewrap(<<ek, sk>>, policy)
  BY <1>1, <1>2, <1>8, <1>9, <1>10 DEF Promise!Rewrap
<1>13. QED
  BY <1>11, <1>12 DEF Promise!Next

(* One that fails drops the object, or had a plain one.                     *)
LEMMA FailPromised ==
    ASSUME PromiseInv, KeepOnError = FALSE, obj # None,
           RewrapPlain \/ (obj.crypto # None /\ \E c : FailRewrap(c))
    PROVE  Promise!Next
<1> DEFINE H == Abstract(obj)
<1>1. /\ obj \in Objects /\ AbstractHandle # None /\ AbstractHandle.of = H
      /\ (H.keys = None <=> obj.crypto = None)
  BY Held, AbstractType
<1>2. /\ reply' = Promise!Said("rewrap", FALSE)
      /\ AbstractFile' = AbstractFile /\ saves' = saves
      /\ AbstractHandle' = IF obj.crypto = None THEN AbstractHandle ELSE None
  BY DEF RewrapPlain, FailRewrap, AbstractFile, AbstractHandle, Said, Promise!Said
<1>3. PICK ek \in EncKeys, sk \in SignKeys : TRUE
  BY DEF PromiseInv, KeysExist
<1>4. <<ek, sk>> \in Promise!Keys
  BY DEF Promise!Keys
<1>5. Promise!Rewrap(<<ek, sk>>, TRUE)
  BY <1>1, <1>2 DEF Promise!Rewrap
<1>6. QED
  BY <1>4, <1>5 DEF Promise!Next

(* generate_metadata and the write                                          *)
LEMMA WritePromised ==
    ASSUME PromiseInv, WriteBack
    PROVE  Promise!Next
<1> DEFINE H == Abstract(obj)
           h == GenerateMetadata(obj.order, obj.span, obj.crypto, obj.crypto.signer)
           f == [order |-> obj.order, span |-> obj.span, ver |-> obj.ver,
                 blocks |-> obj.blocks, crypto |-> h]
           c == [obj.crypto EXCEPT !.sig = h.sig]
           g == [obj EXCEPT !.crypto = c]
<1>1. /\ obj # None /\ obj.crypto # None /\ obj.crypto.sig = None
      /\ obj \in Objects /\ obj.crypto \in Cryptos
      /\ AbstractHandle = [of |-> H, rewrapped |-> TRUE] /\ AbstractHandle # None
  BY Held DEF WriteBack
<1>2. /\ disk' = f /\ obj' = [obj EXCEPT !.crypto.sig = h.sig]
      /\ reply' = Promise!Said("write", TRUE) /\ saves' = saves
  BY DEF WriteBack, Said, Promise!Said
<1>3. obj' = g
  BY <1>1, <1>2 DEF Objects, Cryptos
<1>4. /\ h.wrapped = obj.crypto.wrapped /\ h.enc = obj.crypto.enc /\ h.sign = obj.crypto.sign
      /\ h.policy = obj.crypto.policy /\ h \in Headers
  <2>1. Body(obj.order, obj.span, obj.crypto) \in Bodies
    BY <1>1 DEF Body, Bodies, Objects, Cryptos
  <2>2. QED
    BY <1>1, <2>1 DEF GenerateMetadata, Headers, Signatures, Cryptos
<1>5. h # None /\ h.sig \in Signatures /\ h.sig # None
  BY <1>4, NoneOK DEF Headers
<1> HIDE DEF h
<1>6. f \in Files
  BY <1>1, <1>4 DEF Files, Objects
<1>7. /\ c \in Cryptos /\ c.wrapped = obj.crypto.wrapped /\ c.enc = obj.crypto.enc
      /\ c.sign = obj.crypto.sign /\ c.policy = obj.crypto.policy /\ c.sig = h.sig
  BY <1>1, <1>5 DEF Cryptos
<1> HIDE DEF c
<1>8. g \in Objects /\ g.ver = obj.ver /\ g.blocks = obj.blocks /\ g.crypto = c
  BY <1>1, <1>7 DEF Objects
<1>9. c # None /\ f # None /\ g # None
  BY <1>6, <1>7, <1>8, NoneOK
<1>10. f.ver = obj.ver /\ f.blocks = obj.blocks /\ f.crypto = h
  OBVIOUS
<1> HIDE DEF f, g
<1>11. Abstract(f) = H
  BY <1>1, <1>4, <1>5, <1>10, SameAbstract
<1>12. Abstract(g) = H
  BY <1>1, <1>7, <1>8, <1>9, SameAbstract
<1>13. /\ AbstractFile' = H
       /\ AbstractHandle' = [of |-> H, rewrapped |-> FALSE]
  BY <1>2, <1>3, <1>5, <1>7, <1>8, <1>9, <1>11, <1>12, AbstractNext
<1>14. H.keys # None
  BY <1>1, AbstractType
<1> HIDE DEF H
<1>15. Promise!WriteBack
  <2>1. AbstractHandle.of = H /\ AbstractHandle.rewrapped = TRUE
    BY <1>1
  <2>2. [AbstractHandle EXCEPT !.rewrapped = FALSE] = [of |-> H, rewrapped |-> FALSE]
    <3>1. AbstractHandle = [of |-> H, rewrapped |-> TRUE]
      BY <1>1
    <3>2. QED
      BY <3>1, HandleExcept
  <2>3. QED
    BY <1>1, <1>2, <1>13, <1>14, <2>1, <2>2 DEF Promise!WriteBack
<1>16. QED
  BY <1>15 DEF Promise!Next

LEMMA WriteSignedPromised ==
    ASSUME PromiseInv, WriteBackSigned
    PROVE  Promise!Next
<1> DEFINE H == Abstract(obj)
<1>1. /\ obj # None /\ obj.crypto # None /\ obj.crypto.sig # None /\ obj \in Objects
      /\ AbstractHandle = [of |-> H, rewrapped |-> FALSE] /\ AbstractHandle # None
  BY Held DEF WriteBackSigned
<1>2. /\ reply' = Promise!Said("write", FALSE) /\ saves' = saves
      /\ AbstractFile' = AbstractFile /\ AbstractHandle' = AbstractHandle
  BY DEF WriteBackSigned, AbstractFile, AbstractHandle, Said, Promise!Said
<1>3. H.keys # None
  BY <1>1, AbstractType
<1> HIDE DEF H
<1>4. Promise!WriteBack
  BY <1>1, <1>2, <1>3 DEF Promise!WriteBack
<1>5. QED
  BY <1>4 DEF Promise!Next

LEMMA PromiseStep ==
    ASSUME KeepOnError = FALSE, PromiseInv, [Next]_vars
    PROVE  [Promise!Next]_promised
<1>1. ASSUME NEW S \in SUBSET Tensors, NEW empty \in SUBSET Tensors,
             NEW ek \in EncKeys, NEW sk \in SignKeys, NEW policy \in BOOLEAN,
             NEW order \in Orders, Save(S, ek, sk, policy, order, empty)
      PROVE  Promise!Next
  BY <1>1, SavePromised
<1>2. ASSUME NEW t \in Tensors, DamageBlock(t) PROVE Promise!Next
  BY <1>2, DamagePromised
<1>3. ASSUME NEW ek \in EncKeys, NEW sk \in SignKeys, Open(ek, sk) PROVE Promise!Next
  BY <1>3, OpenPromised
<1>4. CASE Close
  <2>1. AbstractHandle # None /\ AbstractHandle' = None
    BY <1>4, Held, AbstractNext DEF Close
  <2>2. AbstractFile' = AbstractFile /\ saves' = saves /\ reply' = Promise!Said("none", TRUE)
    BY <1>4 DEF Close, AbstractFile, Said, Promise!Said
  <2>3. QED
    BY <2>1, <2>2 DEF Promise!Close, Promise!Next
<1>5. ASSUME NEW t \in Tensors, Tensor(t) PROVE Promise!Next
  BY <1>5, ReadPromised DEF Tensor
<1>6. ASSUME NEW t \in Tensors, Iter(t) PROVE Promise!Next
  BY <1>6, ReadPromised DEF Iter
<1>7. CASE RewrapPlain
  BY <1>7, FailPromised DEF RewrapPlain
<1>8. ASSUME NEW ek \in EncKeys, NEW sk \in SignKeys, NEW policy \in BOOLEAN,
             Rewrap(ek, sk, policy)
      PROVE  Promise!Next
  BY <1>8, RewrapPromised
<1>9. ASSUME NEW ek \in EncKeys, RewrapOtherAlgorithm(ek) PROVE Promise!Next
  BY <1>9, FailPromised DEF RewrapOtherAlgorithm
<1>10. ASSUME NEW S \in SUBSET Tensors, NEW ek \in EncKeys, RewrapInterrupted(S, ek)
       PROVE  Promise!Next
  BY <1>10, FailPromised DEF RewrapInterrupted
<1>11. ASSUME NEW ek \in EncKeys, NEW sk \in SignKeys, RewrapBadSigner(ek, sk)
       PROVE  Promise!Next
  BY <1>11, FailPromised DEF RewrapBadSigner
<1>12. CASE WriteBack
  BY <1>12, WritePromised
<1>13. CASE WriteBackSigned
  BY <1>13, WriteSignedPromised
<1>14. CASE UNCHANGED vars
  BY <1>14 DEF vars, promised, AbstractFile, AbstractHandle
<1>15. QED
  BY <1>1, <1>2, <1>3, <1>4, <1>5, <1>6, <1>7, <1>8, <1>9, <1>10, <1>11, <1>12, <1>13, <1>14
     DEF Next

(* Under the same two conditions every call does to the file, the handle    *)
(* and its answer what EncryptedFile promises: the code implements it.      *)
THEOREM KeepsPromiseCorrect ==
    ASSUME KeepOnError = FALSE, MaxEmpty <= 1
    PROVE  Spec => KeepsPromise
<1>1. Init => Promise!Init
  BY DEF Init, Promise!Init, AbstractFile, AbstractHandle, Said, Promise!Said
<1>2. PromiseInv /\ [Next]_vars => PromiseInv'
  BY PromiseInvStep
<1>3. PromiseInv /\ [Next]_vars => [Promise!Next]_promised
  BY PromiseStep
<1>4. QED
  BY <1>1, <1>2, <1>3, PromiseInvInit, PTL DEF Spec, KeepsPromise, Promise!Spec, promised

=============================================================================
