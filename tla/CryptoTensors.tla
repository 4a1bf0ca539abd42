--------------------------- MODULE CryptoTensors ---------------------------
(***************************************************************************)
(* The life of one encrypted safetensors file: it is written, opened,      *)
(* read tensor by tensor, rewrapped for other keys and written back.       *)
(*                                                                         *)
(* The module models CryptoTensors (cryptotensors.rs) and the functions of *)
(* tensor.rs that drive it: serialize, deserialize, tensor, iter, and the  *)
(* three steps of rewrap_header (parse, CryptoTensors::rewrap,             *)
(* generate_metadata).  Which key a lookup resolves to is left to the      *)
(* caller of an action, which covers every content of the key registry;    *)
(* Registry models the lookup itself.                                      *)
(*                                                                         *)
(* Cryptography is perfect: a key is its name, a wrapped data key (DEK)    *)
(* opens under the master key it was wrapped by and no other, a block of   *)
(* ciphertext under the DEK it was made with, a signature verifies for the *)
(* key that made it over the very header it was made for.                  *)
(***************************************************************************)
EXTENDS Naturals, FiniteSets

CONSTANTS
    Tensors,        \* the tensor names of the model
    EncKeys,        \* master keys (JWK kty oct)
    SignKeys,       \* signing key pairs (JWK kty okp)
    BadSignKeys,    \* those whose "d" or "x" is not base64: validate accepts
                    \* them, HeaderSigner::new does not
    AlgName,        \* the "alg" string each master key carries
    MaxSaves,       \* bound: how often the file is written from plaintext
    MaxEmpty,       \* bound: zero-size tensors in one file
    KeepOnError,    \* does a caller go on using a CryptoTensors whose rewrap
                    \* failed?  rewrap_header drops it; nothing forces a
                    \* direct caller of the public method to
    None, Garbage   \* no value; bytes of a damaged block

ASSUME ConstantsOK ==
    /\ IsFiniteSet(Tensors)
    /\ BadSignKeys \subseteq SignKeys
    /\ MaxSaves \in Nat /\ MaxEmpty \in Nat
    /\ KeepOnError \in BOOLEAN
    /\ None # Garbage

VARIABLES
    disk,    \* the file, None before the first save
    obj,     \* the opened file: SafeTensors and its CryptoTensors, or None
    saves,   \* how many saves happened; numbers the generations of contents
    reply    \* what the last call returned

vars == <<disk, obj, saves, reply>>

-----------------------------------------------------------------------------
(* Data.  The plaintext tensor t was given in save v is <<t, v>>, and so is *)
(* the random data key save v drew for it.                                  *)

Values == Tensors \X (1 .. MaxSaves)
Deks   == Values
Blocks == [dek : Deks \cup {None}, val : Values] \cup {Garbage}

(* enc_algo: the alg of some key, as it is spelt there. *)
AlgNames == {AlgName[ek] : ek \in EncKeys}

(* SingleCryptor's serialized fields: the DEK under the master key. *)
Wrapped == [dek : Deks, by : EncKeys] \cup {None}

(* A serialized header is the sequence of its tensors, kept as the strict   *)
(* total order it puts them in, with their data_offsets.                    *)
StrictTotal(r) ==
    /\ \A t \in Tensors : <<t, t>> \notin r
    /\ \A t, u \in Tensors : t # u => (<<t, u>> \in r <=> <<u, t>> \notin r)
    /\ \A t, u, w \in Tensors : <<t, u>> \in r /\ <<u, w>> \in r => <<t, w>> \in r

Orders == {r \in SUBSET (Tensors \X Tensors) : StrictTotal(r)}

Spans == [Tensors -> Nat \X Nat]

(* What a signature covers: Metadata without __signature__. *)
Body(order, span, c) ==
    [order |-> order, span |-> span, enc |-> c.enc, sign |-> c.sign,
     policy |-> c.policy, wrapped |-> c.wrapped]

Bodies == [order : Orders, span : Spans, enc : EncKeys, sign : SignKeys,
           policy : BOOLEAN, wrapped : [Tensors -> Wrapped]]

Signatures == [by : SignKeys, over : Bodies]

(* __crypto_keys__, __encryption__, __policy__ and __signature__; a policy  *)
(* is what it evaluates to.                                                 *)
Headers == [enc : EncKeys, sign : SignKeys, policy : BOOLEAN,
            wrapped : [Tensors -> Wrapped], sig : Signatures]

Files == [order : Orders, span : Spans, ver : 1 .. MaxSaves,
          blocks : [Tensors -> Blocks], crypto : Headers \cup {None}]

(* struct CryptoTensors: per tensor the wrapped DEK, the prepared context   *)
(* and the buffer of decrypted data; the keys; the signer and its signature *)
Cryptos == [wrapped : [Tensors -> Wrapped], ctx : [Tensors -> Deks \cup {None}],
            buf : [Tensors -> Values \cup {None}], algo : AlgNames,
            enc : EncKeys, sign : SignKeys, policy : BOOLEAN,
            signer : SignKeys, sig : Signatures \cup {None}]

Objects == [order : Orders, span : Spans, ver : 1 .. MaxSaves,
            blocks : [Tensors -> Blocks], crypto : Cryptos \cup {None}]

(* None and Garbage stand apart from everything they may be taken for. *)
ASSUME NoneOK ==
    /\ None \notin Files \cup Objects
    /\ None \notin Headers \cup Cryptos
    /\ None \notin [dek : Deks, by : EncKeys] \cup Values
    /\ None \notin Signatures \cup (EncKeys \X SignKeys)
    /\ Garbage \notin [dek : Deks \cup {None}, val : Values] \cup Values

Calls == {"none", "save", "open", "tensor", "iter", "rewrap", "write"}

Replies == [call : Calls, name : Tensors \cup {None}, ok : BOOLEAN,
            got : Values \cup {None, Garbage}]

Said(call, ok) == [call |-> call, name |-> None, ok |-> ok, got |-> None]

(* The encrypted tensors of a header or a CryptoTensors *)
Secret(c) == {t \in Tensors : c.wrapped[t] # None}

-----------------------------------------------------------------------------
(* serialize *)

(* prepare lays the tensors out in its order, without gaps.  One unit of    *)
(* length stands for every size but zero.                                   *)
Layout(order, empty) ==
    [t \in Tensors |->
        LET start == Cardinality({u \in Tensors \ empty : <<u, t>> \in order})
        IN  <<start, IF t \in empty THEN start ELSE start + 1>>]

(* SingleCryptor::encrypt for every selected tensor *)
EncryptTensors(S, v) ==
    [t \in Tensors |-> [dek |-> IF t \in S THEN <<t, v>> ELSE None, val |-> <<t, v>>]]

WrapAll(S, v, ek) ==
    [t \in Tensors |-> IF t \in S THEN [dek |-> <<t, v>>, by |-> ek] ELSE None]

(* generate_metadata: sign everything but the signature, then add it. *)
GenerateMetadata(order, span, c, signer) ==
    [enc |-> c.enc, sign |-> c.sign, policy |-> c.policy, wrapped |-> c.wrapped,
     sig |-> [by |-> signer, over |-> Body(order, span, c)]]

FileOf(S, ek, sk, policy, order, empty, v) ==
    LET span == Layout(order, empty)
        c    == [enc |-> ek, sign |-> sk, policy |-> policy,
                 wrapped |-> WrapAll(S, v, ek)]
    IN  [order |-> order, span |-> span, ver |-> v,
         blocks |-> EncryptTensors(S, v),
         crypto |-> IF S = {} THEN None ELSE GenerateMetadata(order, span, c, sk)]

(* serialize: prepare, from_serialize_config, encrypt_tensors,              *)
(* generate_metadata, then the write.  An empty selection gives a plain     *)
(* file; a signing key HeaderSigner::new cannot decode fails the call       *)
(* before anything is written.                                              *)
Save(S, ek, sk, policy, order, empty) ==
    /\ saves < MaxSaves
    /\ Cardinality(empty) <= MaxEmpty
    /\ IF S # {} /\ sk \in BadSignKeys
       THEN /\ reply' = Said("save", FALSE)
            /\ UNCHANGED <<disk, saves>>
       ELSE /\ disk' = FileOf(S, ek, sk, policy, order, empty, saves + 1)
            /\ saves' = saves + 1
            /\ reply' = Said("save", TRUE)
    /\ UNCHANGED obj

(* The environment: the bytes of a tensor that has some rot on disk. *)
DamageBlock(t) ==
    /\ disk # None
    /\ disk.span[t][1] < disk.span[t][2]
    /\ disk.blocks[t] # Garbage
    /\ disk' = [disk EXCEPT !.blocks[t] = Garbage]
    /\ reply' = Said("none", TRUE)
    /\ UNCHANGED <<obj, saves>>

-----------------------------------------------------------------------------
(* deserialize *)

(* Mutant: the end of the span is left out of the sort key. *)
SpanLEByStart(p, q) == p[1] <= q[1]

SpanLE(p, q) == p[1] < q[1] \/ (p[1] = q[1] /\ p[2] <= q[2])

(* TryFrom<HashMetadata>: the tensors come out of a HashMap, in any order,  *)
(* and are stably sorted by their offsets, so equal offsets stay in any     *)
(* order.                                                                   *)
Parses(span) ==
    {r \in Orders : \A t, u \in Tensors : <<t, u>> \in r => SpanLE(span[t], span[u])}

(* from_header_with_config, in its order: the signer is built from the      *)
(* resolved key, the header rebuilt in the parsed order is verified, the    *)
(* policy is evaluated, and every DEK is unwrapped.                         *)
Opens(f, parsed, ek, sk) ==
    /\ sk \notin BadSignKeys
    /\ f.crypto.sig = [by |-> sk, over |-> Body(parsed, f.span, f.crypto)]
    /\ f.crypto.policy
    /\ \A t \in Secret(f.crypto) : f.crypto.wrapped[t].by = ek

(* Mutant: the DEKs are not unwrapped into the contexts. *)
CryptoOfUnprepared(h, ek, sk) ==
    [wrapped |-> h.wrapped,
     ctx     |-> [t \in Tensors |-> None], buf |-> [t \in Tensors |-> None],
     algo    |-> AlgName[ek], enc |-> ek, sign |-> sk, policy |-> h.policy,
     signer  |-> sk, sig |-> h.sig]

(* The key material of the header is completed by the resolved key, whose   *)
(* "alg" replaces the header's and every cryptor's enc_algo.                *)
CryptoOf(h, ek, sk) ==
    [wrapped |-> h.wrapped,
     ctx     |-> [t \in Tensors |-> IF h.wrapped[t] = None THEN None ELSE h.wrapped[t].dek],
     buf     |-> [t \in Tensors |-> None],
     algo    |-> AlgName[ek], enc |-> ek, sign |-> sk, policy |-> h.policy,
     signer  |-> sk, sig |-> h.sig]

(* deserialize_with_config with keys that resolve to ek and sk *)
Open(ek, sk) ==
    /\ disk # None
    /\ \E parsed \in Parses(disk.span) :
         LET opened(c) == [order |-> parsed, span |-> disk.span, ver |-> disk.ver,
                           blocks |-> disk.blocks, crypto |-> c]
             ok == disk.crypto = None \/ Opens(disk, parsed, ek, sk)
         IN  /\ obj' = IF ~ok THEN None
                       ELSE IF disk.crypto = None THEN opened(None)
                       ELSE opened(CryptoOf(disk.crypto, ek, sk))
             /\ reply' = Said("open", ok)
    /\ UNCHANGED <<disk, saves>>

Close ==
    /\ obj # None
    /\ obj' = None
    /\ reply' = Said("none", TRUE)
    /\ UNCHANGED <<disk, saves>>

-----------------------------------------------------------------------------
(* Reading *)

Encrypted(o, t) == o.crypto # None /\ o.crypto.wrapped[t] # None

(* SingleCryptor::decrypt: the buffer filled by an earlier call, or an      *)
(* authenticated decryption of the block.                                   *)
CanDecrypt(o, t) ==
    \/ o.crypto.buf[t] # None
    \/ o.blocks[t] # Garbage /\ o.blocks[t].dek = o.crypto.ctx[t]

Decrypted(o, t) ==
    IF o.crypto.buf[t] # None THEN o.crypto.buf[t] ELSE o.blocks[t].val

(* The bytes of the block as they are: for a plain tensor its value, and    *)
(* for a block no key opens nothing but noise.                              *)
Raw(o, t) == IF Encrypted(o, t) \/ o.blocks[t] = Garbage THEN Garbage ELSE o.blocks[t].val

Got(call, t, ok, v) == [call |-> call, name |-> t, ok |-> ok, got |-> v]

(* silent_decrypt fills the buffer as it succeeds and leaves it when it     *)
(* fails; tensor passes the error on, iter and tensors answer with the raw  *)
(* bytes (unwrap_or).                                                       *)
ReadPlain(call, t) ==
    /\ ~Encrypted(obj, t)
    /\ reply' = Got(call, t, TRUE, Raw(obj, t))
    /\ UNCHANGED obj

ReadSecret(call, t) ==
    /\ Encrypted(obj, t)
    /\ CanDecrypt(obj, t)
    /\ reply' = Got(call, t, TRUE, Decrypted(obj, t))
    /\ obj' = [obj EXCEPT !.crypto.buf[t] = Decrypted(obj, t)]

ReadDamaged(t) ==
    /\ Encrypted(obj, t)
    /\ ~CanDecrypt(obj, t)
    /\ UNCHANGED obj

Tensor(t) ==
    /\ obj # None
    /\ \/ ReadPlain("tensor", t)
       \/ ReadSecret("tensor", t)
       \/ ReadDamaged(t) /\ reply' = Got("tensor", t, FALSE, None)
    /\ UNCHANGED <<disk, saves>>

(* One item of iter(); tensors() is the loop over all of them. *)
Iter(t) ==
    /\ obj # None
    /\ \/ ReadPlain("iter", t)
       \/ ReadSecret("iter", t)
       \/ ReadDamaged(t) /\ reply' = Got("iter", t, TRUE, Raw(obj, t))
    /\ UNCHANGED <<disk, saves>>

-----------------------------------------------------------------------------
(* Rewrapping *)

(* with_new_key compares the two "alg" strings. *)
SameAlgorithm(c, ek) == AlgName[ek] = c.algo

(* Mutant: another data key is wrapped, the data stays as it is. *)
WithNewKeyRedrawn(c, S, ek) ==
    [c EXCEPT !.wrapped = [t \in Tensors |->
                              IF t \in S THEN [dek |-> CHOOSE d \in Deks : d # c.ctx[t],
                                               by |-> ek] ELSE @[t]],
              !.buf     = [t \in Tensors |-> IF t \in S THEN None ELSE @[t]]]

(* Mutant: the new cryptor starts without a context. *)
WithNewKeyUnprepared(c, S, ek) ==
    [c EXCEPT !.wrapped = [t \in Tensors |->
                              IF t \in S THEN [dek |-> c.ctx[t], by |-> ek] ELSE @[t]],
              !.ctx     = [t \in Tensors |-> IF t \in S THEN None ELSE @[t]],
              !.buf     = [t \in Tensors |-> IF t \in S THEN None ELSE @[t]]]

(* with_new_key: the DEK of the prepared context goes under the new master  *)
(* key, the buffer is dropped.                                              *)
WithNewKey(c, S, ek) ==
    [c EXCEPT !.wrapped = [t \in Tensors |->
                              IF t \in S THEN [dek |-> c.ctx[t], by |-> ek] ELSE @[t]],
              !.buf     = [t \in Tensors |-> IF t \in S THEN None ELSE @[t]]]

(* A failing call leaves what it had changed by then in the object, if the  *)
(* caller keeps it.                                                         *)
FailRewrap(c) ==
    /\ obj' = IF KeepOnError THEN [obj EXCEPT !.crypto = c] ELSE None
    /\ reply' = Said("rewrap", FALSE)
    /\ UNCHANGED <<disk, saves>>

RewrapPlain ==
    /\ obj # None
    /\ obj.crypto = None
    /\ reply' = Said("rewrap", FALSE)
    /\ UNCHANGED <<disk, obj, saves>>

(* Mutant: the old signer stays. *)
RewrapOldSigner(ek, sk, policy) ==
    /\ obj # None
    /\ obj.crypto # None
    /\ SameAlgorithm(obj.crypto, ek)
    /\ sk \notin BadSignKeys
    /\ obj' = [obj EXCEPT !.crypto =
                  [WithNewKey(obj.crypto, Secret(obj.crypto), ek) EXCEPT
                      !.enc = ek, !.sign = sk, !.sig = None, !.policy = policy]]
    /\ reply' = Said("rewrap", TRUE)
    /\ UNCHANGED <<disk, saves>>

(* Mutant: the new signer inherits the old signature. *)
RewrapOldSignature(ek, sk, policy) ==
    /\ obj # None
    /\ obj.crypto # None
    /\ SameAlgorithm(obj.crypto, ek)
    /\ sk \notin BadSignKeys
    /\ obj' = [obj EXCEPT !.crypto =
                  [WithNewKey(obj.crypto, Secret(obj.crypto), ek) EXCEPT
                      !.enc = ek, !.sign = sk, !.signer = sk, !.policy = policy]]
    /\ reply' = Said("rewrap", TRUE)
    /\ UNCHANGED <<disk, saves>>

(* CryptoTensors::rewrap, all of it: cryptors, keys, signer, policy *)
Rewrap(ek, sk, policy) ==
    /\ obj # None
    /\ obj.crypto # None
    /\ SameAlgorithm(obj.crypto, ek)
    /\ sk \notin BadSignKeys
    /\ obj' = [obj EXCEPT !.crypto =
                  [WithNewKey(obj.crypto, Secret(obj.crypto), ek) EXCEPT
                      !.enc = ek, !.sign = sk, !.signer = sk, !.sig = None,
                      !.policy = policy]]
    /\ reply' = Said("rewrap", TRUE)
    /\ UNCHANGED <<disk, saves>>

(* The first with_new_key refuses the key. *)
RewrapOtherAlgorithm(ek) ==
    /\ obj # None
    /\ obj.crypto # None
    /\ ~SameAlgorithm(obj.crypto, ek)
    /\ FailRewrap(obj.crypto)

(* The random generator fails inside the loop: some of the cryptors, in the *)
(* HashMap's order, are replaced already.                                   *)
RewrapInterrupted(S, ek) ==
    /\ obj # None
    /\ obj.crypto # None
    /\ SameAlgorithm(obj.crypto, ek)
    /\ S \subseteq Secret(obj.crypto)
    /\ S # Secret(obj.crypto)
    /\ FailRewrap(WithNewKey(obj.crypto, S, ek))

(* HeaderSigner::new fails after the cryptors and both keys are replaced;   *)
(* the signer is still the old one.                                         *)
RewrapBadSigner(ek, sk) ==
    /\ obj # None
    /\ obj.crypto # None
    /\ SameAlgorithm(obj.crypto, ek)
    /\ sk \in BadSignKeys
    /\ FailRewrap([WithNewKey(obj.crypto, Secret(obj.crypto), ek) EXCEPT
                      !.enc = ek, !.sign = sk])

(* The rest of rewrap_header and rewrap_file: generate_metadata, which      *)
(* signs once per HeaderSigner, and the new header written before the old   *)
(* blocks.                                                                  *)
WriteBack ==
    /\ obj # None
    /\ obj.crypto # None
    /\ obj.crypto.sig = None
    /\ LET h == GenerateMetadata(obj.order, obj.span, obj.crypto, obj.crypto.signer)
       IN  /\ disk' = [order |-> obj.order, span |-> obj.span, ver |-> obj.ver,
                       blocks |-> obj.blocks, crypto |-> h]
           /\ obj' = [obj EXCEPT !.crypto.sig = h.sig]
    /\ reply' = Said("write", TRUE)
    /\ UNCHANGED saves

(* "Signature already set" *)
WriteBackSigned ==
    /\ obj # None
    /\ obj.crypto # None
    /\ obj.crypto.sig # None
    /\ reply' = Said("write", FALSE)
    /\ UNCHANGED <<disk, obj, saves>>

-----------------------------------------------------------------------------
Init ==
    /\ disk = None
    /\ obj = None
    /\ saves = 0
    /\ reply = Said("none", TRUE)

Next ==
    \/ \E S, empty \in SUBSET Tensors, ek \in EncKeys, sk \in SignKeys,
          policy \in BOOLEAN, order \in Orders : Save(S, ek, sk, policy, order, empty)
    \/ \E t \in Tensors : DamageBlock(t)
    \/ \E ek \in EncKeys, sk \in SignKeys : Open(ek, sk)
    \/ Close
    \/ \E t \in Tensors : Tensor(t)
    \/ \E t \in Tensors : Iter(t)
    \/ RewrapPlain
    \/ \E ek \in EncKeys, sk \in SignKeys, policy \in BOOLEAN : Rewrap(ek, sk, policy)
    \/ \E ek \in EncKeys : RewrapOtherAlgorithm(ek)
    \/ \E S \in SUBSET Tensors, ek \in EncKeys : RewrapInterrupted(S, ek)
    \/ \E ek \in EncKeys, sk \in SignKeys : RewrapBadSigner(ek, sk)
    \/ WriteBack
    \/ WriteBackSigned

Spec == Init /\ [][Next]_vars

-----------------------------------------------------------------------------
(* Properties *)

TypeOK ==
    /\ disk \in Files \cup {None}
    /\ obj \in Objects \cup {None}
    /\ saves \in 0 .. MaxSaves
    /\ reply \in Replies

(* The header on disk is of one piece: every DEK is wrapped by the master   *)
(* key the header names, and the signature is the named signing key's over  *)
(* this very header.  rewrap replaces cryptors, keys and signer one after   *)
(* the other and can fail between any two (cryptotensors.rs 1747-1778).     *)
HeaderCoherent ==
    disk # None /\ disk.crypto # None =>
        LET h == disk.crypto
        IN  /\ \A t \in Secret(h) : h.wrapped[t].by = h.enc
            /\ h.sig = [by |-> h.sign, over |-> Body(disk.order, disk.span, h)]

(* The file opens for the two keys its header names and for no other pair,  *)
(* in whatever order the parser's HashMap yields the tensors: this is what  *)
(* makes the rebuilt header of from_header_with_config equal the signed one *)
(* and a rewrap retire the old keys.                                        *)
NamedKeysOpen ==
    disk # None /\ disk.crypto # None =>
        \A parsed \in Parses(disk.span), ek \in EncKeys, sk \in SignKeys :
            Opens(disk, parsed, ek, sk) <=>
                disk.crypto.policy /\ ek = disk.crypto.enc /\ sk = disk.crypto.sign

(* The DEKs in the header are those the blocks behind it were encrypted     *)
(* with, and every block still holds its generation's plaintext: rewrapping *)
(* and writing back, from however old an object, never pairs a header with  *)
(* foreign data.                                                            *)
DeksMatchData ==
    disk # None =>
        \A t \in Tensors :
            disk.blocks[t] # Garbage =>
                /\ disk.blocks[t].val = <<t, disk.ver>>
                /\ disk.blocks[t].dek =
                      IF disk.crypto # None /\ t \in Secret(disk.crypto)
                      THEN disk.crypto.wrapped[t].dek ELSE None

(* tensor() answers an encrypted tensor with what was saved, out of the     *)
(* buffer or not and through any number of rewraps, and fails only for a    *)
(* damaged block; a filled buffer is never stale.                           *)
ReadsGenuine ==
    obj # None /\ obj.crypto # None =>
        /\ \A t \in Secret(obj.crypto) : obj.crypto.buf[t] \in {None, <<t, obj.ver>>}
        /\ reply.call = "tensor" /\ reply.name \in Secret(obj.crypto) =>
              IF reply.ok THEN reply.got = <<reply.name, obj.ver>>
                          ELSE obj.blocks[reply.name] = Garbage

-----------------------------------------------------------------------------
(* The promise to the user *)

Damaged(f) == {t \in Tensors : f.blocks[t] = Garbage}

(* A file or an object as EncryptedFile sees it *)
Abstract(f) ==
    [ver |-> f.ver, damaged |-> Damaged(f),
     secret |-> IF f.crypto = None THEN {} ELSE Secret(f.crypto),
     keys |-> IF f.crypto = None THEN None ELSE <<f.crypto.enc, f.crypto.sign>>,
     policy |-> f.crypto = None \/ f.crypto.policy]

AbstractFile == IF disk = None THEN None ELSE Abstract(disk)

AbstractHandle ==
    IF obj = None THEN None
    ELSE [of |-> Abstract(obj),
          rewrapped |-> obj.crypto # None /\ obj.crypto.sig = None]

Promise == INSTANCE EncryptedFile WITH file <- AbstractFile, handle <- AbstractHandle

(* Nor is None taken for a file or a handle there.                          *)
ASSUME PromiseOK == None \notin Promise!Files \cup Promise!Handles

(* The code implements EncryptedFile: every call does to the file, the      *)
(* handle and its answer what the promise allows.                           *)
KeepsPromise == Promise!Spec

=============================================================================
