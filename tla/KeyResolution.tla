---------------------------- MODULE KeyResolution ----------------------------
(***************************************************************************)
(* How a save, an open and a rewrap come by their encryption and their     *)
(* signing key (key.rs, cryptotensors.rs, lib.rs of the Python binding):   *)
(* the key given in the configuration, else the registry's answer for the  *)
(* kid and the jku that the configuration (save) or the header of the file *)
(* (open) names, else an error.  Each of the two keys is looked up under   *)
(* an acquisition of the registry's lock of its own, and between the two   *)
(* providers come and go and the environment variable and the key file     *)
(* change.                                                                 *)
(*                                                                         *)
(* One lookup is one step here: module Registry takes it apart and shows   *)
(* that the first provider able to answer does.  A file is what its header *)
(* says of its keys, and which keys wrapped its data keys and signed it.   *)
(***************************************************************************)
EXTENDS Naturals, Sequences, SequencesExt, FiniteSets, FiniteSetsExt

CONSTANTS
    Kids,        \* key ids
    Secrets,     \* the bytes a key may have; both halves of a key pair alike
    EncAlgs,     \* the encryption algorithms parse() knows
    SignAlgs,    \* the signature algorithms
    DirectSets,  \* what DirectKeyProviders are built from: sequences of [as, jwk]
    KeySets,     \* what the environment variable and the key file may hold
    GivenKeys,   \* keys a configuration may carry
    Configs,     \* SerializeCryptoConfigs: [enc, sign], each a member of Wanted
    MaxChanges,  \* bound: changes of the registry and of what is behind it
    Empty,       \* an alg field with the empty string
    Missing,     \* a JWK without an alg field
    None

Types == {"oct", "okp"}

(* A JWK, and a KeyMaterial: open is what opens a file (k or x), make what  *)
(* makes one (k or d); jku tells whether it carries a file:// jku.          *)
KeysOf(secrets, algs) ==
    [kty : Types, kid : Kids \cup {None}, jku : BOOLEAN, alg : algs,
     open : secrets \cup {None}, make : secrets \cup {None}]

KeyMaterials == KeysOf(Secrets, EncAlgs \cup SignAlgs \cup {Empty})
Jwks == KeysOf(Secrets, EncAlgs \cup SignAlgs \cup {Empty, Missing})

(* What a DirectKeyProvider holds: a JWK and the kid it was added under.    *)
Entries == [as : Kids, jwk : Jwks]

(* One key of a configuration: the key itself, which new_enc_key and        *)
(* new_sign_key never make without its bytes, or the kid and jku to look    *)
(* up; DeserializeCryptoConfig has the former only.                         *)
Given(kty) == {k \in GivenKeys : k.kty = kty} \cup {None}
Wanted(kty) == [given : Given(kty), kid : Kids \cup {None}, jku : BOOLEAN]
OldKeys == [enc : Given("oct"), sign : Given("okp")]

(* A save, open or rewrap under way: what it was given, whether anything    *)
(* changed since it began, the encryption key it has found, and the         *)
(* algorithm of the data keys it has unwrapped.                             *)
Jobs == [op : {"save", "open", "rewrap"},
         at : {"openEnc", "openSign", "makeEnc", "makeSign"},
         config : Configs \cup {None}, old : OldKeys \cup {None}, steady : BOOLEAN,
         key : KeyMaterials \cup {None}, algo : EncAlgs \cup {None}]

ASSUME KeysAssumption ==
    /\ MaxChanges \in Nat
    /\ GivenKeys \subseteq {k \in KeyMaterials : k.open # None}
    /\ Configs \subseteq [enc : Wanted("oct"), sign : Wanted("okp")]
    /\ KeySets \subseteq Seq(Jwks)
    /\ DirectSets \subseteq Seq(Entries)

ASSUME NoneAssumption ==
    /\ None \notin Secrets \cup Jwks \cup Jobs
    /\ Missing \notin EncAlgs \cup SignAlgs \cup {Empty}

VARIABLES
    providers,  \* the providers that are registered and enabled
    sorted,     \* whether the registry has sorted them by priority yet
    direct,     \* what the registered DirectKeyProvider was built from
    envKeys,    \* CRYPTOTENSOR_KEYS; None when unset
    fileKeys,   \* the key file a jku names; None when absent
    job,        \* the save, open or rewrap under way; None between two
    saved,      \* the file: the keys its header names, and the keys it was made with
    ended,      \* the last job, until the next: what it was and if it succeeded
    changes,    \* how many changes there have been
    history     \* of the file: [steady, given, jku], whether nothing has changed
                \* since its save began, and what that was given and asked for

vars == <<providers, sorted, direct, envKeys, fileKeys, job, saved, ended, changes, history>>

-----------------------------------------------------------------------------
(* The registry, as one lookup sees it *)

Kty(role) == IF role = "master" THEN "oct" ELSE "okp"

(* select_jwk: the first key of the type and, when asked for, of the kid *)
SelectJwk(keys, kty, kid) ==
    LET hits == {i \in DOMAIN keys : keys[i].kty = kty /\ kid \in {None, keys[i].kid}}
    IN  IF hits = {} THEN None ELSE keys[Min(hits)]

(* DirectKeyProvider::get_*: the key added last under the kid; without one, *)
(* the default kid is the first that was added.                             *)
DirectKey(kty, kid) ==
    LET own  == {i \in DOMAIN direct : direct[i].jwk.kty = kty}
        name == IF kid # None \/ own = {} THEN kid ELSE direct[Min(own)].as
        hits == {i \in own : direct[i].as = name}
    IN  IF hits = {} THEN None ELSE direct[Max(hits)].jwk

(* is_ready, matches and then get_master_key, get_verify_key or             *)
(* get_signing_key.  A direct provider that has the key also matches; the   *)
(* environment variable and the file give no signing key.                   *)
Answer(p, role, kid, jku) ==
    CASE p = "direct" -> DirectKey(Kty(role), kid)
      [] p = "env"    -> IF envKeys = None \/ role = "signing" THEN None
                         ELSE SelectJwk(envKeys, Kty(role), kid)
      [] p = "file"   -> IF ~jku \/ fileKeys = None \/ role = "signing" THEN None
                         ELSE SelectJwk(fileKeys, Kty(role), kid)

(* The order in which the registry asks: get_providers puts the environment *)
(* before the file, sort_providers goes by priority.                        *)
Precedence == IF sorted THEN <<"direct", "file", "env">> ELSE <<"env", "file">>

FirstAnswer(able, role, kid, jku) ==
    IF able = {} THEN None ELSE Answer(Precedence[Min(able)], role, kid, jku)

(* Mutant: a provider that knows the kid as a key of either type, and has   *)
(* no key of the type asked for, ends the lookup.                           *)
LookUpOrFail(role, kid, jku) ==
    LET Knows(p) == \/ Answer(p, role, kid, jku) # None
                    \/ p = "direct" /\ \E i \in DOMAIN direct : direct[i].as = kid
    IN  FirstAnswer({i \in DOMAIN Precedence : Precedence[i] \in providers /\ Knows(Precedence[i])},
                    role, kid, jku)

(* get_master_key, get_verify_key, get_signing_key: the first Ok, or None *)
LookUp(role, kid, jku) ==
    FirstAnswer({i \in DOMAIN Precedence : /\ Precedence[i] \in providers
                                           /\ Answer(Precedence[i], role, kid, jku) # None},
                role, kid, jku)

-----------------------------------------------------------------------------
(* Key material *)

KnownAlgs(kty) == IF kty = "oct" THEN EncAlgs ELSE SignAlgs

(* KeyMaterial::validate, ForCreation: key, private half and algorithm *)
FitToMake(key) == key.open # None /\ key.make # None /\ key.alg \in KnownAlgs(key.kty)

(* FromJwk: key or public half; no algorithm, or one that is known *)
FitToOpen(key) == key.open # None /\ key.alg \in KnownAlgs(key.kty) \cup {Empty}

(* KeyMaterial::from_jwk: serde wants the alg field *)
FromJwk(jwk, creating) ==
    /\ jwk # None
    /\ jwk.alg # Missing
    /\ IF creating THEN FitToMake(jwk) ELSE FitToOpen(jwk)

(* resolve_key: the given key as it is, else the registry's answer, which   *)
(* from_jwk may reject whatever the providers behind it hold; None is Err.  *)
ResolveKey(role, given, kid, jku, creating) ==
    IF given # None THEN given
    ELSE LET jwk == LookUp(role, kid, jku)
         IN  IF FromJwk(jwk, creating) THEN jwk ELSE None

(* Mutant: the key keeps the kid and jku it was found with. *)
OverlayNothing(key, want) == key

(* resolve_key_from_serialize_config: the names the key was asked for by    *)
Overlay(key, want) ==
    IF want.given # None \/ key = None THEN key
    ELSE [key EXCEPT !.kid = IF want.kid # None THEN want.kid ELSE @,
                     !.jku = want.jku \/ @]

ForSerialize(role, want) ==
    Overlay(ResolveKey(role, want.given, want.kid, want.jku, TRUE), want)

(* update_from_key, and the algorithm of the key found unless it is empty *)
UpdateFromKey(key, found) ==
    [key EXCEPT !.open = found.open,
                !.alg = IF found.alg = Empty THEN @ ELSE found.alg]

(* resolve_key_from_deserialize_config, on the key the header names *)
ForDeserialize(role, key, given) ==
    LET found == ResolveKey(role, given, key.kid, key.jku, FALSE)
    IN  IF found = None \/ given # None THEN found ELSE UpdateFromKey(key, found)

(* Mutant: the whole key goes into the header. *)
InHeaderWhole(key) == key

(* Serialization of a KeyMaterial: k, x and d stay out of the header. *)
InHeader(key) == [key EXCEPT !.open = None, !.make = None]

-----------------------------------------------------------------------------
(* The jobs *)

Registry == <<providers, sorted, direct, envKeys, fileKeys>>

Begin ==
    /\ job = None
    /\ ended' = None
    /\ UNCHANGED <<Registry, saved, changes, history>>

(* serialize and serialize_to_file with a SerializeCryptoConfig *)
BeginSave(config) ==
    /\ Begin
    /\ job' = [op |-> "save", at |-> "makeEnc", config |-> config, old |-> None,
               steady |-> TRUE, key |-> None, algo |-> None]

(* from_header_with_config on the header of the file *)
BeginOpen(old) ==
    /\ Begin
    /\ saved # None
    /\ job' = [op |-> "open", at |-> "openEnc", config |-> None, old |-> old,
               steady |-> TRUE, key |-> None, algo |-> None]

(* rewrap_file, rewrap_header: the same open, and then CryptoTensors::rewrap *)
BeginRewrap(old, config) ==
    /\ Begin
    /\ saved # None
    /\ job' = [op |-> "rewrap", at |-> "openEnc", config |-> config, old |-> old,
               steady |-> TRUE, key |-> None, algo |-> None]

At(step) == job # None /\ job.at = step

End(ok) ==
    /\ job' = None
    /\ ended' = [op |-> job.op, ok |-> ok]

(* The master key of the file: with an error the signing key is not asked for *)
OpenEnc ==
    /\ At("openEnc")
    /\ LET key == ForDeserialize("master", saved.enc, job.old.enc)
       IN  IF key = None
           THEN End(FALSE)
           ELSE /\ job' = [job EXCEPT !.at = "openSign", !.key = key]
                /\ UNCHANGED ended
    /\ UNCHANGED <<Registry, saved, changes, history>>

(* HeaderSigner::verify, and then the data keys: AEAD opens what this key   *)
(* has sealed with this algorithm, and nothing else.                        *)
Verifies(sign) == sign # None /\ sign.open = saved.signedBy
Unwraps(enc) == enc.open = saved.wrappedBy /\ enc.alg = saved.algo

(* The verification key, and the rest of from_header_with_config *)
OpenSign ==
    /\ At("openSign")
    /\ LET sign == ForDeserialize("verify", saved.sign, job.old.sign)
           ok   == Verifies(sign) /\ Unwraps(job.key)
       IN  IF ok /\ job.op = "rewrap"
           THEN /\ job' = [job EXCEPT !.at = "makeEnc", !.algo = job.key.alg]
                /\ UNCHANGED ended
           ELSE End(ok)
    /\ UNCHANGED <<Registry, saved, changes, history>>

MakeEnc ==
    /\ At("makeEnc")
    /\ LET key == ForSerialize("master", job.config.enc)
       IN  IF key = None
           THEN End(FALSE)
           ELSE /\ job' = [job EXCEPT !.at = "makeSign", !.key = key]
                /\ UNCHANGED ended
    /\ UNCHANGED <<Registry, saved, changes, history>>

(* with_new_key: the data keys stay those of the algorithm of the file. *)
Suits(key) == job.op = "rewrap" => key.alg = job.algo

(* The signing key; validate and the mismatch of the algorithm are errors;  *)
(* else the data keys are wrapped, the header signed and the file written.  *)
MakeSign ==
    /\ At("makeSign")
    /\ LET sign == ForSerialize("signing", job.config.sign)
           enc  == job.key
           ok   == sign # None /\ FitToMake(enc) /\ FitToMake(sign) /\ Suits(enc)
       IN  /\ End(ok)
           /\ IF ok
              THEN /\ saved' = [enc |-> InHeader(enc), sign |-> InHeader(sign),
                                wrappedBy |-> enc.make, signedBy |-> sign.make,
                                algo |-> IF job.algo = None THEN enc.alg ELSE job.algo]
                   /\ history' = LET want == {job.config.enc, job.config.sign}
                                 IN  [steady |-> job.steady,
                                      given |-> {w.given # None : w \in want},
                                      jku |-> [enc |-> job.config.enc.jku,
                                               sign |-> job.config.sign.jku]]
              ELSE UNCHANGED <<saved, history>>
    /\ UNCHANGED <<Registry, changes>>

-----------------------------------------------------------------------------
(* What others do meanwhile *)

(* register_provider_with_priority at PRIORITY_DIRECT: it takes the place   *)
(* of the one before, and all are sorted by priority.                       *)
RegisterDirect(keys) ==
    /\ direct' = keys
    /\ providers' = providers \cup {"direct"}
    /\ sorted' = TRUE
    /\ UNCHANGED <<envKeys, fileKeys>>

DisableProvider(p) ==
    /\ providers' = providers \ {p}
    /\ direct' = IF p = "direct" THEN <<>> ELSE direct
    /\ UNCHANGED <<sorted, envKeys, fileKeys>>

SetEnv(keys) ==
    /\ envKeys' = keys
    /\ UNCHANGED <<providers, sorted, direct, fileKeys>>

ReplaceFile(keys) ==
    /\ fileKeys' = keys
    /\ UNCHANGED <<providers, sorted, direct, envKeys>>

Change ==
    /\ changes < MaxChanges
    /\ \/ \E keys \in DirectSets : RegisterDirect(keys)
       \/ \E p \in providers : DisableProvider(p)
       \/ \E keys \in KeySets \cup {None} : SetEnv(keys) \/ ReplaceFile(keys)
    /\ changes' = changes + 1
    /\ history' = [history EXCEPT !.steady = FALSE]
    /\ job' = IF job = None THEN None ELSE [job EXCEPT !.steady = FALSE]
    /\ UNCHANGED <<saved, ended>>

-----------------------------------------------------------------------------
Init ==
    /\ providers = {"env", "file"}
    /\ sorted = FALSE
    /\ direct = <<>>
    /\ envKeys \in KeySets \cup {None}
    /\ fileKeys \in KeySets \cup {None}
    /\ job = None
    /\ saved = None
    /\ ended = None
    /\ changes = 0
    /\ history = [steady |-> FALSE, given |-> {}, jku |-> [enc |-> FALSE, sign |-> FALSE]]

(* Either key of an open may be left to the registry. *)
Next ==
    \/ \E config \in Configs : BeginSave(config)
    \/ \E old \in OldKeys : BeginOpen(old)
    \/ \E old \in OldKeys, config \in Configs : BeginRewrap(old, config)
    \/ OpenEnc \/ OpenSign
    \/ MakeEnc \/ MakeSign
    \/ Change

Spec == Init /\ [][Next]_vars

-----------------------------------------------------------------------------
(* Properties *)

(* The header names its keys and holds neither of them; a job has its       *)
(* encryption key by the time it asks for the signing key.                  *)
TypeOK ==
    /\ saved # None =>
          /\ saved.enc \in KeyMaterials /\ saved.sign \in KeyMaterials
          /\ {saved.enc.open, saved.enc.make, saved.sign.open, saved.sign.make} = {None}
          /\ saved.enc.alg \in EncAlgs /\ saved.sign.alg \in SignAlgs
          /\ {saved.wrappedBy, saved.signedBy} \subseteq Secrets
    /\ job # None /\ job.at \in {"openSign", "makeSign"} =>
          /\ job.key \in KeyMaterials
          /\ job.key.open # None
    /\ job # None => job \in Jobs
    /\ ended # None => ended \in [op : {"save", "open", "rewrap"}, ok : BOOLEAN]
    /\ changes \in 0 .. MaxChanges

LooksUpBoth == job.old.enc = None /\ job.old.sign = None

(* Two things the code leaves to whoever provides the keys: a key is        *)
(* registered under the kid it bears, or bears none (the Python function    *)
(* sees to it, add_enc_key and add_sign_key do not), and the two halves of  *)
(* a key in a JWK are a pair (new_sign_key checks it, from_jwk does not).   *)
KidsAgree ==
    \A keys \in DirectSets : \A i \in DOMAIN keys : keys[i].jwk.kid \in {None, keys[i].as}

IsPair(jwk) == jwk.open # None /\ jwk.make # None => jwk.open = jwk.make

PairsMatch ==
    /\ \A keys \in KeySets : \A i \in DOMAIN keys : IsPair(keys[i])
    /\ \A keys \in DirectSets : \A i \in DOMAIN keys : IsPair(keys[i].jwk)

(* What a save made with keys of the registry, it opens with those: as long *)
(* as nothing about the registry has changed since the save began, no open  *)
(* without keys of its own fails, whichever kids the save named or left     *)
(* out, unless a JWK brought a jku into the header that was not asked for.  *)
SavedOpens ==
    [][job # None /\ job' = None /\ job.op = "open" /\ LooksUpBoth
       /\ history.steady /\ history.given = {FALSE}
       /\ history.jku = [enc |-> saved.enc.jku, sign |-> saved.sign.jku]
       => ended'.ok]_vars

(* All the keys of a kid and type that any source holds *)
Held(kty, kid) ==
    {direct[i].jwk : i \in {j \in DOMAIN direct : direct[j].jwk.kty = kty /\ direct[j].as = kid}}
    \cup {k \in ToSet(IF envKeys = None THEN <<>> ELSE envKeys)
                \cup ToSet(IF fileKeys = None THEN <<>> ELSE fileKeys) :
             k.kty = kty /\ k.kid = kid}

(* The key of this kid, wherever it is found, and that it is found *)
Kept(kty, kid, key, algo) ==
    /\ kid # None
    /\ \A k \in Held(kty, kid) : k.alg \in {algo, Empty} /\ k.open = key
    /\ \/ \E i \in DOMAIN direct : direct[i].jwk.kty = kty /\ direct[i].as = kid
       \/ /\ "env" \in providers /\ envKeys # None
          /\ \E i \in DOMAIN envKeys : envKeys[i].kty = kty /\ envKeys[i].kid = kid

(* key_management.mdx 199: "Keep old keys for decrypting existing files     *)
(* while using new keys for new files."  A file opens whenever the kids in  *)
(* its header still stand for its keys, and a provider that is asked has    *)
(* them, whatever other keys there are and whoever made it with what.       *)
RotatedKeysOpen ==
    [][job # None /\ job' = None /\ job.op = "open" /\ LooksUpBoth
       /\ job.steady
       /\ Kept("oct", saved.enc.kid, saved.wrappedBy, saved.algo)
       /\ Kept("okp", saved.sign.kid, saved.signedBy, saved.sign.alg)
       => ended'.ok]_vars

=============================================================================
