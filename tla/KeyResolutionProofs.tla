------------------------- MODULE KeyResolutionProofs -------------------------
(***************************************************************************)
(* Proofs about KeyResolution, for any keys, providers' contents,          *)
(* configurations and number of changes.  Three steps: what a lookup of    *)
(* the registry returns; the types; and, for SavedOpens, that a file whose *)
(* save saw no change names its keys as the registry still has them.       *)
(***************************************************************************)
EXTENDS KeyResolution, TLAPS, WellFoundedInduction

-----------------------------------------------------------------------------
(* The least and the greatest of a set of indices                           *)

LEMMA LeastNatural ==
    ASSUME NEW T, T \subseteq Nat, T # {}
    PROVE  \E m \in T : \A n \in T : m <= n
<1> DEFINE R == {p \in Nat \X Nat : p[1] < p[2]}
<1>1. IsWellFoundedOn(R, Nat)
  <2>1. R = OpToRel(<, Nat)
    BY DEF OpToRel
  <2>2. QED
    BY <2>1, NatLessThanWellFounded
<1>2. PICK m \in T : \A n \in T : ~ (<<n, m>> \in R)
  <2> HIDE DEF R
  <2> QED BY <1>1, WFMin
<1>3. ASSUME NEW n \in T PROVE m <= n
  <2>1. <<n, m>> \in Nat \X Nat /\ ~ (<<n, m>> \in R)
    BY <1>2
  <2>2. ~ (n < m)
    BY <2>1
  <2>3. QED
    BY <2>2
<1>4. QED
  BY <1>3

LEMMA MinIndex ==
    ASSUME NEW hits, hits \subseteq Nat, hits # {}
    PROVE  Min(hits) \in hits /\ \A i \in hits : Min(hits) <= i
<1>1. \E m \in hits : \A i \in hits : m <= i
  BY LeastNatural
<1>2. QED
  BY <1>1 DEF Min

LEMMA MaxIndex ==
    ASSUME NEW n \in Nat, NEW hits \in SUBSET (1 .. n), hits # {}
    PROVE  Max(hits) \in hits
<1> DEFINE T == {n - i : i \in hits}
<1>1. PICK m \in T : \A k \in T : m <= k
  <2>1. T \subseteq Nat /\ T # {}
    OBVIOUS
  <2> HIDE DEF T
  <2>2. QED
    BY <2>1, LeastNatural
<1>2. PICK j \in hits : m = n - j
  BY <1>1
<1>3. ASSUME NEW i \in hits PROVE j >= i
  <2>1. m <= n - i
    BY <1>1
  <2>2. QED
    BY <2>1, <1>2
<1>4. QED
  BY <1>3 DEF Max

-----------------------------------------------------------------------------
(* What a lookup returns                                                    *)

Roles == {"master", "verify", "signing"}

SourcesOK ==
    /\ sorted \in BOOLEAN
    /\ direct = <<>> \/ direct \in DirectSets
    /\ envKeys = None \/ envKeys \in KeySets
    /\ fileKeys = None \/ fileKeys \in KeySets
    /\ direct # <<>> => "direct" \in providers
    /\ ~sorted => "direct" \notin providers

HitsOf(keys, kty, kid) ==
    {i \in DOMAIN keys : keys[i].kty = kty /\ kid \in {None, keys[i].kid}}

LEMMA Selects ==
    ASSUME NEW keys \in KeySets, NEW kty, NEW kid
    PROVE  IF HitsOf(keys, kty, kid) = {}
           THEN SelectJwk(keys, kty, kid) = None
           ELSE /\ SelectJwk(keys, kty, kid) = keys[Min(HitsOf(keys, kty, kid))]
                /\ Min(HitsOf(keys, kty, kid)) \in HitsOf(keys, kty, kid)
                /\ \A i \in HitsOf(keys, kty, kid) : Min(HitsOf(keys, kty, kid)) <= i
                /\ SelectJwk(keys, kty, kid) \in Jwks
                /\ SelectJwk(keys, kty, kid) # None
<1> DEFINE hits == HitsOf(keys, kty, kid)
<1>1. keys \in Seq(Jwks) /\ None \notin Jwks
  BY KeysAssumption, NoneAssumption
<1>2. hits \subseteq DOMAIN keys /\ hits \subseteq Nat
  BY <1>1 DEF HitsOf
<1>3. SelectJwk(keys, kty, kid) = IF hits = {} THEN None ELSE keys[Min(hits)]
  BY DEF SelectJwk, HitsOf
<1>4. hits # {} => Min(hits) \in hits /\ \A i \in hits : Min(hits) <= i
  <2> HIDE DEF hits
  <2> QED BY <1>2, MinIndex
<1>5. ASSUME hits # {} PROVE keys[Min(hits)] \in Jwks
  <2> HIDE DEF hits
  <2> QED BY <1>1, <1>2, <1>4, <1>5
<1>6. QED
  BY <1>1, <1>3, <1>4, <1>5

LEMMA SelectAgain ==
    ASSUME NEW keys \in KeySets, NEW kty, SelectJwk(keys, kty, None) # None,
           SelectJwk(keys, kty, None).kid # None
    PROVE  SelectJwk(keys, kty, SelectJwk(keys, kty, None).kid) = SelectJwk(keys, kty, None)
<1> DEFINE jwk  == SelectJwk(keys, kty, None)
           all  == HitsOf(keys, kty, None)
           hits == HitsOf(keys, kty, jwk.kid)
<1>1. /\ all # {} /\ jwk = keys[Min(all)] /\ Min(all) \in all
      /\ \A i \in all : Min(all) <= i
  BY Selects
<1>2. hits \subseteq all /\ Min(all) \in hits
  BY <1>1 DEF HitsOf
<1>3. /\ SelectJwk(keys, kty, jwk.kid) = keys[Min(hits)] /\ Min(hits) \in hits
      /\ \A i \in hits : Min(hits) <= i
  <2>1. hits # {}
    BY <1>2
  <2>2. QED
    BY <2>1, Selects
<1>4. Min(all) \in Nat /\ Min(hits) \in Nat
  <2>1. keys \in Seq(Jwks)
    BY KeysAssumption
  <2>2. QED
    BY <2>1, <1>1, <1>3 DEF HitsOf
<1>5. Min(hits) = Min(all)
  <2>1. Min(hits) <= Min(all)
    BY <1>2, <1>3
  <2>2. Min(all) <= Min(hits)
    BY <1>1, <1>2, <1>3
  <2>3. QED
    BY <2>1, <2>2, <1>4
<1>6. QED
  BY <1>1, <1>3, <1>5

LEMMA SelectSilent ==
    ASSUME NEW keys \in KeySets, NEW kty, NEW kid, SelectJwk(keys, kty, None) = None
    PROVE  SelectJwk(keys, kty, kid) = None
<1>1. HitsOf(keys, kty, None) = {}
  BY Selects
<1>2. HitsOf(keys, kty, kid) = {}
  BY <1>1 DEF HitsOf
<1>3. QED
  BY <1>2, Selects

(* The same of DirectKeyProvider                                            *)

OwnOf(kty) == {i \in DOMAIN direct : direct[i].jwk.kty = kty}
NameOf(kty, kid) == IF kid # None \/ OwnOf(kty) = {} THEN kid ELSE direct[Min(OwnOf(kty))].as
UnderName(kty, name) == {i \in OwnOf(kty) : direct[i].as = name}

LEMMA DirectType ==
    ASSUME SourcesOK PROVE direct \in Seq(Entries)
<1>1. <<>> \in Seq(Entries)
  OBVIOUS
<1>2. CASE direct \in DirectSets
  BY <1>2, KeysAssumption
<1>3. QED
  BY <1>1, <1>2 DEF SourcesOK

LEMMA DirectGives ==
    ASSUME SourcesOK, NEW kty, NEW kid
    PROVE  IF UnderName(kty, NameOf(kty, kid)) = {}
           THEN DirectKey(kty, kid) = None
           ELSE /\ DirectKey(kty, kid) = direct[Max(UnderName(kty, NameOf(kty, kid)))].jwk
                /\ Max(UnderName(kty, NameOf(kty, kid))) \in UnderName(kty, NameOf(kty, kid))
                /\ DirectKey(kty, kid) \in Jwks
                /\ DirectKey(kty, kid) # None
<1> DEFINE hits == UnderName(kty, NameOf(kty, kid))
<1>1. DirectKey(kty, kid) = IF hits = {} THEN None ELSE direct[Max(hits)].jwk
  BY DEF DirectKey, UnderName, NameOf, OwnOf
<1>2. direct \in Seq(Entries) /\ None \notin Jwks
  BY DirectType, NoneAssumption
<1>3. Len(direct) \in Nat /\ DOMAIN direct = 1 .. Len(direct)
  BY <1>2
<1>4. hits \in SUBSET (1 .. Len(direct))
  BY <1>3 DEF UnderName, OwnOf
<1> HIDE DEF hits
<1>5. hits # {} => Max(hits) \in hits
  BY <1>3, <1>4, MaxIndex
<1>6. ASSUME hits # {} PROVE direct[Max(hits)].jwk \in Jwks
  <2>1. Max(hits) \in DOMAIN direct
    BY <1>3, <1>4, <1>5, <1>6
  <2>2. \A i \in DOMAIN direct : direct[i].jwk \in Jwks
    <3>1. SUFFICES ASSUME NEW i \in DOMAIN direct PROVE direct[i].jwk \in Jwks
      OBVIOUS
    <3>2. direct[i] \in Entries
      BY <1>2
    <3>3. QED
      BY <3>2 DEF Entries
  <2>3. QED
    BY <2>1, <2>2
<1>7. QED
  BY <1>1, <1>2, <1>5, <1>6 DEF hits

LEMMA DefaultName ==
    ASSUME SourcesOK, NEW kty, OwnOf(kty) # {}
    PROVE  UnderName(kty, NameOf(kty, None)) # {}
<1>1. Min(OwnOf(kty)) \in OwnOf(kty)
  <2>1. direct \in Seq(Entries)
    BY DirectType
  <2>2. OwnOf(kty) \subseteq Nat
    BY <2>1 DEF OwnOf
  <2>3. QED
    BY <2>2, MinIndex
<1>2. QED
  BY <1>1 DEF UnderName, NameOf

LEMMA DirectAgain ==
    ASSUME SourcesOK, KidsAgree, NEW kty, DirectKey(kty, None) # None,
           DirectKey(kty, None).kid # None
    PROVE  DirectKey(kty, DirectKey(kty, None).kid) = DirectKey(kty, None)
<1> DEFINE kid  == DirectKey(kty, None).kid
           name == NameOf(kty, None)
           last == Max(UnderName(kty, name))
<1>1. DirectKey(kty, None) = direct[last].jwk /\ last \in UnderName(kty, name)
  BY DirectGives
<1>2. last \in DOMAIN direct /\ direct[last].as = name
  BY <1>1 DEF UnderName, OwnOf
<1>3. direct \in DirectSets
  BY <1>2 DEF SourcesOK
<1>4. kid = name
  BY <1>1, <1>2, <1>3 DEF KidsAgree
<1>5. NameOf(kty, kid) = name
  BY <1>4 DEF NameOf
<1>6. QED
  BY <1>1, <1>5, DirectGives

LEMMA DirectSilent ==
    ASSUME SourcesOK, NEW kty, NEW kid, DirectKey(kty, None) = None
    PROVE  DirectKey(kty, kid) = None
<1>1. UnderName(kty, NameOf(kty, None)) = {}
  BY DirectGives
<1>2. OwnOf(kty) = {}
  BY <1>1, DefaultName
<1>3. UnderName(kty, NameOf(kty, kid)) = {}
  BY <1>2 DEF UnderName
<1>4. QED
  BY <1>3, DirectGives

(* One provider's answer                                                    *)

Asked == {"direct", "file", "env"}

(* What it answers is a key of the type, and held under the kid asked for.  *)
LEMMA AnswerFits ==
    ASSUME SourcesOK, NEW p \in Asked, NEW role \in Roles, NEW kid, NEW jku \in BOOLEAN,
           Answer(p, role, kid, jku) # None
    PROVE  /\ Answer(p, role, kid, jku) \in Jwks
           /\ Answer(p, role, kid, jku).kty = Kty(role)
           /\ kid # None => Answer(p, role, kid, jku) \in Held(Kty(role), kid)
<1>1. CASE p = "direct"
  <2>1. Answer(p, role, kid, jku) = DirectKey(Kty(role), kid)
    BY <1>1 DEF Answer
  <2> DEFINE i == Max(UnderName(Kty(role), NameOf(Kty(role), kid)))
  <2>2. /\ DirectKey(Kty(role), kid) = direct[i].jwk
        /\ i \in UnderName(Kty(role), NameOf(Kty(role), kid))
        /\ DirectKey(Kty(role), kid) \in Jwks
    BY <2>1, DirectGives
  <2>3. /\ i \in DOMAIN direct /\ direct[i].jwk.kty = Kty(role)
        /\ kid # None => direct[i].as = kid
    BY <2>2 DEF UnderName, OwnOf, NameOf
  <2> HIDE DEF i
  <2>4. kid # None => direct[i].jwk \in Held(Kty(role), kid)
    BY <2>3 DEF Held
  <2>5. QED
    BY <2>1, <2>2, <2>3, <2>4
<1>2. ASSUME NEW keys \in KeySets, Answer(p, role, kid, jku) = SelectJwk(keys, Kty(role), kid),
             \/ envKeys = keys /\ envKeys # None
             \/ fileKeys = keys /\ fileKeys # None
      PROVE  /\ Answer(p, role, kid, jku) \in Jwks
             /\ Answer(p, role, kid, jku).kty = Kty(role)
             /\ kid # None => Answer(p, role, kid, jku) \in Held(Kty(role), kid)
  <2> DEFINE i == Min(HitsOf(keys, Kty(role), kid))
  <2>1. /\ Answer(p, role, kid, jku) = keys[i]
        /\ i \in HitsOf(keys, Kty(role), kid)
        /\ keys[i] \in Jwks
    BY <1>2, Selects
  <2>2. i \in DOMAIN keys /\ keys[i].kty = Kty(role) /\ kid \in {None, keys[i].kid}
    BY <2>1 DEF HitsOf
  <2> HIDE DEF i
  <2>3. kid # None => keys[i] \in Held(Kty(role), kid)
    <3>1. keys[i] \in ToSet(keys)
      BY <2>2 DEF ToSet
    <3>2. keys[i] \in ToSet(IF envKeys = None THEN <<>> ELSE envKeys)
                         \cup ToSet(IF fileKeys = None THEN <<>> ELSE fileKeys)
      BY <3>1, <1>2
    <3>3. QED
      BY <3>2, <2>2 DEF Held
  <2>4. QED
    BY <2>1, <2>2, <2>3
<1>3. CASE p = "env"
  <2>1. envKeys # None /\ Answer(p, role, kid, jku) = SelectJwk(envKeys, Kty(role), kid)
    BY <1>3 DEF Answer
  <2>2. QED
    BY <2>1, <1>2 DEF SourcesOK
<1>4. CASE p = "file"
  <2>1. fileKeys # None /\ Answer(p, role, kid, jku) = SelectJwk(fileKeys, Kty(role), kid)
    BY <1>4 DEF Answer
  <2>2. QED
    BY <2>1, <1>2 DEF SourcesOK
<1>5. QED
  BY <1>1, <1>3, <1>4 DEF Asked

(* Asked without a kid it answers with a key; asked again, by the kid of    *)
(* that key, it answers with the same.                                      *)
LEMMA AnswerAgain ==
    ASSUME SourcesOK, KidsAgree, NEW p \in Asked, NEW role \in Roles, NEW jku \in BOOLEAN,
           NEW jwk, Answer(p, role, None, jku) = jwk, jwk # None, jwk.kid # None
    PROVE  Answer(p, role, jwk.kid, jku) = jwk
<1>1. CASE p = "direct"
  BY <1>1, DirectAgain DEF Answer
<1>2. CASE p = "env"
  <2>1. envKeys \in KeySets /\ role # "signing" /\ envKeys # None
    BY <1>2 DEF Answer, SourcesOK
  <2>2. jwk = SelectJwk(envKeys, Kty(role), None)
    BY <1>2, <2>1 DEF Answer
  <2>3. SelectJwk(envKeys, Kty(role), jwk.kid) = jwk
    BY <2>1, <2>2, SelectAgain
  <2>4. QED
    BY <1>2, <2>1, <2>3 DEF Answer
<1>3. CASE p = "file"
  <2>1. fileKeys \in KeySets /\ role # "signing" /\ fileKeys # None /\ jku
    BY <1>3 DEF Answer, SourcesOK
  <2>2. jwk = SelectJwk(fileKeys, Kty(role), None)
    BY <1>3, <2>1 DEF Answer
  <2>3. SelectJwk(fileKeys, Kty(role), jwk.kid) = jwk
    BY <2>1, <2>2, SelectAgain
  <2>4. QED
    BY <1>3, <2>1, <2>3 DEF Answer
<1>4. QED
  BY <1>1, <1>2, <1>3 DEF Asked

(* A provider without a default key has no key of the type at all.          *)
LEMMA AnswerSilent ==
    ASSUME SourcesOK, NEW p \in Asked, NEW role \in Roles, NEW jku \in BOOLEAN, NEW kid,
           Answer(p, role, None, jku) = None
    PROVE  Answer(p, role, kid, jku) = None
<1>1. CASE p = "direct"
  BY <1>1, DirectSilent DEF Answer
<1>2. CASE p = "env"
  <2>1. CASE envKeys = None \/ role = "signing"
    BY <1>2, <2>1 DEF Answer
  <2>2. CASE ~(envKeys = None \/ role = "signing")
    <3>1. SelectJwk(envKeys, Kty(role), None) = None /\ envKeys \in KeySets
      BY <1>2, <2>2 DEF Answer, SourcesOK
    <3>2. SelectJwk(envKeys, Kty(role), kid) = None
      BY <3>1, SelectSilent
    <3>3. QED
      BY <1>2, <2>2, <3>2 DEF Answer
  <2>3. QED
    BY <2>1, <2>2
<1>3. CASE p = "file"
  <2>1. CASE ~jku \/ fileKeys = None \/ role = "signing"
    BY <1>3, <2>1 DEF Answer
  <2>2. CASE ~(~jku \/ fileKeys = None \/ role = "signing")
    <3>1. SelectJwk(fileKeys, Kty(role), None) = None /\ fileKeys \in KeySets
      BY <1>3, <2>2 DEF Answer, SourcesOK
    <3>2. SelectJwk(fileKeys, Kty(role), kid) = None
      BY <3>1, SelectSilent
    <3>3. QED
      BY <1>3, <2>2, <3>2 DEF Answer
  <2>3. QED
    BY <2>1, <2>2
<1>4. QED
  BY <1>1, <1>2, <1>3 DEF Asked

(* Only the direct provider gives a signing key, and the same to verify.    *)
LEMMA AnswerSigning ==
    ASSUME NEW p \in Asked, NEW jku \in BOOLEAN, NEW kid,
           Answer(p, "signing", kid, jku) # None
    PROVE  p = "direct" /\ Answer(p, "verify", kid, jku) = Answer(p, "signing", kid, jku)
BY DEF Answer, Asked, Kty

(* The lookup                                                               *)

AnswersFirst(m, role, kid, jku) ==
    /\ m \in DOMAIN Precedence
    /\ Precedence[m] \in providers
    /\ Answer(Precedence[m], role, kid, jku) # None
    /\ \A i \in DOMAIN Precedence :
          Precedence[i] \in providers /\ Answer(Precedence[i], role, kid, jku) # None => m <= i

LEMMA PrecedenceType ==
    ASSUME SourcesOK
    PROVE  DOMAIN Precedence \subseteq Nat /\ \A m \in DOMAIN Precedence : Precedence[m] \in Asked
BY DEF Precedence, Asked, SourcesOK

LEMMA LookedUp ==
    ASSUME SourcesOK, NEW role, NEW kid, NEW jku, LookUp(role, kid, jku) # None
    PROVE  \E m : /\ AnswersFirst(m, role, kid, jku)
                  /\ LookUp(role, kid, jku) = Answer(Precedence[m], role, kid, jku)
<1> DEFINE able == {i \in DOMAIN Precedence : /\ Precedence[i] \in providers
                                              /\ Answer(Precedence[i], role, kid, jku) # None}
<1>1. able # {} /\ LookUp(role, kid, jku) = Answer(Precedence[Min(able)], role, kid, jku)
  BY DEF LookUp, FirstAnswer
<1>2. able \subseteq Nat
  BY PrecedenceType
<1>3. Min(able) \in able /\ \A i \in able : Min(able) <= i
  <2> HIDE DEF able
  <2> QED BY <1>1, <1>2, MinIndex
<1>4. AnswersFirst(Min(able), role, kid, jku)
  BY <1>3 DEF AnswersFirst
<1>5. QED
  BY <1>1, <1>4

LEMMA Finds ==
    ASSUME SourcesOK, NEW role, NEW kid, NEW jku, NEW m, AnswersFirst(m, role, kid, jku)
    PROVE  LookUp(role, kid, jku) = Answer(Precedence[m], role, kid, jku)
<1> DEFINE able == {i \in DOMAIN Precedence : /\ Precedence[i] \in providers
                                              /\ Answer(Precedence[i], role, kid, jku) # None}
<1>1. m \in able /\ \A i \in able : m <= i
  BY DEF AnswersFirst
<1>2. able \subseteq Nat
  BY PrecedenceType
<1>3. Min(able) = m
  <2> HIDE DEF able
  <2>1. Min(able) \in able /\ \A i \in able : Min(able) <= i
    BY <1>1, <1>2, MinIndex
  <2>2. Min(able) <= m /\ m <= Min(able) /\ m \in Nat /\ Min(able) \in Nat
    BY <1>1, <1>2, <2>1
  <2>3. QED
    BY <2>2
<1>4. LookUp(role, kid, jku) = IF able = {} THEN None
                               ELSE Answer(Precedence[Min(able)], role, kid, jku)
  BY DEF LookUp, FirstAnswer
<1>5. QED
  BY <1>1, <1>3, <1>4

LEMMA SomeAnswer ==
    ASSUME SourcesOK, NEW role, NEW kid, NEW jku, NEW i \in DOMAIN Precedence,
           Precedence[i] \in providers, Answer(Precedence[i], role, kid, jku) # None
    PROVE  LookUp(role, kid, jku) # None
<1> DEFINE able == {j \in DOMAIN Precedence : /\ Precedence[j] \in providers
                                              /\ Answer(Precedence[j], role, kid, jku) # None}
<1>1. able # {} /\ able \subseteq Nat
  BY PrecedenceType
<1>2. Min(able) \in able
  <2> HIDE DEF able
  <2> QED BY <1>1, MinIndex
<1>3. LookUp(role, kid, jku) = Answer(Precedence[Min(able)], role, kid, jku)
  BY <1>1 DEF LookUp, FirstAnswer
<1>4. QED
  BY <1>2, <1>3

LEMMA LookUpFits ==
    ASSUME SourcesOK, NEW role \in Roles, NEW kid, NEW jku \in BOOLEAN,
           LookUp(role, kid, jku) # None
    PROVE  /\ LookUp(role, kid, jku) \in Jwks
           /\ LookUp(role, kid, jku).kty = Kty(role)
           /\ kid # None => LookUp(role, kid, jku) \in Held(Kty(role), kid)
<1>1. PICK m : /\ AnswersFirst(m, role, kid, jku)
               /\ LookUp(role, kid, jku) = Answer(Precedence[m], role, kid, jku)
  BY LookedUp
<1>2. Precedence[m] \in Asked /\ Answer(Precedence[m], role, kid, jku) # None
  BY <1>1, PrecedenceType DEF AnswersFirst
<1>3. QED
  BY <1>1, <1>2, AnswerFits

LEMMA LookUpAgain ==
    ASSUME SourcesOK, KidsAgree, NEW role \in Roles, NEW jku \in BOOLEAN,
           LookUp(role, None, jku) # None, LookUp(role, None, jku).kid # None
    PROVE  LookUp(role, LookUp(role, None, jku).kid, jku) = LookUp(role, None, jku)
<1> DEFINE jwk == LookUp(role, None, jku)
<1>1. PICK m : /\ AnswersFirst(m, role, None, jku)
               /\ jwk = Answer(Precedence[m], role, None, jku)
  BY LookedUp
<1>2. m \in DOMAIN Precedence /\ Precedence[m] \in Asked /\ Precedence[m] \in providers
  BY <1>1, PrecedenceType DEF AnswersFirst
<1>3. Answer(Precedence[m], role, jwk.kid, jku) = jwk /\ jwk # None
  <2>1. jwk # None /\ jwk.kid # None
    OBVIOUS
  <2> HIDE DEF jwk
  <2>2. QED
    BY <1>1, <1>2, <2>1, AnswerAgain
<1>4. ASSUME NEW i \in DOMAIN Precedence, Precedence[i] \in providers,
             Answer(Precedence[i], role, jwk.kid, jku) # None
      PROVE  m <= i
  <2>1. Answer(Precedence[i], role, None, jku) # None
    BY <1>4, PrecedenceType, AnswerSilent
  <2>2. QED
    BY <1>1, <1>4, <2>1 DEF AnswersFirst
<1>5. AnswersFirst(m, role, jwk.kid, jku)
  BY <1>2, <1>3, <1>4 DEF AnswersFirst
<1>6. QED
  BY <1>3, <1>5, Finds

LEMMA LookUpSigning ==
    ASSUME SourcesOK, NEW kid, NEW jku \in BOOLEAN, LookUp("signing", kid, jku) # None
    PROVE  LookUp("verify", kid, jku) = LookUp("signing", kid, jku)
<1>1. PICK m : /\ AnswersFirst(m, "signing", kid, jku)
               /\ LookUp("signing", kid, jku) = Answer(Precedence[m], "signing", kid, jku)
  BY LookedUp
<1>2. /\ m \in DOMAIN Precedence /\ Precedence[m] \in Asked /\ Precedence[m] \in providers
      /\ Answer(Precedence[m], "signing", kid, jku) # None
  BY <1>1, PrecedenceType DEF AnswersFirst
<1>3. /\ Precedence[m] = "direct"
      /\ Answer(Precedence[m], "verify", kid, jku) = Answer(Precedence[m], "signing", kid, jku)
  BY <1>2, AnswerSigning
<1>4. sorted
  BY <1>2, <1>3 DEF SourcesOK
<1>5. m = 1 /\ \A i \in DOMAIN Precedence : 1 <= i
  BY <1>2, <1>3, <1>4 DEF Precedence
<1>6. AnswersFirst(m, "verify", kid, jku)
  BY <1>2, <1>3, <1>5 DEF AnswersFirst
<1>7. QED
  BY <1>1, <1>3, <1>6, Finds

(* As long as nothing about the registry changes, neither does what it      *)
(* answers.                                                                 *)
LEMMA SameAnswers ==
    ASSUME UNCHANGED Registry, NEW role, NEW kid, NEW jku
    PROVE  LookUp(role, kid, jku)' = LookUp(role, kid, jku)
<1>1. /\ providers' = providers /\ sorted' = sorted /\ direct' = direct
      /\ envKeys' = envKeys /\ fileKeys' = fileKeys
  BY DEF Registry
<1>2. ASSUME NEW kty, NEW k PROVE DirectKey(kty, k)' = DirectKey(kty, k)
  BY <1>1 DEF DirectKey
<1>3. ASSUME NEW p PROVE Answer(p, role, kid, jku)' = Answer(p, role, kid, jku)
  BY <1>1, <1>2 DEF Answer
<1>4. Precedence' = Precedence
  BY <1>1 DEF Precedence
<1>5. QED
  BY <1>1, <1>3, <1>4 DEF LookUp, FirstAnswer

LEMMA SameKeys ==
    ASSUME UNCHANGED Registry, NEW role
    PROVE  /\ \A want : ForSerialize(role, want)' = ForSerialize(role, want)
           /\ \A key, given : ForDeserialize(role, key, given)' = ForDeserialize(role, key, given)
<1>1. ASSUME NEW given, NEW kid, NEW jku, NEW creating
      PROVE  ResolveKey(role, given, kid, jku, creating)' = ResolveKey(role, given, kid, jku, creating)
  BY SameAnswers DEF ResolveKey
<1>2. ASSUME NEW want PROVE ForSerialize(role, want)' = ForSerialize(role, want)
  BY <1>1 DEF ForSerialize
<1>3. ASSUME NEW key, NEW given
      PROVE  ForDeserialize(role, key, given)' = ForDeserialize(role, key, given)
  <2> DEFINE found == ResolveKey(role, given, key.kid, key.jku, FALSE)
             Result(f) == IF f = None \/ given # None THEN f ELSE UpdateFromKey(key, f)
  <2>1. found' = found
    BY <1>1
  <2>2. ForDeserialize(role, key, given) = Result(found)
    BY DEF ForDeserialize
  <2>3. ForDeserialize(role, key, given)' = Result(found')
    BY DEF ForDeserialize, UpdateFromKey
  <2> HIDE DEF found, Result
  <2>4. QED
    BY <2>1, <2>2, <2>3
<1>4. QED
  BY <1>2, <1>3

-----------------------------------------------------------------------------
(* The types                                                                *)

Files == [enc : KeyMaterials, sign : KeyMaterials, wrappedBy : Secrets, signedBy : Secrets,
          algo : EncAlgs]

SavedOK ==
    /\ saved \in Files
    /\ {saved.enc.open, saved.enc.make, saved.sign.open, saved.sign.make} = {None}
    /\ saved.enc.alg = saved.algo /\ saved.sign.alg \in SignAlgs

JobOK ==
    /\ job \in Jobs
    /\ job.at \in {"openEnc", "openSign"} =>
          job.op \in {"open", "rewrap"} /\ job.old \in OldKeys /\ saved # None
    /\ job.at \in {"makeEnc", "makeSign"} => job.op \in {"save", "rewrap"}
    /\ job.op \in {"save", "rewrap"} => job.config \in Configs
    /\ job.op = "save" => job.algo = None
    /\ job.at \in {"openSign", "makeSign"} => job.key \in KeyMaterials /\ job.key.open # None
    /\ job.at = "makeSign" => job.key.kty = "oct"

Histories == [steady : BOOLEAN, given : SUBSET BOOLEAN, jku : [enc : BOOLEAN, sign : BOOLEAN]]

TypeInv ==
    /\ SourcesOK
    /\ job # None => JobOK
    /\ saved # None => SavedOK
    /\ ended # None => ended \in [op : {"save", "open", "rewrap"}, ok : BOOLEAN]
    /\ changes \in 0 .. MaxChanges
    /\ history \in Histories

-----------------------------------------------------------------------------
(* A file whose save saw no change names its keys as they are in the        *)
(* registry; a job that has seen none has found the key it would find now.  *)

MadeBy(config) ==
    LET enc  == ForSerialize("master", config.enc)
        sign == ForSerialize("signing", config.sign)
    IN  /\ enc # None /\ sign # None /\ FitToMake(enc) /\ FitToMake(sign)
        /\ saved = [enc |-> InHeader(enc), sign |-> InHeader(sign), wrappedBy |-> enc.make,
                    signedBy |-> sign.make, algo |-> enc.alg]
        /\ history.given = {w.given # None : w \in {config.enc, config.sign}}
        /\ history.jku = [enc |-> config.enc.jku, sign |-> config.sign.jku]

SteadyInv ==
    /\ history.steady => \E config \in Configs : MadeBy(config)
    /\ history.steady /\ job # None => job.steady
    /\ job # None /\ job.steady =>
          /\ job.at = "openSign" =>
                \A key \in KeyMaterials, given \in Given("oct") :
                    key = saved.enc /\ given = job.old.enc =>
                        job.key = ForDeserialize("master", key, given)
          /\ job.at = "makeSign" =>
                \A config \in Configs :
                    config = job.config => job.key = ForSerialize("master", config.enc)

-----------------------------------------------------------------------------
(* Keys that are made, and keys that are found                              *)

LEMMA KeysTyped ==
    /\ KeyMaterials \subseteq Jwks
    /\ \A jwk \in Jwks : jwk.alg # Missing => jwk \in KeyMaterials
    /\ None \notin KeyMaterials /\ None \notin Secrets /\ Missing \notin EncAlgs \cup SignAlgs
    /\ Empty # Missing
BY NoneAssumption DEF KeyMaterials, Jwks, KeysOf

LEMMA ConfigTyped ==
    ASSUME NEW config \in Configs
    PROVE  config.enc \in Wanted("oct") /\ config.sign \in Wanted("okp")
BY KeysAssumption

LEMMA GivenTyped ==
    ASSUME NEW kty, NEW key \in Given(kty), key # None
    PROVE  key \in KeyMaterials /\ key.open # None /\ key.kty = kty
BY KeysAssumption DEF Given

LEMMA OverlayTyped ==
    ASSUME NEW key \in KeyMaterials, NEW kty, NEW want \in Wanted(kty), want.given = None
    PROVE  /\ Overlay(key, want) \in KeyMaterials
           /\ Overlay(key, want).kty = key.kty
           /\ Overlay(key, want).open = key.open
           /\ Overlay(key, want).make = key.make
           /\ Overlay(key, want).alg = key.alg
           /\ Overlay(key, want).kid = IF want.kid # None THEN want.kid ELSE key.kid
           /\ Overlay(key, want).jku = (want.jku \/ key.jku)
<1>1. key # None
  BY KeysTyped
<1>2. want.kid \in Kids \cup {None} /\ want.jku \in BOOLEAN
  BY DEF Wanted
<1>3. key.jku \in BOOLEAN
  BY DEF KeyMaterials, KeysOf
<1>4. Overlay(key, want) = [key EXCEPT !.kid = IF want.kid # None THEN want.kid ELSE key.kid,
                                       !.jku = want.jku \/ key.jku]
  BY <1>1 DEF Overlay
<1> DEFINE kid == IF want.kid # None THEN want.kid ELSE key.kid
           jku == want.jku \/ key.jku
<1>5. kid \in Kids \cup {None} /\ jku \in BOOLEAN
  BY <1>2, <1>3 DEF KeyMaterials, KeysOf
<1>6. Overlay(key, want) = [key EXCEPT !.kid = kid, !.jku = jku]
  BY <1>4
<1> HIDE DEF kid, jku
<1>7. /\ Overlay(key, want) \in KeyMaterials
      /\ Overlay(key, want).kty = key.kty
      /\ Overlay(key, want).open = key.open
      /\ Overlay(key, want).make = key.make
      /\ Overlay(key, want).alg = key.alg
      /\ Overlay(key, want).kid = kid
      /\ Overlay(key, want).jku = jku
  BY <1>5, <1>6 DEF KeyMaterials, KeysOf
<1>8. QED
  BY <1>7 DEF kid, jku

(* A key of a save: given, or found in the registry and fit to make keys    *)
LEMMA ForSerializeFits ==
    ASSUME SourcesOK, NEW role \in {"master", "signing"}, NEW want \in Wanted(Kty(role)),
           ForSerialize(role, want) # None
    PROVE  /\ ForSerialize(role, want) \in KeyMaterials
           /\ ForSerialize(role, want).kty = Kty(role)
           /\ ForSerialize(role, want).open # None
<1>1. CASE want.given # None
  <2>1. ForSerialize(role, want) = want.given
    BY <1>1 DEF ForSerialize, ResolveKey, Overlay
  <2>2. want.given \in Given(Kty(role))
    BY DEF Wanted
  <2>3. QED
    BY <1>1, <2>1, <2>2, GivenTyped
<1>2. CASE want.given = None
  <2> DEFINE jwk == LookUp(role, want.kid, want.jku)
  <2>1. FromJwk(jwk, TRUE) /\ ForSerialize(role, want) = Overlay(jwk, want)
    BY <1>2 DEF ForSerialize, ResolveKey, Overlay
  <2>2. jwk # None /\ jwk.alg # Missing /\ jwk.open # None
    BY <2>1 DEF FromJwk, FitToMake
  <2>3. jwk \in Jwks /\ jwk.kty = Kty(role)
    <3>1. want.jku \in BOOLEAN /\ role \in Roles
      BY DEF Wanted, Roles
    <3>2. QED
      BY <2>2, <3>1, LookUpFits
  <2>4. jwk \in KeyMaterials
    BY <2>2, <2>3, KeysTyped
  <2> HIDE DEF jwk
  <2>5. QED
    BY <1>2, <2>1, <2>2, <2>3, <2>4, OverlayTyped
<1>3. QED
  BY <1>1, <1>2

(* The key an open finds for the key that a header names                    *)
LEMMA UpdateTyped ==
    ASSUME NEW key \in KeyMaterials, NEW found \in KeyMaterials
    PROVE  /\ UpdateFromKey(key, found) \in KeyMaterials
           /\ UpdateFromKey(key, found).open = found.open
           /\ UpdateFromKey(key, found).alg = IF found.alg = Empty THEN key.alg ELSE found.alg
<1> DEFINE alg == IF found.alg = Empty THEN key.alg ELSE found.alg
<1>1. UpdateFromKey(key, found) = [key EXCEPT !.open = found.open, !.alg = alg]
  BY DEF UpdateFromKey
<1>2. alg \in EncAlgs \cup SignAlgs \cup {Empty} /\ found.open \in Secrets \cup {None}
  BY DEF KeyMaterials, KeysOf
<1> HIDE DEF alg
<1>3. /\ UpdateFromKey(key, found) \in KeyMaterials
      /\ UpdateFromKey(key, found).open = found.open
      /\ UpdateFromKey(key, found).alg = alg
  BY <1>1, <1>2 DEF KeyMaterials, KeysOf
<1>4. QED
  BY <1>3 DEF alg

LEMMA ForDeserializeLooksUp ==
    ASSUME NEW role, NEW key \in KeyMaterials,
           FromJwk(LookUp(role, key.kid, key.jku), FALSE)
    PROVE  ForDeserialize(role, key, None) =
               UpdateFromKey(key, LookUp(role, key.kid, key.jku))
<1>1. LookUp(role, key.kid, key.jku) # None
  BY DEF FromJwk
<1>2. QED
  BY <1>1 DEF ForDeserialize, ResolveKey

LEMMA ForDeserializeFits ==
    ASSUME SourcesOK, NEW role \in {"master", "verify"}, NEW key \in KeyMaterials,
           NEW given \in Given(Kty(role)), ForDeserialize(role, key, given) # None
    PROVE  /\ ForDeserialize(role, key, given) \in KeyMaterials
           /\ ForDeserialize(role, key, given).open # None
<1>1. CASE given # None
  <2>1. ForDeserialize(role, key, given) = given
    BY <1>1 DEF ForDeserialize, ResolveKey
  <2>2. QED
    BY <1>1, <2>1, GivenTyped
<1>2. CASE given = None
  <2> DEFINE jwk == LookUp(role, key.kid, key.jku)
  <2>1. FromJwk(jwk, FALSE)
    BY <1>2 DEF ForDeserialize, ResolveKey
  <2>2. jwk # None /\ jwk.alg # Missing /\ jwk.open # None
    BY <2>1 DEF FromJwk, FitToOpen
  <2>3. jwk \in Jwks
    <3>1. key.jku \in BOOLEAN /\ role \in Roles
      BY DEF KeyMaterials, KeysOf, Roles
    <3>2. QED
      BY <2>2, <3>1, LookUpFits
  <2>4. jwk \in KeyMaterials
    BY <2>2, <2>3, KeysTyped
  <2>5. ForDeserialize(role, key, given) = UpdateFromKey(key, jwk)
    BY <1>2, <2>1, ForDeserializeLooksUp
  <2> HIDE DEF jwk
  <2>6. QED
    BY <2>2, <2>4, <2>5, UpdateTyped
<1>3. QED
  BY <1>1, <1>2

-----------------------------------------------------------------------------
(* The types are kept                                                       *)

LEMMA JobUnsteady ==
    ASSUME NEW h \in Jobs, NEW g, g = [h EXCEPT !.steady = FALSE]
    PROVE  /\ g \in Jobs /\ g.op = h.op /\ g.at = h.at /\ g.config = h.config
           /\ g.old = h.old /\ g.steady = FALSE /\ g.key = h.key /\ g.algo = h.algo
BY DEF Jobs

LEMMA HeaderTyped ==
    ASSUME NEW key \in KeyMaterials
    PROVE  /\ InHeader(key) \in KeyMaterials
           /\ InHeader(key).open = None /\ InHeader(key).make = None
           /\ InHeader(key).alg = key.alg
           /\ InHeader(key).kid = key.kid
           /\ InHeader(key).jku = key.jku
BY DEF InHeader, KeyMaterials, KeysOf

LEMMA TypeInit == Init => TypeInv
<1> SUFFICES ASSUME Init PROVE TypeInv
  OBVIOUS
<1>1. SourcesOK
  BY DEF Init, SourcesOK
<1>2. history \in Histories
  BY DEF Init, Histories
<1>3. changes \in 0 .. MaxChanges
  BY KeysAssumption DEF Init
<1>4. QED
  BY <1>1, <1>2, <1>3 DEF Init, TypeInv

LEMMA OpenEncTyped ==
    ASSUME TypeInv, OpenEnc
    PROVE  /\ job # None /\ JobOK /\ job.at = "openEnc" /\ saved # None /\ SavedOK
           /\ IF ForDeserialize("master", saved.enc, job.old.enc) = None
              THEN End(FALSE)
              ELSE /\ job' = [job EXCEPT !.at = "openSign",
                                         !.key = ForDeserialize("master", saved.enc, job.old.enc)]
                   /\ ended' = ended
                   /\ job' \in Jobs
                   /\ job'.op = job.op /\ job'.at = "openSign" /\ job'.config = job.config
                   /\ job'.old = job.old /\ job'.steady = job.steady /\ job'.algo = job.algo
                   /\ job'.key = ForDeserialize("master", saved.enc, job.old.enc)
                   /\ job'.key \in KeyMaterials /\ job'.key.open # None
<1> DEFINE key == ForDeserialize("master", saved.enc, job.old.enc)
<1>1. job # None /\ job.at = "openEnc" /\ JobOK
  BY DEF OpenEnc, At, TypeInv
<1>2. job \in Jobs /\ job.old \in OldKeys /\ saved # None /\ SavedOK
  BY <1>1 DEF JobOK, TypeInv
<1>3. saved.enc \in KeyMaterials
  BY <1>2 DEF SavedOK, Files
<1>4. job.old.enc \in Given(Kty("master"))
  BY <1>2 DEF OldKeys, Kty
<1>5. key # None => key \in KeyMaterials /\ key.open # None
  BY <1>3, <1>4, ForDeserializeFits DEF TypeInv
<1>6. IF key = None THEN End(FALSE)
      ELSE job' = [job EXCEPT !.at = "openSign", !.key = key] /\ ended' = ended
  BY DEF OpenEnc
<1> HIDE DEF key
<1>7. ASSUME key # None
      PROVE  /\ job' \in Jobs
             /\ job'.op = job.op /\ job'.at = "openSign" /\ job'.config = job.config
             /\ job'.old = job.old /\ job'.steady = job.steady /\ job'.algo = job.algo
             /\ job'.key = key
  <2>1. job' = [job EXCEPT !.at = "openSign", !.key = key]
    BY <1>6, <1>7
  <2>2. key \in KeyMaterials \cup {None}
    BY <1>5, <1>7
  <2>3. QED
    BY <1>2, <2>1, <2>2 DEF Jobs
<1>8. QED
  BY <1>1, <1>2, <1>5, <1>6, <1>7 DEF key

LEMMA MakeEncTyped ==
    ASSUME TypeInv, MakeEnc
    PROVE  /\ job # None /\ JobOK /\ job.at = "makeEnc" /\ job.config \in Configs
           /\ IF ForSerialize("master", job.config.enc) = None
              THEN End(FALSE)
              ELSE /\ ended' = ended
                   /\ job' \in Jobs
                   /\ job'.op = job.op /\ job'.at = "makeSign" /\ job'.config = job.config
                   /\ job'.old = job.old /\ job'.steady = job.steady /\ job'.algo = job.algo
                   /\ job'.key = ForSerialize("master", job.config.enc)
                   /\ job'.key \in KeyMaterials /\ job'.key.open # None /\ job'.key.kty = "oct"
<1> DEFINE key == ForSerialize("master", job.config.enc)
<1>1. job # None /\ job.at = "makeEnc" /\ JobOK
  BY DEF MakeEnc, At, TypeInv
<1>2. job \in Jobs /\ job.config \in Configs
  BY <1>1 DEF JobOK
<1>3. job.config.enc \in Wanted(Kty("master"))
  BY <1>2, ConfigTyped DEF Kty
<1>4. key # None => key \in KeyMaterials /\ key.open # None /\ key.kty = "oct"
  BY <1>3, ForSerializeFits DEF TypeInv, Kty
<1>5. IF key = None THEN End(FALSE)
      ELSE job' = [job EXCEPT !.at = "makeSign", !.key = key] /\ ended' = ended
  BY DEF MakeEnc
<1> HIDE DEF key
<1>6. ASSUME key # None
      PROVE  /\ job' \in Jobs
             /\ job'.op = job.op /\ job'.at = "makeSign" /\ job'.config = job.config
             /\ job'.old = job.old /\ job'.steady = job.steady /\ job'.algo = job.algo
             /\ job'.key = key
  <2>1. job' = [job EXCEPT !.at = "makeSign", !.key = key]
    BY <1>5, <1>6
  <2>2. key \in KeyMaterials \cup {None}
    BY <1>4, <1>6
  <2>3. QED
    BY <1>2, <2>1, <2>2 DEF Jobs
<1>7. QED
  BY <1>1, <1>2, <1>4, <1>5, <1>6 DEF key

(* What a save or rewrap that succeeds writes                               *)
LEMMA MakeSignTyped ==
    ASSUME TypeInv, MakeSign
    PROVE  /\ job # None /\ JobOK /\ job.at = "makeSign" /\ job.config \in Configs
           /\ job' = None /\ ended' = [op |-> job.op, ok |-> ended'.ok] /\ ended'.ok \in BOOLEAN
           /\ ~ ended'.ok => saved' = saved /\ history' = history
           /\ ended'.ok =>
                 /\ ForSerialize("signing", job.config.sign) # None
                 /\ FitToMake(job.key) /\ FitToMake(ForSerialize("signing", job.config.sign))
                 /\ saved' = [enc |-> InHeader(job.key),
                              sign |-> InHeader(ForSerialize("signing", job.config.sign)),
                              wrappedBy |-> job.key.make,
                              signedBy |-> ForSerialize("signing", job.config.sign).make,
                              algo |-> job.key.alg]
                 /\ history' = [steady |-> job.steady,
                                given |-> {w.given # None : w \in {job.config.enc, job.config.sign}},
                                jku |-> [enc |-> job.config.enc.jku, sign |-> job.config.sign.jku]]
                 /\ SavedOK'
<1> DEFINE sign == ForSerialize("signing", job.config.sign)
           enc  == job.key
           ok   == sign # None /\ FitToMake(enc) /\ FitToMake(sign) /\ Suits(enc)
           algo == IF job.algo = None THEN enc.alg ELSE job.algo
<1>1. job # None /\ job.at = "makeSign" /\ JobOK
  BY DEF MakeSign, At, TypeInv
<1>2. /\ job.config \in Configs /\ enc \in KeyMaterials /\ enc.kty = "oct"
      /\ job.op \in {"save", "rewrap"} /\ (job.op = "save" => job.algo = None)
  BY <1>1 DEF JobOK
<1>3. End(ok)
  BY DEF MakeSign
<1>4. IF ok
      THEN /\ saved' = [enc |-> InHeader(enc), sign |-> InHeader(sign), wrappedBy |-> enc.make,
                        signedBy |-> sign.make, algo |-> algo]
           /\ history' = [steady |-> job.steady,
                          given |-> {w.given # None : w \in {job.config.enc, job.config.sign}},
                          jku |-> [enc |-> job.config.enc.jku, sign |-> job.config.sign.jku]]
      ELSE saved' = saved /\ history' = history
  BY DEF MakeSign
<1>5. job' = None /\ ended' = [op |-> job.op, ok |-> ok] /\ ended'.ok = ok /\ ok \in BOOLEAN
  BY <1>3 DEF End
<1>6. ASSUME ok
      PROVE  /\ sign \in KeyMaterials /\ sign.kty = "okp" /\ algo = enc.alg
             /\ enc.alg \in EncAlgs /\ sign.alg \in SignAlgs
             /\ enc.make \in Secrets /\ sign.make \in Secrets
  <2>1. job.config.sign \in Wanted(Kty("signing"))
    BY <1>2, ConfigTyped DEF Kty
  <2>2. sign \in KeyMaterials /\ sign.kty = "okp"
    BY <1>6, <2>1, ForSerializeFits DEF TypeInv, Kty
  <2>3. algo = enc.alg
    BY <1>2, <1>6 DEF Suits
  <2>4. enc.alg \in EncAlgs /\ sign.alg \in SignAlgs /\ enc.make # None /\ sign.make # None
    BY <1>2, <1>6, <2>2 DEF FitToMake, KnownAlgs
  <2> HIDE DEF sign, enc
  <2>5. enc.make \in Secrets \cup {None} /\ sign.make \in Secrets \cup {None}
    BY <1>2, <2>2 DEF KeyMaterials, KeysOf
  <2>6. QED
    BY <2>2, <2>3, <2>4, <2>5
<1> HIDE DEF algo
<1>7. ASSUME ok PROVE SavedOK'
  <2> HIDE DEF sign, enc
  <2>1. /\ InHeader(enc) \in KeyMaterials /\ InHeader(enc).open = None /\ InHeader(enc).make = None
        /\ InHeader(enc).alg = enc.alg
    BY <1>2, HeaderTyped
  <2>2. /\ InHeader(sign) \in KeyMaterials /\ InHeader(sign).open = None
        /\ InHeader(sign).make = None /\ InHeader(sign).alg = sign.alg
    BY <1>6, <1>7, HeaderTyped
  <2>3. saved' = [enc |-> InHeader(enc), sign |-> InHeader(sign), wrappedBy |-> enc.make,
                  signedBy |-> sign.make, algo |-> algo]
    BY <1>4, <1>7
  <2>4. saved' \in Files
    BY <2>1, <2>2, <2>3, <1>6, <1>7 DEF Files
  <2>5. QED
    BY <2>1, <2>2, <2>3, <2>4, <1>6, <1>7 DEF SavedOK
<1>8. QED
  BY <1>1, <1>2, <1>4, <1>5, <1>6, <1>7

(* An open that verifies and unwraps, and what follows in a rewrap          *)
LEMMA OpenSignTyped ==
    ASSUME TypeInv, OpenSign
    PROVE  /\ job # None /\ JobOK /\ job.at = "openSign" /\ saved # None /\ SavedOK
           /\ \/ /\ job' = None /\ ended' = [op |-> job.op, ok |-> ended'.ok]
                 /\ ended'.ok = (/\ Verifies(ForDeserialize("verify", saved.sign, job.old.sign))
                                 /\ Unwraps(job.key))
                 /\ ended'.ok \in BOOLEAN
              \/ /\ job.op = "rewrap" /\ ended' = ended
                 /\ job' \in Jobs
                 /\ job'.op = job.op /\ job'.at = "makeEnc" /\ job'.config = job.config
                 /\ job'.old = job.old /\ job'.steady = job.steady
<1> DEFINE sign == ForDeserialize("verify", saved.sign, job.old.sign)
           ok   == Verifies(sign) /\ Unwraps(job.key)
<1>1. job # None /\ job.at = "openSign" /\ JobOK
  BY DEF OpenSign, At, TypeInv
<1>2. job \in Jobs /\ saved # None /\ SavedOK
  BY <1>1 DEF JobOK, TypeInv
<1>3. IF ok /\ job.op = "rewrap"
      THEN job' = [job EXCEPT !.at = "makeEnc", !.algo = job.key.alg] /\ ended' = ended
      ELSE End(ok)
  BY DEF OpenSign
<1>4. ok \in BOOLEAN
  BY DEF Verifies, Unwraps
<1>5. CASE ok /\ job.op = "rewrap"
  <2>1. job.key.alg \in EncAlgs
    BY <1>2, <1>5 DEF Unwraps, SavedOK, Files
  <2>2. job' = [job EXCEPT !.at = "makeEnc", !.algo = job.key.alg] /\ ended' = ended
    BY <1>3, <1>5
  <2>3. /\ job' \in Jobs
        /\ job'.op = job.op /\ job'.at = "makeEnc" /\ job'.config = job.config
        /\ job'.old = job.old /\ job'.steady = job.steady
    BY <1>2, <2>1, <2>2 DEF Jobs
  <2>4. QED
    BY <1>1, <1>2, <1>5, <2>2, <2>3
<1>6. CASE ~(ok /\ job.op = "rewrap")
  <2>1. job' = None /\ ended' = [op |-> job.op, ok |-> ok]
    BY <1>3, <1>6 DEF End
  <2>2. ended'.ok = ok
    BY <2>1
  <2>3. QED
    BY <1>1, <1>2, <1>4, <2>1, <2>2
<1>7. QED
  BY <1>5, <1>6

LEMMA ChangeTyped ==
    ASSUME TypeInv, Change
    PROVE  /\ SourcesOK' /\ changes' \in 0 .. MaxChanges
           /\ history' \in Histories /\ ~ history'.steady
           /\ saved' = saved /\ ended' = ended
           /\ job = None => job' = None
           /\ job # None =>
                 /\ job' \in Jobs /\ job'.op = job.op /\ job'.at = job.at
                 /\ job'.config = job.config /\ job'.old = job.old /\ job'.steady = FALSE
                 /\ job'.key = job.key /\ job'.algo = job.algo
<1>1. SourcesOK'
  <2>1. SourcesOK
    BY DEF TypeInv
  <2>2. ASSUME NEW keys \in DirectSets, RegisterDirect(keys) PROVE SourcesOK'
    BY <2>1, <2>2 DEF RegisterDirect, SourcesOK
  <2>3. ASSUME NEW p \in providers, DisableProvider(p) PROVE SourcesOK'
    BY <2>1, <2>3 DEF DisableProvider, SourcesOK
  <2>4. ASSUME NEW keys \in KeySets \cup {None}, SetEnv(keys) PROVE SourcesOK'
    BY <2>1, <2>4 DEF SetEnv, SourcesOK
  <2>5. ASSUME NEW keys \in KeySets \cup {None}, ReplaceFile(keys) PROVE SourcesOK'
    BY <2>1, <2>5 DEF ReplaceFile, SourcesOK
  <2>6. QED
    BY <2>2, <2>3, <2>4, <2>5 DEF Change
<1>2. changes' \in 0 .. MaxChanges
  BY KeysAssumption DEF Change, TypeInv
<1>3. history' \in Histories /\ ~ history'.steady
  <2>1. history \in Histories /\ history' = [history EXCEPT !.steady = FALSE]
    BY DEF Change, TypeInv
  <2>2. QED
    BY <2>1 DEF Histories
<1>4. ASSUME job # None
      PROVE  /\ job' \in Jobs /\ job'.op = job.op /\ job'.at = job.at
             /\ job'.config = job.config /\ job'.old = job.old /\ job'.steady = FALSE
             /\ job'.key = job.key /\ job'.algo = job.algo
  <2>1. job \in Jobs /\ job' = [job EXCEPT !.steady = FALSE]
    BY <1>4 DEF Change, TypeInv, JobOK
  <2>2. QED
    BY <2>1, JobUnsteady
<1>5. QED
  BY <1>1, <1>2, <1>3, <1>4 DEF Change

LEMMA TypeStep == TypeInv /\ [Next]_vars => TypeInv'
<1> SUFFICES ASSUME TypeInv, [Next]_vars PROVE TypeInv'
  OBVIOUS
<1> DEFINE Ended == [op : {"save", "open", "rewrap"}, ok : BOOLEAN]
<1>1. ASSUME UNCHANGED Registry PROVE SourcesOK'
  BY <1>1 DEF TypeInv, SourcesOK, Registry
<1>2. ASSUME saved' = saved, saved # None PROVE SavedOK'
  BY <1>2 DEF TypeInv, SavedOK
<1>3. ASSUME JobOK PROVE job.op \in {"save", "open", "rewrap"}
  BY <1>3 DEF JobOK, Jobs
<1>4. ASSUME NEW ok \in BOOLEAN, JobOK, End(ok)
      PROVE  job' = None /\ ended' \in Ended
  BY <1>3, <1>4 DEF End
<1>5. ASSUME NEW config \in Configs, BeginSave(config) PROVE TypeInv'
  <2>1. Begin /\ job' = [op |-> "save", at |-> "makeEnc", config |-> config, old |-> None,
                         steady |-> TRUE, key |-> None, algo |-> None]
    BY <1>5 DEF BeginSave
  <2>2. JobOK'
    <3>1. job' \in Jobs
      BY <2>1 DEF Jobs
    <3>2. QED
      BY <2>1, <3>1 DEF JobOK
  <2>3. QED
    BY <1>1, <1>2, <2>1, <2>2 DEF Begin, TypeInv
<1>6. ASSUME NEW old \in OldKeys, BeginOpen(old) PROVE TypeInv'
  <2>1. Begin /\ saved # None
        /\ job' = [op |-> "open", at |-> "openEnc", config |-> None, old |-> old,
                   steady |-> TRUE, key |-> None, algo |-> None]
    BY <1>6 DEF BeginOpen
  <2>2. JobOK'
    <3>1. job' \in Jobs
      BY <2>1 DEF Jobs
    <3>2. QED
      BY <2>1, <3>1 DEF JobOK, Begin
  <2>3. QED
    BY <1>1, <1>2, <2>1, <2>2 DEF Begin, TypeInv
<1>7. ASSUME NEW old \in OldKeys, NEW config \in Configs, BeginRewrap(old, config) PROVE TypeInv'
  <2>1. Begin /\ saved # None
        /\ job' = [op |-> "rewrap", at |-> "openEnc", config |-> config, old |-> old,
                   steady |-> TRUE, key |-> None, algo |-> None]
    BY <1>7 DEF BeginRewrap
  <2>2. JobOK'
    <3>1. job' \in Jobs
      BY <2>1 DEF Jobs
    <3>2. QED
      BY <2>1, <3>1 DEF JobOK, Begin
  <2>3. QED
    BY <1>1, <1>2, <2>1, <2>2 DEF Begin, TypeInv
<1>8. CASE OpenEnc
  <2>1. UNCHANGED <<Registry, saved, changes, history>>
    BY <1>8 DEF OpenEnc
  <2>2. CASE ForDeserialize("master", saved.enc, job.old.enc) = None
    <3>1. job' = None /\ ended' \in Ended
      BY <1>4, <1>8, <2>2, OpenEncTyped
    <3>2. QED
      BY <1>1, <1>2, <2>1, <3>1 DEF TypeInv
  <2>3. CASE ForDeserialize("master", saved.enc, job.old.enc) # None
    <3>1. JobOK'
      BY <1>8, <2>1, <2>3, OpenEncTyped DEF JobOK
    <3>2. QED
      BY <1>1, <1>2, <1>8, <2>1, <2>3, <3>1, OpenEncTyped DEF TypeInv
  <2>4. QED
    BY <2>2, <2>3
<1>9. CASE OpenSign
  <2>1. UNCHANGED <<Registry, saved, changes, history>>
    BY <1>9 DEF OpenSign
  <2>2. CASE job' = None /\ ended' = [op |-> job.op, ok |-> ended'.ok] /\ ended'.ok \in BOOLEAN
    <3>1. ended' \in Ended
      BY <1>3, <1>9, <2>2, OpenSignTyped
    <3>2. QED
      BY <1>1, <1>2, <2>1, <2>2, <3>1 DEF TypeInv
  <2>3. CASE /\ job.op = "rewrap" /\ ended' = ended
             /\ job' \in Jobs
             /\ job'.op = job.op /\ job'.at = "makeEnc" /\ job'.config = job.config
    <3>1. JobOK'
      BY <1>9, <2>3, OpenSignTyped DEF JobOK
    <3>2. QED
      BY <1>1, <1>2, <2>1, <2>3, <3>1 DEF TypeInv
  <2>4. QED
    BY <1>9, <2>2, <2>3, OpenSignTyped
<1>10. CASE MakeEnc
  <2>1. UNCHANGED <<Registry, saved, changes, history>>
    BY <1>10 DEF MakeEnc
  <2>2. CASE ForSerialize("master", job.config.enc) = None
    <3>1. job' = None /\ ended' \in Ended
      BY <1>4, <1>10, <2>2, MakeEncTyped
    <3>2. QED
      BY <1>1, <1>2, <2>1, <3>1 DEF TypeInv
  <2>3. CASE ForSerialize("master", job.config.enc) # None
    <3>1. JobOK'
      BY <1>10, <2>1, <2>3, MakeEncTyped DEF JobOK
    <3>2. QED
      BY <1>1, <1>2, <1>10, <2>1, <2>3, <3>1, MakeEncTyped DEF TypeInv
  <2>4. QED
    BY <2>2, <2>3
<1>11. CASE MakeSign
  <2>1. UNCHANGED <<Registry, changes>>
    BY <1>11 DEF MakeSign
  <2>2. job' = None /\ ended' \in Ended
    BY <1>3, <1>11, MakeSignTyped
  <2>3. history' \in Histories /\ (saved' # None => SavedOK')
    <3>1. CASE ~ ended'.ok
      BY <1>2, <1>11, <3>1, MakeSignTyped DEF TypeInv
    <3>2. CASE ended'.ok
      <4>1. SavedOK' /\ job.steady \in BOOLEAN /\ job.config \in Configs
        BY <1>11, <3>2, MakeSignTyped DEF JobOK, Jobs
      <4>2. job.config.enc.jku \in BOOLEAN /\ job.config.sign.jku \in BOOLEAN
        BY <4>1, ConfigTyped DEF Wanted
      <4>3. {w.given # None : w \in {job.config.enc, job.config.sign}} \in SUBSET BOOLEAN
        OBVIOUS
      <4>4. history' \in Histories
        BY <1>11, <3>2, <4>1, <4>2, <4>3, MakeSignTyped DEF Histories
      <4>5. QED
        BY <4>1, <4>4
    <3>3. ended'.ok \in BOOLEAN
      BY <1>11, MakeSignTyped
    <3>4. QED
      BY <3>1, <3>2, <3>3
  <2>4. QED
    BY <1>1, <2>1, <2>2, <2>3 DEF TypeInv
<1>12. CASE Change
  <2>1. job' # None => JobOK'
    BY <1>12, ChangeTyped DEF TypeInv, JobOK
  <2>2. QED
    BY <1>2, <1>12, <2>1, ChangeTyped DEF TypeInv
<1>13. CASE UNCHANGED vars
  <2>1. UNCHANGED <<Registry, job, saved, ended, changes, history>>
    BY <1>13 DEF vars, Registry
  <2>2. job' # None => JobOK'
    BY <2>1 DEF TypeInv, JobOK
  <2>3. QED
    BY <1>1, <1>2, <2>1, <2>2 DEF TypeInv
<1>14. QED
  BY <1>5, <1>6, <1>7, <1>8, <1>9, <1>10, <1>11, <1>12, <1>13 DEF Next

LEMMA TypeInvImplies == TypeInv => TypeOK
<1> SUFFICES ASSUME TypeInv PROVE TypeOK
  OBVIOUS
<1>1. ASSUME saved # None
      PROVE  /\ saved.enc \in KeyMaterials /\ saved.sign \in KeyMaterials
             /\ {saved.enc.open, saved.enc.make, saved.sign.open, saved.sign.make} = {None}
             /\ saved.enc.alg \in EncAlgs /\ saved.sign.alg \in SignAlgs
             /\ {saved.wrappedBy, saved.signedBy} \subseteq Secrets
  BY <1>1 DEF TypeInv, SavedOK, Files
<1>2. ASSUME job # None
      PROVE  /\ job \in Jobs
             /\ job.at \in {"openSign", "makeSign"} =>
                   job.key \in KeyMaterials /\ job.key.open # None
  BY <1>2 DEF TypeInv, JobOK
<1>3. QED
  BY <1>1, <1>2 DEF TypeInv, TypeOK

LEMMA TypeAlways == Spec => []TypeInv
BY TypeInit, TypeStep, PTL DEF Spec

(* Every key a header names is an encryption and a signing key of a known   *)
(* algorithm without its bytes, and a job has its encryption key by the     *)
(* time it asks for the signing key, whatever the providers hold.           *)
THEOREM TypeCorrect == Spec => []TypeOK
BY TypeAlways, TypeInvImplies, PTL

-----------------------------------------------------------------------------
(* A steady save, and what it opens with                                    *)

LEMMA SteadyInit == Init => SteadyInv
BY DEF Init, SteadyInv

LEMMA SameMadeBy ==
    ASSUME UNCHANGED Registry, UNCHANGED <<saved, history>>, NEW config, MadeBy(config)
    PROVE  MadeBy(config)'
<1> DEFINE enc  == ForSerialize("master", config.enc)
           sign == ForSerialize("signing", config.sign)
<1>1. enc' = enc /\ sign' = sign
  BY SameKeys
<1>2. saved' = saved /\ history' = history
  OBVIOUS
<1>3. /\ enc # None /\ sign # None /\ FitToMake(enc) /\ FitToMake(sign)
      /\ saved = [enc |-> InHeader(enc), sign |-> InHeader(sign), wrappedBy |-> enc.make,
                  signedBy |-> sign.make, algo |-> enc.alg]
      /\ history.given = {w.given # None : w \in {config.enc, config.sign}}
      /\ history.jku = [enc |-> config.enc.jku, sign |-> config.sign.jku]
  BY DEF MadeBy
<1> DEFINE Made(e, s) ==
        /\ e # None /\ s # None /\ FitToMake(e) /\ FitToMake(s)
        /\ saved' = [enc |-> InHeader(e), sign |-> InHeader(s), wrappedBy |-> e.make,
                     signedBy |-> s.make, algo |-> e.alg]
        /\ history'.given = {w.given # None : w \in {config.enc, config.sign}}
        /\ history'.jku = [enc |-> config.enc.jku, sign |-> config.sign.jku]
<1>4. Made(enc, sign)
  BY <1>2, <1>3
<1>5. Made(enc', sign')
  <2> HIDE DEF Made, enc, sign
  <2> QED BY <1>1, <1>4
<1>6. QED
  BY <1>5 DEF MadeBy, FitToMake, InHeader

LEMMA SteadyStep == TypeInv /\ SteadyInv /\ [Next]_vars => SteadyInv'
<1> SUFFICES ASSUME TypeInv, SteadyInv, [Next]_vars PROVE SteadyInv'
  OBVIOUS
<1> DEFINE MadeNow == history.steady => \E config \in Configs : MadeBy(config)
           KeyNow ==
             /\ job.at = "openSign" =>
                   \A key \in KeyMaterials, given \in Given("oct") :
                       key = saved.enc /\ given = job.old.enc =>
                           job.key = ForDeserialize("master", key, given)
             /\ job.at = "makeSign" =>
                   \A config \in Configs :
                       config = job.config => job.key = ForSerialize("master", config.enc)
<1>1. ASSUME UNCHANGED <<Registry, saved, history>> PROVE MadeNow'
  BY <1>1, SameMadeBy DEF SteadyInv
<1>2. ASSUME Begin, job' # None => job'.steady /\ job'.at \notin {"openSign", "makeSign"}
      PROVE  SteadyInv'
  <2>1. UNCHANGED <<Registry, saved, history>>
    BY <1>2 DEF Begin
  <2>2. QED
    BY <1>1, <1>2, <2>1 DEF SteadyInv
<1>3. ASSUME UNCHANGED <<Registry, saved, history>>, job # None,
             job' # None => job'.steady = job.steady /\ (job.steady => KeyNow')
      PROVE  SteadyInv'
  <2>1. MadeNow'
    BY <1>1, <1>3
  <2>2. history'.steady /\ job' # None => job'.steady
    BY <1>3 DEF SteadyInv
  <2>3. job' # None /\ job'.steady => KeyNow'
    BY <1>3
  <2>4. QED
    BY <2>1, <2>2, <2>3 DEF SteadyInv
<1>4. ASSUME NEW config \in Configs, BeginSave(config) PROVE SteadyInv'
  BY <1>2, <1>4 DEF BeginSave
<1>5. ASSUME NEW old \in OldKeys, BeginOpen(old) PROVE SteadyInv'
  BY <1>2, <1>5 DEF BeginOpen
<1>6. ASSUME NEW old \in OldKeys, NEW config \in Configs, BeginRewrap(old, config)
      PROVE  SteadyInv'
  BY <1>2, <1>6 DEF BeginRewrap
<1>7. CASE OpenEnc
  <2>1. UNCHANGED <<Registry, saved, history>> /\ job # None
    BY <1>7, OpenEncTyped DEF OpenEnc
  <2>2. ASSUME job' # None PROVE job'.steady = job.steady /\ KeyNow'
    <3>1. /\ job'.at = "openSign" /\ job'.steady = job.steady /\ job'.old = job.old
          /\ job'.key = ForDeserialize("master", saved.enc, job.old.enc)
      BY <1>7, <2>2, OpenEncTyped DEF End
    <3>2. ASSUME NEW key \in KeyMaterials, NEW given \in Given("oct"),
                 key = saved'.enc, given = job'.old.enc
          PROVE  job'.key = ForDeserialize("master", key, given)'
      <4>1. key = saved.enc /\ given = job.old.enc
        BY <2>1, <3>1, <3>2
      <4>2. job'.key = ForDeserialize("master", key, given)
        BY <3>1, <4>1
      <4>3. QED
        BY <2>1, <4>2, SameKeys
    <3>3. QED
      BY <3>1, <3>2
  <2>3. QED
    BY <1>3, <2>1, <2>2
<1>8. CASE MakeEnc
  <2>1. UNCHANGED <<Registry, saved, history>> /\ job # None
    BY <1>8, MakeEncTyped DEF MakeEnc
  <2>2. ASSUME job' # None PROVE job'.steady = job.steady /\ KeyNow'
    <3>1. /\ job'.at = "makeSign" /\ job'.steady = job.steady /\ job'.config = job.config
          /\ job'.key = ForSerialize("master", job.config.enc)
      BY <1>8, <2>2, MakeEncTyped DEF End
    <3>2. ASSUME NEW config \in Configs, config = job'.config
          PROVE  job'.key = ForSerialize("master", config.enc)'
      <4>1. job'.key = ForSerialize("master", config.enc)
        BY <3>1, <3>2
      <4>2. QED
        BY <2>1, <4>1, SameKeys
    <3>3. QED
      BY <3>1, <3>2
  <2>3. QED
    BY <1>3, <2>1, <2>2
<1>9. CASE OpenSign
  <2>1. UNCHANGED <<Registry, saved, history>> /\ job # None
    BY <1>9, OpenSignTyped DEF OpenSign
  <2>2. job' # None => job'.steady = job.steady /\ job'.at = "makeEnc"
    BY <1>9, OpenSignTyped
  <2>3. QED
    BY <1>3, <2>1, <2>2
<1>10. CASE MakeSign
  <2>1. UNCHANGED Registry /\ job' = None
    BY <1>10, MakeSignTyped DEF MakeSign
  <2>2. CASE ~ ended'.ok
    <3>1. saved' = saved /\ history' = history
      BY <1>10, <2>2, MakeSignTyped
    <3>2. QED
      BY <1>1, <2>1, <3>1 DEF SteadyInv
  <2>3. CASE ended'.ok
    <3>1. PICK config \in Configs : config = job.config
      BY <1>10, MakeSignTyped
    <3>2. ASSUME history'.steady PROVE MadeBy(config)'
      <4>1. history'.steady = job.steady
        BY <1>10, <2>3, MakeSignTyped
      <4>2. job # None /\ job.at = "makeSign" /\ job.steady
        BY <1>10, <3>2, <4>1, MakeSignTyped
      <4>3. job.key = ForSerialize("master", config.enc)
        BY <3>1, <4>2 DEF SteadyInv
      <4> DEFINE enc  == ForSerialize("master", config.enc)
                 sign == ForSerialize("signing", config.sign)
      <4>4. /\ sign # None /\ FitToMake(enc) /\ FitToMake(sign)
            /\ saved' = [enc |-> InHeader(enc), sign |-> InHeader(sign), wrappedBy |-> enc.make,
                         signedBy |-> sign.make, algo |-> enc.alg]
            /\ history'.given = {w.given # None : w \in {config.enc, config.sign}}
            /\ history'.jku = [enc |-> config.enc.jku, sign |-> config.sign.jku]
        BY <1>10, <2>3, <3>1, <4>3, MakeSignTyped
      <4>5. enc # None
        <5>1. job.key \in KeyMaterials
          BY <1>10, MakeSignTyped DEF JobOK
        <5>2. QED
          BY <4>3, <5>1, KeysTyped
      <4>6. enc' = enc /\ sign' = sign
        BY <2>1, SameKeys
      <4> DEFINE Made(e, s) ==
              /\ e # None /\ s # None /\ FitToMake(e) /\ FitToMake(s)
              /\ saved' = [enc |-> InHeader(e), sign |-> InHeader(s), wrappedBy |-> e.make,
                           signedBy |-> s.make, algo |-> e.alg]
              /\ history'.given = {w.given # None : w \in {config.enc, config.sign}}
              /\ history'.jku = [enc |-> config.enc.jku, sign |-> config.sign.jku]
      <4>7. Made(enc, sign)
        BY <4>4, <4>5
      <4>8. Made(enc', sign')
        <5> HIDE DEF Made, enc, sign
        <5> QED BY <4>6, <4>7
      <4>9. QED
        BY <4>8 DEF MadeBy, FitToMake, InHeader
    <3>3. QED
      BY <2>1, <3>2 DEF SteadyInv
  <2>4. ended'.ok \in BOOLEAN
    BY <1>10, MakeSignTyped
  <2>5. QED
    BY <2>2, <2>3, <2>4
<1>11. CASE Change
  BY <1>11, ChangeTyped DEF SteadyInv
<1>12. CASE UNCHANGED vars
  <2>1. UNCHANGED <<Registry, saved, history>> /\ job' = job
    BY <1>12 DEF vars, Registry
  <2>2. CASE job = None
    BY <1>1, <2>1, <2>2 DEF SteadyInv
  <2>3. CASE job # None
    <3>1. ASSUME job.steady PROVE KeyNow'
      <4>1. KeyNow
        BY <2>3, <3>1 DEF SteadyInv
      <4>2. /\ \A key, given : ForDeserialize("master", key, given)' = ForDeserialize("master", key, given)
            /\ \A want : ForSerialize("master", want)' = ForSerialize("master", want)
        BY <2>1, SameKeys
      <4>3. QED
        BY <2>1, <4>1, <4>2
    <3>2. QED
      BY <1>3, <2>1, <2>3, <3>1
  <2>4. QED
    BY <2>2, <2>3
<1>13. QED
  BY <1>4, <1>5, <1>6, <1>7, <1>8, <1>9, <1>10, <1>11, <1>12 DEF Next

LEMMA AnswerPair ==
    ASSUME SourcesOK, PairsMatch, NEW p \in Asked, NEW role \in Roles, NEW kid,
           NEW jku \in BOOLEAN, Answer(p, role, kid, jku) # None
    PROVE  IsPair(Answer(p, role, kid, jku))
<1>1. CASE p = "direct"
  <2> DEFINE i == Max(UnderName(Kty(role), NameOf(Kty(role), kid)))
  <2>1. /\ Answer(p, role, kid, jku) = direct[i].jwk
        /\ i \in UnderName(Kty(role), NameOf(Kty(role), kid))
    BY <1>1, DirectGives DEF Answer
  <2>2. i \in DOMAIN direct
    BY <2>1 DEF UnderName, OwnOf
  <2>3. direct \in DirectSets
    BY <2>2 DEF SourcesOK
  <2>4. QED
    BY <2>1, <2>2, <2>3 DEF PairsMatch
<1>2. ASSUME NEW keys \in KeySets, Answer(p, role, kid, jku) = SelectJwk(keys, Kty(role), kid)
      PROVE  IsPair(Answer(p, role, kid, jku))
  <2> DEFINE i == Min(HitsOf(keys, Kty(role), kid))
  <2>1. Answer(p, role, kid, jku) = keys[i] /\ i \in HitsOf(keys, Kty(role), kid)
    BY <1>2, Selects
  <2>2. i \in DOMAIN keys
    BY <2>1 DEF HitsOf
  <2>3. QED
    BY <2>1, <2>2 DEF PairsMatch
<1>3. CASE p = "env"
  BY <1>2, <1>3 DEF Answer, SourcesOK
<1>4. CASE p = "file"
  BY <1>2, <1>4 DEF Answer, SourcesOK
<1>5. QED
  BY <1>1, <1>3, <1>4 DEF Asked

LEMMA LookUpPair ==
    ASSUME SourcesOK, PairsMatch, NEW role \in Roles, NEW kid, NEW jku \in BOOLEAN,
           LookUp(role, kid, jku) # None
    PROVE  IsPair(LookUp(role, kid, jku))
<1>1. PICK m : /\ AnswersFirst(m, role, kid, jku)
               /\ LookUp(role, kid, jku) = Answer(Precedence[m], role, kid, jku)
  BY LookedUp
<1>2. Precedence[m] \in Asked /\ Answer(Precedence[m], role, kid, jku) # None
  BY <1>1, PrecedenceType DEF AnswersFirst
<1>3. QED
  BY <1>1, <1>2, AnswerPair

(* The key that made the file is the one its header leads to.               *)
LEMMA FoundAgain ==
    ASSUME SourcesOK, KidsAgree, PairsMatch,
           NEW make, NEW open, <<make, open>> \in {<<"master", "master">>, <<"signing", "verify">>},
           NEW want \in Wanted(Kty(make)), want.given = None,
           NEW key, key = ForSerialize(make, want), key # None, FitToMake(key),
           key.jku = want.jku
    PROVE  /\ ForDeserialize(open, InHeader(key), None) # None
           /\ ForDeserialize(open, InHeader(key), None).open = key.make
           /\ ForDeserialize(open, InHeader(key), None).alg = key.alg
<1> DEFINE jwk == LookUp(make, want.kid, want.jku)
<1>1. FromJwk(jwk, TRUE) /\ key = Overlay(jwk, want)
  BY DEF ForSerialize, ResolveKey, Overlay
<1>2. jwk # None /\ jwk.alg # Missing /\ FitToMake(jwk)
  BY <1>1 DEF FromJwk
<1>3. want.jku \in BOOLEAN /\ make \in Roles /\ open \in Roles
  BY DEF Wanted, Roles
<1>4. jwk \in KeyMaterials /\ IsPair(jwk)
  BY <1>2, <1>3, LookUpFits, LookUpPair, KeysTyped
<1>5. /\ key \in KeyMaterials
      /\ key.open = jwk.open /\ key.make = jwk.make /\ key.alg = jwk.alg
      /\ key.kid = IF want.kid # None THEN want.kid ELSE jwk.kid
  <2> HIDE DEF jwk
  <2> QED BY <1>1, <1>4, OverlayTyped
<1>6. LookUp(make, key.kid, want.jku) = jwk
  <2>1. CASE want.kid # None \/ jwk.kid = None
    BY <1>5, <2>1
  <2>2. CASE want.kid = None /\ jwk.kid # None
    BY <1>2, <1>3, <1>5, <2>2, LookUpAgain
  <2>3. QED
    BY <2>1, <2>2
<1>7. LookUp(open, key.kid, want.jku) = jwk
  <2>1. CASE make = "master" /\ open = "master"
    BY <1>6, <2>1
  <2>2. CASE make = "signing" /\ open = "verify"
    BY <1>2, <1>3, <1>6, <2>2, LookUpSigning
  <2>3. QED
    BY <2>1, <2>2
<1> HIDE DEF jwk
<1>8. FromJwk(jwk, FALSE)
  BY <1>2 DEF FromJwk, FitToMake, FitToOpen
<1>9. /\ InHeader(key) \in KeyMaterials /\ InHeader(key).kid = key.kid
      /\ InHeader(key).jku = want.jku /\ InHeader(key).alg = key.alg
  BY <1>5, HeaderTyped
<1>10. ForDeserialize(open, InHeader(key), None) = UpdateFromKey(InHeader(key), jwk)
  BY <1>7, <1>8, <1>9, ForDeserializeLooksUp
<1>11. /\ UpdateFromKey(InHeader(key), jwk) \in KeyMaterials
       /\ UpdateFromKey(InHeader(key), jwk).open = jwk.open
       /\ UpdateFromKey(InHeader(key), jwk).alg = key.alg
  BY <1>4, <1>5, <1>9, UpdateTyped
<1>12. jwk.open = key.make
  BY <1>2, <1>4, <1>5 DEF IsPair, FitToMake
<1>13. QED
  BY <1>10, <1>11, <1>12, KeysTyped

(* A file whose save saw no change opens with the keys of the registry.     *)
LEMMA SteadyOpens ==
    ASSUME TypeInv, SteadyInv, KidsAgree, PairsMatch, saved # None,
           history.steady, history.given = {FALSE},
           history.jku = [enc |-> saved.enc.jku, sign |-> saved.sign.jku]
    PROVE  /\ ForDeserialize("master", saved.enc, None) # None
           /\ Unwraps(ForDeserialize("master", saved.enc, None))
           /\ Verifies(ForDeserialize("verify", saved.sign, None))
<1>1. PICK config \in Configs : MadeBy(config)
  BY DEF SteadyInv
<1> DEFINE enc  == ForSerialize("master", config.enc)
           sign == ForSerialize("signing", config.sign)
<1>2. /\ enc # None /\ sign # None /\ FitToMake(enc) /\ FitToMake(sign)
      /\ saved = [enc |-> InHeader(enc), sign |-> InHeader(sign), wrappedBy |-> enc.make,
                  signedBy |-> sign.make, algo |-> enc.alg]
      /\ history.given = {w.given # None : w \in {config.enc, config.sign}}
      /\ history.jku = [enc |-> config.enc.jku, sign |-> config.sign.jku]
  BY <1>1 DEF MadeBy
<1>3. config.enc.given = None /\ config.sign.given = None
  <2>1. (config.enc.given # None) \in {FALSE} /\ (config.sign.given # None) \in {FALSE}
    BY <1>2
  <2>2. QED
    BY <2>1
<1>4. config.enc \in Wanted(Kty("master")) /\ config.sign \in Wanted(Kty("signing"))
  BY ConfigTyped DEF Kty
<1>5. enc \in KeyMaterials /\ sign \in KeyMaterials
  BY <1>2, <1>4, ForSerializeFits DEF TypeInv
<1> HIDE DEF enc, sign
<1>6. saved.enc = InHeader(enc) /\ saved.sign = InHeader(sign)
  BY <1>2
<1>7. enc.jku = config.enc.jku /\ sign.jku = config.sign.jku
  <2>1. InHeader(enc).jku = enc.jku /\ InHeader(sign).jku = sign.jku
    BY <1>5, HeaderTyped
  <2>2. QED
    BY <1>2, <1>6, <2>1
<1>8. /\ ForDeserialize("master", InHeader(enc), None) # None
      /\ ForDeserialize("master", InHeader(enc), None).open = enc.make
      /\ ForDeserialize("master", InHeader(enc), None).alg = enc.alg
  BY <1>2, <1>3, <1>4, <1>7, FoundAgain DEF TypeInv, enc
<1>9. /\ ForDeserialize("verify", InHeader(sign), None) # None
      /\ ForDeserialize("verify", InHeader(sign), None).open = sign.make
  BY <1>2, <1>3, <1>4, <1>7, FoundAgain DEF TypeInv, sign
<1>10. saved.wrappedBy = enc.make /\ saved.algo = enc.alg /\ saved.signedBy = sign.make
  BY <1>2
<1>11. QED
  BY <1>6, <1>8, <1>9, <1>10 DEF Unwraps, Verifies

LEMMA SavedOpensStep ==
    ASSUME TypeInv, SteadyInv, KidsAgree, PairsMatch, [Next]_vars,
           job # None, job' = None, job.op = "open", LooksUpBoth,
           history.steady, history.given = {FALSE},
           history.jku = [enc |-> saved.enc.jku, sign |-> saved.sign.jku]
    PROVE  ended'.ok
<1>1. CASE OpenEnc
  <2>1. saved # None /\ job.old.enc = None
    BY <1>1, OpenEncTyped DEF LooksUpBoth
  <2>2. ForDeserialize("master", saved.enc, job.old.enc) # None
    BY <2>1, SteadyOpens
  <2>3. job' \in Jobs
    BY <1>1, <2>2, OpenEncTyped
  <2>4. QED
    BY <2>3, NoneAssumption
<1>2. CASE OpenSign
  <2>1. saved # None /\ SavedOK /\ job.at = "openSign" /\ JobOK
    BY <1>2, OpenSignTyped
  <2>2. job.old.enc = None /\ job.old.sign = None
    BY DEF LooksUpBoth
  <2>3. job.steady
    BY DEF SteadyInv
  <2>4. job.key = ForDeserialize("master", saved.enc, None)
    <3>1. saved.enc \in KeyMaterials /\ None \in Given("oct")
      BY <2>1 DEF SavedOK, Files, Given
    <3>2. QED
      BY <2>1, <2>2, <2>3, <3>1 DEF SteadyInv
  <2>5. Verifies(ForDeserialize("verify", saved.sign, None)) /\ Unwraps(job.key)
    BY <2>1, <2>4, SteadyOpens
  <2>6. ended'.ok = (/\ Verifies(ForDeserialize("verify", saved.sign, job.old.sign))
                     /\ Unwraps(job.key))
    BY <1>2, OpenSignTyped
  <2>7. QED
    BY <2>2, <2>5, <2>6
<1>3. CASE MakeEnc \/ MakeSign
  BY <1>3, MakeEncTyped, MakeSignTyped DEF JobOK
<1>4. CASE Change
  BY <1>4, ChangeTyped, NoneAssumption
<1>5. CASE UNCHANGED vars
  BY <1>5 DEF vars
<1>6. ASSUME Begin PROVE FALSE
  BY <1>6 DEF Begin
<1>7. QED
  BY <1>1, <1>2, <1>3, <1>4, <1>5, <1>6 DEF Next, BeginSave, BeginOpen, BeginRewrap

LEMMA SteadyAlways == Spec => []SteadyInv
BY SteadyInit, SteadyStep, TypeAlways, PTL DEF Spec

(* What a save made with keys of the registry, an open without keys of its  *)
(* own opens as long as nothing has changed: for any providers, keys and    *)
(* kids, if keys are registered under the kids they bear and come in pairs, *)
(* and no JWK brought a jku into the header.                                *)
THEOREM SavedOpensCorrect ==
    ASSUME KidsAgree, PairsMatch
    PROVE  Spec => SavedOpens
<1>1. TypeInv /\ SteadyInv /\ [Next]_vars =>
        [job # None /\ job' = None /\ job.op = "open" /\ LooksUpBoth
         /\ history.steady /\ history.given = {FALSE}
         /\ history.jku = [enc |-> saved.enc.jku, sign |-> saved.sign.jku]
         => ended'.ok]_vars
  BY SavedOpensStep
<1>2. QED
  BY <1>1, TypeAlways, SteadyAlways, PTL DEF Spec, SavedOpens

-----------------------------------------------------------------------------
(* Rotation                                                                 *)

(* As long as a provider that is asked has the kid, a key is found, and it  *)
(* is one of those held under the kid.                                      *)
LEMMA KeptIsFound ==
    ASSUME SourcesOK, NEW role \in {"master", "verify"}, NEW kid, NEW jku \in BOOLEAN,
           NEW key, NEW algo, Kept(Kty(role), kid, key, algo)
    PROVE  LookUp(role, kid, jku) # None
<1>1. kid # None /\ role \in Roles
  BY DEF Kept, Roles
<1>2. ASSUME NEW i \in DOMAIN direct, direct[i].jwk.kty = Kty(role), direct[i].as = kid
      PROVE  LookUp(role, kid, jku) # None
  <2>1. i \in UnderName(Kty(role), NameOf(Kty(role), kid))
    BY <1>1, <1>2 DEF UnderName, OwnOf, NameOf
  <2>2. DirectKey(Kty(role), kid) # None
    BY <2>1, DirectGives
  <2>3. direct # <<>>
    BY <1>2
  <2>4. "direct" \in providers /\ sorted
    BY <2>3 DEF SourcesOK
  <2>5. 1 \in DOMAIN Precedence /\ Precedence[1] = "direct"
    BY <2>4 DEF Precedence
  <2>6. Answer(Precedence[1], role, kid, jku) # None
    BY <2>2, <2>5 DEF Answer
  <2>7. QED
    BY <2>4, <2>5, <2>6, SomeAnswer
<1>3. ASSUME "env" \in providers, envKeys # None,
             NEW i \in DOMAIN envKeys, envKeys[i].kty = Kty(role), envKeys[i].kid = kid
      PROVE  LookUp(role, kid, jku) # None
  <2>1. envKeys \in KeySets
    BY <1>3 DEF SourcesOK
  <2>2. i \in HitsOf(envKeys, Kty(role), kid)
    BY <1>3 DEF HitsOf
  <2>3. SelectJwk(envKeys, Kty(role), kid) # None
    BY <2>1, <2>2, Selects
  <2>4. PICK m \in DOMAIN Precedence : Precedence[m] = "env"
    <3>1. CASE sorted
      <4>1. 3 \in DOMAIN Precedence /\ Precedence[3] = "env"
        BY <3>1 DEF Precedence
      <4>2. QED
        BY <4>1
    <3>2. CASE ~sorted
      <4>1. 1 \in DOMAIN Precedence /\ Precedence[1] = "env"
        BY <3>2 DEF Precedence
      <4>2. QED
        BY <4>1
    <3>3. QED
      BY <3>1, <3>2
  <2>5. Answer(Precedence[m], role, kid, jku) # None
    BY <1>3, <2>3, <2>4 DEF Answer
  <2>6. QED
    BY <1>3, <2>4, <2>5, SomeAnswer
<1>4. QED
  BY <1>2, <1>3 DEF Kept

LEMMA KeptOpens ==
    ASSUME SourcesOK, NEW role \in {"master", "verify"}, NEW header \in KeyMaterials,
           NEW key \in Secrets, NEW algo, header.alg = algo, algo \in KnownAlgs(Kty(role)),
           Kept(Kty(role), header.kid, key, algo)
    PROVE  /\ ForDeserialize(role, header, None) # None
           /\ ForDeserialize(role, header, None).open = key
           /\ ForDeserialize(role, header, None).alg = algo
<1> DEFINE jwk == LookUp(role, header.kid, header.jku)
<1>1. header.jku \in BOOLEAN /\ role \in Roles
  BY DEF KeyMaterials, KeysOf, Roles
<1>2. jwk # None
  BY <1>1, KeptIsFound
<1>3. jwk \in Jwks /\ jwk.kty = Kty(role) /\ jwk \in Held(Kty(role), header.kid)
  BY <1>1, <1>2, LookUpFits DEF Kept
<1> HIDE DEF jwk
<1>4. jwk.alg \in {algo, Empty} /\ jwk.open = key
  BY <1>3 DEF Kept
<1>5. jwk.alg # Missing /\ key # None
  BY <1>4, KeysTyped, NoneAssumption DEF KnownAlgs
<1>6. jwk \in KeyMaterials /\ FromJwk(jwk, FALSE)
  <2>1. jwk \in KeyMaterials
    BY <1>3, <1>5, KeysTyped
  <2>2. FromJwk(jwk, FALSE)
    BY <1>2, <1>3, <1>4, <1>5 DEF FromJwk, FitToOpen
  <2>3. QED
    BY <2>1, <2>2
<1>7. ForDeserialize(role, header, None) = UpdateFromKey(header, jwk)
  BY <1>6, ForDeserializeLooksUp DEF jwk
<1>8. /\ UpdateFromKey(header, jwk) \in KeyMaterials
      /\ UpdateFromKey(header, jwk).open = key
      /\ UpdateFromKey(header, jwk).alg = algo
  BY <1>4, <1>6, UpdateTyped
<1>9. QED
  BY <1>7, <1>8, KeysTyped

LEMMA RotatedStep ==
    ASSUME TypeInv, SteadyInv, [Next]_vars,
           job # None, job' = None, job.op = "open", LooksUpBoth, job.steady,
           Kept("oct", saved.enc.kid, saved.wrappedBy, saved.algo),
           Kept("okp", saved.sign.kid, saved.signedBy, saved.sign.alg)
    PROVE  ended'.ok
<1>1. ASSUME saved # None, SavedOK
      PROVE  /\ ForDeserialize("master", saved.enc, None) # None
             /\ Unwraps(ForDeserialize("master", saved.enc, None))
             /\ Verifies(ForDeserialize("verify", saved.sign, None))
  <2>1. /\ saved.enc \in KeyMaterials /\ saved.sign \in KeyMaterials
        /\ saved.wrappedBy \in Secrets /\ saved.signedBy \in Secrets
        /\ saved.enc.alg = saved.algo /\ saved.algo \in EncAlgs /\ saved.sign.alg \in SignAlgs
    BY <1>1 DEF SavedOK, Files
  <2>2. saved.algo \in KnownAlgs(Kty("master")) /\ saved.sign.alg \in KnownAlgs(Kty("verify"))
    BY <2>1 DEF KnownAlgs, Kty
  <2>3. /\ Kept(Kty("master"), saved.enc.kid, saved.wrappedBy, saved.algo)
        /\ Kept(Kty("verify"), saved.sign.kid, saved.signedBy, saved.sign.alg)
    BY DEF Kty
  <2>4. /\ ForDeserialize("master", saved.enc, None) # None
        /\ ForDeserialize("master", saved.enc, None).open = saved.wrappedBy
        /\ ForDeserialize("master", saved.enc, None).alg = saved.algo
    BY <2>1, <2>2, <2>3, KeptOpens DEF TypeInv
  <2>5. /\ ForDeserialize("verify", saved.sign, None) # None
        /\ ForDeserialize("verify", saved.sign, None).open = saved.signedBy
    BY <2>1, <2>2, <2>3, KeptOpens DEF TypeInv
  <2>6. QED
    BY <2>4, <2>5 DEF Unwraps, Verifies
<1>2. CASE OpenEnc
  <2>1. saved # None /\ SavedOK /\ job.old.enc = None
    BY <1>2, OpenEncTyped DEF LooksUpBoth
  <2>2. ForDeserialize("master", saved.enc, job.old.enc) # None
    BY <1>1, <2>1
  <2>3. job' \in Jobs
    BY <1>2, <2>2, OpenEncTyped
  <2>4. QED
    BY <2>3, NoneAssumption
<1>3. CASE OpenSign
  <2>1. saved # None /\ SavedOK /\ job.at = "openSign"
    BY <1>3, OpenSignTyped
  <2>2. job.old.enc = None /\ job.old.sign = None
    BY DEF LooksUpBoth
  <2>3. job.key = ForDeserialize("master", saved.enc, None)
    <3>1. saved.enc \in KeyMaterials /\ None \in Given("oct")
      BY <2>1 DEF SavedOK, Files, Given
    <3>2. QED
      BY <2>1, <2>2, <3>1 DEF SteadyInv
  <2>4. Verifies(ForDeserialize("verify", saved.sign, None)) /\ Unwraps(job.key)
    BY <1>1, <2>1, <2>3
  <2>5. ended'.ok = (/\ Verifies(ForDeserialize("verify", saved.sign, job.old.sign))
                     /\ Unwraps(job.key))
    BY <1>3, OpenSignTyped
  <2>6. QED
    BY <2>2, <2>4, <2>5
<1>4. CASE MakeEnc \/ MakeSign
  BY <1>4, MakeEncTyped, MakeSignTyped DEF JobOK
<1>5. CASE Change
  BY <1>5, ChangeTyped, NoneAssumption
<1>6. CASE UNCHANGED vars
  BY <1>6 DEF vars
<1>7. ASSUME Begin PROVE FALSE
  BY <1>7 DEF Begin
<1>8. QED
  BY <1>2, <1>3, <1>4, <1>5, <1>6, <1>7 DEF Next, BeginSave, BeginOpen, BeginRewrap

(* A file opens whenever the kids in its header still stand for its keys    *)
(* and a provider that is asked has them: whatever else the providers hold, *)
(* in whatever order they are asked, and whoever made the file with what.   *)
THEOREM RotatedKeysCorrect == Spec => RotatedKeysOpen
<1>1. TypeInv /\ SteadyInv /\ [Next]_vars =>
        [job # None /\ job' = None /\ job.op = "open" /\ LooksUpBoth
         /\ job.steady
         /\ Kept("oct", saved.enc.kid, saved.wrappedBy, saved.algo)
         /\ Kept("okp", saved.sign.kid, saved.signedBy, saved.sign.alg)
         => ended'.ok]_vars
  BY RotatedStep
<1>2. QED
  BY <1>1, TypeAlways, SteadyAlways, PTL DEF Spec, RotatedKeysOpen
=============================================================================
