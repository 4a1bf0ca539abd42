--------------------------- MODULE MCKeyResolution ---------------------------
(* KeyResolution on a small instance: see the .cfg files. *)
EXTENDS KeyResolution

CONSTANTS k1, k2, s1, s2, aes, chacha, ed

Enc(kid, secret, alg) ==
    [kty |-> "oct", kid |-> kid, jku |-> FALSE, alg |-> alg, open |-> secret, make |-> secret]
Sign(kid, secret) ==
    [kty |-> "okp", kid |-> kid, jku |-> FALSE, alg |-> ed, open |-> secret, make |-> secret]
Verify(kid, secret) == [Sign(kid, secret) EXCEPT !.make = None]

(* A rotation: k1 by s1, then k2 by s2 in front of it; a key under a kid it *)
(* does not bear itself; an encryption key of the other algorithm under the *)
(* kid of a signing key; a key pair whose private half is not there.        *)
MCDirectSets ==
    {<<[as |-> k1, jwk |-> Enc(k1, s1, aes)], [as |-> k1, jwk |-> Sign(k1, s1)]>>,
     <<[as |-> k2, jwk |-> Enc(k2, s2, aes)], [as |-> k1, jwk |-> Enc(None, s1, aes)],
       [as |-> k2, jwk |-> Sign(k2, s2)], [as |-> k1, jwk |-> Sign(k1, s1)]>>,
     <<[as |-> k2, jwk |-> Enc(k2, s1, chacha)], [as |-> k1, jwk |-> Sign(k1, s1)]>>,
     <<[as |-> k1, jwk |-> Verify(k1, s1)]>>}

MCKeySets ==
    {<<Enc(k1, s1, Empty), Verify(k1, s1)>>,
     <<Enc(k2, s2, aes), [Enc(k1, s1, aes) EXCEPT !.jku = TRUE], Sign(k2, s2)>>}

MCGivenKeys == {Enc(k1, s1, aes), Sign(k1, s1)}

With(key) == [given |-> key, kid |-> None, jku |-> FALSE]
Named(kid, jku) == [given |-> None, kid |-> kid, jku |-> jku]

(* Both keys given, one of them, or both looked up: by one kid or none, and *)
(* with a jku.                                                              *)
MCConfigs ==
    {[enc |-> e, sign |-> s] :
        e \in {With(Enc(k1, s1, aes)), Named(None, FALSE), Named(k1, FALSE)},
        s \in {With(Sign(k1, s1)), Named(None, FALSE)}}
    \cup {[enc |-> Named(k2, TRUE), sign |-> Named(k1, FALSE)]}

(* What the theorem about SavedOpens takes for granted *)
ASSUME KeysInOrder == KidsAgree /\ PairsMatch
=============================================================================
