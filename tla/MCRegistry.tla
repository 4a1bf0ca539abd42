----------------------------- MODULE MCRegistry -----------------------------
(* Registry on a small instance: see registry.cfg. *)
EXTENDS Registry, TLC

CONSTANTS d1, d2, n1, k1, k2, th1

Enc(kid)  == [kty |-> "oct", kid |-> kid]
Sign(kid) == [kty |-> "okp", kid |-> kid]

(* d2 replaces d1's encryption key by another id and has no signing key. *)
MCHolds == d1 :> <<Enc(k1), Sign(k1)>> @@ d2 :> <<Enc(k2)>> @@ n1 :> <<Enc(k1), Sign(k2)>>

MCNativeName == n1 :> "native"

MCKeySets == {<<Enc(k1), Sign(k1)>>, <<Sign(k2)>>}
=============================================================================
