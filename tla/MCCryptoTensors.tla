--------------------------- MODULE MCCryptoTensors ---------------------------
(* CryptoTensors on a small instance: see the .cfg files. *)
EXTENDS CryptoTensors, TLC

CONSTANTS t1, t2, e1, e2, e3, s1, s2, bad

(* Two keys of one algorithm, one of another  *)
Algs == [k \in EncKeys |-> IF k = e3 THEN "other" ELSE "plain"]
=============================================================================
