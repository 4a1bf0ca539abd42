------------------------------ MODULE MCSafeOpen ------------------------------
(* SafeOpen on a small instance: see safe_open.cfg and plain_slice.cfg.    *)
EXTENDS SafeOpen

CONSTANTS t1, t2, o1

MCOrder == <<t1, t2>>

(* Versions on both sides of what Open::new compares with *)
MCFrameworks ==
    {[name |-> "numpy", version |-> <<1, 26, 4>>],
     [name |-> "torch", version |-> <<1, 10, 2>>],
     [name |-> "torch", version |-> <<2, 0, 0>>],
     [name |-> "paddle", version |-> <<3, 1, 1>>]}
==============================================================================
