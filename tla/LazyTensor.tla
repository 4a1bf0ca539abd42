----------------------------- MODULE LazyTensor -----------------------------
(***************************************************************************)
(* What callers may expect of a lazily decrypted tensor: a call returns    *)
(* the plaintext or an error, and once one call has returned the plaintext *)
(* no call returns an error.  SingleCryptor implements this module.        *)
(***************************************************************************)
CONSTANT Calls

VARIABLES cached, result

vars == <<cached, result>>

Init ==
    /\ cached = FALSE
    /\ result = [c \in Calls |-> "pending"]

Succeed(c) ==
    /\ result[c] = "pending"
    /\ cached' = TRUE
    /\ result' = [result EXCEPT ![c] = "plaintext"]

Fail(c) ==
    /\ result[c] = "pending"
    /\ ~cached
    /\ result' = [result EXCEPT ![c] = "error"]
    /\ UNCHANGED cached

Return(c) == Succeed(c) \/ Fail(c)

Next == \E c \in Calls : Return(c)

Spec == Init /\ [][Next]_vars

=============================================================================
