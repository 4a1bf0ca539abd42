---------------------------- MODULE EncryptedFile ----------------------------
(***************************************************************************)
(* What an encrypted file promises its users, with no cryptography in it:  *)
(* a file is a generation of contents with a set of secret tensors and one *)
(* pair of keys; exactly that pair opens it (if its policy allows); every  *)
(* read of a tensor whose bytes are intact answers what was saved; a       *)
(* rewrap changes the pair and nothing else; and reading a damaged secret  *)
(* tensor is an error, except through the iterator.                        *)
(* CryptoTensors implements this module.                                   *)
(***************************************************************************)
EXTENDS Naturals

CONSTANTS Tensors, EncKeys, SignKeys, MaxSaves, None, Garbage

VARIABLES
    file,     \* the file's contents and keys, None before the first save
    handle,   \* the opened file, or None
    saves, reply

Said(call, ok) == [call |-> call, name |-> None, ok |-> ok, got |-> None]

Answer(call, t, ok, v) == [call |-> call, name |-> t, ok |-> ok, got |-> v]

Keys == EncKeys \X SignKeys

(* What a file and a handle may be                                          *)
Files == [ver : 1 .. MaxSaves, secret : SUBSET Tensors, damaged : SUBSET Tensors,
          keys : Keys \cup {None}, policy : BOOLEAN]

Handles == [of : Files, rewrapped : BOOLEAN]

Init ==
    /\ file = None
    /\ handle = None
    /\ saves = 0
    /\ reply = Said("none", TRUE)

(* A save replaces the file by the next generation, or fails and does not   *)
(* touch it.                                                                *)
Save(secret, keys, policy) ==
    /\ saves < MaxSaves
    /\ \/ /\ file' = [ver |-> saves + 1, secret |-> secret, damaged |-> {},
                      keys |-> IF secret = {} THEN None ELSE keys,
                      policy |-> secret = {} \/ policy]
          /\ saves' = saves + 1
          /\ reply' = Said("save", TRUE)
       \/ /\ reply' = Said("save", FALSE)
          /\ UNCHANGED <<file, saves>>
    /\ UNCHANGED handle

Damage(t) ==
    /\ file # None
    /\ file' = [file EXCEPT !.damaged = @ \cup {t}]
    /\ reply' = Said("none", TRUE)
    /\ UNCHANGED <<handle, saves>>

(* The right keys always open the file, any other pair never does. *)
Open(keys) ==
    /\ file # None
    /\ LET ok == file.keys = None \/ (file.keys = keys /\ file.policy)
       IN  /\ handle' = IF ok THEN [of |-> file, rewrapped |-> FALSE] ELSE None
           /\ reply' = Said("open", ok)
    /\ UNCHANGED <<file, saves>>

Close ==
    /\ handle # None
    /\ handle' = None
    /\ reply' = Said("none", TRUE)
    /\ UNCHANGED <<file, saves>>

Read(call, t) ==
    /\ handle # None
    /\ LET h == handle.of
       IN  reply' = IF t \notin h.damaged THEN Answer(call, t, TRUE, <<t, h.ver>>)
                    ELSE IF call = "tensor" /\ t \in h.secret
                         THEN Answer(call, t, FALSE, None)
                         ELSE Answer(call, t, TRUE, Garbage)
    /\ UNCHANGED <<file, handle, saves>>

(* A rewrap is complete or the handle is gone; a plain file has no keys to  *)
(* change.                                                                  *)
Rewrap(keys, policy) ==
    /\ handle # None
    /\ \/ /\ handle.of.keys # None
          /\ handle' = [of |-> [handle.of EXCEPT !.keys = keys, !.policy = policy],
                        rewrapped |-> TRUE]
          /\ reply' = Said("rewrap", TRUE)
       \/ /\ handle' = IF handle.of.keys = None THEN handle ELSE None
          /\ reply' = Said("rewrap", FALSE)
    /\ UNCHANGED <<file, saves>>

(* A rewrapped file is written back once per rewrap. *)
WriteBack ==
    /\ handle # None
    /\ handle.of.keys # None
    /\ IF handle.rewrapped
       THEN /\ file' = handle.of
            /\ handle' = [handle EXCEPT !.rewrapped = FALSE]
            /\ reply' = Said("write", TRUE)
       ELSE /\ reply' = Said("write", FALSE)
            /\ UNCHANGED <<file, handle>>
    /\ UNCHANGED saves

Next ==
    \/ \E secret \in SUBSET Tensors, keys \in Keys, policy \in BOOLEAN :
          Save(secret, keys, policy)
    \/ \E t \in Tensors : Damage(t)
    \/ \E keys \in Keys : Open(keys)
    \/ Close
    \/ \E call \in {"tensor", "iter"}, t \in Tensors : Read(call, t)
    \/ \E keys \in Keys, policy \in BOOLEAN : Rewrap(keys, policy)
    \/ WriteBack

Spec == Init /\ [][Next]_<<file, handle, saves, reply>>

=============================================================================
