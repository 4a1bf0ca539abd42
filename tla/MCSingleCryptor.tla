--------------------------- MODULE MCSingleCryptor ---------------------------
(* SingleCryptor on a small instance: see the .cfg files. *)
EXTENDS SingleCryptor, TLC

CONSTANTS c1, c2, c3, w1, w2

(* All calls are made by threads of their own, or all by tasks of the pool. *)
ThreadsOrTasks == {{}, Calls}
TasksOnly      == {Calls}
=============================================================================
