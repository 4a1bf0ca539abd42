--------------------------- MODULE MCChunkedCipher ---------------------------
(* ChunkedCipher on a small instance: see chunks.cfg.                      *)
EXTENDS ChunkedCipher

MCSizes == {None, 1, 2, 3}
==============================================================================
