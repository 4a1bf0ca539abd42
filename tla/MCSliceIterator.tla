--------------------------- MODULE MCSliceIterator ---------------------------
(* SliceIterator on small tensors: see slices.cfg and slice_empty.cfg.     *)
EXTENDS SliceIterator

CONSTANTS MaxRank, MaxAt

(* Elements of 4 bits (two to a byte), 6 bits (four to three bytes) and    *)
(* one byte, over shapes that do and do not divide evenly; a dimension of  *)
(* size 0 and one of size 1.                                               *)
Shapes == {<<2>>, <<0>>, <<4>>, <<2, 3>>, <<3, 2>>, <<1, 2>>, <<4, 2>>, <<2, 0>>, <<2, 3, 2>>}
MCViews == [shape : {s \in Shapes : Len(s) <= MaxRank}, bits : {4, 6, 8}]

(* The largest usize is among the bounds.                                  *)
UsizeMax == Limit - 1

MCIndexers ==
    {Select(n) : n \in (0..MaxAt) \cup {UsizeMax}}
    \cup {Narrow(lo, hi) :
             lo \in {Unbounded, Excluded(0), Excluded(UsizeMax)} \cup {Included(n) : n \in 0..MaxAt},
             hi \in {Unbounded, Included(0), Included(UsizeMax)} \cup {Excluded(n) : n \in 0..MaxAt}}

(* Three indexers at a time take their dimensions from fewer indexers.     *)
FewIndexers ==
    {Select(1), Narrow(Unbounded, Unbounded), Narrow(Included(0), Excluded(1)),
     Narrow(Included(1), Excluded(1)), Narrow(Included(1), Excluded(2))}

PyItems ==
    {PyInt(n) : n \in -2..2}
    \cup {PySlice(a, b, None) : a \in {None, 0, 1}, b \in {None, -1, 1, 2}}
    \cup {PySlice(None, None, 2), PySlice(1, UsizeMax, None), PySlice(0, Limit, None)}

UpTo(S, n) == UNION {[1..k -> S] : k \in 0..n}

MCRequests ==
    {RustRequest(ixs) : ixs \in UpTo(MCIndexers, 2) \cup UpTo(FewIndexers, MaxRank + 1)}
    \cup {PythonRequest(items) : items \in UpTo(PyItems, 2)}

(* Requests of the Rust API whose ranges do not end before they begin.     *)
MCOrdered ==
    {RustRequest(ixs) : ixs \in UpTo(FewIndexers, 2)}
==============================================================================
