---------------------------- MODULE SliceIterator ----------------------------
(**************************************************************************)
(* Slicing a tensor into the byte ranges that hold the asked elements:    *)
(* SliceIterator (src/safetensors/src/slice.rs) and the Python indexing   *)
(* that feeds it (PySafeSlice::__getitem__ over memory-mapped bytes,      *)
(* src/bindings/python/src/lib.rs).                                       *)
(*                                                                        *)
(* SliceIterator::new walks the dimensions from the innermost to the      *)
(* outermost, one step of this module each.  span is the size in bits of  *)
(* one index of the current dimension.  While every dimension seen so far *)
(* is taken whole, indices stays empty; the first partial dimension       *)
(* starts it with one byte range, every later one repeats the ranges it   *)
(* has for each of its own indices.  next() then hands them out.          *)
(*                                                                        *)
(* Byte contents play no part: a chunk is its pair of byte offsets in the *)
(* tensor, as in the code.  A bound is any usize, the largest included,   *)
(* and the 1 the code adds to one is not checked.                         *)
(**************************************************************************)
EXTENDS Naturals, Integers, FiniteSets, Sequences, SequencesExt, FiniteSetsExt

CONSTANTS
    None,           \* an absent start, stop or step of a Python slice
    Views,          \* the tensors: records [shape, bits], bits per element
    Requests,       \* RustRequest and PythonRequest records
    Builds,         \* the builds considered: TRUE checks usize arithmetic
                    \* (debug), FALSE wraps it (release)
    Limit           \* one more than the largest usize

VARIABLES
    checked,    \* the build that runs
    view,       \* the TensorView being sliced
    request,    \* what the caller asked for
    index,      \* the slice of TensorIndexer given to SliceIterator::new
    dim,        \* the dimensions not walked yet; the next one walked
    span,       \* bits of one index of dimension dim
    indices,    \* the byte ranges found so far
    newshape,   \* the shape of the result
    result,     \* "asked", "slicing", "ok", an error or "panic"
    given       \* the chunks next() has returned

vars == <<checked, view, request, index, dim, span, indices, newshape, result, given>>

(**************************************************************************)
(* core::ops::Bound, TensorIndexer and the conversions into it            *)
(**************************************************************************)
Unbounded   == [kind |-> "Unbounded", at |-> 0]
Included(n) == [kind |-> "Included", at |-> n]
Excluded(n) == [kind |-> "Excluded", at |-> n]

(* TensorIndexer::Select and ::Narrow in one record                        *)
Select(n)      == [select |-> TRUE, lo |-> Included(n), hi |-> Included(n)]
Narrow(lo, hi) == [select |-> FALSE, lo |-> lo, hi |-> hi]

(* A Rust caller hands over indexers, a Python one a tuple of ints         *)
(* (int TRUE, the value in start) and slices.                              *)
RustRequest(ixs)     == [python |-> FALSE, items |-> ixs]
PythonRequest(items) == [python |-> TRUE, items |-> items]
PyInt(n)             == [int |-> TRUE, start |-> n, stop |-> None, step |-> None]
PySlice(a, b, c)     == [int |-> FALSE, start |-> a, stop |-> b, step |-> c]

Bounds   == [kind : {"Unbounded", "Included", "Excluded"}, at : 0..(Limit - 1)]
Indexers == [select : BOOLEAN, lo : Bounds, hi : Bounds]
Items    == [int : BOOLEAN, start : Int \cup {None}, stop : Int \cup {None},
             step : (Nat \ {0}) \cup {None}]

ASSUME SliceAssumption ==
    /\ Builds \subseteq BOOLEAN
    /\ Limit \in Nat \ {0}
    /\ None \notin Int
    /\ \A v \in Views : v.shape \in Seq(0..(Limit - 1)) /\ v.bits \in Nat \ {0}
    /\ \A r \in Requests :
          IF r.python
          THEN /\ r.items \in Seq(Items)
               /\ \A d \in DOMAIN r.items :
                     r.items[d].int => /\ r.items[d].start # None
                                       /\ r.items[d].start < Limit - 1  \* an i32
          ELSE /\ r.items \in Seq(Indexers)
               /\ \A d \in DOMAIN r.items :
                     r.items[d].select => r.items[d] = Select(r.items[d].lo.at)

(* The product of the last k numbers of a sequence, and of all of them     *)
Inner(s, k) ==
    LET p[j \in 0..Len(s)] == IF j = 0 THEN 1 ELSE p[j - 1] * s[Len(s) - j + 1]
    IN  p[k]
Product(s) == Inner(s, Len(s))

(* The bits of every view fit in a usize, and so do those of each of its   *)
(* dimensions: of a tensor without elements the code would not notice.     *)
ASSUME SizeAssumption ==
    \A v \in Views : \A k \in 0..Len(v.shape) : v.bits * Inner(v.shape, k) < Limit

(* n + 1 on usize, in the build that wraps                                 *)
PlusOne(n) == (n + 1) % Limit

Begin(ix) == CASE ix.lo.kind = "Unbounded" -> 0
               [] ix.lo.kind = "Included"  -> ix.lo.at
               [] ix.lo.kind = "Excluded"  -> PlusOne(ix.lo.at)

(* Mutant: an inclusive end is taken for an exclusive one.                 *)
EndExclusive(ix, size) == IF ix.hi.kind = "Unbounded" THEN size ELSE ix.hi.at

End(ix, size) == CASE ix.hi.kind = "Unbounded" -> size
                    [] ix.hi.kind = "Excluded"  -> ix.hi.at
                    [] ix.hi.kind = "Included"  -> PlusOne(ix.hi.at)

(* A bound whose 1 carries it past the largest usize                       *)
PastLimit(ix) ==
    \/ ix.lo.kind = "Excluded" /\ ix.lo.at = Limit - 1
    \/ ix.hi.kind = "Included" /\ ix.hi.at = Limit - 1

(* slice_to_indexer: a negative int counts from the end; a bound of a      *)
(* slice that is no usize does not convert; the step is not looked at.     *)
Convertible(item, size) ==
    IF item.int THEN size + item.start >= 0
    ELSE \A n \in {item.start, item.stop} \ {None} : n >= 0 /\ n < Limit

ToIndexer(item, size) ==
    IF item.int
    THEN Select(IF item.start < 0 THEN size + item.start ELSE item.start)
    ELSE Narrow(IF item.start = None THEN Unbounded ELSE Included(item.start),
                IF item.stop = None THEN Unbounded ELSE Excluded(item.stop))

------------------------------------------------------------------------------

Rank == Len(view.shape)

DataLen == (Product(view.shape) * view.bits) \div 8

(* TensorView::new refuses a tensor that does not end on a byte.           *)
ByteAligned(v) == (Product(v.shape) * v.bits) % 8 = 0

Init ==
    /\ checked \in Builds
    /\ view \in {v \in Views : ByteAligned(v)}
    /\ request \in Requests
    /\ index = <<>>
    /\ dim = Len(view.shape)
    /\ span = view.bits
    /\ indices = <<>>
    /\ newshape = <<>>
    /\ result = "asked"
    /\ given = <<>>

Answer(r) ==
    /\ result' = r
    /\ UNCHANGED <<checked, view, request, index, dim, span, indices, newshape, given>>

(* IndexOp::slice and TensorView::sliced_data pass the indexers as given.  *)
RustSlice ==
    /\ result = "asked"
    /\ ~request.python
    /\ index' = request.items
    /\ result' = "slicing"
    /\ UNCHANGED <<checked, view, request, dim, span, indices, newshape, given>>

(* __getitem__ zips the items with the shape, so that items beyond the     *)
(* last dimension are dropped, and converts each one.                      *)
Zipped == SubSeq(request.items, 1, Min({Len(request.items), Rank}))

PythonSlice ==
    /\ result = "asked"
    /\ request.python
    /\ \A d \in DOMAIN Zipped : Convertible(Zipped[d], view.shape[d])
    /\ index' = [d \in DOMAIN Zipped |-> ToIndexer(Zipped[d], view.shape[d])]
    /\ result' = "slicing"
    /\ UNCHANGED <<checked, view, request, dim, span, indices, newshape, given>>

PythonRefused ==
    /\ result = "asked"
    /\ request.python
    /\ \E d \in DOMAIN Zipped : ~Convertible(Zipped[d], view.shape[d])
    /\ Answer("InvalidIndex")

------------------------------------------------------------------------------
(* SliceIterator::new                                                      *)

TooMany ==
    /\ result = "slicing"
    /\ dim = Rank
    /\ Len(index) > Rank
    /\ Answer("TooManySlices")

Walking == result = "slicing" /\ dim > 0 /\ Len(index) <= Rank

extent == view.shape[dim]
from == Begin(index[dim])
to   == End(index[dim], extent)

(* One turn of the loop that leaves the indices i and adds n to newshape.  *)
Turn(i, n) ==
    /\ indices' = i
    /\ newshape' = newshape \o n
    /\ span' = span * extent
    /\ dim' = dim - 1
    /\ UNCHANGED <<checked, view, request, index, result, given>>

(* A dimension without an indexer *)
Widen ==
    /\ Walking
    /\ dim > Len(index)
    /\ Turn(indices, <<extent>>)

(* *s + 1 or *stop + 1 past the largest usize: a debug build panics before *)
(* it compares anything, a release build goes on with 0.                   *)
Overflows ==
    /\ Walking
    /\ dim <= Len(index)
    /\ checked /\ PastLimit(index[dim])
    /\ Answer("panic")

Converts == Walking /\ dim <= Len(index) /\ ~(checked /\ PastLimit(index[dim]))

(* Mutant: the end is compared like the start.                             *)
OutOfBoundsAtEnd == from >= extent \/ to >= extent

OutOfBounds == from >= extent \/ to > extent

OutOfRange ==
    /\ Converts
    /\ OutOfBounds
    /\ Answer("SliceOutOfRange")

InBounds == Converts /\ ~OutOfBounds

(* Mutant: the difference is signed.                                       *)
KeptSigned == IF index[dim].select THEN <<>> ELSE <<to - from>>

(* newshape.push(stop - start), for a Narrow whose ends are not reversed,  *)
(* or reversed in a build that wraps                                       *)
Kept == IF index[dim].select THEN <<>> ELSE <<(to - from) % Limit>>

(* stop - start on usize: a debug build panics in newshape.push, a release *)
(* build when it reserves a vector of the wrapped capacity.                *)
Reversed ==
    /\ InBounds
    /\ to < from
    /\ checked \/ indices # <<>>
    /\ Answer("panic")

Subtracts == InBounds /\ (from <= to \/ (~checked /\ indices = <<>>))

(* The whole dimension, and no cut inside it *)
Whole ==
    /\ Subtracts
    /\ indices = <<>>
    /\ from = 0 /\ to = extent
    /\ Turn(<<>>, Kept)

(* The first partial dimension: one range of bytes *)
FirstCut ==
    /\ Subtracts
    /\ indices = <<>>
    /\ ~(from = 0 /\ to = extent)
    /\ (from * span) % 8 = 0 /\ (to * span) % 8 = 0
    /\ Turn(<<<<(from * span) \div 8, (to * span) \div 8>>>>, Kept)

(* Mutant: the outer index varies fastest.                                 *)
RepeatedInnerFirst ==
    [k \in 1..((to - from) * Len(indices)) |->
        LET n   == from + ((k - 1) % (to - from))
            old == indices[((k - 1) \div (to - from)) + 1]
            off == (n * span) \div 8
        IN  <<old[1] + off, old[2] + off>>]

(* The ranges found so far, once for each index n of this dimension        *)
Repeated ==
    [k \in 1..((to - from) * Len(indices)) |->
        LET n   == from + ((k - 1) \div Len(indices))
            old == indices[((k - 1) % Len(indices)) + 1]
            off == (n * span) \div 8
        IN  <<old[1] + off, old[2] + off>>]

Repeat ==
    /\ Subtracts
    /\ indices # <<>>
    /\ \A n \in from..(to - 1) : (n * span) % 8 = 0
    /\ Turn(Repeated, Kept)

Misaligned ==
    /\ Subtracts
    /\ IF indices = <<>>
       THEN /\ ~(from = 0 /\ to = extent)
            /\ (from * span) % 8 # 0 \/ (to * span) % 8 # 0
       ELSE \E n \in from..(to - 1) : (n * span) % 8 # 0
    /\ Answer("MisalignedSlice")

(* Nothing was cut: the whole buffer.  Both vectors are turned round, the  *)
(* first for next() to pop from its end.                                   *)
Finish ==
    /\ result = "slicing"
    /\ dim = 0
    /\ Len(index) <= Rank
    /\ indices' = Reverse(IF indices = <<>> THEN <<<<0, DataLen>>>> ELSE indices)
    /\ newshape' = Reverse(newshape)
    /\ result' = "ok"
    /\ UNCHANGED <<checked, view, request, index, dim, span, given>>

------------------------------------------------------------------------------
(* Iterator::next: data()[start..stop] panics when start > stop.           *)
NextChunk ==
    /\ result = "ok"
    /\ indices # <<>>
    /\ indices' = Front(indices)
    /\ IF Last(indices)[1] <= Last(indices)[2]
       THEN given' = Append(given, Last(indices)) /\ UNCHANGED result
       ELSE result' = "panic" /\ UNCHANGED given
    /\ UNCHANGED <<checked, view, request, index, dim, span, newshape>>

(* remaining_byte_len *)
RemainingByteLen ==
    LET n[k \in 0..Len(indices)] ==
            IF k = 0 THEN 0 ELSE n[k - 1] + indices[k][2] - indices[k][1]
    IN  n[Len(indices)]

Next ==
    \/ RustSlice \/ PythonSlice \/ PythonRefused
    \/ TooMany \/ Widen \/ Overflows \/ OutOfRange \/ Reversed
    \/ Whole \/ FirstCut \/ Repeat \/ Misaligned \/ Finish
    \/ NextChunk

Spec == Init /\ [][Next]_vars

------------------------------------------------------------------------------
(* What the caller meant, from the request alone                           *)

(* The indices of dimension d a Rust caller names, by Bound's meaning      *)
RustChosen(d) ==
    LET ix == request.items[d]
    IN  {n \in 0..(view.shape[d] - 1) :
            /\ ix.lo.kind = "Included" => n >= ix.lo.at
            /\ ix.lo.kind = "Excluded" => n > ix.lo.at
            /\ ix.hi.kind = "Included" => n <= ix.hi.at
            /\ ix.hi.kind = "Excluded" => n < ix.hi.at}

(* ... and a Python caller, by Python's own rules for ints and slices      *)
PythonChosen(d) ==
    LET it == request.items[d]
        n  == view.shape[d]
        Clip(x, default) == IF x = None THEN default
                            ELSE IF x < 0 THEN Max({0, n + x}) ELSE x
        step == IF it.step = None THEN 1 ELSE it.step
        a == Clip(it.start, 0)
    IN  IF it.int THEN {IF it.start < 0 THEN n + it.start ELSE it.start} \cap 0..(n - 1)
        ELSE {i \in 0..(n - 1) : i >= a /\ i < Clip(it.stop, n) /\ (i - a) % step = 0}

Asked(d) == d <= Len(request.items)

Chosen(d) == IF ~Asked(d) THEN 0..(view.shape[d] - 1)
             ELSE IF request.python THEN PythonChosen(d) ELSE RustChosen(d)

Dropped(d) == Asked(d) /\ IF request.python THEN request.items[d].int
                          ELSE request.items[d].select

(* The bits one index of dimension d spans                                 *)
Stride(d) == view.bits * Inner(view.shape, Rank - d)

(* The positions, in bits, of the selected elements                        *)
WantedBits ==
    {b \in 0..(view.bits * Product(view.shape) - 1) :
        \A d \in 1..Rank : ((b \div Stride(d)) % view.shape[d]) \in Chosen(d)}

(* How many indices were chosen, on each of the k innermost dimensions that *)
(* the request keeps                                                        *)
ShapeAsked(k) ==
    LET s[j \in 0..Rank] ==
            IF j = 0 THEN <<>>
            ELSE LET d == Rank - j + 1
                 IN  (IF Dropped(d) THEN <<>> ELSE <<Cardinality(Chosen(d))>>) \o s[j - 1]
    IN  s[k]

Chunks == given \o Reverse(indices)

ChunkBits == UNION {(8 * Chunks[k][1])..(8 * Chunks[k][2] - 1) : k \in DOMAIN Chunks}

Ascending ==
    \A j, k \in DOMAIN Chunks : j < k => Chunks[j][2] <= Chunks[k][1]

(* A selection of no element on a dimension outside of one that is cut     *)
EmptyOutsideCut ==
    \E d, e \in 1..Rank :
        /\ d < e
        /\ Chosen(d) = {}
        /\ Chosen(e) # 0..(view.shape[e] - 1)

(* A range that ends before it begins                                      *)
ReversedRange ==
    \E d \in DOMAIN index : End(index[d], view.shape[d]) < Begin(index[d])

(* A Rust request with a bound at the end of usize in a release build: what *)
(* ends with usize::MAX ends before 0, what begins after it begins at 0.   *)
(* No Python request has one.                                              *)
BoundWraps ==
    /\ ~checked
    /\ ~request.python
    /\ \E d \in DOMAIN request.items : PastLimit(request.items[d])

(* The requests the Python binding reads as Python does: it ignores steps, *)
(* and items beyond the last dimension                                     *)
WithinPython ==
    request.python =>
        /\ Len(request.items) <= Rank
        /\ \A d \in DOMAIN request.items : request.items[d].step \in {None, 1}

TypeOK ==
    /\ dim \in 0..Rank
    /\ span \in Nat
    /\ newshape \in Seq(Nat)
    /\ indices \in Seq(Nat \X Nat)
    /\ given \in Seq(Nat \X Nat)
    /\ result \in {"asked", "slicing", "ok", "panic", "InvalidIndex",
                   "TooManySlices", "SliceOutOfRange", "MisalignedSlice"}

(* The chunks handed out and still to hand out are, in order and without   *)
(* overlap, exactly the bits of the selected elements (IndexOp::slice:     *)
(* "the chunks of data necessary to reconstruct the desired tensor"),      *)
(* except for an empty selection outside a cut one and, in a release       *)
(* build, for a bound at the end of usize.                                 *)
ChunksAreSelection ==
    result = "ok" /\ WithinPython /\ ~BoundWraps /\ ~EmptyOutsideCut =>
        /\ ChunkBits = WantedBits
        /\ Ascending

(* The same without the first exception: an empty selection outside a cut  *)
(* dimension empties indices, and the code then takes it for a walk that   *)
(* has cut nothing.                                                        *)
EmptySelectionIsEmpty ==
    result = "ok" /\ WithinPython /\ ~BoundWraps => ChunkBits = WantedBits

(* newshape and remaining_byte_len() agree with the selection: the caller  *)
(* fills a buffer of that length and gives it that shape.  A range that    *)
(* ends before it begins is left out, and so are the exceptions above.     *)
ShapeMatchesBytes ==
    result = "ok" /\ WithinPython /\ ~BoundWraps /\ ~EmptyOutsideCut /\ ~ReversedRange =>
        /\ newshape = ShapeAsked(Rank)
        /\ given = <<>> => 8 * RemainingByteLen = Product(newshape) * view.bits

(* A request in range, of no more items than dimensions, that selects      *)
(* something on each of them is never refused for elements of whole bytes. *)
WholeBytesServed ==
    /\ view.bits % 8 = 0
    /\ Len(request.items) <= Rank
    /\ \A d \in 1..Rank : Chosen(d) # {}
    /\ \A d \in DOMAIN request.items :
           LET it == request.items[d]
           IN  IF request.python
               THEN ~it.int => {it.start, it.stop} \ {None} \subseteq 0..view.shape[d]
               ELSE /\ it.hi.kind = "Included" => it.hi.at < view.shape[d]
                    /\ it.hi.kind = "Excluded" => it.hi.at <= view.shape[d]
    => result \in {"asked", "slicing", "ok"}
==============================================================================
