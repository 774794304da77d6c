---------------------------- MODULE EncodeBuffer ----------------------------
(***************************************************************************)
(* The output buffer of lib/ultrajsonenc.c: Buffer_Reserve, Buffer_Realloc *)
(* and the unchecked appends.  A buffer is the caller's array until it is  *)
(* too small, then a heap block; after a failed allocation enc->start is   *)
(* NULL while enc->offset and enc->end still point into the old block.     *)
(***************************************************************************)
EXTENDS Integers

CONSTANTS
  AllocFails,    \* whether enc->malloc and enc->realloc may return NULL
  Doublings      \* bound: how often one reservation may double the buffer

ASSUME AllocAssumption == AllocFails \in BOOLEAN /\ Doublings \in Nat

Buffers == [start  : {"buffer", "heap", "NULL"},
            size   : Nat,     \* enc->end - the block written to
            offset : Nat,     \* enc->offset - the block written to
            blocks : Nat]     \* heap blocks allocated and not freed

Free(b) == b.size - b.offset

\* The order of size_t, where a negative int stands for its conversion.
SizeLess(m, n) == IF (m < 0) = (n < 0) THEN m < n ELSE n < 0

\* while (newSize < curSize + cbNeeded) newSize *= 2
NewSizes(size, goal) ==
  IF goal <= size
  THEN {size}
  ELSE {s \in goal..2 * goal :
          \E k \in 1..Doublings : s = size * 2^k /\ size * 2^(k - 1) < goal}

Failed(b) == [b EXCEPT !.start = "NULL"]

Grown(b, s) ==
  [b EXCEPT !.start  = "heap",
            !.size   = s,
            !.blocks = IF b.start = "buffer" THEN @ + 1 ELSE @]

\* The outcomes of Buffer_Realloc.
Realloc(b, n) ==
  (IF b.start = "NULL" THEN {} ELSE {Grown(b, s) : s \in NewSizes(b.size, b.size + n)})
    \cup (IF AllocFails \/ b.start = "NULL" THEN {Failed(b)} ELSE {})

Reserve(b, n) == IF SizeLess(Free(b), n) THEN Realloc(b, n) ELSE {b}

Write(b, n) == [b EXCEPT !.offset = @ + n]

FreeBlockAlways(b) ==             \* variant: the caller's array is freed too
  [b EXCEPT !.blocks = @ - 1]

\* enc->free(enc->start), or nothing when the caller's array was enough.
FreeBlock(b) == [b EXCEPT !.blocks = IF b.start = "heap" THEN @ - 1 ELSE @]
=============================================================================
