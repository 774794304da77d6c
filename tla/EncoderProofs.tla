--------------------------- MODULE EncoderProofs ---------------------------
(***************************************************************************)
(* encode never writes outside its buffer, for every tree of values, every *)
(* depth limit and separators, until an allocation fails and unless the    *)
(* indentation is negative; and its level and type contexts are those of   *)
(* the recursion.  What it writes is JSON, and the decoder reads it back   *)
(* in full.                                                                *)
(***************************************************************************)
EXTENDS RoundTrip, SequenceTheorems, FiniteSetTheorems, TLAPS

-----------------------------------------------------------------------------
(* The buffer. *)

\* Until an allocation fails, the block in use is the only one allocated and
\* has not been freed.
Owned(b) == b.start # "NULL" => b.blocks = IF b.start = "heap" THEN 1 ELSE 0

LEMMA NewSizesLarger ==
  ASSUME NEW size \in Nat, NEW goal \in Int, NEW s \in NewSizes(size, goal)
  PROVE  s \in Nat /\ s >= size /\ s >= goal
PROOF
  <1>1. CASE goal <= size BY <1>1, SMT DEF NewSizes
  <1>2. CASE ~(goal <= size)
    <2>1. s \in goal..2 * goal BY <1>2, Zenon DEF NewSizes
    <2>2. QED BY <1>2, <2>1, SMT
  <1>3. QED BY <1>1, <1>2

LEMMA BufferFields ==
  ASSUME NEW b, b \in Buffers
  PROVE  /\ b.start \in {"buffer", "heap", "NULL"}
         /\ b.size \in Nat /\ b.offset \in Nat /\ b.blocks \in Nat
PROOF BY DEF Buffers

LEMMA WriteBuffer ==
  ASSUME NEW b \in Buffers, NEW n \in Nat
  PROVE  /\ Write(b, n) \in Buffers
         /\ Write(b, n).offset = b.offset + n
         /\ Write(b, n).size = b.size
         /\ Write(b, n).start = b.start
         /\ Write(b, n).blocks = b.blocks
PROOF BY SMT DEF Write, Buffers

LEMMA FreeBlockBuffer ==
  ASSUME NEW b \in Buffers, Owned(b)
  PROVE  /\ FreeBlock(b) \in Buffers
         /\ FreeBlock(b).offset = b.offset
         /\ FreeBlock(b).size = b.size
         /\ FreeBlock(b).start = b.start
         /\ b.start # "NULL" => FreeBlock(b).blocks = 0
PROOF
  <1>1. CASE b.start = "heap"
    <2>1. b.blocks - 1 \in Nat BY <1>1, BufferFields, SMT DEF Owned
    <2>2. FreeBlock(b) = [b EXCEPT !.blocks = b.blocks - 1] BY <1>1 DEF FreeBlock
    <2>3. QED BY <1>1, <2>1, <2>2, SMT DEF Buffers, Owned
  <1>2. CASE b.start # "heap"
    <2>1. FreeBlock(b) = [b EXCEPT !.blocks = b.blocks] BY <1>2 DEF FreeBlock
    <2>2. FreeBlock(b) = b BY <2>1 DEF Buffers
    <2>3. QED BY <1>2, <2>2 DEF Owned
  <1>3. QED BY <1>1, <1>2

LEMMA GrownBuffer ==
  ASSUME NEW b \in Buffers, NEW s \in Nat
  PROVE  /\ Grown(b, s) \in Buffers
         /\ Grown(b, s).offset = b.offset
         /\ Grown(b, s).size = s
         /\ Grown(b, s).start = "heap"
         /\ Owned(b) /\ b.start # "NULL" => Owned(Grown(b, s))
PROOF
  <1> DEFINE k == IF b.start = "buffer" THEN b.blocks + 1 ELSE b.blocks
  <1>1. /\ k \in Nat
        /\ Owned(b) /\ b.start # "NULL" => k = 1
    BY BufferFields, SMT DEF Owned
  <1>2. Grown(b, s) = [b EXCEPT !.start = "heap", !.size = s, !.blocks = k] BY DEF Grown
  <1> HIDE DEF k
  <1>3. k \in Nat BY <1>1
  <1>4. /\ Grown(b, s) \in Buffers
        /\ Grown(b, s).offset = b.offset /\ Grown(b, s).size = s
        /\ Grown(b, s).start = "heap" /\ Grown(b, s).blocks = k
    <2>1. b = [start |-> b.start, size |-> b.size, offset |-> b.offset,
               blocks |-> b.blocks]
      BY DEF Buffers
    <2>2. Grown(b, s) = [start |-> "heap", size |-> s, offset |-> b.offset, blocks |-> k]
      BY <1>2, <2>1
    <2>3. QED BY <1>3, <2>2, BufferFields, SMT DEF Buffers
  <1>5. QED BY <1>1, <1>4, Zenon DEF Owned

LEMMA FailedBuffer ==
  ASSUME NEW b \in Buffers
  PROVE  /\ Failed(b) \in Buffers
         /\ Failed(b).offset = b.offset
         /\ Failed(b).size = b.size
         /\ Failed(b).start = "NULL"
PROOF BY SMT DEF Failed, Buffers, Owned

\* A reservation moves nothing and loses nothing, and unless allocation fails
\* it makes room for what was asked.  A failure is never repaired.
LEMMA ReserveBuffer ==
  ASSUME NEW b \in Buffers, NEW n \in Int, NEW c \in Reserve(b, n)
  PROVE  /\ c \in Buffers
         /\ c.offset = b.offset
         /\ c.size >= b.size
         /\ c.start # "NULL" => b.start # "NULL"
         /\ Owned(b) => Owned(c)
         /\ c.start # "NULL" /\ n >= 0 /\ b.offset <= b.size => Free(c) >= n
PROOF
  <1>1. CASE c = b /\ ~SizeLess(Free(b), n)
    BY <1>1, BufferFields, SMT DEF SizeLess, Free
  <1>2. CASE SizeLess(Free(b), n) /\ b.start # "NULL"
             /\ \E s \in NewSizes(b.size, b.size + n) : c = Grown(b, s)
    <2>1. PICK s \in NewSizes(b.size, b.size + n) : c = Grown(b, s) BY <1>2
    <2>2. b.size \in Nat /\ b.offset \in Nat BY BufferFields
    <2>3. b.size + n \in Int BY <2>2, SMT
    <2>4. s \in Nat /\ s >= b.size /\ s >= b.size + n BY <2>2, <2>3, NewSizesLarger
    <2>5. /\ c \in Buffers /\ c.offset = b.offset /\ c.size = s /\ c.start = "heap"
          /\ Owned(b) => Owned(c)
      BY <1>2, <2>1, <2>4, GrownBuffer
    <2>6. QED BY <1>2, <2>2, <2>4, <2>5, SMT DEF Free
  <1>3. CASE SizeLess(Free(b), n) /\ c = Failed(b)
    <2>1. /\ c \in Buffers /\ c.offset = b.offset /\ c.size = b.size
          /\ c.start = "NULL"
      BY <1>3, FailedBuffer
    <2>2. b.size \in Nat BY BufferFields
    <2>3. QED BY <2>1, <2>2, SMT DEF Owned
  <1>4. QED BY <1>1, <1>2, <1>3, Zenon DEF Reserve, Realloc
-----------------------------------------------------------------------------
(* The stack of containers. *)

LEMMA TopFrame ==
  ASSUME frames \in Seq(Frames), frames # <<>>
  PROVE  /\ Top \in Frames
         /\ Top.type \in Containers /\ Top.left \in Nat /\ Top.count \in Nat
         /\ Popped \in Seq(Frames) /\ Len(Popped) = Len(frames) - 1
         /\ Len(frames) \in Nat \ {0}
PROOF
  <1>1. Len(frames) \in Nat \ {0} BY SMT
  <1>2. Top \in Frames BY <1>1, SMT DEF Top
  <1>3. Top.type \in Containers /\ Top.left \in Nat /\ Top.count \in Nat
    BY <1>2 DEF Frames
  <1>4. Popped \in Seq(Frames) /\ Len(Popped) = Len(frames) - 1
    <2>1. ASSUME NEW n \in Nat, n = Len(frames) - 1
          PROVE  SubSeq(frames, 1, n) \in Seq(Frames)
      BY <2>1, SMT
    <2>2. ASSUME NEW n \in Nat, n = Len(frames) - 1
          PROVE  Len(SubSeq(frames, 1, n)) = n
      BY <2>2, SMT
    <2>3. Len(frames) - 1 \in Nat BY <1>1, SMT
    <2>4. QED BY <2>1, <2>2, <2>3, Zenon DEF Popped
  <1>5. QED BY <1>1, <1>2, <1>3, <1>4

LEMMA PushedFrame ==
  ASSUME NEW s \in Seq(Frames), NEW t \in Containers, NEW n \in Nat, NEW c \in Nat
  PROVE  /\ s \o <<Frame(t, n, c)>> \in Seq(Frames)
         /\ Len(s \o <<Frame(t, n, c)>>) = Len(s) + 1
         /\ s \o <<Frame(t, n, c)>> # <<>>
PROOF
  <1>1. Frame(t, n, c) \in Frames BY DEF Frame, Frames
  <1> HIDE DEF Frame
  <1>2. QED BY <1>1, SMT

-----------------------------------------------------------------------------
(* The invariant. *)

\* Frames exist while something is iterated and only then.
Control ==
  /\ pc = "iterate" => frames # <<>>
  /\ pc \in {"encoded", "done"} => frames = <<>>
  /\ pc = "encoded" => ret \in {"NULL", "string"}

\* One type context for each frame and one for the value at hand, until a
\* string is abandoned.
AtHand == IF pc = "switch" /\ type # "INVALID" THEN 1 ELSE 0
Balance ==
  /\ contexts >= Len(frames) + AtHand
  /\ ~Abandoned => contexts = Len(frames) + AtHand

Depths == LevelMatches /\ (pc \in {"begin", "switch"} => level <= RecursionMax)

Holding ==
  IF pc = "done" \/ (pc = "encoded" /\ ret = "NULL")
  THEN Allocated => buf.blocks = 0
  ELSE Owned(buf)

\* What b holds fits it.
Reliable(b) == Indent >= 0 /\ b.start # "NULL"

\* The reservation made before the switch is still there when it is used.
Fitting ==
  Reliable(buf) =>
    buf.offset <= buf.size /\ (pc = "switch" => Free(buf) >= Number)

IInv == TypeOK /\ Control /\ Balance /\ Depths /\ Holding /\ Fitting

LEMMA InitInvariant == Init => IInv
PROOF
  <1> SUFFICES ASSUME Init PROVE IInv OBVIOUS
  <1>1. buf \in Buffers /\ buf.offset = 0 /\ buf.size \in Nat /\ Owned(buf)
    BY EncoderAssumption, SMT DEF Init, Buffers, Owned
  <1>2. Len(frames) = 0 /\ frames \in Seq(Frames) /\ out \in Seq(Lexemes)
    BY SMT DEF Init
  <1>3. /\ errorMsg \in BOOLEAN /\ named \in BOOLEAN /\ raised \in Histories
        /\ pyErr \in Exceptions \cup {"none"}
    BY DEF Init, Histories
  <1>4. level \in Int /\ contexts \in Nat BY SMT DEF Init
  <1>5. TypeOK BY <1>1, <1>2, <1>3, <1>4, Zenon DEF Init, TypeOK, Types
  <1>6. Control BY DEF Init, Control
  <1>7. Balance BY <1>2, SMT DEF Init, Balance, AtHand, Abandoned
  <1>8. Depths BY <1>2, EncoderAssumption, SMT DEF Init, Depths, LevelMatches
  <1>9. Holding BY <1>1 DEF Init, Holding
  <1>10. Fitting BY <1>1, SMT DEF Init, Fitting
  <1>11. QED BY <1>5, <1>6, <1>7, <1>8, <1>9, <1>10 DEF IInv

-----------------------------------------------------------------------------
(* The steps. *)

LEMMA EnterInvariant == IInv /\ Enter => IInv'
PROOF
  <1> SUFFICES ASSUME IInv, Enter PROVE IInv' OBVIOUS
  <1>0. TypeOK /\ Control /\ Balance /\ Depths /\ Holding /\ Fitting BY DEF IInv
  <1> USE <1>0
  <1>1. CASE TooDeep \/ AlreadyFailed
    <2>1. /\ pc = "encode" /\ pc' = "returned" /\ errorMsg'
          /\ UNCHANGED <<level, frames, named, value, type, contexts, pyErr, buf,
                         ret, out, raised>>
      BY <1>1 DEF TooDeep, AlreadyFailed, SetError
    <2>2. TypeOK' BY <2>1, Zenon DEF TypeOK
    <2>3. Control' /\ Holding' /\ Fitting'
      BY <2>1 DEF Control, Holding, Fitting, Reliable, Allocated
    <2>4. Balance' BY <2>1 DEF Balance, AtHand, Abandoned
    <2>5. Depths' BY <2>1 DEF Depths, LevelMatches
    <2>6. QED BY <2>2, <2>3, <2>4, <2>5 DEF IInv
  <1>2. ASSUME NEW n \in Lengths, Name(n)
        PROVE  IInv'
    <2> DEFINE r == RESERVE_STRING(n) + KeySeparator
    <2>1. PICK b \in Reserve(buf, r) :
            \/ \E w \in Escaped(n) :
                 /\ buf' = Write(b, 1 + w + 1 + KeySeparator)
                 /\ NoteFailure /\ pc' = "begin" /\ out' = out \o <<"str", "colon">>
            \/ /\ \E w \in Rejected(n) : buf' = Write(b, 1 + w)
               /\ SetError /\ pc' = "returned" /\ out' = out
      BY <1>2 DEF Name
    <2>2. n \in Nat /\ KeySeparator \in Nat /\ r \in Nat /\ r >= 2 + KeySeparator
      BY EncoderAssumption, SMT DEF RESERVE_STRING
    <2>3. /\ b \in Buffers /\ b.offset = buf.offset
          /\ Owned(b)
          /\ Reliable(b) => Free(b) >= r
      <3>1. Owned(buf) BY <1>2 DEF Holding, Name
      <3>2. buf \in Buffers /\ r \in Int BY <2>2, SMT DEF TypeOK
      <3>3. QED BY <2>2, <3>1, <3>2, ReserveBuffer, SMT DEF Fitting, Reliable
    <2>4. PICK m \in Nat : buf' = Write(b, m) /\ m <= r
      <3>1. CASE \E w \in Escaped(n) : buf' = Write(b, 1 + w + 1 + KeySeparator)
        <4>1. PICK w \in Escaped(n) : buf' = Write(b, 1 + w + 1 + KeySeparator) BY <3>1
        <4>2. w \in Nat /\ w <= 6 * n BY <2>2, SMT DEF Escaped
        <4>3. /\ 1 + w + 1 + KeySeparator \in Nat
              /\ 1 + w + 1 + KeySeparator <= r
          BY <2>2, <4>2, SMT DEF RESERVE_STRING
        <4>4. QED BY <4>1, <4>3
      <3>2. CASE \E w \in Rejected(n) : buf' = Write(b, 1 + w)
        <4>1. PICK w \in Rejected(n) : buf' = Write(b, 1 + w) BY <3>2
        <4>2. w \in Nat /\ w <= 6 * n BY <2>2, SMT DEF Rejected
        <4>3. 1 + w \in Nat /\ 1 + w <= r BY <2>2, <4>2, SMT DEF RESERVE_STRING
        <4>4. QED BY <4>1, <4>3
      <3>3. QED BY <2>1, <3>1, <3>2
    <2> HIDE DEF r
    <2>5. /\ buf' \in Buffers /\ buf'.offset = b.offset + m /\ buf'.size = b.size
          /\ buf'.start = b.start /\ Owned(buf')
      BY <2>3, <2>4, WriteBuffer DEF Owned
    <2>6. /\ pc = "encode" /\ level <= RecursionMax
          /\ UNCHANGED <<level, frames, named, value, type, contexts, pyErr, ret, raised>>
      BY <1>2 DEF Name
    <2>7. pc' \in {"begin", "returned"} /\ errorMsg' \in BOOLEAN
          /\ (pc' = "returned" => errorMsg')
      BY <2>1, Zenon DEF NoteFailure, SetError
    <2>8. out' \in Seq(Lexemes)
      <3>1. out' = out \/ out' = out \o <<"str", "colon">> BY <2>1, Zenon
      <3>2. out \in Seq(Lexemes) BY DEF TypeOK
      <3>3. <<"str", "colon">> \in Seq(Lexemes) BY SMT DEF Lexemes
      <3>4. out \o <<"str", "colon">> \in Seq(Lexemes) BY <3>2, <3>3, ConcatProperties
      <3>5. QED BY <3>1, <3>2, <3>4, Zenon
    <2>9. TypeOK' BY <2>5, <2>6, <2>7, <2>8, Zenon DEF TypeOK
    <2>10. Control' BY <2>6, <2>7 DEF Control
    <2>11. Balance' BY <2>6, <2>7 DEF Balance, AtHand, Abandoned
    <2>12. Depths' BY <2>6, <2>7 DEF Depths, LevelMatches
    <2>13. Holding' BY <2>5, <2>7 DEF Holding
    <2>14. Fitting'
      <3>1. Reliable(buf') => buf'.offset <= buf'.size
        BY <2>2, <2>3, <2>4, <2>5, BufferFields, SMT DEF Free, Reliable
      <3>2. QED BY <2>7, <3>1 DEF Fitting
    <2>15. QED BY <2>9, <2>10, <2>11, <2>12, <2>13, <2>14 DEF IInv
  <1>3. QED BY <1>1, <1>2 DEF Enter

LEMMA BeginInvariant == IInv /\ (BeginNull \/ BeginTypeContext) => IInv'
PROOF
  <1> SUFFICES ASSUME IInv, BeginNull \/ BeginTypeContext PROVE IInv' OBVIOUS
  <1>0. TypeOK /\ Control /\ Balance /\ Depths /\ Holding /\ Fitting BY DEF IInv
  <1> USE <1>0
  <1>1. /\ ReadyToBegin /\ pc' = "switch"
        /\ buf' \in Reserve(buf, Number) /\ NoteFailure
        /\ UNCHANGED <<level, frames, named, value, ret, out>>
    BY DEF BeginNull, BeginTypeContext
  <1>2. pc \in {"encode", "begin"} /\ level <= RecursionMax /\ level = Len(frames)
    BY <1>1 DEF ReadyToBegin, Depths, LevelMatches
  <1>3. /\ type' \in Types /\ pyErr' \in Exceptions \cup {"none"} /\ raised' \in Histories
        /\ contexts' = contexts + AtHand'
    <2>1. CASE BeginNull
      <3>1. type' = "INVALID" /\ UNCHANGED <<contexts, pyErr, raised>> BY <2>1 DEF BeginNull
      <3>2. contexts' = contexts + AtHand' BY <3>1, SMT DEF AtHand, TypeOK
      <3>3. QED BY <3>1, <3>2, Zenon DEF TypeOK, Types
    <2>2. CASE BeginTypeContext
      <3>1. PICK o \in BeginOutcomes(pyErr) :
              /\ type' = o.type /\ pyErr' = o.err /\ Begun(o)
              /\ raised' = IF o.type = "INVALID" THEN raised \cup {"told"} ELSE raised
        BY <2>2 DEF BeginTypeContext
      <3>2. o.type \in Types /\ o.err \in Exceptions \cup {"none"}
        BY SMT DEF BeginOutcomes, Types, Exceptions, TypeOK
      <3>3. contexts' = contexts + AtHand' BY <1>1, <3>1, SMT DEF Begun, AtHand, TypeOK
      <3>4. raised' \in Histories BY <3>1 DEF TypeOK, Histories
      <3>5. QED BY <3>1, <3>2, <3>3, <3>4
    <2>3. QED BY <2>1, <2>2
  <1>4. /\ buf' \in Buffers /\ Owned(buf') /\ (Reliable(buf') => Free(buf') >= Number)
    <2>1. Owned(buf) BY <1>2 DEF Holding
    <2>2. buf \in Buffers /\ Number \in Int /\ Number >= 0 BY SMT DEF TypeOK, Number
    <2>3. QED BY <1>1, <2>1, <2>2, ReserveBuffer DEF Fitting, Reliable
  <1>5. errorMsg' \in BOOLEAN BY <1>1, Zenon DEF NoteFailure
  <1>6. contexts' \in Nat BY <1>3, SMT DEF AtHand, TypeOK
  <1>7. TypeOK' BY <1>1, <1>3, <1>4, <1>5, <1>6, Zenon DEF TypeOK
  <1>8. Control' BY <1>1 DEF Control
  <1>9. Balance'
    <2>1. AtHand = 0 BY <1>2 DEF AtHand
    <2>2. AtHand' \in Nat /\ Len(frames) \in Nat BY SMT DEF AtHand, TypeOK
    <2>3. Len(frames') = Len(frames) BY <1>1
    <2>4. ~Abandoned BY <1>2 DEF Abandoned
    <2>5. contexts = Len(frames) + AtHand BY <2>4 DEF Balance
    <2>6. QED BY <1>3, <2>1, <2>2, <2>3, <2>5, SMT DEF Balance
  <1>10. Depths' BY <1>1, <1>2 DEF Depths, LevelMatches
  <1>11. Holding' BY <1>1, <1>4 DEF Holding
  <1>12. Fitting' BY <1>4, BufferFields, SMT DEF Fitting, Reliable, Free, Number
  <1>13. QED BY <1>7, <1>8, <1>9, <1>10, <1>11, <1>12 DEF IInv

\* The exits of the switch: the buffer holds what was written, and the type
\* context, if there is one, is ended unless getStringValue failed.
LEMMA ExitInvariant ==
  ASSUME IInv, pc = "switch", pc' = "returned",
         buf' \in Buffers, Owned(buf'), Reliable(buf') => buf'.offset <= buf'.size,
         errorMsg' \in BOOLEAN, out' \in Seq(Lexemes),
         pyErr' \in Exceptions \cup {"none"}, raised' \in Histories,
         \/ contexts' = contexts - AtHand
         \/ contexts' = contexts /\ Abandoned',
         \/ level' = level - 1
         \/ level' = level /\ errorMsg',
         UNCHANGED <<frames, named, value, type, ret>>
  PROVE  IInv'
PROOF
  <1>0. TypeOK /\ Control /\ Balance /\ Depths /\ Holding /\ Fitting BY DEF IInv
  <1> USE <1>0
  <1>1. Len(frames) \in Nat /\ AtHand \in 0..1 /\ contexts \in Nat /\ level \in Int
    BY SMT DEF TypeOK, AtHand
  <1>2. AtHand' = 0 BY DEF AtHand
  <1>3. contexts' \in Nat /\ Balance'
    <2>1. Len(frames') = Len(frames) OBVIOUS
    <2>2. ~Abandoned BY DEF Abandoned
    <2>3. contexts = Len(frames) + AtHand BY <2>2 DEF Balance
    <2>4. QED BY <1>1, <1>2, <2>1, <2>3, SMT DEF Balance
  <1>4. level' \in Int BY <1>1, SMT
  <1>5. TypeOK' BY <1>3, <1>4, Zenon DEF TypeOK
  <1>6. Control' BY DEF Control
  <1>7. Depths'
    <2>1. level = Len(frames) /\ Len(frames) <= RecursionMax + 1
      BY DEF Depths, LevelMatches
    <2>2. Len(frames') = Len(frames) OBVIOUS
    <2>3. ~errorMsg' => level' = Len(frames) - 1 BY <2>1
    <2>4. QED BY <2>1, <2>2, <2>3 DEF Depths, LevelMatches
  <1>8. Holding' BY DEF Holding
  <1>9. Fitting' BY DEF Fitting, Reliable
  <1>10. QED BY <1>3, <1>5, <1>6, <1>7, <1>8, <1>9 DEF IInv

LEMMA SwitchInvariant == IInv /\ Switch => IInv'
PROOF
  <1> SUFFICES ASSUME IInv, Switch PROVE IInv' OBVIOUS
  <1>0. TypeOK /\ Control /\ Balance /\ Depths /\ Holding /\ Fitting BY DEF IInv
  <1> USE <1>0
  <1>a. pc = "switch"
    BY DEF Switch, Invalid, Open, Scalar, DoubleRefused, StringUnavailable,
           StringNoMemory, String, Raw
  <1>b. /\ buf \in Buffers /\ Owned(buf)
        /\ Reliable(buf) => buf.offset <= buf.size /\ Free(buf) >= Number
    BY <1>a DEF TypeOK, Holding, Fitting
  <1>c. buf.offset \in Nat /\ buf.size \in Nat BY <1>b, BufferFields
  <1>d. TRUE \in BOOLEAN /\ out \in Seq(Lexemes) /\ errorMsg \in BOOLEAN
        /\ raised \in Histories /\ pyErr \in Exceptions \cup {"none"}
    BY DEF TypeOK
  <1>e. ASSUME NEW x \in Lexemes PROVE out \o <<x>> \in Seq(Lexemes) BY <1>d, SMT
  <1>f. type # "INVALID" => AtHand = 1 BY <1>a DEF AtHand
  <1>g. type = "INVALID" => contexts - AtHand = contexts BY <1>a, SMT DEF AtHand, TypeOK
  <1>1. CASE Invalid
    <2>1. /\ pc' = "returned" /\ errorMsg' = TRUE /\ level' = level - 1
          /\ contexts' = contexts - AtHand
          /\ UNCHANGED <<frames, named, value, type, ret, buf, out, pyErr, raised>>
      BY <1>1, <1>g DEF Invalid, SetError
    <2>2. QED BY <2>1, <1>a, <1>b, <1>d, ExitInvariant
  <1>2. ASSUME NEW n \in 0..MaxItems, Open(n)
        PROVE  IInv'
    <2>1. /\ type \in Containers /\ n \in Nat
          /\ frames' = frames \o <<Frame(type, n, 0)>>
          /\ pc' = "iterate" /\ buf' = Write(buf, 1)
          /\ UNCHANGED <<level, named, value, type, contexts, errorMsg, pyErr, ret, raised>>
      BY <1>2, EncoderAssumption, SMT DEF Open
    <2>2. frames' \in Seq(Frames) /\ Len(frames') = Len(frames) + 1 /\ frames' # <<>>
      BY <2>1, PushedFrame DEF TypeOK
    <2>3. /\ buf' \in Buffers /\ buf'.offset = buf.offset + 1 /\ buf'.size = buf.size
          /\ buf'.start = buf.start /\ Owned(buf')
      <3>1. /\ Write(buf, 1) \in Buffers /\ Write(buf, 1).offset = buf.offset + 1
            /\ Write(buf, 1).size = buf.size /\ Write(buf, 1).start = buf.start
            /\ Write(buf, 1).blocks = buf.blocks
        BY <1>b, WriteBuffer
      <3>2. QED BY <1>b, <2>1, <3>1 DEF Owned
    <2>4. out' \in Seq(Lexemes)
      <3>1. PICK x \in {"lbrack", "lbrace"} : out' = out \o <<x>> BY <1>2 DEF Open
      <3>2. QED BY <1>e, <3>1 DEF Lexemes
    <2>5. TypeOK' BY <2>1, <2>2, <2>3, <2>4, Zenon DEF TypeOK
    <2>6. Control' BY <2>1, <2>2 DEF Control
    <2>7. Balance'
      <3>1. AtHand = 1 /\ AtHand' = 0 BY <1>a, <2>1 DEF AtHand, Containers
      <3>2. Len(frames) \in Nat BY SMT DEF TypeOK
      <3>3. ~Abandoned BY <1>a DEF Abandoned
      <3>4. contexts = Len(frames) + AtHand BY <3>3 DEF Balance
      <3>5. QED BY <2>1, <2>2, <3>1, <3>2, <3>4, SMT DEF Balance
    <2>8. Depths'
      <3>1. level = Len(frames) /\ level <= RecursionMax /\ level \in Int
        BY <1>a DEF Depths, LevelMatches, TypeOK
      <3>2. level = Len(frames') - 1 /\ Len(frames') <= RecursionMax + 1
        BY <2>2, <3>1, EncoderAssumption, SMT
      <3>3. QED BY <2>1, <3>2 DEF Depths, LevelMatches
    <2>9. Holding' BY <2>1, <2>3 DEF Holding
    <2>10. Fitting'
      <3>1. Reliable(buf') => buf'.offset <= buf'.size BY <1>b, <1>c, <2>3, SMT DEF Free, Number, Reliable
      <3>2. QED BY <2>1, <3>1 DEF Fitting, Reliable
    <2>11. QED BY <2>5, <2>6, <2>7, <2>8, <2>9, <2>10 DEF IInv
  <1>3. ASSUME NEW n \in ScalarLengths, Scalar(n)
        PROVE  IInv'
    <2>1. /\ type # "INVALID" /\ pc' = "returned" /\ level' = level - 1
          /\ contexts' = contexts - 1 /\ buf' = Write(buf, n) /\ out' = out \o <<"atom">>
          /\ UNCHANGED <<frames, named, value, type, errorMsg, ret>>
      BY <1>3 DEF Scalar, EndTypeContext
    <2>8. pyErr' \in Exceptions \cup {"none"} /\ raised' \in Histories
      <3>1. GetDoubleValue BY <1>3 DEF Scalar
      <3>2. CASE UNCHANGED <<pyErr, raised>> BY <1>d, <3>2
      <3>3. CASE pyErr' \in DoubleErrors(type) /\ raised' = raised \cup {"untold"}
        BY <1>d, <3>3 DEF DoubleErrors, Histories
      <3>4. QED BY <3>1, <3>2, <3>3 DEF GetDoubleValue
    <2>2. n \in Nat /\ n <= Number BY EncoderAssumption, SMT DEF Number
    <2>3. /\ buf' \in Buffers /\ buf'.offset = buf.offset + n /\ buf'.size = buf.size
          /\ buf'.start = buf.start /\ Owned(buf')
      BY <1>b, <2>1, <2>2, WriteBuffer DEF Owned
    <2>4. Reliable(buf') => buf'.offset <= buf'.size
      BY <1>b, <1>c, <2>2, <2>3, SMT DEF Free, Number, Reliable
    <2>5. contexts' = contexts - AtHand BY <1>f, <2>1
    <2>6. out' \in Seq(Lexemes) BY <1>e, <2>1 DEF Lexemes
    <2>7. QED BY <1>a, <1>d, <2>1, <2>3, <2>4, <2>5, <2>6, <2>8, ExitInvariant
  <1>4. CASE DoubleRefused
    <2>1. /\ type # "INVALID" /\ pc' = "returned" /\ level' = level - 1
          /\ contexts' = contexts - 1 /\ errorMsg' = TRUE
          /\ UNCHANGED <<frames, named, value, type, ret, buf, out, pyErr, raised>>
      BY <1>4 DEF DoubleRefused, SetError, EndTypeContext
    <2>2. contexts' = contexts - AtHand BY <1>f, <2>1
    <2>3. QED BY <1>a, <1>b, <1>d, <2>1, <2>2, ExitInvariant
  <1>5. CASE StringUnavailable
    <2>1. /\ pc' = "returned" /\ level' = level /\ type \in {"UTF8", "RAW"}
          /\ contexts' = contexts /\ errorMsg' = TRUE
          /\ raised' \in Histories /\ "told" \in raised'
          /\ pyErr' \in Exceptions \cup {"none"}
          /\ UNCHANGED <<frames, named, value, type, ret, buf, out>>
      BY <1>5, <1>d DEF StringUnavailable, StringErrors, SetError, Histories
    <2>2. Abandoned' BY <2>1 DEF Abandoned
    <2>3. QED BY <1>a, <1>b, <1>d, <2>1, <2>2, ExitInvariant
  <1>6. ASSUME NEW n \in Lengths, StringNoMemory(n)
        PROVE  IInv'
    <2>1. PICK r \in Nat : buf' \in Reserve(buf, r)
      <3>1. n \in Nat /\ RESERVE_STRING(n) \in Nat
        BY EncoderAssumption, SMT DEF RESERVE_STRING
      <3>2. QED BY <1>6, <3>1 DEF StringNoMemory
    <2>2. /\ buf' \in Buffers /\ Owned(buf') /\ buf'.offset = buf.offset
          /\ buf'.size >= buf.size /\ (buf'.start # "NULL" => buf.start # "NULL")
      BY <1>b, <2>1, ReserveBuffer
    <2>3. Reliable(buf') => buf'.offset <= buf'.size
      BY <1>b, <1>c, <2>2, BufferFields, SMT DEF Reliable
    <2>4. /\ type # "INVALID" /\ pc' = "returned" /\ level' = level
          /\ contexts' = contexts - 1 /\ errorMsg' = TRUE
          /\ UNCHANGED <<frames, named, value, type, ret, out, pyErr, raised>>
      BY <1>6 DEF StringNoMemory, SetError, EndTypeContext
    <2>5. contexts' = contexts - AtHand BY <1>f, <2>4
    <2>6. QED BY <1>a, <1>d, <2>2, <2>3, <2>4, <2>5, ExitInvariant
  <1>7. ASSUME NEW n \in Lengths, String(n)
        PROVE  IInv'
    <2>1. n \in Nat BY EncoderAssumption
    <2>2. RESERVE_STRING(n) \in Nat /\ RESERVE_STRING(n) = 2 + 6 * n
      BY <2>1, SMT DEF RESERVE_STRING
    <2>3. PICK b \in Reserve(buf, RESERVE_STRING(n)) :
            \/ \E w \in Escaped(n) : /\ buf' = Write(b, 1 + w + 1)
                                     /\ out' = out \o <<"str">>
                                     /\ errorMsg' = errorMsg
            \/ /\ \E w \in Rejected(n) : buf' = Write(b, 1 + w)
               /\ out' = out /\ SetError
      BY <1>7 DEF String
    <2>4. /\ b \in Buffers /\ Owned(b) /\ b.offset = buf.offset
          /\ Reliable(b) => Free(b) >= RESERVE_STRING(n)
      BY <1>b, <2>2, ReserveBuffer, SMT DEF Reliable
    <2>5. PICK m \in Nat : buf' = Write(b, m) /\ m <= RESERVE_STRING(n)
      <3>1. CASE \E w \in Escaped(n) : buf' = Write(b, 1 + w + 1)
        <4>1. PICK w \in Escaped(n) : buf' = Write(b, 1 + w + 1) BY <3>1
        <4>2. w \in Nat /\ w <= 6 * n BY <2>1, SMT DEF Escaped
        <4>3. 1 + w + 1 \in Nat /\ 1 + w + 1 <= RESERVE_STRING(n) BY <2>1, <2>2, <4>2, SMT
        <4>4. QED BY <4>1, <4>3
      <3>2. CASE \E w \in Rejected(n) : buf' = Write(b, 1 + w)
        <4>1. PICK w \in Rejected(n) : buf' = Write(b, 1 + w) BY <3>2
        <4>2. w \in Nat /\ w <= 6 * n BY <2>1, <2>2, SMT DEF Rejected
        <4>3. 1 + w \in Nat /\ 1 + w <= RESERVE_STRING(n) BY <2>1, <2>2, <4>2, SMT DEF RESERVE_STRING
        <4>4. QED BY <4>1, <4>3
      <3>3. QED BY <2>3, <3>1, <3>2
    <2>6. /\ buf' \in Buffers /\ buf'.offset = b.offset + m /\ buf'.size = b.size
          /\ buf'.start = b.start /\ Owned(buf')
      BY <2>4, <2>5, WriteBuffer DEF Owned
    <2>7. Reliable(buf') => buf'.offset <= buf'.size
      BY <2>2, <2>4, <2>5, <2>6, BufferFields, SMT DEF Free, Reliable
    <2>8. errorMsg' \in BOOLEAN BY <2>3, <1>d, Zenon DEF SetError
    <2>9. out' \in Seq(Lexemes)
      <3>1. "str" \in Lexemes BY DEF Lexemes
      <3>2. QED BY <2>3, <3>1, <1>d, <1>e
    <2>10. /\ type # "INVALID" /\ pc' = "returned" /\ level' = level - 1
           /\ contexts' = contexts - 1
           /\ UNCHANGED <<frames, named, value, type, ret, pyErr, raised>>
      BY <1>7 DEF String, EndTypeContext
    <2>11. contexts' = contexts - AtHand BY <1>f, <2>10
    <2>12. QED BY <1>a, <1>d, <2>6, <2>7, <2>8, <2>9, <2>10, <2>11, ExitInvariant
  <1>8. ASSUME NEW n \in Lengths, Raw(n)
        PROVE  IInv'
    <2>1. n \in Nat BY EncoderAssumption
    <2>2. PICK b \in Reserve(buf, n) : buf' = Write(b, n) BY <1>8 DEF Raw
    <2>3. /\ b \in Buffers /\ Owned(b) /\ b.offset = buf.offset
          /\ Reliable(b) => Free(b) >= n
      BY <1>b, <2>1, ReserveBuffer, SMT DEF Reliable
    <2>4. /\ buf' \in Buffers /\ buf'.offset = b.offset + n /\ buf'.size = b.size
          /\ buf'.start = b.start /\ Owned(buf')
      BY <2>1, <2>2, <2>3, WriteBuffer DEF Owned
    <2>5. Reliable(buf') => buf'.offset <= buf'.size
      BY <2>1, <2>3, <2>4, BufferFields, SMT DEF Free, Reliable
    <2>6. /\ type # "INVALID" /\ pc' = "returned" /\ level' = level - 1
          /\ contexts' = contexts - 1 /\ out' = out \o <<"atom">>
          /\ UNCHANGED <<frames, named, value, type, ret, pyErr, raised, errorMsg>>
      BY <1>8 DEF Raw, EndTypeContext
    <2>7. contexts' = contexts - AtHand BY <1>f, <2>6
    <2>8. out' \in Seq(Lexemes) BY <1>e, <2>6 DEF Lexemes
    <2>9. QED BY <1>a, <1>d, <2>4, <2>5, <2>6, <2>7, <2>8, ExitInvariant
  <1>9. QED BY <1>1, <1>2, <1>3, <1>4, <1>5, <1>6, <1>7, <1>8 DEF Switch

\* The indentation written never exceeds what Indent * n reserves for it.
LEMMA SpacesCovered ==
  ASSUME NEW n \in Nat
  PROVE  /\ Spaces(n) \in Nat /\ Newline \in 0..1
         /\ Indent * n \in Int
         /\ Indent >= 0 => Spaces(n) = Indent * n
PROOF
  <1>1. CASE Indent > 0
    <2>1. Indent * n \in Nat BY <1>1, EncoderAssumption, SMT
    <2>2. QED BY <1>1, <2>1 DEF Spaces, Newline
  <1>2. CASE ~(Indent > 0)
    <2>1. Indent * n \in Int BY EncoderAssumption, SMT
    <2>2. Indent >= 0 => Indent * n = 0 BY <1>2, EncoderAssumption, SMT
    <2>3. QED BY <1>2, <2>1, <2>2, SMT DEF Spaces, Newline
  <1>3. QED BY <1>1, <1>2

LEMMA ItemInvariant == IInv /\ Item => IInv'
PROOF
  <1> SUFFICES ASSUME IInv, Item PROVE IInv' OBVIOUS
  <1>0. TypeOK /\ Control /\ Balance /\ Depths /\ Holding /\ Fitting BY DEF IInv
  <1> USE <1>0
  <1>1. /\ pc = "iterate" /\ pc' = "encode" /\ Top.left > 0
        /\ frames' = Popped \o <<Frame(Top.type, Top.left - 1, Top.count)>>
        /\ level' = level + 1 /\ NoteFailure
        /\ named' = (Top.type = "OBJECT")
        /\ UNCHANGED <<type, contexts, ret>>
    BY DEF Item
  <1>2. /\ frames \in Seq(Frames) /\ frames # <<>> /\ Len(frames) \in Nat \ {0}
        /\ Top.type \in Containers /\ Top.left \in Nat /\ Top.count \in Nat
        /\ Popped \in Seq(Frames) /\ Len(Popped) = Len(frames) - 1
    BY <1>1, TopFrame DEF TypeOK, Control
  <1>3. Top.left - 1 \in Nat BY <1>1, <1>2, SMT
  <1>4. frames' \in Seq(Frames) /\ Len(frames') = Len(frames)
    BY <1>1, <1>2, <1>3, PushedFrame, SMT
  <1>5. level = Len(frames) - 1 /\ level \in Nat /\ level + 1 \in Nat
    BY <1>1, <1>2, SMT DEF Depths, LevelMatches
  <1>6. buf' \in Buffers /\ Owned(buf') /\ (Reliable(buf') => buf'.offset <= buf'.size)
    <2> DEFINE m == (IF Top.count > 0 THEN ItemSeparator ELSE 0) + Newline + Spaces(level + 1)
    <2>1. PICK b \in Reserve(buf, ItemReserve) : buf' = Write(b, m) BY DEF Item
    <2>2. /\ m \in Nat /\ ItemReserve \in Int
          /\ Indent >= 0 => ItemReserve >= 0 /\ m <= ItemReserve
      <3> DEFINE p == Indent * (level + 1)
                 q == Spaces(level + 1)
                 k == IF Top.count > 0 THEN ItemSeparator ELSE 0
      <3>1. q \in Nat /\ Newline \in 0..1 /\ p \in Int /\ (Indent >= 0 => q = p)
        BY <1>5, SpacesCovered
      <3>2. k \in Nat /\ ItemSeparator \in Nat /\ k <= ItemSeparator
        BY EncoderAssumption, SMT
      <3>3. ItemReserve = p + ItemSeparator + 1 /\ m = k + Newline + q BY DEF ItemReserve
      <3> HIDE DEF p, q, k, m
      <3>4. QED BY <3>1, <3>2, <3>3, EncoderAssumption, SMT
    <2>3. buf \in Buffers /\ Owned(buf) /\ (Reliable(buf) => buf.offset <= buf.size)
      BY <1>1 DEF TypeOK, Holding, Fitting
    <2>4. /\ b \in Buffers /\ Owned(b) /\ b.offset = buf.offset
          /\ Reliable(b) => Free(b) >= ItemReserve
      BY <2>1, <2>2, <2>3, ReserveBuffer, SMT DEF Reliable
    <2> HIDE DEF m
    <2>5. /\ buf' \in Buffers /\ buf'.offset = b.offset + m /\ buf'.size = b.size
          /\ buf'.start = b.start /\ Owned(buf')
      BY <2>1, <2>2, <2>4, WriteBuffer DEF Owned
    <2>6. Reliable(buf') => buf'.offset <= buf'.size
      BY <2>2, <2>4, <2>5, BufferFields, SMT DEF Free, Reliable
    <2>7. QED BY <2>5, <2>6
  <1>7. out' \in Seq(Lexemes)
    <2>1. out \o <<"comma">> \in Seq(Lexemes) /\ out \in Seq(Lexemes)
      BY SMT DEF TypeOK, Lexemes
    <2>2. QED BY <2>1 DEF Item
  <1>8. /\ value' \in {"object", "NULL"} /\ pyErr' \in Exceptions \cup {"none"}
        /\ raised' \in Histories
    BY DEF Item, ItemAnswers, TypeOK, Exceptions, Histories
  <1>9. errorMsg' \in BOOLEAN /\ named' \in BOOLEAN BY <1>1, Zenon DEF NoteFailure
  <1>10. level' \in Int BY <1>1, <1>5, SMT
  <1>11. TypeOK' BY <1>1, <1>4, <1>6, <1>7, <1>8, <1>9, <1>10, Zenon DEF TypeOK
  <1>12. Control' BY <1>1 DEF Control
  <1>13. Balance' BY <1>1, <1>4 DEF Balance, AtHand, Abandoned
  <1>14. Depths'
    <2>1. level' = Len(frames') /\ Len(frames') <= RecursionMax + 1
      BY <1>1, <1>2, <1>4, <1>5, SMT DEF Depths, LevelMatches
    <2>2. QED BY <1>1, <2>1 DEF Depths, LevelMatches
  <1>15. Holding' BY <1>1, <1>6 DEF Holding
  <1>16. Fitting' BY <1>1, <1>6 DEF Fitting, Reliable
  <1>17. QED BY <1>11, <1>12, <1>13, <1>14, <1>15, <1>16 DEF IInv

\* The exits of a loop.
LEMMA LeaveInvariant ==
  ASSUME IInv, pc \in {"iterate", "returned"}, frames # <<>>, Leave,
         pc = "iterate" \/ errorMsg', Abandoned => Abandoned',
         buf' \in Buffers, Owned(buf'), Reliable(buf') => buf'.offset <= buf'.size,
         errorMsg' \in BOOLEAN, out' \in Seq(Lexemes),
         pyErr' \in Exceptions \cup {"none"}, raised' \in Histories,
         UNCHANGED <<named, value, type, ret>>
  PROVE  IInv'
PROOF
  <1>0. TypeOK /\ Control /\ Balance /\ Depths /\ Holding /\ Fitting BY DEF IInv
  <1> USE <1>0
  <1>1. /\ pc' = "returned" /\ level' = level - 1 /\ contexts' = contexts - 1
        /\ frames' = Popped
    BY DEF Leave, EndTypeContext
  <1>2. /\ frames' \in Seq(Frames) /\ Len(frames') = Len(frames) - 1
        /\ Len(frames) \in Nat \ {0}
    BY <1>1, TopFrame DEF TypeOK
  <1>3. AtHand = 0 /\ AtHand' = 0 BY <1>1 DEF AtHand
  <1>4. contexts' \in Nat /\ Balance'
    <2>1. contexts \in Nat BY DEF TypeOK
    <2>2. /\ contexts >= Len(frames) + AtHand
          /\ ~Abandoned' => contexts = Len(frames) + AtHand
      BY DEF Balance
    <2>3. QED BY <1>1, <1>2, <1>3, <2>1, <2>2, SMT DEF Balance
  <1>5. level' \in Int BY <1>1, SMT DEF TypeOK
  <1>6. TypeOK' BY <1>1, <1>2, <1>4, <1>5, Zenon DEF TypeOK
  <1>7. Control' BY <1>1 DEF Control
  <1>8. Depths'
    <2>1. Len(frames') <= RecursionMax + 1
      BY <1>2, EncoderAssumption, SMT DEF Depths, LevelMatches
    <2>2. pc = "iterate" => level' = Len(frames') - 1
      BY <1>1, <1>2 DEF Depths, LevelMatches
    <2>3. QED BY <1>1, <2>1, <2>2 DEF Depths, LevelMatches
  <1>9. Holding' BY <1>1 DEF Holding
  <1>10. Fitting' BY <1>1 DEF Fitting, Reliable
  <1>11. QED BY <1>4, <1>6, <1>7, <1>8, <1>9, <1>10 DEF IInv

LEMMA IterateInvariant == IInv /\ Iterate => IInv'
PROOF
  <1> SUFFICES ASSUME IInv, Iterate PROVE IInv' OBVIOUS
  <1>0. TypeOK /\ Control /\ Balance /\ Depths /\ Holding /\ Fitting BY DEF IInv
  <1> USE <1>0
  <1>a. pc \in {"iterate", "returned"} /\ frames # <<>>
    BY DEF Iterate, Item, IterNextFailed, IterationEnds, ItemDone, Unwind, Control
  <1>b. buf \in Buffers /\ Owned(buf) /\ (Reliable(buf) => buf.offset <= buf.size)
    BY <1>a DEF TypeOK, Holding, Fitting
  <1>c. buf.offset \in Nat /\ buf.size \in Nat BY <1>b, BufferFields
  <1>d. out \in Seq(Lexemes) /\ errorMsg \in BOOLEAN /\ raised \in Histories
        /\ pyErr \in Exceptions \cup {"none"}
    BY DEF TypeOK
  <1>e. /\ Top.type \in Containers /\ Top.left \in Nat /\ Top.count \in Nat
        /\ Popped \in Seq(Frames) /\ Len(Popped) = Len(frames) - 1
        /\ Len(frames) \in Nat \ {0}
    BY <1>a, TopFrame DEF TypeOK
  <1>f. pc = "iterate" => level \in Nat BY <1>e, SMT DEF Depths, LevelMatches
  <1>1. CASE Item BY <1>1, ItemInvariant
  <1>2. CASE IterNextFailed
    <2>1. /\ pc = "iterate" /\ buf' \in Reserve(buf, ItemReserve) /\ NoteFailure
          /\ pyErr' \in Exceptions /\ raised' \in Histories /\ Leave
          /\ UNCHANGED <<named, value, type, ret, out>>
      BY <1>2, <1>d DEF IterNextFailed, IterErrors, Histories
    <2>2. ItemReserve \in Int
      <3>1. Indent * (level + 1) \in Int BY <1>f, <2>1, EncoderAssumption, SMT
      <3>2. QED BY <3>1, EncoderAssumption, SMT DEF ItemReserve
    <2>3. /\ buf' \in Buffers /\ Owned(buf') /\ buf'.offset = buf.offset
          /\ buf'.size >= buf.size /\ (buf'.start # "NULL" => buf.start # "NULL")
      BY <1>b, <2>1, <2>2, ReserveBuffer
    <2>4. Reliable(buf') => buf'.offset <= buf'.size BY <1>b, <1>c, <2>3, BufferFields, SMT DEF Reliable
    <2>5. errorMsg' \in BOOLEAN BY <2>1, Zenon DEF NoteFailure
    <2>6. ~Abandoned BY <2>1 DEF Abandoned
    <2>7. QED BY <1>a, <1>d, <2>1, <2>3, <2>4, <2>5, <2>6, LeaveInvariant
  <1>3. CASE IterationEnds
    <2> DEFINE m == IF Top.count > 0 THEN Newline + Spaces(level) ELSE 0
    <2>1. /\ pc = "iterate" /\ NoteFailure /\ Leave
          /\ UNCHANGED <<named, value, type, ret>>
      BY <1>3 DEF IterationEnds
    <2>12. pyErr' \in Exceptions \cup {"none"} /\ raised' \in Histories
      <3>1. CASE UNCHANGED <<pyErr, raised>> BY <1>d, <3>1
      <3>2. CASE \E e \in EarlyEnds(Top.type, pyErr) :
                   /\ pyErr' = e
                   /\ raised' = IF e = "other" THEN raised \cup {"untold"} ELSE raised
        <4>1. PICK e \in EarlyEnds(Top.type, pyErr) :
                /\ pyErr' = e
                /\ raised' = IF e = "other" THEN raised \cup {"untold"} ELSE raised
          BY <3>2
        <4>2. e \in Exceptions \cup {"none"} BY <1>d, <4>1 DEF EarlyEnds, Exceptions
        <4>3. raised' \in Histories BY <1>d, <4>1 DEF Histories
        <4>4. QED BY <4>1, <4>2, <4>3
      <3>3. QED BY <1>3, <3>1, <3>2 DEF IterationEnds
    <2>2. PICK b \in IF Top.count > 0 THEN Reserve(buf, Indent * level + 1) ELSE {buf} :
            \E c \in Reserve(Write(b, m), 1) : buf' = Write(c, 1)
      BY <1>3 DEF IterationEnds
    <2>3. PICK c \in Reserve(Write(b, m), 1) : buf' = Write(c, 1) BY <2>2
    <2>4. /\ m \in Nat /\ Indent * level + 1 \in Int
          /\ Indent >= 0 => Indent * level + 1 >= 0
          /\ Indent >= 0 /\ Top.count > 0 => m <= Indent * level + 1
          /\ ~(Top.count > 0) => m = 0
      <3> DEFINE p == Indent * level
                 q == Spaces(level)
      <3>1. q \in Nat /\ Newline \in 0..1 /\ p \in Int /\ (Indent >= 0 => q = p)
        BY <1>f, <2>1, SpacesCovered
      <3>2. m = IF Top.count > 0 THEN Newline + q ELSE 0 OBVIOUS
      <3> HIDE DEF p, q, m
      <3>3. /\ m \in Nat /\ p + 1 \in Int
            /\ Indent >= 0 => p + 1 >= 0
            /\ Indent >= 0 /\ Top.count > 0 => m <= p + 1
            /\ ~(Top.count > 0) => m = 0
        BY <3>1, <3>2, EncoderAssumption, SMT
      <3>4. QED BY <3>3 DEF p
    <2>5. /\ b \in Buffers /\ Owned(b) /\ b.offset \in Nat /\ b.size \in Nat
          /\ Reliable(b) => b.offset + m <= b.size
      <3>1. CASE Top.count > 0
        <4>1. b \in Reserve(buf, Indent * level + 1) BY <2>2, <3>1
        <4>2. /\ b \in Buffers /\ Owned(b)
              /\ Reliable(b) => Free(b) >= Indent * level + 1
          BY <1>b, <2>4, <4>1, ReserveBuffer DEF Reliable
        <4>3. b.offset \in Nat /\ b.size \in Nat BY <4>2, BufferFields
        <4>4. QED BY <2>4, <3>1, <4>2, <4>3, SMT DEF Free, Reliable
      <3>2. CASE ~(Top.count > 0)
        <4>1. b = buf /\ m = 0 BY <2>2, <2>4, <3>2
        <4>2. QED BY <1>b, <1>c, <4>1, SMT
      <3>3. QED BY <3>1, <3>2
    <2> HIDE DEF m
    <2>6. /\ Write(b, m) \in Buffers /\ Owned(Write(b, m))
          /\ Reliable(Write(b, m)) => Write(b, m).offset <= Write(b, m).size
      <3>1. /\ Write(b, m) \in Buffers
            /\ Write(b, m).offset = b.offset + m /\ Write(b, m).size = b.size
            /\ Write(b, m).start = b.start /\ Write(b, m).blocks = b.blocks
        BY <2>4, <2>5, WriteBuffer
      <3>2. Owned(Write(b, m)) BY <2>5, <3>1 DEF Owned
      <3>3. QED BY <2>5, <3>1, <3>2 DEF Reliable
    <2>7. /\ c \in Buffers /\ Owned(c) /\ (Reliable(c) => Free(c) >= 1)
      BY <2>3, <2>6, ReserveBuffer, SMT DEF Reliable
    <2>8. /\ buf' \in Buffers /\ Owned(buf') /\ buf'.offset = c.offset + 1
          /\ buf'.size = c.size /\ buf'.start = c.start
      BY <2>3, <2>7, WriteBuffer DEF Owned
    <2>9. Reliable(buf') => buf'.offset <= buf'.size
      BY <2>7, <2>8, BufferFields, SMT DEF Free, Reliable
    <2>10. errorMsg' \in BOOLEAN BY <2>1, Zenon DEF NoteFailure
    <2>11. out' \in Seq(Lexemes)
      <3>1. out \o <<"rbrack">> \in Seq(Lexemes) /\ out \o <<"rbrace">> \in Seq(Lexemes)
        BY <1>d, SMT DEF Lexemes
      <3>2. QED BY <1>3, <3>1 DEF IterationEnds
    <2>13. ~Abandoned BY <2>1 DEF Abandoned
    <2>14. QED BY <1>a, <2>1, <2>8, <2>9, <2>10, <2>11, <2>12, <2>13, LeaveInvariant
  <1>4. CASE ItemDone
    <2>1. /\ pc = "returned" /\ pc' = "iterate" /\ ~errorMsg
          /\ frames' = Popped \o <<Frame(Top.type, Top.left, Top.count + 1)>>
          /\ UNCHANGED <<level, named, value, type, contexts, errorMsg, pyErr, buf, ret,
                         out, raised>>
      BY <1>4 DEF ItemDone
    <2>2. Top.count + 1 \in Nat BY <1>e, SMT
    <2>3. frames' \in Seq(Frames) /\ Len(frames') = Len(frames) /\ frames' # <<>>
      BY <1>e, <2>1, <2>2, PushedFrame, SMT
    <2>4. TypeOK' BY <2>1, <2>3, Zenon DEF TypeOK
    <2>5. Control' BY <2>1, <2>3 DEF Control
    <2>6. Balance' BY <2>1, <2>3 DEF Balance, AtHand, Abandoned
    <2>7. Depths' BY <2>1, <2>3 DEF Depths, LevelMatches
    <2>8. Holding' /\ Fitting' BY <2>1 DEF Holding, Fitting, Reliable, Allocated
    <2>9. QED BY <2>4, <2>5, <2>6, <2>7, <2>8 DEF IInv
  <1>5. CASE Unwind
    <2>1. /\ errorMsg /\ Leave
          /\ UNCHANGED <<named, value, type, errorMsg, pyErr, buf, ret, out, raised>>
      BY <1>5 DEF Unwind
    <2>2. Abandoned => Abandoned' BY <2>1 DEF Abandoned, Leave
    <2>3. QED BY <1>a, <1>b, <1>d, <2>1, <2>2, LeaveInvariant
  <1>6. QED BY <1>1, <1>2, <1>3, <1>4, <1>5 DEF Iterate

LEMMA EndInvariant == IInv /\ (Encoded \/ Deliver) => IInv'
PROOF
  <1> SUFFICES ASSUME IInv, Encoded \/ Deliver PROVE IInv' OBVIOUS
  <1>0. TypeOK /\ Control /\ Balance /\ Depths /\ Holding /\ Fitting BY DEF IInv
  <1> USE <1>0
  <1>1. /\ pc \in {"returned", "encoded"} /\ pc' \in {"encoded", "done"}
        /\ frames = <<>>
        /\ UNCHANGED <<level, frames, named, value, type, contexts, errorMsg, out>>
    BY DEF Encoded, Deliver, Control
  <1>2. /\ buf' \in Buffers /\ buf'.offset = buf.offset /\ buf'.size = buf.size
        /\ buf'.start = buf.start /\ Holding'
        /\ ret' \in {"NULL", "string"} \cup {ret}
        /\ pc' = "encoded" => ret' \in {"NULL", "string"}
        /\ pyErr' \in {pyErr, "OverflowError", "other"}
        /\ raised' \in {raised, raised \cup {"told"}}
    <2>1. buf \in Buffers BY DEF TypeOK
    <2>2. CASE Encoded
      <3>1. Owned(buf) /\ pc' = "encoded" /\ pyErr' = pyErr /\ raised' = raised
        BY <2>2 DEF Encoded, Holding
      <3>2. CASE errorMsg
        <4>1. ret' = "NULL" /\ buf' = FreeBlock(buf) BY <2>2, <3>2 DEF Encoded
        <4>2. QED BY <2>1, <3>1, <4>1, FreeBlockBuffer DEF Holding, Allocated
      <3>3. CASE ~errorMsg
        <4>1. ret' = "string" /\ buf' = buf BY <2>2, <3>3 DEF Encoded
        <4>2. QED BY <2>1, <3>1, <4>1 DEF Holding
      <3>4. QED BY <3>2, <3>3
    <2>3. CASE Deliver
      <3>1. /\ pc = "encoded" /\ pc' = "done" /\ ret \in {"NULL", "string"}
            /\ pyErr' \in {pyErr, "OverflowError", "other"}
            /\ raised' \in {raised, raised \cup {"told"}}
            /\ ret' \in {"NULL", ret}
        BY <2>3 DEF Deliver, Control
      <3>2. CASE ret = "string"
        <4>1. Owned(buf) /\ buf' = FreeBlock(buf) BY <2>3, <3>1, <3>2 DEF Deliver, Holding
        <4>2. QED BY <2>1, <3>1, <4>1, FreeBlockBuffer DEF Holding, Allocated
      <3>3. CASE ret = "NULL"
        <4>1. (Allocated => buf.blocks = 0) /\ buf' = buf
          BY <2>3, <3>1, <3>3 DEF Deliver, Holding
        <4>2. QED BY <2>1, <3>1, <4>1 DEF Holding, Allocated
      <3>4. QED BY <3>1, <3>2, <3>3
    <2>4. QED BY <2>2, <2>3
  <1>9. raised' \in Histories BY <1>2 DEF TypeOK, Histories
  <1>3. TypeOK' BY <1>1, <1>2, <1>9, Zenon DEF TypeOK, Exceptions
  <1>4. Control' BY <1>1, <1>2 DEF Control
  <1>5. Balance'
    <2>1. AtHand' = AtHand BY <1>1 DEF AtHand
    <2>2. Abandoned => Abandoned' BY <1>1, <1>2 DEF Abandoned
    <2>3. QED BY <1>1, <2>1, <2>2 DEF Balance
  <1>6. Depths' BY <1>1 DEF Depths, LevelMatches
  <1>7. Fitting' BY <1>1, <1>2 DEF Fitting, Reliable
  <1>8. QED BY <1>2, <1>3, <1>4, <1>5, <1>6, <1>7 DEF IInv

LEMMA NextInvariant == IInv /\ [Next]_vars => IInv'
PROOF
  <1> SUFFICES ASSUME IInv, [Next]_vars PROVE IInv' OBVIOUS
  <1>1. CASE UNCHANGED vars
    <2>1. UNCHANGED <<pc, level, frames, type, contexts, errorMsg, buf, ret>>
      BY <1>1 DEF vars
    <2>2. TypeOK' BY <1>1 DEF vars, IInv, TypeOK
    <2>3. Control' /\ Holding' BY <2>1 DEF IInv, Control, Holding, Allocated
    <2>4. Balance' BY <1>1 DEF vars, IInv, Balance, AtHand, Abandoned
    <2>7. Depths' BY <2>1 DEF IInv, Depths, LevelMatches
    <2>5. Fitting' BY <2>1 DEF IInv, Fitting, Reliable
    <2>6. QED BY <2>2, <2>3, <2>4, <2>5, <2>7 DEF IInv
  <1>2. QED
    BY <1>1, EnterInvariant, BeginInvariant, SwitchInvariant, IterateInvariant,
       EndInvariant DEF Next, Step, Done

-----------------------------------------------------------------------------
\* encode's state is well typed: level, frames, contexts and blocks included.
THEOREM TypeCorrect == Spec => []TypeOK
PROOF
  <1>1. IInv => TypeOK BY DEF IInv
  <1>2. QED BY <1>1, InitInvariant, NextInvariant, PTL DEF Spec

\* enc->level is the depth of the recursion until an error unwinds it, and no
\* more than RecursionMax + 1 containers are ever open.
THEOREM LevelCorrect == Spec => []LevelMatches
PROOF
  <1>1. IInv => LevelMatches BY DEF IInv, Depths
  <1>2. QED BY <1>1, InitInvariant, NextInvariant, PTL DEF Spec

\* The reservations of encode cover all it appends: unless the indentation is
\* negative no byte is written beyond the buffer until an allocation fails,
\* whatever is encoded with whatever separators.
THEOREM AppendsCorrect ==
  ASSUME Indent >= 0
  PROVE  Spec => []AppendsFit
PROOF
  <1>1. IInv => AppendsFit BY DEF IInv, Fitting, Reliable, AppendsFit, Allocated
  <1>2. QED BY <1>1, InitInvariant, NextInvariant, PTL DEF Spec

\* Every call of dumps has ended each type context and freed the buffer when
\* it returns, after exceptions of user code at any point too: all but the
\* context of a string that getStringValue did not deliver, and the buffer
\* that realloc did not enlarge.
THEOREM LeakCorrect == Spec => []NothingLeaked
PROOF
  <1>1. IInv => NothingLeaked
    <2> SUFFICES ASSUME IInv, pc = "done"
                 PROVE  (Abandoned \/ contexts = 0) /\ (Allocated => buf.blocks = 0)
      BY DEF NothingLeaked
    <2>1. frames = <<>> /\ AtHand = 0 BY DEF IInv, Control, AtHand
    <2>2. ~Abandoned => contexts = Len(frames) + AtHand BY DEF IInv, Balance
    <2>3. ~Abandoned => contexts = 0 BY <2>1, <2>2, SMT
    <2>4. Allocated => buf.blocks = 0 BY DEF IInv, Holding
    <2>5. QED BY <2>3, <2>4
  <1>2. QED BY <1>1, InitInvariant, NextInvariant, PTL DEF Spec

-----------------------------------------------------------------------------
(* Errors. *)

\* A pending exception has been raised on the way, and JSON_EncodeObject
\* returns NULL exactly for its own errors.
Reason ==
  /\ pc # "done" /\ pyErr # "none" => raised # {}
  /\ pc = "encoded" => (ret = "NULL" <=> errorMsg)
  /\ NullHasReason

LEMMA ReasonInvariant == Reason /\ [Next]_vars => Reason'
PROOF
  <1> SUFFICES ASSUME Reason, [Next]_vars PROVE Reason' OBVIOUS
  <1>1. CASE Enter BY <1>1 DEF Enter, TooDeep, AlreadyFailed, Name, Reason, NullHasReason
  <1>2. CASE BeginNull BY <1>2 DEF BeginNull, ReadyToBegin, Reason, NullHasReason
  <1>3. CASE BeginTypeContext
    <2>1. pc # "done" /\ pc' = "switch" BY <1>3 DEF BeginTypeContext, ReadyToBegin
    <2>2. PICK o \in BeginOutcomes(pyErr) :
            /\ pyErr' = o.err
            /\ raised' = IF o.type = "INVALID" THEN raised \cup {"told"} ELSE raised
      BY <1>3 DEF BeginTypeContext
    <2>3. o.err \in {pyErr, "none"} \/ o.type = "INVALID" BY <2>2 DEF BeginOutcomes
    <2>4. pyErr' # "none" => raised' # {} BY <2>1, <2>2, <2>3 DEF Reason
    <2>5. QED BY <2>1, <2>4 DEF Reason, NullHasReason
  <1>4. CASE Switch
    BY <1>4 DEF Switch, Invalid, Open, Scalar, GetDoubleValue, DoubleRefused,
                StringUnavailable, StringNoMemory, String, Raw, Reason, NullHasReason
  <1>5. CASE Iterate
    <2>1. CASE Item
      BY <2>1 DEF Item, ItemAnswers, Reason, NullHasReason
    <2>2. CASE IterationEnds
      <3>1. pc = "iterate" /\ pc' = "returned" BY <2>2 DEF IterationEnds, Leave
      <3>2. CASE UNCHANGED <<pyErr, raised>> BY <3>1, <3>2 DEF Reason, NullHasReason
      <3>3. CASE \E e \in EarlyEnds(Top.type, pyErr) :
                   /\ pyErr' = e
                   /\ raised' = IF e = "other" THEN raised \cup {"untold"} ELSE raised
        <4>1. PICK e \in EarlyEnds(Top.type, pyErr) :
                /\ pyErr' = e
                /\ raised' = IF e = "other" THEN raised \cup {"untold"} ELSE raised
          BY <3>3
        <4>2. e \in {pyErr, "other"} BY <4>1 DEF EarlyEnds
        <4>3. pyErr' # "none" => raised' # {} BY <3>1, <4>1, <4>2 DEF Reason
        <4>4. QED BY <3>1, <4>3 DEF Reason, NullHasReason
      <3>4. QED BY <2>2, <3>2, <3>3 DEF IterationEnds
    <2>3. CASE IterNextFailed \/ ItemDone \/ Unwind
      BY <2>3 DEF IterNextFailed, ItemDone, Unwind, Leave, Reason, NullHasReason
    <2>4. QED BY <1>5, <2>1, <2>2, <2>3 DEF Iterate
  <1>6. CASE Encoded BY <1>6 DEF Encoded, Reason, NullHasReason
  <1>7. CASE Deliver BY <1>7 DEF Deliver, Reason, NullHasReason
  <1>8. CASE UNCHANGED vars BY <1>8 DEF vars, Reason, NullHasReason
  <1>9. QED BY <1>1, <1>2, <1>3, <1>4, <1>5, <1>6, <1>7, <1>8 DEF Next, Step, Done

\* dumps returns NULL exactly when an exception is pending, and only when an
\* exception was raised on the way or encode reported an error, whichever
\* callbacks and allocations fail.
THEOREM NullCorrect == Spec => []NullHasReason
PROOF
  <1>1. Init => Reason BY DEF Init, Reason, NullHasReason
  <1>2. Reason => NullHasReason BY DEF Reason
  <1>3. QED BY <1>1, <1>2, ReasonInvariant, PTL DEF Spec

\* An error is never pending where encode is about to do something, unless it
\* is the failure of an allocation.
Stopping == errorMsg /\ Allocated => pc \notin {"begin", "switch", "iterate"}

\* The buffer is lost for good: what only moves it ...
Loses(b, c) == "start" \in DOMAIN c /\ (c.start # "NULL" => b.start # "NULL")

LEMMA ReserveLoses ==
  ASSUME NEW b, NEW n, NEW c \in Reserve(b, n), "start" \in DOMAIN b
  PROVE  Loses(b, c)
PROOF
  <1>1. CASE c = b BY <1>1 DEF Loses
  <1>2. CASE c = Failed(b)
    <2>1. DOMAIN c = DOMAIN b /\ c.start = "NULL" BY <1>2 DEF Failed
    <2>2. QED BY <2>1 DEF Loses
  <1>3. CASE b.start # "NULL" /\ \E s \in NewSizes(b.size, b.size + n) : c = Grown(b, s)
    <2>1. PICK s \in NewSizes(b.size, b.size + n) : c = Grown(b, s) BY <1>3
    <2>2. DOMAIN c = DOMAIN b BY <2>1 DEF Grown
    <2>3. QED BY <1>3, <2>2 DEF Loses
  <1>4. QED BY <1>1, <1>2, <1>3, Zenon DEF Reserve, Realloc

LEMMA WriteLoses ==
  ASSUME NEW b, NEW n, "start" \in DOMAIN b
  PROVE  Loses(b, Write(b, n))
PROOF
  <1>1. DOMAIN Write(b, n) = DOMAIN b /\ Write(b, n).start = b.start BY DEF Write
  <1>2. QED BY <1>1 DEF Loses

\* ... and every step.
LEMMA StaysLost == IInv /\ [Next]_vars => (Allocated' => Allocated)
PROOF
  <1> SUFFICES ASSUME IInv, [Next]_vars PROVE Loses(buf, buf') BY DEF Loses, Allocated
  <1>1. "start" \in DOMAIN buf BY DEF IInv, TypeOK, Buffers
  <1>2. ASSUME NEW b, NEW n, NEW m, b \in Reserve(buf, n), buf' = Write(b, m)
        PROVE  Loses(buf, buf')
    BY <1>1, <1>2, ReserveLoses, WriteLoses DEF Loses
  <1>3. ASSUME NEW n, buf' \in Reserve(buf, n) PROVE Loses(buf, buf')
    BY <1>1, <1>3, ReserveLoses
  <1>4. ASSUME NEW n, buf' = Write(buf, n) PROVE Loses(buf, buf')
    BY <1>1, <1>4, WriteLoses
  <1>5. ASSUME buf' = buf PROVE Loses(buf, buf') BY <1>1, <1>5 DEF Loses
  <1>6. CASE TooDeep \/ AlreadyFailed BY <1>5, <1>6 DEF TooDeep, AlreadyFailed
  <1>7. ASSUME NEW n \in Lengths, Name(n) PROVE Loses(buf, buf')
    BY <1>2, <1>7 DEF Name
  <1>8. CASE BeginNull \/ BeginTypeContext BY <1>3, <1>8 DEF BeginNull, BeginTypeContext
  <1>9. CASE Invalid \/ DoubleRefused \/ StringUnavailable
    BY <1>5, <1>9 DEF Invalid, DoubleRefused, StringUnavailable
  <1>10. ASSUME NEW n, Open(n) \/ Scalar(n) PROVE Loses(buf, buf')
    BY <1>4, <1>10 DEF Open, Scalar
  <1>11. ASSUME NEW n, StringNoMemory(n) PROVE Loses(buf, buf')
    BY <1>3, <1>11 DEF StringNoMemory
  <1>12. ASSUME NEW n, String(n) \/ Raw(n) PROVE Loses(buf, buf')
    BY <1>2, <1>12 DEF String, Raw
  <1>13. CASE Item BY <1>2, <1>13 DEF Item
  <1>14. CASE IterNextFailed BY <1>3, <1>14 DEF IterNextFailed
  <1>15. CASE IterationEnds
    <2> DEFINE m == IF Top.count > 0 THEN Newline + Spaces(level) ELSE 0
    <2>1. PICK b \in IF Top.count > 0 THEN Reserve(buf, Indent * level + 1) ELSE {buf} :
            \E c \in Reserve(Write(b, m), 1) : buf' = Write(c, 1)
      BY <1>15 DEF IterationEnds
    <2>2. PICK c \in Reserve(Write(b, m), 1) : buf' = Write(c, 1) BY <2>1
    <2> HIDE DEF m
    <2>3. Loses(buf, b)
      <3>1. b = buf \/ b \in Reserve(buf, Indent * level + 1) BY <2>1
      <3>2. QED BY <1>1, <3>1, ReserveLoses DEF Loses
    <2>4. Loses(b, Write(b, m)) BY <2>3, WriteLoses DEF Loses
    <2>5. Loses(Write(b, m), c) BY <2>2, <2>4, ReserveLoses DEF Loses
    <2>6. Loses(c, buf') BY <2>2, <2>5, WriteLoses DEF Loses
    <2>7. QED BY <2>3, <2>4, <2>5, <2>6 DEF Loses
  <1>16. CASE ItemDone \/ Unwind BY <1>5, <1>16 DEF ItemDone, Unwind
  <1>17. CASE Encoded \/ Deliver
    <2>1. buf' = buf \/ buf' = FreeBlock(buf) BY <1>17 DEF Encoded, Deliver
    <2>2. DOMAIN FreeBlock(buf) = DOMAIN buf /\ FreeBlock(buf).start = buf.start
      BY <1>1 DEF FreeBlock
    <2>3. QED BY <1>1, <2>1, <2>2 DEF Loses
  <1>18. CASE UNCHANGED vars BY <1>5, <1>18 DEF vars
  <1>19. QED
    BY <1>6, <1>7, <1>8, <1>9, <1>10, <1>11, <1>12, <1>13, <1>14, <1>15, <1>16, <1>17,
       <1>18 DEF Next, Step, Done, Enter, Switch, Iterate

LEMMA StoppingInvariant == IInv /\ Stopping /\ [Next]_vars => Stopping'
PROOF
  <1> SUFFICES ASSUME IInv, Stopping, [Next]_vars PROVE Stopping' OBVIOUS
  <1>1. Allocated' => Allocated BY StaysLost
  <1>2. CASE Enter
    BY <1>1, <1>2 DEF Enter, TooDeep, AlreadyFailed, Name, NoteFailure, Stopping, Allocated
  <1>3. CASE BeginNull \/ BeginTypeContext
    BY <1>1, <1>3 DEF BeginNull, BeginTypeContext, ReadyToBegin, NoteFailure, Stopping,
                      Allocated
  <1>4. CASE Switch
    BY <1>1, <1>4 DEF Switch, Invalid, Open, Scalar, DoubleRefused, StringUnavailable,
                      StringNoMemory, String, Raw, Stopping
  <1>5. CASE Iterate
    BY <1>1, <1>5 DEF Iterate, Item, IterNextFailed, IterationEnds, ItemDone, Unwind,
                      Leave, NoteFailure, Stopping, Allocated
  <1>6. CASE Encoded \/ Deliver BY <1>6 DEF Encoded, Deliver, Stopping
  <1>7. CASE UNCHANGED vars BY <1>7 DEF vars, Stopping, Allocated
  <1>8. QED BY <1>2, <1>3, <1>4, <1>5, <1>6, <1>7 DEF Next, Step, Done

\* After an error other than a failed allocation nothing is appended, begun or
\* iterated: the calls of encode only return.
THEOREM StopCorrect == Spec => ErrorStopsEncoding
PROOF
  <1> DEFINE Quiet == errorMsg /\ Allocated => pc' \notin {"begin", "switch", "iterate"} /\ out' = out
  <1>1. Stopping /\ [Next]_vars => [Quiet]_vars
    <2> SUFFICES ASSUME Stopping, Next, errorMsg, Allocated
                 PROVE  pc' \notin {"begin", "switch", "iterate"} /\ out' = out
      BY DEF vars
    <2>1. pc \notin {"begin", "switch", "iterate"} BY DEF Stopping
    <2>2. CASE Enter BY <2>1, <2>2 DEF Enter, TooDeep, AlreadyFailed, Name
    <2>3. CASE BeginNull \/ BeginTypeContext
      BY <2>1, <2>3 DEF BeginNull, BeginTypeContext, ReadyToBegin
    <2>4. CASE Switch
      BY <2>1, <2>4 DEF Switch, Invalid, Open, Scalar, DoubleRefused,
                        StringUnavailable, StringNoMemory, String, Raw
    <2>5. CASE Iterate
      BY <2>1, <2>5 DEF Iterate, Item, IterNextFailed, IterationEnds, ItemDone,
                        Unwind, Leave
    <2>6. CASE Encoded \/ Deliver BY <2>6 DEF Encoded, Deliver
    <2>7. CASE Done BY <2>1, <2>7 DEF Done, vars
    <2>8. QED BY <2>2, <2>3, <2>4, <2>5, <2>6, <2>7 DEF Next, Step
  <1>2. Init => Stopping BY DEF Init, Stopping
  <1>3. QED
    BY <1>1, <1>2, InitInvariant, NextInvariant, StoppingInvariant, PTL
    DEF Spec, ErrorStopsEncoding

-----------------------------------------------------------------------------
(* Exceptions. *)

\* An exception that encode was told of is on its way: encode reports it, or is
\* about to, as INVALID or as an item that is NULL, or objToJSON has returned
\* NULL for it.
Surfacing ==
  "told" \in raised =>
    \/ errorMsg /\ pc # "done"
    \/ pc = "switch" /\ type = "INVALID"
    \/ pc \in {"encode", "begin"} /\ value = "NULL"
    \/ pc = "done" /\ ret = "NULL" /\ pyErr # "none"

LEMMA SurfacingInvariant == Surfacing /\ [Next]_vars => Surfacing'
PROOF
  <1> SUFFICES ASSUME Surfacing, [Next]_vars PROVE Surfacing' OBVIOUS
  <1> USE DEF Surfacing
  <1>1. CASE Enter
    BY <1>1 DEF Enter, TooDeep, AlreadyFailed, Name, SetError, NoteFailure
  <1>2. CASE BeginNull BY <1>2 DEF BeginNull, ReadyToBegin, NoteFailure
  <1>3. CASE BeginTypeContext
    BY <1>3 DEF BeginTypeContext, ReadyToBegin, NoteFailure
  <1>4. CASE Switch
    <2>1. ASSUME NEW n \in ScalarLengths, Scalar(n)
          PROVE  Surfacing'
      <3>1. /\ pc = "switch" /\ pc' = "returned" /\ type # "INVALID"
            /\ UNCHANGED errorMsg /\ GetDoubleValue
        BY <2>1 DEF Scalar
      <3>2. "told" \in raised' => "told" \in raised BY <3>1 DEF GetDoubleValue
      <3>3. QED BY <3>1, <3>2
    <2>2. CASE Invalid \/ DoubleRefused \/ StringUnavailable
      BY <2>2 DEF Invalid, DoubleRefused, StringUnavailable, SetError
    <2>3. ASSUME NEW n \in Lengths, StringNoMemory(n) \/ String(n) \/ Raw(n)
          PROVE  Surfacing'
      BY <2>3 DEF StringNoMemory, String, Raw, SetError
    <2>4. ASSUME NEW n \in 0..MaxItems, Open(n)
          PROVE  Surfacing'
      BY <2>4 DEF Open, Containers
    <2>5. QED BY <1>4, <2>1, <2>2, <2>3, <2>4 DEF Switch
  <1>5. CASE Iterate
    <2>1. CASE Item
      <3>1. pc = "iterate" /\ pc' = "encode" /\ (errorMsg => errorMsg')
        BY <2>1 DEF Item, NoteFailure
      <3>2. "told" \in raised' => "told" \in raised \/ value' = "NULL"
        BY <2>1 DEF Item
      <3>3. QED BY <3>1, <3>2
    <2>2. CASE IterNextFailed BY <2>2 DEF IterNextFailed, Leave, NoteFailure
    <2>3. CASE IterationEnds
      <3>1. /\ pc = "iterate" /\ pc' = "returned" /\ (errorMsg => errorMsg')
        BY <2>3 DEF IterationEnds, Leave, NoteFailure
      <3>2. raised' \in {raised, raised \cup {"untold"}} BY <2>3, Zenon DEF IterationEnds
      <3>3. QED BY <3>1, <3>2
    <2>4. CASE ItemDone \/ Unwind BY <2>4 DEF ItemDone, Unwind, Leave
    <2>5. QED BY <1>5, <2>1, <2>2, <2>3, <2>4 DEF Iterate
  <1>6. CASE Encoded BY <1>6 DEF Encoded
  <1>7. CASE Deliver BY <1>7 DEF Deliver
  <1>8. CASE UNCHANGED vars BY <1>8 DEF vars
  <1>9. QED BY <1>1, <1>2, <1>3, <1>4, <1>5, <1>6, <1>7, <1>8 DEF Next, Step, Done

\* An exception that a callback has told encode of, by INVALID or by NULL, is
\* never lost: dumps returns NULL with an exception, also where iterators,
\* getters of doubles and options fail and their exceptions are cleared.
THEOREM SurfaceCorrect == Spec => []ToldSurface
PROOF
  <1>1. Init => Surfacing BY DEF Init, Surfacing
  <1>2. Surfacing => ToldSurface BY DEF Surfacing, ToldSurface
  <1>3. QED BY <1>1, <1>2, SurfacingInvariant, PTL DEF Spec

-----------------------------------------------------------------------------
(* The text written. *)

\* encode is given a name for the members of objects and for nothing else.
Naming ==
  /\ pc = "begin" => named
  /\ pc \in {"encode", "begin", "switch"} => (named <=> frames # <<>> /\ Top.type = "OBJECT")

LEMMA PushedTop ==
  ASSUME NEW s \in Seq(Frames), NEW t \in Containers, NEW n \in Nat, NEW c \in Nat,
         frames' = s \o <<Frame(t, n, c)>>
  PROVE  /\ frames' # <<>>
         /\ Top'.type = t /\ Top'.count = c
PROOF
  <1> DEFINE f == Frame(t, n, c)
  <1>1. f \in Frames /\ f.type = t /\ f.count = c BY DEF Frame, Frames
  <1> HIDE DEF f
  <1>2. /\ Len(s \o <<f>>) = Len(s) + 1
        /\ (s \o <<f>>)[Len(s) + 1] = f
    BY <1>1, SMT
  <1>3. frames' # <<>> BY PushedFrame
  <1>4. Top' = f BY <1>2 DEF Top, f
  <1>5. QED BY <1>1, <1>3, <1>4

LEMMA NamingInvariant == IInv /\ Naming /\ [Next]_vars => Naming'
PROOF
  <1> SUFFICES ASSUME IInv, Naming, [Next]_vars PROVE Naming' OBVIOUS
  <1>1. CASE pc' \notin {"encode", "begin", "switch"} BY <1>1 DEF Naming
  <1>2. CASE \E n \in Lengths : Name(n)
    BY <1>2 DEF Name, Naming, Top
  <1>3. CASE BeginNull \/ BeginTypeContext
    BY <1>3 DEF BeginNull, BeginTypeContext, ReadyToBegin, Naming, Top
  <1>4. CASE Item
    <2>1. frames \in Seq(Frames) /\ frames # <<>> BY <1>4 DEF IInv, TypeOK, Control, Item
    <2>2. /\ Popped \in Seq(Frames) /\ Top.type \in Containers
          /\ Top.left - 1 \in Nat /\ Top.count \in Nat
      BY <1>4, <2>1, TopFrame, SMT DEF Item
    <2>3. frames' # <<>> /\ Top'.type = Top.type BY <1>4, <2>2, PushedTop DEF Item
    <2>4. pc' = "encode" /\ named' = (Top.type = "OBJECT") BY <1>4 DEF Item
    <2>5. QED BY <2>3, <2>4 DEF Naming
  <1>5. CASE UNCHANGED vars BY <1>5 DEF vars, Naming, Top
  <1>6. QED
    BY <1>1, <1>2, <1>3, <1>4, <1>5
    DEF Next, Step, Done, Enter, TooDeep, AlreadyFailed, Switch, Invalid, Open, Scalar,
        DoubleRefused, StringUnavailable, StringNoMemory, String, Raw, Iterate,
        IterNextFailed, IterationEnds, ItemDone, Unwind, Leave, Encoded, Deliver

\* The containers that are open.
Opened(s) == [i \in DOMAIN s |-> s[i].type]

LEMMA OpenedSeq ==
  ASSUME NEW s \in Seq(Frames)
  PROVE  /\ Opened(s) \in Seq(Containers) /\ Len(Opened(s)) = Len(s)
         /\ (Opened(s) = <<>> <=> s = <<>>)
         /\ \A i \in 1..Len(s) : Opened(s)[i] = s[i].type
PROOF
  <1>1. Len(s) \in Nat /\ DOMAIN s = 1..Len(s) OBVIOUS
  <1>2. ASSUME NEW i \in 1..Len(s) PROVE s[i].type \in Containers
    <2>1. s[i] \in Frames OBVIOUS
    <2>2. QED BY <2>1 DEF Frames
  <1>3. Opened(s) \in [1..Len(s) -> Containers] BY <1>1, <1>2 DEF Opened
  <1>4. Opened(s) \in Seq(Containers) BY <1>1, <1>3, SeqDef
  <1>5. DOMAIN Opened(s) = 1..Len(s) /\ Len(Opened(s)) = Len(s) BY <1>1, <1>3, <1>4, SMT
  <1>6. \A i \in 1..Len(s) : Opened(s)[i] = s[i].type BY <1>1 DEF Opened
  <1>7. Opened(s) = <<>> <=> s = <<>> BY <1>1, <1>4, <1>5, SMT
  <1>8. QED BY <1>4, <1>5, <1>6, <1>7

LEMMA OpenedPush ==
  ASSUME NEW s \in Seq(Frames), NEW t \in Containers, NEW n \in Nat, NEW c \in Nat
  PROVE  Opened(s \o <<Frame(t, n, c)>>) = Append(Opened(s), t)
PROOF
  <1> DEFINE f == Frame(t, n, c)
             r == s \o <<f>>
             o == Append(Opened(s), t)
  <1>1. f \in Frames /\ f.type = t BY DEF Frame, Frames
  <1> HIDE DEF f
  <1>2. /\ r \in Seq(Frames) /\ Len(r) = Len(s) + 1 /\ r[Len(s) + 1] = f
        /\ \A i \in 1..Len(s) : r[i] = s[i]
    BY <1>1, SMT
  <1> HIDE DEF r
  <1>3. /\ Opened(r) \in Seq(Containers) /\ Len(Opened(r)) = Len(s) + 1
        /\ \A i \in 1..Len(s) + 1 : Opened(r)[i] = r[i].type
    BY <1>2, OpenedSeq
  <1>4. /\ o \in Seq(Containers) /\ Len(o) = Len(s) + 1
        /\ \A i \in 1..Len(s) : o[i] = s[i].type
        /\ o[Len(s) + 1] = t
    BY OpenedSeq, AppendProperties
  <1> HIDE DEF o
  <1>5. Len(s) \in Nat OBVIOUS
  <1>6. ASSUME NEW i \in 1..Len(s) + 1 PROVE Opened(r)[i] = o[i]
    <2>1. i \in 1..Len(s) \/ i = Len(s) + 1 BY <1>5, SMT
    <2>2. QED BY <1>1, <1>2, <1>3, <1>4, <2>1
  <1>7. Opened(r) = o BY <1>3, <1>4, <1>6, SeqEqual
  <1>8. QED BY <1>7 DEF f, r, o

LEMMA OpenedPop ==
  ASSUME frames \in Seq(Frames), frames # <<>>
  PROVE  Opened(Popped) = SubSeq(Opened(frames), 1, Len(Opened(frames)) - 1)
PROOF
  <1> DEFINE o == Opened(frames)
  <1>1. /\ o \in Seq(Containers) /\ Len(o) = Len(frames) /\ Len(frames) \in Nat \ {0}
        /\ \A i \in 1..Len(frames) : o[i] = frames[i].type
    BY OpenedSeq, TopFrame
  <1> HIDE DEF o
  <1>2. PICK n \in Nat : n = Len(frames) - 1 BY <1>1, SMT
  <1>3. /\ SubSeq(o, 1, n) \in Seq(Containers) /\ Len(SubSeq(o, 1, n)) = n
        /\ \A i \in 1..n : SubSeq(o, 1, n)[i] = o[i]
    BY <1>1, <1>2, SMT
  <1>4. /\ Popped \in Seq(Frames) /\ Len(Popped) = n
        /\ \A i \in 1..n : Popped[i] = frames[i]
    BY <1>1, <1>2, TopFrame, SMT DEF Popped
  <1>5. /\ Opened(Popped) \in Seq(Containers) /\ Len(Opened(Popped)) = n
        /\ \A i \in 1..n : Opened(Popped)[i] = Popped[i].type
    BY <1>4, OpenedSeq
  <1>6. ASSUME NEW i \in 1..n PROVE Opened(Popped)[i] = SubSeq(o, 1, n)[i]
    <2>1. i \in 1..Len(frames) BY <1>1, <1>2, SMT
    <2>2. QED BY <1>1, <1>3, <1>4, <1>5, <2>1
  <1>7. Opened(Popped) = SubSeq(o, 1, n) BY <1>3, <1>5, <1>6, SeqEqual
  <1>8. QED BY <1>1, <1>2, <1>7 DEF o

LEMMA PlaceType ==
  ASSUME TypeOK
  PROVE  /\ Place.open = Opened(frames) /\ Place.at = At
         /\ Place.open \in Seq(Containers) /\ Len(Place.open) = Len(frames)
         /\ (Place.open = <<>> <=> frames = <<>>)
         /\ \A kind \in Containers :
              Written!Inside(Place, kind) <=> frames # <<>> /\ Top.type = kind
PROOF
  <1>1. frames \in Seq(Frames) BY DEF TypeOK
  <1>2. Place.open = Opened(frames) /\ Place.at = At BY DEF Place, Opened
  <1>3. /\ Place.open \in Seq(Containers) /\ Len(Place.open) = Len(frames)
        /\ (Place.open = <<>> <=> frames = <<>>)
        /\ \A i \in 1..Len(frames) : Place.open[i] = frames[i].type
    BY <1>1, <1>2, OpenedSeq
  <1>4. frames # <<>> => Len(frames) \in 1..Len(frames)
    <2>1. frames # <<>> => Len(frames) \in Nat \ {0} BY <1>1, TopFrame
    <2>2. QED BY <2>1, SMT
  <1>5. QED BY <1>2, <1>3, <1>4 DEF Written!Inside, Top

\* A value is due where encode writes one.
LEMMA ValueDue ==
  ASSUME TypeOK, Naming, pc = "switch"
  PROVE  Written!ValueDue(Place)
PROOF
  <1>1. CASE frames = <<>> \/ named
    <2>1. At = "value" BY <1>1 DEF At
    <2>2. QED BY <2>1, PlaceType DEF Written!ValueDue
  <1>2. CASE frames # <<>> /\ ~named
    <2>1. Top.type = "ARRAY" BY <1>2, TopFrame DEF TypeOK, Naming, Containers
    <2>2. At \in {"first", "value"} /\ (At = "first" => Top.count = 0)
      BY <1>2, <2>1 DEF At
    <2>3. Written!Inside(Place, "ARRAY") BY <1>2, <2>1, PlaceType DEF Containers
    <2>4. QED BY <2>2, <2>3, PlaceType DEF Written!ValueDue
  <1>3. QED BY <1>1, <1>2

\* Steps of the text while it is written.
Writing == ~errorMsg /\ pc \notin {"encoded", "done"}

LEMMA WriteStep ==
  ASSUME Writing, Writing', NEW c \in Written!Lexemes,
         Written!Follows(Place, c, Place'), out' = Append(out, c)
  PROVE  Written!Next
PROOF
  <1>1. Written!Write(c) BY DEF Writing, Text, TextPlace, Fate, Written!Write
  <1>2. QED BY <1>1 DEF Written!Next

LEMMA SameText ==
  ASSUME Writing, Writing', Place' = Place, out' = out
  PROVE  UNCHANGED Written!textVars
PROOF BY DEF Writing, Text, TextPlace, Fate, Written!textVars

LEMMA GiveUpStep ==
  ASSUME errorMsg', pc \notin {"encoded", "done"} \/ errorMsg
  PROVE  [Written!Next]_Written!textVars
PROOF
  <1>1. CASE errorMsg BY <1>1 DEF Text, TextPlace, Fate, Written!textVars
  <1>2. CASE ~errorMsg
    <2>1. Written!GiveUp
      BY <1>2 DEF Text, TextPlace, Fate, Written!GiveUp, Written!Beginning
    <2>2. QED BY <2>1 DEF Written!Next
  <1>3. QED BY <1>1, <1>2

LEMMA NameText ==
  ASSUME IInv, Naming, NEW n \in Lengths, Name(n)
  PROVE  [Written!Next]_Written!textVars
PROOF
  <1>1. CASE errorMsg' BY <1>1, GiveUpStep DEF Name
  <1>2. CASE ~errorMsg'
    <2>1. /\ Writing /\ Writing' /\ named /\ named' /\ pc = "encode" /\ pc' = "begin"
          /\ out' = out \o <<"str", "colon">> /\ UNCHANGED frames
      BY <1>2 DEF Name, Writing, SetError
    <2>2. frames # <<>> /\ Top.type = "OBJECT" BY <2>1 DEF Naming
    <2>3. At \in {"first", "name"} /\ At' = "value" BY <2>1, <2>2 DEF At
    <2>4. TypeOK BY DEF IInv
    <2>5. Written!Inside(Place, "OBJECT") BY <2>2, <2>4, PlaceType DEF Containers
    <2> DEFINE k == [open |-> Place.open, at |-> "colon"]
    <2>6. Written!Name(Place, "str", k) BY <2>3, <2>4, <2>5, PlaceType DEF Written!Name
    <2>7. Place' = [open |-> Place.open, at |-> "value"] BY <2>1, <2>3 DEF Place
    <2>8. Written!Colon(k, "colon", Place') BY <2>7 DEF Written!Colon
    <2>9. Written!WriteName
      BY <2>1, <2>6, <2>8 DEF Writing, Text, TextPlace, Fate, Written!WriteName
    <2>10. QED BY <2>9 DEF Written!Next
  <1>3. QED BY <1>1, <1>2

LEMMA BeginText ==
  ASSUME IInv, Naming, BeginNull \/ BeginTypeContext
  PROVE  [Written!Next]_Written!textVars
PROOF
  <1>1. /\ pc \in {"encode", "begin"} /\ (pc = "encode" => ~named) /\ pc' = "switch"
        /\ UNCHANGED <<frames, named, out>>
    BY DEF BeginNull, BeginTypeContext, ReadyToBegin
  <1>2. CASE errorMsg' BY <1>1, <1>2, GiveUpStep
  <1>3. CASE ~errorMsg'
    <2>1. ~errorMsg BY <1>3 DEF BeginNull, BeginTypeContext, NoteFailure
    <2>2. At' = At BY <1>1 DEF At, Naming, Top
    <2>3. Place' = Place BY <1>1, <2>2 DEF Place
    <2>4. QED BY <1>1, <1>3, <2>1, <2>3, SameText DEF Writing
  <1>4. QED BY <1>2, <1>3

LEMMA OpenText ==
  ASSUME IInv, Naming, NEW n \in 0..MaxItems, Open(n)
  PROVE  [Written!Next]_Written!textVars
PROOF
  <1>1. CASE errorMsg' BY <1>1, GiveUpStep DEF Open
  <1>2. CASE ~errorMsg'
    <2> DEFINE c == IF type = "ARRAY" THEN "lbrack" ELSE "lbrace"
    <2>1. /\ pc = "switch" /\ pc' = "iterate" /\ type \in Containers /\ ~errorMsg
          /\ out' = out \o <<c>> /\ frames' = frames \o <<Frame(type, n, 0)>>
      BY <1>2 DEF Open
    <2>2. TypeOK /\ frames \in Seq(Frames) /\ out \in Seq(Lexemes) BY DEF IInv, TypeOK
    <2>3. n \in Nat BY EncoderAssumption
    <2>4. Opened(frames') = Append(Opened(frames), type) BY <2>1, <2>2, <2>3, OpenedPush
    <2>5. frames' # <<>> /\ Top'.count = 0 BY <2>1, <2>2, <2>3, PushedTop
    <2>6. At' = "first" BY <2>1, <2>5 DEF At
    <2>7. Place' = [open |-> Append(Place.open, type), at |-> "first"]
      <3>1. Place.open = Opened(frames) BY <2>2, PlaceType
      <3>2. QED BY <2>4, <2>6, <3>1 DEF Place, Opened
    <2>8. Len(Place.open) < RecursionMax + 1
      <3>1. level = Len(frames) /\ level <= RecursionMax BY <2>1 DEF IInv, Depths, LevelMatches
      <3>2. QED BY <2>2, <3>1, PlaceType, EncoderAssumption, SMT
    <2>9. Written!ValueDue(Place) BY <2>1, <2>2, ValueDue
    <2>10. c = Written!Opener(type) BY DEF Written!Opener
    <2>11. c \in Written!Lexemes /\ c \in Lexemes BY DEF Written!Lexemes, Lexemes
    <2> HIDE DEF c
    <2>12. Written!Opening(Place, c, Place')
      BY <2>1, <2>7, <2>8, <2>9, <2>10 DEF Written!Opening, Written!Kinds, Containers
    <2>13. out' = Append(out, c) BY <2>1, <2>2, <2>11, AppendIsConcat
    <2>14. Written!Follows(Place, c, Place') BY <2>12 DEF Written!Follows
    <2>15. QED BY <1>2, <2>1, <2>11, <2>13, <2>14, WriteStep DEF Writing
  <1>3. QED BY <1>1, <1>2

\* A scalar, a string or the text of __json__.
LEMMA ScalarText ==
  ASSUME IInv, Naming, pc = "switch", pc' = "returned", UNCHANGED <<frames, errorMsg>>,
         NEW c \in {"str", "atom"}, out' = out \o <<c>>
  PROVE  [Written!Next]_Written!textVars
PROOF
  <1>1. CASE errorMsg BY <1>1, GiveUpStep
  <1>2. CASE ~errorMsg
    <2>1. TypeOK /\ out \in Seq(Lexemes) BY DEF IInv, TypeOK
    <2>2. At' = IF frames = <<>> THEN "end" ELSE "delimiter" BY DEF At
    <2>3. Place' = Written!Ended(Place.open)
      <3>1. Place'.open = Place.open /\ Place' = [open |-> Place.open, at |-> At'] BY DEF Place
      <3>2. QED BY <2>1, <2>2, <3>1, PlaceType DEF Written!Ended
    <2>4. Written!Scalar(Place, c, Place') BY <2>1, <2>3, ValueDue DEF Written!Scalar
    <2>5. Written!Follows(Place, c, Place') BY <2>4 DEF Written!Follows
    <2>6. c \in Lexemes /\ c \in Written!Lexemes BY DEF Lexemes, Written!Lexemes
    <2>7. out' = Append(out, c) BY <2>1, <2>6, AppendIsConcat
    <2>8. QED BY <1>2, <2>5, <2>6, <2>7, WriteStep DEF Writing
  <1>3. QED BY <1>1, <1>2

LEMMA SwitchText ==
  ASSUME IInv, Naming, Switch
  PROVE  [Written!Next]_Written!textVars
PROOF
  <1>1. CASE Invalid \/ DoubleRefused \/ StringUnavailable
    BY <1>1, GiveUpStep DEF Invalid, DoubleRefused, StringUnavailable, SetError
  <1>2. ASSUME NEW n \in 0..MaxItems, Open(n) PROVE [Written!Next]_Written!textVars
    BY <1>2, OpenText
  <1>3. ASSUME NEW n \in ScalarLengths, Scalar(n) PROVE [Written!Next]_Written!textVars
    BY <1>3, ScalarText DEF Scalar
  <1>4. ASSUME NEW n \in Lengths, StringNoMemory(n) \/ String(n) \/ Raw(n)
        PROVE  [Written!Next]_Written!textVars
    <2>1. CASE errorMsg' /\ pc = "switch" BY <2>1, GiveUpStep
    <2>2. CASE StringNoMemory(n) BY <2>1, <2>2 DEF StringNoMemory, SetError
    <2>3. CASE String(n) /\ ~errorMsg'
      <3>1. out' = out \o <<"str">> /\ errorMsg' = errorMsg /\ pc = "switch"
            /\ pc' = "returned" /\ UNCHANGED frames
        BY <2>3 DEF String, SetError
      <3>2. QED BY <3>1, ScalarText
    <2>4. CASE Raw(n) BY <2>4, ScalarText DEF Raw
    <2>5. QED BY <1>4, <2>1, <2>2, <2>3, <2>4 DEF String
  <1>5. QED BY <1>1, <1>2, <1>3, <1>4 DEF Switch

\* The frame of an item takes the place of the one before it.
LEMMA SameOpened ==
  ASSUME TypeOK, frames # <<>>, NEW n \in Nat, NEW c \in Nat,
         frames' = Popped \o <<Frame(Top.type, n, c)>>
  PROVE  /\ frames' # <<>> /\ Top'.type = Top.type /\ Top'.count = c
         /\ Opened(frames') = Opened(frames)
PROOF
  <1>1. frames \in Seq(Frames) BY DEF TypeOK
  <1>2. Popped \in Seq(Frames) /\ Top.type \in Containers BY <1>1, TopFrame
  <1>3. frames' # <<>> /\ Top'.type = Top.type /\ Top'.count = c BY <1>2, PushedTop
  <1>4. Opened(frames') = Append(Opened(Popped), Top.type) BY <1>2, OpenedPush
  <1> DEFINE o == Opened(frames)
  <1>5. /\ o \in Seq(Containers) /\ Len(o) = Len(frames) /\ Len(frames) \in Nat \ {0}
        /\ o[Len(frames)] = Top.type
    BY <1>1, OpenedSeq, TopFrame DEF Top
  <1>6. Opened(Popped) = SubSeq(o, 1, Len(o) - 1) BY <1>1, OpenedPop
  <1> HIDE DEF o
  <1>7. Append(SubSeq(o, 1, Len(o) - 1), o[Len(o)]) = o
    <2>0. Len(o) - 1 \in Nat
      <3>1. Len(o) \in Nat \ {0} BY <1>5
      <3>2. QED BY <3>1
    <2>1. PICK m \in Nat : m = Len(o) - 1 BY <2>0, Zenon
    <2>2. /\ SubSeq(o, 1, m) \in Seq(Containers) /\ Len(SubSeq(o, 1, m)) = m
          /\ \A i \in 1..m : SubSeq(o, 1, m)[i] = o[i]
      BY <1>5, <2>1, SMT
    <2>3. o[Len(o)] \in Containers BY <1>2, <1>5
    <2> DEFINE q == Append(SubSeq(o, 1, m), o[Len(o)])
    <2>4. /\ q \in Seq(Containers) /\ Len(q) = m + 1
          /\ \A i \in 1..m : q[i] = o[i]
          /\ q[m + 1] = o[Len(o)]
      BY <2>2, <2>3, AppendProperties
    <2> HIDE DEF q
    <2>5. Len(o) = m + 1 BY <1>5, <2>1, SMT
    <2>6. ASSUME NEW i \in 1..Len(q) PROVE q[i] = o[i]
      <3>1. i \in 1..m \/ i = m + 1 BY <2>4, SMT
      <3>2. QED BY <2>4, <2>5, <3>1
    <2>7. q = o BY <1>5, <2>4, <2>5, <2>6, SeqEqual
    <2>8. QED BY <2>1, <2>7 DEF q
  <1>8. Opened(frames') = Opened(frames) BY <1>4, <1>5, <1>6, <1>7 DEF o
  <1>9. QED BY <1>3, <1>8

LEMMA ItemText ==
  ASSUME IInv, Item
  PROVE  [Written!Next]_Written!textVars
PROOF
  <1>1. CASE errorMsg' BY <1>1, GiveUpStep DEF Item
  <1>2. CASE ~errorMsg'
    <2>1. TypeOK /\ frames # <<>> /\ frames \in Seq(Frames) BY DEF IInv, TypeOK, Control, Item
    <2>2. /\ pc = "iterate" /\ pc' = "encode" /\ ~errorMsg
          /\ out' = IF Top.count > 0 THEN out \o <<"comma">> ELSE out
      BY <1>2 DEF Item, NoteFailure
    <2>3. Top.left - 1 \in Nat /\ Top.count \in Nat BY <2>1, TopFrame, SMT DEF Item
    <2>4. /\ frames' # <<>> /\ Top'.type = Top.type /\ Top'.count = Top.count
          /\ Opened(frames') = Opened(frames)
      BY <2>1, <2>3, SameOpened DEF Item
    <2>5. Place.open = Opened(frames) BY <2>1, PlaceType
    <2>6. CASE Top.count = 0
      <3>1. out' = out BY <2>2, <2>6
      <3>2. At' = At BY <2>1, <2>2, <2>4, <2>6 DEF At
      <3>3. Place' = Place BY <2>4, <3>2 DEF Place, Opened
      <3>4. QED BY <1>2, <2>2, <3>1, <3>3, SameText DEF Writing
    <2>7. CASE Top.count # 0
      <3>1. At = "delimiter" /\ At' = IF Top.type = "ARRAY" THEN "value" ELSE "name"
        BY <2>1, <2>2, <2>4, <2>7 DEF At
      <3>2. Place' = [open |-> Place.open,
                      at |-> IF Written!Inside(Place, "ARRAY") THEN "value" ELSE "name"]
        BY <2>1, <2>4, <2>5, <3>1, PlaceType DEF Place, Opened, Containers
      <3>3. Written!Comma(Place, "comma", Place')
        BY <2>1, <3>1, <3>2, PlaceType DEF Written!Comma
      <3>4. Top.count > 0 BY <2>3, <2>7, SMT
      <3>5. out' = Append(out, "comma")
        <4>1. "comma" \in Lexemes /\ out \in Seq(Lexemes) BY <2>1 DEF TypeOK, Lexemes
        <4>2. QED BY <2>2, <3>4, <4>1, AppendIsConcat
      <3>6. QED BY <1>2, <2>2, <3>3, <3>5, WriteStep DEF Writing, Written!Follows, Written!Lexemes
    <2>8. QED BY <2>6, <2>7
  <1>3. QED BY <1>1, <1>2

LEMMA EndsText ==
  ASSUME IInv, IterationEnds
  PROVE  [Written!Next]_Written!textVars
PROOF
  <1>1. CASE errorMsg' BY <1>1, GiveUpStep DEF IterationEnds
  <1>2. CASE ~errorMsg'
    <2> DEFINE c == IF Top.type = "ARRAY" THEN "rbrack" ELSE "rbrace"
    <2>1. TypeOK /\ frames # <<>> /\ frames \in Seq(Frames)
      BY DEF IInv, TypeOK, Control, IterationEnds
    <2>2. /\ pc = "iterate" /\ pc' = "returned" /\ ~errorMsg
          /\ out' = out \o <<c>> /\ frames' = Popped
      BY <1>2 DEF IterationEnds, NoteFailure, Leave
    <2>3. At \in {"first", "delimiter"} BY <2>1, <2>2 DEF At
    <2>4. Top.type \in Containers /\ Popped \in Seq(Frames) BY <2>1, TopFrame
    <2>5. Opened(frames') = SubSeq(Place.open, 1, Len(Place.open) - 1)
      BY <2>1, <2>2, OpenedPop, PlaceType
    <2>6. At' = IF Opened(frames') = <<>> THEN "end" ELSE "delimiter"
      <3>1. Opened(frames') = <<>> <=> frames' = <<>> BY <2>2, <2>4, OpenedSeq
      <3>2. QED BY <2>2, <3>1 DEF At
    <2>7. Place' = Written!Ended(SubSeq(Place.open, 1, Len(Place.open) - 1))
      <3>1. Place' = [open |-> Opened(frames'), at |-> At'] BY DEF Place, Opened
      <3>2. QED BY <2>5, <2>6, <3>1 DEF Written!Ended
    <2>8. c = Written!Closer(Top.type) BY DEF Written!Closer
    <2>9. c \in Lexemes /\ c \in Written!Lexemes BY DEF Lexemes, Written!Lexemes
    <2> HIDE DEF c
    <2>10. Written!Inside(Place, Top.type) BY <2>1, <2>4, PlaceType
    <2>11. Written!Closing(Place, c, Place')
      BY <2>1, <2>3, <2>4, <2>7, <2>8, <2>10, PlaceType
      DEF Written!Closing, Written!Kinds, Containers
    <2>12. out' = Append(out, c) BY <2>1, <2>2, <2>9, AppendIsConcat DEF TypeOK
    <2>13. QED BY <1>2, <2>2, <2>9, <2>11, <2>12, WriteStep DEF Writing, Written!Follows
  <1>3. QED BY <1>1, <1>2

LEMMA ItemDoneText ==
  ASSUME IInv, ItemDone
  PROVE  [Written!Next]_Written!textVars
PROOF
  <1>1. TypeOK /\ frames \in Seq(Frames) BY DEF IInv, TypeOK
  <1>2. /\ pc = "returned" /\ pc' = "iterate" /\ frames # <<>> /\ ~errorMsg
        /\ UNCHANGED <<errorMsg, out>>
    BY DEF ItemDone
  <1>3. Top.left \in Nat /\ Top.count \in Nat BY <1>1, <1>2, TopFrame
  <1>4. Top.count + 1 \in Nat /\ Top.count + 1 # 0 BY <1>3, SMT
  <1>5. /\ frames' # <<>> /\ Top'.count = Top.count + 1
        /\ Opened(frames') = Opened(frames)
    BY <1>1, <1>2, <1>3, <1>4, SameOpened DEF ItemDone
  <1>6. At = "delimiter" /\ At' = "delimiter" BY <1>2, <1>4, <1>5 DEF At
  <1>7. Place' = Place BY <1>5, <1>6 DEF Place, Opened
  <1>8. QED BY <1>2, <1>7, SameText DEF Writing

LEMMA NextText ==
  ASSUME ~IterFails, IInv, Naming, [Next]_vars
  PROVE  [Written!Next]_Written!textVars
PROOF
  <1>1. CASE TooDeep \/ AlreadyFailed
    BY <1>1, GiveUpStep DEF TooDeep, AlreadyFailed, SetError
  <1>2. CASE \E n \in Lengths : Name(n) BY <1>2, NameText
  <1>3. CASE BeginNull \/ BeginTypeContext BY <1>3, BeginText
  <1>4. CASE Switch BY <1>4, SwitchText
  <1>5. CASE Iterate
    <2>1. CASE Item BY <2>1, ItemText
    <2>2. CASE IterNextFailed BY <2>2 DEF IterNextFailed, IterErrors
    <2>3. CASE IterationEnds BY <2>3, EndsText
    <2>4. CASE ItemDone BY <2>4, ItemDoneText
    <2>5. CASE Unwind BY <2>5, GiveUpStep DEF Unwind
    <2>6. QED BY <1>5, <2>1, <2>2, <2>3, <2>4, <2>5 DEF Iterate
  <1>6. CASE Encoded
    <2>1. CASE errorMsg BY <1>6, <2>1, GiveUpStep DEF Encoded
    <2>2. CASE ~errorMsg
      <3>1. At = "end" /\ At' = "end" BY <1>6 DEF Encoded, At
      <3>2. Place' = Place BY <1>6, <3>1 DEF Encoded, Place
      <3>3. Place.at = "end" BY <3>1 DEF Place
      <3>4. Written!Complete
        BY <1>6, <2>2, <3>2, <3>3 DEF Encoded, Text, TextPlace, Fate, Written!Complete
      <3>5. QED BY <3>4 DEF Written!Next
    <2>3. QED BY <2>1, <2>2
  <1>7. CASE Deliver
    <2>1. /\ pc = "encoded" /\ pc' = "done" /\ frames = <<>>
          /\ UNCHANGED <<frames, errorMsg, out>>
      BY <1>7 DEF Deliver, IInv, Control
    <2>2. At' = At BY <2>1 DEF At
    <2>3. Place' = Place BY <2>1, <2>2 DEF Place
    <2>4. QED BY <2>1, <2>3 DEF Text, TextPlace, Fate, Written!textVars
  <1>8. CASE UNCHANGED vars
    <2>1. Place' = Place BY <1>8 DEF vars, Place, At, Top
    <2>2. QED BY <1>8, <2>1 DEF vars, Text, TextPlace, Fate, Written!textVars
  <1>9. QED
    BY <1>1, <1>2, <1>3, <1>4, <1>5, <1>6, <1>7, <1>8 DEF Next, Step, Done, Enter

\* Where iterators do not fail, encode writes as JsonText says, for every tree
\* of values, every depth limit and every failure of an allocation or callback:
\* what JSON_EncodeObject returns is a whole JSON document.
THEOREM WritesCorrect == ASSUME ~IterFails PROVE Spec => WritesJson
PROOF
  <1>1. Init => Written!Init
    BY DEF Init, Written!Init, Written!Beginning, Text, TextPlace, Fate, Place, At
  <1>2. Init => Naming BY DEF Init, Naming
  <1>3. QED
    BY <1>1, <1>2, InitInvariant, NextInvariant, NamingInvariant, NextText, PTL
    DEF Spec, WritesJson, Written!Spec

-----------------------------------------------------------------------------
(* The runs of a text. *)

\* In the round trip, dumps is Encoder: its theorems hold there, too.
LEMMA ImplementsEncoder == RoundTripSpec => Spec
PROOF
  <1>1. RoundTripInit => Init BY DEF RoundTripInit
  <1>2. [RoundTripNext]_allVars => [Next]_vars
    BY DEF RoundTripNext, Dumps, Handover, Loads, Ended, allVars, Next
  <1>3. QED BY <1>1, <1>2, PTL DEF RoundTripSpec, Spec

LEMMA FollowsType ==
  ASSUME NEW k \in Written!Configuration, NEW c, NEW l, Written!Follows(k, c, l)
  PROVE  l \in Written!Configuration /\ c \in Lexemes /\ k.at # "end"
PROOF
  <1>1. k.open \in Seq(Containers) BY DEF Written!Configuration, Written!Kinds, Containers
  <1>2. ASSUME NEW o \in Seq(Containers), NEW p \in Written!Places, l = [open |-> o, at |-> p]
        PROVE  l \in Written!Configuration
    BY <1>2 DEF Written!Configuration, Written!Kinds, Containers
  <1>3. ASSUME NEW o \in Seq(Containers), l = Written!Ended(o) PROVE l \in Written!Configuration
    <2>1. PICK p \in Written!Places : l = [open |-> o, at |-> p]
      BY <1>3 DEF Written!Ended, Written!Places
    <2>2. QED BY <1>2, <2>1
  <1>4. CASE Written!Scalar(k, c, l)
    BY <1>1, <1>3, <1>4 DEF Written!Scalar, Written!ValueDue, Lexemes
  <1>5. CASE Written!Opening(k, c, l)
    <2>1. PICK kind \in Containers :
            c = Written!Opener(kind) /\ l = [open |-> Append(k.open, kind), at |-> "first"]
      BY <1>5 DEF Written!Opening, Written!Kinds, Containers
    <2>2. Append(k.open, kind) \in Seq(Containers) BY <1>1, AppendProperties
    <2>3. "first" \in Written!Places BY DEF Written!Places
    <2>4. QED
      BY <1>2, <1>5, <2>1, <2>2, <2>3
      DEF Written!Opening, Written!ValueDue, Written!Opener, Lexemes
  <1>6. CASE Written!Closing(k, c, l)
    <2>1. k.open # <<>> BY <1>6 DEF Written!Closing, Written!Inside
    <2>2. Len(k.open) \in Nat \ {0} BY <1>1, <2>1, SMT
    <2>3. PICK n \in Nat : n = Len(k.open) - 1 BY <2>2, SMT
    <2>4. SubSeq(k.open, 1, n) \in Seq(Containers) BY <1>1, <2>3, SMT
    <2>5. QED BY <1>3, <1>6, <2>3, <2>4 DEF Written!Closing, Written!Closer, Lexemes
  <1>7. CASE Written!Name(k, c, l) \/ Written!Colon(k, c, l) \/ Written!Comma(k, c, l)
    <2>1. {"colon", "value", "name"} \subseteq Written!Places BY DEF Written!Places
    <2>2. QED
      BY <1>1, <1>2, <1>7, <2>1 DEF Written!Name, Written!Colon, Written!Comma, Lexemes
  <1>8. QED BY <1>4, <1>5, <1>6, <1>7 DEF Written!Follows, Written!Blank

\* run leads through s to k.
Leads(s, run, k) == s \in Seq(Lexemes) /\ Written!Run(s, Len(s), run) /\ run[Len(s) + 1] = k

LEMMA RunOn ==
  ASSUME NEW s, NEW run, NEW k, Leads(s, run, k), NEW c, NEW l, Written!Follows(k, c, l)
  PROVE  Leads(Append(s, c), Append(run, l), l)
PROOF
  <1> DEFINE n == Len(s) + 1
             t == Append(s, c)
             r == Append(run, l)
  <1>1. /\ run \in Seq(Written!Configuration) /\ Len(run) = n /\ run[1] = Written!Beginning
        /\ \A i \in 1..Len(s) : Written!Follows(run[i], s[i], run[i + 1])
        /\ s \in Seq(Lexemes) /\ run[n] = k
    BY DEF Leads, Written!Run
  <1>2. Len(s) \in Nat /\ n \in 1..n BY <1>1, SMT
  <1>3. k \in Written!Configuration BY <1>1, <1>2
  <1>4. l \in Written!Configuration /\ c \in Lexemes BY <1>3, FollowsType
  <1>5. /\ t \in Seq(Lexemes) /\ Len(t) = n
        /\ \A i \in 1..Len(s) : t[i] = s[i]
        /\ t[n] = c
    BY <1>1, <1>4, AppendProperties
  <1>6. /\ r \in Seq(Written!Configuration) /\ Len(r) = n + 1
        /\ \A i \in 1..n : r[i] = run[i]
        /\ r[n + 1] = l
    BY <1>1, <1>4, AppendProperties
  <1> HIDE DEF t, r
  <1>7. ASSUME NEW i \in 1..n PROVE Written!Follows(r[i], t[i], r[i + 1])
    <2>1. CASE i \in 1..Len(s)
      <3>1. i \in 1..n /\ i + 1 \in 1..n BY <1>2, <2>1, SMT
      <3>2. QED BY <1>1, <1>5, <1>6, <2>1, <3>1
    <2>2. CASE i = n
      <3>1. r[n] = k /\ t[n] = c /\ r[n + 1] = l BY <1>1, <1>2, <1>5, <1>6
      <3>2. QED BY <2>2, <3>1
    <2>3. QED BY <1>2, <2>1, <2>2, SMT
  <1>8. 1 \in 1..n BY <1>2, SMT
  <1>9. Written!Run(t, Len(t), r) BY <1>1, <1>5, <1>6, <1>7, <1>8 DEF Written!Run
  <1>10. QED BY <1>5, <1>6, <1>9 DEF t, r, Leads

\* What has been written leads to where the text is.
Traced == \E run : Leads(Text, run, TextPlace)

LEMMA BeginningTraced == Text = <<>> /\ TextPlace = Written!Beginning => Traced
PROOF
  <1> DEFINE run == <<Written!Beginning>>
  <1>1. Written!Beginning \in Written!Configuration
    <2>1. <<>> \in Seq(Written!Kinds) OBVIOUS
    <2>2. QED BY <2>1 DEF Written!Beginning, Written!Configuration, Written!Places
  <1>2. run \in Seq(Written!Configuration) /\ Len(run) = 1 /\ run[1] = Written!Beginning
    BY <1>1, SMT
  <1> HIDE DEF run
  <1>3. <<>> \in Seq(Lexemes) /\ Len(<<>>) + 1 = 1 /\ 1..Len(<<>>) = {} BY SMT
  <1>4. Leads(<<>>, run, Written!Beginning) BY <1>2, <1>3 DEF Leads, Written!Run
  <1>5. QED BY <1>4 DEF Traced

LEMMA TracedInvariant == Traced /\ [Written!Next]_Written!textVars => Traced'
PROOF
  <1> SUFFICES ASSUME Traced, [Written!Next]_Written!textVars PROVE Traced' OBVIOUS
  <1>1. PICK run : Leads(Text, run, TextPlace) BY DEF Traced
  <1>2. PICK s : s = Text OBVIOUS
  <1>3. PICK k : k = TextPlace OBVIOUS
  <1>4. PICK l : l = TextPlace' OBVIOUS
  <1>5. Leads(s, run, k) BY <1>1, <1>2, <1>3
  <1>6. s \in Seq(Lexemes) BY <1>5 DEF Leads
  <1>7. ASSUME NEW c, Written!Write(c) PROVE Traced'
    <2>1. Written!Follows(k, c, l) /\ Text' = Append(s, c)
      BY <1>2, <1>3, <1>4, <1>7 DEF Written!Write
    <2>2. Leads(Append(s, c), Append(run, l), l) BY <1>5, <2>1, RunOn
    <2>3. QED BY <1>4, <2>1, <2>2 DEF Traced
  <1>8. CASE Written!WriteName
    <2>1. PICK m : m = [open |-> k.open, at |-> "colon"] OBVIOUS
    <2>2. /\ Written!Follows(k, "str", m) /\ Written!Follows(m, "colon", l)
          /\ Text' = s \o <<"str", "colon">>
      BY <1>2, <1>3, <1>4, <1>8, <2>1 DEF Written!WriteName, Written!Follows
    <2>3. PICK t, r : t = Append(s, "str") /\ r = Append(run, m) OBVIOUS
    <2>4. Leads(t, r, m) BY <1>5, <2>2, <2>3, RunOn
    <2>5. Leads(Append(t, "colon"), Append(r, l), l) BY <2>2, <2>4, RunOn
    <2>6. Text' = Append(t, "colon")
      <3>1. "str" \in Lexemes /\ "colon" \in Lexemes BY DEF Lexemes
      <3>2. s \o <<"str", "colon">> = Append(Append(s, "str"), "colon") BY <1>6, <3>1, SMT
      <3>3. QED BY <2>2, <2>3, <3>2
    <2>7. QED BY <1>4, <2>5, <2>6 DEF Traced
  <1>9. CASE Written!GiveUp
    <2>1. (Text = <<>> /\ TextPlace = Written!Beginning)' BY <1>9 DEF Written!GiveUp
    <2>2. QED BY <2>1, BeginningTraced, PTL
  <1>10. CASE Written!Complete \/ UNCHANGED Written!textVars
    BY <1>1, <1>10 DEF Written!Complete, Written!textVars, Traced
  <1>11. QED BY <1>7, <1>8, <1>9, <1>10 DEF Written!Next

-----------------------------------------------------------------------------
(* What is written is derived by the grammar. *)

Syntax == INSTANCE JsonSyntaxProofs WITH Depth <- RecursionMax + 1, Spaced <- FALSE

LEMMA SameDerivations ==
  ASSUME NEW s, NEW depth
  PROVE  Syntax!Derives(s, depth) = Derives(s, depth)
PROOF
  BY Zenon
  DEF Syntax!Derives, Syntax!Spans, Syntax!Symbols, Syntax!Rule, Syntax!Enclosed,
      Syntax!Pair, Derives, Spans, Symbols, Rule, Enclosed, Pair

LEMMA SameRun ==
  ASSUME NEW s, NEW n, NEW run, Written!Run(s, n, run)
  PROVE  Syntax!Run(s, n, run)
PROOF
  <1>1. Syntax!Configuration = Written!Configuration /\ Syntax!Beginning = Written!Beginning
    BY DEF Syntax!Configuration, Written!Configuration, Syntax!Kinds, Written!Kinds,
           Syntax!Places, Written!Places, Syntax!Beginning, Written!Beginning
  <1>2. ASSUME NEW k, NEW c, NEW l, Written!Follows(k, c, l) PROVE Syntax!Follows(k, c, l)
    BY <1>2
    DEF Written!Follows, Written!Scalar, Written!Opening, Written!Closing, Written!Name,
        Written!Colon, Written!Comma, Written!Blank, Written!Ended, Written!Inside,
        Written!ValueDue, Written!Opener, Written!Closer, Written!Kinds,
        Syntax!Follows, Syntax!Scalar, Syntax!Opening, Syntax!Closing, Syntax!Name,
        Syntax!Colon, Syntax!Comma, Syntax!Blank, Syntax!Ended, Syntax!Inside,
        Syntax!ValueDue, Syntax!Opener, Syntax!Closer, Syntax!Kinds
  <1>3. QED BY <1>1, <1>2 DEF Written!Run, Syntax!Run

\* The lexemes of a whole text, taken as the start of a longer one.
LEMMA RunBefore ==
  ASSUME NEW s, NEW run, NEW k, Leads(s, run, k), NEW c
  PROVE  /\ Len(s) \in Nat /\ Len(Append(s, c)) = Len(s) + 1
         /\ Append(s, c)[Len(s) + 1] = c
         /\ Written!Run(Append(s, c), Len(s), run) /\ run[Len(s) + 1] = k
PROOF
  <1>1. s \in Seq(Lexemes) /\ Written!Run(s, Len(s), run) /\ run[Len(s) + 1] = k BY DEF Leads
  <1>2. s \in Seq(Lexemes \cup {c}) BY <1>1
  <1>3. /\ Len(Append(s, c)) = Len(s) + 1 /\ Append(s, c)[Len(s) + 1] = c
        /\ \A i \in 1..Len(s) : Append(s, c)[i] = s[i]
    BY <1>2, AppendProperties
  <1>4. Len(s) \in Nat BY <1>1
  <1>5. QED BY <1>1, <1>3, <1>4 DEF Written!Run

\* A text that is at its end is a document.
LEMMA EndedIsJson ==
  ASSUME NEW s, NEW run, NEW k, Leads(s, run, k), k.at = "end"
  PROVE  IsJson(Append(s, "eof"), RecursionMax + 1)
PROOF
  <1> DEFINE t == Append(s, "eof")
             n == Len(s)
  <1>1. /\ n \in Nat /\ Len(t) = n + 1 /\ t[n + 1] = "eof"
        /\ Written!Run(t, n, run) /\ run[n + 1] = k
    BY RunBefore
  <1> HIDE DEF t, n
  <1>2. Len(t) \in Nat /\ n \in 0..Len(t) /\ RecursionMax + 1 \in Nat
    BY <1>1, EncoderAssumption, SMT
  <1>3. Syntax!Run(t, n, run) /\ run[n + 1].at = "end" BY <1>1, SameRun
  <1>4. Syntax!Derives(t, RecursionMax + 1)[<<"value", 1, n + 1, RecursionMax + 1>>]
    BY <1>2, <1>3, Syntax!RunDerived
  <1>5. Derives(t, RecursionMax + 1)[<<"value", 1, Len(t), RecursionMax + 1>>]
    BY <1>1, <1>4, SameDerivations
  <1>6. t # <<>> /\ t[Len(t)] = "eof" BY <1>1, SMT DEF t
  <1>7. QED BY <1>5, <1>6 DEF IsJson, t

\* What dumps returns is derived by the grammar, for every tree of values, every
\* limit of the recursion and every failure of an allocation or callback: the
\* separators and brackets that encode appends at some twenty places, before
\* and after calls of its own, add up to a document, nested within the limit.
THEOREM EncodesCorrect == ASSUME ~IterFails PROVE Spec => []EncodesJson
PROOF
  <1>1. Init => Traced /\ Reason /\ Naming
    <2>1. Init => Text = <<>> /\ TextPlace = Written!Beginning
      BY DEF Init, Text, TextPlace, Place, At, Written!Beginning
    <2>2. QED BY <2>1, BeginningTraced DEF Init, Reason, NullHasReason, Naming
  <1>2. IInv /\ Naming /\ [Next]_vars => [Written!Next]_Written!textVars BY NextText
  <1>3. IInv /\ Reason /\ Traced => EncodesJson
    <2> SUFFICES ASSUME IInv, Reason, Traced, pc = "done", ret = "string"
                 PROVE  IsJson(Append(out, "eof"), RecursionMax + 1)
      BY DEF EncodesJson
    <2>1. ~errorMsg BY DEF Reason, NullHasReason
    <2>2. frames = <<>> BY DEF IInv, Control
    <2>3. Text = out /\ TextPlace.at = "end" BY <2>1, <2>2 DEF Text, TextPlace, Place, At
    <2>4. PICK run : Leads(out, run, TextPlace) BY <2>3 DEF Traced
    <2>5. QED BY <2>3, <2>4, EndedIsJson
  <1>4. QED
    BY <1>1, <1>2, <1>3, InitInvariant, NextInvariant, ReasonInvariant, NamingInvariant,
       TracedInvariant, PTL
    DEF Spec

-----------------------------------------------------------------------------
(* Termination: how many steps encode may still take. *)

\* At most the steps for one value that may contain d levels of containers.
Effort[d \in 0..RecursionMax + 1] == IF d = 0 THEN 6 ELSE MaxItems * Effort[d - 1] + 7

\* The steps for the items that container i of stack s is still to give.
Cost(s, i) == s[i].left * Effort[RecursionMax + 1 - i]

\* The same for the containers up to each one together, and for all of them.
Costs(s) ==
  LET upTo[i \in 0..Len(s)] == IF i = 0 THEN 0 ELSE upTo[i - 1] + Cost(s, i) IN upTo
Ahead(s) == Costs(s)[Len(s)]

\* How many levels of containers the value at hand may have.
Room == RecursionMax + 1 - Len(frames)

\* The steps to the next item, or for the value at hand.
Rank ==
  CASE pc = "encode"   -> Effort[Room]
    [] pc = "begin"    -> Effort[Room] - 1
    [] pc = "switch"   -> Effort[Room] - 2
    [] pc = "returned" -> 3
    [] pc = "iterate"  -> 2
    [] pc = "encoded"  -> 1
    [] OTHER           -> 0

Fuel == Ahead(frames) + 2 * Len(frames) + Rank

\* f is defined on 0..n, by its first value and by how each of the others follows
\* from the one before.
Recurs(f, n, a, next) == f = [i \in 0..n |-> IF i = 0 THEN a ELSE next[i][f[i - 1]]]

\* A function may be given like that.
LEMMA Recursion ==
  ASSUME NEW a \in Nat, NEW n \in Nat, NEW next \in [1..n -> [Nat -> Nat]]
  PROVE  \E f \in [0..n -> Nat] : Recurs(f, n, a, next)
PROOF
  <1> USE DEF Recurs
  <1> DEFINE Given(m) ==
        \E f \in [0..m -> Nat] : f = [i \in 0..m |-> IF i = 0 THEN a ELSE next[i][f[i - 1]]]
             Bad == {m \in 0..n : ~Given(m)}
  <1>1. SUFFICES ASSUME Bad # {} PROVE FALSE
    <2>1. n \in 0..n OBVIOUS
    <2>2. QED BY <1>1, <2>1
  <1>2. Bad \subseteq Nat OBVIOUS
  <1>3. PICK m \in Bad : \A k \in Bad : m <= k BY <1>1, <1>2, Syntax!LeastOf
  <1>4. m \in 0..n /\ ~Given(m) OBVIOUS
  <1>5. CASE m = 0
    <2>1. PICK f : f = [i \in 0..m |-> a] OBVIOUS
    <2>2. f \in [0..m -> Nat] BY <2>1
    <2>3. f = [i \in 0..m |-> IF i = 0 THEN a ELSE next[i][f[i - 1]]] BY <1>5, <2>1
    <2>4. QED BY <1>4, <2>2, <2>3
  <1>6. CASE m # 0
    <2>1. m \in 1..n /\ m - 1 \in 0..n /\ ~(m <= m - 1) BY <1>4, <1>6, SMT
    <2>2. Given(m - 1) BY <1>3, <2>1
    <2>3. PICK f \in [0..m - 1 -> Nat] :
            f = [i \in 0..m - 1 |-> IF i = 0 THEN a ELSE next[i][f[i - 1]]]
      BY <2>2
    <2>4. PICK g : g = [i \in 0..m |-> IF i = m THEN next[m][f[m - 1]] ELSE f[i]] OBVIOUS
    <2>5. m - 1 \in 0..m - 1 /\ f[m - 1] \in Nat BY <2>1, <2>3, SMT
    <2>6. next[m] \in [Nat -> Nat] BY <2>1
    <2>7. next[m][f[m - 1]] \in Nat BY <2>5, <2>6
    <2>8. \A i \in 0..m : i # m => i \in 0..m - 1 BY <2>1, SMT
    <2>9. g \in [0..m -> Nat] BY <2>3, <2>4, <2>7, <2>8
    <2>10. ASSUME NEW i \in 0..m
           PROVE  g[i] = IF i = 0 THEN a ELSE next[i][g[i - 1]]
      <3>1. CASE i = m
        <4>1. m - 1 \in 0..m /\ m - 1 # m BY <2>1, SMT
        <4>2. g[m - 1] = f[m - 1] BY <2>4, <4>1
        <4>3. QED BY <1>6, <2>4, <3>1, <4>2
      <3>2. CASE i # m
        <4>1. i \in 0..m - 1 /\ g[i] = f[i] BY <2>4, <2>8, <3>2
        <4>2. f[i] = IF i = 0 THEN a ELSE next[i][f[i - 1]] BY <2>3, <4>1
        <4>3. i # 0 => i - 1 \in 0..m /\ i - 1 # m BY <2>1, SMT
        <4>4. i # 0 => g[i - 1] = f[i - 1] BY <2>4, <4>3
        <4>5. QED BY <4>1, <4>2, <4>4
      <3>3. QED BY <3>1, <3>2
    <2>11. g = [i \in 0..m |-> IF i = 0 THEN a ELSE next[i][g[i - 1]]]
      BY <2>9, <2>10
    <2>12. QED BY <1>4, <2>9, <2>11
  <1>7. QED BY <1>5, <1>6

\* And it gives that function no choice, however far it is defined.
LEMMA RecursionOnce ==
  ASSUME NEW a, NEW n \in Nat, NEW m \in 0..n, NEW next, NEW f, NEW g,
         Recurs(f, n, a, next), Recurs(g, m, a, next)
  PROVE  \A i \in 0..m : f[i] = g[i]
PROOF
  <1> DEFINE Bad == {i \in 0..m : f[i] # g[i]}
  <1>1. SUFFICES ASSUME Bad # {} PROVE FALSE OBVIOUS
  <1>2. Bad \subseteq Nat OBVIOUS
  <1>3. PICK i \in Bad : \A k \in Bad : i <= k BY <1>1, <1>2, Syntax!LeastOf
  <1>4. i \in 0..m /\ i \in 0..n /\ f[i] # g[i] BY SMT
  <1>5. f[i] = (IF i = 0 THEN a ELSE next[i][f[i - 1]]) BY <1>4 DEF Recurs
  <1>6. g[i] = (IF i = 0 THEN a ELSE next[i][g[i - 1]]) BY <1>4 DEF Recurs
  <1>7. CASE i = 0 BY <1>4, <1>5, <1>6, <1>7
  <1>8. CASE i # 0
    <2>1. i - 1 \in 0..m /\ ~(i <= i - 1) BY <1>4, <1>8, SMT
    <2>2. f[i - 1] = g[i - 1] BY <1>3, <2>1
    <2>3. QED BY <1>4, <1>5, <1>6, <1>8, <2>2
  <1>9. QED BY <1>7, <1>8

LEMMA EffortRuled ==
  /\ Effort[0] = 6
  /\ \A d \in 0..RecursionMax + 1 : Effort[d] \in Nat /\ Effort[d] >= 6
  /\ \A d \in 1..RecursionMax + 1 : Effort[d] = MaxItems * Effort[d - 1] + 7
PROOF
  <1>0. RecursionMax \in Nat /\ MaxItems \in Nat BY EncoderAssumption
  <1>1. PICK n \in Nat : n = RecursionMax + 1 BY <1>0, SMT
  <1>2. PICK next : next = [i \in 1..n |-> [x \in Nat |-> MaxItems * x + 7]] OBVIOUS
  <1>3. ASSUME NEW x \in Nat PROVE MaxItems * x + 7 \in Nat /\ MaxItems * x + 7 >= 6
    <2>1. MaxItems * x \in Nat BY <1>0, SMT
    <2>2. QED BY <2>1, SMT
  <1>4. next \in [1..n -> [Nat -> Nat]] BY <1>2, <1>3
  <1>5. 6 \in Nat BY SMT
  <1>6. PICK f \in [0..n -> Nat] : Recurs(f, n, 6, next)
    BY <1>4, <1>5, Recursion
  <1>7. ASSUME NEW i \in 1..n PROVE next[i][f[i - 1]] = MaxItems * f[i - 1] + 7
    <2>1. i - 1 \in 0..n BY SMT
    <2>2. f[i - 1] \in Nat BY <1>6, <2>1
    <2>3. QED BY <1>2, <2>2
  <1>8. \A i \in 0..n : i = 0 \/ i \in 1..n BY SMT
  <1>9. f = [d \in 0..n |-> IF d = 0 THEN 6 ELSE MaxItems * f[d - 1] + 7]
    BY <1>6, <1>7, <1>8 DEF Recurs
  <1>10. PICK w : w = Effort OBVIOUS
  <1>11. w = CHOOSE g : g = [d \in 0..n |-> IF d = 0 THEN 6 ELSE MaxItems * g[d - 1] + 7]
    BY <1>1, <1>10 DEF Effort
  <1>12. w = [d \in 0..n |-> IF d = 0 THEN 6 ELSE MaxItems * w[d - 1] + 7]
    BY <1>9, <1>11
  <1>13. \A d \in 0..n : w[d] \in Nat
    <2>1. w[0] = 6 BY <1>12, SMT
    <2> DEFINE Bad == {d \in 0..n : w[d] \notin Nat}
    <2>2. SUFFICES ASSUME Bad # {} PROVE FALSE OBVIOUS
    <2>3. Bad \subseteq Nat OBVIOUS
    <2>4. PICK d \in Bad : \A k \in Bad : d <= k BY <2>2, <2>3, Syntax!LeastOf
    <2>5. d \in 0..n /\ w[d] \notin Nat OBVIOUS
    <2>6. d \in 1..n /\ d - 1 \in 0..n /\ ~(d <= d - 1) BY <1>5, <2>1, <2>5, SMT
    <2>7. w[d - 1] \in Nat BY <2>4, <2>6
    <2>8. w[d] = MaxItems * w[d - 1] + 7 BY <1>12, <2>5, <2>6
    <2>9. QED BY <1>3, <2>5, <2>7, <2>8
  <1>14. 0 \in 0..n /\ w[0] = 6 BY <1>12, SMT
  <1>15. ASSUME NEW d \in 1..n PROVE w[d] = MaxItems * w[d - 1] + 7 /\ w[d] >= 6
    <2>1. d \in 0..n /\ d # 0 /\ d - 1 \in 0..n BY SMT
    <2>2. w[d] = MaxItems * w[d - 1] + 7 BY <1>12, <2>1
    <2>3. QED BY <1>3, <1>13, <2>1, <2>2
  <1>16. \A d \in 0..n : w[d] >= 6 BY <1>8, <1>14, <1>15, SMT
  <1> HIDE DEF Effort
  <1>17. QED BY <1>1, <1>10, <1>13, <1>14, <1>15, <1>16

LEMMA CostType ==
  ASSUME NEW s \in Seq(Frames), Len(s) <= RecursionMax + 1, NEW i \in 1..Len(s)
  PROVE  Cost(s, i) \in Nat
PROOF
  <1>1. s[i] \in Frames /\ Len(s) \in Nat OBVIOUS
  <1>2. s[i].left \in Nat BY <1>1 DEF Frames
  <1>3. RecursionMax + 1 - i \in 0..RecursionMax + 1 BY <1>1, EncoderAssumption, SMT
  <1>4. Effort[RecursionMax + 1 - i] \in Nat BY <1>3, EffortRuled
  <1> HIDE DEF Effort
  <1>5. QED BY <1>2, <1>4, SMT DEF Cost

LEMMA CostsRuled ==
  ASSUME NEW s \in Seq(Frames), Len(s) <= RecursionMax + 1
  PROVE  /\ Costs(s) = [i \in 0..Len(s) |-> IF i = 0 THEN 0 ELSE Costs(s)[i - 1] + Cost(s, i)]
         /\ \A i \in 0..Len(s) : Costs(s)[i] \in Nat
PROOF
  <1>1. PICK n \in Nat : n = Len(s) OBVIOUS
  <1>2. PICK next : next = [i \in 1..n |-> [x \in Nat |-> x + Cost(s, i)]] OBVIOUS
  <1>3. ASSUME NEW i \in 1..n PROVE next[i] \in [Nat -> Nat]
    <2>1. Cost(s, i) \in Nat BY <1>1, CostType
    <2>2. \A x \in Nat : x + Cost(s, i) \in Nat BY <2>1, SMT
    <2>3. QED BY <1>2, <2>2
  <1>4. next \in [1..n -> [Nat -> Nat]] BY <1>2, <1>3
  <1>5. 0 \in Nat BY SMT
  <1>6. PICK f \in [0..n -> Nat] : Recurs(f, n, 0, next)
    BY <1>4, <1>5, Recursion
  <1>7. ASSUME NEW i \in 1..n PROVE next[i][f[i - 1]] = f[i - 1] + Cost(s, i)
    <2>1. i - 1 \in 0..n BY SMT
    <2>2. f[i - 1] \in Nat BY <1>6, <2>1
    <2>3. QED BY <1>2, <2>2
  <1>8. \A i \in 0..n : i = 0 \/ i \in 1..n BY SMT
  <1>9. f = [i \in 0..n |-> IF i = 0 THEN 0 ELSE f[i - 1] + Cost(s, i)]
    BY <1>6, <1>7, <1>8 DEF Recurs
  <1>10. PICK c : c = Costs(s) OBVIOUS
  <1>11. c = CHOOSE g : g = [i \in 0..n |-> IF i = 0 THEN 0 ELSE g[i - 1] + Cost(s, i)]
    BY <1>1, <1>10 DEF Costs
  <1>12. c = [i \in 0..n |-> IF i = 0 THEN 0 ELSE c[i - 1] + Cost(s, i)]
    BY <1>9, <1>11
  <1>13. \A i \in 0..n : c[i] \in Nat
    <2>1. c[0] = 0 BY <1>12, SMT
    <2> DEFINE Bad == {i \in 0..n : c[i] \notin Nat}
    <2>2. SUFFICES ASSUME Bad # {} PROVE FALSE OBVIOUS
    <2>3. Bad \subseteq Nat OBVIOUS
    <2>4. PICK i \in Bad : \A k \in Bad : i <= k BY <2>2, <2>3, Syntax!LeastOf
    <2>5. i \in 0..n /\ c[i] \notin Nat OBVIOUS
    <2>6. i \in 1..n /\ i - 1 \in 0..n /\ ~(i <= i - 1) BY <1>5, <2>1, <2>5, SMT
    <2>7. c[i - 1] \in Nat BY <2>4, <2>6
    <2>8. c[i] = c[i - 1] + Cost(s, i) BY <1>12, <2>5, <2>6
    <2>9. Cost(s, i) \in Nat BY <1>1, <2>6, CostType
    <2>10. QED BY <2>5, <2>7, <2>8, <2>9
  <1> HIDE DEF Costs
  <1>14. QED BY <1>1, <1>10, <1>12, <1>13

LEMMA AheadEmpty == Ahead(<<>>) = 0
PROOF
  <1>1. <<>> \in Seq(Frames) /\ Len(<<>>) = 0 /\ 0 <= RecursionMax + 1
    BY EncoderAssumption, SMT
  <1>2. Costs(<<>>) = [i \in 0..0 |-> IF i = 0 THEN 0 ELSE Costs(<<>>)[i - 1] + Cost(<<>>, i)]
    BY <1>1, CostsRuled
  <1>3. Costs(<<>>)[0] = 0 BY <1>2
  <1>4. QED BY <1>1, <1>3 DEF Ahead

\* The container on top of s costs what its items cost, and the others what they
\* cost without it.
LEMMA AheadPush ==
  ASSUME NEW s \in Seq(Frames), Len(s) <= RecursionMax,
         NEW t \in Containers, NEW k \in Nat, NEW c \in Nat
  PROVE  /\ Ahead(s) \in Nat
         /\ Ahead(s \o <<Frame(t, k, c)>>) = Ahead(s) + k * Effort[RecursionMax - Len(s)]
PROOF
  <1>1. PICK n \in Nat : n = Len(s) OBVIOUS
  <1>2. PICK u : u = s \o <<Frame(t, k, c)>> OBVIOUS
  <1>3. u \in Seq(Frames) /\ Len(u) = n + 1 BY <1>1, <1>2, PushedFrame
  <1>4. RecursionMax \in Nat /\ n <= RecursionMax /\ n <= RecursionMax + 1
        /\ n + 1 <= RecursionMax + 1
    BY <1>1, EncoderAssumption, SMT
  <1>5. /\ u[n + 1].left = k
        /\ \A i \in 1..n : u[i] = s[i]
    <2> DEFINE f == Frame(t, k, c)
    <2>1. f \in Frames /\ f.left = k BY DEF Frame, Frames
    <2> HIDE DEF f
    <2>2. u = s \o <<f>> BY <1>2 DEF f
    <2>3. QED BY <1>1, <2>1, <2>2, SMT
  <1>6. Cost(u, n + 1) = k * Effort[RecursionMax - n]
    <2>1. RecursionMax + 1 - (n + 1) = RecursionMax - n BY <1>4, SMT
    <2>2. QED BY <1>5, <2>1 DEF Cost
  <1>7. \A i \in 1..n : Cost(u, i) = Cost(s, i) BY <1>5 DEF Cost
  <1>8. PICK f : f = Costs(u) OBVIOUS
  <1>9. PICK g : g = Costs(s) OBVIOUS
  <1>10. /\ f = [i \in 0..n + 1 |-> IF i = 0 THEN 0 ELSE f[i - 1] + Cost(u, i)]
         /\ \A i \in 0..n + 1 : f[i] \in Nat
    BY <1>3, <1>4, <1>8, CostsRuled
  <1>11. /\ g = [i \in 0..n |-> IF i = 0 THEN 0 ELSE g[i - 1] + Cost(s, i)]
         /\ \A i \in 0..n : g[i] \in Nat
    BY <1>1, <1>4, <1>9, CostsRuled
  <1>12. f[n] = g[n]
    <2>1. PICK next : next = [i \in 1..n + 1 |-> [x \in Nat |-> x + Cost(u, i)]] OBVIOUS
    <2>2. Recurs(f, n + 1, 0, next)
      <3>1. ASSUME NEW i \in 0..n + 1, i # 0 PROVE f[i - 1] + Cost(u, i) = next[i][f[i - 1]]
        <4>1. i \in 1..n + 1 /\ i - 1 \in 0..n + 1 BY <3>1, SMT
        <4>2. f[i - 1] \in Nat BY <1>10, <4>1
        <4>3. QED BY <2>1, <4>1, <4>2
      <3>2. QED BY <1>10, <3>1 DEF Recurs
    <2>3. Recurs(g, n, 0, next)
      <3>1. ASSUME NEW i \in 0..n, i # 0 PROVE g[i - 1] + Cost(s, i) = next[i][g[i - 1]]
        <4>1. i \in 1..n /\ i \in 1..n + 1 /\ i - 1 \in 0..n BY <3>1, SMT
        <4>2. g[i - 1] \in Nat /\ Cost(u, i) = Cost(s, i) BY <1>7, <1>11, <4>1
        <4>3. QED BY <2>1, <4>1, <4>2
      <3>2. QED BY <1>11, <3>1 DEF Recurs
    <2>4. n + 1 \in Nat /\ n \in 0..n + 1 /\ n \in 0..n BY SMT
    <2>5. \A i \in 0..n : f[i] = g[i] BY <2>2, <2>3, <2>4, RecursionOnce
    <2>6. QED BY <2>4, <2>5
  <1>13. f[n + 1] = f[n] + Cost(u, n + 1)
    <2>1. n + 1 \in 0..n + 1 /\ n + 1 # 0 /\ (n + 1) - 1 = n BY SMT
    <2>2. QED BY <1>10, <2>1
  <1>14. Ahead(s) = g[n] /\ Ahead(u) = f[n + 1] BY <1>1, <1>3, <1>8, <1>9 DEF Ahead
  <1>15. n \in 0..n BY SMT
  <1> HIDE DEF Effort, Ahead
  <1>16. QED BY <1>1, <1>2, <1>6, <1>11, <1>12, <1>13, <1>14, <1>15

LEMMA AheadType ==
  ASSUME NEW s \in Seq(Frames), Len(s) <= RecursionMax + 1
  PROVE  Ahead(s) \in Nat
PROOF
  <1>1. \A i \in 0..Len(s) : Costs(s)[i] \in Nat BY CostsRuled
  <1>2. Len(s) \in 0..Len(s) BY SMT
  <1> HIDE DEF Costs
  <1>3. QED BY <1>1, <1>2 DEF Ahead

LEMMA RankType ==
  /\ IInv => /\ Room \in 0..RecursionMax + 1 /\ Effort[Room] \in Nat /\ Effort[Room] >= 6
             /\ Ahead(frames) \in Nat /\ Len(frames) \in Nat /\ Rank \in Nat
  /\ IInv' => /\ Room' \in 0..RecursionMax + 1 /\ Effort[Room'] \in Nat
              /\ Ahead(frames') \in Nat /\ Len(frames') \in Nat /\ Rank' \in Nat
PROOF
  <1>1. ASSUME NEW s \in Seq(Frames), Len(s) <= RecursionMax + 1
        PROVE  /\ RecursionMax + 1 - Len(s) \in 0..RecursionMax + 1
               /\ Effort[RecursionMax + 1 - Len(s)] \in Nat
               /\ Effort[RecursionMax + 1 - Len(s)] >= 6
               /\ Ahead(s) \in Nat /\ Len(s) \in Nat
    <2>1. Len(s) \in Nat /\ RecursionMax \in Nat BY EncoderAssumption
    <2>2. RecursionMax + 1 - Len(s) \in 0..RecursionMax + 1 BY <1>1, <2>1, SMT
    <2>3. Ahead(s) \in Nat BY <1>1, AheadType
    <2> HIDE DEF Effort
    <2>4. QED BY <2>1, <2>2, <2>3, EffortRuled
  <1>2. IInv => frames \in Seq(Frames) /\ Len(frames) <= RecursionMax + 1
    BY DEF IInv, TypeOK, Depths, LevelMatches
  <1>3. IInv' => frames' \in Seq(Frames) /\ Len(frames') <= RecursionMax + 1
    BY DEF IInv, TypeOK, Depths, LevelMatches
  <1> HIDE DEF Effort
  <1>4. IInv => Room \in 0..RecursionMax + 1 /\ Effort[Room] \in Nat /\ Effort[Room] >= 6
    BY <1>1, <1>2 DEF Room
  <1>5. IInv' => Room' \in 0..RecursionMax + 1 /\ Effort[Room'] \in Nat /\ Effort[Room'] >= 6
    BY <1>1, <1>3 DEF Room
  <1>6. IInv => Rank \in Nat BY <1>4, SMT DEF Rank
  <1>7. IInv' => Rank' \in Nat BY <1>5, SMT DEF Rank
  <1>8. QED BY <1>1, <1>2, <1>3, <1>4, <1>5, <1>6, <1>7

LEMMA FuelType == IInv => Fuel \in Nat
PROOF
  <1>1. IInv => Ahead(frames) \in Nat /\ Len(frames) \in Nat /\ Rank \in Nat BY RankType
  <1> HIDE DEF Effort, Ahead
  <1>2. QED BY <1>1, SMT DEF Fuel

\* A step that leaves the containers alone.
LEMMA RankSpends ==
  ASSUME IInv, IInv', UNCHANGED frames, Rank' < Rank
  PROVE  Fuel' < Fuel
PROOF
  <1>1. Ahead(frames) \in Nat /\ Len(frames) \in Nat /\ Rank \in Nat /\ Rank' \in Nat
    BY RankType
  <1> HIDE DEF Effort, Ahead, Rank
  <1>2. Fuel' = Ahead(frames) + 2 * Len(frames) + Rank' BY DEF Fuel
  <1>3. QED BY <1>1, <1>2, SMT DEF Fuel

\* A step at a container.
LEMMA TopCosts ==
  ASSUME IInv, frames # <<>>
  PROVE  /\ Popped \in Seq(Frames) /\ Len(Popped) = Len(frames) - 1 /\ Len(frames) \in Nat
         /\ Top.type \in Containers /\ Top.left \in Nat /\ Top.count \in Nat
         /\ Ahead(Popped) \in Nat /\ Effort[Room] \in Nat
         /\ Ahead(frames) = Ahead(Popped) + Top.left * Effort[Room]
         /\ \A k \in Nat, c \in Nat :
              Ahead(Popped \o <<Frame(Top.type, k, c)>>) = Ahead(Popped) + k * Effort[Room]
PROOF
  <1>1. frames \in Seq(Frames) /\ Len(frames) <= RecursionMax + 1 /\ RecursionMax \in Nat
    BY EncoderAssumption DEF IInv, TypeOK, Depths, LevelMatches
  <1>2. /\ Top \in Frames
        /\ Top.type \in Containers /\ Top.left \in Nat /\ Top.count \in Nat
        /\ Popped \in Seq(Frames) /\ Len(Popped) = Len(frames) - 1
        /\ Len(frames) \in Nat \ {0}
    BY <1>1, TopFrame
  <1>3. Len(Popped) <= RecursionMax /\ RecursionMax - Len(Popped) = Room
    BY <1>1, <1>2, SMT DEF Room
  <1>4. Effort[Room] \in Nat BY RankType
  <1> HIDE DEF Effort
  <1>5. /\ Ahead(Popped) \in Nat
        /\ \A k \in Nat, c \in Nat :
             Ahead(Popped \o <<Frame(Top.type, k, c)>>) = Ahead(Popped) + k * Effort[Room]
    BY <1>2, <1>3, AheadPush
  <1>6. frames = Popped \o <<Frame(Top.type, Top.left, Top.count)>>
    <2>1. Top = Frame(Top.type, Top.left, Top.count) BY <1>2 DEF Frames, Frame
    <2>2. frames = Popped \o <<Top>> BY <1>1, <1>2, SMT DEF Popped, Top
    <2>3. QED BY <2>1, <2>2
  <1>7. Ahead(frames) = Ahead(Popped) + Top.left * Effort[Room] BY <1>2, <1>5, <1>6
  <1>8. QED BY <1>2, <1>4, <1>5, <1>7

LEMMA EnterSpends ==
  ASSUME IInv, IInv', Enter \/ BeginNull \/ BeginTypeContext
  PROVE  Fuel' < Fuel
PROOF
  <1>1. UNCHANGED frames /\ \/ pc = "encode" /\ pc' \in {"returned", "begin", "switch"}
                            \/ pc = "begin" /\ pc' = "switch"
    BY Zenon DEF Enter, TooDeep, AlreadyFailed, Name, BeginNull, BeginTypeContext, ReadyToBegin
  <1>2. Room' = Room BY <1>1 DEF Room
  <1>3. Effort[Room] \in Nat /\ Effort[Room] >= 6 BY RankType
  <1> HIDE DEF Effort
  <1>4. Rank = Effort[Room] \/ (pc = "begin" /\ Rank = Effort[Room] - 1) BY <1>1 DEF Rank
  <1>5. \/ Rank' = 3
        \/ pc' = "begin" /\ Rank' = Effort[Room] - 1
        \/ Rank' = Effort[Room] - 2
    BY <1>1, <1>2 DEF Rank
  <1>6. Rank' < Rank BY <1>1, <1>3, <1>4, <1>5, SMT
  <1>7. QED BY <1>1, <1>6, RankSpends

\* A value that is no container, or that is refused.
LEMMA ScalarSpends ==
  ASSUME IInv, IInv',
         \/ Invalid \/ DoubleRefused \/ StringUnavailable
         \/ \E n \in ScalarLengths : Scalar(n)
         \/ \E n \in Lengths : StringNoMemory(n) \/ String(n) \/ Raw(n)
  PROVE  Fuel' < Fuel
PROOF
  <1>1. pc = "switch" /\ pc' = "returned" /\ UNCHANGED frames
    BY Zenon DEF Invalid, DoubleRefused, StringUnavailable, Scalar, StringNoMemory, String, Raw
  <1>2. Effort[Room] \in Nat /\ Effort[Room] >= 6 BY RankType
  <1> HIDE DEF Effort
  <1>3. Rank = Effort[Room] - 2 /\ Rank' = 3 BY <1>1 DEF Rank
  <1>4. Rank' < Rank BY <1>2, <1>3, SMT
  <1>5. QED BY <1>1, <1>4, RankSpends

LEMMA OpenSpends ==
  ASSUME IInv, IInv', NEW n \in 0..MaxItems, Open(n)
  PROVE  Fuel' < Fuel
PROOF
  <1>1. /\ pc = "switch" /\ pc' = "iterate" /\ type \in Containers
        /\ frames' = frames \o <<Frame(type, n, 0)>>
    BY DEF Open
  <1>2. frames \in Seq(Frames) /\ level = Len(frames) /\ level <= RecursionMax
    BY <1>1 DEF IInv, TypeOK, Depths, LevelMatches
  <1>3. Len(frames) \in Nat /\ RecursionMax \in Nat /\ MaxItems \in Nat /\ n \in Nat
    BY <1>2, EncoderAssumption
  <1>4. /\ RecursionMax - Len(frames) \in 0..RecursionMax + 1
        /\ Room \in 1..RecursionMax + 1 /\ Room - 1 = RecursionMax - Len(frames)
    BY <1>2, <1>3, SMT DEF Room
  <1>5. PICK w \in Nat : w = Effort[Room - 1] BY <1>4, EffortRuled
  <1>6. Effort[Room] = MaxItems * w + 7 BY <1>4, <1>5, EffortRuled
  <1> HIDE DEF Effort
  <1>7. n * w \in Nat /\ MaxItems * w \in Nat /\ n * w <= MaxItems * w
    <2>1. MaxItems - n \in Nat BY <1>3, SMT
    <2>2. (MaxItems - n) * w \in Nat BY <2>1, SMT
    <2>3. (MaxItems - n) * w = MaxItems * w - n * w BY <1>3, SMT
    <2>4. n * w \in Nat /\ MaxItems * w \in Nat BY <1>3, SMT
    <2>5. QED BY <2>2, <2>3, <2>4, SMT
  <1>8. /\ Ahead(frames) \in Nat
        /\ Ahead(frames') = Ahead(frames) + n * w
    BY <1>1, <1>2, <1>3, <1>4, <1>5, AheadPush
  <1>9. Len(frames') = Len(frames) + 1 BY <1>1, <1>2, <1>3, PushedFrame
  <1>10. Rank = Effort[Room] - 2 /\ Rank' = 2 BY <1>1 DEF Rank
  <1>11. PICK a \in Nat, x \in Nat, y \in Nat :
           a = Ahead(frames) /\ x = n * w /\ y = MaxItems * w
    BY <1>7, <1>8
  <1> HIDE DEF Ahead, Rank
  <1>12. Fuel' = a + x + 2 * (Len(frames) + 1) + 2 BY <1>8, <1>9, <1>10, <1>11 DEF Fuel
  <1>13. Rank = y + 7 - 2 BY <1>6, <1>10, <1>11
  <1>14. Fuel = a + 2 * Len(frames) + (y + 7 - 2) BY <1>11, <1>13 DEF Fuel
  <1>15. x <= y BY <1>7, <1>11
  <1>16. QED BY <1>3, <1>12, <1>14, <1>15, SMT

\* A step out of a container.
LEMMA LeaveSpends ==
  ASSUME IInv, IInv', pc \in {"iterate", "returned"}, frames # <<>>, Leave
  PROVE  Fuel' < Fuel
PROOF
  <1>1. frames' = Popped /\ pc' = "returned" BY DEF Leave
  <1>2. PICK t \in Nat, w \in Nat : t = Top.left /\ w = Effort[Room] BY TopCosts
  <1>3. /\ Len(Popped) = Len(frames) - 1 /\ Len(frames) \in Nat /\ Ahead(Popped) \in Nat
        /\ Ahead(frames) = Ahead(Popped) + t * w
    BY <1>2, TopCosts
  <1>4. t * w \in Nat BY SMT
  <1>5. Rank' = 3 /\ Rank \in {2, 3} BY <1>1 DEF Rank
  <1> HIDE DEF Effort, Ahead, Rank
  <1>6. Fuel' = Ahead(Popped) + 2 * (Len(frames) - 1) + 3 BY <1>1, <1>3, <1>5 DEF Fuel
  <1>7. Fuel = Ahead(Popped) + t * w + 2 * Len(frames) + Rank BY <1>3 DEF Fuel
  <1>8. QED BY <1>3, <1>4, <1>5, <1>6, <1>7, SMT

LEMMA ItemSpends ==
  ASSUME IInv, IInv', Item
  PROVE  Fuel' < Fuel
PROOF
  <1>1. /\ pc = "iterate" /\ pc' = "encode" /\ Top.left > 0
        /\ frames' = Popped \o <<Frame(Top.type, Top.left - 1, Top.count)>>
    BY DEF Item
  <1>2. frames # <<>> BY <1>1 DEF IInv, Control
  <1>3. PICK t \in Nat, w \in Nat : t = Top.left /\ w = Effort[Room] BY <1>2, TopCosts
  <1>4. t - 1 \in Nat BY <1>1, <1>3, SMT
  <1>5. /\ Popped \in Seq(Frames) /\ Top.type \in Containers /\ Top.count \in Nat
        /\ Len(Popped) = Len(frames) - 1 /\ Len(frames) \in Nat /\ Ahead(Popped) \in Nat
        /\ Ahead(frames) = Ahead(Popped) + t * w
        /\ Ahead(frames') = Ahead(Popped) + (t - 1) * w
    BY <1>1, <1>2, <1>3, <1>4, TopCosts
  <1>6. Len(frames') = Len(Popped) + 1 BY <1>1, <1>3, <1>4, <1>5, PushedFrame
  <1>7. Len(frames') = Len(frames) BY <1>5, <1>6, SMT
  <1>8. Room' = Room BY <1>7 DEF Room
  <1> HIDE DEF Effort
  <1>9. Rank = 2 /\ Rank' = w BY <1>1, <1>3, <1>8 DEF Rank
  <1> HIDE DEF Ahead, Rank
  <1>10. Fuel' = Ahead(Popped) + (t - 1) * w + 2 * Len(frames) + w
    BY <1>5, <1>7, <1>9 DEF Fuel
  <1>11. Fuel = Ahead(Popped) + t * w + 2 * Len(frames) + 2 BY <1>5, <1>9 DEF Fuel
  <1>12. (t - 1) * w + w = t * w /\ (t - 1) * w \in Nat /\ t * w \in Nat BY <1>4, SMT
  <1>13. QED BY <1>5, <1>10, <1>11, <1>12, SMT

LEMMA ItemDoneSpends ==
  ASSUME IInv, IInv', ItemDone
  PROVE  Fuel' < Fuel
PROOF
  <1>1. /\ pc = "returned" /\ pc' = "iterate" /\ frames # <<>>
        /\ frames' = Popped \o <<Frame(Top.type, Top.left, Top.count + 1)>>
    BY DEF ItemDone
  <1>2. /\ Popped \in Seq(Frames) /\ Top.type \in Containers /\ Top.left \in Nat
        /\ Top.count \in Nat /\ Len(Popped) = Len(frames) - 1 /\ Len(frames) \in Nat
        /\ Ahead(frames) = Ahead(Popped) + Top.left * Effort[Room]
    BY <1>1, TopCosts
  <1>3. Top.count + 1 \in Nat BY <1>2, SMT
  <1>4. Ahead(frames') = Ahead(frames) BY <1>1, <1>2, <1>3, TopCosts
  <1>5. Len(frames') = Len(Popped) + 1 BY <1>1, <1>2, <1>3, PushedFrame
  <1>6. Len(frames') = Len(frames) BY <1>2, <1>5, SMT
  <1>7. Rank = 3 /\ Rank' = 2 BY <1>1 DEF Rank
  <1>8. Ahead(frames) \in Nat BY RankType
  <1> HIDE DEF Effort, Ahead, Rank
  <1>9. Fuel' = Ahead(frames) + 2 * Len(frames) + 2 BY <1>4, <1>6, <1>7 DEF Fuel
  <1>10. Fuel = Ahead(frames) + 2 * Len(frames) + 3 BY <1>7 DEF Fuel
  <1>11. QED BY <1>2, <1>8, <1>9, <1>10, SMT

LEMMA EndSpends ==
  ASSUME IInv, IInv', Encoded \/ Deliver
  PROVE  Fuel' < Fuel
PROOF
  <1>1. /\ UNCHANGED frames
        /\ \/ pc = "returned" /\ pc' = "encoded"
           \/ pc = "encoded" /\ pc' = "done"
    BY Zenon DEF Encoded, Deliver
  <1>2. pc = "returned" /\ pc' = "encoded" => Rank = 3 /\ Rank' = 1 BY DEF Rank
  <1>3. pc = "encoded" /\ pc' = "done" => Rank = 1 /\ Rank' = 0 BY DEF Rank
  <1>4. Rank' < Rank BY <1>1, <1>2, <1>3, SMT
  <1>5. QED BY <1>1, <1>4, RankSpends

LEMMA StepSpends ==
  ASSUME IInv, IInv', Step
  PROVE  Fuel' < Fuel
PROOF
  <1>1. CASE IterNextFailed \/ IterationEnds \/ Unwind
    <2>1. Leave /\ pc \in {"iterate", "returned"} /\ (pc = "returned" => frames # <<>>)
      BY <1>1, Zenon DEF IterNextFailed, IterationEnds, Unwind
    <2>2. frames # <<>> BY <2>1 DEF IInv, Control
    <2>3. QED BY <2>1, <2>2, LeaveSpends
  <1>2. QED
    BY <1>1, EnterSpends, ScalarSpends, OpenSpends, ItemSpends, ItemDoneSpends, EndSpends,
       Zenon
    DEF Step, Switch, Iterate

\* encode returns from every tree of values: what it may still have to do is a
\* number that every step makes smaller, fixed at the start by how deep and how wide
\* containers may be.
THEOREM StepsCorrect == Spec => [](Fuel \in Nat) /\ [][Fuel' < Fuel]_vars
PROOF
  <1>1. IInv /\ IInv' /\ [Next]_vars => [Fuel' < Fuel]_vars
    BY StepSpends DEF Next, Done
  <1>2. QED BY <1>1, InitInvariant, NextInvariant, FuelType, PTL DEF Spec

-----------------------------------------------------------------------------
(* The containers the decoder is in. *)

\* The container that an activation of decode_array or decode_object fills.
Kind(f) == IF f.fn = "array" THEN "ARRAY" ELSE "OBJECT"

\* decode_object is at a name.
NameDue(f) == f.fn = "object" /\ f.name = D!NULL

Fit(f, kind) ==
  /\ f \in D!Frame /\ kind = Kind(f) /\ f.obj.ref # 0
  /\ f.name # D!NULL => f.fn = "object" /\ f.name.kind = "str"

\* One activation for each container that is open, and inner ones only for the
\* value of a member.
Fits(s, open) ==
  /\ s \in Seq(D!Frame) /\ open \in Seq(Containers) /\ Len(open) = Len(s)
  /\ \A i \in 1..Len(s) : Fit(s[i], open[i])
  /\ \A i \in 1..Len(s) - 1 : ~NameDue(s[i])

LEMMA FitsTop ==
  ASSUME NEW s, NEW open, Fits(s, open), s # <<>>
  PROVE  /\ Len(s) \in Nat \ {0} /\ Len(s) \in 1..Len(s)
         /\ open # <<>>
         /\ Fit(s[Len(s)], open[Len(open)]) /\ open[Len(open)] = Kind(s[Len(s)])
PROOF
  <1>1. s \in Seq(D!Frame) /\ open \in Seq(Containers) /\ Len(open) = Len(s) BY DEF Fits
  <1>2. Len(s) \in Nat \ {0} BY <1>1, SMT
  <1>3. Len(s) \in 1..Len(s) /\ open # <<>> BY <1>1, <1>2, SMT
  <1>4. Fit(s[Len(s)], open[Len(open)]) BY <1>1, <1>3 DEF Fits
  <1>5. open[Len(open)] = Kind(s[Len(s)]) BY <1>4 DEF Fit
  <1>6. QED BY <1>2, <1>3, <1>4, <1>5

LEMMA FitsPush ==
  ASSUME NEW s, NEW open, Fits(s, open), s = <<>> \/ ~NameDue(s[Len(s)]),
         NEW f, NEW kind \in Containers, Fit(f, kind)
  PROVE  /\ Fits(Append(s, f), Append(open, kind))
         /\ Append(s, f) # <<>> /\ Len(Append(s, f)) = Len(s) + 1
         /\ Append(s, f)[Len(s) + 1] = f
         /\ \A i \in 1..Len(s) : Append(s, f)[i] = s[i]
PROOF
  <1> DEFINE t == Append(s, f)
             o == Append(open, kind)
  <1>1. s \in Seq(D!Frame) /\ open \in Seq(Containers) /\ Len(open) = Len(s) BY DEF Fits
  <1>2. f \in D!Frame BY DEF Fit
  <1>3. /\ t \in Seq(D!Frame) /\ Len(t) = Len(s) + 1 /\ t # <<>>
        /\ \A i \in 1..Len(s) : t[i] = s[i]
        /\ t[Len(s) + 1] = f
    BY <1>1, <1>2, AppendProperties
  <1>4. /\ o \in Seq(Containers) /\ Len(o) = Len(s) + 1
        /\ \A i \in 1..Len(s) : o[i] = open[i]
        /\ o[Len(s) + 1] = kind
    BY <1>1, AppendProperties
  <1>5. PICK n \in Nat : n = Len(s) BY <1>1, SMT
  <1> HIDE DEF t, o
  <1>6. ASSUME NEW i \in 1..Len(t) PROVE Fit(t[i], o[i])
    <2>1. i \in 1..n \/ i = n + 1 BY <1>3, <1>5, SMT
    <2>2. QED BY <1>3, <1>4, <1>5, <2>1 DEF Fits
  <1>7. ASSUME NEW i \in 1..Len(t) - 1 PROVE ~NameDue(t[i])
    <2>1. i \in 1..n /\ (i \in 1..n - 1 \/ i = n) /\ (i = n => n # 0) BY <1>3, <1>5, SMT
    <2>2. t[i] = s[i] BY <1>3, <1>5, <2>1
    <2>3. i = n => s # <<>> BY <1>1, <1>5, <2>1, SMT
    <2>4. QED BY <1>5, <2>1, <2>2, <2>3 DEF Fits
  <1>8. Fits(t, o) BY <1>3, <1>4, <1>6, <1>7 DEF Fits
  <1>9. QED BY <1>3, <1>8 DEF t, o

\* All but the last.
Lower(s) == SubSeq(s, 1, Len(s) - 1)

LEMMA FitsPop ==
  ASSUME NEW s, NEW open, Fits(s, open), s # <<>>, NEW t, t = Lower(s),
         NEW o, o = Lower(open)
  PROVE  /\ Fits(t, o)
         /\ Len(t) = Len(s) - 1
         /\ (o = <<>> <=> t = <<>>)
         /\ \A i \in 1..Len(t) : t[i] = s[i] /\ i \in 1..Len(s)
         /\ t # <<>> => ~NameDue(t[Len(t)])
PROOF
  <1>1. s \in Seq(D!Frame) /\ open \in Seq(Containers) /\ Len(open) = Len(s) BY DEF Fits
  <1>2. Len(s) \in Nat \ {0} BY <1>1, SMT
  <1>3. PICK m \in Nat : m = Len(s) - 1 BY <1>2, SMT
  <1>5. t \in Seq(D!Frame) /\ Len(t) = m /\ \A i \in 1..m : t[i] = s[i]
    <2>1. /\ SubSeq(s, 1, m) \in Seq(D!Frame) /\ Len(SubSeq(s, 1, m)) = m
          /\ \A i \in 1..m : SubSeq(s, 1, m)[i] = s[i]
      BY <1>1, <1>3, SMT
    <2>2. QED BY <1>3, <2>1 DEF Lower
  <1>6. o \in Seq(Containers) /\ Len(o) = m /\ \A i \in 1..m : o[i] = open[i]
    <2>1. /\ SubSeq(open, 1, m) \in Seq(Containers) /\ Len(SubSeq(open, 1, m)) = m
          /\ \A i \in 1..m : SubSeq(open, 1, m)[i] = open[i]
      BY <1>1, <1>3, SMT
    <2>2. QED BY <1>1, <1>3, <2>1 DEF Lower
  <1>7. \A i \in 1..m : i \in 1..Len(s) BY <1>3, SMT
  <1>8. \A i \in 1..m : Fit(t[i], o[i]) BY <1>5, <1>6, <1>7 DEF Fits
  <1>9. \A i \in 1..m : ~NameDue(t[i]) BY <1>3, <1>5 DEF Fits
  <1>10. \A i \in 1..m - 1 : i \in 1..m BY SMT
  <1>11. Fits(t, o) BY <1>5, <1>6, <1>8, <1>9, <1>10 DEF Fits
  <1>12. o = <<>> <=> t = <<>>
    <2>1. o = <<>> <=> m = 0 BY <1>6, EmptySeq, SMT
    <2>2. t = <<>> <=> m = 0 BY <1>5, EmptySeq, SMT
    <2>3. QED BY <2>1, <2>2
  <1>13. t # <<>> => m \in 1..m BY <1>5, SMT
  <1>14. QED BY <1>3, <1>5, <1>7, <1>9, <1>11, <1>12, <1>13

\* The frame on the top is changed.
Changed(s, f) == [s EXCEPT ![Len(s)] = f]

LEMMA FitsChange ==
  ASSUME NEW s, NEW open, Fits(s, open), s # <<>>, NEW f, Fit(f, Kind(s[Len(s)])),
         NEW t, t = Changed(s, f)
  PROVE  /\ Fits(t, open)
         /\ Len(t) = Len(s) /\ t # <<>> /\ t[Len(t)] = f
         /\ \A i \in 1..Len(s) - 1 : t[i] = s[i] /\ i \in 1..Len(s)
PROOF
  <1>1. s \in Seq(D!Frame) /\ open \in Seq(Containers) /\ Len(open) = Len(s) BY DEF Fits
  <1>2. PICK n \in Nat \ {0} : n = Len(s) BY <1>1, SMT
  <1>3. f \in D!Frame BY DEF Fit
  <1>4. t \in Seq(D!Frame) /\ Len(t) = n /\ t # <<>>
    BY <1>1, <1>2, <1>3, ExceptSeq, SMT DEF Changed
  <1>5. t[n] = f /\ \A i \in 1..n - 1 : t[i] = s[i] /\ i \in 1..n
    BY <1>1, <1>2, <1>3, ExceptSeq, SMT DEF Changed
  <1>6. \A i \in 1..n : i \in 1..n - 1 \/ i = n BY SMT
  <1>7. Kind(s[n]) = open[n] BY <1>1, <1>2, FitsTop
  <1>8. \A i \in 1..n : Fit(t[i], open[i]) BY <1>2, <1>5, <1>6, <1>7 DEF Fits
  <1>9. \A i \in 1..n - 1 : ~NameDue(t[i]) BY <1>2, <1>5 DEF Fits
  <1>10. Fits(t, open) BY <1>1, <1>2, <1>4, <1>8, <1>9 DEF Fits
  <1>11. QED BY <1>2, <1>4, <1>5, <1>10

-----------------------------------------------------------------------------
(* Where the decoder is in the text. *)

\* What a lexeme says of the places before and after it.
LEMMA FollowsWhat ==
  ASSUME NEW k, NEW c, NEW l, Written!Follows(k, c, l)
  PROVE  /\ k.at # "end"
         /\ k.at = "name" => c = "str"
         /\ k.at = "colon" => c = "colon"
         /\ k.at = "delimiter" =>
              c = "comma" \/ \E kind \in Containers : Written!Inside(k, kind) /\ c = Written!Closer(kind)
         /\ c \in {"str", "atom"} =>
              \/ Written!ValueDue(k) /\ l = Written!Ended(k.open)
              \/ /\ k.at \in {"first", "name"} /\ Written!Inside(k, "OBJECT")
                 /\ c = "str" /\ l = [open |-> k.open, at |-> "colon"]
         /\ \A kind \in Containers :
              c = Written!Opener(kind) =>
                /\ Written!ValueDue(k) /\ Len(k.open) < RecursionMax + 1
                /\ l = [open |-> Append(k.open, kind), at |-> "first"]
         /\ \A kind \in Containers :
              c = Written!Closer(kind) =>
                /\ k.at \in {"first", "delimiter"} /\ Written!Inside(k, kind)
                /\ l = Written!Ended(SubSeq(k.open, 1, Len(k.open) - 1))
         /\ c = "colon" => k.at = "colon" /\ l = [open |-> k.open, at |-> "value"]
         /\ c = "comma" =>
              /\ k.at = "delimiter"
              /\ l = [open |-> k.open, at |-> IF Written!Inside(k, "ARRAY") THEN "value" ELSE "name"]
PROOF
  <1> USE DEF Containers, Written!Kinds, Written!Opener, Written!Closer
  <1>1. CASE Written!Scalar(k, c, l) BY <1>1 DEF Written!Scalar, Written!ValueDue
  <1>2. CASE Written!Opening(k, c, l) BY <1>2 DEF Written!Opening, Written!ValueDue
  <1>3. CASE Written!Closing(k, c, l) BY <1>3 DEF Written!Closing
  <1>4. CASE Written!Name(k, c, l) BY <1>4 DEF Written!Name
  <1>5. CASE Written!Colon(k, c, l) BY <1>5 DEF Written!Colon
  <1>6. CASE Written!Comma(k, c, l) BY <1>6 DEF Written!Comma
  <1>7. QED BY <1>1, <1>2, <1>3, <1>4, <1>5, <1>6 DEF Written!Follows, Written!Blank

\* A whole document, and the run through it.
Document(run) ==
  /\ out \in Seq(Lexemes)
  /\ Written!Run(out, Len(out), run) /\ run[Len(out) + 1].at = "end"

\* No error has been met.
Cursor ==
  /\ dinput = Append(out, "eof") /\ dstart \in 1..Len(out) + 1
  /\ derrorStr = "none" /\ dpyErr = FALSE

\* What the decoder expects is what comes.
AtName == dstack # <<>> /\ NameDue(D!Top)
AtMember == dstack # <<>> /\ D!Top.name = D!NULL
After(k) == k.at = IF dstack = <<>> THEN "end" ELSE "delimiter"

Stage(k) ==
  /\ dpc \in D!Locations
  /\ dret # D!NULL <=> dpc \in {"return", "trailing", "done"}
  /\ dpc = "decode_any" =>
       /\ IF AtName THEN k.at \in {"first", "name"} ELSE Written!ValueDue(k)
       /\ k.at = "first" => dinput[dstart] # D!Closer
  /\ dpc = "member" =>
       /\ AtMember
       /\ k.at = IF D!Top.len = 0 THEN "first"
                 ELSE IF D!Top.fn = "array" THEN "value" ELSE "name"
  /\ dpc = "return" =>
       /\ dret \in D!JSOBJ /\ dret.ref # 0
       /\ IF AtName THEN k.at = "colon" /\ dlastType = "JT_UTF8" /\ dret.kind = "str" ELSE After(k)
  /\ dpc = "delimiter" => AtMember /\ k.at = "delimiter"
  /\ dpc = "colon" => dstack # <<>> /\ D!Top.name # D!NULL /\ k.at = "colon"
  /\ dpc \in {"trailing", "done"} => dstack = <<>> /\ k.at = "end"

\* Every object that was made and not given up is held, and the first one is
\* the one to be returned.
Kept ==
  /\ dmade \in Nat
  /\ dmade = 0 <=> dpc = "decode_any" /\ dstack = <<>>
  /\ dmade # 0 => 1 \in downed
  /\ dret # D!NULL => (dret.ref = 1 <=> dstack = <<>>)
  /\ \A i \in 1..Len(dstack) :
       (dstack[i].obj.ref = 1 <=> i = 1) /\ dstack[i].name.ref # 1
  /\ \A x \in downed :
       /\ x # 0
       /\ x = dret.ref \/ \E i \in 1..Len(dstack) : x \in {dstack[i].obj.ref, dstack[i].name.ref}

\* The values that have been read.
Seen(n) == {i \in Values : i < n}
Counted == dmade = Cardinality(Seen(dstart))

Nested(k) == Fits(dstack, k.open) /\ dobjDepth = Len(dstack)

Reading(run) ==
  /\ Document(run) /\ Cursor
  /\ Nested(run[dstart]) /\ Stage(run[dstart])
  /\ Kept /\ Counted

LEMMA ReadLexeme ==
  ASSUME NEW run, Document(run), Cursor, NEW c, D!Peek(c)
  PROVE  /\ UNCHANGED dinput /\ c = dinput[dstart]
         /\ \/ /\ dstart \in 1..Len(out) /\ dstart + 1 \in 1..Len(out) + 1
               /\ c = out[dstart] /\ c \in Lexemes
               /\ Written!Follows(run[dstart], c, run[dstart + 1])
            \/ dstart = Len(out) + 1 /\ c = "eof" /\ run[dstart].at = "end"
PROOF
  <1>1. out \in Seq(Lexemes) /\ Len(out) \in Nat BY DEF Document
  <1>2. /\ Len(dinput) = Len(out) + 1 /\ dinput[Len(out) + 1] = "eof"
        /\ \A i \in 1..Len(out) : dinput[i] = out[i]
    <2>1. out \in Seq(Lexemes \cup {"eof"}) BY <1>1, SMT
    <2>2. QED BY <2>1, AppendProperties DEF Cursor
  <1>3. UNCHANGED dinput /\ c = dinput[dstart]
    BY <1>1, <1>2, SMT DEF D!Peek, D!Complete, Cursor
  <1>4. CASE dstart \in 1..Len(out)
    <2>1. dstart + 1 \in 1..Len(out) + 1 BY <1>1, <1>4, SMT
    <2>2. c = out[dstart] /\ c \in Lexemes BY <1>1, <1>2, <1>3, <1>4
    <2>3. Written!Follows(run[dstart], c, run[dstart + 1])
      BY <1>4, <2>2 DEF Document, Written!Run
    <2>4. QED BY <1>3, <1>4, <2>1, <2>2, <2>3
  <1>5. CASE dstart = Len(out) + 1 BY <1>2, <1>3, <1>5 DEF Document
  <1>6. QED BY <1>1, <1>4, <1>5, SMT DEF Cursor

LEMMA SeenNext ==
  ASSUME out \in Seq(Lexemes), NEW n \in 1..Len(out)
  PROVE  Cardinality(Seen(n + 1)) =
           Cardinality(Seen(n)) + (IF out[n] \in {"lbrack", "lbrace", "str", "atom"} THEN 1 ELSE 0)
PROOF
  <1>1. Len(out) \in Nat /\ DOMAIN out = 1..Len(out) BY SMT
  <1>2. IsFiniteSet(Seen(n))
    <2>1. Seen(n) \subseteq 1..Len(out) BY <1>1 DEF Seen, Values
    <2>2. IsFiniteSet(1..Len(out)) BY <1>1, FS_Interval, SMT
    <2>3. QED BY <2>1, <2>2, FS_Subset
  <1>3. CASE n \in Values
    <2>1. Seen(n + 1) = Seen(n) \cup {n} /\ n \notin Seen(n)
      BY <1>1, <1>3, SMT DEF Seen, Values
    <2>2. Cardinality(Seen(n + 1)) = Cardinality(Seen(n)) + 1 BY <1>2, <2>1, FS_AddElement
    <2>3. QED BY <1>3, <2>2 DEF Values
  <1>4. CASE n \notin Values
    <2>1. Seen(n + 1) = Seen(n) BY <1>1, <1>4, SMT DEF Seen, Values
    <2>2. Cardinality(Seen(n)) \in Nat BY <1>2, FS_CardinalityType
    <2>3. QED BY <1>1, <1>4, <2>1, <2>2, SMT DEF Values
  <1>5. QED BY <1>3, <1>4

\* Documents, and what has been seen, stay as they are.
LEMMA SameDocument ==
  ASSUME NEW run, Document(run), UNCHANGED out
  PROVE  Document(run)' /\ \A n : Seen(n)' = Seen(n)
PROOF BY DEF Document, Seen, Values

\* The container on the top is the innermost one.
LEMMA InsideTop ==
  ASSUME NEW k, Nested(k)
  PROVE  /\ k.open = <<>> <=> dstack = <<>>
         /\ \A kind \in Containers :
              Written!Inside(k, kind) <=> dstack # <<>> /\ kind = Kind(D!Top)
         /\ dstack # <<>> => /\ Len(dstack) \in Nat \ {0} /\ Len(dstack) \in 1..Len(dstack)
                            /\ Fit(D!Top, Kind(D!Top))
PROOF
  <1>1. Fits(dstack, k.open) BY DEF Nested
  <1>2. dstack = <<>> => k.open = <<>> BY <1>1, EmptySeq, SMT DEF Fits
  <1>3. CASE dstack # <<>>
    <2>1. /\ k.open # <<>> /\ k.open[Len(k.open)] = Kind(D!Top)
          /\ Len(dstack) \in Nat \ {0} /\ Len(dstack) \in 1..Len(dstack)
          /\ Fit(D!Top, Kind(D!Top))
      BY <1>1, <1>3, FitsTop DEF D!Top
    <2>2. QED BY <1>3, <2>1 DEF Written!Inside
  <1>4. QED BY <1>2, <1>3 DEF Written!Inside

Value == {"lbrack", "lbrace", "str", "atom"}

\* A lexeme is read and passed.
LEMMA Taken ==
  ASSUME NEW run, Reading(run), NEW c, c # "eof", D!Peek(c), dstart' = dstart + 1,
         UNCHANGED <<out, derrorStr, dpyErr>>
  PROVE  /\ Document(run)' /\ Cursor'
         /\ Written!Follows(run[dstart], c, run[dstart + 1])
         /\ run[dstart]' = run[dstart + 1]
         /\ c = dinput[dstart]
         /\ Counted' <=> dmade' = dmade + (IF c \in Value THEN 1 ELSE 0)
PROOF
  <1>1. Document(run) /\ Cursor /\ Counted BY DEF Reading
  <1>2. /\ UNCHANGED dinput /\ c = dinput[dstart]
        /\ dstart \in 1..Len(out) /\ dstart + 1 \in 1..Len(out) + 1
        /\ c = out[dstart] /\ Written!Follows(run[dstart], c, run[dstart + 1])
    BY <1>1, ReadLexeme
  <1>3. Cursor' BY <1>1, <1>2 DEF Cursor
  <1>4. PICK n \in 1..Len(out) : n = dstart BY <1>2
  <1>5. Cardinality(Seen(n + 1)) = Cardinality(Seen(n)) + (IF c \in Value THEN 1 ELSE 0)
    BY <1>1, <1>2, <1>4, SeenNext DEF Document, Value
  <1>6. Counted' <=> dmade' = Cardinality(Seen(n + 1)) BY <1>1, <1>4, SameDocument DEF Counted
  <1>7. QED BY <1>1, <1>2, <1>3, <1>4, <1>5, <1>6, SameDocument DEF Counted

LEMMA ReadScalar ==
  ASSUME NEW run, Reading(run), D!DecodeScalar, UNCHANGED out
  PROVE  Reading(run)'
PROOF
  <1>1. PICK c \in {"str", "atom"} :
          /\ D!Peek(c)
          /\ dmade' = dmade + 1 /\ downed' = downed \cup {dmade + 1}
          /\ dret' = [ref |-> dmade + 1, kind |-> c]
          /\ dlastType' = IF c = "str" THEN "JT_UTF8" ELSE "JT_OTHER"
    BY DEF D!DecodeScalar, D!New, D!Return, D!Fresh
  <1>2. /\ dpc = "decode_any" /\ dpc' = "return" /\ dstart' = dstart + 1
        /\ UNCHANGED <<dstack, dobjDepth, dpyErr, derrorStr>>
    BY DEF D!DecodeScalar, D!Return
  <1>3. PICK k, l : k = run[dstart] /\ l = run[dstart + 1] OBVIOUS
  <1>4. Nested(k) /\ Stage(k) /\ Kept /\ dmade \in Nat BY <1>3 DEF Reading, Kept
  <1>5. /\ Document(run)' /\ Cursor' /\ Written!Follows(k, c, l) /\ run[dstart]' = l
        /\ Counted' <=> dmade' = dmade + 1
    BY <1>1, <1>2, <1>3, Taken DEF Value
  <1>6. \/ Written!ValueDue(k) /\ l = Written!Ended(k.open)
        \/ /\ k.at \in {"first", "name"} /\ Written!Inside(k, "OBJECT")
           /\ c = "str" /\ l = [open |-> k.open, at |-> "colon"]
    BY <1>5, FollowsWhat
  <1>7. l.open = k.open BY <1>6 DEF Written!Ended
  <1>8. Nested(l)' BY <1>2, <1>4, <1>7 DEF Nested
  <1>9. Stage(l)'
    <2>1. dret'.ref # 0 /\ dret' # D!NULL /\ dret' \in D!JSOBJ
      BY <1>1, <1>4, SMT DEF D!NULL, D!JSOBJ, D!Kinds
    <2>2. AtName' = AtName BY <1>2 DEF AtName, D!Top
    <2>3. CASE AtName
      <3>1. k.at \in {"first", "name"} BY <1>2, <1>4, <2>3 DEF Stage
      <3>2. Kind(D!Top) = "OBJECT" /\ dstack # <<>> BY <2>3 DEF AtName, NameDue, Kind
      <3>3. ~Written!Inside(k, "ARRAY") BY <1>4, <3>2, InsideTop DEF Containers
      <3>4. l.at = "colon" /\ c = "str" BY <1>6, <3>1, <3>3 DEF Written!ValueDue
      <3>5. QED BY <1>1, <1>2, <2>1, <2>2, <2>3, <3>4 DEF Stage, D!Locations
    <2>4. CASE ~AtName
      <3>1. Written!ValueDue(k) BY <1>2, <1>4, <2>4 DEF Stage
      <3>2. k.at \in {"first", "name"} => Written!Inside(k, "ARRAY")
        BY <3>1 DEF Written!ValueDue
      <3>3. l = Written!Ended(k.open) BY <1>4, <1>6, <3>2, InsideTop DEF Containers
      <3>4. l.at = IF dstack = <<>> THEN "end" ELSE "delimiter"
        BY <1>4, <3>3, InsideTop DEF Written!Ended
      <3>5. QED BY <1>1, <1>2, <2>1, <2>2, <2>4, <3>4 DEF Stage, D!Locations, After
    <2>5. QED BY <2>3, <2>4
  <1>10. Kept'
    <2>1. dret = D!NULL BY <1>2, <1>4 DEF Stage
    <2>2. QED BY <1>1, <1>2, <1>4, <2>1, SMT DEF Kept, D!NULL
  <1>11. QED BY <1>1, <1>5, <1>8, <1>9, <1>10 DEF Reading

\* decode_array and decode_object: the depth is within the limit, or the limit
\* is not beyond that of the encoder.
Refused ==
  /\ derrorStr = "depth" /\ dret = D!NULL /\ dpc \in {"return", "done"}
  /\ MaxDepth <= RecursionMax

LEMMA ReadOpening ==
  ASSUME NEW run, Reading(run), UNCHANGED out, NEW kind \in Containers,
         NEW fn, fn = IF kind = "ARRAY" THEN "array" ELSE "object",
         D!Enter(fn, Written!Opener(kind)) \/ D!TooDeep(Written!Opener(kind))
  PROVE  Reading(run)' \/ Refused'
PROOF
  <1> DEFINE c == Written!Opener(kind)
  <1>1. c \in Value /\ c # "eof" BY DEF Written!Opener, Value
  <1>2. fn \in {"array", "object"} BY DEF Containers
  <1> HIDE DEF c
  <1>3. PICK k, l : k = run[dstart] /\ l = run[dstart + 1] OBVIOUS
  <1>4. /\ Nested(k) /\ Stage(k) /\ Kept /\ dmade \in Nat /\ Document(run) /\ Cursor
        /\ Fits(dstack, k.open) /\ dobjDepth = Len(dstack)
    BY <1>3 DEF Reading, Kept, Nested
  <1>5. D!Peek(c) /\ dpc = "decode_any" BY DEF D!Enter, D!TooDeep, c
  <1>6. Written!Follows(k, c, l)
    BY <1>1, <1>3, <1>4, <1>5, ReadLexeme
  <1>7. /\ Written!ValueDue(k) /\ Len(k.open) < RecursionMax + 1
        /\ l = [open |-> Append(k.open, kind), at |-> "first"]
    BY <1>6, FollowsWhat DEF c
  <1>8. Len(k.open) = Len(dstack) /\ Len(dstack) \in Nat
    BY <1>4, SMT DEF Fits
  <1>9. CASE D!TooDeep(c)
    <2>1. MaxDepth <= RecursionMax
      BY <1>4, <1>7, <1>8, <1>9, MaxDepthAssumption, EncoderAssumption, SMT
      DEF D!TooDeep, D!DepthExceeded
    <2>2. QED BY <1>9, <2>1 DEF Refused, D!TooDeep, D!SetError
  <1>10. CASE D!Enter(fn, c)
    <2>1. PICK f : f = [fn |-> fn, obj |-> [ref |-> dmade + 1, kind |-> fn],
                        name |-> D!NULL, len |-> 0]
      OBVIOUS
    <2>2. /\ dmade' = dmade + 1 /\ downed' = downed \cup {dmade + 1}
          /\ dstack' = Append(dstack, f)
          /\ dstart' = dstart + 1 /\ dpc' = "member" /\ dobjDepth' = Len(dstack) + 1
          /\ UNCHANGED <<dret, derrorStr, dpyErr>>
      BY <1>4, <1>10, <2>1 DEF D!Enter, D!New, D!Fresh
    <2>3. /\ Document(run)' /\ Cursor' /\ run[dstart]' = l
          /\ Counted' <=> dmade' = dmade + 1
      BY <1>1, <1>3, <1>5, <2>2, Taken
    <2>4. Fit(f, kind)
      <3>1. f \in D!Frame BY <1>2, <1>4, <2>1, SMT DEF D!Frame, D!JSOBJ, D!Kinds, D!NULL
      <3>2. kind = Kind(f) BY <2>1 DEF Kind, Containers
      <3>3. f.obj.ref # 0 /\ f.name = D!NULL BY <1>4, <2>1, SMT
      <3>4. QED BY <3>1, <3>2, <3>3 DEF Fit
    <2>5. dstack = <<>> \/ ~NameDue(dstack[Len(dstack)])
      <3>1. ASSUME AtName PROVE FALSE
        <4>1. k.at \in {"first", "name"} BY <1>4, <1>5, <3>1 DEF Stage
        <4>2. Kind(D!Top) = "OBJECT" /\ dstack # <<>> BY <3>1 DEF AtName, NameDue, Kind
        <4>3. ~Written!Inside(k, "ARRAY") BY <1>4, <4>2, InsideTop DEF Containers
        <4>4. QED BY <1>7, <4>1, <4>3 DEF Written!ValueDue
      <3>2. QED BY <3>1 DEF AtName, D!Top
    <2>6. /\ Fits(dstack', l.open)
          /\ dstack' # <<>> /\ Len(dstack') = Len(dstack) + 1
          /\ dstack'[Len(dstack) + 1] = f
          /\ \A i \in 1..Len(dstack) : dstack'[i] = dstack[i]
      <3>1. PICK s : s = dstack OBVIOUS
      <3>2. QED BY <1>4, <1>7, <2>2, <2>4, <2>5, <3>1, FitsPush
    <2>7. Nested(l)' BY <2>2, <2>6 DEF Nested
    <2>8. dret = D!NULL BY <1>4, <1>5 DEF Stage
    <2>9. Stage(l)'
      <3>1. D!Top' = f BY <2>6 DEF D!Top
      <3>2. AtMember' /\ D!Top'.len = 0 BY <2>1, <2>6, <3>1 DEF AtMember
      <3>3. QED BY <1>7, <2>2, <2>8, <3>2 DEF Stage, D!Locations
    <2>10. Kept'
      <3>1. f.obj.ref = dmade + 1 /\ f.name.ref = 0 BY <2>1 DEF D!NULL
      <3>2. \A i \in 1..Len(dstack') : i \in 1..Len(dstack) \/ i = Len(dstack')
        BY <1>8, <2>6, SMT
      <3>3. QED
        BY <1>4, <1>5, <1>8, <2>2, <2>6, <2>8, <3>1, <3>2, EmptySeq, SMT DEF Kept, D!NULL
    <2>11. QED BY <2>2, <2>3, <2>7, <2>9, <2>10 DEF Reading
  <1>11. QED BY <1>9, <1>10 DEF c

\* A container is closed where its closing bracket stands.
LEMMA ReadClosing ==
  ASSUME NEW run, Reading(run), UNCHANGED <<out, derrorStr, dpyErr, dmade, downed>>,
         dpc \in {"member", "delimiter"}, D!Peek(D!Closer),
         dstart' = dstart + 1, dret' = D!Top.obj, dpc' = "return",
         dstack' = D!Pop, dobjDepth' = dobjDepth - 1
  PROVE  Reading(run)'
PROOF
  <1>1. PICK k, l : k = run[dstart] /\ l = run[dstart + 1] OBVIOUS
  <1>2. PICK s, o : s = dstack /\ o = k.open OBVIOUS
  <1>3. PICK t, p : t = dstack' /\ p = Lower(o) OBVIOUS
  <1>4. PICK c : c = D!Closer OBVIOUS
  <1>5. Nested(k) /\ Stage(k) /\ Kept /\ Fits(s, o) /\ dobjDepth = Len(s)
    BY <1>1, <1>2 DEF Reading, Nested
  <1>6. AtMember /\ dret = D!NULL BY <1>5 DEF Stage
  <1>7. /\ s # <<>> /\ Len(s) \in Nat \ {0} /\ Len(s) \in 1..Len(s)
        /\ Fit(D!Top, Kind(D!Top))
    BY <1>2, <1>5, <1>6, InsideTop DEF AtMember
  <1>8. PICK kind \in Containers : kind = Kind(D!Top) BY DEF Kind, Containers
  <1>9. c = Written!Closer(kind)
    BY <1>4, <1>7, <1>8 DEF D!Closer, Written!Closer, Kind, Fit, D!Frame
  <1>10. c # "eof" /\ c \notin Value BY <1>4 DEF D!Closer, Value
  <1>11. /\ Document(run)' /\ Cursor' /\ Written!Follows(k, c, l) /\ run[dstart]' = l
         /\ Counted' <=> dmade' = dmade + 0
    BY <1>1, <1>4, <1>10, Taken
  <1>12. l = Written!Ended(p) BY <1>2, <1>3, <1>9, <1>11, FollowsWhat DEF Lower
  <1>13. t = Lower(s) BY <1>2, <1>3 DEF D!Pop, Lower
  <1>14. /\ Fits(t, p)
         /\ Len(t) = Len(s) - 1
         /\ p = <<>> <=> t = <<>>
         /\ \A i \in 1..Len(t) : t[i] = s[i] /\ i \in 1..Len(s)
         /\ t # <<>> => ~NameDue(t[Len(t)])
    BY <1>3, <1>5, <1>7, <1>13, FitsPop
  <1>15. Nested(l)'
    BY <1>2, <1>3, <1>5, <1>12, <1>14 DEF Nested, Written!Ended
  <1>16. D!Top.obj.ref # 0 /\ D!Top.obj # D!NULL /\ D!Top.obj \in D!JSOBJ /\ D!Top.name = D!NULL
    BY <1>6, <1>7 DEF Fit, D!NULL, D!Frame, AtMember
  <1>17. Stage(l)'
    <2>1. ~AtName' BY <1>3, <1>14 DEF AtName, D!Top
    <2>2. After(l)' BY <1>3, <1>12, <1>14 DEF After, Written!Ended
    <2>3. QED BY <1>16, <2>1, <2>2 DEF Stage, D!Locations
  <1>18. Kept'
    <2>1. PICK n \in Nat \ {0} : n = Len(s) BY <1>7
    <2>2. D!Top = s[n] BY <1>2, <2>1 DEF D!Top
    <2>3. t = <<>> <=> n = 1
      <3>1. t \in Seq(D!Frame) /\ Len(t) = n - 1 BY <1>14, <2>1 DEF Fits
      <3>2. QED BY <3>1, EmptySeq, SMT
    <2>4. \A i \in 1..n : i \in 1..Len(t) \/ i = n BY <1>14, <2>1, SMT
    <2>5. dmade \in Nat /\ dmade # 0 BY <1>2, <1>5, <1>7 DEF Kept
    <2>6. \A i \in 1..n : (s[i].obj.ref = 1 <=> i = 1) /\ s[i].name.ref # 1
      BY <1>2, <1>5, <2>1 DEF Kept
    <2>7. n \in 1..n /\ D!Top.name.ref = 0 BY <1>7, <1>16, <2>1 DEF D!NULL
    <2>8. \A x \in downed :
            /\ x # 0
            /\ x = s[n].obj.ref \/ \E i \in 1..Len(t) : x \in {t[i].obj.ref, t[i].name.ref}
      <3>1. ASSUME NEW x \in downed
            PROVE  /\ x # 0
                   /\ x = s[n].obj.ref \/ \E i \in 1..Len(t) : x \in {t[i].obj.ref, t[i].name.ref}
        <4>1. x # 0 /\ \E i \in 1..n : x \in {s[i].obj.ref, s[i].name.ref}
          BY <1>2, <1>5, <1>6, <2>1, <3>1 DEF Kept, D!NULL
        <4>2. PICK i \in 1..n : x \in {s[i].obj.ref, s[i].name.ref} BY <4>1
        <4>3. CASE i \in 1..Len(t) BY <1>14, <4>1, <4>2, <4>3
        <4>4. CASE i = n BY <2>2, <2>7, <4>1, <4>2, <4>4
        <4>5. QED BY <2>4, <4>3, <4>4
      <3>2. QED BY <3>1
    <2>9. 1 \in downed BY <1>5, <2>5 DEF Kept
    <2>10. \A i \in 1..Len(t) : (t[i].obj.ref = 1 <=> i = 1) /\ t[i].name.ref # 1
      BY <1>14, <2>1, <2>6
    <2>11. dret'.ref = 1 <=> t = <<>> BY <2>2, <2>3, <2>6, <2>7
    <2>12. QED BY <1>3, <2>2, <2>5, <2>8, <2>9, <2>10, <2>11 DEF Kept
  <1>19. Counted'
    <2>1. dmade \in Nat BY <1>5 DEF Kept
    <2>2. QED BY <1>11, <2>1, SMT
  <1>20. QED BY <1>11, <1>15, <1>17, <1>18, <1>19 DEF Reading

LEMMA ReadMember ==
  ASSUME NEW run, Reading(run), UNCHANGED out, D!CloseAtMember \/ D!BeginMember
  PROVE  Reading(run)'
PROOF
  <1>1. PICK k, l : k = run[dstart] /\ l = run[dstart + 1] OBVIOUS
  <1>2. Nested(k) /\ Stage(k) /\ Kept /\ Document(run) /\ Cursor BY <1>1 DEF Reading
  <1>3. dpc = "member" BY DEF D!CloseAtMember, D!BeginMember
  <1>4. /\ dstack # <<>> /\ dret = D!NULL /\ AtMember
        /\ k.at = IF D!Top.len = 0 THEN "first"
                  ELSE IF D!Top.fn = "array" THEN "value" ELSE "name"
    BY <1>2, <1>3 DEF Stage, AtMember
  <1>5. Fit(D!Top, Kind(D!Top)) BY <1>2, <1>4, InsideTop
  <1>6. CASE D!CloseAtMember
    <2>1. PICK c : c = D!Closer OBVIOUS
    <2>2. D!Peek(c) /\ c # "eof" BY <1>6, <2>1 DEF D!CloseAtMember, D!Closer
    <2>3. Written!Follows(k, c, l) BY <1>1, <1>2, <2>2, ReadLexeme
    <2>4. PICK kind \in Containers : kind = Kind(D!Top) BY DEF Kind, Containers
    <2>5. c = Written!Closer(kind)
      BY <1>5, <2>1, <2>4 DEF D!Closer, Written!Closer, Kind, Fit, D!Frame
    <2>6. k.at \in {"first", "delimiter"} BY <2>3, <2>5, FollowsWhat
    <2>7. D!Top.len = 0 BY <1>4, <2>6
    <2>8. QED
      BY <1>3, <1>6, <2>7, ReadClosing DEF D!CloseAtMember, D!Return, D!Keep
  <1>7. CASE D!BeginMember
    <2>1. PICK c \in D!Lexemes \ {"ws", D!Closer} : D!Peek(c) BY <1>7 DEF D!BeginMember
    <2>2. UNCHANGED dinput /\ c = dinput[dstart] BY <1>2, <2>1, ReadLexeme
    <2>3. /\ dpc' = "decode_any"
          /\ UNCHANGED <<dstart, dstack, dret, dobjDepth, derrorStr, dpyErr, dmade, downed>>
      BY <1>7 DEF D!BeginMember, D!Keep
    <2>4. D!Closer' = D!Closer /\ AtName' = AtName BY <2>3 DEF D!Closer, D!Top, AtName
    <2>5. dinput[dstart] # D!Closer BY <2>1, <2>2
    <2>6. Cursor' BY <1>2, <2>2, <2>3 DEF Cursor
    <2>7. Nested(k)' BY <1>2, <2>3 DEF Nested
    <2>8. Stage(k)'
      <3>1. AtName <=> D!Top.fn = "object" BY <1>4 DEF AtName, NameDue, AtMember
      <3>2. D!Top.fn \in {"array", "object"} BY <1>5 DEF Fit, D!Frame
      <3>3. CASE D!Top.fn = "object"
        <4>1. k.at \in {"first", "name"} BY <1>4, <3>3
        <4>2. QED BY <1>4, <2>2, <2>3, <2>4, <2>5, <3>1, <3>3, <4>1 DEF Stage, D!Locations
      <3>4. CASE D!Top.fn = "array"
        <4>1. Written!Inside(k, "ARRAY") BY <1>2, <1>4, <3>4, InsideTop DEF Kind, Containers
        <4>2. Written!ValueDue(k) BY <1>4, <3>4, <4>1 DEF Written!ValueDue
        <4>3. QED BY <1>4, <2>2, <2>3, <2>4, <2>5, <3>1, <3>4, <4>2 DEF Stage, D!Locations
      <3>5. QED BY <3>2, <3>3, <3>4
    <2>9. Kept' BY <1>2, <1>3, <1>4, <2>3 DEF Kept
    <2>10. Counted' BY <2>3, SameDocument DEF Counted, Reading
    <2>11. QED BY <1>1, <1>2, <2>3, <2>6, <2>7, <2>8, <2>9, <2>10, SameDocument DEF Reading
  <1>8. QED BY <1>6, <1>7

\* The top frame gets a name, loses it, or counts a member.
LEMMA ReadChange ==
  ASSUME NEW k, Nested(k), dstack # <<>>, UNCHANGED dobjDepth,
         NEW f, Fit(f, Kind(D!Top)), dstack' = Changed(dstack, f)
  PROVE  /\ Nested(k)' /\ dstack' # <<>> /\ D!Top' = f
         /\ Len(dstack') = Len(dstack) /\ Len(dstack) \in Nat \ {0}
         /\ \A i \in 1..Len(dstack) : i = Len(dstack) \/ dstack'[i] = dstack[i]
PROOF
  <1>1. PICK s, t : s = dstack /\ t = dstack' OBVIOUS
  <1>2. Fits(s, k.open) /\ Kind(D!Top) = Kind(s[Len(s)]) BY <1>1 DEF Nested, D!Top
  <1>3. t = Changed(s, f) BY <1>1
  <1>4. /\ Fits(t, k.open)
        /\ Len(t) = Len(s) /\ t # <<>> /\ t[Len(t)] = f
        /\ \A i \in 1..Len(s) - 1 : t[i] = s[i] /\ i \in 1..Len(s)
    BY <1>1, <1>2, <1>3, FitsChange
  <1>5. Len(s) \in Nat \ {0} BY <1>1, InsideTop
  <1>6. \A i \in 1..Len(s) : i = Len(s) \/ i \in 1..Len(s) - 1 BY <1>5, SMT
  <1>7. QED BY <1>1, <1>4, <1>5, <1>6 DEF Nested, D!Top

LEMMA ReadReturned ==
  ASSUME NEW run, Reading(run), UNCHANGED out,
         D!ArrayAddItem \/ D!GotName \/ D!ObjectAddKey
  PROVE  Reading(run)'
PROOF
  <1>1. PICK k : k = run[dstart] OBVIOUS
  <1>2. Nested(k) /\ Stage(k) /\ Kept /\ Document(run) /\ Cursor BY <1>1 DEF Reading
  <1>3. /\ dpc = "return" /\ dstack # <<>> /\ dret # D!NULL
        /\ UNCHANGED <<dinput, dstart, dobjDepth, dmade, dlastType>>
    BY DEF D!ArrayAddItem, D!GotName, D!ObjectAddKey
  <1>4. PICK f : f = D!Top OBVIOUS
  <1>5. /\ Fit(f, Kind(D!Top)) /\ f \in D!Frame /\ f.obj.ref # 0 /\ f = dstack[Len(dstack)]
        /\ f.fn \in {"array", "object"}
        /\ Len(dstack) \in Nat \ {0} /\ Len(dstack) \in 1..Len(dstack)
    BY <1>2, <1>3, <1>4, InsideTop DEF Fit, D!Top, D!Frame
  <1>6. dret \in D!JSOBJ /\ dret.ref # 0 /\ dret.ref # 1 BY <1>2, <1>3 DEF Stage, Kept
  <1>7. Document(run)' BY <1>2, SameDocument
  <1>8. Counted' BY <1>3, SameDocument DEF Counted, Reading
  <1>9. dmade \in Nat /\ dmade # 0 /\ 1 \in downed BY <1>2, <1>3 DEF Kept
  <1>10. CASE D!ArrayAddItem
    <2>1. /\ downed' = downed \ {dret.ref} /\ dret' = D!NULL /\ dpc' = "delimiter"
          /\ UNCHANGED <<dstack, derrorStr, dpyErr>> /\ f.fn = "array"
      BY <1>4, <1>10 DEF D!ArrayAddItem, D!Drop
    <2>2. f.name = D!NULL BY <1>5, <2>1 DEF Fit
    <2>3. k.at = "delimiter" BY <1>2, <1>3, <1>4, <2>1 DEF Stage, AtName, NameDue, After
    <2>4. Stage(k)'
      <3>1. D!Top' = f BY <1>4, <2>1 DEF D!Top
      <3>2. AtMember' BY <1>3, <2>1, <2>2, <3>1 DEF AtMember
      <3>3. QED BY <2>1, <2>3, <3>2 DEF Stage, D!Locations
    <2>5. Kept' BY <1>2, <1>3, <1>6, <1>9, <2>1 DEF Kept
    <2>6. Cursor' /\ Nested(k)' BY <1>2, <1>3, <2>1 DEF Cursor, Nested
    <2>7. QED BY <1>1, <1>3, <1>7, <1>8, <2>4, <2>5, <2>6 DEF Reading
  <1>11. CASE D!GotName
    <2>1. f.fn = "object" /\ f.name = D!NULL /\ AtName
      BY <1>3, <1>4, <1>11 DEF D!GotName, AtName, NameDue
    <2>2. k.at = "colon" /\ dlastType = "JT_UTF8" /\ dret.kind = "str"
      BY <1>2, <1>3, <2>1 DEF Stage
    <2>3. PICK g : g = [fn |-> "object", obj |-> f.obj, name |-> dret, len |-> f.len] OBVIOUS
    <2>4. /\ dstack' = Changed(dstack, g)
          /\ dret' = D!NULL /\ dpc' = "colon"
          /\ UNCHANGED <<downed, derrorStr, dpyErr>>
      <3>1. [f EXCEPT !.name = dret] = g BY <1>5, <2>1, <2>3, SMT DEF D!Frame
      <3>2. [dstack EXCEPT ![Len(dstack)].name = dret]
              = [dstack EXCEPT ![Len(dstack)] = [dstack[Len(dstack)] EXCEPT !.name = dret]]
        OBVIOUS
      <3>3. QED BY <1>5, <1>11, <2>2, <3>1, <3>2 DEF D!GotName, D!Keep, Changed
    <2>5. Fit(g, Kind(D!Top))
      BY <1>4, <1>5, <1>6, <2>1, <2>2, <2>3 DEF Fit, Kind, D!Frame
    <2>6. /\ Nested(k)' /\ dstack' # <<>> /\ D!Top' = g /\ Len(dstack') = Len(dstack)
          /\ \A i \in 1..Len(dstack) : i = Len(dstack) \/ dstack'[i] = dstack[i]
      BY <1>2, <1>3, <2>4, <2>5, ReadChange
    <2>7. Stage(k)' BY <1>3, <2>2, <2>3, <2>4, <2>6 DEF Stage, D!Locations
    <2>8. Kept'
      <3>1. PICK s, t : s = dstack /\ t = dstack' OBVIOUS
      <3>2. PICK n : n = Len(s) OBVIOUS
      <3>3. /\ Len(t) = n /\ n \in 1..n /\ \A i \in 1..n : i = n \/ t[i] = s[i]
            /\ t[n].obj = s[n].obj /\ t[n].name = dret /\ s[n].name.ref = 0
        BY <1>5, <2>1, <2>3, <2>6, <3>1, <3>2 DEF D!Top, D!NULL
      <3>4. \A i \in 1..n : (t[i].obj.ref = 1 <=> i = 1) /\ t[i].name.ref # 1
        BY <1>2, <1>6, <3>1, <3>2, <3>3 DEF Kept
      <3>5. \A x \in downed :
              x # 0 /\ \E i \in 1..n : x \in {t[i].obj.ref, t[i].name.ref}
        <4>1. ASSUME NEW x \in downed
              PROVE  x # 0 /\ \E i \in 1..n : x \in {t[i].obj.ref, t[i].name.ref}
          <5>1. /\ x # 0
                /\ x = dret.ref \/ \E i \in 1..n : x \in {s[i].obj.ref, s[i].name.ref}
            BY <1>2, <3>1, <3>2, <4>1 DEF Kept
          <5>2. CASE x = dret.ref BY <3>3, <5>1, <5>2
          <5>3. ASSUME NEW i \in 1..n, x \in {s[i].obj.ref, s[i].name.ref}
                PROVE  x \in {t[i].obj.ref, t[i].name.ref}
            BY <3>3, <5>1, <5>3
          <5>4. QED BY <5>1, <5>2, <5>3
        <4>2. QED BY <4>1
      <3>6. QED BY <1>3, <1>9, <2>4, <3>1, <3>3, <3>4, <3>5 DEF Kept
    <2>9. Cursor' BY <1>2, <1>3, <2>4 DEF Cursor
    <2>10. QED BY <1>1, <1>3, <1>7, <1>8, <2>6, <2>7, <2>8, <2>9 DEF Reading
  <1>12. CASE D!ObjectAddKey
    <2>1. f.fn = "object" /\ f.name # D!NULL /\ f.name.kind = "str"
      BY <1>4, <1>5, <1>12 DEF D!ObjectAddKey, Fit
    <2>2. k.at = "delimiter"
      <3>1. ~AtName BY <1>4, <2>1 DEF AtName, NameDue
      <3>2. QED BY <1>2, <1>3, <3>1 DEF Stage, After
    <2>3. PICK g : g = [fn |-> "object", obj |-> f.obj, name |-> D!NULL, len |-> f.len] OBVIOUS
    <2>4. /\ dstack' = Changed(dstack, g)
          /\ dret' = D!NULL /\ dpc' = "delimiter" /\ derrorStr' = derrorStr /\ dpyErr' = dpyErr
          /\ downed' = downed \ {f.name.ref, dret.ref}
      <3>1. [f EXCEPT !.name = D!NULL] = g BY <1>5, <2>1, <2>3, SMT DEF D!Frame
      <3>2. [dstack EXCEPT ![Len(dstack)].name = D!NULL]
              = [dstack EXCEPT ![Len(dstack)] = [dstack[Len(dstack)] EXCEPT !.name = D!NULL]]
        OBVIOUS
      <3>3. dstack' = Changed(dstack, g)
        BY <1>5, <1>12, <3>1, <3>2 DEF D!ObjectAddKey, Changed
      <3>4. downed' = downed \ {f.name.ref, dret.ref} BY <1>4, <1>12 DEF D!ObjectAddKey, D!Drop
      <3>5. dpyErr' = dpyErr BY <1>2, <1>4, <1>12, <2>1 DEF D!ObjectAddKey, Cursor
      <3>6. QED BY <1>12, <3>3, <3>4, <3>5 DEF D!ObjectAddKey
    <2>5. Fit(g, Kind(D!Top))
      <3>1. D!NULL \in D!JSOBJ BY SMT DEF D!NULL, D!JSOBJ, D!Kinds
      <3>2. QED BY <1>4, <1>5, <2>1, <2>3, <3>1 DEF Fit, Kind, D!Frame
    <2>6. /\ Nested(k)' /\ dstack' # <<>> /\ D!Top' = g /\ Len(dstack') = Len(dstack)
          /\ \A i \in 1..Len(dstack) : i = Len(dstack) \/ dstack'[i] = dstack[i]
      BY <1>2, <1>3, <2>4, <2>5, ReadChange
    <2>7. Stage(k)'
      <3>1. AtMember' BY <2>3, <2>6 DEF AtMember
      <3>2. QED BY <2>2, <2>4, <3>1 DEF Stage, D!Locations
    <2>8. Kept'
      <3>1. PICK s, t : s = dstack /\ t = dstack' OBVIOUS
      <3>2. PICK n : n = Len(s) OBVIOUS
      <3>3. /\ Len(t) = n /\ n \in 1..n /\ \A i \in 1..n : i = n \/ t[i] = s[i]
            /\ t[n].obj = s[n].obj /\ t[n].name.ref = 0 /\ s[n].name = f.name
        BY <1>5, <2>3, <2>6, <3>1, <3>2 DEF D!Top, D!NULL
      <3>4. \A i \in 1..n : (t[i].obj.ref = 1 <=> i = 1) /\ t[i].name.ref # 1
        BY <1>2, <3>1, <3>2, <3>3 DEF Kept
      <3>5. f.name.ref # 1 BY <1>2, <3>1, <3>2, <3>3 DEF Kept
      <3>6. ASSUME NEW x \in downed'
            PROVE  x # 0 /\ \E i \in 1..n : x \in {t[i].obj.ref, t[i].name.ref}
        <4>1. x # 0 /\ x # dret.ref /\ x # f.name.ref /\ x \in downed BY <1>2, <2>4, <3>6 DEF Kept
        <4>2. PICK i \in 1..n : x \in {s[i].obj.ref, s[i].name.ref}
          BY <1>2, <3>1, <3>2, <4>1 DEF Kept
        <4>3. x \in {t[i].obj.ref, t[i].name.ref} BY <3>3, <4>1, <4>2
        <4>4. QED BY <4>1, <4>3
      <3>7. 1 \in downed' BY <1>6, <1>9, <2>4, <3>5
      <3>8. QED BY <1>3, <1>9, <2>4, <3>1, <3>3, <3>4, <3>6, <3>7 DEF Kept
    <2>9. Cursor' BY <1>2, <1>3, <2>4 DEF Cursor
    <2>10. QED BY <1>1, <1>3, <1>7, <1>8, <2>6, <2>7, <2>8, <2>9 DEF Reading
  <1>13. QED BY <1>10, <1>11, <1>12

LEMMA ReadColon ==
  ASSUME NEW run, Reading(run), UNCHANGED out, D!Colon
  PROVE  Reading(run)'
PROOF
  <1>1. PICK k, l : k = run[dstart] /\ l = run[dstart + 1] OBVIOUS
  <1>2. Nested(k) /\ Stage(k) /\ Kept /\ Document(run) /\ Cursor BY <1>1 DEF Reading
  <1>3. dpc = "colon" /\ dstart' = dstart + 1 BY DEF D!Colon
  <1>4. k.at = "colon" /\ dstack # <<>> /\ D!Top.name # D!NULL /\ dret = D!NULL
    BY <1>2, <1>3 DEF Stage
  <1>5. PICK c \in D!Lexemes \ {"ws"} : D!Peek(c) BY DEF D!Colon, D!Lexemes
  <1>6. Written!Follows(k, c, l) BY <1>1, <1>2, <1>4, <1>5, ReadLexeme
  <1>7. c = "colon" /\ l = [open |-> k.open, at |-> "value"] BY <1>4, <1>6, FollowsWhat
  <1>8. dinput[dstart] = "colon" BY <1>2, <1>5, <1>7, ReadLexeme
  <1>9. ASSUME NEW d, D!Peek(d) PROVE d = "colon" BY <1>2, <1>8, <1>9, ReadLexeme
  <1>10. /\ dpc' = "decode_any"
         /\ UNCHANGED <<dstack, dret, derrorStr, downed, dobjDepth, dpyErr, dmade>>
    BY <1>9 DEF D!Colon, D!Keep
  <1>11. /\ Document(run)' /\ Cursor' /\ run[dstart]' = l
         /\ Counted' <=> dmade' = dmade + 0
    BY <1>1, <1>3, <1>5, <1>7, <1>10, Taken DEF Value
  <1>12. Counted'
    <2>1. dmade \in Nat BY <1>2 DEF Kept
    <2>2. QED BY <1>10, <1>11, <2>1, SMT
  <1>13. Nested(l)' BY <1>2, <1>7, <1>10 DEF Nested
  <1>14. Stage(l)'
    <2>1. ~AtName' BY <1>4, <1>10 DEF AtName, NameDue, D!Top
    <2>2. Written!ValueDue(l) BY <1>7 DEF Written!ValueDue
    <2>3. QED BY <1>4, <1>7, <1>10, <2>1, <2>2 DEF Stage, D!Locations
  <1>15. Kept' BY <1>2, <1>3, <1>4, <1>10 DEF Kept
  <1>16. QED BY <1>11, <1>12, <1>13, <1>14, <1>15 DEF Reading

LEMMA ReadDelimiter ==
  ASSUME NEW run, Reading(run), UNCHANGED out, D!Delimiter
  PROVE  Reading(run)'
PROOF
  <1>1. PICK k, l : k = run[dstart] /\ l = run[dstart + 1] OBVIOUS
  <1>2. Nested(k) /\ Stage(k) /\ Kept /\ Document(run) /\ Cursor BY <1>1 DEF Reading
  <1>3. /\ dpc = "delimiter" /\ dstart' = dstart + 1
        /\ UNCHANGED <<dlastType, dpyErr, dmade>>
    BY DEF D!Delimiter
  <1>4. k.at = "delimiter" /\ AtMember /\ dret = D!NULL BY <1>2, <1>3 DEF Stage
  <1>5. PICK f : f = D!Top OBVIOUS
  <1>6. /\ dstack # <<>> /\ f.name = D!NULL
        /\ Fit(f, Kind(D!Top)) /\ f \in D!Frame /\ f = dstack[Len(dstack)]
        /\ Len(dstack) \in Nat \ {0} /\ Len(dstack) \in 1..Len(dstack)
    BY <1>2, <1>4, <1>5, InsideTop DEF Fit, D!Top, AtMember
  <1>7. CASE D!CloseAfterMember
    BY <1>3, <1>7, ReadClosing DEF D!CloseAfterMember, D!Return, D!Keep
  <1>8. CASE D!Comma
    <2>1. PICK g : g = [fn |-> f.fn, obj |-> f.obj, name |-> f.name, len |-> f.len + 1] OBVIOUS
    <2>2. /\ D!Peek("comma") /\ dstack' = Changed(dstack, g) /\ dpc' = "member"
          /\ UNCHANGED <<downed, dobjDepth, dret, derrorStr>>
      <3>1. [f EXCEPT !.len = f.len + 1] = g BY <1>6, <2>1, SMT DEF D!Frame
      <3>2. [dstack EXCEPT ![Len(dstack)].len = @ + 1]
              = [dstack EXCEPT ![Len(dstack)]
                   = [dstack[Len(dstack)] EXCEPT !.len = dstack[Len(dstack)].len + 1]]
        OBVIOUS
      <3>3. QED BY <1>6, <1>8, <3>1, <3>2 DEF D!Comma, D!Keep, Changed
    <2>3. /\ Document(run)' /\ Cursor' /\ run[dstart]' = l
          /\ Written!Follows(k, "comma", l)
          /\ Counted' <=> dmade' = dmade + 0
      BY <1>1, <1>3, <2>2, Taken DEF Value
    <2>4. l = [open |-> k.open, at |-> IF Written!Inside(k, "ARRAY") THEN "value" ELSE "name"]
      BY <2>3, FollowsWhat
    <2>5. Fit(g, Kind(D!Top))
      <3>1. f.len + 1 \in Nat BY <1>6, SMT DEF D!Frame
      <3>2. QED BY <1>5, <1>6, <2>1, <3>1 DEF Fit, Kind, D!Frame
    <2>6. /\ Nested(k)' /\ dstack' # <<>> /\ D!Top' = g /\ Len(dstack') = Len(dstack)
          /\ \A i \in 1..Len(dstack) : i = Len(dstack) \/ dstack'[i] = dstack[i]
      BY <1>2, <1>6, <2>2, <2>5, ReadChange
    <2>7. Nested(l)' BY <2>4, <2>6 DEF Nested
    <2>8. Stage(l)'
      <3>1. g.len # 0 /\ g.name = D!NULL /\ g.fn = f.fn BY <1>6, <2>1, SMT DEF D!Frame
      <3>2. Written!Inside(k, "ARRAY") <=> f.fn = "array"
        BY <1>2, <1>5, <1>6, InsideTop DEF Kind, Containers
      <3>3. l.at = IF g.fn = "array" THEN "value" ELSE "name" BY <2>4, <3>1, <3>2
      <3>4. AtMember' BY <2>6, <3>1 DEF AtMember
      <3>5. QED BY <1>4, <2>2, <2>6, <3>1, <3>3, <3>4 DEF Stage, D!Locations
    <2>9. Kept'
      <3>1. PICK s, t : s = dstack /\ t = dstack' OBVIOUS
      <3>2. PICK n : n = Len(s) OBVIOUS
      <3>3. /\ Len(t) = n
            /\ \A i \in 1..n : t[i].obj = s[i].obj /\ t[i].name = s[i].name
        BY <1>6, <2>1, <2>6, <3>1, <3>2 DEF D!Top
      <3>4. QED BY <1>2, <1>3, <1>4, <2>2, <3>1, <3>2, <3>3 DEF Kept
    <2>10. Counted'
      <3>1. dmade \in Nat BY <1>2 DEF Kept
      <3>2. QED BY <1>3, <2>3, <3>1, SMT
    <2>11. QED BY <2>3, <2>7, <2>8, <2>9, <2>10 DEF Reading
  <1>9. ~D!BadDelimiter
    <2>1. SUFFICES ASSUME D!BadDelimiter PROVE FALSE OBVIOUS
    <2>2. PICK c \in D!Lexemes \ {"ws", D!Closer, "comma"} : D!Peek(c)
      BY <2>1 DEF D!BadDelimiter
    <2>3. Written!Follows(k, c, l) BY <1>1, <1>2, <1>4, <2>2, ReadLexeme
    <2>4. PICK kind \in Containers : Written!Inside(k, kind) /\ c = Written!Closer(kind)
      BY <1>4, <2>2, <2>3, FollowsWhat
    <2>5. kind = Kind(f) BY <1>2, <1>5, <2>4, InsideTop
    <2>6. c = D!Closer
      BY <1>5, <1>6, <2>4, <2>5 DEF D!Closer, Written!Closer, Kind, D!Frame
    <2>7. QED BY <2>2, <2>6
  <1>10. QED BY <1>7, <1>8, <1>9 DEF D!Delimiter

LEMMA ReadEnd ==
  ASSUME NEW run, Reading(run), UNCHANGED out, D!Epilogue \/ D!Trailing
  PROVE  Reading(run)'
PROOF
  <1>1. PICK k : k = run[dstart] OBVIOUS
  <1>2. Nested(k) /\ Stage(k) /\ Kept /\ Document(run) /\ Cursor BY <1>1 DEF Reading
  <1>3. /\ dpc \in {"return", "trailing"} /\ dstack = <<>> /\ dret # D!NULL /\ k.at = "end"
    BY <1>2 DEF D!Epilogue, D!Trailing, Stage, AtName, After
  <1>4. /\ dpc' \in {"trailing", "done"}
        /\ UNCHANGED <<dinput, dstart, dstack, dret, dobjDepth, derrorStr, dpyErr, dmade, downed>>
    <2>1. CASE D!Epilogue BY <1>2, <2>1 DEF D!Epilogue, Cursor
    <2>2. CASE D!Trailing
      <3>1. ASSUME NEW c, D!Peek(c) PROVE c = "eof" /\ UNCHANGED dinput
        <4>1. ~Written!Follows(k, c, run[dstart + 1]) BY <1>3, FollowsWhat
        <4>2. QED BY <1>1, <1>2, <3>1, <4>1, ReadLexeme
      <3>2. QED BY <2>2, <3>1 DEF D!Trailing, D!Keep
    <2>3. QED BY <2>1, <2>2
  <1>5. Cursor' /\ Nested(k)' /\ Kept' BY <1>2, <1>3, <1>4 DEF Cursor, Nested, Kept
  <1>6. Stage(k)' BY <1>3, <1>4 DEF Stage, D!Locations
  <1>7. Counted' BY <1>4, SameDocument DEF Counted, Reading
  <1>8. QED BY <1>1, <1>2, <1>4, <1>5, <1>6, <1>7, SameDocument DEF Reading

\* Nothing else can happen.
LEMMA ReadOther ==
  ASSUME NEW run, Reading(run),
         \/ D!SkipWhitespace \/ D!DecodeJunkNumber \/ D!DecodeError \/ D!DecodeRaises
         \/ D!Unwind
  PROVE  FALSE
PROOF
  <1>1. PICK k, l : k = run[dstart] /\ l = run[dstart + 1] OBVIOUS
  <1>2. Nested(k) /\ Stage(k) /\ Document(run) /\ Cursor BY <1>1 DEF Reading
  <1>3. ~D!Unwind BY <1>2 DEF Stage, D!Unwind
  <1>4. PICK c : /\ D!Peek(c)
                 /\ \/ c \in {"ws", "junk", "bad", "raise"}
                    \/ /\ dpc = "decode_any"
                       /\ c \in {"rbrack", "rbrace", "comma", "colon", "nul", "eof"}
    BY <1>3 DEF D!SkipWhitespace, D!DecodeJunkNumber, D!DecodeError, D!DecodeRaises
  <1>5. c = dinput[dstart] BY <1>2, <1>4, ReadLexeme
  <1>6. CASE k.at = "end"
    <2>1. c = "eof" BY <1>1, <1>2, <1>4, <1>6, ReadLexeme, FollowsWhat
    <2>2. dpc = "decode_any" BY <1>4, <2>1
    <2>3. QED BY <1>2, <1>6, <2>2 DEF Stage, Written!ValueDue
  <1>7. CASE k.at # "end"
    <2>1. Written!Follows(k, c, l) /\ c \in Lexemes BY <1>1, <1>2, <1>4, <1>7, ReadLexeme
    <2>2. dpc = "decode_any" /\ c \in {"rbrack", "rbrace", "comma", "colon"}
      BY <1>4, <2>1 DEF Lexemes
    <2>3. k.at \in {"value", "first", "name"} /\ (k.at = "first" => c # D!Closer)
      BY <1>2, <1>5, <2>2 DEF Stage, Written!ValueDue
    <2>4. c \notin {"colon", "comma"} BY <2>1, <2>3, FollowsWhat
    <2>5. PICK kind \in Containers : c = Written!Closer(kind)
      BY <2>2, <2>4 DEF Written!Closer, Containers
    <2>6. k.at = "first" /\ Written!Inside(k, kind) BY <2>1, <2>3, <2>5, FollowsWhat
    <2>7. kind = Kind(D!Top) /\ D!Top \in D!Frame BY <1>2, <2>6, InsideTop DEF Fit
    <2>8. c = D!Closer BY <2>5, <2>7 DEF D!Closer, Written!Closer, Kind, D!Frame
    <2>9. QED BY <2>3, <2>6, <2>8
  <1>8. QED BY <1>6, <1>7

LEMMA ReadStep ==
  ASSUME NEW run, Reading(run), UNCHANGED out, D!Step
  PROVE  Reading(run)' \/ Refused'
PROOF
  <1>1. CASE D!DecodeScalar BY <1>1, ReadScalar
  <1>2. ASSUME NEW kind \in Containers, NEW fn, fn = IF kind = "ARRAY" THEN "array" ELSE "object",
               D!Enter(fn, Written!Opener(kind)) \/ D!TooDeep(Written!Opener(kind))
        PROVE  Reading(run)' \/ Refused'
    BY <1>2, ReadOpening
  <1>3. CASE D!Enter("array", "lbrack") \/ D!TooDeep("lbrack")
    <2>1. PICK kind \in Containers : kind = "ARRAY" BY DEF Containers
    <2>2. QED BY <1>2, <1>3, <2>1 DEF Written!Opener
  <1>4. CASE D!Enter("object", "lbrace") \/ D!TooDeep("lbrace")
    <2>1. PICK kind \in Containers : kind = "OBJECT" BY DEF Containers
    <2>2. QED BY <1>2, <1>4, <2>1 DEF Written!Opener
  <1>5. CASE D!CloseAtMember \/ D!BeginMember BY <1>5, ReadMember
  <1>6. CASE D!ArrayAddItem \/ D!GotName \/ D!ObjectAddKey BY <1>6, ReadReturned
  <1>7. CASE D!Colon BY <1>7, ReadColon
  <1>8. CASE D!Delimiter BY <1>8, ReadDelimiter
  <1>9. CASE D!Epilogue \/ D!Trailing BY <1>9, ReadEnd
  <1>10. QED BY <1>1, <1>3, <1>4, <1>5, <1>6, <1>7, <1>8, <1>9, ReadOther DEF D!Step

LEMMA RefusedStep ==
  ASSUME Refused, D!Step
  PROVE  Refused'
PROOF
  <1>1. D!Unwind \/ D!Epilogue
    BY DEF Refused, D!Step, D!SkipWhitespace, D!DecodeScalar, D!DecodeJunkNumber, D!DecodeError,
       D!DecodeRaises, D!Enter, D!TooDeep, D!CloseAtMember, D!BeginMember, D!ArrayAddItem,
       D!GotName, D!Colon, D!ObjectAddKey, D!Delimiter, D!Trailing
  <1>2. QED BY <1>1 DEF Refused, D!Unwind, D!Epilogue

-----------------------------------------------------------------------------
(* How deep the decoder is. *)

Openers == {"lbrack", "lbrace"}
Closers == {"rbrack", "rbrace"}
Weight(c) == IF c \in Openers THEN 1 ELSE IF c \in Closers THEN -1 ELSE 0

LEMMA CountNext ==
  ASSUME NEW n \in Nat \ {0}, NEW cs
  PROVE  /\ Count(n, cs) \in Nat
         /\ Count(n, cs) = Count(n - 1, cs) + (IF out[n] \in cs THEN 1 ELSE 0)
PROOF
  <1>1. PICK m \in Nat : m = n - 1 BY SMT
  <1> DEFINE In(i) == {j \in 1..i : out[j] \in cs}
  <1>2. ASSUME NEW i \in Nat PROVE IsFiniteSet(In(i)) /\ Cardinality(In(i)) \in Nat
    <2>1. IsFiniteSet(1..i) BY FS_Interval, SMT
    <2>2. QED BY <2>1, FS_Subset, FS_CardinalityType
  <1>3. \A j : j \in 1..n <=> j \in 1..m \/ j = n BY <1>1, SMT
  <1>4. n \notin 1..m BY <1>1, SMT
  <1>5. CASE out[n] \in cs
    <2>1. In(n) = In(m) \cup {n} /\ n \notin In(m) BY <1>3, <1>4, <1>5
    <2>2. Cardinality(In(n)) = Cardinality(In(m)) + 1 BY <1>2, <2>1, FS_AddElement
    <2>3. QED BY <1>1, <1>2, <1>5, <2>2 DEF Count
  <1>6. CASE out[n] \notin cs
    <2>1. In(n) = In(m) BY <1>3, <1>6
    <2>2. QED BY <1>1, <1>2, <1>6, <2>1, SMT DEF Count
  <1>7. QED BY <1>5, <1>6

LEMMA DepthNext ==
  ASSUME NEW n \in Nat \ {0}
  PROVE  DepthAt(n) \in Int /\ DepthAt(n) = DepthAt(n - 1) + Weight(out[n])
PROOF
  <1> DEFINE a(i) == Count(i, Openers)
             b(i) == Count(i, Closers)
  <1>1. a(n) \in Nat /\ a(n) = a(n - 1) + (IF out[n] \in Openers THEN 1 ELSE 0)
    BY CountNext
  <1>2. b(n) \in Nat /\ b(n) = b(n - 1) + (IF out[n] \in Closers THEN 1 ELSE 0)
    BY CountNext
  <1>3. a(n - 1) \in Nat /\ b(n - 1) \in Nat
    <2>1. ASSUME NEW cs PROVE Count(0, cs) \in Nat
      <3>1. {j \in 1..0 : out[j] \in cs} = {} BY SMT
      <3>2. QED BY <3>1, FS_EmptySet DEF Count
    <2>2. CASE n = 1
      <3>1. n - 1 = 0 BY <2>2, SMT
      <3>2. QED BY <2>1, <3>1
    <2>3. CASE n # 1
      <3>1. n - 1 \in Nat \ {0} BY <2>3, SMT
      <3>2. QED BY <3>1, CountNext
    <2>4. QED BY <2>2, <2>3
  <1>4. \A i : DepthAt(i) = a(i) - b(i) BY DEF DepthAt, Openers, Closers
  <1>5. out[n] \in Openers => out[n] \notin Closers BY DEF Openers, Closers
  <1> HIDE DEF a, b
  <1>6. DepthAt(n) = a(n) - b(n) /\ DepthAt(n - 1) = a(n - 1) - b(n - 1) BY <1>4
  <1>7. CASE out[n] \in Openers BY <1>1, <1>2, <1>3, <1>5, <1>6, <1>7, SMT DEF Weight
  <1>8. CASE out[n] \in Closers BY <1>1, <1>2, <1>3, <1>5, <1>6, <1>8, SMT DEF Weight
  <1>9. CASE out[n] \notin Openers /\ out[n] \notin Closers
    BY <1>1, <1>2, <1>3, <1>6, <1>9, SMT DEF Weight
  <1>10. QED BY <1>7, <1>8, <1>9

\* objDepth is the depth of the text before the lexeme to be read, and it has
\* been within the limit up to there.
Measured ==
  /\ dobjDepth = DepthAt(dstart - 1)
  /\ \A i \in 1..Len(out) : i < dstart => DepthAt(i) <= MaxDepth

\* A step that meets no error passes no lexeme, or one, which it counts.
LEMMA StepCounts ==
  ASSUME D!Step, UNCHANGED <<derrorStr, dpyErr>>, dpyErr = FALSE, derrorStr = "none",
         dobjDepth \in Nat
  PROVE  \/ UNCHANGED <<dstart, dobjDepth>>
         \/ \E c : /\ D!Peek(c) /\ c # "eof" /\ dstart' = dstart + 1
                   /\ dobjDepth' = dobjDepth + Weight(c)
                   /\ Weight(c) = 1 => ~D!DepthExceeded
PROOF
  <1> DEFINE Passed ==
        \E c : /\ D!Peek(c) /\ c # "eof" /\ dstart' = dstart + 1
               /\ dobjDepth' = dobjDepth + Weight(c)
               /\ Weight(c) = 1 => ~D!DepthExceeded
  <1>1. dobjDepth + 0 = dobjDepth BY SMT
  <1>2. \A x : Weight(x) = 0 \/ x \in Openers \cup Closers BY DEF Weight
  <1>3. CASE D!SkipWhitespace
    <2>1. Weight("ws") = 0 BY DEF Weight, Openers, Closers
    <2>2. QED BY <1>1, <1>3, <2>1 DEF D!SkipWhitespace
  <1>4. CASE D!DecodeScalar
    <2>1. PICK c \in {"str", "atom"} : D!Peek(c) BY <1>4 DEF D!DecodeScalar
    <2>2. Weight(c) = 0 /\ c # "eof" BY <2>1 DEF Weight, Openers, Closers
    <2>3. QED BY <1>1, <1>4, <2>1, <2>2 DEF D!DecodeScalar
  <1>5. CASE D!DecodeJunkNumber \/ D!DecodeError
    BY <1>5 DEF D!DecodeJunkNumber, D!DecodeError
  <1>6. CASE D!DecodeRaises BY <1>6 DEF D!DecodeRaises
  <1>7. ASSUME NEW fn, NEW c \in Openers, D!Enter(fn, c) \/ D!TooDeep(c)
        PROVE  Passed
    <2>1. D!Enter(fn, c) BY <1>7 DEF D!TooDeep, D!SetError
    <2>2. Weight(c) = 1 /\ c # "eof" BY <1>7 DEF Weight, Openers
    <2>3. QED BY <2>1, <2>2 DEF D!Enter
  <1>8. D!Closer \in Closers BY DEF D!Closer, Closers
  <1>9. Weight(D!Closer) = -1 /\ D!Closer # "eof" /\ dobjDepth + (-1) = dobjDepth - 1
    <2>1. PICK c : c = D!Closer OBVIOUS
    <2>2. c \notin Openers /\ c # "eof" BY <1>8, <2>1 DEF Openers, Closers
    <2>3. QED BY <1>8, <2>1, <2>2, SMT DEF Weight
  <1>10. CASE D!CloseAtMember
    <2>1. D!Top.len = 0 BY <1>10 DEF D!CloseAtMember, D!SetError
    <2>2. QED BY <1>9, <1>10, <2>1 DEF D!CloseAtMember
  <1>11. CASE D!BeginMember \/ D!Unwind \/ D!ArrayAddItem \/ D!GotName \/ D!ObjectAddKey
    BY <1>11 DEF D!BeginMember, D!Unwind, D!ArrayAddItem, D!GotName, D!ObjectAddKey
  <1>12. CASE D!Colon
    <2>1. D!Peek("colon") BY <1>12 DEF D!Colon, D!SetError
    <2>2. Weight("colon") = 0 BY DEF Weight, Openers, Closers
    <2>3. QED BY <1>1, <1>12, <2>1, <2>2 DEF D!Colon
  <1>13. CASE D!Delimiter
    <2>1. CASE D!CloseAfterMember BY <1>9, <1>13, <2>1 DEF D!CloseAfterMember, D!Delimiter
    <2>2. CASE D!Comma
      <3>1. Weight("comma") = 0 BY DEF Weight, Openers, Closers
      <3>2. QED BY <1>1, <1>13, <2>2, <3>1 DEF D!Comma, D!Delimiter
    <2>3. ~D!BadDelimiter BY DEF D!BadDelimiter, D!SetError
    <2>4. QED BY <1>13, <2>1, <2>2, <2>3 DEF D!Delimiter
  <1>14. CASE D!Epilogue \/ D!Trailing BY <1>14 DEF D!Epilogue, D!Trailing
  <1>15. "lbrack" \in Openers /\ "lbrace" \in Openers BY DEF Openers
  <1>16. CASE D!Enter("array", "lbrack") \/ D!TooDeep("lbrack") BY <1>7, <1>15, <1>16
  <1>17. CASE D!Enter("object", "lbrace") \/ D!TooDeep("lbrace") BY <1>7, <1>15, <1>17
  <1>18. QED
    BY <1>3, <1>4, <1>5, <1>6, <1>10, <1>11, <1>12, <1>13, <1>14, <1>16, <1>17 DEF D!Step

LEMMA MeasuredStep ==
  ASSUME NEW run, Reading(run), Reading(run)', Measured, UNCHANGED out, D!Step
  PROVE  Measured'
PROOF
  <1>1. /\ Document(run) /\ Cursor /\ Cursor' /\ dobjDepth \in Nat
        /\ Len(out) \in Nat
    BY SMT DEF Reading, Nested, Fits, Document
  <1>2. UNCHANGED <<derrorStr, dpyErr>> BY <1>1 DEF Cursor
  <1>3. \A i : DepthAt(i)' = DepthAt(i) BY DEF DepthAt, Count
  <1>4. CASE UNCHANGED <<dstart, dobjDepth>> BY <1>3, <1>4 DEF Measured
  <1>5. ASSUME NEW c, D!Peek(c), c # "eof", dstart' = dstart + 1,
               dobjDepth' = dobjDepth + Weight(c), Weight(c) = 1 => ~D!DepthExceeded
        PROVE  Measured'
    <2>1. dstart \in 1..Len(out) /\ c = out[dstart] BY <1>1, <1>5, ReadLexeme
    <2>2. PICK n \in Nat \ {0} : n = dstart BY <1>1, <2>1, SMT
    <2>3. DepthAt(n) \in Int /\ DepthAt(n) = DepthAt(n - 1) + Weight(c)
      BY <2>1, <2>2, DepthNext
    <2>4. dobjDepth' = DepthAt(n) BY <1>5, <2>2, <2>3 DEF Measured
    <2>5. n = dstart' - 1 BY <1>5, <2>2, SMT
    <2>6. DepthAt(n) <= MaxDepth
      <3>1. CASE Weight(c) = 1
        <4>1. ~(dobjDepth + 1 > MaxDepth) BY <1>5, <3>1 DEF D!DepthExceeded
        <4>2. QED BY <1>1, <1>5, <2>4, <3>1, <4>1, MaxDepthAssumption, SMT
      <3>2. CASE Weight(c) # 1
        <4>1. Weight(c) \in {0, -1} BY <3>2 DEF Weight
        <4>2. DepthAt(n) <= dobjDepth BY <1>1, <1>5, <2>4, <4>1, SMT
        <4>3. dobjDepth <= MaxDepth
          <5>1. CASE n = 1
            <6>1. dobjDepth = DepthAt(0) BY <2>2, <5>1, SMT DEF Measured
            <6>2. Count(0, Openers) = 0 /\ Count(0, Closers) = 0
              <7>1. \A cs : {j \in 1..0 : out[j] \in cs} = {} BY SMT
              <7>2. QED BY <7>1, FS_EmptySet DEF Count
            <6>3. QED BY <6>1, <6>2, MaxDepthAssumption, SMT DEF DepthAt, Openers, Closers
          <5>2. CASE n # 1
            <6>1. PICK m : m = n - 1 OBVIOUS
            <6>2. m \in 1..Len(out) /\ m < dstart BY <1>1, <2>1, <2>2, <5>2, <6>1, SMT
            <6>3. QED BY <2>2, <6>1, <6>2 DEF Measured
          <5>3. QED BY <5>1, <5>2
        <4>4. QED BY <1>1, <2>3, <4>2, <4>3, MaxDepthAssumption, SMT
      <3>3. QED BY <3>1, <3>2
    <2>7. \A i \in 1..Len(out) : i < dstart' => i < dstart \/ i = n
      BY <1>1, <1>5, <2>2, SMT
    <2>8. QED BY <1>3, <2>4, <2>5, <2>6, <2>7 DEF Measured
  <1>6. QED BY <1>1, <1>2, <1>4, <1>5, StepCounts DEF Cursor

\* When the depth is exceeded it is the depth of the text.
LEMMA MeasuredRefusal ==
  ASSUME NEW run, Reading(run), Measured, UNCHANGED out, D!Step, Refused'
  PROVE  Deeper'
PROOF
  <1>1. Document(run) /\ Cursor /\ dobjDepth \in Nat BY SMT DEF Reading, Nested, Fits
  <1>2. PICK c \in Openers : D!TooDeep(c)
    <2>1. derrorStr' = "depth" /\ derrorStr = "none" BY <1>1 DEF Refused, Cursor
    <2>2. D!TooDeep("lbrack") \/ D!TooDeep("lbrace")
      BY <2>1 DEF D!Step, D!SkipWhitespace, D!DecodeScalar, D!DecodeJunkNumber, D!DecodeError,
         D!DecodeRaises, D!Enter, D!CloseAtMember, D!BeginMember, D!Unwind, D!ArrayAddItem,
         D!GotName, D!Colon, D!ObjectAddKey, D!Delimiter, D!CloseAfterMember, D!Comma,
         D!BadDelimiter, D!Epilogue, D!Trailing, D!SetError, D!Return
    <2>3. QED BY <2>2 DEF Openers
  <1>3. D!Peek(c) /\ c # "eof" /\ dobjDepth + 1 > MaxDepth
    BY <1>2 DEF D!TooDeep, D!DepthExceeded, Openers
  <1>4. dstart \in 1..Len(out) /\ c = out[dstart] BY <1>1, <1>3, ReadLexeme
  <1>5. PICK n \in Nat \ {0} : n = dstart BY <1>1, <1>4, SMT DEF Document
  <1>6. DepthAt(n) = DepthAt(n - 1) + Weight(c) BY <1>4, <1>5, DepthNext
  <1>7. DepthAt(n) > MaxDepth BY <1>2, <1>3, <1>5, <1>6 DEF Measured, Weight
  <1>8. n \in DOMAIN out BY <1>1, <1>4, <1>5, SMT DEF Document
  <1>9. QED BY <1>7, <1>8 DEF Deeper, DepthAt, Count

-----------------------------------------------------------------------------
(* The round trip. *)

\* Until the text is handed over the decoder has not started.
Waiting ==
  /\ dstart = 1 /\ dstack = <<>> /\ dpc = "decode_any" /\ dret = D!NULL /\ dobjDepth = 0
  /\ derrorStr = "none" /\ dpyErr = FALSE /\ dmade = 0 /\ downed = {}

Trip ==
  \/ turn = "dumps" /\ Waiting
  \/ turn = "loads" /\ Measured /\ \E run : Reading(run)
  \/ turn = "loads" /\ Refused /\ Deeper

LEMMA HandoverTrip ==
  ASSUME IInv, Reason, Traced, Waiting, Handover
  PROVE  Trip'
PROOF
  <1>1. pc = "done" /\ ret = "string" /\ turn' = "loads" /\ dinput' = Append(out, "eof")
        /\ UNCHANGED <<out, dstart, dstack, dpc, dret, dobjDepth, derrorStr, dpyErr, dmade, downed>>
    BY DEF Handover, vars
  <1>2. ~errorMsg /\ frames = <<>> BY <1>1 DEF Reason, NullHasReason, IInv, Control
  <1>3. Text = out /\ TextPlace = Place /\ Place.at = "end"
    BY <1>1, <1>2 DEF Text, TextPlace, Place, At
  <1>4. PICK run : Leads(out, run, Place) BY <1>3 DEF Traced
  <1>5. Document(run)' BY <1>1, <1>3, <1>4, SameDocument DEF Leads, Document
  <1>6. run[1] = Written!Beginning BY <1>4 DEF Leads, Written!Run
  <1>7. run[1].open = <<>> /\ run[1].at = "value" BY <1>6 DEF Written!Beginning
  <1>8. PICK k : k = run[1] OBVIOUS
  <1>9. Cursor'
    <2>1. 1 \in 1..Len(out) + 1
      <3>1. Len(out) \in Nat BY <1>4 DEF Leads
      <3>2. QED BY <3>1, SMT
    <2>2. QED BY <1>1, <2>1 DEF Cursor, Waiting
  <1>10. Nested(k)'
    <2>1. Fits(<<>>, <<>>) BY EmptySeq, SMT DEF Fits
    <2>2. Len(<<>>) = 0 BY SMT
    <2>3. QED BY <1>1, <1>7, <1>8, <2>1, <2>2 DEF Nested, Waiting
  <1>11. Stage(k)'
    BY <1>1, <1>7, <1>8 DEF Stage, Waiting, AtName, D!Locations, Written!ValueDue
  <1>12. Kept'
    <2>1. 1..Len(<<>>) = {} BY SMT
    <2>2. QED BY <1>1, <2>1 DEF Kept, Waiting
  <1>13. Counted'
    <2>1. Seen(1)' = {} BY <1>1, <1>4, SMT DEF Seen, Values, Leads
    <2>2. QED BY <1>1, <2>1, FS_EmptySet DEF Counted, Waiting
  <1>14. Reading(run)'
    BY <1>1, <1>5, <1>8, <1>9, <1>10, <1>11, <1>12, <1>13 DEF Reading, Waiting
  <1>15. Measured'
    <2>1. DepthAt(0)' = 0
      <3>1. \A cs : {j \in 1..0 : out'[j] \in cs} = {} BY SMT
      <3>2. \A cs : Count(0, cs)' = 0 BY <3>1, FS_EmptySet DEF Count
      <3>3. QED BY <3>2, SMT DEF DepthAt
    <2>2. dobjDepth' = DepthAt(0)' /\ dstart' = 1 BY <1>1, <2>1 DEF Waiting
    <2>3. \A i \in 1..Len(out') : ~(i < 1) BY <1>1, <1>4, SMT DEF Leads
    <2>4. 1 - 1 = 0 BY SMT
    <2>5. QED BY <2>2, <2>3, <2>4 DEF Measured
  <1>16. QED BY <1>1, <1>14, <1>15 DEF Trip

LEMMA SameReading ==
  ASSUME NEW run, Reading(run), UNCHANGED <<out, loadsVars>>
  PROVE  Reading(run)'
PROOF
  <1>1. PICK k : k = run[dstart] OBVIOUS
  <1>2. UNCHANGED dstart BY DEF loadsVars
  <1>3. Document(run)' /\ \A n : Seen(n)' = Seen(n) BY SameDocument DEF Reading
  <1>4. Cursor' BY DEF Reading, Cursor, loadsVars
  <1>5. Nested(k)' BY <1>1 DEF Reading, Nested, loadsVars
  <1>6. Stage(k)'
    BY <1>1 DEF Reading, Stage, loadsVars, AtName, AtMember, After, D!Top, D!Closer
  <1>7. Kept' BY DEF Reading, Kept, loadsVars
  <1>8. Counted' BY <1>3 DEF Reading, Counted, loadsVars
  <1>9. QED BY <1>1, <1>2, <1>3, <1>4, <1>5, <1>6, <1>7, <1>8 DEF Reading

LEMMA TripInvariant ==
  IInv /\ Reason /\ Traced /\ Trip /\ [RoundTripNext]_allVars => Trip'
PROOF
  <1> SUFFICES ASSUME IInv, Reason, Traced, Trip, [RoundTripNext]_allVars PROVE Trip' OBVIOUS
  <1>1. CASE Dumps
    BY <1>1 DEF Dumps, Trip, Waiting, loadsVars
  <1>2. CASE Handover
    BY <1>2, HandoverTrip DEF Handover, Trip
  <1>3. CASE Loads
    <2>1. UNCHANGED <<turn, out>> /\ D!Step /\ turn = "loads" BY <1>3 DEF Loads, vars
    <2>2. CASE Refused /\ Deeper
      <3>1. Deeper' BY <2>1, <2>2 DEF Deeper, DepthAt, Count
      <3>2. QED BY <2>1, <2>2, <3>1, RefusedStep DEF Trip
    <2>3. CASE Measured /\ \E run : Reading(run)
      <3>1. PICK run : Reading(run) BY <2>3
      <3>2. Reading(run)' \/ Refused' BY <2>1, <3>1, ReadStep
      <3>3. CASE Reading(run)'
        <4>1. Measured' BY <2>1, <2>3, <3>1, <3>3, MeasuredStep
        <4>2. QED BY <2>1, <3>3, <4>1 DEF Trip
      <3>4. CASE Refused'
        <4>1. Deeper' BY <2>1, <2>3, <3>1, <3>4, MeasuredRefusal
        <4>2. QED BY <2>1, <3>4, <4>1 DEF Trip
      <3>5. QED BY <3>2, <3>3, <3>4
    <2>4. QED BY <2>1, <2>2, <2>3 DEF Trip
  <1>4. CASE UNCHANGED allVars
    <2>1. UNCHANGED <<turn, out, loadsVars>> BY <1>4 DEF allVars, vars
    <2>2. CASE turn = "dumps" /\ Waiting BY <2>1, <2>2 DEF Trip, Waiting, loadsVars
    <2>3. (Deeper => Deeper') /\ (Measured => Measured')
      BY <2>1 DEF Deeper, Measured, DepthAt, Count, loadsVars
    <2>4. ASSUME NEW run, turn = "loads", Measured, Reading(run) PROVE Trip'
      BY <2>1, <2>3, <2>4, SameReading DEF Trip
    <2>5. CASE turn = "loads" /\ Refused /\ Deeper
      BY <2>1, <2>3, <2>5 DEF Trip, Refused, loadsVars
    <2>6. QED BY <2>2, <2>4, <2>5 DEF Trip
  <1>5. QED BY <1>1, <1>2, <1>3, <1>4 DEF RoundTripNext, Ended

\* The limits of the two are compared by the text the encoder writes.
Allowed == dpc = "done" /\ Deeper => MaxDepth <= RecursionMax

LEMMA TripReads == Trip => ReadInFull /\ Allowed
PROOF
  <1> SUFFICES ASSUME Trip, dpc = "done" PROVE ReadInFull /\ Allowed
    BY DEF ReadInFull, Allowed
  <1>1. CASE Refused /\ Deeper BY <1>1 DEF ReadInFull, Refused, Allowed
  <1>2. ASSUME NEW run, Reading(run), Measured PROVE ReadInFull /\ Allowed
    <2>1. PICK k : k = run[dstart] OBVIOUS
    <2>2. Stage(k) /\ Kept /\ Counted /\ Document(run) /\ Cursor BY <1>2, <2>1 DEF Reading
    <2>3. dstack = <<>> /\ dret # D!NULL /\ k.at = "end" BY <2>2 DEF Stage
    <2>4. D!Outcome = "value" BY <2>2, <2>3 DEF D!Outcome, Cursor
    <2>5. downed = {dret.ref}
      <3>1. 1..Len(<<>>) = {} BY SMT
      <3>2. QED BY <2>2, <2>3, <3>1 DEF Kept
    <2>6. dstart = Len(out) + 1
      <3>1. dstart \notin 1..Len(out)
        <4>1. SUFFICES ASSUME dstart \in 1..Len(out) PROVE FALSE OBVIOUS
        <4>2. Written!Follows(k, out[dstart], run[dstart + 1])
          BY <2>1, <2>2, <4>1 DEF Document, Written!Run
        <4>3. QED BY <2>3, <4>2, FollowsWhat
      <3>2. Len(out) \in Nat BY <2>2 DEF Document
      <3>3. QED BY <2>2, <3>1, <3>2, SMT DEF Cursor
    <2>7. Seen(dstart) = Values
      <3>1. Len(out) \in Nat /\ Values \subseteq 1..Len(out) BY <2>2 DEF Document, Values
      <3>2. \A i \in 1..Len(out) : i < dstart BY <2>6, <3>1, SMT
      <3>3. QED BY <3>1, <3>2 DEF Seen
    <2>8. dmade = Cardinality(Values) BY <2>2, <2>7 DEF Counted
    <2>9. ~Deeper
      <3>1. ASSUME NEW i \in DOMAIN out PROVE ~(DepthAt(i) > MaxDepth)
        <4>1. i \in 1..Len(out) /\ i < dstart /\ i \in Nat \ {0}
          BY <2>2, <2>6, <3>1, SMT DEF Document
        <4>2. DepthAt(i) <= MaxDepth /\ DepthAt(i) \in Int
          BY <1>2, <4>1, DepthNext DEF Measured
        <4>3. QED BY <4>2, MaxDepthAssumption, SMT
      <3>2. QED BY <3>1 DEF Deeper
    <2>10. QED BY <2>4, <2>5, <2>8, <2>9 DEF ReadInFull, Allowed
  <1>3. CASE Waiting BY <1>3 DEF Waiting
  <1>4. QED BY <1>1, <1>2, <1>3 DEF Trip

LEMMA TripHolds == ASSUME ~IterFails PROVE RoundTripSpec => []Trip
PROOF
  <1>1. Init => Traced
    <2>1. Init => Text = <<>> /\ TextPlace = Written!Beginning
      BY DEF Init, Text, TextPlace, Place, At, Written!Beginning
    <2>2. QED BY <2>1, BeginningTraced
  <1>2. Init => Reason /\ Naming BY DEF Init, Reason, NullHasReason, Naming
  <1>3. RoundTripInit => Init /\ Trip
    BY DEF RoundTripInit, Trip, Waiting, D!Init
  <1>4. [RoundTripNext]_allVars => [Next]_vars
    BY DEF RoundTripNext, Dumps, Handover, Loads, Ended, allVars, Next
  <1>5. IInv /\ Naming /\ [Next]_vars => [Written!Next]_Written!textVars BY NextText
  <1>6. QED
    BY <1>1, <1>2, <1>3, <1>4, <1>5, InitInvariant, NextInvariant, ReasonInvariant,
       NamingInvariant, TracedInvariant, TripInvariant, PTL
    DEF RoundTripSpec

\* loads reads all that dumps returns, and refuses what is nested deeper than
\* its limit, whatever the limits, the values, and the failures of allocations
\* and callbacks on the way.
THEOREM ReadsInFull == ASSUME ~IterFails PROVE RoundTripSpec => []ReadInFull
PROOF BY TripHolds, TripReads, PTL

\* Whatever dumps returns, loads accepts, if its limit is beyond the encoder's.
THEOREM LoadsCorrect ==
  ASSUME ~IterFails, MaxDepth > RecursionMax
  PROVE  RoundTripSpec => []LoadsAccepts
PROOF
  <1>1. ~(MaxDepth <= RecursionMax) BY MaxDepthAssumption, EncoderAssumption, SMT
  <1>2. ReadInFull /\ Allowed => LoadsAccepts BY <1>1 DEF ReadInFull, Allowed, LoadsAccepts
  <1>3. QED BY <1>2, TripHolds, TripReads, PTL
=============================================================================
