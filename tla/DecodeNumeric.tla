--------------------------- MODULE DecodeNumeric ---------------------------
(***************************************************************************)
(* decode_numeric of lib/ultrajsondec.c: the scan of a number, digit by    *)
(* digit, in unsigned 64-bit arithmetic that wraps, and the choice of the  *)
(* callback that makes the Python object.  "NaN", "Infinity" and the words *)
(* of decode_true, decode_false and decode_null, which are compared letter *)
(* by letter in the same way, are included.                                *)
(*                                                                         *)
(* The widths are parameters so that TLC can run a small machine on every  *)
(* text; the theorems of DecodeNumericProofs hold for 32 and 64 bits.      *)
(***************************************************************************)
EXTENDS Integers

CONSTANTS
  HalfInt,     \* 2^31: the values of JSINT32 are -HalfInt..HalfInt-1
  HalfLong,    \* 2^63: the values of JSINT64 are -HalfLong..HalfLong-1
  MaxDigits    \* bound: a sign and MaxDigits digits, or one digit more

ASSUME WidthAssumption ==
  /\ HalfInt \in Nat \ {0}
  /\ HalfLong \in Nat \ {0}
  /\ HalfLong % HalfInt = 0
  /\ MaxDigits \in Nat

ULong == 2 * HalfLong        \* the values of JSUINT64 are 0..ULong-1

Digits == 0..9

\* The words a scalar may spell, with their lengths.
Words == {"true", "false", "null", "NaN", "Infinity"}
WordLength(w) ==
  CASE w = "Infinity" -> 8 [] w = "false" -> 5 [] w = "NaN" -> 3 [] OTHER -> 4

Calls == {"newInt", "newLong", "newUnsignedLong", "newIntegerFromString",
          "newDouble", "word", "SetError"}

VARIABLES
  pc,          \* "begin", "scan", "word" or "done"
  intNeg,      \* 1 or -1
  intValue,    \* the accumulated JSUINT64
  hasError,    \* a multiplication or addition went out of bounds
  offset,      \* offset - ds->start
  word,        \* the word being compared, and
  call,        \* the callback called with
  arg,         \* the argument
  magnitude    \* history: the number the digits read so far denote

vars == <<pc, intNeg, intValue, hasError, offset, word, call, arg, magnitude>>

maxIntValue == IF intNeg = 1 THEN ULong - 1 ELSE HalfLong
overflowLimit == maxIntValue \div 10

TypeOK ==
  /\ pc \in {"begin", "scan", "word", "done"}
  /\ intNeg \in {1, -1}
  /\ intValue \in 0..ULong - 1
  /\ hasError \in BOOLEAN
  /\ offset \in Nat
  /\ word \in Words \cup {"none"}
  /\ call \in Calls \cup {"none"}
  /\ arg \in Int
  /\ magnitude \in Nat

Init ==
  /\ pc = "begin"
  /\ intNeg = 1
  /\ intValue = 0
  /\ hasError = FALSE
  /\ offset = 0
  /\ word = "none"
  /\ call = "none"
  /\ arg = 0
  /\ magnitude = 0

-----------------------------------------------------------------------------
(* Conversions of C. *)

WrapNever(x) == x                 \* variant: an accumulator without a width

Wrap(x) == x % ULong                                            \* (JSUINT64)
ToLong(x) == IF x < HalfLong THEN x ELSE x - ULong              \* (JSINT64)
ToInt(x) == LET low == x % (2 * HalfInt)                        \* (JSINT32)
            IN  IF low < HalfInt THEN low ELSE low - 2 * HalfInt

-----------------------------------------------------------------------------
Minus ==
  /\ pc = "begin" /\ offset = 0
  /\ intNeg' = -1
  /\ offset' = 1
  /\ UNCHANGED <<pc, intValue, hasError, word, call, arg, magnitude>>

BeginScan ==
  /\ pc = "begin"
  /\ pc' = "scan"
  /\ UNCHANGED <<intNeg, intValue, hasError, offset, word, call, arg, magnitude>>

\* 'I' after an optional '-', 'N', and the first letters of the literals.
BeginWord(w) ==
  /\ pc = "begin"
  /\ intNeg = -1 => w = "Infinity"
  /\ pc' = "word"
  /\ word' = w
  /\ offset' = offset + 1
  /\ UNCHANGED <<intNeg, intValue, hasError, call, arg, magnitude>>

\* One comparison *(offset++) != letter.
Letter ==
  /\ pc = "word"
  /\ offset' = offset + 1
  /\ \/ /\ LET read == IF intNeg = -1 THEN offset ELSE offset + 1
           IN  IF read = WordLength(word)
               THEN pc' = "done" /\ call' = "word"
               ELSE UNCHANGED <<pc, call>>
     \/ pc' = "done" /\ call' = "SetError"
  /\ UNCHANGED <<intNeg, intValue, hasError, word, arg, magnitude>>

MultiplicationUnchecked(d) ==     \* variant: only the addition is checked
  /\ intValue' = Wrap(Wrap(intValue * 10) + d)
  /\ hasError' = (hasError \/ Wrap(maxIntValue - Wrap(intValue * 10)) < d)

\* intValue * 10 + d in 64 bits, and whether it was out of bounds.
Accumulate(d) ==
  /\ intValue' = Wrap(Wrap(intValue * 10) + d)
  /\ hasError' = (hasError \/ intValue > overflowLimit
                  \/ Wrap(maxIntValue - Wrap(intValue * 10)) < d)

Digit(d) ==
  /\ pc = "scan"
  /\ offset < MaxDigits + 1
  /\ Accumulate(d)
  /\ magnitude' = magnitude * 10 + d
  /\ offset' = offset + 1
  /\ UNCHANGED <<pc, intNeg, word, call, arg>>

\* '.', 'e' or 'E': the text is parsed again from ds->start by decodeDouble.
Double ==
  /\ pc = "scan" /\ offset > 0
  /\ pc' = "done"
  /\ call' = "newDouble"
  /\ UNCHANGED <<intNeg, intValue, hasError, offset, word, arg, magnitude>>

\* Any other byte, out of bounds: the text between ds->start and offset is
\* handed to PyLong_FromString.
BigInteger ==
  /\ pc = "scan" /\ offset > 0
  /\ hasError
  /\ pc' = "done"
  /\ call' = "newIntegerFromString"
  /\ arg' = intNeg * magnitude
  /\ UNCHANGED <<intNeg, intValue, hasError, offset, word, magnitude>>

MakeNegativeUnsigned ==           \* variant: the sign is not tested first
  IF intValue >= HalfLong
  THEN call' = "newUnsignedLong" /\ arg' = intValue
  ELSE IF intValue >= HalfInt
  THEN call' = "newLong" /\ arg' = ToLong(Wrap(intValue * intNeg))
  ELSE call' = "newInt" /\ arg' = ToInt(Wrap(intValue * intNeg))

\* BREAK_INT_LOOP: the callback of the smallest type.
Make ==
  \/ /\ intNeg = 1 /\ intValue >= HalfLong
     /\ call' = "newUnsignedLong"
     /\ arg' = intValue
  \/ /\ ~(intNeg = 1 /\ intValue >= HalfLong) /\ intValue >= HalfInt
     /\ call' = "newLong"
     /\ arg' = ToLong(Wrap(intValue * intNeg))
  \/ /\ intValue < HalfInt
     /\ call' = "newInt"
     /\ arg' = ToInt(Wrap(intValue * intNeg))

Integer ==
  /\ pc = "scan" /\ offset > 0
  /\ ~hasError
  /\ pc' = "done"
  /\ Make
  /\ UNCHANGED <<intNeg, intValue, hasError, offset, word, magnitude>>

Done == pc = "done" /\ UNCHANGED vars

Next ==
  \/ Minus \/ BeginScan
  \/ \E w \in Words : BeginWord(w)
  \/ Letter
  \/ \E d \in Digits : Digit(d)
  \/ Double \/ BigInteger \/ Integer
  \/ Done

Spec == Init /\ [][Next]_vars

-----------------------------------------------------------------------------
(* Properties. *)

IntegerCalls == {"newInt", "newLong", "newUnsignedLong", "newIntegerFromString"}

\* However many digits follow, hasError says exactly whether the number is
\* beyond what the machine type of its sign can hold, and until then the
\* accumulator is the number although every operation may wrap.
OverflowDetected ==
  pc = "scan" => /\ hasError <=> magnitude > maxIntValue
                 /\ ~hasError => intValue = magnitude

\* ujson.loads of an integer is that integer, for any number of digits, and
\* no callback gets an argument its C type cannot hold.
DecodesExactly ==
  call \in IntegerCalls =>
    /\ arg = intNeg * magnitude
    /\ call = "newInt" => arg \in -HalfInt..HalfInt - 1
    /\ call = "newLong" => arg \in -HalfLong..HalfLong - 1
    /\ call = "newUnsignedLong" => arg \in 0..ULong - 1
=============================================================================
