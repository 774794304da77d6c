-------------------------- MODULE DecodeStringProofs --------------------------
(***************************************************************************)
(* For every text that ends in a NUL and every size of the buffer on the   *)
(* stack: decode_string stays inside the text and the escape buffer, and   *)
(* the buffer is freed.  Where the text is what it is said to be, what is  *)
(* well-formed is decoded to what it says, and what is not is refused.     *)
(***************************************************************************)
EXTENDS DecodeString, SequenceTheorems, TLAPS

\* A call of decode_string has something to read before the NUL.  While it
\* scans, it has read all that is before offset, and written at most one code
\* point per byte; the room for the rest was reserved at its start.
Reading ==
  /\ reach <= End
  /\ pc = "decode_string" => start < End
  /\ pc = "scan" => /\ start <= offset /\ offset <= End
                    /\ Len(esc) <= offset - start
                    /\ End - start <= escLen
  /\ pc = "next" => start <= End
  /\ Len(esc) <= escLen

\* Where lastHighSurrogate is the place reached, the last code point is an
\* escaped high surrogate.
Surrogates ==
  pc = "scan" =>
    /\ lastHigh <= offset
    /\ lastHigh = offset => Len(esc) > 0 /\ IsHigh(esc[Len(esc)])

\* The one block is that of the escape buffer.
Blocks == blocks = IF escHeap /\ pc # "done" THEN 1 ELSE 0

IInv == TypeOK /\ Reading /\ Surrogates /\ Blocks

-----------------------------------------------------------------------------
(* Bytes and code points. *)

LEMMA UnitsAre == ASSUME NEW u PROVE u \in Units <=> u \in Nat /\ u <= MaxUnit
PROOF
  <1>1. MaxUnit \in Nat BY DEF MaxUnit
  <1>2. QED BY <1>1 DEF Units

\* The byte at a place is a byte, and only before the NUL it is not zero.
LEMMA Bytes ==
  ASSUME Constants, text \in Texts, NEW i \in Nat \ {0}
  PROVE  /\ End \in Nat /\ End > 1
         /\ at(i) \in Nat /\ at(i) <= 255
         /\ at(i) # 0 => i < End
PROOF
  <1>1. /\ text.bytes \in Seq(Byte) /\ Len(text.bytes) > 1
        /\ text.bytes[Len(text.bytes)] = 0
    BY DEF Constants
  <1>2. Len(text.bytes) \in Nat BY <1>1
  <1>3. ASSUME i <= Len(text.bytes)
        PROVE  text.bytes[i] \in Nat /\ text.bytes[i] <= 255
    <2>1. text.bytes[i] \in Byte BY <1>1, <1>2, <1>3
    <2>2. QED BY <2>1 DEF Byte
  <1>4. at(i) \in Nat /\ at(i) <= 255 BY <1>3 DEF at
  <1>5. at(i) # 0 => i < End BY <1>1, <1>2 DEF at, End
  <1>6. QED BY <1>1, <1>2, <1>4, <1>5 DEF End

\* The digits of "\uXXXX" are 16 bits, ...
LEMMA ChType ==
  ASSUME Constants, TypeOK, \A i \in 2..5 : IsHex(at(offset + i))
  PROVE  Ch \in Nat /\ Ch <= 65535
PROOF
  <1> DEFINE d(i) == Digit(at(offset + i))
  <1>1. ASSUME NEW i \in 2..5 PROVE d(i) \in Nat /\ d(i) <= 15
    <2>1. at(offset + i) \in 48..57 \cup 65..70 \cup 97..102 BY DEF IsHex
    <2>2. QED BY <2>1 DEF Digit
  <1>2. Ch = ((d(2) * 16 + d(3)) * 16 + d(4)) * 16 + d(5) BY DEF Ch
  <1> HIDE DEF d
  <1>3. /\ d(2) \in Nat /\ d(2) <= 15
        /\ d(3) \in Nat /\ d(3) <= 15
        /\ d(4) \in Nat /\ d(4) <= 15
        /\ d(5) \in Nat /\ d(5) <= 15
    BY <1>1
  <1>4. QED BY <1>2, <1>3

\* ... two surrogates are a code point, ...
LEMMA PairType ==
  ASSUME NEW high \in Nat, NEW low \in Nat, IsHigh(high), IsLow(low)
  PROVE  Pair(high, low) \in Units
PROOF
  BY SMT, UnitsAre DEF Pair, IsHigh, IsLow, MaxUnit

\* ... and so are the bits of a sequence.
LEMMA UcsType ==
  ASSUME Constants, TypeOK, NEW n \in 2..4
  PROVE  Ucs(n) \in Units
PROOF
  <1>1. /\ at(offset) \in Nat /\ at(offset + 1) \in Nat
        /\ at(offset + 2) \in Nat /\ at(offset + 3) \in Nat
    BY Bytes DEF TypeOK
  <1> DEFINE l(m) == Lead(m, at(offset))
             b(i) == Bits(i)
  <1>2. /\ b(1) \in Nat /\ b(1) <= 63
        /\ b(2) \in Nat /\ b(2) <= 63
        /\ b(3) \in Nat /\ b(3) <= 63
    BY <1>1 DEF Bits
  <1>3. /\ l(2) \in Nat /\ l(2) <= 31
        /\ l(3) \in Nat /\ l(3) <= 15
        /\ l(4) \in Nat /\ l(4) <= 7
    BY <1>1 DEF Lead
  <1>4. /\ n = 2 => Ucs(n) = (l(2) * 64) + b(1)
        /\ n = 3 => Ucs(n) = (((l(3) * 64) + b(1)) * 64) + b(2)
        /\ n = 4 => Ucs(n) = (((((l(4) * 64) + b(1)) * 64) + b(2)) * 64) + b(3)
    <2>1. CASE n = 2 BY <2>1 DEF Ucs
    <2>2. CASE n = 3 BY <2>2 DEF Ucs
    <2>3. CASE n = 4 BY <2>3 DEF Ucs
    <2>4. QED BY <2>1, <2>2, <2>3
  <1> HIDE DEF l, b
  <1>5. QED BY <1>2, <1>3, <1>4, UnitsAre, SMT DEF MaxUnit

-----------------------------------------------------------------------------
(* The steps. *)

LEMMA InitInvariant == ASSUME Constants PROVE Init => IInv
PROOF
  <1> SUFFICES ASSUME Init PROVE IInv OBVIOUS
  <1>1. Len(text.bytes) > 1 /\ StackLen \in Nat BY DEF Init, Constants
  <1>2. TypeOK
    <2>1. <<>> \in Seq(Units) /\ <<>> \in Seq(Seq(Units)) OBVIOUS
    <2>2. esc = <<>> /\ decoded = <<>> BY DEF Init, Start
    <2>3. esc \in Seq(Units) /\ decoded \in Seq(Seq(Units)) BY <2>1, <2>2
    <2>4. /\ start = 1 /\ offset = 1 /\ escLen = StackLen /\ blocks = 0
          /\ lastHigh = 0 /\ reach = 1 /\ pc = "decode_string"
          /\ text \in Texts /\ escHeap = FALSE /\ errorStr = "none"
      BY Zenon DEF Init, Start
    <2>5. escHeap \in BOOLEAN BY <2>4
    <2>6. errorStr \in Errors \cup {"none"} BY <2>4
    <2>7. QED BY <1>1, <2>3, <2>4, <2>5, <2>6 DEF TypeOK
  <1>3. Reading BY <1>1 DEF Init, Start, Reading, End
  <1>4. Surrogates BY DEF Init, Start, Surrogates
  <1>5. Blocks BY DEF Init, Start, Blocks
  <1>6. QED BY <1>2, <1>3, <1>4, <1>5 DEF IInv

\* A string is opened: the reservation covers what is left of the text.
LEMMA OpenStep ==
  ASSUME Constants, IInv, OpenFits \/ OpenGrows \/ OpenNoMemory
  PROVE  IInv'
PROOF
  <1>1. End \in Nat /\ End > 1 BY Bytes DEF IInv, TypeOK
  <1>2. End' = End
    BY DEF OpenFits, OpenGrows, OpenNoMemory, SetError, End
  <1> USE DEF IInv
  <1>3. CASE OpenFits
    <2>1. TypeOK' BY <1>3 DEF OpenFits, TypeOK, buffer
    <2>2. Reading' BY <1>1, <1>2, <1>3 DEF OpenFits, TypeOK, Reading, buffer
    <2>3. Surrogates' BY <1>3 DEF OpenFits, TypeOK, Surrogates
    <2>4. Blocks' BY <1>3 DEF OpenFits, Blocks, buffer
    <2>5. QED BY <2>1, <2>2, <2>3, <2>4
  <1>4. CASE OpenGrows
    <2>1. TypeOK' BY <1>1, <1>4 DEF OpenGrows, TypeOK
    <2>2. Reading' BY <1>1, <1>2, <1>4 DEF OpenGrows, TypeOK, Reading
    <2>3. Surrogates' BY <1>4 DEF OpenGrows, TypeOK, Surrogates
    <2>4. Blocks' BY <1>4 DEF OpenGrows, Blocks
    <2>5. QED BY <2>1, <2>2, <2>3, <2>4
  <1>5. CASE OpenNoMemory
    <2>1. TypeOK' BY <1>5 DEF OpenNoMemory, SetError, TypeOK, Errors, buffer
    <2>2. Reading' BY <1>2, <1>5 DEF OpenNoMemory, SetError, TypeOK, Reading, buffer
    <2>3. Surrogates' BY <1>5 DEF OpenNoMemory, SetError, Surrogates
    <2>4. Blocks' BY <1>5 DEF OpenNoMemory, SetError, Blocks, buffer
    <2>5. QED BY <2>1, <2>2, <2>3, <2>4
  <1>6. QED BY <1>3, <1>4, <1>5

\* An error leaves the string where it is, having looked no further than the
\* first byte that is not as it should be.
LEMMA ErrorStep ==
  ASSUME Constants, IInv, pc = "scan",
         NEW msg \in Errors, NEW i \in Nat \ {0}, i <= End,
         SetError(msg), Reads(i), UNCHANGED buffer
  PROVE  IInv'
PROOF
  <1>1. End \in Nat BY Bytes DEF IInv, TypeOK
  <1>2. End' = End BY DEF SetError, End
  <1>3. TypeOK' BY DEF IInv, SetError, Reads, TypeOK, buffer
  <1>4. Reading' BY <1>1, <1>2 DEF IInv, SetError, Reads, TypeOK, Reading, buffer
  <1>5. Surrogates' BY DEF IInv, SetError, Surrogates
  <1>6. Blocks' BY DEF IInv, SetError, Blocks, buffer
  <1>7. QED BY <1>3, <1>4, <1>5, <1>6 DEF IInv

\* A code point takes at least a byte, none of which is the NUL.
LEMMA EmitStep ==
  ASSUME Constants, IInv, pc = "scan",
         NEW n \in 1..4, NEW unit \in Units, at(offset + n - 1) # 0,
         Emit(n, unit), UNCHANGED lastHigh
  PROVE  IInv'
PROOF
  <1>1. /\ End \in Nat /\ offset + n - 1 < End
        /\ offset \in Nat \ {0}
    BY Bytes DEF IInv, TypeOK
  <1>2. End' = End BY DEF Emit, End
  <1>3. esc \in Seq(Units) /\ Len(esc) \in Nat BY DEF IInv, TypeOK
  <1>4. /\ esc' = Append(esc, unit) /\ esc' \in Seq(Units)
        /\ Len(esc') = Len(esc) + 1
    BY <1>3 DEF Emit
  <1>5. TypeOK' BY <1>1, <1>4 DEF IInv, Emit, Reads, TypeOK, buffer
  <1>6. Reading'
    BY <1>1, <1>2, <1>3, <1>4 DEF IInv, Emit, Reads, TypeOK, Reading, buffer
  <1>7. Surrogates' BY <1>1 DEF IInv, TypeOK, Emit, Surrogates
  <1>8. Blocks' BY DEF IInv, Emit, Blocks, buffer
  <1>9. QED BY <1>5, <1>6, <1>7, <1>8 DEF IInv

\* A low surrogate takes the place of the high one that it follows.
LEMMA UnicodeEscapeStep ==
  ASSUME Constants, IInv, UnicodeEscape
  PROVE  IInv'
PROOF
  <1>1. /\ pc = "scan" /\ \A i \in 2..5 : IsHex(at(offset + i))
    BY DEF UnicodeEscape, Case
  <1>2. offset \in Nat \ {0} BY DEF IInv, TypeOK
  <1>3. End \in Nat /\ offset + 5 < End
    <2>1. IsHex(at(offset + 5)) BY <1>1
    <2>2. at(offset + 5) # 0 BY <2>1 DEF IsHex
    <2>3. QED BY <2>2, <1>2, Bytes DEF IInv, TypeOK
  <1>4. End' = End BY DEF UnicodeEscape, End
  <1>5. Ch \in Nat /\ Ch <= 65535 BY <1>1, ChType DEF IInv
  <1>6. esc \in Seq(Units) /\ Len(esc) \in Nat BY DEF IInv, TypeOK
  <1>7. /\ esc' \in Seq(Units)
        /\ Len(esc') <= Len(esc) + 1
        /\ IsHigh(Ch) => Len(esc') > 0 /\ esc'[Len(esc')] = Ch
    <2>1. CASE IsLow(Ch) /\ lastHigh = offset
      <3>1. Len(esc) > 0 /\ IsHigh(esc[Len(esc)])
        BY <2>1, <1>1 DEF IInv, Surrogates
      <3>2. Pair(esc[Len(esc)], Ch) \in Units BY <2>1, <3>1, <1>5, <1>6, UnitsAre, PairType
      <3>3. esc' = [esc EXCEPT ![Len(esc)] = Pair(esc[Len(esc)], Ch)]
        BY <2>1 DEF UnicodeEscape
      <3>4. esc' \in Seq(Units) /\ Len(esc') = Len(esc)
        <4>1. ASSUME NEW s \in Seq(Units), NEW u \in Units, Len(s) > 0
              PROVE  /\ [s EXCEPT ![Len(s)] = u] \in Seq(Units)
                     /\ Len([s EXCEPT ![Len(s)] = u]) = Len(s)
          BY <4>1
        <4>2. QED BY <3>1, <3>2, <3>3, <4>1, <1>6
      <3>5. ~IsHigh(Ch) BY <2>1, <1>5 DEF IsHigh, IsLow
      <3>6. QED BY <3>4, <3>5, <1>6
    <2>2. CASE ~(IsLow(Ch) /\ lastHigh = offset)
      <3>1. esc' = Append(esc, Ch) BY <2>2 DEF UnicodeEscape
      <3>2. Ch \in Units BY <1>5, UnitsAre DEF MaxUnit
      <3>3. QED BY <3>1, <3>2, <1>6
    <2>3. QED BY <2>1, <2>2
  <1>8. TypeOK'
    BY <1>2, <1>7 DEF IInv, UnicodeEscape, Reads, TypeOK, buffer
  <1>9. Reading'
    BY <1>1, <1>2, <1>3, <1>4, <1>6, <1>7
       DEF IInv, UnicodeEscape, Reads, TypeOK, Reading, buffer
  <1>10. Surrogates'
    <2>1. lastHigh \in Nat /\ lastHigh <= offset BY <1>1 DEF IInv, TypeOK, Surrogates
    <2>2. offset' = offset + 6 BY DEF UnicodeEscape
    <2>3. CASE IsHigh(Ch)
      <3>1. lastHigh' = offset + 6 BY <2>3 DEF UnicodeEscape
      <3>2. Len(esc') > 0 /\ IsHigh(esc'[Len(esc')]) BY <2>3, <1>7
      <3>3. QED BY <1>2, <2>2, <3>1, <3>2 DEF Surrogates, IsHigh
    <2>4. CASE ~IsHigh(Ch)
      <3>1. lastHigh' = lastHigh BY <2>4 DEF UnicodeEscape
      <3>2. QED BY <1>2, <2>1, <2>2, <3>1 DEF Surrogates
    <2>5. QED BY <2>3, <2>4
  <1>11. Blocks' BY DEF IInv, UnicodeEscape, Blocks, buffer
  <1>12. QED BY <1>8, <1>9, <1>10, <1>11 DEF IInv

\* What is not the NUL can be passed over.
LEMMA Passed ==
  ASSUME Constants, IInv, NEW c \in {"DS_ISQUOTE", "DS_ISESCAPE", "1", "2", "3", "4"}, Case(c)
  PROVE  /\ pc = "scan" /\ offset \in Nat \ {0}
         /\ End \in Nat /\ offset < End
PROOF
  <1>1. pc = "scan" /\ Lookup(at(offset)) = c BY Zenon DEF Case
  <1>2. at(offset) # 0 BY <1>1 DEF Lookup
  <1>3. QED BY <1>1, <1>2, Bytes DEF IInv, TypeOK

LEMMA QuoteStep == ASSUME Constants, IInv, Quote PROVE IInv'
PROOF
  <1>1. Case("DS_ISQUOTE") BY DEF Quote
  <1>2. offset \in Nat \ {0} /\ End \in Nat /\ offset < End BY <1>1, Passed
  <1>3. End' = End BY DEF Quote, End
  <1>4. decoded' \in Seq(Seq(Units)) BY DEF IInv, TypeOK, Quote
  <1>5. TypeOK' BY <1>2, <1>4 DEF IInv, Quote, Reads, TypeOK, buffer
  <1>6. Reading' BY <1>2, <1>3 DEF IInv, Quote, Reads, TypeOK, Reading, buffer
  <1>7. Surrogates' BY DEF IInv, Quote, Surrogates
  <1>8. Blocks' BY <1>1 DEF IInv, Quote, Blocks, buffer, Case
  <1>9. QED BY <1>5, <1>6, <1>7, <1>8 DEF IInv

\* The first bad digit of "\u" is preceded by bytes that are not the NUL.
LEMMA BadUnicodeEscapeStep == ASSUME Constants, IInv, BadUnicodeEscape PROVE IInv'
PROOF
  <1>1. /\ Case("DS_ISESCAPE") /\ at(offset + 1) = 117
        /\ SetError("escape") /\ UNCHANGED buffer
    BY DEF BadUnicodeEscape
  <1>2. PICK i \in 2..5 : BadDigit(i) /\ Reads(offset + i)
    BY DEF BadUnicodeEscape
  <1>3. pc = "scan" /\ offset \in Nat \ {0} /\ End \in Nat BY <1>1, Passed
  <1>4. at(offset + (i - 1)) # 0
    <2>1. CASE i = 2 BY <2>1, <1>1
    <2>2. CASE i # 2
      <3>1. i - 1 \in 2..i - 1 BY <2>2
      <3>2. IsHex(at(offset + (i - 1))) BY <3>1, <1>2 DEF BadDigit
      <3>3. QED BY <3>2 DEF IsHex
    <2>3. QED BY <2>1, <2>2
  <1>5. offset + i <= End
    <2>1. offset + (i - 1) \in Nat \ {0} BY <1>3
    <2>2. offset + (i - 1) < End BY <2>1, <1>4, Bytes DEF IInv, TypeOK
    <2>3. QED BY <2>2, <1>3
  <1>6. "escape" \in Errors BY DEF Errors
  <1>7. QED BY <1>1, <1>2, <1>3, <1>5, <1>6, ErrorStep

\* Neither is any byte of a sequence that has its octets.
LEMMA SequenceStep ==
  ASSUME Constants, IInv, NEW n \in 2..4, NEW c \in {"2", "3", "4"},
         Sequence(n, c) \/ Overlong(n, c) \/ BadOctet(n, c)
  PROVE  IInv'
PROOF
  <1>1. Case(c) BY DEF Sequence, Overlong, BadOctet
  <1>2. pc = "scan" /\ offset \in Nat \ {0} /\ End \in Nat /\ offset < End
    BY <1>1, Passed
  <1>3. CASE Sequence(n, c) \/ Overlong(n, c)
    <2>1. IsOctet(at(offset + (n - 1)))
      BY <1>3 DEF Sequence, Overlong
    <2>2. at(offset + (n - 1)) # 0 BY <2>1 DEF IsOctet
    <2>3. /\ offset + (n - 1) \in Nat \ {0} /\ offset + (n - 1) = offset + n - 1
      BY <1>2
    <2>4. offset + n - 1 < End BY <2>2, <2>3, Bytes DEF IInv, TypeOK
    <2>5. CASE Sequence(n, c)
      <3>1. Emit(n, Ucs(n)) /\ UNCHANGED lastHigh BY <2>5 DEF Sequence
      <3>2. Ucs(n) \in Units BY UcsType DEF IInv
      <3>3. n \in 1..4 OBVIOUS
      <3>4. QED BY <1>2, <2>2, <2>3, <3>1, <3>2, <3>3, EmitStep
    <2>6. CASE Overlong(n, c)
      <3>1. /\ SetError("overlong") /\ Reads(offset + n - 1) /\ UNCHANGED buffer
        BY <2>6 DEF Overlong
      <3>2. "overlong" \in Errors BY DEF Errors
      <3>3. QED BY <1>2, <2>3, <2>4, <3>1, <3>2, ErrorStep
    <2>7. QED BY <1>3, <2>5, <2>6
  <1>4. CASE BadOctet(n, c)
    <2>1. PICK i \in 1..n - 1 :
            /\ \A j \in 1..i - 1 : IsOctet(at(offset + j))
            /\ Reads(offset + i)
      BY <1>4 DEF BadOctet
    <2>2. SetError("octet") /\ UNCHANGED buffer BY <1>4 DEF BadOctet
    <2>3. offset + i <= End
      <3>1. CASE i = 1 BY <3>1, <1>2
      <3>2. CASE i # 1
        <4>1. IsOctet(at(offset + (i - 1))) BY <3>2, <2>1
        <4>2. at(offset + (i - 1)) # 0 BY <4>1 DEF IsOctet
        <4>3. offset + (i - 1) \in Nat \ {0} BY <1>2
        <4>4. offset + (i - 1) < End BY <4>2, <4>3, Bytes DEF IInv, TypeOK
        <4>5. QED BY <4>4, <1>2
      <3>3. QED BY <3>1, <3>2
    <2>4. "octet" \in Errors BY DEF Errors
    <2>5. offset + i \in Nat \ {0} BY <1>2
    <2>6. QED BY <1>2, <2>1, <2>2, <2>3, <2>4, <2>5, ErrorStep
  <1>5. QED BY <1>3, <1>4

LEMMA ScanStep == ASSUME Constants, IInv, Scan PROVE IInv'
PROOF
  <1>1. offset \in Nat \ {0} BY DEF IInv, TypeOK
  <1>2. CASE Quote BY <1>2, QuoteStep
  <1>3. CASE NotAString
    <2>1. Case("DS_ISQUOTE") /\ SetError("range") /\ Reads(offset) /\ UNCHANGED buffer
      BY <1>3 DEF NotAString
    <2>2. pc = "scan" /\ offset <= End BY <2>1, Passed
    <2>3. "range" \in Errors BY DEF Errors
    <2>4. QED BY <1>1, <2>1, <2>2, <2>3, ErrorStep
  <1>4. CASE Unmatched
    <2>1. PICK msg \in {"unmatched", "length"} : SetError(msg)
      BY <1>4 DEF Unmatched
    <2>2. pc = "scan" /\ Reads(offset) /\ UNCHANGED buffer
      BY <1>4 DEF Unmatched, Case
    <2>3. offset <= End BY <2>2 DEF IInv, Reading
    <2>4. msg \in Errors BY DEF Errors
    <2>5. QED BY <1>1, <2>1, <2>2, <2>3, <2>4, ErrorStep
  <1>5. CASE Plain
    <2>1. Case("1") /\ Emit(1, at(offset)) /\ UNCHANGED lastHigh BY <1>5 DEF Plain
    <2>2. pc = "scan" /\ at(offset) # 0 BY <2>1 DEF Case, Lookup
    <2>3. at(offset) \in Units BY <1>1, Bytes, UnitsAre DEF IInv, TypeOK, MaxUnit
    <2>4. at(offset + 1 - 1) # 0 BY <1>1, <2>2
    <2>5. QED BY <2>1, <2>2, <2>3, <2>4, EmitStep
  <1>6. CASE Escape
    <2>1. /\ Case("DS_ISESCAPE") /\ at(offset + 1) \in Simple
          /\ Emit(2, Escaped(at(offset + 1))) /\ UNCHANGED lastHigh
      BY <1>6 DEF Escape
    <2>2. pc = "scan" BY <2>1 DEF Case
    <2>3. at(offset + 1) # 0 /\ Escaped(at(offset + 1)) \in Units
      BY <2>1, UnitsAre DEF Simple, Escaped, MaxUnit
    <2>4. at(offset + 2 - 1) # 0 BY <1>1, <2>3
    <2>5. QED BY <2>1, <2>2, <2>3, <2>4, EmitStep
  <1>7. CASE BadEscape
    <2>1. /\ Case("DS_ISESCAPE") /\ SetError("escape")
          /\ Reads(offset + 1) /\ UNCHANGED buffer
      BY <1>7 DEF BadEscape
    <2>2. pc = "scan" /\ offset + 1 <= End BY <2>1, Passed
    <2>3. "escape" \in Errors BY DEF Errors
    <2>4. QED BY <1>1, <2>1, <2>2, <2>3, ErrorStep
  <1>8. CASE UnicodeEscape BY <1>8, UnicodeEscapeStep
  <1>9. CASE BadUnicodeEscape BY <1>9, BadUnicodeEscapeStep
  <1>10. ASSUME NEW s \in {<<2, "2">>, <<3, "3">>, <<4, "4">>},
                Sequence(s[1], s[2]) \/ Overlong(s[1], s[2]) \/ BadOctet(s[1], s[2])
         PROVE  IInv'
    <2>1. s[1] \in 2..4 /\ s[2] \in {"2", "3", "4"} OBVIOUS
    <2>2. QED BY <2>1, <1>10, SequenceStep
  <1>11. QED
    BY <1>2, <1>3, <1>4, <1>5, <1>6, <1>7, <1>8, <1>9, <1>10 DEF Scan

\* The rest of the text, and the end.
LEMMA RestStep ==
  ASSUME Constants, IInv, NextString \/ FreeBuffer \/ UNCHANGED vars
  PROVE  IInv'
PROOF
  <1>1. End' = End BY DEF NextString, FreeBuffer, vars, End
  <1>2. CASE NextString
    <2>1. start \in Nat \ {0} /\ End \in Nat BY Bytes DEF IInv, TypeOK
    <2>2. at(start + 1) = 34 => start + 1 < End BY <2>1, Bytes DEF IInv, TypeOK
    <2>3. TypeOK' BY <1>2 DEF IInv, NextString, TypeOK, buffer
    <2>4. Reading' BY <1>1, <1>2, <2>1, <2>2 DEF IInv, NextString, TypeOK, Reading, buffer
    <2>5. Surrogates' BY <1>2 DEF IInv, NextString, Surrogates
    <2>6. Blocks' BY <1>2 DEF IInv, NextString, Blocks, buffer
    <2>7. QED BY <2>3, <2>4, <2>5, <2>6 DEF IInv
  <1>3. CASE FreeBuffer
    <2>1. blocks' = 0 BY <1>3 DEF IInv, FreeBuffer, Blocks
    <2>2. TypeOK' BY <1>3, <2>1 DEF IInv, FreeBuffer, TypeOK
    <2>3. Reading' BY <1>1, <1>3 DEF IInv, FreeBuffer, Reading
    <2>4. Surrogates' BY <1>3 DEF IInv, FreeBuffer, Surrogates
    <2>5. Blocks' BY <1>3, <2>1 DEF FreeBuffer, Blocks
    <2>6. QED BY <2>2, <2>3, <2>4, <2>5 DEF IInv
  <1>4. CASE UNCHANGED vars
    <2>1. TypeOK' BY <1>4 DEF IInv, TypeOK, vars
    <2>2. Reading' BY <1>1, <1>4 DEF IInv, Reading, vars
    <2>3. Surrogates' BY <1>4 DEF IInv, Surrogates, vars
    <2>4. Blocks' BY <1>4 DEF IInv, Blocks, vars
    <2>5. QED BY <2>1, <2>2, <2>3, <2>4 DEF IInv
  <1>5. QED BY <1>2, <1>3, <1>4

LEMMA NextInvariant == ASSUME Constants PROVE IInv /\ [Next]_vars => IInv'
PROOF
  BY OpenStep, ScanStep, RestStep DEF Next, Step, Done

LEMMA Invariance == ASSUME Constants PROVE Spec => []IInv
PROOF
  BY InitInvariant, NextInvariant, PTL DEF Spec

-----------------------------------------------------------------------------
\* The variables of decode_string have their types: in particular what it
\* writes is never more than 21 bits, surrogates put together included.
THEOREM TypeCorrect == ASSUME Constants PROVE Spec => []TypeOK
PROOF
  <1>1. IInv => TypeOK BY DEF IInv
  <1>2. QED BY Invariance, <1>1, PTL

\* Whatever the bytes before the NUL and the size of the buffer on the stack,
\* nothing is written outside the escape buffer or read behind the NUL.
THEOREM InsideCorrect == ASSUME Constants PROVE Spec => []StaysInside
PROOF
  <1>1. IInv => StaysInside BY DEF IInv, Reading, StaysInside
  <1>2. QED BY Invariance, <1>1, PTL

\* The escape buffer has at most one block, which every way out frees.
THEOREM FreedCorrect == ASSUME Constants PROVE Spec => []BufferFreed
PROOF
  <1>1. IInv => BufferFreed BY DEF IInv, Blocks, BufferFreed
  <1>2. QED BY Invariance, <1>1, PTL

-----------------------------------------------------------------------------
(* The arithmetic of UTF-8. *)

LEMMA Between ==
  ASSUME NEW a \in Int, NEW b \in Int, NEW u \in Int
  PROVE  u \in a..b <=> a <= u /\ u <= b
OBVIOUS

\* The four forms.
LEMMA Forms ==
  ASSUME NEW u \in Nat
  PROVE  /\ u < 128 => Utf8(u) = <<u>>
         /\ 128 <= u /\ u <= 2047 => Utf8(u) = <<192 + (u \div 64), Octet(u, 1)>>
         /\ 2048 <= u /\ u <= 65535 =>
              Utf8(u) = <<224 + (u \div 4096), Octet(u, 64), Octet(u, 1)>>
         /\ 65536 <= u =>
              Utf8(u) = <<240 + (u \div 262144), Octet(u, 4096), Octet(u, 64), Octet(u, 1)>>
         /\ Octet(u, 1) = 128 + (u % 64)
PROOF
  <1>1. u \div 1 = u BY SMT
  <1>2. Octet(u, 1) = 128 + (u % 64) BY <1>1 DEF Octet
  <1>3. CASE u < 128
    <2>1. Utf8(u) = <<u>> BY <1>3 DEF Utf8
    <2>2. QED BY <1>2, <1>3, <2>1, SMT
  <1>4. CASE 128 <= u /\ u <= 2047
    <2>1. ~(u < 128) /\ u < 2048 BY <1>4
    <2>2. Utf8(u) = <<192 + (u \div 64), Octet(u, 1)>> BY <2>1 DEF Utf8
    <2>3. QED BY <1>2, <1>4, <2>2, SMT
  <1>5. CASE 2048 <= u /\ u <= 65535
    <2>1. ~(u < 128) /\ ~(u < 2048) /\ u < 65536 BY <1>5
    <2>2. Utf8(u) = <<224 + (u \div 4096), Octet(u, 64), Octet(u, 1)>> BY <2>1 DEF Utf8
    <2>3. QED BY <1>2, <1>5, <2>2, SMT
  <1>6. CASE 65536 <= u
    <2>1. ~(u < 128) /\ ~(u < 2048) /\ ~(u < 65536) BY <1>6
    <2>2. Utf8(u) = <<240 + (u \div 262144), Octet(u, 4096), Octet(u, 64), Octet(u, 1)>>
      BY <2>1 DEF Utf8
    <2>3. QED BY <1>2, <1>6, <2>2, SMT
  <1>7. QED BY <1>3, <1>4, <1>5, <1>6

LEMMA TwoBytes ==
  ASSUME NEW u \in Nat, 128 <= u, u <= 2047
  PROVE  \E a, b \in Nat :
           /\ Utf8(u) = <<a, b>> /\ Len(Utf8(u)) = 2
           /\ 192 <= a /\ a <= 223 /\ 128 <= b /\ b <= 191
           /\ ((a % 32) * 64) + (b % 64) = u
PROOF
  <1> DEFINE a == 192 + (u \div 64)
             b == 128 + (u % 64)
  <1>1. Utf8(u) = <<a, b>>
    BY Forms DEF Octet
  <1>2. PICK q, r : q = u \div 64 /\ r = u % 64 OBVIOUS
  <1>3. q \in Nat /\ r \in Nat /\ r <= 63 /\ u = (q * 64) + r /\ 2 <= q /\ q <= 31 BY <1>2, SMT
  <1>4. a = 192 + q /\ b = 128 + r BY <1>2
  <1>5. (192 + q) % 32 = q BY <1>3, SMT
  <1>6. (128 + r) % 64 = r BY <1>3, SMT
  <1>7. Len(Utf8(u)) = 2 BY <1>1
  <1> HIDE DEF a, b
  <1>8. QED BY <1>1, <1>3, <1>4, <1>5, <1>6, <1>7

LEMMA ThreeBytes ==
  ASSUME NEW u \in Nat, 2048 <= u, u <= 65535
  PROVE  \E a, b, c \in Nat :
           /\ Utf8(u) = <<a, b, c>> /\ Len(Utf8(u)) = 3
           /\ 224 <= a /\ a <= 239 /\ 128 <= b /\ b <= 191 /\ 128 <= c /\ c <= 191
           /\ ((((a % 16) * 64) + (b % 64)) * 64) + (c % 64) = u
PROOF
  <1> DEFINE a == 224 + (u \div 4096)
             b == 128 + ((u \div 64) % 64)
             c == 128 + (u % 64)
  <1>1. Utf8(u) = <<a, b, c>>
    BY Forms DEF Octet
  <1>2. PICK h, q, r : h = u \div 4096 /\ q = (u \div 64) % 64 /\ r = u % 64 OBVIOUS
  <1>3. PICK v : v = u \div 64 OBVIOUS
  <1>4. v \in Nat /\ u = (v * 64) + r /\ r \in Nat /\ r <= 63 BY <1>2, <1>3, SMT
  <1>5. h = v \div 64 BY <1>2, <1>3, SMT
  <1>6. h \in Nat /\ q \in Nat /\ q <= 63 /\ v = (h * 64) + q BY <1>2, <1>3, <1>4, <1>5, SMT
  <1>7. h <= 15 BY <1>4, <1>6, SMT
  <1>8. a = 224 + h /\ b = 128 + q /\ c = 128 + r BY <1>2
  <1>9. (224 + h) % 16 = h BY <1>6, <1>7, SMT
  <1>10. (128 + r) % 64 = r BY <1>4, SMT
  <1>11. (128 + q) % 64 = q BY <1>6, SMT
  <1>12. Len(Utf8(u)) = 3 BY <1>1
  <1> HIDE DEF a, b, c
  <1>13. QED BY <1>1, <1>4, <1>6, <1>7, <1>8, <1>9, <1>10, <1>11, <1>12

LEMMA FourBytes ==
  ASSUME NEW u \in Nat, 65536 <= u, u <= MaxCodePoint
  PROVE  \E a, b, c, d \in Nat :
           /\ Utf8(u) = <<a, b, c, d>> /\ Len(Utf8(u)) = 4
           /\ 240 <= a /\ a <= 244 /\ 128 <= b /\ b <= 191 /\ 128 <= c /\ c <= 191
           /\ 128 <= d /\ d <= 191
           /\ ((((((a % 8) * 64) + (b % 64)) * 64) + (c % 64)) * 64) + (d % 64) = u
PROOF
  <1> DEFINE a == 240 + (u \div 262144)
             b == 128 + ((u \div 4096) % 64)
             c == 128 + ((u \div 64) % 64)
             d == 128 + (u % 64)
  <1>1. Utf8(u) = <<a, b, c, d>>
    BY Forms DEF Octet
  <1>2. PICK g, h, q, r : /\ g = u \div 262144 /\ h = (u \div 4096) % 64
                          /\ q = (u \div 64) % 64 /\ r = u % 64
    OBVIOUS
  <1>3. PICK v, w : v = u \div 64 /\ w = v \div 64 OBVIOUS
  <1>4. v \in Nat /\ u = (v * 64) + r /\ r \in Nat /\ r <= 63 BY <1>2, <1>3, SMT
  <1>5. w \in Nat /\ v = (w * 64) + q /\ q \in Nat /\ q <= 63 BY <1>2, <1>3, <1>4, SMT
  <1>6. w = u \div 4096 BY <1>3, SMT
  <1>7. g = w \div 64
    <2>1. u \div 262144 = (u \div 4096) \div 64 BY SMT
    <2>2. QED BY <2>1, <1>2, <1>6
  <1>8. g \in Nat /\ h \in Nat /\ h <= 63 /\ w = (g * 64) + h BY <1>2, <1>5, <1>6, <1>7, SMT
  <1>9. g <= 4 BY <1>4, <1>5, <1>8, SMT DEF MaxCodePoint
  <1>10. a = 240 + g /\ b = 128 + h /\ c = 128 + q /\ d = 128 + r BY <1>2
  <1>11. (240 + g) % 8 = g BY <1>8, <1>9, SMT
  <1>12. (128 + h) % 64 = h BY <1>8, SMT
  <1>13. (128 + q) % 64 = q BY <1>5, SMT
  <1>14. (128 + r) % 64 = r BY <1>4, SMT
  <1>15. Len(Utf8(u)) = 4 BY <1>1
  <1> HIDE DEF a, b, c, d
  <1>16. QED
    BY <1>1, <1>4, <1>5, <1>8, <1>9, <1>10, <1>11, <1>12, <1>13, <1>14, <1>15

\* \uXXXX: the bytes of a digit are those of its number.
LEMMA DigitOf ==
  ASSUME NEW d \in Nat, d <= 15, NEW b \in Digits(d)
  PROVE  b \in Nat /\ b # 0 /\ IsHex(b) /\ Digit(b) = d
PROOF
  <1>1. (b = 48 + d /\ d < 10) \/ (b \in {55 + d, 87 + d} /\ ~(d < 10)) BY DEF Digits
  <1>2. CASE b = 48 + d /\ d < 10 BY <1>2, SMT DEF IsHex, Digit
  <1>3. CASE b = 55 + d /\ ~(d < 10) BY <1>3, SMT DEF IsHex, Digit
  <1>4. CASE b = 87 + d /\ ~(d < 10) BY <1>4, SMT DEF IsHex, Digit
  <1>5. QED BY <1>1, <1>2, <1>3, <1>4

LEMMA NotADigit ==
  ASSUME NEW b \in Nat, \A d \in 0..15 : b \notin Digits(d)
  PROVE  ~IsHex(b)
PROOF
  <1>1. SUFFICES ASSUME IsHex(b) PROVE FALSE OBVIOUS
  <1>2. CASE b \in 48..57
    <2>1. b - 48 \in 0..15 /\ b \in Digits(b - 48) BY <1>2, SMT DEF Digits
    <2>2. QED BY <2>1
  <1>3. CASE b \in 65..70
    <2>1. b - 55 \in 0..15 /\ b \in Digits(b - 55) BY <1>3, SMT DEF Digits
    <2>2. QED BY <2>1
  <1>4. CASE b \in 97..102
    <2>1. b - 87 \in 0..15 /\ b \in Digits(b - 87) BY <1>4, SMT DEF Digits
    <2>2. QED BY <2>1
  <1>5. QED BY <1>1, <1>2, <1>3, <1>4 DEF IsHex

LEMMA Sixteens ==
  ASSUME NEW u \in Nat, u < 65536
  PROVE  \E d1, d2, d3, d4 \in Nat :
           /\ d1 = u \div 4096 /\ d2 = (u \div 256) % 16 /\ d3 = (u \div 16) % 16 /\ d4 = u % 16
           /\ d1 <= 15 /\ d2 <= 15 /\ d3 <= 15 /\ d4 <= 15
           /\ ((d1 * 16 + d2) * 16 + d3) * 16 + d4 = u
PROOF
  <1>1. PICK d1, d2, d3, d4 :
          d1 = u \div 4096 /\ d2 = (u \div 256) % 16 /\ d3 = (u \div 16) % 16 /\ d4 = u % 16
    OBVIOUS
  <1>2. PICK v, w : v = u \div 16 /\ w = v \div 16 OBVIOUS
  <1>3. v \in Nat /\ u = (v * 16) + d4 /\ d4 \in Nat /\ d4 <= 15 BY <1>1, <1>2, SMT
  <1>4. w \in Nat /\ v = (w * 16) + d3 /\ d3 \in Nat /\ d3 <= 15 BY <1>1, <1>2, <1>3, SMT
  <1>5. w = u \div 256 BY <1>2, SMT
  <1>6. d1 = w \div 16
    <2>1. u \div 4096 = (u \div 256) \div 16 BY SMT
    <2>2. QED BY <2>1, <1>1, <1>5
  <1>7. d1 \in Nat /\ w = (d1 * 16) + d2 /\ d2 \in Nat /\ d2 <= 15 BY <1>1, <1>4, <1>5, <1>6, SMT
  <1>8. d1 <= 15 BY <1>3, <1>4, <1>7, SMT
  <1>9. QED BY <1>1, <1>3, <1>4, <1>7, <1>8

-----------------------------------------------------------------------------
(* The step that a piece of a string determines. *)

LEMMA Slice ==
  ASSUME NEW s \in Seq(Byte), NEW i \in Nat \ {0}, NEW w, NEW n \in Nat \ {0}, n = Len(w),
         i + n <= Len(s), SubSeq(s, i, i + n - 1) = w
  PROVE  \A k \in 0..n - 1 : s[i + k] = w[k + 1]
PROOF
  <1>1. ASSUME NEW k \in 0..n - 1 PROVE s[i + k] = w[k + 1]
    <2>1. i \in 1..Len(s) /\ i + n - 1 \in 1..Len(s) BY SMT
    <2>2. k + 1 \in 1..i + n - 1 - i + 1 BY SMT
    <2>3. SubSeq(s, i, i + n - 1)[k + 1] = s[i + (k + 1) - 1] BY <2>1, <2>2, SubSeqProperties, SMT
    <2>4. i + (k + 1) - 1 = i + k BY SMT
    <2>5. QED BY <2>3, <2>4
  <1>2. QED BY <1>1

LEMMA CodePointsAre == ASSUME NEW u PROVE u \in CodePoint <=> u \in Nat /\ u <= MaxCodePoint
PROOF
  <1>1. MaxCodePoint \in Nat BY DEF MaxCodePoint
  <1>2. QED BY <1>1 DEF CodePoint

LEMMA ScanBy ==
  ASSUME Scan, NEW c, c = Lookup(at(offset))
  PROVE  /\ pc = "scan"
         /\ c = "1" => Plain
         /\ c = "DS_ISQUOTE" => Quote \/ NotAString
         /\ c \in {"DS_ISNULL", "DS_UTFLENERROR"} => Unmatched
         /\ c = "DS_ISESCAPE" => Escape \/ BadEscape \/ UnicodeEscape \/ BadUnicodeEscape
         /\ c = "2" => Sequence(2, "2") \/ Overlong(2, "2") \/ BadOctet(2, "2")
         /\ c = "3" => Sequence(3, "3") \/ Overlong(3, "3") \/ BadOctet(3, "3")
         /\ c = "4" => Sequence(4, "4") \/ Overlong(4, "4") \/ BadOctet(4, "4")
PROOF
  <1>1. \E d : Case(d)
    BY Zenon DEF Scan, Quote, NotAString, Unmatched, Plain, Escape, BadEscape, UnicodeEscape,
       BadUnicodeEscape, Sequence, Overlong, BadOctet
  <1>2. pc = "scan" BY <1>1 DEF Case
  <1>3. /\ Quote \/ NotAString => c = "DS_ISQUOTE"
        /\ Unmatched => c \in {"DS_ISNULL", "DS_UTFLENERROR"}
        /\ Plain => c = "1"
        /\ Escape \/ BadEscape \/ UnicodeEscape \/ BadUnicodeEscape => c = "DS_ISESCAPE"
        /\ \A n, d : Sequence(n, d) \/ Overlong(n, d) \/ BadOctet(n, d) => c = d
    BY DEF Case, Quote, NotAString, Unmatched, Plain, Escape, BadEscape, UnicodeEscape,
       BadUnicodeEscape, Sequence, Overlong, BadOctet
  <1>4. \/ Quote \/ NotAString \/ Unmatched
        \/ Plain \/ Escape \/ BadEscape \/ UnicodeEscape \/ BadUnicodeEscape
        \/ Sequence(2, "2") \/ Overlong(2, "2") \/ BadOctet(2, "2")
        \/ Sequence(3, "3") \/ Overlong(3, "3") \/ BadOctet(3, "3")
        \/ Sequence(4, "4") \/ Overlong(4, "4") \/ BadOctet(4, "4")
    <2>1. ASSUME NEW p \in {<<2, "2">>, <<3, "3">>, <<4, "4">>},
                 Sequence(p[1], p[2]) \/ Overlong(p[1], p[2]) \/ BadOctet(p[1], p[2])
          PROVE  \/ Sequence(2, "2") \/ Overlong(2, "2") \/ BadOctet(2, "2")
                 \/ Sequence(3, "3") \/ Overlong(3, "3") \/ BadOctet(3, "3")
                 \/ Sequence(4, "4") \/ Overlong(4, "4") \/ BadOctet(4, "4")
      <3>1. CASE p = <<2, "2">> BY <2>1, <3>1
      <3>2. CASE p = <<3, "3">> BY <2>1, <3>2
      <3>3. CASE p = <<4, "4">> BY <2>1, <3>3
      <3>4. QED BY <3>1, <3>2, <3>3
    <2>2. QED BY <2>1 DEF Scan
  <1>5. QED BY <1>2, <1>3, <1>4

\* The classes of g_decoderLookup.
LEMMA Classes ==
  ASSUME NEW b \in Nat, b <= 255
  PROVE  /\ b = 0 => Lookup(b) = "DS_ISNULL"
         /\ b = 34 => Lookup(b) = "DS_ISQUOTE"
         /\ b = 92 => Lookup(b) = "DS_ISESCAPE"
         /\ b > 0 /\ b < 192 /\ b # 34 /\ b # 92 => Lookup(b) = "1"
         /\ 192 <= b /\ b <= 223 => Lookup(b) = "2"
         /\ 224 <= b /\ b <= 239 => Lookup(b) = "3"
         /\ 240 <= b /\ b <= 247 => Lookup(b) = "4"
         /\ 248 <= b => Lookup(b) = "DS_UTFLENERROR"
PROOF
  <1>1. /\ b \in 192..223 <=> 192 <= b /\ b <= 223
        /\ b \in 224..239 <=> 224 <= b /\ b <= 239
        /\ b \in 240..247 <=> 240 <= b /\ b <= 247
        /\ b \in 248..255 <=> 248 <= b
    BY Between
  <1>2. QED BY <1>1 DEF Lookup

\* A sequence whose octets are there is read whole.
LEMMA SequenceRead ==
  ASSUME Constants, TypeOK, Scan, NEW n \in 2..4, NEW c, c = Lookup(at(offset)),
         n = 2 => c = "2", n = 3 => c = "3", n = 4 => c = "4",
         \A k \in 1..n - 1 : at(offset + k) \in Nat /\ at(offset + k) >= 128
  PROVE  /\ Ucs(n) >= Least(n) => Emit(n, Ucs(n)) /\ UNCHANGED lastHigh
         /\ ~(Ucs(n) >= Least(n)) => SetError("overlong")
PROOF
  <1>1. \A k \in 1..n - 1 : IsOctet(at(offset + k)) BY DEF IsOctet
  <1>2. ~BadOctet(n, c) BY <1>1 DEF BadOctet
  <1>3. Sequence(n, c) \/ Overlong(n, c)
    <2>1. CASE n = 2 BY <2>1, <1>2, ScanBy
    <2>2. CASE n = 3 BY <2>2, <1>2, ScanBy
    <2>3. CASE n = 4 BY <2>3, <1>2, ScanBy
    <2>4. QED BY <2>1, <2>2, <2>3
  <1>4. Ucs(n) \in Nat /\ Least(n) \in Nat
    <2>1. Ucs(n) \in Units BY UcsType
    <2>2. QED BY <2>1, UnitsAre DEF Least
  <1>5. Overlong(n, c) => ~(Ucs(n) >= Least(n)) BY <1>4 DEF Overlong
  <1>6. QED BY <1>3, <1>5 DEF Sequence, Overlong

\* What stands in the text at the offset.
LEMMA Ahead ==
  ASSUME Constants, TypeOK, NEW w, NEW n \in Nat \ {0}, n = Len(w), offset + n <= End,
         SubSeq(text.bytes, offset, offset + n - 1) = w
  PROVE  \A k \in 0..n - 1 : at(offset + k) = w[k + 1]
PROOF
  <1>1. PICK s \in Seq(Byte) : s = text.bytes BY DEF Constants, TypeOK
  <1>2. offset \in Nat \ {0} /\ End = Len(s) BY <1>1 DEF TypeOK, End
  <1>3. \A k \in 0..n - 1 : s[offset + k] = w[k + 1] BY <1>1, <1>2, Slice
  <1>4. \A k \in 0..n - 1 : offset + k <= Len(s) BY <1>2, SMT
  <1>5. QED BY <1>1, <1>3, <1>4 DEF at

\* An octet o may stand for the octet x: see Masked.
Taken(o, x) == o \in Nat /\ (o = x \/ (o >= 192 /\ x = o - 64))

LEMMA TakenBits ==
  ASSUME NEW o, NEW x \in Nat, x >= 128, Taken(o, x)
  PROVE  o \in Nat /\ o >= 128 /\ o % 64 = x % 64
PROOF
  <1>1. o \in Nat /\ (o = x \/ (o >= 192 /\ x = o - 64)) BY DEF Taken
  <1>2. CASE o = x BY <1>1, <1>2
  <1>3. CASE o >= 192 /\ x = o - 64
    <2>1. o \in Nat /\ o = x + 64 BY <1>1, <1>3
    <2>2. (x + 64) % 64 = x % 64 BY SMT
    <2>3. QED BY <1>3, <2>1, <2>2
  <1>4. QED BY <1>1, <1>2, <1>3

\* A code point in UTF-8, but for the octets after the lead.
LEMMA RawRead ==
  ASSUME Constants, TypeOK, Scan,
         NEW u \in CodePoint, u >= 32, u \notin {34, 92},
         at(offset) = Utf8(u)[1],
         \A k \in 1..Len(Utf8(u)) - 1 : Taken(at(offset + k), Utf8(u)[k + 1])
  PROVE  Emit(Len(Utf8(u)), u) /\ UNCHANGED lastHigh
PROOF
  <1>1. u \in Nat /\ u <= MaxCodePoint BY CodePointsAre
  <1>2. PICK w : w = Utf8(u) OBVIOUS
  <1>3. offset \in Nat \ {0} BY DEF TypeOK
  <1>4. ASSUME NEW n, n = Len(w)
        PROVE  /\ at(offset) = w[1]
               /\ \A k \in 1..n - 1 : Taken(at(offset + k), w[k + 1])
    BY <1>2, <1>4
  <1>5. CASE u < 128
    <2>1. w = <<u>> BY <1>1, <1>2, <1>5, Forms
    <2>2. Len(w) = 1 /\ w[1] = u BY <2>1
    <2>3. at(offset) = u BY <1>4, <2>2
    <2>4. Lookup(at(offset)) = "1" BY <1>1, <1>5, <2>3, Classes
    <2>5. Plain BY <2>4, ScanBy
    <2>6. QED BY <1>2, <2>2, <2>3, <2>5 DEF Plain
  <1>6. CASE 128 <= u /\ u <= 2047
    <2>1. PICK a, b \in Nat :
            /\ w = <<a, b>> /\ Len(w) = 2
            /\ 192 <= a /\ a <= 223 /\ 128 <= b /\ b <= 191
            /\ ((a % 32) * 64) + (b % 64) = u
      BY <1>1, <1>2, <1>6, TwoBytes
    <2>2. PICK y : y = at(offset + 1) OBVIOUS
    <2>3. at(offset) = a /\ y \in Nat /\ y >= 128 /\ y % 64 = b % 64
      <3>1. 1 \in 1..2 - 1 BY SMT
      <3>2. w[1] = a /\ w[1 + 1] = b BY <2>1
      <3>3. at(offset) = a /\ Taken(y, b) BY <1>4, <2>1, <2>2, <3>1, <3>2
      <3>4. QED BY <2>1, <3>3, TakenBits
    <2>4. Lookup(at(offset)) = "2" BY <2>1, <2>3, Classes
    <2>5. \A k \in 1..2 - 1 : at(offset + k) \in Nat /\ at(offset + k) >= 128
      <3>1. \A k \in 1..2 - 1 : k = 1 BY SMT
      <3>2. QED BY <2>2, <2>3, <3>1
    <2>6. Ucs(2) = u BY <2>1, <2>2, <2>3 DEF Ucs, Lead, Bits
    <2>7. Ucs(2) >= Least(2) BY <1>1, <1>6, <2>6 DEF Least
    <2>8. 2 \in 2..4 BY SMT
    <2>9. QED BY <1>2, <2>1, <2>4, <2>5, <2>6, <2>7, <2>8, SequenceRead
  <1>7. CASE 2048 <= u /\ u <= 65535
    <2>1. PICK a, b, c \in Nat :
            /\ w = <<a, b, c>> /\ Len(w) = 3
            /\ 224 <= a /\ a <= 239 /\ 128 <= b /\ b <= 191 /\ 128 <= c /\ c <= 191
            /\ ((((a % 16) * 64) + (b % 64)) * 64) + (c % 64) = u
      BY <1>1, <1>2, <1>7, ThreeBytes
    <2>2. PICK y, z : y = at(offset + 1) /\ z = at(offset + 2) OBVIOUS
    <2>3. /\ at(offset) = a
          /\ y \in Nat /\ y >= 128 /\ y % 64 = b % 64
          /\ z \in Nat /\ z >= 128 /\ z % 64 = c % 64
      <3>1. 1 \in 1..3 - 1 /\ 2 \in 1..3 - 1 BY SMT
      <3>2. w[1] = a /\ w[1 + 1] = b /\ w[2 + 1] = c BY <2>1
      <3>3. at(offset) = a /\ Taken(y, b) /\ Taken(z, c) BY <1>4, <2>1, <2>2, <3>1, <3>2
      <3>4. QED BY <2>1, <3>3, TakenBits
    <2>4. Lookup(at(offset)) = "3" BY <2>1, <2>3, Classes
    <2>5. \A k \in 1..3 - 1 : at(offset + k) \in Nat /\ at(offset + k) >= 128
      <3>1. \A k \in 1..3 - 1 : k = 1 \/ k = 2 BY SMT
      <3>2. QED BY <2>2, <2>3, <3>1
    <2>6. Ucs(3) = u BY <2>1, <2>2, <2>3 DEF Ucs, Lead, Bits
    <2>7. Ucs(3) >= Least(3) BY <1>1, <1>7, <2>6 DEF Least
    <2>8. 3 \in 2..4 BY SMT
    <2>9. QED BY <1>2, <2>1, <2>4, <2>5, <2>6, <2>7, <2>8, SequenceRead
  <1>8. CASE 65536 <= u
    <2>1. PICK a, b, c, d \in Nat :
            /\ w = <<a, b, c, d>> /\ Len(w) = 4
            /\ 240 <= a /\ a <= 244 /\ 128 <= b /\ b <= 191 /\ 128 <= c /\ c <= 191
            /\ 128 <= d /\ d <= 191
            /\ ((((((a % 8) * 64) + (b % 64)) * 64) + (c % 64)) * 64) + (d % 64) = u
      BY <1>1, <1>2, <1>8, FourBytes
    <2>2. PICK x, y, z : x = at(offset + 1) /\ y = at(offset + 2) /\ z = at(offset + 3) OBVIOUS
    <2>3. /\ at(offset) = a
          /\ x \in Nat /\ x >= 128 /\ x % 64 = b % 64
          /\ y \in Nat /\ y >= 128 /\ y % 64 = c % 64
          /\ z \in Nat /\ z >= 128 /\ z % 64 = d % 64
      <3>1. 1 \in 1..4 - 1 /\ 2 \in 1..4 - 1 /\ 3 \in 1..4 - 1 BY SMT
      <3>2. w[1] = a /\ w[1 + 1] = b /\ w[2 + 1] = c /\ w[3 + 1] = d BY <2>1
      <3>3. at(offset) = a /\ Taken(x, b) /\ Taken(y, c) /\ Taken(z, d)
        BY <1>4, <2>1, <2>2, <3>1, <3>2
      <3>4. QED BY <2>1, <3>3, TakenBits
    <2>4. Lookup(at(offset)) = "4" BY <2>1, <2>3, Classes
    <2>5. \A k \in 1..4 - 1 : at(offset + k) \in Nat /\ at(offset + k) >= 128
      <3>1. \A k \in 1..4 - 1 : k = 1 \/ k = 2 \/ k = 3 BY SMT
      <3>2. QED BY <2>2, <2>3, <3>1
    <2>6. Ucs(4) = u BY <2>1, <2>2, <2>3 DEF Ucs, Lead, Bits
    <2>7. Ucs(4) >= Least(4) BY <1>1, <1>8, <2>6 DEF Least
    <2>8. 4 \in 2..4 BY SMT
    <2>9. QED BY <1>2, <2>1, <2>4, <2>5, <2>6, <2>7, <2>8, SequenceRead
  <1>9. QED BY <1>1, <1>5, <1>6, <1>7, <1>8

\* A backslash and a letter.
LEMMA ShortRead ==
  ASSUME Constants, TypeOK, Scan, NEW u,
         at(offset) = 92, <<at(offset + 1), u>> \in Shorts
  PROVE  Emit(2, u) /\ UNCHANGED lastHigh
PROOF
  <1>1. PICK b : b = at(offset + 1) OBVIOUS
  <1>2. b \in Simple /\ Escaped(b) = u /\ b # 117
    <2>1. \E p \in Shorts : b = p[1] /\ u = p[2] BY <1>1
    <2>2. QED BY <2>1, SMT DEF Shorts, Simple, Escaped
  <1>3. Lookup(at(offset)) = "DS_ISESCAPE" BY Classes
  <1>4. Escape
    <2>1. ~BadEscape /\ ~UnicodeEscape /\ ~BadUnicodeEscape
      BY <1>1, <1>2 DEF BadEscape, UnicodeEscape, BadUnicodeEscape
    <2>2. QED BY <1>3, <2>1, ScanBy
  <1>5. QED BY <1>1, <1>2, <1>4 DEF Escape

\* \uXXXX.
LEMMA HexRead ==
  ASSUME Constants, TypeOK, Scan, NEW u \in Nat, u < 65536,
         NEW s \in Seq(Byte), s = text.bytes, Hexes(s, offset, u), offset + 6 <= Len(s)
  PROVE  UnicodeEscape /\ Ch = u
PROOF
  <1>0. offset \in Nat \ {0} /\ Len(s) \in Nat BY DEF TypeOK
  <1>8. /\ at(offset) = 92 /\ at(offset + 1) = 117
        /\ at(offset + 2) \in Digits(u \div 4096) /\ at(offset + 3) \in Digits((u \div 256) % 16)
        /\ at(offset + 4) \in Digits((u \div 16) % 16) /\ at(offset + 5) \in Digits(u % 16)
    <2>1. ASSUME NEW k \in 0..5 PROVE at(offset + k) = s[offset + k]
      <3>1. offset + k <= Len(s) BY <1>0, SMT
      <3>2. QED BY <3>1 DEF at
    <2>2. at(offset) = s[offset] BY <1>0, <2>1
    <2>3. at(offset + 1) = s[offset + 1] BY <2>1
    <2>4. at(offset + 2) = s[offset + 2] BY <2>1
    <2>5. at(offset + 3) = s[offset + 3] BY <2>1
    <2>6. at(offset + 4) = s[offset + 4] BY <2>1
    <2>7. at(offset + 5) = s[offset + 5] BY <2>1
    <2>8. QED BY <2>2, <2>3, <2>4, <2>5, <2>6, <2>7 DEF Hexes
  <1>1. PICK d1, d2, d3, d4 \in Nat :
          /\ d1 = u \div 4096 /\ d2 = (u \div 256) % 16 /\ d3 = (u \div 16) % 16 /\ d4 = u % 16
          /\ d1 <= 15 /\ d2 <= 15 /\ d3 <= 15 /\ d4 <= 15
          /\ ((d1 * 16 + d2) * 16 + d3) * 16 + d4 = u
    BY Sixteens
  <1>2. /\ IsHex(at(offset + 2)) /\ Digit(at(offset + 2)) = d1
        /\ IsHex(at(offset + 3)) /\ Digit(at(offset + 3)) = d2
        /\ IsHex(at(offset + 4)) /\ Digit(at(offset + 4)) = d3
        /\ IsHex(at(offset + 5)) /\ Digit(at(offset + 5)) = d4
    <2>1. ASSUME NEW i \in 2..5, NEW d \in Nat, d <= 15, at(offset + i) \in Digits(d)
          PROVE  IsHex(at(offset + i)) /\ Digit(at(offset + i)) = d
      BY <2>1, DigitOf
    <2>2. 2 \in 2..5 /\ 3 \in 2..5 /\ 4 \in 2..5 /\ 5 \in 2..5 BY SMT
    <2>3. IsHex(at(offset + 2)) /\ Digit(at(offset + 2)) = d1 BY <1>1, <1>8, <2>1, <2>2
    <2>4. IsHex(at(offset + 3)) /\ Digit(at(offset + 3)) = d2 BY <1>1, <1>8, <2>1, <2>2
    <2>5. IsHex(at(offset + 4)) /\ Digit(at(offset + 4)) = d3 BY <1>1, <1>8, <2>1, <2>2
    <2>6. IsHex(at(offset + 5)) /\ Digit(at(offset + 5)) = d4 BY <1>1, <1>8, <2>1, <2>2
    <2>7. QED BY <2>3, <2>4, <2>5, <2>6
  <1>3. Ch = u
    <2>1. ((d1 * 16 + d2) * 16 + d3) * 16 + d4 = u BY <1>1
    <2> DEFINE d(i) == Digit(at(offset + i))
    <2>2. Ch = ((d(2) * 16 + d(3)) * 16 + d(4)) * 16 + d(5) BY DEF Ch
    <2>3. d(2) = d1 /\ d(3) = d2 /\ d(4) = d3 /\ d(5) = d4 BY <1>2
    <2> HIDE DEF d
    <2>4. QED BY <2>1, <2>2, <2>3
  <1>4. Lookup(at(offset)) = "DS_ISESCAPE" BY <1>8, Classes
  <1>5. \A i \in 2..5 : IsHex(at(offset + i))
    <2>1. \A i \in 2..5 : i = 2 \/ i = 3 \/ i = 4 \/ i = 5 BY SMT
    <2>2. QED BY <1>2, <2>1
  <1>6. ~Escape /\ ~BadEscape /\ ~BadUnicodeEscape
    BY <1>5, <1>8 DEF Escape, BadEscape, BadUnicodeEscape, BadDigit, Simple
  <1>7. QED BY <1>3, <1>4, <1>6, ScanBy

-----------------------------------------------------------------------------
(* A string that is read as it is said to be. *)

\* lastHighSurrogate tells whether the last piece was an escaped high one.
Standing(p) ==
  /\ offset = p.at /\ esc = p.said
  /\ lastHigh = offset <=> p.escaped /\ p.unit \in HighSurrogate
  /\ p.escaped /\ p.unit \in HighSurrogate =>
       Len(p.said) > 0 /\ p.said[Len(p.said)] = p.unit

LEMMA SurrogatesAre ==
  ASSUME NEW u \in Nat
  PROVE  /\ IsHigh(u) <=> u \in HighSurrogate
         /\ IsLow(u) <=> u \in LowSurrogate
         /\ ~(u \in HighSurrogate /\ u \in LowSurrogate)
PROOF
  <1>1. /\ u \in HighSurrogate <=> 55296 <= u /\ u <= 56319
        /\ u \in LowSurrogate <=> 56320 <= u /\ u <= 57343
    BY Between DEF HighSurrogate, LowSurrogate
  <1>2. QED BY <1>1, SMT DEF IsHigh, IsLow

\* What is not \uXXXX stands for itself.
LEMMA EmitStanding ==
  ASSUME Constants, IInv, pc = "scan", NEW p \in Places, NEW q \in Places, Standing(p),
         ~q.escaped, q.said = Append(p.said, q.unit),
         NEW n \in Nat \ {0}, q.at = p.at + n, Emit(n, q.unit), UNCHANGED lastHigh
  PROVE  Standing(q)' /\ UNCHANGED <<text, pc, start, errorStr, decoded>>
PROOF
  <1>1. offset \in Nat /\ lastHigh \in Nat /\ lastHigh <= offset BY DEF IInv, TypeOK, Surrogates
  <1>2. /\ offset' = q.at /\ offset' = offset + n /\ lastHigh' = lastHigh
        /\ esc' = q.said
    BY Zenon DEF Standing, Emit
  <1>3. lastHigh' # offset' BY <1>1, <1>2, SMT
  <1>4. Standing(q)' BY <1>2, <1>3 DEF Standing
  <1>5. QED BY <1>4 DEF Emit

LEMMA Utf8Length ==
  ASSUME NEW u \in CodePoint
  PROVE  Len(Utf8(u)) \in Nat \ {0}
PROOF
  <1>1. u \in Nat /\ u <= MaxCodePoint BY CodePointsAre
  <1>2. CASE u < 128
    <2>1. Utf8(u) = <<u>> BY <1>1, <1>2, Forms
    <2>2. Len(<<u>>) = 1 OBVIOUS
    <2>3. QED BY <2>1, <2>2
  <1>3. CASE 128 <= u /\ u <= 2047
    <2>1. Len(Utf8(u)) = 2 BY <1>1, <1>3, TwoBytes
    <2>2. QED BY <2>1
  <1>4. CASE 2048 <= u /\ u <= 65535
    <2>1. Len(Utf8(u)) = 3 BY <1>1, <1>4, ThreeBytes
    <2>2. QED BY <2>1
  <1>5. CASE 65536 <= u
    <2>1. Len(Utf8(u)) = 4 BY <1>1, <1>5, FourBytes
    <2>2. QED BY <2>1
  <1>6. QED BY <1>1, <1>2, <1>3, <1>4, <1>5

LEMMA MaskedIs ==
  ASSUME NEW s \in Seq(Byte), NEW i \in Nat
  PROVE  /\ Masked(s, i) \in Seq(Byte) /\ Len(Masked(s, i)) = Len(s)
         /\ \A k \in 1..Len(s) : k <= i => Masked(s, i)[k] = s[k]
         /\ \A k \in 1..Len(s) : Taken(s[k], Masked(s, i)[k])
PROOF
  <1>1. PICK n, t : n = Len(s) /\ t = Masked(s, i) OBVIOUS
  <1>2. n \in Nat /\ DOMAIN s = 1..n BY <1>1
  <1>3. t = [k \in 1..n |-> IF k > i /\ s[k] >= 192 THEN s[k] - 64 ELSE s[k]]
    BY <1>1, <1>2 DEF Masked
  <1>4. ASSUME NEW k \in 1..n
        PROVE  /\ t[k] \in Byte /\ Taken(s[k], t[k])
               /\ k <= i => t[k] = s[k]
    <2>1. PICK b : b = s[k] OBVIOUS
    <2>2. b \in Byte BY <1>1, <2>1
    <2>3. b \in Nat /\ b <= 255 BY <2>2, SMT DEF Byte
    <2>4. t[k] = IF k > i /\ b >= 192 THEN b - 64 ELSE b BY <1>3, <2>1
    <2>5. CASE k > i /\ b >= 192
      <3>1. t[k] = b - 64 BY <2>4, <2>5
      <3>2. b - 64 \in Byte BY <2>3, <2>5, SMT DEF Byte
      <3>3. QED BY <2>1, <2>3, <2>5, <3>1, <3>2 DEF Taken
    <2>6. CASE ~(k > i /\ b >= 192)
      <3>1. t[k] = b BY <2>4, <2>6
      <3>2. QED BY <2>1, <2>2, <2>3, <3>1 DEF Taken
    <2>7. QED BY <2>5, <2>6
  <1>5. t \in [1..n -> Byte] BY <1>3, <1>4
  <1>6. t \in Seq(Byte) /\ Len(t) = n BY <1>2, <1>5
  <1>7. QED BY <1>1, <1>4, <1>6

\* What is taken besides JSON and UTF-8.
LEMMA LaxStep ==
  ASSUME Constants, IInv, Scan, NEW p \in Places, NEW q \in Places, Standing(p),
         ~q.escaped, q.said = Append(p.said, q.unit), q.at <= Len(text.bytes),
         Lax(text.bytes, offset, q.at, q.unit)
  PROVE  Standing(q)' /\ UNCHANGED <<text, pc, start, errorStr, decoded>>
PROOF
  <1>1. PICK s \in Seq(Byte) : s = text.bytes BY DEF Constants, IInv, TypeOK
  <1>2. End = Len(s) /\ Len(s) \in Nat BY <1>1 DEF End
  <1>3. /\ pc = "scan" /\ TypeOK
        /\ offset = p.at /\ offset \in Nat \ {0}
    BY ScanBy DEF IInv, TypeOK, Standing
  <1>4. PICK u, j : u = q.unit /\ j = q.at OBVIOUS
  <1>5. u \in CodePoint /\ u \in Nat /\ j \in Nat /\ j <= Len(s)
    BY <1>1, <1>4, CodePointsAre DEF Places
  <1>6. \/ j = offset + 1 /\ s[offset] = u /\ u \in 1..31 \cup 128..191
        \/ /\ u >= 128 /\ j = offset + Len(Utf8(u))
           /\ SubSeq(Masked(s, offset), offset, j - 1) = Utf8(u)
    BY <1>1, <1>4 DEF Lax
  <1>7. CASE j = offset + 1 /\ s[offset] = u /\ u \in 1..31 \cup 128..191
    <2>1. at(offset) = u
      <3>1. offset <= Len(s) BY <1>3, <1>5, <1>7
      <3>2. QED BY <1>1, <1>7, <3>1 DEF at
    <2>2. u > 0 /\ u < 192 /\ u # 34 /\ u # 92 /\ u <= 255 BY <1>5, <1>7, SMT
    <2>3. Lookup(at(offset)) = "1" BY <1>5, <2>1, <2>2, Classes
    <2>4. Plain BY <2>3, ScanBy
    <2>5. Emit(1, q.unit) /\ UNCHANGED lastHigh BY <1>4, <2>1, <2>4 DEF Plain
    <2>6. q.at = p.at + 1 /\ 1 \in Nat \ {0} BY <1>3, <1>4, <1>7
    <2>7. QED BY <1>3, <2>5, <2>6, EmitStanding
  <1>8. CASE /\ u >= 128 /\ j = offset + Len(Utf8(u))
             /\ SubSeq(Masked(s, offset), offset, j - 1) = Utf8(u)
    <2>1. PICK w, n, t : w = Utf8(u) /\ n = Len(w) /\ t = Masked(s, offset) OBVIOUS
    <2>2. n \in Nat \ {0} BY <1>5, <2>1, Utf8Length
    <2>3. j = offset + n /\ SubSeq(t, offset, j - 1) = w BY <1>8, <2>1
    <2>4. /\ t \in Seq(Byte) /\ Len(t) = Len(s)
          /\ \A k \in 1..Len(s) : k <= offset => t[k] = s[k]
          /\ \A k \in 1..Len(s) : Taken(s[k], t[k])
      BY <1>3, <2>1, MaskedIs
    <2>5. \A k \in 0..n - 1 : t[offset + k] = w[k + 1]
      <3>1. offset + n <= Len(t) /\ offset + n - 1 = j - 1 BY <1>3, <1>5, <2>2, <2>3, <2>4
      <3>2. SubSeq(t, offset, offset + n - 1) = w BY <2>3, <3>1
      <3>3. t \in Seq(Byte) /\ n = Len(w) BY <2>1, <2>4
      <3>4. /\ offset \in Nat \ {0} /\ n \in Nat \ {0} /\ n = Len(w)
            /\ offset + n <= Len(t) /\ SubSeq(t, offset, offset + n - 1) = w
        BY <1>3, <2>2, <3>1, <3>2, <3>3
      <3>5. QED BY ONLY <3>3, <3>4, Slice, SMT
    <2>6. ASSUME NEW k \in 0..n - 1
          PROVE  offset + k \in 1..Len(s) /\ at(offset + k) = s[offset + k]
      <3>1. PICK l : l = Len(s) OBVIOUS
      <3>2. j <= l /\ l \in Nat /\ j = offset + n /\ k \in Nat /\ k <= n - 1
        BY <1>2, <1>5, <2>2, <2>3, <3>1
      <3>3. offset + k \in 1..l BY <1>3, <2>2, <3>2
      <3>4. QED BY <1>1, <3>1, <3>3 DEF at
    <2>7. at(offset) = Utf8(u)[1]
      <3>1. 0 \in 0..n - 1 /\ offset + 0 = offset /\ 0 + 1 = 1 BY <1>3, <2>2, SMT
      <3>2. t[offset] = w[1] BY <2>5, <3>1
      <3>3. offset \in 1..Len(s) /\ at(offset) = s[offset] BY <2>6, <3>1
      <3>4. QED BY <1>3, <2>1, <2>4, <3>2, <3>3
    <2>8. \A k \in 1..Len(Utf8(u)) - 1 : Taken(at(offset + k), Utf8(u)[k + 1])
      <3>1. ASSUME NEW k \in 1..n - 1 PROVE Taken(at(offset + k), w[k + 1])
        <4>1. k \in 0..n - 1 BY <2>2
        <4>2. QED BY <2>4, <2>5, <2>6, <4>1
      <3>2. QED BY <2>1, <3>1
    <2>9. u >= 32 /\ u \notin {34, 92} BY <1>5, <1>8
    <2>10. Emit(Len(Utf8(u)), u) /\ UNCHANGED lastHigh BY <1>3, <1>5, <2>7, <2>8, <2>9, RawRead
    <2>11. Emit(n, q.unit) /\ q.at = p.at + n BY <1>3, <1>4, <2>1, <2>3, <2>10
    <2>12. QED BY <1>3, <2>2, <2>10, <2>11, EmitStanding
  <1>9. QED BY <1>6, <1>7, <1>8

LEMMA PieceStep ==
  ASSUME Constants, IInv, Scan, NEW p \in Places, NEW q \in Places, Standing(p),
         Leads(text.bytes, p, q)
  PROVE  Standing(q)' /\ UNCHANGED <<text, pc, start, errorStr, decoded>>
PROOF
  <1>1. PICK s \in Seq(Byte) : s = text.bytes BY DEF Constants, IInv, TypeOK
  <1>2. End = Len(s) BY <1>1 DEF End
  <1>3. /\ pc = "scan" /\ TypeOK
        /\ offset = p.at /\ offset \in Nat \ {0}
    BY ScanBy DEF IInv, TypeOK, Standing
  <1>4. PICK u, j : u = q.unit /\ j = q.at OBVIOUS
  <1>5. /\ u \in CodePoint /\ u \in Nat /\ j \in Nat /\ q.escaped \in BOOLEAN
        /\ p.said \in Seq(CodePoint) /\ p.unit \in CodePoint /\ p.unit \in Nat
    BY <1>4, CodePointsAre DEF Places
  <1>6. Piece(s, offset, j, u, q.escaped) BY <1>1, <1>3, <1>4 DEF Leads
  <1>13. j <= Len(s) /\ Len(s) \in Nat BY <1>6 DEF Piece
  <1>7. ASSUME ~q.escaped PROVE q.said = Append(p.said, u)
    BY <1>4, <1>7 DEF Leads, Paired
  <1>8. \A k \in 0..5 : offset + k <= Len(s) => at(offset + k) = s[offset + k]
    BY <1>1 DEF at
  <1>9. CASE /\ ~q.escaped
             /\ u >= 32 /\ u \notin {34, 92}
             /\ j = offset + Len(Utf8(u)) /\ SubSeq(s, offset, j - 1) = Utf8(u)
    <2>1. PICK w, n : w = Utf8(u) /\ n = Len(w) OBVIOUS
    <2>2. n \in Nat \ {0} BY <1>5, <2>1, Utf8Length
    <2>3. j = offset + n /\ SubSeq(s, offset, j - 1) = w BY <1>9, <2>1
    <2>4. offset + n <= End /\ SubSeq(text.bytes, offset, offset + n - 1) = w
      <3>1. offset + n <= End BY <1>2, <1>13, <2>3
      <3>2. offset + n - 1 = j - 1
        <4>1. j = offset + n BY <2>3
        <4>2. QED BY <1>3, <2>2, <4>1
      <3>3. QED BY <1>1, <2>3, <3>1, <3>2
    <2>5. \A k \in 0..n - 1 : at(offset + k) = w[k + 1] BY <1>3, <2>1, <2>2, <2>4, Ahead
    <2>6. /\ at(offset) = Utf8(u)[1]
          /\ \A k \in 1..Len(Utf8(u)) - 1 : Taken(at(offset + k), Utf8(u)[k + 1])
      <3>1. 0 \in 0..n - 1 /\ offset + 0 = offset /\ 0 + 1 = 1 BY <1>3, <2>2, SMT
      <3>2. at(offset) = w[1] BY <2>5, <3>1
      <3>3. ASSUME NEW k \in 1..n - 1 PROVE Taken(at(offset + k), w[k + 1])
        <4>1. k \in 0..n - 1 /\ offset + k \in Nat \ {0} BY <1>3, <2>2
        <4>2. at(offset + k) \in Nat BY <1>3, <4>1, Bytes DEF TypeOK
        <4>3. QED BY <2>5, <4>1, <4>2 DEF Taken
      <3>4. QED BY <2>1, <3>2, <3>3
    <2>7. Emit(Len(Utf8(u)), u) /\ UNCHANGED lastHigh BY <1>3, <1>5, <1>9, <2>6, RawRead
    <2>8. Emit(n, q.unit) /\ q.at = p.at + n BY <1>3, <1>4, <2>1, <2>3, <2>7
    <2>9. q.said = Append(p.said, q.unit) BY <1>4, <1>7, <1>9
    <2>10. QED BY <1>3, <1>9, <2>2, <2>7, <2>8, <2>9, EmitStanding
  <1>10. CASE /\ ~q.escaped
              /\ j = offset + 2 /\ s[offset] = 92 /\ <<s[offset + 1], u>> \in Shorts
    <2>1. at(offset) = 92 /\ at(offset + 1) = s[offset + 1]
      <3>1. /\ 0 \in 0..5 /\ 1 \in 0..5 /\ offset + 0 = offset
            /\ offset <= Len(s) /\ offset + 1 <= Len(s)
        BY <1>3, <1>10, <1>13, SMT
      <3>2. QED BY <1>8, <1>10, <3>1
    <2>2. <<at(offset + 1), u>> \in Shorts BY <1>10, <2>1
    <2>3. Emit(2, u) /\ UNCHANGED lastHigh BY <1>3, <2>1, <2>2, ShortRead
    <2>4. Emit(2, q.unit) /\ q.at = p.at + 2 BY <1>3, <1>4, <1>10, <2>3
    <2>5. q.said = Append(p.said, q.unit) /\ 2 \in Nat \ {0} BY <1>4, <1>7, <1>10
    <2>6. QED BY <1>3, <1>10, <2>3, <2>4, <2>5, EmitStanding
  <1>11. CASE q.escaped /\ u < 65536 /\ j = offset + 6 /\ Hexes(s, offset, u)
    <2>1. offset + 6 <= Len(s) BY <1>11, <1>13
    <2>2. UnicodeEscape /\ Ch = u BY <1>1, <1>3, <1>5, <1>11, <2>1, HexRead
    <2>3. /\ IsHigh(u) <=> u \in HighSurrogate
          /\ IsLow(u) <=> u \in LowSurrogate
          /\ ~(u \in HighSurrogate /\ u \in LowSurrogate)
      BY <1>5, SurrogatesAre
    <2>4. /\ offset' = offset + 6 /\ offset' = j
          /\ lastHigh' = IF u \in HighSurrogate THEN offset + 6 ELSE lastHigh
          /\ UNCHANGED <<text, pc, start, errorStr, decoded>>
      BY <1>11, <2>2, <2>3 DEF UnicodeEscape
    <2>5. lastHigh \in Nat /\ lastHigh <= offset BY <1>3 DEF IInv, TypeOK, Surrogates
    <2>6. lastHigh' = offset' <=> u \in HighSurrogate BY <1>3, <2>4, <2>5
    <2>7. esc' = q.said
      <3>1. Paired(p, q) <=> u \in LowSurrogate /\ lastHigh = offset
        BY <1>4, <1>11 DEF Paired, Standing
      <3>2. CASE Paired(p, q)
        <4>1. esc' = [esc EXCEPT ![Len(esc)] = Pair(esc[Len(esc)], u)]
          BY <2>2, <2>3, <3>1, <3>2 DEF UnicodeEscape
        <4>2. esc = p.said /\ esc[Len(esc)] = p.unit BY <3>2 DEF Standing, Paired
        <4>3. Pair(p.unit, u) = FromUtf16(p.unit, u) BY <1>5, SMT DEF Pair, FromUtf16
        <4>4. q.said = [p.said EXCEPT ![Len(p.said)] = FromUtf16(p.unit, u)]
          BY <1>4, <3>2 DEF Leads
        <4>5. QED BY <4>1, <4>2, <4>3, <4>4
      <3>3. CASE ~Paired(p, q)
        <4>1. esc' = Append(esc, u) BY <2>2, <2>3, <3>1, <3>3 DEF UnicodeEscape
        <4>2. q.said = Append(p.said, u) BY <1>4, <3>3 DEF Leads
        <4>3. QED BY <4>1, <4>2 DEF Standing
      <3>4. QED BY <3>2, <3>3
    <2>8. u \in HighSurrogate => Len(q.said) > 0 /\ q.said[Len(q.said)] = u
      <3>1. SUFFICES ASSUME u \in HighSurrogate
                     PROVE  Len(q.said) > 0 /\ q.said[Len(q.said)] = u
        OBVIOUS
      <3>2. q.said = Append(p.said, u) BY <1>4, <2>3, <3>1 DEF Leads, Paired
      <3>3. QED BY <1>5, <3>2
    <2>9. Standing(q)' BY <1>4, <1>11, <2>4, <2>6, <2>7, <2>8 DEF Standing
    <2>10. QED BY <2>4, <2>9
  <1>14. CASE ~q.escaped /\ Lax(s, offset, j, u)
    BY <1>1, <1>3, <1>4, <1>5, <1>7, <1>13, <1>14, LaxStep
  <1>12. QED BY <1>6, <1>9, <1>10, <1>11, <1>14 DEF Piece

-----------------------------------------------------------------------------
(* A string that goes on with what it may not. *)

\* newString will not take it.
Lost == \E i \in 1..Len(esc) : esc[i] > 1114111

Failed == \E msg \in Errors : SetError(msg)

LEMMA NoEscape ==
  ASSUME NEW b \in Nat, \A p \in Shorts : b # p[1]
  PROVE  b \notin Simple
PROOF
  <1>1. /\ <<34, 34>> \in Shorts /\ <<92, 92>> \in Shorts /\ <<47, 47>> \in Shorts
        /\ <<98, 8>> \in Shorts /\ <<102, 12>> \in Shorts /\ <<110, 10>> \in Shorts
        /\ <<114, 13>> \in Shorts /\ <<116, 9>> \in Shorts
    BY DEF Shorts
  <1>2. /\ b # 34 /\ b # 92 /\ b # 47 /\ b # 98 /\ b # 102 /\ b # 110 /\ b # 114 /\ b # 116
    BY <1>1
  <1>3. QED BY <1>2 DEF Simple

\* An escape that is none.
LEMMA BadEscapeRead ==
  ASSUME Constants, TypeOK, Scan, at(offset) = 92,
         \/ at(offset + 1) # 117 /\ \A p \in Shorts : at(offset + 1) # p[1]
         \/ /\ at(offset + 1) = 117
            /\ \E k \in 2..5 : \A d \in 0..15 : at(offset + k) \notin Digits(d)
  PROVE  Failed
PROOF
  <1>1. Lookup(at(offset)) = "DS_ISESCAPE" BY Classes
  <1>2. Escape \/ BadEscape \/ UnicodeEscape \/ BadUnicodeEscape BY <1>1, ScanBy
  <1>3. ASSUME NEW k \in 1..5 PROVE at(offset + k) \in Nat
    <2>1. text \in Texts /\ offset + k \in Nat \ {0} BY DEF TypeOK
    <2>2. QED BY <2>1, Bytes
  <1>4. ~Escape /\ ~UnicodeEscape
    <2>1. CASE at(offset + 1) # 117 /\ \A p \in Shorts : at(offset + 1) # p[1]
      <3>1. 1 \in 1..5 BY SMT
      <3>2. at(offset + 1) \notin Simple BY <1>3, <2>1, <3>1, NoEscape
      <3>3. QED BY <2>1, <3>2 DEF Escape, UnicodeEscape
    <2>2. CASE /\ at(offset + 1) = 117
               /\ \E k \in 2..5 : \A d \in 0..15 : at(offset + k) \notin Digits(d)
      <3>1. PICK k \in 2..5 : \A d \in 0..15 : at(offset + k) \notin Digits(d) BY <2>2
      <3>2. k \in 1..5 BY SMT
      <3>3. ~IsHex(at(offset + k)) BY <1>3, <3>1, <3>2, NotADigit
      <3>4. ~Escape
        <4>1. 117 \notin Simple BY DEF Simple
        <4>2. QED BY <2>2, <4>1 DEF Escape
      <3>5. ~UnicodeEscape BY <3>1, <3>3 DEF UnicodeEscape
      <3>6. QED BY <3>4, <3>5
    <2>3. QED BY <2>1, <2>2
  <1>5. "escape" \in Errors BY DEF Errors
  <1>6. QED BY <1>2, <1>4, <1>5 DEF BadEscape, BadUnicodeEscape, Failed

LEMMA LeadLookup ==
  ASSUME NEW b, IsLead(b)
  PROVE  /\ b \in Nat /\ b <= 255
         /\ SequenceLength(b) \in 2..4
         /\ SequenceLength(b) = 2 => 192 <= b /\ b <= 223 /\ Lookup(b) = "2"
         /\ SequenceLength(b) = 3 => 224 <= b /\ b <= 239 /\ Lookup(b) = "3"
         /\ SequenceLength(b) = 4 => 240 <= b /\ b <= 247 /\ Lookup(b) = "4"
PROOF
  <1>1. b \in Nat /\ 192 <= b /\ b <= 247 BY SMT DEF IsLead
  <1>2. /\ SequenceLength(b) \in 2..4
        /\ SequenceLength(b) = 2 => b <= 223
        /\ SequenceLength(b) = 3 => 224 <= b /\ b <= 239
        /\ SequenceLength(b) = 4 => 240 <= b
    BY <1>1, SMT DEF SequenceLength
  <1>3. b <= 255 BY <1>1
  <1>4. /\ 192 <= b /\ b <= 223 => Lookup(b) = "2"
        /\ 224 <= b /\ b <= 239 => Lookup(b) = "3"
        /\ 240 <= b /\ b <= 247 => Lookup(b) = "4"
    BY <1>1, <1>3, Classes
  <1>5. QED BY <1>1, <1>2, <1>3, <1>4

\* An octet that is missing.
LEMMA BadOctetRead ==
  ASSUME Constants, TypeOK, Scan, IsLead(at(offset)),
         \E k \in 1..SequenceLength(at(offset)) - 1 : at(offset + k) < 128
  PROVE  Failed
PROOF
  <1>1. PICK n : n = SequenceLength(at(offset)) OBVIOUS
  <1>2. /\ n \in 2..4
        /\ n = 2 => Lookup(at(offset)) = "2"
        /\ n = 3 => Lookup(at(offset)) = "3"
        /\ n = 4 => Lookup(at(offset)) = "4"
    BY <1>1, LeadLookup
  <1>3. PICK k \in 1..n - 1 : at(offset + k) < 128 BY <1>1
  <1>4. at(offset + k) \in Nat
    <2>1. text \in Texts /\ offset \in Nat BY DEF TypeOK
    <2>2. offset + k \in Nat \ {0} BY <1>2, <2>1
    <2>3. QED BY <2>1, <2>2, Bytes
  <1>5. ~IsOctet(at(offset + k)) BY <1>3, <1>4 DEF IsOctet
  <1>6. "octet" \in Errors BY DEF Errors
  <1>7. ASSUME NEW c, ~(Sequence(n, c) \/ Overlong(n, c)), Sequence(n, c) \/ Overlong(n, c) \/ BadOctet(n, c)
        PROVE  Failed
    BY <1>6, <1>7 DEF BadOctet, Failed
  <1>8. \A c : ~(Sequence(n, c) \/ Overlong(n, c)) BY <1>3, <1>5 DEF Sequence, Overlong
  <1>9. CASE n = 2 BY <1>2, <1>7, <1>8, <1>9, ScanBy
  <1>10. CASE n = 3 BY <1>2, <1>7, <1>8, <1>10, ScanBy
  <1>11. CASE n = 4 BY <1>2, <1>7, <1>8, <1>11, ScanBy
  <1>12. QED BY <1>2, <1>9, <1>10, <1>11

\* The bits of a sequence say whether it is overlong or too large.
LEMMA Bounds ==
  ASSUME NEW b \in Nat, NEW x \in Nat, NEW y \in Nat, NEW z \in Nat,
         128 <= x, x <= 191, 128 <= y, y <= 191, 128 <= z, z <= 191
  PROVE  /\ x % 64 = x - 128 /\ y % 64 = y - 128 /\ z % 64 = z - 128
         /\ 192 <= b /\ b <= 223 =>
              /\ b % 32 = b - 192
              /\ ((b - 192) * 64) + (x - 128) < 128 <=> b < 194
         /\ 224 <= b /\ b <= 239 =>
              /\ b % 16 = b - 224
              /\ ((((b - 224) * 64) + (x - 128)) * 64) + (y - 128) < 2048 <=> b = 224 /\ x < 160
         /\ 240 <= b /\ b <= 247 =>
              /\ b % 8 = b - 240
              /\ ((((((b - 240) * 64) + (x - 128)) * 64) + (y - 128)) * 64) + (z - 128) < 65536
                   <=> b = 240 /\ x < 144
              /\ ((((((b - 240) * 64) + (x - 128)) * 64) + (y - 128)) * 64) + (z - 128) > 1114111
                   <=> b > 244 \/ (b = 244 /\ x >= 144)
PROOF
  <1>1. x % 64 = x - 128 /\ y % 64 = y - 128 /\ z % 64 = z - 128 BY SMT
  <1>2. 192 <= b /\ b <= 223 => b % 32 = b - 192 BY SMT
  <1>3. 224 <= b /\ b <= 239 => b % 16 = b - 224 BY SMT
  <1>4. 240 <= b /\ b <= 247 => b % 8 = b - 240 BY SMT
  <1>5. 192 <= b /\ b <= 223 =>
          (((b - 192) * 64) + (x - 128) < 128 <=> b < 194)
    BY SMT
  <1>6. 224 <= b /\ b <= 239 =>
          (((((b - 224) * 64) + (x - 128)) * 64) + (y - 128) < 2048 <=> b = 224 /\ x < 160)
    BY SMT
  <1>7. 240 <= b /\ b <= 247 =>
          (((((((b - 240) * 64) + (x - 128)) * 64) + (y - 128)) * 64) + (z - 128) < 65536
             <=> b = 240 /\ x < 144)
    BY SMT
  <1>8. 240 <= b /\ b <= 247 =>
          (((((((b - 240) * 64) + (x - 128)) * 64) + (y - 128)) * 64) + (z - 128) > 1114111
             <=> b > 244 \/ (b = 244 /\ x >= 144))
    BY SMT
  <1>9. QED BY <1>1, <1>2, <1>3, <1>4, <1>5, <1>6, <1>7, <1>8, SMT

\* A sequence that is whole, and overlong or too large.
LEMMA WholeRead ==
  ASSUME Constants, TypeOK, Scan, NEW s \in Seq(Byte), s = text.bytes,
         NEW m, m = Masked(s, offset),
         Whole(m, offset, Len(s)), IsOverlong(m, offset) \/ IsTooLarge(m, offset)
  PROVE  Failed \/ (UNCHANGED <<text, pc, start, errorStr, decoded>> /\ Lost')
PROOF
  <1>1. offset \in Nat \ {0} /\ Len(s) \in Nat BY DEF TypeOK
  <1>2. PICK n, b : b = m[offset] /\ n = SequenceLength(b) OBVIOUS
  <1>3. IsLead(b) /\ offset + n - 1 <= Len(s) /\ \A k \in 1..n - 1 : IsTrail(m[offset + k])
    BY <1>2 DEF Whole
  <1>17. /\ \A k \in 1..Len(s) : k <= offset => m[k] = s[k]
         /\ \A k \in 1..Len(s) : Taken(s[k], m[k])
    BY <1>1, MaskedIs
  <1>4. /\ b \in Nat /\ b <= 255 /\ n \in 2..4
        /\ n = 2 => 192 <= b /\ b <= 223 /\ Lookup(b) = "2"
        /\ n = 3 => 224 <= b /\ b <= 239 /\ Lookup(b) = "3"
        /\ n = 4 => 240 <= b /\ b <= 247 /\ Lookup(b) = "4"
    BY <1>2, <1>3, LeadLookup
  <1>5. at(offset) = b
    <2>1. offset \in 1..Len(s) BY <1>1, <1>3, <1>4
    <2>2. m[offset] = s[offset] BY <1>1, <1>17, <2>1
    <2>3. QED BY <1>2, <2>1, <2>2 DEF at
  <1>6. ASSUME NEW k \in 1..n - 1, NEW o, o = m[offset + k]
        PROVE  /\ o \in Nat /\ 128 <= o /\ o <= 191
               /\ at(offset + k) \in Nat /\ 128 <= at(offset + k)
               /\ at(offset + k) % 64 = o % 64
    <2>1. offset + k \in 1..Len(s) BY <1>1, <1>3, <1>4
    <2>2. at(offset + k) = s[offset + k] BY <2>1 DEF at
    <2>3. Taken(s[offset + k], o) BY <1>6, <1>17, <2>1
    <2>4. IsTrail(o) BY <1>3, <1>6
    <2>5. o \in Nat /\ 128 <= o /\ o <= 191 BY <2>4, SMT DEF IsTrail
    <2>6. QED BY <2>2, <2>3, <2>5, TakenBits
  <1>7. PICK c : c = Lookup(b) OBVIOUS
  <1>8. /\ n = 2 => c = "2"
        /\ n = 3 => c = "3"
        /\ n = 4 => c = "4"
    BY <1>4, <1>7
  <1>9. \A k \in 1..n - 1 : at(offset + k) \in Nat /\ at(offset + k) >= 128
    <2>1. ASSUME NEW k \in 1..n - 1 PROVE at(offset + k) \in Nat /\ at(offset + k) >= 128
      <3>1. PICK o : o = at(offset + k) OBVIOUS
      <3>2. o \in Nat /\ 128 <= o BY <1>6, <3>1
      <3>3. QED BY <3>1, <3>2
    <2>2. QED BY <2>1
  <1>10. /\ Ucs(n) >= Least(n) => Emit(n, Ucs(n)) /\ UNCHANGED lastHigh
         /\ ~(Ucs(n) >= Least(n)) => SetError("overlong")
    BY <1>4, <1>5, <1>7, <1>8, <1>9, SequenceRead
  <1>11. ~(Ucs(n) >= Least(n)) => Failed BY <1>10 DEF Failed, Errors
  <1>12. ASSUME Ucs(n) >= Least(n), Ucs(n) > 1114111
         PROVE  UNCHANGED <<text, pc, start, errorStr, decoded>> /\ Lost'
    <2>1. /\ UNCHANGED <<text, pc, start, errorStr, decoded>>
          /\ esc' = Append(esc, Ucs(n))
      BY <1>10, <1>12 DEF Emit
    <2>2. PICK t, u : t = esc /\ u = Ucs(n) OBVIOUS
    <2>3. t \in Seq(Units) /\ u > 1114111 BY <1>12, <2>2 DEF TypeOK
    <2>4. Len(Append(t, u)) = Len(t) + 1 /\ Append(t, u)[Len(t) + 1] = u BY <2>3
    <2>5. Len(t) + 1 \in 1..Len(Append(t, u)) BY <2>3, <2>4, SMT
    <2>6. \E i \in 1..Len(Append(t, u)) : Append(t, u)[i] > 1114111 BY <2>3, <2>4, <2>5
    <2>7. esc' = Append(t, u) BY <2>1, <2>2
    <2>8. QED BY <2>1, <2>6, <2>7 DEF Lost
  <1>13. CASE n = 2
    <2>1. 1 \in 1..n - 1 BY <1>13, SMT
    <2>2. PICK x : x = m[offset + 1] OBVIOUS
    <2>3. at(offset + 1) % 64 = x % 64 /\ x \in Nat /\ 128 <= x /\ x <= 191
      BY <1>6, <2>1, <2>2
    <2>4. 192 <= b /\ b <= 223 BY <1>4, <1>13
    <2>5. /\ x % 64 = x - 128 /\ b % 32 = b - 192
          /\ ((b - 192) * 64) + (x - 128) < 128 <=> b < 194
      BY <1>4, <2>3, <2>4, Bounds
    <2>6. Ucs(n) = ((b - 192) * 64) + (x - 128)
      BY <1>5, <1>13, <2>3, <2>5 DEF Ucs, Lead, Bits
    <2>7. b < 194 BY <1>2, <1>4, <2>4, SMT DEF IsOverlong, IsTooLarge
    <2>8. Least(n) = 128 BY <1>13 DEF Least
    <2>9. PICK u : u = ((b - 192) * 64) + (x - 128) OBVIOUS
    <2>10. u \in Nat /\ u < 128 BY <1>4, <2>3, <2>4, <2>5, <2>7, <2>9
    <2>11. ~(Ucs(n) >= Least(n)) BY <2>6, <2>8, <2>9, <2>10
    <2>12. QED BY <1>11, <2>11
  <1>14. CASE n = 3
    <2>1. 1 \in 1..n - 1 /\ 2 \in 1..n - 1 BY <1>14, SMT
    <2>2. PICK x, y : x = m[offset + 1] /\ y = m[offset + 2] OBVIOUS
    <2>3. /\ at(offset + 1) % 64 = x % 64 /\ x \in Nat /\ 128 <= x /\ x <= 191
          /\ at(offset + 2) % 64 = y % 64 /\ y \in Nat /\ 128 <= y /\ y <= 191
      BY <1>6, <2>1, <2>2
    <2>4. 224 <= b /\ b <= 239 BY <1>4, <1>14
    <2>5. /\ x % 64 = x - 128 /\ y % 64 = y - 128 /\ b % 16 = b - 224
          /\ ((((b - 224) * 64) + (x - 128)) * 64) + (y - 128) < 2048 <=> b = 224 /\ x < 160
      BY <1>4, <2>3, <2>4, Bounds
    <2>6. Ucs(n) = ((((b - 224) * 64) + (x - 128)) * 64) + (y - 128)
      BY <1>5, <1>14, <2>3, <2>5 DEF Ucs, Lead, Bits
    <2>7. b = 224 /\ x < 160 BY <1>2, <1>4, <2>2, <2>4, SMT DEF IsOverlong, IsTooLarge
    <2>8. Least(n) = 2048 BY <1>14 DEF Least
    <2>9. PICK u : u = ((((b - 224) * 64) + (x - 128)) * 64) + (y - 128) OBVIOUS
    <2>10. u \in Nat /\ u < 2048 BY <1>4, <2>3, <2>4, <2>5, <2>7, <2>9
    <2>11. ~(Ucs(n) >= Least(n)) BY <2>6, <2>8, <2>9, <2>10
    <2>12. QED BY <1>11, <2>11
  <1>15. CASE n = 4
    <2>1. 1 \in 1..n - 1 /\ 2 \in 1..n - 1 /\ 3 \in 1..n - 1 BY <1>15, SMT
    <2>2. PICK x, y, z : x = m[offset + 1] /\ y = m[offset + 2] /\ z = m[offset + 3] OBVIOUS
    <2>3. /\ at(offset + 1) % 64 = x % 64 /\ x \in Nat /\ 128 <= x /\ x <= 191
          /\ at(offset + 2) % 64 = y % 64 /\ y \in Nat /\ 128 <= y /\ y <= 191
          /\ at(offset + 3) % 64 = z % 64 /\ z \in Nat /\ 128 <= z /\ z <= 191
      BY <1>6, <2>1, <2>2
    <2>4. 240 <= b /\ b <= 247 BY <1>4, <1>15
    <2>5. PICK u : u = ((((((b - 240) * 64) + (x - 128)) * 64) + (y - 128)) * 64) + (z - 128)
      OBVIOUS
    <2>6. /\ x % 64 = x - 128 /\ y % 64 = y - 128 /\ z % 64 = z - 128 /\ b % 8 = b - 240
          /\ u < 65536 <=> b = 240 /\ x < 144
          /\ u > 1114111 <=> b > 244 \/ (b = 244 /\ x >= 144)
      BY <1>4, <2>3, <2>4, <2>5, Bounds, SMT
    <2>7. Ucs(n) = u
      BY <1>5, <1>15, <2>3, <2>5, <2>6, SMT DEF Ucs, Lead, Bits
    <2>8. u \in Nat
      <3>1. b \in Nat /\ b - 240 \in Nat /\ x - 128 \in Nat /\ y - 128 \in Nat /\ z - 128 \in Nat
        BY <1>4, <2>3, <2>4
      <3>2. QED BY <2>5, <3>1
    <2>9. Least(n) = 65536 BY <1>15 DEF Least
    <2>10. u < 65536 \/ u > 1114111
      <3>1. \/ b < 194 \/ (b = 224 /\ x < 160) \/ (b = 240 /\ x < 144)
            \/ b > 244 \/ (b = 244 /\ x >= 144)
        BY <1>2, <2>2, Zenon DEF IsOverlong, IsTooLarge
      <3>2. ~(b < 194) /\ b # 224 BY <1>4, <2>4, SMT
      <3>3. QED BY <2>6, <3>1, <3>2, SMT
    <2>11. CASE u < 65536
      <3>1. ~(Ucs(n) >= Least(n)) BY <2>7, <2>8, <2>9, <2>11
      <3>2. QED BY <1>11, <3>1
    <2>12. CASE u > 1114111
      <3>1. Ucs(n) >= Least(n) BY <2>7, <2>8, <2>9, <2>12, SMT
      <3>2. Ucs(n) > 1114111 BY <2>7, <2>12, SMT
      <3>3. QED BY <1>12, <3>1, <3>2, SMT
    <2>13. QED BY <2>10, <2>11, <2>12
  <1>16. QED BY <1>4, <1>13, <1>14, <1>15

LEMMA MalformedStep ==
  ASSUME Constants, IInv, Scan, Malformed(text.bytes, offset)
  PROVE  Failed \/ (UNCHANGED <<text, pc, start, errorStr, decoded>> /\ Lost')
PROOF
  <1>1. PICK s \in Seq(Byte) : s = text.bytes BY DEF Constants, IInv, TypeOK
  <1>2. End = Len(s) /\ End \in Nat BY <1>1 DEF End
  <1>3. pc = "scan" /\ TypeOK /\ offset \in Nat \ {0} /\ offset <= End
    BY ScanBy DEF IInv, TypeOK, Reading
  <1>4. \A k \in Nat : offset + k <= End => at(offset + k) = s[offset + k]
    BY <1>1, <1>2 DEF at
  <1>5. at(offset) = s[offset] BY <1>1, <1>2, <1>3 DEF at
  <1>6. at(offset) \in Nat /\ at(offset) <= 255 BY <1>3, Bytes DEF TypeOK
  <1>7. at(offset) # 0 => offset < End BY <1>3, Bytes DEF TypeOK
  <1>8. CASE s[offset] = 0 \/ s[offset] \in 248..255
    <2>1. Lookup(at(offset)) \in {"DS_ISNULL", "DS_UTFLENERROR"}
      <3>1. at(offset) \in 248..255 => 248 <= at(offset) BY <1>6, SMT
      <3>2. QED BY <1>5, <1>6, <1>8, <3>1, Classes
    <2>2. Unmatched BY <2>1, ScanBy
    <2>3. "unmatched" \in Errors /\ "length" \in Errors BY DEF Errors
    <2>4. QED BY <2>2, <2>3 DEF Unmatched, Failed
  <1>9. CASE s[offset] = 92 /\ s[offset + 1] # 117 /\ \A p \in Shorts : s[offset + 1] # p[1]
    <2>1. at(offset + 1) = s[offset + 1] BY <1>2, <1>3, <1>4, <1>5, <1>7, <1>9
    <2>2. /\ at(offset) = 92 /\ at(offset + 1) # 117
          /\ \A p \in Shorts : at(offset + 1) # p[1]
      BY <1>5, <1>9, <2>1
    <2>3. QED BY <1>3, <2>2, BadEscapeRead
  <1>10. CASE /\ s[offset] = 92 /\ s[offset + 1] = 117
              /\ \E k \in offset + 2..offset + 5 :
                   k <= Len(s) /\ \A d \in 0..15 : s[k] \notin Digits(d)
    <2>1. at(offset + 1) = s[offset + 1] BY <1>2, <1>3, <1>4, <1>5, <1>7, <1>10
    <2>2. PICK k \in offset + 2..offset + 5 :
            k <= Len(s) /\ \A d \in 0..15 : s[k] \notin Digits(d)
      BY <1>10
    <2>3. k - offset \in 2..5 /\ k = offset + (k - offset) BY <1>3, <2>2, SMT
    <2>4. at(offset + (k - offset)) = s[k] BY <1>2, <1>4, <2>2, <2>3
    <2>5. \E i \in 2..5 : \A d \in 0..15 : at(offset + i) \notin Digits(d)
      BY <2>2, <2>3, <2>4
    <2>6. at(offset) = 92 /\ at(offset + 1) = 117 BY <1>5, <1>10, <2>1
    <2>7. QED BY <1>3, <2>5, <2>6, BadEscapeRead
  <1>11. CASE /\ IsLead(s[offset])
              /\ \E k \in offset + 1..offset + SequenceLength(s[offset]) - 1 :
                   k <= Len(s) /\ s[k] < 128
    <2>1. PICK n : n = SequenceLength(s[offset]) OBVIOUS
    <2>2. n \in 2..4 BY <1>11, <2>1, LeadLookup
    <2>3. PICK k \in offset + 1..offset + n - 1 : k <= Len(s) /\ s[k] < 128 BY <1>11, <2>1
    <2>4. k - offset \in 1..n - 1 /\ k = offset + (k - offset) BY <1>3, <2>2, <2>3, SMT
    <2>5. at(offset + (k - offset)) = s[k] BY <1>2, <1>4, <2>2, <2>3, <2>4
    <2>6. \E i \in 1..SequenceLength(at(offset)) - 1 : at(offset + i) < 128
      BY <1>5, <2>1, <2>3, <2>4, <2>5
    <2>7. QED BY <1>3, <1>5, <1>11, <2>6, BadOctetRead
  <1>12. CASE /\ Whole(Masked(s, offset), offset, Len(s))
              /\ IsOverlong(Masked(s, offset), offset) \/ IsTooLarge(Masked(s, offset), offset)
    BY <1>1, <1>3, <1>12, WholeRead
  <1>13. QED BY <1>1, <1>8, <1>9, <1>10, <1>11, <1>12 DEF Malformed

\* What is lost stays so: a pair takes the place of a high surrogate.
LEMMA LostStep ==
  ASSUME Constants, IInv, Scan, Lost
  PROVE  Failed \/ (UNCHANGED <<text, pc, start, errorStr, decoded>> /\ Lost')
PROOF
  <1>1. PICK t \in Seq(Units) : t = esc BY DEF IInv, TypeOK
  <1>2. PICK i \in 1..Len(t) : t[i] > 1114111 BY <1>1 DEF Lost
  <1>3. ~InRange BY <1>1, <1>2, UnitsAre DEF InRange
  <1>4. ASSUME NEW n, NEW u, Emit(n, u)
        PROVE  UNCHANGED <<text, pc, start, errorStr, decoded>> /\ Lost'
    <2>1. esc' = Append(t, u) BY <1>1, <1>4 DEF Emit
    <2>2. Append(t, u)[i] = t[i] /\ i \in 1..Len(Append(t, u)) BY <1>2
    <2>3. Lost' BY <1>2, <2>1, <2>2 DEF Lost
    <2>4. QED BY <1>4, <2>3 DEF Emit
  <1>5. CASE Quote BY <1>3, <1>5 DEF Quote
  <1>6. CASE NotAString BY <1>6 DEF NotAString, Failed, Errors
  <1>7. CASE Unmatched BY <1>7 DEF Unmatched, Failed, Errors
  <1>8. CASE Plain BY <1>4, <1>8 DEF Plain
  <1>9. CASE Escape BY <1>4, <1>9 DEF Escape
  <1>10. CASE BadEscape BY <1>10 DEF BadEscape, Failed, Errors
  <1>11. CASE BadUnicodeEscape BY <1>11 DEF BadUnicodeEscape, Failed, Errors
  <1>12. CASE UnicodeEscape
    <2>1. UNCHANGED <<text, pc, start, errorStr, decoded>> BY <1>12 DEF UnicodeEscape
    <2>2. pc = "scan" BY <1>12 DEF UnicodeEscape, Case
    <2>3. CASE IsLow(Ch) /\ lastHigh = offset
      <3>1. Len(t) > 0 /\ IsHigh(t[Len(t)]) BY <1>1, <2>2, <2>3 DEF IInv, Surrogates
      <3>2. PICK v : v = t[i] OBVIOUS
      <3>3. v \in Nat /\ v > 1114111 BY <1>2, <3>2, UnitsAre
      <3>4. ~IsHigh(v) BY <3>3, SMT DEF IsHigh
      <3>5. i # Len(t) BY <3>1, <3>2, <3>4
      <3>6. esc' = [t EXCEPT ![Len(t)] = Pair(t[Len(t)], Ch)]
        BY <1>1, <2>3, <1>12 DEF UnicodeEscape
      <3>7. PICK x : x = Pair(t[Len(t)], Ch) OBVIOUS
      <3>8. Len([t EXCEPT ![Len(t)] = x]) = Len(t) /\ [t EXCEPT ![Len(t)] = x][i] = t[i]
        BY <3>1, <3>5
      <3>9. esc' = [t EXCEPT ![Len(t)] = x] BY <3>6, <3>7
      <3>10. Len(esc') = Len(t) /\ esc'[i] = t[i] BY <3>8, <3>9
      <3>11. Lost' BY <1>2, <3>10 DEF Lost
      <3>12. QED BY <2>1, <3>11
    <2>4. CASE ~(IsLow(Ch) /\ lastHigh = offset)
      <3>1. PICK u : u = Ch OBVIOUS
      <3>2. esc' = Append(t, u) BY <1>1, <1>12, <2>4, <3>1 DEF UnicodeEscape
      <3>3. Append(t, u)[i] = t[i] /\ i \in 1..Len(Append(t, u)) BY <1>2
      <3>4. Lost' BY <1>2, <3>2, <3>3 DEF Lost
      <3>5. QED BY <2>1, <3>4
    <2>5. QED BY <2>3, <2>4
  <1>13. ASSUME NEW n, NEW c, Sequence(n, c) \/ Overlong(n, c) \/ BadOctet(n, c)
         PROVE  Failed \/ (UNCHANGED <<text, pc, start, errorStr, decoded>> /\ Lost')
    <2>1. CASE Sequence(n, c) BY <1>4, <2>1 DEF Sequence
    <2>2. CASE Overlong(n, c) BY <2>2 DEF Overlong, Failed, Errors
    <2>3. CASE BadOctet(n, c) BY <2>3 DEF BadOctet, Failed, Errors
    <2>4. QED BY <1>13, <2>1, <2>2, <2>3
  <1>14. QED
    BY <1>5, <1>6, <1>7, <1>8, <1>9, <1>10, <1>11, <1>12, <1>13 DEF Scan

\* The quote at the end of what has been read.
LEMMA CloseStep ==
  ASSUME Constants, IInv, Scan, NEW p \in Places, Standing(p), text.bytes[offset] = 34
  PROVE  /\ decoded' = Append(decoded, p.said) /\ start' = offset + 1 /\ pc' = "next"
         /\ UNCHANGED <<text, errorStr>>
PROOF
  <1>1. pc = "scan" /\ TypeOK /\ offset \in Nat \ {0} /\ offset <= End
    BY ScanBy DEF IInv, TypeOK, Reading
  <1>2. at(offset) = 34 BY <1>1 DEF at, End
  <1>3. Lookup(at(offset)) = "DS_ISQUOTE" BY <1>2, Classes
  <1>4. Quote \/ NotAString BY <1>3, ScanBy
  <1>5. p.said \in Seq(CodePoint) /\ esc = p.said BY DEF Places, Standing
  <1>6. InRange
    <2>1. PICK t \in Seq(CodePoint) : t = esc BY <1>5
    <2>2. ASSUME NEW i \in 1..Len(t) PROVE t[i] <= 1114111
      <3>1. t[i] <= MaxCodePoint BY CodePointsAre
      <3>2. QED BY <3>1 DEF MaxCodePoint
    <2>3. QED BY <2>1, <2>2 DEF InRange
  <1>7. Quote BY <1>4, <1>6 DEF NotAString
  <1>8. QED BY <1>5, <1>7 DEF Quote

-----------------------------------------------------------------------------
(* The strings of a text, one after the other. *)

\* Where decode_string is in the strings R of a text that is well-formed or not.
Following(R, wellFormed) ==
  /\ Len(decoded) <= Len(R)
  /\ \A m \in 1..Len(decoded) : decoded[m] = R[m][Len(R[m])].said
  /\ pc \in {"decode_string", "scan"} => Len(decoded) < Len(R) /\ errorStr = "none"
  /\ pc = "decode_string" => start + 1 = R[Len(decoded) + 1][1].at
  /\ pc = "scan" =>
       \/ \E k \in 1..Len(R[Len(decoded) + 1]) : Standing(R[Len(decoded) + 1][k])
       \/ ~wellFormed /\ Lost
  /\ pc = "next" =>
       /\ Len(decoded) > 0 /\ start = EndOf(R[Len(decoded)]) + 1 /\ errorStr = "none"
       /\ wellFormed \/ Len(decoded) < Len(R)
  /\ pc \in {"free", "done"} =>
       \/ errorStr = "memory"
       \/ IF wellFormed THEN errorStr = "none" /\ Len(decoded) = Len(R) ELSE errorStr # "none"

LEMMA FollowingInit ==
  ASSUME Constants, Start, NEW R, NEW w, Describes(R, text.bytes, w)
  PROVE  Following(R, w)
PROOF
  <1>1. R \in Seq(Seq(Places)) /\ R # <<>> BY DEF Describes, AreReadings
  <1>2. Len(R) \in Nat /\ Len(R) > 0 BY <1>1
  <1>3. pc = "decode_string" /\ start = 1 /\ errorStr = "none" /\ decoded = <<>> BY DEF Start
  <1>4. Len(decoded) = 0 BY <1>3
  <1>5. R[1][1].at = 2
    <2>1. 1 \in 1..Len(R) BY <1>2
    <2>2. IsReading(text.bytes, 2, R[1]) BY <2>1 DEF Describes, AreReadings
    <2>3. QED BY <2>2 DEF IsReading
  <1>6. start + 1 = R[Len(decoded) + 1][1].at BY <1>3, <1>4, <1>5
  <1>7. \A m \in 1..Len(decoded) : decoded[m] = R[m][Len(R[m])].said BY <1>4
  <1>8. QED BY <1>2, <1>3, <1>4, <1>6, <1>7 DEF Following

\* An error ends what is malformed.
LEMMA FollowingFailed ==
  ASSUME NEW R, NEW w, Following(R, w), Failed, ~w
  PROVE  Following(R, w)'
PROOF
  <1>1. PICK msg \in Errors : SetError(msg) BY DEF Failed
  <1>2. msg # "none" BY DEF Errors
  <1>3. pc' = "free" /\ errorStr' = msg /\ UNCHANGED decoded BY <1>1 DEF SetError
  <1>4. QED BY <1>2, <1>3 DEF Following

LEMMA FollowingOpen ==
  ASSUME Constants, IInv, NEW R, NEW w, Describes(R, text.bytes, w), Following(R, w),
         OpenFits \/ OpenGrows
  PROVE  Following(R, w)'
PROOF
  <1>1. /\ pc = "decode_string" /\ pc' = "scan" /\ offset' = start + 1 /\ esc' = <<>>
        /\ lastHigh' = 0 /\ UNCHANGED <<text, errorStr, decoded>>
    BY DEF OpenFits, OpenGrows
  <1>2. start \in Nat BY DEF IInv, TypeOK
  <1>3. PICK n : n = Len(decoded) OBVIOUS
  <1>4. n \in Nat /\ n < Len(R) /\ start + 1 = R[n + 1][1].at /\ errorStr = "none"
    BY <1>1, <1>3 DEF Following, IInv, TypeOK
  <1>5. R \in Seq(Seq(Places)) BY DEF Describes, AreReadings
  <1>6. PICK r : r = R[n + 1] OBVIOUS
  <1>7. n + 1 \in 1..Len(R) BY <1>4, <1>5
  <1>8. r \in Seq(Places) BY <1>5, <1>6, <1>7
  <1>9. r # <<>> /\ r[1].unit = 0 /\ r[1].escaped = FALSE /\ r[1].said = <<>>
    <2>1. \E i : IsReading(text.bytes, i, r) BY <1>6, <1>7 DEF Describes, AreReadings
    <2>2. PICK i : IsReading(text.bytes, i, r) BY <2>1
    <2>3. QED BY <2>2 DEF IsReading
  <1>10. 1 \in 1..Len(r) BY <1>8, <1>9
  <1>11. Standing(r[1])' BY <1>1, <1>2, <1>4, <1>6, <1>9 DEF Standing
  <1>12. \E k \in 1..Len(r) : Standing(r[k])' BY <1>10, <1>11
  <1>13. QED BY <1>1, <1>3, <1>4, <1>6, <1>12 DEF Following

LEMMA FollowingScan ==
  ASSUME Constants, IInv, NEW R, NEW w, Describes(R, text.bytes, w), Following(R, w), Scan
  PROVE  Following(R, w)'
PROOF
  <1>1. pc = "scan" /\ errorStr = "none" BY ScanBy DEF Following
  <1>2. PICK n : n = Len(decoded) OBVIOUS
  <1>3. n \in Nat /\ n < Len(R) BY <1>1, <1>2 DEF Following, IInv, TypeOK
  <1>4. R \in Seq(Seq(Places)) BY DEF Describes, AreReadings
  <1>5. PICK r : r = R[n + 1] OBVIOUS
  <1>6. n + 1 \in 1..Len(R) BY <1>3, <1>4
  <1>7. r \in Seq(Places) BY <1>4, <1>5, <1>6
  <1>8. CASE ~w /\ Lost
    <2>1. Failed \/ (UNCHANGED <<text, pc, start, errorStr, decoded>> /\ Lost')
      BY <1>8, LostStep
    <2>2. CASE Failed BY <1>8, <2>2, FollowingFailed
    <2>3. CASE UNCHANGED <<text, pc, start, errorStr, decoded>> /\ Lost'
      BY <1>1, <1>8, <2>3 DEF Following
    <2>4. QED BY <2>1, <2>2, <2>3
  <1>9. CASE ~(~w /\ Lost)
    <2>1. PICK k \in 1..Len(r) : Standing(r[k]) BY <1>1, <1>2, <1>5, <1>9 DEF Following
    <2>2. PICK p : p = r[k] OBVIOUS
    <2>3. p \in Places /\ Standing(p) BY <1>7, <2>1, <2>2
    <2>4. CASE k # Len(r)
      <3>1. k \in 1..Len(r) - 1 /\ k + 1 \in 1..Len(r) BY <1>7, <2>4
      <3>2. PICK q : q = r[k + 1] OBVIOUS
      <3>3. q \in Places BY <1>7, <3>1, <3>2
      <3>4. Leads(text.bytes, p, q)
        <4>1. \E i : IsReading(text.bytes, i, r) BY <1>5, <1>6 DEF Describes, AreReadings
        <4>2. PICK i : IsReading(text.bytes, i, r) BY <4>1
        <4>3. QED BY <2>2, <3>1, <3>2, <4>2 DEF IsReading
      <3>5. Standing(q)' /\ UNCHANGED <<text, pc, start, errorStr, decoded>>
        BY <2>3, <3>3, <3>4, PieceStep
      <3>6. \E i \in 1..Len(r) : Standing(r[i])' BY <3>1, <3>2, <3>5
      <3>7. QED BY <1>1, <1>2, <1>5, <3>5, <3>6 DEF Following
    <2>5. CASE k = Len(r) /\ text.bytes[p.at] = 34 /\ (w \/ n + 1 < Len(R))
      <3>1. offset = p.at BY <2>3 DEF Standing
      <3>2. /\ decoded' = Append(decoded, p.said) /\ start' = offset + 1 /\ pc' = "next"
            /\ UNCHANGED <<text, errorStr>>
        BY <2>3, <2>5, <3>1, CloseStep
      <3>3. PICK d, e : d = decoded /\ e = Append(decoded, p.said) OBVIOUS
      <3>4. d \in Seq(Seq(Units)) /\ n = Len(d) /\ decoded' = e /\ e = Append(d, p.said)
        BY <1>2, <3>2, <3>3 DEF IInv, TypeOK
      <3>5. Len(e) = n + 1 BY <3>4
      <3>6. ASSUME NEW m \in 1..Len(e) PROVE e[m] = R[m][Len(R[m])].said
        <4>1. CASE m \in 1..n
          <5>1. e[m] = d[m] BY <3>4, <4>1
          <5>2. d[m] = R[m][Len(R[m])].said BY <1>2, <3>3, <4>1 DEF Following
          <5>3. QED BY <5>1, <5>2
        <4>2. CASE m = n + 1
          <5>1. e[m] = p.said BY <3>4, <4>2
          <5>2. QED BY <1>5, <2>2, <2>5, <4>2, <5>1
        <4>3. QED BY <1>3, <3>5, <4>1, <4>2
      <3>7. start' = EndOf(R[n + 1]) + 1 BY <1>5, <2>2, <2>5, <3>1, <3>2 DEF EndOf
      <3>8. /\ Len(decoded') = n + 1 /\ n + 1 <= Len(R) /\ n + 1 > 0
            /\ \A m \in 1..Len(decoded') : decoded'[m] = R[m][Len(R[m])].said
            /\ start' = EndOf(R[Len(decoded')]) + 1
            /\ w \/ Len(decoded') < Len(R)
        BY <1>3, <1>6, <2>5, <3>4, <3>5, <3>6, <3>7
      <3>9. pc' = "next" /\ errorStr' = "none" BY <1>1, <3>2
      <3>10. QED BY <3>8, <3>9 DEF Following
    <2>6. CASE k = Len(r) /\ ~(text.bytes[p.at] = 34 /\ (w \/ n + 1 < Len(R)))
      <3>1. EndOf(R[n + 1]) = p.at BY <1>5, <2>2, <2>6 DEF EndOf
      <3>2. n + 1 < Len(R) => text.bytes[p.at] = 34
        <4>1. n + 1 < Len(R) => n + 1 \in 1..Len(R) - 1 BY <1>3, <1>4
        <4>2. QED BY <3>1, <4>1 DEF Describes, AreReadings
      <3>3. n + 1 = Len(R) BY <1>4, <1>6, <2>6, <3>2
      <3>4. IF w THEN text.bytes[p.at] = 34 ELSE Malformed(text.bytes, p.at)
        BY <3>1, <3>3 DEF Describes
      <3>5. ~w /\ Malformed(text.bytes, offset) BY <2>3, <2>6, <3>4 DEF Standing
      <3>6. Failed \/ (UNCHANGED <<text, pc, start, errorStr, decoded>> /\ Lost')
        BY <3>5, MalformedStep
      <3>7. CASE Failed BY <3>5, <3>7, FollowingFailed
      <3>8. CASE UNCHANGED <<text, pc, start, errorStr, decoded>> /\ Lost'
        BY <1>1, <3>5, <3>8 DEF Following
      <3>9. QED BY <3>6, <3>7, <3>8
    <2>7. QED BY <2>4, <2>5, <2>6
  <1>10. QED BY <1>8, <1>9

LEMMA FollowingNext ==
  ASSUME Constants, IInv, NEW R, NEW w, Describes(R, text.bytes, w), Following(R, w), NextString
  PROVE  Following(R, w)'
PROOF
  <1>1. pc = "next" /\ UNCHANGED <<text, errorStr, decoded>> BY DEF NextString
  <1>2. PICK n : n = Len(decoded) OBVIOUS
  <1>3. /\ n \in Nat /\ n > 0 /\ n <= Len(R) /\ start = EndOf(R[n]) + 1 /\ errorStr = "none"
        /\ w \/ n < Len(R)
    BY <1>1, <1>2 DEF Following, IInv, TypeOK
  <1>4. R \in Seq(Seq(Places)) /\ Len(R) \in Nat BY DEF Describes, AreReadings
  <1>5. PICK s \in Seq(Byte) : s = text.bytes BY DEF Constants, IInv, TypeOK
  <1>6. End = Len(s) /\ End \in Nat /\ s[End] = 0 BY <1>5 DEF Constants, IInv, TypeOK, End
  <1>7. start \in Nat \ {0} /\ start <= End BY <1>1 DEF IInv, TypeOK, Reading
  <1>8. at(start) = s[start] BY <1>5, <1>6, <1>7 DEF at
  <1>9. CASE n < Len(R)
    <2>1. n \in 1..Len(R) - 1 /\ n + 1 \in 1..Len(R) /\ n + 1 # 1 /\ n + 1 - 1 = n
      BY <1>3, <1>4, <1>9
    <2>2. PICK i : i = EndOf(R[n]) OBVIOUS
    <2>3. s[i + 1] = 44 /\ s[i + 2] = 34
      BY <1>5, <2>1, <2>2 DEF Describes, AreReadings
    <2>4. i \in Nat /\ start = i + 1
      <3>1. R[n] \in Seq(Places) /\ R[n] # <<>>
        <4>1. n \in 1..Len(R) BY <1>3, <1>4
        <4>2. \E j : IsReading(text.bytes, j, R[n]) BY <4>1 DEF Describes, AreReadings
        <4>3. QED BY <1>4, <4>1, <4>2 DEF IsReading
      <3>2. PICK r \in Seq(Places) : r = R[n] BY <3>1
      <3>3. Len(r) \in 1..Len(r) BY <3>1, <3>2
      <3>4. r[Len(r)] \in Places BY <3>3
      <3>5. QED BY <1>3, <2>2, <3>2, <3>4 DEF EndOf, Places
    <2>5. at(start) = 44 BY <1>8, <2>3, <2>4
    <2>6. start < End BY <1>7, <2>5, Bytes DEF IInv, TypeOK
    <2>7. at(start + 1) = 34
      <3>1. start + 1 = i + 2 /\ start + 1 <= Len(s) BY <1>6, <1>7, <2>4, <2>6
      <3>2. QED BY <1>5, <2>3, <3>1 DEF at
    <2>8. start' = start + 1 /\ pc' = "decode_string" BY <2>5, <2>7 DEF NextString
    <2>9. R[n + 1][1].at = i + 3
      <3>1. IsReading(text.bytes, EndOf(R[n]) + 3, R[n + 1])
        BY <2>1 DEF Describes, AreReadings
      <3>2. QED BY <2>2, <3>1 DEF IsReading
    <2>10. start' + 1 = R[n + 1][1].at BY <2>4, <2>8, <2>9
    <2>11. QED BY <1>1, <1>2, <1>3, <1>9, <2>8, <2>10 DEF Following
  <1>10. CASE ~(n < Len(R))
    <2>1. n = Len(R) /\ w BY <1>3, <1>4, <1>10
    <2>2. start = End BY <1>3, <1>5, <1>6, <2>1 DEF Describes
    <2>3. at(start) = 0 BY <1>6, <1>8, <2>2
    <2>4. pc' = "free" BY <2>3 DEF NextString
    <2>5. QED BY <1>1, <1>2, <1>3, <2>1, <2>4 DEF Following
  <1>11. QED BY <1>9, <1>10

LEMMA FollowingStep ==
  ASSUME Constants, IInv, NEW R, NEW w, Describes(R, text.bytes, w), Following(R, w),
         [Next]_vars
  PROVE  Following(R, w)'
PROOF
  <1>1. CASE OpenNoMemory
    <2>1. pc' = "free" /\ errorStr' = "memory" /\ UNCHANGED decoded
      BY <1>1 DEF OpenNoMemory, SetError
    <2>2. QED BY <2>1 DEF Following
  <1>2. CASE FreeBuffer
    <2>1. pc = "free" /\ pc' = "done" /\ UNCHANGED <<errorStr, decoded>> BY <1>2 DEF FreeBuffer
    <2>2. QED BY <2>1 DEF Following
  <1>3. CASE UNCHANGED vars BY <1>3 DEF Following, Standing, Lost, vars
  <1>4. QED
    BY <1>1, <1>2, <1>3, FollowingOpen, FollowingScan, FollowingNext DEF Next, Step, Done

\* At the end, each string has been decoded to what it says.
LEMMA Followed ==
  ASSUME IInv, NEW R \in Seq(Seq(Places)), NEW w, Following(R, w), pc = "done",
         errorStr # "memory"
  PROVE  IF w THEN errorStr = "none" /\ decoded = Said(R) ELSE errorStr # "none"
PROOF
  <1>1. IF w THEN errorStr = "none" /\ Len(decoded) = Len(R) ELSE errorStr # "none"
    BY DEF Following
  <1>2. PICK d \in Seq(Seq(Units)) : d = decoded BY DEF IInv, TypeOK
  <1>3. ASSUME w PROVE d = Said(R)
    <2>1. Len(d) = Len(R) BY <1>1, <1>2, <1>3
    <2>2. \A m \in 1..Len(R) : d[m] = R[m][Len(R[m])].said BY <1>2, <2>1 DEF Following
    <2>3. d = [m \in 1..Len(d) |-> d[m]] OBVIOUS
    <2>4. QED BY <2>1, <2>2, <2>3 DEF Said
  <1>4. QED BY <1>1, <1>2, <1>3

-----------------------------------------------------------------------------
\* decode_string is where the readings of its text say.
Described == Describes(text.readings, text.bytes, text.wellFormed)
OnTrack == Following(text.readings, text.wellFormed)

LEMMA FollowingInvariance ==
  ASSUME Constants, \A t \in Texts : Meaning(t)
  PROVE  Spec => [](IInv /\ Described /\ OnTrack)
PROOF
  <1> USE DEF Described, OnTrack
  <1>1. Init => IInv /\ Described /\ OnTrack
    <2>1. SUFFICES ASSUME Init PROVE IInv /\ Described /\ OnTrack OBVIOUS
    <2>2. PICK R, w : R = text.readings /\ w = text.wellFormed OBVIOUS
    <2>3. Describes(R, text.bytes, w) /\ Start BY <2>1, <2>2 DEF Init, Meaning
    <2>4. Following(R, w) BY <2>3, FollowingInit
    <2>5. QED BY <2>1, <2>2, <2>3, <2>4, InitInvariant
  <1>2. IInv /\ Described /\ OnTrack /\ [Next]_vars => (IInv /\ Described /\ OnTrack)'
    <2>1. SUFFICES ASSUME IInv, Described, OnTrack, [Next]_vars
                   PROVE  (IInv /\ Described /\ OnTrack)'
      OBVIOUS
    <2>2. PICK R, w : R = text.readings /\ w = text.wellFormed OBVIOUS
    <2>3. Following(R, w)' BY <2>1, <2>2, FollowingStep
    <2>4. text' = text
      BY <2>1 DEF Next, Step, Done, vars, OpenFits, OpenGrows, OpenNoMemory, SetError, Scan,
         Quote, NotAString, Unmatched, Plain, Escape, Emit, BadEscape, UnicodeEscape,
         BadUnicodeEscape, Sequence, Overlong, BadOctet, NextString, FreeBuffer
    <2>5. QED BY <2>1, <2>2, <2>3, <2>4, NextInvariant
  <1>3. QED BY <1>1, <1>2, PTL DEF Spec

\* Texts whose strings are well-formed are decoded to what they say, and those that
\* are malformed somewhere are refused, for all texts that are what they are said
\* to be.
THEOREM DecodesCorrect ==
  ASSUME Constants, \A t \in Texts : Meaning(t)
  PROVE  Spec => [](DecodesExactly /\ RejectsMalformed)
PROOF
  <1>1. IInv /\ Described /\ OnTrack => DecodesExactly /\ RejectsMalformed
    <2>1. SUFFICES ASSUME IInv, Described, OnTrack PROVE DecodesExactly /\ RejectsMalformed
      OBVIOUS
    <2>2. PICK R, w : R = text.readings /\ w = text.wellFormed OBVIOUS
    <2>3. Following(R, w) /\ R \in Seq(Seq(Places))
      BY <2>1, <2>2 DEF Described, OnTrack, Describes, AreReadings
    <2>4. pc = "done" /\ errorStr # "memory" =>
            IF w THEN errorStr = "none" /\ decoded = Said(R) ELSE errorStr # "none"
      BY <2>1, <2>3, Followed
    <2>5. QED BY <2>2, <2>4 DEF DecodesExactly, RejectsMalformed
  <1>2. QED BY <1>1, FollowingInvariance, PTL
=============================================================================
