---------------------------- MODULE DecodeString ----------------------------
(***************************************************************************)
(* decode_string of lib/ultrajsondec.c, called for the strings of one      *)
(* text, which share an escape buffer of code points.                      *)
(***************************************************************************)
EXTENDS Integers, Sequences, Unicode

CONSTANTS
  StackLen,     \* code points that fit the buffer on the stack
  AllocFails,   \* whether dec->malloc and dec->realloc may return NULL
  Texts         \* the strings to decode: their bytes, separated by a comma,
                \* and how they are to be read (see Meaning)

Byte == 0..255
MaxUnit == 2097151                    \* 21 bits
Units == 0..MaxUnit

\* What the constants have to be: a text ends at its NUL, where ds->end points.
Constants ==
  /\ \A t \in Texts :
       /\ t.bytes \in Seq(Byte) /\ Len(t.bytes) > 1
       /\ t.bytes[Len(t.bytes)] = 0
  /\ StackLen \in Nat /\ AllocFails \in BOOLEAN

VARIABLES
  text,      \* the text decoded
  pc,
  start,     \* ds->start, as an index of the bytes
  offset,    \* inputOffset
  escLen,    \* ds->escEnd - ds->escStart
  escHeap,   \* ds->escHeap
  blocks,    \* blocks allocated and not freed
  esc,       \* what has been written from ds->escStart to escOffset
  lastHigh,  \* lastHighSurrogate, or 0
  errorStr,
  decoded,   \* history: the strings handed to newString
  reach      \* history: the last byte read

vars == <<text, pc, start, offset, escLen, escHeap, blocks, esc, lastHigh,
          errorStr, decoded, reach>>

buffer == <<escLen, escHeap, blocks>>

Errors == {"memory", "unmatched", "octet", "overlong", "length", "escape", "range"}

TypeOK ==
  /\ text \in Texts
  /\ pc \in {"decode_string", "scan", "next", "free", "done"}
  /\ start \in Nat \ {0} /\ offset \in Nat \ {0}
  /\ escLen \in Nat /\ blocks \in Nat
  /\ escHeap \in BOOLEAN
  /\ esc \in Seq(Units)
  /\ lastHigh \in Nat /\ reach \in Nat
  /\ errorStr \in Errors \cup {"none"}
  /\ decoded \in Seq(Seq(Units))

Start ==
  /\ pc = "decode_string"
  /\ start = 1 /\ offset = 1
  /\ escLen = StackLen /\ escHeap = FALSE /\ blocks = 0
  /\ esc = <<>> /\ lastHigh = 0
  /\ errorStr = "none"
  /\ decoded = <<>>
  /\ reach = 1

Init == text \in Texts /\ Start

-----------------------------------------------------------------------------
\* Behind the NUL anything might be: StaysInside says that nobody looks.
at(i) == IF i <= Len(text.bytes) THEN text.bytes[i] ELSE 0
End == Len(text.bytes)

Reads(i) == reach' = IF i > reach THEN i ELSE reach

SetError(msg) ==
  /\ errorStr' = msg
  /\ pc' = "free"
  /\ UNCHANGED <<text, start, offset, esc, lastHigh, decoded>>

\* The opening quote, and room for all that may follow: one code point per
\* byte up to the end of the text.  A new string starts with an empty esc.
OpenFits ==
  /\ pc = "decode_string"
  /\ End - (start + 1) <= escLen
  /\ start' = start + 1 /\ offset' = start + 1
  /\ esc' = <<>> /\ lastHigh' = 0
  /\ pc' = "scan"
  /\ UNCHANGED <<text, buffer, errorStr, decoded, reach>>

OpenGrowsShort ==         \* variant: the bytes are counted in halves
  /\ pc = "decode_string"
  /\ End - (start + 1) > escLen
  /\ escLen' = (End - (start + 1)) \div 2
  /\ escHeap' = TRUE
  /\ blocks' = IF escHeap THEN blocks ELSE blocks + 1
  /\ start' = start + 1 /\ offset' = start + 1
  /\ esc' = <<>> /\ lastHigh' = 0
  /\ pc' = "scan"
  /\ UNCHANGED <<text, errorStr, decoded, reach>>

\* malloc, or realloc of the block of an earlier string.
OpenGrows ==
  /\ pc = "decode_string"
  /\ End - (start + 1) > escLen
  /\ escLen' = End - (start + 1)
  /\ escHeap' = TRUE
  /\ blocks' = IF escHeap THEN blocks ELSE blocks + 1
  /\ start' = start + 1 /\ offset' = start + 1
  /\ esc' = <<>> /\ lastHigh' = 0
  /\ pc' = "scan"
  /\ UNCHANGED <<text, errorStr, decoded, reach>>

OpenNoMemory ==
  /\ pc = "decode_string"
  /\ End - (start + 1) > escLen
  /\ AllocFails
  /\ SetError("memory")
  /\ UNCHANGED <<buffer, reach>>

-----------------------------------------------------------------------------
(* switch (g_decoderLookup[*inputOffset]); octets from 0x80 to 0xbf are    *)
(* taken as they are.                                                      *)

Lookup(b) ==
  CASE b = 0               -> "DS_ISNULL"
    [] b = 34              -> "DS_ISQUOTE"
    [] b = 92              -> "DS_ISESCAPE"
    [] b \in 192..223      -> "2"
    [] b \in 224..239      -> "3"
    [] b \in 240..247      -> "4"
    [] b \in 248..255      -> "DS_UTFLENERROR"
    [] OTHER               -> "1"

Case(c) == pc = "scan" /\ Lookup(at(offset)) = c

\* newString takes the code points up to 0x10ffff.
InRange == \A i \in 1..Len(esc) : esc[i] <= 1114111

Quote ==
  /\ Case("DS_ISQUOTE")
  /\ InRange
  /\ decoded' = Append(decoded, esc)
  /\ start' = offset + 1
  /\ pc' = "next"
  /\ Reads(offset)
  /\ UNCHANGED <<text, offset, buffer, esc, lastHigh, errorStr>>

NotAString ==
  /\ Case("DS_ISQUOTE")
  /\ ~InRange
  /\ SetError("range")
  /\ Reads(offset)
  /\ UNCHANGED buffer

Unmatched ==
  /\ \/ Case("DS_ISNULL") /\ SetError("unmatched")
     \/ Case("DS_UTFLENERROR") /\ SetError("length")
  /\ Reads(offset)
  /\ UNCHANGED buffer

\* Consume n bytes and write a code point.
Emit(n, unit) ==
  /\ esc' = Append(esc, unit)
  /\ offset' = offset + n
  /\ Reads(offset + n - 1)
  /\ UNCHANGED <<text, pc, start, buffer, errorStr, decoded>>

Plain == Case("1") /\ Emit(1, at(offset)) /\ UNCHANGED lastHigh

\* The bytes after a backslash, and what they stand for.
Simple == {92, 34, 47, 98, 102, 110, 114, 116}
Escaped(b) ==
  CASE b = 98 -> 8 [] b = 102 -> 12 [] b = 110 -> 10 [] b = 114 -> 13 [] b = 116 -> 9
    [] OTHER -> b

Escape ==
  /\ Case("DS_ISESCAPE")
  /\ at(offset + 1) \in Simple
  /\ Emit(2, Escaped(at(offset + 1)))
  /\ UNCHANGED lastHigh

BadEscape ==
  /\ Case("DS_ISESCAPE")
  /\ at(offset + 1) \notin Simple \cup {117}
  /\ SetError("escape")
  /\ Reads(offset + 1)
  /\ UNCHANGED buffer

IsHex(b) == b \in 48..57 \cup 65..70 \cup 97..102
Digit(b) == IF b < 65 THEN b - 48 ELSE IF b < 97 THEN b - 55 ELSE b - 87

\* The first of the four bytes after "\u" that is no digit, or none.
BadDigit(i) == (\A j \in 2..i - 1 : IsHex(at(offset + j))) /\ ~IsHex(at(offset + i))

BadUnicodeEscape ==
  /\ Case("DS_ISESCAPE") /\ at(offset + 1) = 117
  /\ \E i \in 2..5 : BadDigit(i) /\ Reads(offset + i)
  /\ SetError("escape")
  /\ UNCHANGED buffer

\* The four digits shift every older one out of the 16 bits of ch.
Ch == LET d(i) == Digit(at(offset + i)) IN
        ((d(2) * 16 + d(3)) * 16 + d(4)) * 16 + d(5)

IsHigh(u) == u \div 1024 = 54         \* (ch & 0xfc00) == 0xd800
IsLow(u) == u \div 1024 = 55          \* (ch & 0xfc00) == 0xdc00

Pair(high, low) == ((high - 55296) * 1024 + (low - 56320) + 65536)

UnicodeEscapeAnyPair ==   \* variant: the high surrogate need not be escaped
  /\ Case("DS_ISESCAPE") /\ at(offset + 1) = 117
  /\ \A i \in 2..5 : IsHex(at(offset + i))
  /\ IF IsLow(Ch) /\ Len(esc) > 0 /\ IsHigh(esc[Len(esc)])
     THEN esc' = [esc EXCEPT ![Len(esc)] = Pair(@, Ch)]
     ELSE esc' = Append(esc, Ch)
  /\ offset' = offset + 6
  /\ lastHigh' = IF IsHigh(Ch) THEN offset + 6 ELSE lastHigh
  /\ Reads(offset + 5)
  /\ UNCHANGED <<text, pc, start, buffer, errorStr, decoded>>

\* A low surrogate right after an escaped high one replaces it by their pair.
UnicodeEscape ==
  /\ Case("DS_ISESCAPE") /\ at(offset + 1) = 117
  /\ \A i \in 2..5 : IsHex(at(offset + i))
  /\ IF IsLow(Ch) /\ lastHigh = offset
     THEN esc' = [esc EXCEPT ![Len(esc)] = Pair(@, Ch)]
     ELSE esc' = Append(esc, Ch)
  /\ offset' = offset + 6
  /\ lastHigh' = IF IsHigh(Ch) THEN offset + 6 ELSE lastHigh
  /\ Reads(offset + 5)
  /\ UNCHANGED <<text, pc, start, buffer, errorStr, decoded>>

\* The sequences of 2, 3 and 4 bytes: bits of the first, least code point.
Lead(n, b) == CASE n = 2 -> b % 32 [] n = 3 -> b % 16 [] n = 4 -> b % 8
LeastOfFewer(n) ==        \* variant: the bound of a sequence one byte shorter
  CASE n = 2 -> 0 [] n = 3 -> 128 [] n = 4 -> 2048

Least(n) == CASE n = 2 -> 128 [] n = 3 -> 2048 [] n = 4 -> 65536

Bits(i) == at(offset + i) % 64
Ucs(n) ==
  CASE n = 2 -> (Lead(2, at(offset)) * 64) + Bits(1)
    [] n = 3 -> (((Lead(3, at(offset)) * 64) + Bits(1)) * 64) + Bits(2)
    [] n = 4 -> (((((Lead(4, at(offset)) * 64) + Bits(1)) * 64) + Bits(2)) * 64) + Bits(3)

IsOctet(b) == b >= 128                \* (oct & 0x80) == 0x80

Sequence(n, c) ==
  /\ Case(c)
  /\ \A i \in 1..n - 1 : IsOctet(at(offset + i))
  /\ Ucs(n) >= Least(n)
  /\ Emit(n, Ucs(n))
  /\ UNCHANGED lastHigh

Overlong(n, c) ==
  /\ Case(c)
  /\ \A i \in 1..n - 1 : IsOctet(at(offset + i))
  /\ Ucs(n) < Least(n)
  /\ SetError("overlong")
  /\ Reads(offset + n - 1)
  /\ UNCHANGED buffer

BadOctetUnseen(n, c) ==   \* variant: all octets are read before they are tested
  /\ Case(c)
  /\ \E i \in 1..n - 1 : ~IsOctet(at(offset + i))
  /\ SetError("octet")
  /\ Reads(offset + n - 1)
  /\ UNCHANGED buffer

BadOctet(n, c) ==
  /\ Case(c)
  /\ \E i \in 1..n - 1 :
       /\ \A j \in 1..i - 1 : IsOctet(at(offset + j))
       /\ ~IsOctet(at(offset + i))
       /\ Reads(offset + i)
  /\ SetError("octet")
  /\ UNCHANGED buffer

-----------------------------------------------------------------------------
(* The rest of the text, as far as it matters here. *)

NextString ==
  /\ pc = "next"
  /\ IF at(start) = 44 /\ at(start + 1) = 34
     THEN start' = start + 1 /\ pc' = "decode_string"
     ELSE UNCHANGED start /\ pc' = "free"
  /\ UNCHANGED <<text, offset, buffer, esc, lastHigh, errorStr, decoded, reach>>

FreeUnlessFailed ==       \* variant: an error returns without freeing
  /\ pc = "free"
  /\ blocks' = IF escHeap /\ errorStr = "none" THEN blocks - 1 ELSE blocks
  /\ pc' = "done"
  /\ UNCHANGED <<text, start, offset, escLen, escHeap, esc, lastHigh, errorStr,
                 decoded, reach>>

\* if (ds.escHeap) dec->free(ds.escStart)
FreeBuffer ==
  /\ pc = "free"
  /\ blocks' = IF escHeap THEN blocks - 1 ELSE blocks
  /\ pc' = "done"
  /\ UNCHANGED <<text, start, offset, escLen, escHeap, esc, lastHigh, errorStr,
                 decoded, reach>>

Done == pc = "done" /\ UNCHANGED vars

Scan ==
  \/ Quote \/ NotAString \/ Unmatched
  \/ Plain \/ Escape \/ BadEscape \/ UnicodeEscape \/ BadUnicodeEscape
  \/ \E s \in {<<2, "2">>, <<3, "3">>, <<4, "4">>} :
       Sequence(s[1], s[2]) \/ Overlong(s[1], s[2]) \/ BadOctet(s[1], s[2])

Step ==
  \/ OpenFits \/ OpenGrows \/ OpenNoMemory
  \/ Scan
  \/ NextString \/ FreeBuffer

Next == Step \/ Done

Spec == Init /\ [][Next]_vars

-----------------------------------------------------------------------------
(* What the texts are said to be: by the definition of JSON strings, and by *)
(* what decode_string takes besides.                                       *)

Shorts == {<<34, 34>>, <<92, 92>>, <<47, 47>>, <<98, 8>>, <<102, 12>>, <<110, 10>>,
           <<114, 13>>, <<116, 9>>}
Digits(d) == IF d < 10 THEN {48 + d} ELSE {55 + d, 87 + d}

\* From i, s has \uXXXX for u.
Hexes(s, i, u) ==
  /\ s[i] = 92 /\ s[i + 1] = 117
  /\ s[i + 2] \in Digits(u \div 4096) /\ s[i + 3] \in Digits((u \div 256) % 16)
  /\ s[i + 4] \in Digits((u \div 16) % 16) /\ s[i + 5] \in Digits(u % 16)

\* s, with the octets of a sequence at i as decode_string takes them: of an octet
\* after the lead it tests the top bit and uses the low six.
Masked(s, i) == [k \in DOMAIN s |-> IF k > i /\ s[k] >= 192 THEN s[k] - 64 ELSE s[k]]

\* What is no JSON, or no UTF-8, and taken: a control character, an octet without
\* a lead, which stands for itself, and a sequence whose octets are any from 0x80.
Lax(s, i, j, u) ==
  \/ j = i + 1 /\ s[i] = u /\ u \in 1..31 \cup 128..191
  \/ u >= 128 /\ j = i + Len(Utf8(u)) /\ SubSeq(Masked(s, i), i, j - 1) = Utf8(u)

\* From i to before j, s has a piece of a string that stands for u: a code
\* point in UTF-8, a backslash and a letter, \uXXXX, or what is taken besides.
Piece(s, i, j, u, escaped) ==
  /\ j <= Len(s)
  /\ \/ /\ ~escaped
        /\ u >= 32 /\ u \notin {34, 92}
        /\ j = i + Len(Utf8(u)) /\ SubSeq(s, i, j - 1) = Utf8(u)
     \/ /\ ~escaped
        /\ j = i + 2 /\ s[i] = 92 /\ <<s[i + 1], u>> \in Shorts
     \/ escaped /\ u < 65536 /\ j = i + 6 /\ Hexes(s, i, u)
     \/ ~escaped /\ Lax(s, i, j, u)

\* How far a string has been read: the place, what the last piece stood for,
\* whether it was \uXXXX, and the code points of all pieces so far.
Places == [at : Nat, unit : CodePoint, escaped : BOOLEAN, said : Seq(CodePoint)]

\* Two neighbours \uXXXX that are surrogates, high and low, are one code point.
Paired(p, q) ==
  p.escaped /\ q.escaped /\ p.unit \in HighSurrogate /\ q.unit \in LowSurrogate

Leads(s, p, q) ==
  /\ Piece(s, p.at, q.at, q.unit, q.escaped)
  /\ q.said = IF Paired(p, q)
              THEN [p.said EXCEPT ![Len(p.said)] = FromUtf16(p.unit, q.unit)]
              ELSE Append(p.said, q.unit)

\* A string read from i.
IsReading(s, i, r) ==
  /\ r # <<>>
  /\ r[1] = [at |-> i, unit |-> 0, escaped |-> FALSE, said |-> <<>>]
  /\ \A k \in 1..Len(r) - 1 : Leads(s, r[k], r[k + 1])

EndOf(r) == r[Len(r)].at

\* The strings of a text, up to the end of the last or to where it is malformed.
AreReadings(s, R) ==
  /\ R \in Seq(Seq(Places)) /\ R # <<>> /\ s[1] = 34
  /\ \A n \in 1..Len(R) :
       IsReading(s, IF n = 1 THEN 2 ELSE EndOf(R[n - 1]) + 3, R[n])
  /\ \A n \in 1..Len(R) - 1 :
       s[EndOf(R[n])] = 34 /\ s[EndOf(R[n]) + 1] = 44 /\ s[EndOf(R[n]) + 2] = 34

Said(R) == [n \in 1..Len(R) |-> R[n][Len(R[n])].said]

\* What is taken for no piece: the end, a lead of five bytes or more, an escape
\* that is none, and a sequence with an octet missing, overlong or too large.
Malformed(s, i) ==
  \/ s[i] = 0 \/ s[i] \in 248..255
  \/ s[i] = 92 /\ s[i + 1] # 117 /\ \A p \in Shorts : s[i + 1] # p[1]
  \/ /\ s[i] = 92 /\ s[i + 1] = 117
     /\ \E k \in i + 2..i + 5 : k <= Len(s) /\ \A d \in 0..15 : s[k] \notin Digits(d)
  \/ /\ IsLead(s[i])
     /\ \E k \in i + 1..i + SequenceLength(s[i]) - 1 : k <= Len(s) /\ s[k] < 128
  \/ /\ Whole(Masked(s, i), i, Len(s))
     /\ IsOverlong(Masked(s, i), i) \/ IsTooLarge(Masked(s, i), i)

Describes(R, s, wellFormed) ==
  LET last == EndOf(R[Len(R)])
  IN  /\ AreReadings(s, R)
      /\ IF wellFormed THEN s[last] = 34 /\ last + 1 = Len(s) ELSE Malformed(s, last)

Meaning(t) == Describes(t.readings, t.bytes, t.wellFormed)

-----------------------------------------------------------------------------
(* Properties. *)

\* No code point is written outside the escape buffer, although its size is
\* tested once per string and escapes shrink, and no byte is read behind the
\* NUL, although every case reads ahead.
StaysInside ==
  /\ Len(esc) <= escLen
  /\ reach <= End

\* The buffer is allocated at most once, whatever the strings, and freed on
\* every way out.
BufferFreed ==
  /\ blocks <= 1
  /\ pc = "done" => blocks = 0

\* Strings are decoded to what they say, each on its own: those of JSON in UTF-8,
\* and those with pieces that are Lax, which the code takes although they are not.
DecodesExactly ==
  pc = "done" /\ text.wellFormed /\ errorStr # "memory" =>
    errorStr = "none" /\ decoded = Said(text.readings)

\* Strings that go on with what is Malformed, or end too early, are refused, even
\* if newString is the first to see it.  A text that is not UTF-8 is not refused
\* for that alone: see Lax.
RejectsMalformed == pc = "done" /\ ~text.wellFormed => errorStr # "none"
=============================================================================
