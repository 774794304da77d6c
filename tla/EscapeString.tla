---------------------------- MODULE EscapeString ----------------------------
(***************************************************************************)
(* Buffer_EscapeStringUnvalidated and Buffer_EscapeStringValidated of      *)
(* lib/ultrajsonenc.c: the bytes of one string are written, escaped, to a  *)
(* buffer with room for six times as many.                                 *)
(***************************************************************************)
EXTENDS Integers, Sequences, Unicode

CONSTANT
  Texts          \* the strings: their bytes, what these are (see Meaning), and
                 \* the code points they stand for if they are UTF-8

Byte == 0..255

VARIABLES
  text,      \* the string escaped
  options,   \* forceASCII, encodeHTMLChars and escapeForwardSlashes of enc
  pc,        \* "outside" when the loop has passed end
  io,        \* the next byte, as an index
  of,        \* bytes written
  errorMsg,
  out        \* history: the items written, see Raw, Short and Hex

vars == <<text, options, pc, io, of, errorMsg, out>>

Options == [forceASCII : BOOLEAN, encodeHTMLChars : BOOLEAN,
            escapeForwardSlashes : BOOLEAN]

Raw(b) == <<"raw", b>>         \* the byte itself
Short(b) == <<"short", b>>     \* backslash and a letter
Hex(u) == <<"hex", u>>         \* \uXXXX
Width(item) == CASE item[1] = "raw" -> 1 [] item[1] = "short" -> 2 [] item[1] = "hex" -> 6

\* An item is of a byte or a UTF-16 unit.
MaxUnit == 65535
Items == ({"raw", "short"} \X Byte) \cup ({"hex"} \X (0..MaxUnit))

\* The bytes of an item.
HexDigit(d) == IF d < 10 THEN 48 + d ELSE 87 + d
Letter(b) ==
  CASE b = 8 -> 98 [] b = 9 -> 116 [] b = 10 -> 110 [] b = 12 -> 102 [] b = 13 -> 114
    [] OTHER -> b
Bytes(item) ==
  LET u == item[2]
  IN  CASE item[1] = "raw"   -> <<u>>
        [] item[1] = "short" -> <<92, Letter(u)>>
        [] item[1] = "hex"   -> <<92, 117, HexDigit(u \div 4096), HexDigit((u \div 256) % 16),
                                    HexDigit((u \div 16) % 16), HexDigit(u % 16)>>

Errors == {"unterminated", "overlong", "length"}

TypeOK ==
  /\ text \in Texts
  /\ options \in Options
  /\ pc \in {"escape", "done", "failed", "outside"}
  /\ io \in Nat \ {0} /\ of \in Nat
  /\ errorMsg \in Errors \cup {"none"}
  /\ (pc = "failed") = (errorMsg # "none")
  /\ out \in Seq(Items)

Start ==
  /\ pc = "escape"
  /\ io = 1 /\ of = 0
  /\ errorMsg = "none"
  /\ out = <<>>

Init == text \in Texts /\ options \in Options /\ Start

-----------------------------------------------------------------------------
N == Len(text.bytes)
end == N + 1                                        \* where the NUL is
ByteAt(s, i) == IF i <= Len(s) THEN s[i] ELSE 0
at(i) == ByteAt(text.bytes, i)

\* Consume n bytes and write items of w bytes.
Put(n, w, items) ==
  /\ io' = io + n
  /\ of' = of + w
  /\ out' = out \o items
  /\ pc' = IF io + n > end THEN "outside" ELSE "escape"
  /\ UNCHANGED <<text, options, errorMsg>>

PutOne(item) == Put(1, Width(item), <<item>>)

SetError(msg) ==
  /\ errorMsg' = msg
  /\ pc' = "failed"
  /\ UNCHANGED <<text, options, io, of, out>>

Letters == {8, 9, 10, 12, 13, 34, 92}      \* \b \t \n \f \r \" \\
Html == {38, 60, 62}                       \* & < >

ItemAfterNul(b) ==        \* variant: the control characters start at 1
  CASE b \in Letters                              -> Short(b)
    [] b = 47 /\ options.escapeForwardSlashes     -> Short(b)
    [] b \in 1..31 \ Letters                      -> Hex(b)
    [] b \in Html /\ options.encodeHTMLChars      -> Hex(b)
    [] OTHER                                      -> Raw(b)

\* What both write for a byte before end other than the bytes of a sequence.
Item(b) ==
  CASE b \in Letters                              -> Short(b)
    [] b = 47 /\ options.escapeForwardSlashes     -> Short(b)
    [] b < 32 /\ b \notin Letters                 -> Hex(b)
    [] b \in Html /\ options.encodeHTMLChars      -> Hex(b)
    [] OTHER                                      -> Raw(b)

Escaping == pc = "escape" /\ io < end

\* The NUL at end; a NUL before it is a character.
Return ==
  /\ pc = "escape" /\ io = end
  /\ pc' = "done"
  /\ UNCHANGED <<text, options, io, of, errorMsg, out>>

EscapeUnvalidated ==
  /\ Escaping /\ ~options.forceASCII
  /\ PutOne(Item(at(io)))

-----------------------------------------------------------------------------
(* Buffer_EscapeStringValidated, by g_asciiOutputTable. *)

Utflen(b) ==
  CASE b \in 192..223 -> 2
    [] b \in 224..239 -> 3
    [] b \in 240..247 -> 4
    [] b \in 248..253 -> 5          \* or 6
    [] OTHER          -> 1

Validating(n) == Escaping /\ options.forceASCII /\ Utflen(at(io)) = n

EscapeOne == Validating(1) /\ PutOne(Item(at(io)))

Unsupported == Validating(5) /\ SetError("length")

TooFewOfAny(n) ==         \* variant: the test of case 2 in every case
  end - io < 1

\* if (end - io < n - 1)
TooFew(n) == end - io < n - 1

Unterminated(n) ==
  /\ Validating(n)
  /\ TooFew(n)
  /\ SetError("unterminated")

Lead(n, b) == CASE n = 2 -> b % 32 [] n = 3 -> b % 16 [] n = 4 -> b % 8
LeastOfFewer(n) ==        \* variant: the bound of a sequence one byte shorter
  CASE n = 2 -> 0 [] n = 3 -> 128 [] n = 4 -> 2048

Least(n) == CASE n = 2 -> 128 [] n = 3 -> 2048 [] n = 4 -> 65536
Bits(b) == b % 64

\* The bits of the n bytes from i.
Combined(s, i, n) ==
  LET b(k) == Bits(ByteAt(s, i + k))
      lead == Lead(n, ByteAt(s, i))
  IN  CASE n = 2 -> ((lead * 64) + b(1))
        [] n = 3 -> ((((lead * 64) + b(1)) * 64) + b(2))
        [] n = 4 -> ((((((lead * 64) + b(1)) * 64) + b(2)) * 64) + b(3))

ucs(n) == Combined(text.bytes, io, n)

Overlong(n) ==
  /\ Validating(n)
  /\ ~TooFew(n)
  /\ ucs(n) < Least(n)
  /\ SetError("overlong")

PairUnreduced(u) ==       \* variant: 0x10000 is not taken off
  <<Hex(((u \div 1024) + 55296) % 65536), Hex((u % 1024) + 56320)>>

\* The two units of a code point from 0x10000.
Pair(u) ==
  <<Hex(((u - 65536) \div 1024) + 55296), Hex((u % 1024) + 56320)>>

Units(u) == IF u >= 65536 THEN Pair(u) ELSE <<Hex(u)>>

EscapeSequence(n) ==
  /\ Validating(n)
  /\ ~TooFew(n)
  /\ ucs(n) >= Least(n)
  /\ Put(n, IF ucs(n) >= 65536 THEN 12 ELSE 6, Units(ucs(n)))

Done == pc # "escape" /\ UNCHANGED vars

Step ==
  \/ Return
  \/ EscapeUnvalidated
  \/ EscapeOne \/ Unsupported
  \/ \E n \in 2..4 : Unterminated(n) \/ Overlong(n) \/ EscapeSequence(n)

Next == Step \/ Done

Spec == Init /\ [][Next]_vars

-----------------------------------------------------------------------------
(* What the strings are said to be: see Unicode. *)

\* The first sequence of s that is not as it should be is the overlong one at i.
OverlongAt(s, i) ==
  Sequenced(s, i - 1) /\ Whole(s, i, Len(s)) /\ IsOverlong(s, i)

Meaning(t) ==
  /\ t.wellFormed => t.says \in Seq(CodePoint) /\ t.bytes = InUtf8(t.says)
  /\ t.overlong => \E i \in 1..Len(t.bytes) : OverlongAt(t.bytes, i)

ASSUME TextsAssumption == \A t \in Texts : t.bytes \in Seq(Byte) /\ Meaning(t)

-----------------------------------------------------------------------------
(* Properties. *)

\* RESERVE_STRING: no string, UTF-8 or not, is written behind the six bytes
\* per byte that are reserved for it, although some bytes need six and some
\* sequences twelve.
FitsReserve == of <= 6 * N

\* Nothing that ends a string or that JSON forbids in one is written raw, and
\* neither are characters the options ask to escape.
Escapes ==
  \A i \in DOMAIN out : LET b == out[i][2] IN
    out[i][1] = "raw" =>
      /\ b >= 32 /\ b \notin {34, 92}
      /\ options.encodeHTMLChars => b \notin Html
      /\ options.escapeForwardSlashes => b # 47
      /\ options.forceASCII /\ text.wellFormed => b < 128

\* A string that is UTF-8 is escaped without an error, under all options.
EscapesUtf8 == text.wellFormed => pc \notin {"failed", "outside"}

\* Overlong sequences are refused with forceASCII.
RefusesOverlong ==
  text.overlong /\ options.forceASCII => pc # "done"

\* With forceASCII a sequence cut off by the end of the string is reported.
ReportsUnterminated ==
  text.truncated /\ options.forceASCII => pc \notin {"done", "outside"}
=============================================================================
