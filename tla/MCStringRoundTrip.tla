-------------------------- MODULE MCStringRoundTrip --------------------------
(***************************************************************************)
(* Instances of StringRoundTrip for TLC.                                   *)
(***************************************************************************)
EXTENDS StringRoundTrip

(* Strings of up to three code points at the boundaries of UTF-8, and      *)
(* bytes that are not UTF-8.                                               *)

\* NUL, newline, 0x1f, quote, &, /, backslash, DEL, and the ends of the ranges
\* of sequences of each length and of the surrogates.
CodePoints ==
  {0, 10, 31, 34, 38, 47, 92, 127, 128, 2047, 2048, 55296, 57343, 65535, 65536, 1114111}
Delicate == {0, 34, 128, 55296, 57343, 65536, 1114111}

Text(bytes, says, wellFormed, truncated, overlong) ==
  [bytes |-> bytes, says |-> says, wellFormed |-> wellFormed,
   truncated |-> truncated, overlong |-> overlong]

UpTo(S, n) == UNION {[1..m -> S] : m \in 0..n}
Utf8Strings == {Text(InUtf8(p), p, TRUE, FALSE, FALSE) :
  p \in UpTo(CodePoints, 2) \cup UpTo(Delicate, 3)}

\* Sequences cut off after n bytes.
CutTo(n, S) == {Text(SubSeq(Utf8(c), 1, n), <<>>, FALSE, TRUE, FALSE) : c \in S}
FarCut == CutTo(1, {2048, 65535, 65536, 1114111}) \cup CutTo(2, {65536, 1114111})
NearCut == CutTo(1, {128}) \cup CutTo(2, {65535}) \cup CutTo(3, {65536})

\* The largest overlong forms, with text around them.
Longs == {<<193, 191>>, <<224, 159, 191>>, <<240, 143, 191, 191>>}
Overlongs ==
  {Text(InUtf8(p) \o b \o InUtf8(q), <<>>, FALSE, FALSE, TRUE) :
     p \in UpTo({0, 128}, 1), b \in Longs, q \in UpTo({34, 65536}, 1)}

\* Leads of five and six bytes, octets without a lead, and any three bytes.
Stray ==
  {Text(b, <<>>, FALSE, FALSE, FALSE) :
     b \in {<<248, 128>>, <<253>>} \cup UpTo({0, 34, 128, 195, 226, 240, 255}, 3)}

Strings == Utf8Strings \cup FarCut \cup NearCut \cup Overlongs \cup Stray

-----------------------------------------------------------------------------
(* Texts put together from pieces: their bytes, the code unit they stand   *)
(* for, and whether they are \uXXXX.                                       *)

Piece(bytes, unit, escaped) == [bytes |-> bytes, unit |-> unit, escaped |-> escaped]

A == Piece(<<65>>, 65, FALSE)
LineFeed == Piece(<<92, 110>>, 10, FALSE)
Solidus == Piece(<<92, 47>>, 47, FALSE)
HighEscape == Piece(<<92, 117, 68, 56, 51, 100>>, 55357, TRUE)      \* \uD83d
LowEscape == Piece(<<92, 117, 100, 69, 48, 48>>, 56832, TRUE)       \* \udE00
OtherEscape == Piece(<<92, 117, 48, 48, 101, 57>>, 233, TRUE)       \* \u00e9
High == Piece(<<237, 160, 189>>, 55357, FALSE)
Low == Piece(<<237, 184, 128>>, 56832, FALSE)
Two == Piece(<<195, 169>>, 233, FALSE)
Four == Piece(<<240, 159, 152, 128>>, 128512, FALSE)

\* What is taken besides JSON and UTF-8: control characters, octets without a lead,
\* and leads among the octets of a sequence.
LaxPieces ==
  {Piece(<<10>>, 10, FALSE), Piece(<<31>>, 31, FALSE),
   Piece(<<128>>, 128, FALSE), Piece(<<191>>, 191, FALSE),
   Piece(<<195, 233>>, 233, FALSE), Piece(<<226, 194, 255>>, 8383, FALSE),
   Piece(<<237, 224, 253>>, 55357, FALSE), Piece(<<240, 223, 216, 192>>, 128512, FALSE)}

Pieces == {A, LineFeed, Solidus, HighEscape, LowEscape, OtherEscape, High, Low, Two, Four}

\* The least code point of each length.
Least234 ==
  {Piece(<<194, 128>>, 128, FALSE), Piece(<<224, 160, 128>>, 2048, FALSE),
   Piece(<<240, 144, 128, 128>>, 65536, FALSE)}
Halves == {A, HighEscape, LowEscape, High}

BytesOf(p) == FlattenSeq([i \in DOMAIN p |-> p[i].bytes])

\* Of two neighbouring escapes, the first a high and the second a low
\* surrogate, the first stands for both.
Paired(p, i) ==
  /\ i > 1
  /\ p[i - 1].escaped /\ p[i].escaped
  /\ p[i - 1].unit \in 55296..56319 /\ p[i].unit \in 56320..57343

Combine(high, low) == 65536 + (high - 55296) * 1024 + (low - 56320)

Says(p) ==
  LET unit(i) == IF Paired(p, i) THEN Combine(p[i - 1].unit, p[i].unit) ELSE p[i].unit
      kept == SelectSeq([i \in DOMAIN p |-> i],
                        LAMBDA i : ~(i < Len(p) /\ Paired(p, i + 1)))
  IN  [j \in DOMAIN kept |-> unit(kept[j])]

\* How pieces that begin at i are read.
Reading(i, p) ==
  [k \in 1..Len(p) + 1 |->
     [at      |-> i + Len(BytesOf(SubSeq(p, 1, k - 1))),
      unit    |-> IF k = 1 THEN 0 ELSE p[k - 1].unit,
      escaped |-> k > 1 /\ p[k - 1].escaped,
      said    |-> Says(SubSeq(p, 1, k - 1))]]

Quoted(bytes) == <<34>> \o bytes \o <<34>>

One(p) ==
  [bytes |-> Quoted(BytesOf(p)) \o <<0>>, readings |-> <<Reading(2, p)>>, wellFormed |-> TRUE]
TwoStrings(p, q) ==
  [bytes      |-> Quoted(BytesOf(p)) \o <<44>> \o Quoted(BytesOf(q)) \o <<0>>,
   readings   |-> <<Reading(2, p), Reading(5 + Len(BytesOf(p)), q)>>,
   wellFormed |-> TRUE]

WellFormed ==
  {One(p) : p \in UpTo(Pieces, 3) \cup [1..1 -> Least234] \cup UpTo(Halves, 4)}
    \cup {One(p) : p \in UpTo(LaxPieces \cup {A, LowEscape}, 3)}
    \cup {TwoStrings(p, q) : p \in UpTo(Pieces, 2), q \in UpTo(Pieces, 1)}

Malformed(bytes, reading) ==
  [bytes |-> bytes, readings |-> <<reading>>, wellFormed |-> FALSE]

\* Every text cut off before its last quote, ...
Truncated ==
  UNION {{Malformed(SubSeq(t.bytes, 1, n) \o <<0>>,
                    SelectSeq(t.readings[1], LAMBDA r : r.at <= n + 1)) :
            n \in 1..Len(t.bytes) - 2} : t \in {One(p) : p \in UpTo(Pieces, 2)}}

\* ... unknown escapes, the largest overlong form of each length and a code point
\* too large, with leads for octets too, and octets missing from a sequence.
Broken ==
  {<<92, 120>>, <<92, 117, 48, 48, 103, 48>>, <<255>>,
   <<193, 191>>, <<224, 159, 191>>, <<240, 143, 191, 191>>, <<244, 144, 128, 128>>,
   <<193, 255>>, <<224, 223, 255>>, <<240, 207, 255, 255>>, <<244, 208, 192, 128>>,
   <<195, 65>>, <<226, 65, 65>>, <<226, 130, 65>>, <<240, 159, 152, 65>>}
Spoilt ==
  {Malformed(Quoted(BytesOf(p) \o b \o BytesOf(q)) \o <<0>>, Reading(2, p)) :
     p \in UpTo(Pieces, 1), b \in Broken, q \in UpTo(Pieces, 1)}

Decoded == WellFormed \cup Truncated \cup Spoilt
=============================================================================
