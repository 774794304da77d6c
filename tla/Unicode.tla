------------------------------- MODULE Unicode -------------------------------
(***************************************************************************)
(* UTF-8 and UTF-16, by their definitions: what the tables and the         *)
(* arithmetic of the code are measured by.  As in the code, surrogates are *)
(* code points, of three bytes in UTF-8.                                   *)
(***************************************************************************)
EXTENDS Integers, SequencesExt

MaxCodePoint == 1114111
CodePoint == 0..MaxCodePoint

Octet(c, k) == 128 + ((c \div k) % 64)
Utf8(c) ==
  IF c < 128 THEN <<c>>
  ELSE IF c < 2048 THEN <<192 + (c \div 64), Octet(c, 1)>>
  ELSE IF c < 65536 THEN <<224 + (c \div 4096), Octet(c, 64), Octet(c, 1)>>
  ELSE <<240 + (c \div 262144), Octet(c, 4096), Octet(c, 64), Octet(c, 1)>>

HighSurrogate == 55296..56319
LowSurrogate == 56320..57343
Utf16(c) == IF c < 65536 THEN <<c>>
            ELSE <<((c - 65536) \div 1024) + 55296, ((c - 65536) % 1024) + 56320>>
FromUtf16(high, low) == 65536 + ((high - 55296) * 1024) + (low - 56320)

InUtf8(s) == FlattenSeq([i \in DOMAIN s |-> Utf8(s[i])])
InUtf16(s) == FlattenSeq([i \in DOMAIN s |-> Utf16(s[i])])

-----------------------------------------------------------------------------
(* What looks like UTF-8 and may not be. *)

IsLead(b) == b \in 192..247
IsTrail(b) == b \in 128..191
SequenceLength(b) ==
  IF b < 192 THEN 1 ELSE IF b < 224 THEN 2 ELSE IF b < 240 THEN 3 ELSE 4

\* A lead at i with all its octets up to m.
Whole(s, i, m) ==
  /\ IsLead(s[i]) /\ i + SequenceLength(s[i]) - 1 <= m
  /\ \A k \in 1..SequenceLength(s[i]) - 1 : IsTrail(s[i + k])

\* A shorter sequence would do for the code point of that at i.
IsOverlong(s, i) ==
  \/ s[i] < 194
  \/ s[i] = 224 /\ s[i + 1] < 160
  \/ s[i] = 240 /\ s[i + 1] < 144

\* It is beyond the last code point.
IsTooLarge(s, i) == s[i] > 244 \/ (s[i] = 244 /\ s[i + 1] >= 144)

\* The first m bytes of s are single bytes and whole sequences, none of which
\* is overlong.
Sequenced(s, m) ==
  \A i \in 1..m :
    \/ s[i] < 128
    \/ Whole(s, i, m) /\ ~IsOverlong(s, i)
    \/ /\ IsTrail(s[i])
       /\ \E k \in 1..3 : /\ k < i /\ k < SequenceLength(s[i - k])
                          /\ \A j \in 1..k - 1 : IsTrail(s[i - j])
=============================================================================
