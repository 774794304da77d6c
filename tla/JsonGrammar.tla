---------------------------- MODULE JsonGrammar ----------------------------
(***************************************************************************)
(* The JSON grammar over the lexemes of module Decoder, context free and   *)
(* without a parser: a symbol derives a span of the text if one of its     *)
(* rules does.  It is the reference against which decoder and encoder are  *)
(* checked.                                                                *)
(***************************************************************************)
EXTENDS Integers, Sequences

Symbols == {"nothing", "value", "items", "name", "member", "members"}

\* <<symbol, i, j, h>>: the lexemes from i to before j, containers nested in
\* each other no deeper than h.
Spans(s, depth) ==
  Symbols \X (1..Len(s) + 1) \X (1..Len(s) + 1) \X (0..depth)

Enclosed(s, d, i, j, h, opener, list, closer) ==
  /\ h > 0 /\ i + 1 < j /\ s[i] = opener /\ s[j - 1] = closer
  /\ d[<<"nothing", i + 1, j - 1, h - 1>>] \/ d[<<list, i + 1, j - 1, h - 1>>]

Pair(s, d, i, j, h, first, separator, second) ==
  \E m \in i..j - 1 :
    s[m] = separator /\ d[<<first, i, m, h>>] /\ d[<<second, m + 1, j, h>>]

\* symbol derives the span, given what d says of the shorter ones.
Rule(s, d, symbol, i, j, h) ==
  \/ symbol = "nothing" /\ i = j
  \/ /\ i < j
     /\ \/ s[i] = "ws" /\ d[<<symbol, i + 1, j, h>>]
        \/ s[j - 1] = "ws" /\ d[<<symbol, i, j - 1, h>>]
        \/ /\ symbol = "value"
           /\ \/ j = i + 1 /\ s[i] \in {"str", "atom"}
              \/ Enclosed(s, d, i, j, h, "lbrack", "items", "rbrack")
              \/ Enclosed(s, d, i, j, h, "lbrace", "members", "rbrace")
        \/ /\ symbol = "items"
           /\ d[<<"value", i, j, h>>] \/ Pair(s, d, i, j, h, "items", "comma", "value")
        \/ symbol = "name" /\ j = i + 1 /\ s[i] = "str"
        \/ symbol = "member" /\ Pair(s, d, i, j, h, "name", "colon", "value")
        \/ /\ symbol = "members"
           /\ d[<<"member", i, j, h>>] \/ Pair(s, d, i, j, h, "members", "comma", "member")

\* Which symbols derive which spans of s.
Derives(s, depth) ==
  LET d[x \in Spans(s, depth)] == Rule(s, d, x[1], x[2], x[3], x[4])
  IN  d

\* text is a whole JSON document, nested no deeper than depth.
IsJson(text, depth) ==
  /\ text # <<>> /\ text[Len(text)] = "eof"
  /\ Derives(text, depth)[<<"value", 1, Len(text), depth>>]
=============================================================================
