----------------------------- MODULE MCDecoder -----------------------------
(***************************************************************************)
(* The instance of Decoder for TLC: one text with every byte open, up to   *)
(* MaxLen, and every longer document of the shapes below, with and without *)
(* a run of white space, some one level deeper than MaxDepth = 2 allows.   *)
(***************************************************************************)
EXTENDS Decoder

Arrays(V) ==
  {<<"lbrack", "rbrack">>} \cup {<<"lbrack">> \o v \o <<"rbrack">> : v \in V}
    \cup {<<"lbrack">> \o v \o <<"comma">> \o w \o <<"rbrack">> : v \in V, w \in V}
Objects(V) ==
  LET M == {<<"str", "colon">> \o v : v \in V}
  IN  {<<"lbrace", "rbrace">>} \cup {<<"lbrace">> \o m \o <<"rbrace">> : m \in M}
        \cup {<<"lbrace">> \o m \o <<"comma">> \o n \o <<"rbrace">> : m \in M, n \in M}

Flat == {<<"str">>, <<"atom">>}
Level1 == Flat \cup Arrays(Flat) \cup Objects(Flat)
Level2 == Arrays(Level1) \cup Objects(Level1)
Level3 == {<<"lbrack">> \o v \o <<"rbrack">> : v \in Level2}
                  \cup {<<"lbrace", "str", "colon">> \o v \o <<"rbrace">> : v \in Level2}

Spaced(s) ==
  {SubSeq(s, 1, i) \o <<"ws">> \o SubSeq(s, i + 1, Len(s)) : i \in 0..Len(s)}

Documents ==
  {s \o <<"eof">> : s \in Level1 \cup Level2 \cup Level3
                           \cup UNION {Spaced(v) : v \in Level1}}

Open == {<<>>}
Texts == Open \cup Documents

=============================================================================
