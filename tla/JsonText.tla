------------------------------ MODULE JsonText ------------------------------
(***************************************************************************)
(* A JSON text in the making, one lexeme after the other: what a writer    *)
(* may append and when it may stop.  This is what Encoder is to implement  *)
(* and Decoder to accept: for the decoder, text is what has been read.     *)
(***************************************************************************)
EXTENDS JsonSyntax

VARIABLES
  text,      \* what has been written
  place,     \* where it is
  fate       \* "writing", "complete" or "given up"

textVars == <<text, place, fate>>

-----------------------------------------------------------------------------
Init == text = <<>> /\ place = Beginning /\ fate = "writing"

Write(c) ==
  /\ fate = "writing"
  /\ Follows(place, c, place')
  /\ text' = Append(text, c)
  /\ UNCHANGED fate

\* The name of a member is written together with its colon.
WriteName ==
  /\ fate = "writing"
  /\ LET k == [open |-> place.open, at |-> "colon"]
     IN  Name(place, "str", k) /\ Colon(k, "colon", place')
  /\ text' = text \o <<"str", "colon">>
  /\ UNCHANGED fate

\* A text that cannot be completed is thrown away.
GiveUp ==
  /\ fate = "writing" /\ fate' = "given up"
  /\ text' = <<>> /\ place' = Beginning

Complete ==
  /\ fate = "writing" /\ fate' = "complete"
  /\ place.at = "end"
  /\ UNCHANGED <<text, place>>

Lexemes == {"lbrack", "rbrack", "lbrace", "rbrace", "comma", "colon", "str", "atom",
            "ws"}

Next == (\E c \in Lexemes : Write(c)) \/ WriteName \/ GiveUp \/ Complete

Spec == Init /\ [][Next]_textVars
=============================================================================
