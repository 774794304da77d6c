----------------------------- MODULE JsonSyntax -----------------------------
(***************************************************************************)
(* Where a JSON text can be, and where a lexeme leads from there.  A place *)
(* is a configuration: the containers that are open and the place reached  *)
(* in the innermost.                                                       *)
(***************************************************************************)
EXTENDS Integers, Sequences

CONSTANTS
  Depth,      \* how deeply containers may be nested
  Spaced      \* whether there may be white space between lexemes

Kinds == {"ARRAY", "OBJECT"}
Places ==
  {"value",       \* a value is due
   "first",       \* in a new container: a member, or the closing bracket
   "name",        \* the name of a member is due
   "colon",
   "delimiter",   \* after a member
   "end"}
Configuration == [open : Seq(Kinds), at : Places]

Beginning == [open |-> <<>>, at |-> "value"]
Ended(open) == [open |-> open, at |-> IF open = <<>> THEN "end" ELSE "delimiter"]

Inside(k, kind) == k.open # <<>> /\ k.open[Len(k.open)] = kind
ValueDue(k) == k.at = "value" \/ (k.at = "first" /\ Inside(k, "ARRAY"))

Opener(kind) == IF kind = "ARRAY" THEN "lbrack" ELSE "lbrace"
Closer(kind) == IF kind = "ARRAY" THEN "rbrack" ELSE "rbrace"

-----------------------------------------------------------------------------
(* The lexemes that may follow in k, and the configuration they lead to.   *)

Scalar(k, c, l) == ValueDue(k) /\ c \in {"str", "atom"} /\ l = Ended(k.open)

Opening(k, c, l) ==
  /\ ValueDue(k) /\ Len(k.open) < Depth
  /\ \E kind \in Kinds :
       c = Opener(kind) /\ l = [open |-> Append(k.open, kind), at |-> "first"]

Closing(k, c, l) ==
  /\ k.at \in {"first", "delimiter"}
  /\ \E kind \in Kinds : Inside(k, kind) /\ c = Closer(kind)
  /\ l = Ended(SubSeq(k.open, 1, Len(k.open) - 1))

Name(k, c, l) ==
  /\ k.at \in {"first", "name"} /\ Inside(k, "OBJECT")
  /\ c = "str" /\ l = [open |-> k.open, at |-> "colon"]

Colon(k, c, l) == k.at = "colon" /\ c = "colon" /\ l = [open |-> k.open, at |-> "value"]

Comma(k, c, l) ==
  /\ k.at = "delimiter" /\ c = "comma"
  /\ l = [open |-> k.open, at |-> IF Inside(k, "ARRAY") THEN "value" ELSE "name"]

Blank(k, c, l) == Spaced /\ c = "ws" /\ l = k

Follows(k, c, l) ==
  \/ Scalar(k, c, l)
  \/ Opening(k, c, l) \/ Closing(k, c, l)
  \/ Name(k, c, l) \/ Colon(k, c, l) \/ Comma(k, c, l)
  \/ Blank(k, c, l)

\* run holds the configurations that the first n lexemes of s lead through.
Run(s, n, run) ==
  /\ run \in Seq(Configuration) /\ Len(run) = n + 1
  /\ run[1] = Beginning
  /\ \A i \in 1..n : Follows(run[i], s[i], run[i + 1])
=============================================================================
