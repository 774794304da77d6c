-------------------------- MODULE CallbackContract --------------------------
(***************************************************************************)
(* What encode of lib/ultrajsonenc.c may be told by the callbacks of       *)
(* python/objToJSON.c: the type of a value, the answers of iterNext, and   *)
(* what becomes of the pending Python exception, err.                      *)
(***************************************************************************)
EXTENDS Integers

CONSTANTS
  HasDefault,     \* whether dumps is given a default function
  IterFails,      \* whether iterNext may fail
  StringFails,    \* whether getStringValue may return NULL
  DoubleFails     \* whether getDoubleValue may raise

ASSUME CallbackAssumption ==
  /\ HasDefault \in BOOLEAN /\ IterFails \in BOOLEAN
  /\ StringFails \in BOOLEAN /\ DoubleFails \in BOOLEAN

\* LONG stands for JT_LONG, JT_ULONG, JT_TRUE, JT_FALSE and JT_NULL as well.
Types == {"INVALID", "ARRAY", "OBJECT", "LONG", "DOUBLE", "UTF8", "RAW"}
Containers == {"ARRAY", "OBJECT"}
Exceptions == {"OverflowError", "other"}

\* beginTypeContext: strings, floats and constants leave err alone; an int
\* clears an OverflowError; looking for toDict clears anything, and so does
\* the test for a Decimal, which containers undergo, if there is no decimal.
BeginOutcomes(err) ==
  [type : Types \ {"INVALID", "RAW"}, err : {err}]
    \cup [type : IF HasDefault THEN Types \ {"INVALID"} ELSE {"LONG", "ARRAY", "OBJECT", "RAW"},
          err : {"none"}]
    \cup [type : {"INVALID"}, err : Exceptions]

\* iterNext returns 1 and iterGetValue the item; NULL and an IndexError for a
\* list that has become shorter.
ItemAnswers(type, err) ==
  [value : {"object"}, err : {err}]
    \cup IF IterFails /\ type = "ARRAY"
         THEN [value : {"NULL"}, err : {"other"}]
         ELSE {}

\* iterNext returns 0 before the items are exhausted: the iterator of a dict
\* raised because the dict has changed, or the key is no longer there.
EarlyEnds(type, err) ==
  IF IterFails /\ type = "OBJECT" THEN {err, "other"} ELSE {}

\* iterNext returns -1.
IterErrors(type) == IF IterFails /\ type = "OBJECT" THEN Exceptions ELSE {}

\* getStringValue returns NULL.
StringErrors(type) ==
  IF StringFails /\ type \in {"UTF8", "RAW"} THEN Exceptions ELSE {}

\* getDoubleValue leaves an exception pending: a Decimal that is no float, or
\* whose __float__ raises.  It returns -1.0, and encode cannot tell.
DoubleErrors(type) == IF DoubleFails /\ type = "DOUBLE" THEN Exceptions ELSE {}
=============================================================================
