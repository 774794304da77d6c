------------------------------ MODULE Encoder ------------------------------
(***************************************************************************)
(* encode and JSON_EncodeObject of lib/ultrajsonenc.c, called by objToJSON *)
(* of python/objToJSON.c.  The object being encoded is chosen while it is  *)
(* walked: each call of beginTypeContext says what the next value is, and  *)
(* iterNext whether there is another item; both run Python code.           *)
(***************************************************************************)
EXTENDS EncodeBuffer, CallbackContract, JsonGrammar

CONSTANTS
  RecursionMax,   \* enc->recursionMax
  BufferSize,     \* _cbBuffer
  Indent,         \* enc->indent
  ItemSeparator,  \* enc->itemSeparatorLength
  KeySeparator,   \* enc->keySeparatorLength
  Lengths,        \* the lengths of the strings and names encoded
  ScalarLengths,  \* the lengths of the other scalars encoded
  MaxItems,       \* bound: the items of one array or object
  OptionFails     \* whether the truth value of an option may raise

Number == 128     \* what encode reserves for brackets, numbers and constants

ASSUME EncoderAssumption ==
  /\ RecursionMax \in Nat /\ MaxItems \in Nat
  /\ BufferSize \in Nat \ {0}
  /\ Indent \in Int
  /\ ItemSeparator \in Nat /\ KeySeparator \in Nat
  /\ Lengths \subseteq Nat
  /\ ScalarLengths \subseteq 1..Number
  /\ OptionFails \in BOOLEAN

VARIABLES
  pc,         \* the point in encode that is reached
  level,      \* enc->level
  frames,     \* the containers being iterated: type, items left, count
  named,      \* whether encode was called with a name,
  value,      \*   and with an object or with NULL
  type,       \* tc.type
  contexts,   \* type contexts begun and not ended
  errorMsg,   \* whether enc->errorMsg is set
  pyErr,      \* the pending Python exception, or "none"
  buf,        \* the output buffer
  ret,        \* what JSON_EncodeObject returns, and then objToJSON
  out,        \* history: the lexemes appended
  raised      \* history: the exceptions raised, those encode was told of
              \*   by a result and those it was not

vars == <<pc, level, frames, named, value, type, contexts, errorMsg, pyErr,
          buf, ret, out, raised>>

Frames == [type : Containers, left : Nat, count : Nat]
Histories == SUBSET {"told", "untold"}
Lexemes == {"lbrack", "rbrack", "lbrace", "rbrace", "comma", "colon", "str", "atom"}

Frame(t, n, c) == [type |-> t, left |-> n, count |-> c]
Top == frames[Len(frames)]
Popped == SubSeq(frames, 1, Len(frames) - 1)

TypeOK ==
  /\ pc \in {"encode", "begin", "switch", "iterate", "returned", "encoded", "done"}
  /\ level \in Int
  /\ frames \in Seq(Frames)
  /\ named \in BOOLEAN
  /\ value \in {"object", "NULL"}
  /\ type \in Types
  /\ contexts \in Nat
  /\ errorMsg \in BOOLEAN
  /\ pyErr \in Exceptions \cup {"none"}
  /\ buf \in Buffers
  /\ ret \in {"none", "NULL", "string"}
  /\ out \in Seq(Lexemes)
  /\ raised \in Histories

\* objToJSON does not ask whether an option's truth value raised.
Init ==
  /\ pc = "encode"
  /\ level = 0
  /\ frames = <<>>
  /\ named = FALSE
  /\ value = "object"
  /\ type = "INVALID"
  /\ contexts = 0
  /\ errorMsg = FALSE
  /\ pyErr \in {"none"} \cup (IF OptionFails THEN Exceptions ELSE {})
  /\ buf = [start |-> "buffer", size |-> BufferSize, offset |-> 0, blocks |-> 0]
  /\ ret = "none"
  /\ out = <<>>
  /\ raised = IF pyErr = "none" THEN {} ELSE {"untold"}

\* Buffer_Realloc reports a failure by SetError alone.
NoteFailure == errorMsg' = (errorMsg \/ buf'.start = "NULL")
SetError == errorMsg' = TRUE

\* What Buffer_EscapeString* may write for a string of n bytes: see FitsReserve
\* of EscapeString.  One that it rejects may be written up to its last byte.
Escaped(n) == n..6 * n
Rejected(n) == IF n = 0 THEN {} ELSE 0..6 * (n - 1)

RESERVE_STRING(n) == 2 + 6 * n

Spaces(n) == IF Indent > 0 THEN Indent * n ELSE 0
Newline == IF Indent > 0 THEN 1 ELSE 0

-----------------------------------------------------------------------------
(* Entering encode. *)

\* The depth test comes first and leaves enc->level as the caller set it.
TooDeep ==
  /\ pc = "encode" /\ level > RecursionMax
  /\ SetError
  /\ pc' = "returned"
  /\ UNCHANGED <<level, frames, named, value, type, contexts, pyErr, buf, ret,
                 out, raised>>

AlreadyFailed ==
  /\ pc = "encode" /\ level <= RecursionMax
  /\ errorMsg
  /\ pc' = "returned"
  /\ UNCHANGED <<level, frames, named, value, type, contexts, errorMsg, pyErr,
                 buf, ret, out, raised>>

\* The name, its quotes and the separator after it.
Name(n) ==
  /\ pc = "encode" /\ level <= RecursionMax /\ ~errorMsg
  /\ named
  /\ \E b \in Reserve(buf, RESERVE_STRING(n) + KeySeparator) :
       \/ \E w \in Escaped(n) :
            /\ buf' = Write(b, 1 + w + 1 + KeySeparator)
            /\ NoteFailure
            /\ pc' = "begin"
            /\ out' = out \o <<"str", "colon">>
       \/ \* Buffer_EscapeStringValidated rejects the name
          /\ \E w \in Rejected(n) : buf' = Write(b, 1 + w)
          /\ SetError
          /\ pc' = "returned"
          /\ out' = out
  /\ UNCHANGED <<level, frames, named, value, type, contexts, pyErr, ret, raised>>

-----------------------------------------------------------------------------
(* beginTypeContext, and the reservation that follows it. *)

ReadyToBegin ==
  \/ pc = "begin"
  \/ pc = "encode" /\ level <= RecursionMax /\ ~errorMsg /\ ~named

BeginNull ==
  /\ ReadyToBegin
  /\ value = "NULL"
  /\ type' = "INVALID"
  /\ buf' \in Reserve(buf, Number)
  /\ NoteFailure
  /\ pc' = "switch"
  /\ UNCHANGED <<level, frames, named, value, contexts, pyErr, ret, out, raised>>

BegunAlways(o) ==                 \* variant: an invalid value keeps its context
  contexts' = contexts + 1

\* The INVALID exit of Object_beginTypeContext frees what it allocated.
Begun(o) == contexts' = IF o.type = "INVALID" THEN contexts ELSE contexts + 1

BeginTypeContext ==
  /\ ReadyToBegin
  /\ value = "object"
  /\ \E o \in BeginOutcomes(pyErr) :
       /\ type' = o.type
       /\ pyErr' = o.err
       /\ Begun(o)
       /\ raised' = IF o.type = "INVALID" THEN raised \cup {"told"} ELSE raised
  /\ buf' \in Reserve(buf, Number)
  /\ NoteFailure
  /\ pc' = "switch"
  /\ UNCHANGED <<level, frames, named, value, ret, out>>

-----------------------------------------------------------------------------
(* switch (tc.type) *)

EndTypeContext == contexts' = contexts - 1

InvalidUnnoticed ==               \* variant: only the exception is left
  /\ pc = "switch" /\ type = "INVALID"
  /\ level' = level - 1
  /\ pc' = "returned"
  /\ UNCHANGED <<frames, named, value, type, contexts, errorMsg, pyErr, buf, ret,
                 out, raised>>

Invalid ==
  /\ pc = "switch" /\ type = "INVALID"
  /\ SetError
  /\ level' = level - 1
  /\ pc' = "returned"
  /\ UNCHANGED <<frames, named, value, type, contexts, pyErr, buf, ret, out, raised>>

\* The opening bracket; n is the size cached in the context, if it has one.
Open(n) ==
  /\ pc = "switch" /\ type \in Containers
  /\ buf' = Write(buf, 1)
  /\ out' = out \o <<IF type = "ARRAY" THEN "lbrack" ELSE "lbrace">>
  /\ frames' = frames \o <<Frame(type, n, 0)>>
  /\ pc' = "iterate"
  /\ UNCHANGED <<level, named, value, type, contexts, errorMsg, pyErr, ret, raised>>

\* An exception that getDoubleValue leaves is not noticed.
GetDoubleValue ==
  \/ UNCHANGED <<pyErr, raised>>
  \/ pyErr' \in DoubleErrors(type) /\ raised' = raised \cup {"untold"}

Scalar(n) ==
  /\ pc = "switch" /\ type \in {"LONG", "DOUBLE"}
  /\ GetDoubleValue
  /\ buf' = Write(buf, n)
  /\ out' = out \o <<"atom">>
  /\ EndTypeContext
  /\ level' = level - 1
  /\ pc' = "returned"
  /\ UNCHANGED <<frames, named, value, type, errorMsg, ret>>

\* Buffer_AppendDoubleDconv refuses a NaN when allow_nan is off.
DoubleRefused ==
  /\ pc = "switch" /\ type = "DOUBLE"
  /\ SetError
  /\ EndTypeContext
  /\ level' = level - 1
  /\ pc' = "returned"
  /\ UNCHANGED <<frames, named, value, type, pyErr, buf, ret, out, raised>>

\* getStringValue returned NULL, with an exception: the type context is left
\* as it is, and so is the level.
StringUnavailable ==
  /\ pc = "switch"
  /\ \E e \in StringErrors(type) : pyErr' = e
  /\ raised' = raised \cup {"told"}
  /\ SetError
  /\ pc' = "returned"
  /\ UNCHANGED <<level, frames, named, value, type, contexts, buf, ret, out>>

\* errorMsg is tested after the reservation and may be older than it.
StringNoMemory(n) ==
  /\ pc = "switch" /\ type \in {"UTF8", "RAW"}
  /\ buf' \in Reserve(buf, IF type = "UTF8" THEN RESERVE_STRING(n) ELSE n)
  /\ errorMsg \/ buf'.start = "NULL"
  /\ SetError
  /\ EndTypeContext
  /\ pc' = "returned"
  /\ UNCHANGED <<level, frames, named, value, type, pyErr, ret, out, raised>>

String(n) ==
  /\ pc = "switch" /\ type = "UTF8"
  /\ \E b \in Reserve(buf, RESERVE_STRING(n)) :
       /\ ~errorMsg /\ b.start # "NULL"
       /\ \/ \E w \in Escaped(n) :
               /\ buf' = Write(b, 1 + w + 1)
               /\ out' = out \o <<"str">>
               /\ errorMsg' = errorMsg
          \/ \* Buffer_EscapeStringValidated rejects it after the quote
             /\ \E w \in Rejected(n) : buf' = Write(b, 1 + w)
             /\ out' = out
             /\ SetError
  /\ EndTypeContext
  /\ level' = level - 1
  /\ pc' = "returned"
  /\ UNCHANGED <<frames, named, value, type, pyErr, ret, raised>>

\* The text of an integer beyond 64 bits or of __json__.
Raw(n) ==
  /\ pc = "switch" /\ type = "RAW"
  /\ \E b \in Reserve(buf, n) :
       /\ ~errorMsg /\ b.start # "NULL"
       /\ buf' = Write(b, n)
  /\ out' = out \o <<"atom">>
  /\ EndTypeContext
  /\ level' = level - 1
  /\ pc' = "returned"
  /\ UNCHANGED <<frames, named, value, type, errorMsg, pyErr, ret, raised>>

-----------------------------------------------------------------------------
(* The loops over the items of an array or object. *)

\* The reservation that starts an iteration, made before res < 0 is tested.
ItemReserveShort ==               \* variant: the level of the item is forgotten
  Indent * level + ItemSeparator + 1

ItemReserve == Indent * (level + 1) + ItemSeparator + 1

\* iterNext, iterGetValue and iterGetName, up to the recursive call.  A list
\* that has become shorter gives NULL and an IndexError.
Item ==
  /\ pc = "iterate"
  /\ Top.left > 0
  /\ \E b \in Reserve(buf, ItemReserve) :
       buf' = Write(b, (IF Top.count > 0 THEN ItemSeparator ELSE 0)
                        + Newline + Spaces(level + 1))
  /\ NoteFailure
  /\ out' = IF Top.count > 0 THEN out \o <<"comma">> ELSE out
  /\ level' = level + 1
  /\ frames' = Popped \o <<Frame(Top.type, Top.left - 1, Top.count)>>
  /\ named' = (Top.type = "OBJECT")
  /\ \E a \in ItemAnswers(Top.type, pyErr) :
       /\ value' = a.value
       /\ pyErr' = a.err
       /\ raised' = IF a.value = "NULL" THEN raised \cup {"told"} ELSE raised
  /\ pc' = "encode"
  /\ UNCHANGED <<type, contexts, ret>>

LeaveSameLevel ==                 \* variant: level-- is forgotten
  /\ frames' = Popped
  /\ EndTypeContext
  /\ level' = level
  /\ pc' = "returned"

\* iterEnd, endTypeContext, level--, return.
Leave ==
  /\ frames' = Popped
  /\ EndTypeContext
  /\ level' = level - 1
  /\ pc' = "returned"

IterNextRetried ==                \* variant: the loop goes on after res < 0
  /\ pc = "iterate"
  /\ Top.left > 0
  /\ \E e \in IterErrors(Top.type) : pyErr' = e
  /\ raised' = raised \cup {"untold"}
  /\ UNCHANGED <<pc, level, frames, named, value, type, contexts, errorMsg, buf,
                 ret, out>>

\* res < 0: the exception is pending, but SetError is not called.
IterNextFailed ==
  /\ pc = "iterate"
  /\ Top.left > 0
  /\ buf' \in Reserve(buf, ItemReserve)
  /\ NoteFailure
  /\ \E e \in IterErrors(Top.type) : pyErr' = e
  /\ raised' = raised \cup {"untold"}
  /\ Leave
  /\ UNCHANGED <<named, value, type, ret, out>>

\* iterNext returned 0, for a dict perhaps early.
IterationEnds ==
  /\ pc = "iterate"
  /\ \/ Top.left = 0 /\ UNCHANGED <<pyErr, raised>>
     \/ \E e \in EarlyEnds(Top.type, pyErr) :
          /\ pyErr' = e
          /\ raised' = IF e = "other" THEN raised \cup {"untold"} ELSE raised
  /\ \E b \in IF Top.count > 0 THEN Reserve(buf, Indent * level + 1) ELSE {buf} :
       \E c \in Reserve(Write(b, IF Top.count > 0 THEN Newline + Spaces(level) ELSE 0), 1) :
         buf' = Write(c, 1)
  /\ NoteFailure
  /\ out' = out \o <<IF Top.type = "ARRAY" THEN "rbrack" ELSE "rbrace">>
  /\ Leave
  /\ UNCHANGED <<named, value, type, ret>>

ItemDoneUncounted ==              \* variant: count is not incremented
  /\ pc = "returned" /\ frames # <<>>
  /\ ~errorMsg
  /\ pc' = "iterate"
  /\ UNCHANGED <<level, frames, named, value, type, contexts, errorMsg, pyErr,
                 buf, ret, out, raised>>

ItemDoneUnchecked ==              \* variant: errorMsg is not tested
  /\ pc = "returned" /\ frames # <<>>
  /\ frames' = Popped \o <<Frame(Top.type, Top.left, Top.count + 1)>>
  /\ pc' = "iterate"
  /\ UNCHANGED <<level, named, value, type, contexts, errorMsg, pyErr, buf, ret,
                 out, raised>>

\* The recursive call has returned.
ItemDone ==
  /\ pc = "returned" /\ frames # <<>>
  /\ ~errorMsg
  /\ frames' = Popped \o <<Frame(Top.type, Top.left, Top.count + 1)>>
  /\ pc' = "iterate"
  /\ UNCHANGED <<level, named, value, type, contexts, errorMsg, pyErr, buf, ret,
                 out, raised>>

Unwind ==
  /\ pc = "returned" /\ frames # <<>>
  /\ errorMsg
  /\ Leave
  /\ UNCHANGED <<named, value, type, errorMsg, pyErr, buf, ret, out, raised>>

-----------------------------------------------------------------------------
(* The end of JSON_EncodeObject and of objToJSON. *)

Encoded ==
  /\ pc = "returned" /\ frames = <<>>
  /\ ret' = IF errorMsg THEN "NULL" ELSE "string"
  /\ buf' = IF errorMsg THEN FreeBlock(buf) ELSE buf
  /\ pc' = "encoded"
  /\ UNCHANGED <<level, frames, named, value, type, contexts, errorMsg, pyErr,
                 out, raised>>

\* The exception of the callbacks, or one made from errorMsg, wins.
DeliverUnreported ==              \* variant: errorMsg is not made an exception
  /\ pc = "encoded"
  /\ ret' = IF pyErr # "none" THEN "NULL" ELSE ret
  /\ buf' = IF ret = "string" THEN FreeBlock(buf) ELSE buf
  /\ pc' = "done"
  /\ UNCHANGED <<level, frames, named, value, type, contexts, errorMsg, pyErr, out,
                 raised>>

\* PyUnicode_DecodeUTF8 may still refuse bytes that were copied unvalidated.
Deliver ==
  /\ pc = "encoded"
  /\ \/ /\ pyErr' = IF errorMsg /\ pyErr = "none" THEN "OverflowError" ELSE pyErr
        /\ ret' = IF pyErr' # "none" THEN "NULL" ELSE ret
        /\ UNCHANGED raised
     \/ /\ ~errorMsg /\ pyErr = "none"
        /\ pyErr' = "other"
        /\ ret' = "NULL"
        /\ raised' = raised \cup {"told"}
  /\ buf' = IF ret = "string" THEN FreeBlock(buf) ELSE buf
  /\ pc' = "done"
  /\ UNCHANGED <<level, frames, named, value, type, contexts, errorMsg, out>>

Done == pc = "done" /\ UNCHANGED vars

Enter == TooDeep \/ AlreadyFailed \/ \E n \in Lengths : Name(n)
Switch ==
  \/ Invalid
  \/ \E n \in 0..MaxItems : Open(n)
  \/ \E n \in ScalarLengths : Scalar(n)
  \/ DoubleRefused \/ StringUnavailable
  \/ \E n \in Lengths : StringNoMemory(n) \/ String(n) \/ Raw(n)
Iterate == Item \/ IterNextFailed \/ IterationEnds \/ ItemDone \/ Unwind

Step == Enter \/ BeginNull \/ BeginTypeContext \/ Switch \/ Iterate \/ Encoded \/ Deliver

Next == Step \/ Done

Spec == Init /\ [][Next]_vars
FairSpec == Spec /\ WF_vars(Step)

-----------------------------------------------------------------------------
(* Properties. *)

\* No allocation has failed yet.
Allocated == buf.start # "NULL"

\* Every byte is written inside the buffer, until an allocation fails: each
\* reservation covers all that is appended until the next one, on every path
\* through encode.
AppendsFit == Allocated => buf.offset <= buf.size

\* enc->level, changed by callers and callees at a dozen exits, is the depth
\* of the recursion until an error unwinds it, and the recursion is bounded.
LevelMatches ==
  /\ Len(frames) <= RecursionMax + 1
  /\ pc \in {"encode", "begin", "switch"} => level = Len(frames)
  /\ pc = "iterate" => level = Len(frames) - 1
  /\ pc = "returned" /\ ~errorMsg => level = Len(frames) - 1

\* encode returned from a string because of an exception: getStringValue has
\* returned NULL, and the context of the string is not ended.
Abandoned ==
  /\ pc \in {"returned", "encoded", "done"}
  /\ type \in {"UTF8", "RAW"}
  /\ errorMsg /\ "told" \in raised

\* When dumps returns, every type context has been ended and every block of
\* the buffer freed, whatever else failed.
NothingLeaked ==
  pc = "done" =>
    /\ Abandoned \/ contexts = 0
    /\ Allocated => buf.blocks = 0

\* An exception raised on the way reaches the caller of dumps.
ExceptionsSurface == pc = "done" /\ raised # {} => ret = "NULL" /\ pyErr # "none"

\* When a callback has told encode of an exception, by INVALID or by NULL,
\* dumps raises: no classification of a later value clears it, whatever the
\* getters, iterators and options that report nothing have left meanwhile.
ToldSurface == pc = "done" /\ "told" \in raised => ret = "NULL" /\ pyErr # "none"

\* dumps returns NULL exactly when an exception is pending, and only when a
\* callback raised or encode reported an error, whichever allocation failed.
NullHasReason ==
  pc = "done" => /\ ret = "NULL" <=> pyErr # "none"
                 /\ ret = "NULL" => raised # {} \/ errorMsg
                 /\ errorMsg => ret = "NULL"

\* After an error other than a failed allocation no type context is begun, no
\* item asked for and nothing appended: encode only unwinds.
ErrorStopsEncoding ==
  [][errorMsg /\ Allocated => pc' \notin {"begin", "switch", "iterate"} /\ out' = out]_vars

\* Every call returns: the recursion is bounded and so is each iteration.
Terminates == <>(pc = "done")
-----------------------------------------------------------------------------
(* The text written. *)

At ==
  CASE frames = <<>> -> IF pc \in {"encode", "switch"} THEN "value" ELSE "end"
    [] frames # <<>> /\ pc = "returned" -> "delimiter"
    [] frames # <<>> /\ pc = "iterate" -> IF Top.count = 0 THEN "first" ELSE "delimiter"
    [] frames # <<>> /\ pc \in {"begin", "switch"} /\ named -> "value"
    [] OTHER -> IF Top.count = 0 THEN "first"
                ELSE IF Top.type = "ARRAY" THEN "value" ELSE "name"

Place == [open |-> [i \in DOMAIN frames |-> frames[i].type], at |-> At]

\* Once an error is noted the text is not returned.
Text == IF errorMsg THEN <<>> ELSE out
TextPlace == IF errorMsg THEN [open |-> <<>>, at |-> "value"] ELSE Place
Fate == IF errorMsg THEN "given up"
        ELSE IF pc \in {"encoded", "done"} THEN "complete" ELSE "writing"

Written ==
  INSTANCE JsonText WITH
    Depth <- RecursionMax + 1, Spaced <- FALSE,
    text <- Text, place <- TextPlace, fate <- Fate

\* Whatever the values are and whatever fails but an iterator, only a lexeme
\* that may follow is appended (a comma only between members, the closing
\* bracket of the innermost container, a name and its colon before the value
\* of a member), and the text is returned only when it is a whole document,
\* nested no deeper than recursionMax + 1.
WritesJson == Written!Spec

\* What dumps returns is a JSON document, nested no deeper than the recursion
\* allows: separators, names and brackets are in their places however the
\* items came and whatever was refused before.
EncodesJson ==
  pc = "done" /\ ret = "string" => IsJson(Append(out, "eof"), RecursionMax + 1)
=============================================================================
