------------------------------ MODULE Decoder ------------------------------
(***************************************************************************)
(* The recursive-descent parser of lib/ultrajsondec.c (decode_any,         *)
(* decode_array, decode_object, JSON_DecodeObject) together with the       *)
(* Python object callbacks of python/JSONtoObj.c it drives.                *)
(*                                                                         *)
(* The C call stack is the variable stack: one frame per activation of     *)
(* decode_array or decode_object.  decode_any has no state of its own, so  *)
(* it is a value of pc.                                                    *)
(*                                                                         *)
(* Input is a sequence of lexemes.  A byte that has not been looked at is  *)
(* left open: Peek chooses it when the parser first reads it, so one       *)
(* behaviour stands for the run on every text that agrees on what was      *)
(* read.  input may also be given in full by the constant Known.           *)
(*                                                                         *)
(* References: every JSOBJ a new* callback returns is a reference the call *)
(* owns until it is given to a container, released, or returned.           *)
(***************************************************************************)
EXTENDS JsonGrammar

CONSTANTS
  MaxDepth,   \* JSON_MAX_OBJECT_DEPTH
  MaxLen,     \* bound: the terminator comes after at most MaxLen lexemes
  Known       \* texts (or beginnings of texts) the decoder is called with

(***************************************************************************)
(* What *ds->start can be.  "str" and "atom" are a whole string and a      *)
(* whole number or literal; "bad" is a scalar whose decoder calls SetError;*)
(* "raise" one whose new* callback returns NULL with a Python exception    *)
(* (a code point above 0x10FFFF, an integer above the digit limit); "junk" *)
(* a number of which double-conversion consumes no character ("-.");       *)
(* "nul" a zero byte inside the buffer and "eof" the one that ends it.     *)
(***************************************************************************)
Scalars == {"str", "atom", "bad", "raise", "junk"}
Lexemes == {"lbrack", "rbrack", "lbrace", "rbrace", "comma", "colon",
            "ws", "nul", "eof"} \cup Scalars

ASSUME DepthAssumption == MaxDepth \in Nat
ASSUME LenAssumption == MaxLen \in Nat
ASSUME KnownAssumption ==
  \A text \in Known :
    /\ text \in Seq(Lexemes)
    /\ \A i \in 1..Len(text) : text[i] = "eof" => i = Len(text)

Errors == {"lexical", "expected_value", "depth", "array_1", "array_2",
           "key", "colon", "object", "trailing"}

Kinds == {"none", "str", "atom", "array", "object"}
JSOBJ == [ref : Nat, kind : Kinds]
NULL == [ref |-> 0, kind |-> "none"]
Frame == [fn : {"array", "object"}, obj : JSOBJ, name : JSOBJ, len : Nat]

VARIABLES
  input,      \* the bytes of the buffer that are decided
  start,      \* ds->start, as an index of input
  stack,      \* activations of decode_array and decode_object
  pc,         \* where the running activation is
  ret,        \* the JSOBJ being returned, or the final result
  lastType,   \* ds->lastType
  objDepth,   \* ds->objDepth
  errorStr,   \* ds->dec->errorStr ("none" is NULL)
  pyErr,      \* a Python exception is pending
  made,       \* how many references new* callbacks have returned
  owned,      \* the references this call owns
  fault       \* a reference not owned (or NULL) was given up

vars == <<input, start, stack, pc, ret, lastType, objDepth, errorStr, pyErr,
          made, owned, fault>>

Locations == {"decode_any", "return", "member", "delimiter", "colon",
              "trailing", "done"}

TypeOK ==
  /\ input \in Seq(Lexemes)
  /\ start \in Nat \ {0}
  /\ stack \in Seq(Frame)
  /\ pc \in Locations
  /\ ret \in JSOBJ
  /\ lastType \in {"JT_INVALID", "JT_UTF8", "JT_OTHER"}
  /\ objDepth \in Nat
  /\ errorStr \in Errors \cup {"none"}
  /\ pyErr \in BOOLEAN
  /\ made \in Nat
  /\ owned \subseteq 1..made
  /\ fault \in BOOLEAN

\* JSON_DecodeObject up to its call of decode_any.
Init ==
  /\ input \in Known
  /\ start = 1
  /\ stack = <<>>
  /\ pc = "decode_any"
  /\ ret = NULL
  /\ lastType \in {"JT_INVALID", "JT_UTF8", "JT_OTHER"}  \* not initialised
  /\ objDepth = 0
  /\ errorStr = "none"
  /\ pyErr = FALSE
  /\ made = 0
  /\ owned = {}
  /\ fault = FALSE

-----------------------------------------------------------------------------
(* Reading the buffer. *)

Complete == Len(input) > 0 /\ input[Len(input)] = "eof"

\* c is the byte at ds->start.
Peek(c) ==
  \/ /\ start <= Len(input)
     /\ c = input[start]
     /\ UNCHANGED input
  \/ /\ start = Len(input) + 1
     /\ ~Complete
     /\ c \in Lexemes
     /\ Len(input) >= MaxLen => c = "eof"
     /\ input' = Append(input, c)

SkipWhitespaceStuck ==      \* variant: offset is not advanced
  /\ pc \in {"decode_any", "member", "delimiter", "colon", "trailing"}
  /\ Peek("ws")
  /\ UNCHANGED <<start, stack, pc, ret, lastType, objDepth, errorStr, pyErr,
                 made, owned, fault>>

\* One turn of the loop of SkipWhitespace, or of decode_any's own.
SkipWhitespace ==
  /\ pc \in {"decode_any", "member", "delimiter", "colon", "trailing"}
  /\ Peek("ws")
  /\ start' = start + 1
  /\ UNCHANGED <<stack, pc, ret, lastType, objDepth, errorStr, pyErr, made,
                 owned, fault>>

-----------------------------------------------------------------------------
(* References, errors and the stack. *)

Top == stack[Len(stack)]
Pop == SubSeq(stack, 1, Len(stack) - 1)
Closer == IF Top.fn = "array" THEN "rbrack" ELSE "rbrace"

\* Give up the references of objs: DECREF, or hand over to a container.
Drop(objs) ==
  LET refs == {o.ref : o \in objs}
  IN  /\ owned' = owned \ refs
      /\ fault' = (fault \/ ~(refs \subseteq owned))

Keep == UNCHANGED <<owned, fault>>

\* A new* callback returns a new reference to an object of the kind.
New(kind) ==
  /\ made' = made + 1
  /\ owned' = owned \cup {made + 1}
  /\ UNCHANGED fault

Fresh(kind) == [ref |-> made + 1, kind |-> kind]

\* return SetError(...): the activation returns NULL.
SetError(msg) ==
  /\ errorStr' = msg
  /\ ret' = NULL
  /\ pc' = "return"

Return(obj) ==
  /\ ret' = obj
  /\ pc' = "return"
  /\ UNCHANGED errorStr

-----------------------------------------------------------------------------
(* decode_any. *)

\* decode_string, decode_numeric, decode_true, ... succeed.
DecodeScalar ==
  /\ pc = "decode_any"
  /\ \E c \in {"str", "atom"} :
       /\ Peek(c)
       /\ New(c)
       /\ Return(Fresh(c))
       /\ lastType' = IF c = "str" THEN "JT_UTF8" ELSE "JT_OTHER"
  /\ start' = start + 1
  /\ UNCHANGED <<stack, objDepth, pyErr>>

\* decodeDouble on "-." or the like: the value 0.0, nothing consumed.
DecodeJunkNumber ==
  /\ pc = "decode_any"
  /\ Peek("junk")
  /\ New("atom")
  /\ Return(Fresh("atom"))
  /\ lastType' = "JT_OTHER"
  /\ UNCHANGED <<start, stack, objDepth, pyErr>>

\* A scalar decoder, or decode_any itself, calls SetError.
DecodeError ==
  /\ pc = "decode_any"
  /\ \/ Peek("bad") /\ SetError("lexical")
     \/ \E c \in {"rbrack", "rbrace", "comma", "colon", "nul", "eof"} :
          Peek(c) /\ SetError("expected_value")
  /\ Keep
  /\ UNCHANGED <<start, stack, lastType, objDepth, pyErr, made>>

\* The callback of a scalar fails: NULL without errorStr.
DecodeRaises ==
  /\ pc = "decode_any"
  /\ Peek("raise")
  /\ start' = start + 1
  /\ pyErr' = TRUE
  /\ Return(NULL)
  /\ Keep
  /\ UNCHANGED <<stack, lastType, objDepth, made>>

DepthExceededEarly == objDepth + 1 >= MaxDepth      \* variant: >= for >

\* ds->objDepth++; if (ds->objDepth > JSON_MAX_OBJECT_DEPTH)
DepthExceeded == objDepth + 1 > MaxDepth

\* decode_array and decode_object up to their loop.
Enter(fn, opener) ==
  /\ pc = "decode_any"
  /\ Peek(opener)
  /\ objDepth' = objDepth + 1
  /\ ~DepthExceeded
  /\ New(fn)
  /\ stack' = Append(stack, [fn |-> fn, obj |-> Fresh(fn), name |-> NULL, len |-> 0])
  /\ lastType' = IF fn = "array" THEN "JT_INVALID" ELSE lastType
  /\ start' = start + 1
  /\ pc' = "member"
  /\ UNCHANGED <<ret, errorStr, pyErr>>

TooDeep(opener) ==
  /\ pc = "decode_any"
  /\ Peek(opener)
  /\ objDepth' = objDepth + 1
  /\ DepthExceeded
  /\ SetError("depth")
  /\ Keep
  /\ UNCHANGED <<start, stack, lastType, pyErr, made>>

-----------------------------------------------------------------------------
(* The loops of decode_array and decode_object. *)

CloseAtMemberKeepsDepth ==  \* variant: an empty container stays counted
  /\ pc = "member"
  /\ Peek(Closer)
  /\ stack' = Pop
  /\ IF Top.len = 0
     THEN /\ start' = start + 1
          /\ Return(Top.obj)
          /\ Keep
          /\ UNCHANGED objDepth
     ELSE /\ objDepth' = objDepth - 1
          /\ Drop({Top.obj})
          /\ SetError("object")
          /\ UNCHANGED start
  /\ UNCHANGED <<lastType, pyErr, made>>

CloseAtMemberAnyLen ==      \* variant: len is not tested, "[1,]" is accepted
  /\ pc = "member"
  /\ Peek(Closer)
  /\ objDepth' = objDepth - 1
  /\ stack' = Pop
  /\ start' = start + 1
  /\ Return(Top.obj)
  /\ Keep
  /\ UNCHANGED <<lastType, pyErr, made>>

\* The closing bracket where a member may start.
CloseAtMember ==
  /\ pc = "member"
  /\ Peek(Closer)
  /\ objDepth' = objDepth - 1
  /\ stack' = Pop
  /\ IF Top.len = 0
     THEN /\ start' = start + 1
          /\ Return(Top.obj)
          /\ Keep
     ELSE /\ Drop({Top.obj})
          /\ SetError(IF Top.fn = "array" THEN "array_1" ELSE "object")
          /\ UNCHANGED start
  /\ UNCHANGED <<lastType, pyErr, made>>

BeginMember ==
  /\ pc = "member"
  /\ \E c \in Lexemes \ {"ws", Closer} : Peek(c)
  /\ pc' = "decode_any"
  /\ lastType' = IF Top.fn = "object" THEN "JT_INVALID" ELSE lastType
  /\ UNCHANGED <<start, stack, ret, objDepth, errorStr, pyErr, made>>
  /\ Keep

UnwindForgetsName ==        \* variant: a waiting member name is not released
  /\ pc = "return" /\ stack # <<>> /\ ret = NULL
  /\ Drop({Top.obj})
  /\ stack' = Pop
  /\ UNCHANGED <<input, start, pc, ret, lastType, objDepth, errorStr, pyErr, made>>

UnwindReportsAgain ==       \* variant: every level calls SetError
  /\ pc = "return" /\ stack # <<>> /\ ret = NULL
  /\ Drop({Top.obj} \cup ({Top.name} \ {NULL}))
  /\ stack' = Pop
  /\ SetError("object")
  /\ UNCHANGED <<input, start, lastType, objDepth, pyErr, made>>

\* decode_any returned NULL: release what the activation holds, return NULL.
Unwind ==
  /\ pc = "return" /\ stack # <<>> /\ ret = NULL
  /\ Drop({Top.obj} \cup ({Top.name} \ {NULL}))
  /\ stack' = Pop
  /\ UNCHANGED <<input, start, pc, ret, lastType, objDepth, errorStr, pyErr, made>>

ArrayAddItemKeeps ==        \* variant: the item is not released once in the list
  /\ pc = "return" /\ stack # <<>> /\ ret # NULL
  /\ Top.fn = "array"
  /\ ret' = NULL
  /\ pc' = "delimiter"
  /\ UNCHANGED <<input, start, stack, lastType, objDepth, errorStr, pyErr, made,
                 owned, fault>>

\* arrayAddItem
ArrayAddItem ==
  /\ pc = "return" /\ stack # <<>> /\ ret # NULL
  /\ Top.fn = "array"
  /\ Drop({ret})
  /\ ret' = NULL
  /\ pc' = "delimiter"
  /\ UNCHANGED <<input, start, stack, lastType, objDepth, errorStr, pyErr, made>>

GotNameSilently ==          \* variant: return NULL instead of SetError
  /\ pc = "return" /\ stack # <<>> /\ ret # NULL
  /\ Top.fn = "object" /\ Top.name = NULL
  /\ ret' = NULL
  /\ IF lastType = "JT_UTF8"
     THEN /\ stack' = [stack EXCEPT ![Len(stack)].name = ret]
          /\ pc' = "colon"
          /\ Keep
     ELSE /\ Drop({Top.obj, ret})
          /\ stack' = Pop
          /\ UNCHANGED pc
  /\ UNCHANGED <<input, start, lastType, objDepth, errorStr, pyErr, made>>

\* decode_object gets the name of a member and tests its type.
GotName ==
  /\ pc = "return" /\ stack # <<>> /\ ret # NULL
  /\ Top.fn = "object" /\ Top.name = NULL
  /\ IF lastType = "JT_UTF8"
     THEN /\ stack' = [stack EXCEPT ![Len(stack)].name = ret]
          /\ ret' = NULL
          /\ pc' = "colon"
          /\ Keep
          /\ UNCHANGED errorStr
     ELSE /\ Drop({Top.obj, ret})
          /\ stack' = Pop
          /\ SetError("key")
  /\ UNCHANGED <<input, start, lastType, objDepth, pyErr, made>>

ColonUnchecked ==           \* variant: whatever stands for ':' is skipped
  /\ pc = "colon"
  /\ start' = start + 1
  /\ \E c \in Lexemes \ {"ws"} : Peek(c)
  /\ pc' = "decode_any"
  /\ Keep
  /\ UNCHANGED <<stack, ret, errorStr, lastType, objDepth, pyErr, made>>

\* SkipWhitespace and if (*(ds->start++) != ':').
Colon ==
  /\ pc = "colon"
  /\ start' = start + 1
  /\ \/ /\ Peek("colon")
        /\ pc' = "decode_any"
        /\ Keep
        /\ UNCHANGED <<stack, ret, errorStr>>
     \/ /\ \E c \in Lexemes \ {"ws", "colon"} : Peek(c)
        /\ Drop({Top.obj, Top.name})
        /\ stack' = Pop
        /\ SetError("colon")
  /\ UNCHANGED <<lastType, objDepth, pyErr, made>>

\* objectAddKey: PyDict_SetItem, whose failure on an unhashable key leaves an
\* exception pending and is not reported to the decoder.
ObjectAddKey ==
  /\ pc = "return" /\ stack # <<>> /\ ret # NULL
  /\ Top.fn = "object" /\ Top.name # NULL
  /\ Drop({Top.name, ret})
  /\ pyErr' = (pyErr \/ Top.name.kind \in {"array", "object"})
  /\ stack' = [stack EXCEPT ![Len(stack)].name = NULL]
  /\ ret' = NULL
  /\ pc' = "delimiter"
  /\ UNCHANGED <<input, start, lastType, objDepth, errorStr, made>>

\* switch (*(ds->start++)) after a member: the closing bracket, ...
CloseAfterMember ==
  /\ Peek(Closer)
  /\ objDepth' = objDepth - 1
  /\ stack' = Pop
  /\ Return(Top.obj)
  /\ Keep

CommaCountsDown ==          \* variant: objDepth-- for a comma, too
  /\ Peek("comma")
  /\ objDepth' = objDepth - 1
  /\ stack' = [stack EXCEPT ![Len(stack)].len = @ + 1]
  /\ pc' = "member"
  /\ Keep
  /\ UNCHANGED <<ret, errorStr>>

\* ... a comma, ...
Comma ==
  /\ Peek("comma")
  /\ stack' = [stack EXCEPT ![Len(stack)].len = @ + 1]
  /\ pc' = "member"
  /\ Keep
  /\ UNCHANGED <<objDepth, ret, errorStr>>

\* ... or anything else.
BadDelimiter ==
  /\ \E c \in Lexemes \ {"ws", Closer, "comma"} : Peek(c)
  /\ Drop({Top.obj})
  /\ stack' = Pop
  /\ SetError(IF Top.fn = "array" THEN "array_2" ELSE "object")
  /\ UNCHANGED objDepth

Delimiter ==
  /\ pc = "delimiter"
  /\ start' = start + 1
  /\ CloseAfterMember \/ Comma \/ BadDelimiter
  /\ UNCHANGED <<lastType, pyErr, made>>

-----------------------------------------------------------------------------
(* JSON_DecodeObject after decode_any. *)

Epilogue ==
  /\ pc = "return" /\ stack = <<>>
  /\ pc' = IF errorStr = "none" THEN "trailing" ELSE "done"
  /\ UNCHANGED <<input, start, stack, ret, lastType, objDepth, errorStr, pyErr,
                 made, owned, fault>>

Trailing ==
  /\ pc = "trailing"
  /\ \E c \in Lexemes \ {"ws"} :
       /\ Peek(c)
       /\ IF c # "eof" /\ ret # NULL
          THEN /\ Drop({ret})
               /\ ret' = NULL
               /\ errorStr' = "trailing"
          ELSE Keep /\ UNCHANGED <<ret, errorStr>>
  /\ pc' = "done"
  /\ UNCHANGED <<start, stack, lastType, objDepth, pyErr, made>>

Done == pc = "done" /\ UNCHANGED vars

-----------------------------------------------------------------------------
Step ==
  \/ SkipWhitespace
  \/ DecodeScalar \/ DecodeJunkNumber \/ DecodeError \/ DecodeRaises
  \/ Enter("array", "lbrack") \/ Enter("object", "lbrace")
  \/ TooDeep("lbrack") \/ TooDeep("lbrace")
  \/ CloseAtMember \/ BeginMember
  \/ Unwind \/ ArrayAddItem
  \/ GotName \/ Colon \/ ObjectAddKey
  \/ Delimiter
  \/ Epilogue \/ Trailing

Next == Step \/ Done

Spec == Init /\ [][Next]_vars

\* The decoder runs on the caller's thread and is never suspended for ever.
FairSpec == Spec /\ WF_vars(Step)

-----------------------------------------------------------------------------
(* Properties. *)

\* decode_any has returned NULL and its callers are returning.
Unwinding == pc \in {"return", "trailing", "done"} /\ ret = NULL

\* What the caller of ujson.loads sees (JSONToObj, lines 221-236).
Outcome ==
  CASE errorStr # "none"             -> "JSONDecodeError"
    [] errorStr = "none" /\ ret = NULL /\ pyErr    -> "exception"
    [] errorStr = "none" /\ ret # NULL /\ ~pyErr   -> "value"
    [] OTHER                         -> "SystemError"

\* Every reference a new* callback returned is held by exactly the place that
\* must give it up next (the container of an activation, a member name waiting
\* for its value, the value being returned); none is lost on any of the error
\* paths of decode_array and decode_object and none is released twice.
Held ==
  {stack[i].obj : i \in 1..Len(stack)} \cup {stack[i].name : i \in 1..Len(stack)}
    \cup {ret}

Ownership ==
  /\ owned = {o.ref : o \in Held \ {NULL}}
  /\ ~fault

\* The depth counter agrees with the recursion except while an error unwinds
\* it (error returns do not decrement it), and the C stack is never deeper
\* than JSON_MAX_OBJECT_DEPTH activations.
DepthBounded ==
  /\ ~Unwinding => objDepth = Len(stack)
  /\ Unwinding => objDepth >= Len(stack)
  /\ Len(stack) <= MaxDepth

\* The decoder stops at the NUL byte that ends the buffer: it may step past it
\* (start++ in the delimiter switches) only to fail.
StopsAtTerminator ==
  Complete => \/ start <= Len(input)
              \/ start = Len(input) + 1 /\ Unwinding /\ errorStr # "none"

\* NULL is never returned without a reason (an error string, or a Python
\* exception left by a callback), and an error string never with a value, so
\* that ujson.loads cannot return NULL with no exception set.
NullHasReason ==
  /\ Unwinding => errorStr # "none" \/ pyErr
  /\ errorStr # "none" => Unwinding

\* "Key name of object must be 'string' when decoding 'object'"
\* (ultrajsondec.c:701): a member name that passed the test is a string.
KeyNameIsString ==
  \A i \in 1..Len(stack) : stack[i].name # NULL => stack[i].name.kind = "str"

\* The parser, once it has failed, reports the first error and consumes no
\* more input.
FirstErrorWins ==
  [][Unwinding /\ errorStr # "none" => errorStr' = errorStr /\ start' = start]_vars

\* ujson.loads returns a value for a JSON document whose nesting is within
\* JSON_MAX_OBJECT_DEPTH, and for nothing else: decode_any accepts the whole
\* grammar, and its depth limit rejects nothing it need not reject.
DecodesJson ==
  pc = "done" => (Outcome = "value" <=> IsJson(input, MaxDepth))

\* Every call of the decoder returns.
Terminates == <>(pc = "done")

-----------------------------------------------------------------------------
(* The text read. *)

\* A name has been read, or begun, that is not a string.
Misnamed ==
  \/ \E i \in 1..Len(stack) :
       \/ stack[i].name.kind \notin {"none", "str"}
       \/ stack[i].fn = "object" /\ stack[i].name = NULL /\ i < Len(stack)
  \/ /\ pc = "return" /\ ret # NULL /\ ret.kind # "str"
     /\ stack # <<>> /\ Top.fn = "object" /\ Top.name = NULL

\* Behind a value or a name is a number that makes no progress.
Stuck ==
  /\ pc \in {"return", "colon", "delimiter", "trailing"}
  /\ start <= Len(input) /\ input[start] = "junk"

Refused == errorStr # "none" \/ pyErr \/ Misnamed \/ Stuck

At ==
  CASE stack = <<>> -> IF pc = "decode_any" THEN "value" ELSE "end"
    [] stack # <<>> /\ pc = "colon" -> "colon"
    [] stack # <<>> /\ pc = "delimiter" -> "delimiter"
    [] stack # <<>> /\ pc = "return" ->
         IF Top.fn = "object" /\ Top.name = NULL THEN "colon" ELSE "delimiter"
    [] OTHER -> IF Top.name # NULL THEN "value"
                ELSE IF Top.len = 0 THEN "first"
                ELSE IF Top.fn = "array" THEN "value" ELSE "name"

Opened == [i \in DOMAIN stack |-> IF stack[i].fn = "array" THEN "ARRAY" ELSE "OBJECT"]

Place == [open |-> Opened, at |-> At]

Text ==
  INSTANCE JsonText WITH
    Depth <- MaxDepth, Spaced <- TRUE,
    text <- IF Refused THEN <<>> ELSE SubSeq(input, 1, start - 1),
    place <- IF Refused THEN [open |-> <<>>, at |-> "value"] ELSE Place,
    fate <- IF pc = "done" /\ Outcome = "value" THEN "complete"
            ELSE IF Refused THEN "given up" ELSE "writing"

\* Until it fails, the decoder has read the beginning of a JSON text: with each
\* lexeme, and with nothing else, it gets where that lexeme leads, in
\* containers that its stack matches; and a value is returned only when
\* the text is complete.
ReadsJson == Text!Spec
=============================================================================
