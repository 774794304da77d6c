----------------------------- MODULE EntryPoints -----------------------------
(***************************************************************************)
(* One call of dumps, dump, loads or load: objToJSON and objToJSONFile of  *)
(* python/objToJSON.c, JSONToObj and JSONFileToObj of python/JSONtoObj.c.  *)
(* The encoder and the decoder are one step each, with the outcomes that   *)
(* the modules Encoder and Decoder give them.                              *)
(***************************************************************************)
EXTENDS Naturals

CONSTANTS
  Functions,     \* the functions called
  MemoryFails    \* whether CPython may fail to make a bytes object or a tuple

AllFunctions == {"dumps", "dump", "loads", "load"}

ASSUME EntryAssumption == Functions \subseteq AllFunctions /\ MemoryFails \in BOOLEAN

\* What a call may hold: the bound method of the file, the arguments packed
\* for the inner call and for write, the separators as UTF-8, the heap block
\* of the encoder, the text made or read, sarg, and the value decoded.
References == {"method", "argtuple", "writeargs", "item", "key", "block", "text",
               "string", "sarg", "value"}

VARIABLES
  fn, pc,
  owned,     \* references held, and the encoder's block
  err,       \* the pending exception, or "none"
  error,     \* encoder.errorMsg or decoder.errorStr is set
  inner,     \* what objToJSON or JSONToObj returns
  ret,       \* what the function called returns
  uses       \* history: the references whose memory was used in the last step

vars == <<fn, pc, owned, err, error, inner, ret, uses>>

Results == {"none", "NULL", "text", "value", "None"}

TypeOK ==
  /\ fn \in Functions
  /\ pc \in {"call", "options", "separators", "encode", "encoded", "decodeUTF8",
             "read", "arg", "decode", "decoded", "returned", "write", "done"}
  /\ owned \subseteq References /\ uses \subseteq References
  /\ err \in {"none", "OverflowError", "JSONDecodeError", "other"}
  /\ error \in BOOLEAN
  /\ inner \in Results /\ ret \in Results

Init ==
  /\ fn \in Functions
  /\ pc = "call"
  /\ owned = {} /\ uses = {}
  /\ err = "none" /\ error = FALSE
  /\ inner = "none" /\ ret = "none"

-----------------------------------------------------------------------------
(* The arguments, and the file. *)

WithFile == fn \in {"dump", "load"}

Hold(new, drop) == owned' = (owned \ drop) \cup new

\* The function called returns.
Return(r, e, drop) ==
  /\ ret' = r
  /\ err' = e
  /\ pc' = "done"
  /\ Hold({}, drop)

\* The wrong arguments, no method write or read, or one that cannot be called.
Refused ==
  /\ pc = "call"
  /\ Return("NULL", "other", {})
  /\ UNCHANGED <<fn, error, inner, uses>>

Accepted ==
  /\ pc = "call"
  /\ CASE fn = "dumps" -> pc' = "options" /\ Hold({}, {})
       [] fn = "dump"  -> pc' = "options" /\ Hold({"method", "argtuple"}, {})
       [] fn = "load"  -> pc' = "read" /\ Hold({"method"}, {})
       [] fn = "loads" -> pc' = "arg" /\ Hold({}, {})
  /\ UNCHANGED <<fn, err, error, inner, ret, uses>>

ReadFails ==
  /\ pc = "read"
  /\ Return("NULL", "other", {"method"})
  /\ UNCHANGED <<fn, error, inner, uses>>

Read ==
  /\ pc = "read"
  /\ Hold({"string", "argtuple"}, {"method"})
  /\ pc' = "arg"
  /\ UNCHANGED <<fn, err, error, inner, ret, uses>>

-----------------------------------------------------------------------------
(* objToJSON and JSONToObj; they return to the file functions or the caller. *)

InnerReturns(r, e, drop) ==
  /\ inner' = r
  /\ err' = e
  /\ pc' = "returned"
  /\ Hold(IF r \in {"text", "value"} THEN {r} ELSE {}, drop)
  /\ uses' = {}

InnerFails(drop) ==
  /\ InnerReturns("NULL", "other", drop)
  /\ UNCHANGED <<fn, error, ret>>

\* An int option that is none, too few arguments, ...
OptionsRefused == pc = "options" /\ InnerFails({})

\* The result -1 of PyObject_IsTrue is taken for true, its exception pending.
Options ==
  /\ pc = "options"
  /\ err' \in {"none", "other"}
  /\ pc' = "separators"
  /\ UNCHANGED <<fn, owned, error, inner, ret, uses>>

DefaultSeparators ==
  /\ pc = "separators"
  /\ pc' = "encode"
  /\ UNCHANGED <<fn, owned, err, error, inner, ret, uses>>

\* Not a pair of str; what is pending is taken for PyTuple_GetItem's.
SeparatorsRefused == pc = "separators" /\ InnerFails({})

\* A separator that is not ASCII needs a bytes object.
Separators ==
  /\ pc = "separators" /\ err = "none"
  /\ \E s \in SUBSET {"item", "key"} : Hold(s, {}) /\ uses' = s
  /\ pc' = "encode"
  /\ UNCHANGED <<fn, err, error, inner, ret>>

SeparatorMalformedKept ==   \* variant: return NULL in place of goto ERROR
  /\ pc = "separators" /\ err = "none" /\ MemoryFails
  /\ \E s \in {{}, {"item"}} : Hold(s, {})
  /\ inner' = "NULL" /\ err' = "other" /\ pc' = "returned"
  /\ UNCHANGED <<fn, error, ret, uses>>

\* ERROR: either of the two bytes objects cannot be made.
SeparatorMalformed ==
  /\ pc = "separators" /\ err = "none" /\ MemoryFails
  /\ InnerFails({"item", "key"})

EncodeReleasesFirst ==      \* variant: the separators are released before the call
  /\ pc = "encode"
  /\ error' \in BOOLEAN
  /\ err' \in {err, "none", "other"}
  /\ Hold({}, {"item", "key"})
  /\ pc' = "encoded"
  /\ UNCHANGED <<fn, inner, ret, uses>>

\* JSON_EncodeObject returns NULL with an errorMsg, or the text in the array
\* of the caller or in a block; user code may have raised or cleared.
Encode ==
  /\ pc = "encode"
  /\ error' \in BOOLEAN
  /\ err' \in {err, "none", "other"}
  /\ \/ ~error' /\ Hold({"block"}, {}) /\ uses' = uses \cup {"block"}
     \/ Hold({}, {}) /\ UNCHANGED uses
  /\ pc' = "encoded"
  /\ UNCHANGED <<fn, inner, ret>>

EncodedUnreported ==        \* variant: errorMsg is not made an exception
  /\ pc = "encoded"
  /\ IF err # "none" \/ error
     THEN InnerReturns("NULL", err, {"item", "key", "block"})
     ELSE /\ pc' = "decodeUTF8" /\ Hold({}, {"item", "key"})
          /\ uses' = uses \ {"item", "key"} /\ UNCHANGED <<err, inner>>
  /\ UNCHANGED <<fn, error, ret>>

\* An errorMsg without an exception becomes an OverflowError.
Encoded ==
  /\ pc = "encoded"
  /\ LET e == IF error /\ err = "none" THEN "OverflowError" ELSE err IN
       IF e # "none"
       THEN InnerReturns("NULL", e, {"item", "key", "block"})
       ELSE /\ pc' = "decodeUTF8" /\ Hold({}, {"item", "key"})
            /\ uses' = uses \ {"item", "key"} /\ UNCHANGED <<err, inner>>
  /\ UNCHANGED <<fn, error, ret>>

\* The block is freed whether or not its bytes are UTF-8.
DecodeUTF8 ==
  /\ pc = "decodeUTF8"
  /\ \/ InnerReturns("text", err, {"block"})
     \/ InnerReturns("NULL", "other", {"block"})
  /\ UNCHANGED <<fn, error, ret>>

\* The argument of loads is bytes, or a str encoded anew, or refused.
Arg ==
  /\ pc = "arg"
  /\ \/ Hold({}, {}) /\ uses' = IF fn = "load" THEN {"string"} ELSE {}
     \/ Hold({"sarg"}, {}) /\ uses' = {"sarg"}
  /\ pc' = "decode"
  /\ UNCHANGED <<fn, err, error, inner, ret>>

ArgRefused == pc = "arg" /\ InnerFails({})

\* JSON_DecodeObject returns a value, with an exception pending if
\* PyDict_SetItem failed, or NULL with an errorStr or an exception; see Outcome
\* of Decoder.
Decode ==
  /\ pc = "decode"
  /\ \/ Hold({"value"}, {}) /\ err' \in {"none", "other"} /\ UNCHANGED error
     \/ Hold({}, {}) /\ error' = TRUE /\ err' \in {"none", "other"}
     \/ Hold({}, {}) /\ err' = "other" /\ UNCHANGED error
  /\ pc' = "decoded"
  /\ UNCHANGED <<fn, inner, ret, uses>>

\* JSONDecodeError is taken to be a class, which it is unless an import of the
\* module has failed in some interpreter and none has succeeded since (ClassAlive
\* of ModuleState).  What PyErr_Format raises without a class is CPython's.
Decoded ==
  /\ pc = "decoded"
  /\ IF error
     THEN InnerReturns("NULL", "JSONDecodeError", {"sarg", "value"})
     ELSE InnerReturns(IF "value" \in owned THEN "value" ELSE "NULL", err, {"sarg"})
  /\ UNCHANGED <<fn, error, ret>>

-----------------------------------------------------------------------------
(* Back in the function called. *)

\* dumps and loads; load; and dump without a text.
PassOn ==
  /\ pc = "returned"
  /\ fn = "dump" => inner = "NULL"
  /\ Return(inner, err, IF WithFile THEN {"argtuple", "method", "string"} ELSE {})
  /\ UNCHANGED <<fn, error, inner, uses>>

PackText ==
  /\ pc = "returned" /\ fn = "dump" /\ inner = "text"
  /\ Hold({"writeargs"}, {"argtuple"})
  /\ pc' = "write"
  /\ UNCHANGED <<fn, err, error, inner, ret, uses>>

\* Without memory for the tuple, or when write raises, the text is not released.
PackFails ==
  /\ pc = "returned" /\ fn = "dump" /\ inner = "text" /\ MemoryFails
  /\ Return("NULL", "other", {"argtuple", "method"})
  /\ UNCHANGED <<fn, error, inner, uses>>

WriteFails ==
  /\ pc = "write"
  /\ Return("NULL", "other", {"method", "writeargs"})
  /\ UNCHANGED <<fn, error, inner, uses>>

WriteKeepsArguments ==      \* variant: the second argtuple is not released
  /\ pc = "write"
  /\ Return("None", err, {"method", "text"})
  /\ UNCHANGED <<fn, error, inner, uses>>

Write ==
  /\ pc = "write"
  /\ Return("None", err, {"method", "writeargs", "text"})
  /\ UNCHANGED <<fn, error, inner, uses>>

Done == pc = "done" /\ UNCHANGED vars

Next ==
  \/ Refused \/ Accepted \/ ReadFails \/ Read
  \/ OptionsRefused \/ Options
  \/ DefaultSeparators \/ SeparatorsRefused \/ Separators \/ SeparatorMalformed
  \/ Encode \/ Encoded \/ DecodeUTF8
  \/ Arg \/ ArgRefused \/ Decode \/ Decoded
  \/ PassOn \/ PackText \/ PackFails \/ WriteFails \/ Write
  \/ Done

Spec == Init /\ [][Next]_vars

-----------------------------------------------------------------------------
(* Properties. *)

\* NULL is never returned without an exception, out of three channels of
\* errors: exceptions of user code, options included, errorMsg and errorStr.
\* And dumps and dump return nothing else with one pending.
NullHasException ==
  pc = "done" =>
    /\ ret = "NULL" => err # "none"
    /\ fn \in {"dumps", "dump"} => (err # "none" => ret = "NULL")

\* Whatever fails, the caller gets what is returned and nothing else is left,
\* but for the text that dump was to write.
OnlyTextLeft ==
  pc = "done" =>
    owned \subseteq IF fn = "dump" /\ ret = "NULL" THEN {"text"} ELSE {ret}

\* Memory that the encoder, the decoder or PyUnicode_DecodeUTF8 works on, of
\* separators, sarg and the block, is held as long as they do.
UsesOnlyHeld == uses \subseteq owned
=============================================================================
