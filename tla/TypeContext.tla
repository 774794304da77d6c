----------------------------- MODULE TypeContext -----------------------------
(***************************************************************************)
(* One TypeContext of python/objToJSON.c, from Object_beginTypeContext to  *)
(* Object_endTypeContext, with the references its fields hold: the default *)
(* function and its limit, toDict and __json__, the iterators of lists,    *)
(* tuples and dicts, and the sorted iteration.  User code, which runs in   *)
(* most of these steps, may raise, and may change the container between    *)
(* two items.                                                              *)
(***************************************************************************)
EXTENDS CallbackContract, Sequences

CONSTANTS
  Kinds,         \* what objects encode is called for ...
  DefaultKinds,  \*   ... and what objects default returns
  KeyKinds,      \* the keys of dicts
  SortKeys,      \* the settings of sort_keys, of FALSE and TRUE
  Raises,        \* whether default, toDict, __json__, __str__ may raise
  MaxItems       \* bound: the items of a container

\* An "other" object has neither toDict nor __json__; "text" is a str that is
\* not ASCII.
AllKinds == {"constant", "float", "decimal", "int", "uint", "bigint", "ascii", "text",
             "bytes", "dict", "list", "tuple", "toDict", "json", "other"}
AllKeys == {"str", "bytes", "None", "other"}

ASSUME TypeContextAssumption ==
  /\ Kinds \subseteq AllKinds /\ DefaultKinds \subseteq AllKinds
  /\ KeyKinds \subseteq AllKeys
  /\ SortKeys \subseteq BOOLEAN /\ Raises \in BOOLEAN
  /\ MaxItems \in Nat

DEFAULT_FN_MAX_DEPTH == 3

\* A reference: which call made it, and for which turn of its loop.  NULL is
\* no reference, Bits the integer that shares a union with rawJSONValue.
Made == {"result", "dict", "iterator", "items", "key", "str", "null", "name",
         "bytes", "digits", "raw"}
Refs == [what : Made, n : Nat]
Ref(w, k) == [what |-> w, n |-> k]
NULL == [what |-> "NULL", n |-> 0]
Bits == [what |-> "Bits", n |-> 0]

\* The fields that own a reference, and the local list of sorted items.
Slots == {"newObj", "dictObj", "itemName", "iterator", "rawJSONValue", "items"}

VARIABLES
  enc,        \* enc->sortKeys, and whether there is an enc->defaultFn
  pc,         \* the callback that runs, or that encode calls next
  kind,       \* what obj is
  level,      \* how often default has been called
  type,       \* tc->type
  err,        \* the pending exception, or "none"
  err0,       \* history: err when beginTypeContext was called
  slots,      \* the fields of the TypeContext
  owned,      \* references made and not given up
  fault,      \* a reference not owned was given up, or a NULL used
  len,        \* how many items the container has,
  changed,    \*   and whether user code has changed it
  size,       \* pc->size
  index,      \* pc->index; for a dict, keys taken from its iterator
  res,        \* what iterNext returned last
  delivered   \* history: the items given to encode

vars == <<enc, pc, kind, level, type, err, err0, slots, owned, fault, len, changed,
          size, index, res, delivered>>

context == <<enc, kind, level, type>>
container == <<len, changed, size, index, res, delivered>>

TypeOK ==
  /\ enc \in [sortKeys : BOOLEAN, defaultFn : BOOLEAN]
  /\ pc \in {"call", "BEGIN", "string", "double", "iterate", "sort", "item", "iterEnd",
             "endTypeContext", "done", "abandoned"}
  /\ kind \in AllKinds
  /\ level \in 0..DEFAULT_FN_MAX_DEPTH
  /\ type \in Types
  /\ err \in Exceptions \cup {"none"} /\ err0 \in Exceptions \cup {"none"}
  /\ slots \in [Slots -> Refs \cup {NULL, Bits}]
  /\ owned \subseteq Refs
  /\ fault \in BOOLEAN /\ changed \in BOOLEAN
  /\ len \in Nat /\ size \in Nat /\ index \in Nat
  /\ res \in {-1, 0, 1}
  /\ delivered \in Seq(Nat)

Init ==
  /\ enc \in [sortKeys : SortKeys, defaultFn : {HasDefault, FALSE}]
  /\ pc = "call"
  /\ kind \in Kinds
  /\ level = 0
  /\ type = "INVALID"
  /\ err \in Exceptions \cup {"none"} /\ err0 = err
  /\ slots = [s \in Slots |-> NULL]
  /\ owned = {}
  /\ fault = FALSE
  /\ len \in 0..MaxItems /\ changed = FALSE
  /\ size = 0 /\ index = 0 /\ res = 1
  /\ delivered = <<>>

-----------------------------------------------------------------------------
(* References. *)

\* The fields become upd, refs are made, and those in drop given up.
Account(upd, new, drop) ==
  /\ slots' = [s \in Slots |-> IF s \in DOMAIN upd THEN upd[s] ELSE slots[s]]
  /\ owned' = (owned \ drop) \cup new
  /\ fault' = (fault \/ ~(drop \subseteq owned))

NoRefs == UNCHANGED <<slots, owned, fault>>

\* Py_XDECREF takes NULL.
X(r) == {r} \ {NULL}

\* Every exit of beginTypeContext with a type.
Begun(t) ==
  /\ type' = t
  /\ pc' = CASE t \in Containers      -> "iterate"
             [] t \in {"UTF8", "RAW"} -> "string"
             [] t = "DOUBLE"          -> "double"
             [] OTHER                 -> "endTypeContext"
  /\ UNCHANGED <<enc, kind, level, err0>>

\* The INVALID exit frees the struct, whatever its fields hold.
INVALID(e) ==
  /\ type' = "INVALID"
  /\ err' = e
  /\ pc' = "done"
  /\ Account([s \in Slots |-> NULL], {}, {})
  /\ UNCHANGED <<enc, kind, level, err0, container>>

-----------------------------------------------------------------------------
(* Object_beginTypeContext. *)

\* Without an object, or without memory, there is no context.
NoContext ==
  /\ pc = "call"
  /\ pc' = "done"
  /\ err' \in {err, "other"}
  /\ NoRefs
  /\ UNCHANGED <<context, err0, container>>

Begin ==
  /\ pc = "call"
  /\ pc' = "BEGIN"
  /\ NoRefs
  /\ UNCHANGED <<context, err, err0, container>>

Scalar ==
  /\ pc = "BEGIN"
  /\ \/ kind = "constant" /\ Begun("LONG")
     \/ kind \in {"float", "decimal"} /\ Begun("DOUBLE")
     \/ kind \in {"ascii", "text", "bytes"} /\ Begun("UTF8")
  /\ NoRefs
  /\ UNCHANGED <<err, container>>

RejectBytes == pc = "BEGIN" /\ kind = "bytes" /\ INVALID("other")

\* What PyLong_AsLongLong and then PyLong_AsUnsignedLongLong leave pending,
\* given what was pending before.
SignedError == IF kind = "int" THEN err ELSE "OverflowError"
UnsignedErrors ==
  CASE kind = "uint"   -> {"none"}
    [] kind = "bigint" -> {"OverflowError"}
    [] kind = "int"    -> {"none", "OverflowError"}   \* depends on its sign

PyLongUnionKept ==                \* variant: rawJSONValue keeps the integer's bits
  /\ pc = "BEGIN" /\ kind \in {"int", "uint", "bigint"}
  /\ SignedError # "other"
  /\ \/ /\ SignedError = "none"
        /\ Begun("LONG")
     \/ /\ SignedError = "OverflowError"
        /\ \E e \in UnsignedErrors : IF e = "none" THEN Begun("LONG") ELSE Begun("RAW")
  /\ Account([rawJSONValue |-> Bits], {}, {})
  /\ err' = "none"
  /\ UNCHANGED container

PyLong ==
  /\ pc = "BEGIN" /\ kind \in {"int", "uint", "bigint"}
  /\ SignedError # "other"
  /\ \/ /\ SignedError = "none"
        /\ Begun("LONG")
        /\ Account([rawJSONValue |-> Bits], {}, {})
     \/ /\ SignedError = "OverflowError"
        /\ \E e \in UnsignedErrors :
             \/ e = "none" /\ Begun("LONG") /\ Account([rawJSONValue |-> Bits], {}, {})
             \/ e # "none" /\ Begun("RAW") /\ Account([rawJSONValue |-> NULL], {}, {})
  /\ err' = "none"
  /\ UNCHANGED container

\* An exception that was pending before is taken for the conversion's.
PyLongRefused ==
  /\ pc = "BEGIN" /\ kind \in {"int", "uint", "bigint"}
  /\ SignedError = "other"
  /\ INVALID("other")

\* object_is_decimal_type comes before the tests for containers and clears
\* what is pending where decimal could not be imported.
IsDecimal == err' \in {err, "none"}

ListOrTuple ==
  /\ pc = "BEGIN" /\ kind \in {"list", "tuple"}
  /\ IsDecimal
  /\ Begun("ARRAY")
  /\ size' = len /\ index' = 0
  /\ NoRefs
  /\ UNCHANGED <<len, changed, res, delivered>>

\* SetupDictIter; d is the reference that dictObj gets.
SetupDictIter(d) ==
  IF enc.sortKeys
  THEN Account([dictObj |-> d], {d}, {}) /\ index' = 0
  ELSE LET i == Ref("iterator", 0)
       IN  Account([dictObj |-> d, iterator |-> i], {d, i}, {}) /\ UNCHANGED index

Dict ==
  /\ pc = "BEGIN" /\ kind = "dict"
  /\ IsDecimal
  /\ Begun("OBJECT")
  /\ SetupDictIter(Ref("dict", 0))
  /\ UNCHANGED <<len, changed, size, res, delivered>>

\* A call that returns a result leaves nothing pending.
ToDict ==
  /\ pc = "BEGIN" /\ kind = "toDict"
  /\ \/ Begun("OBJECT") /\ SetupDictIter(Ref("dict", 1)) /\ err' = "none"
     \/ Begun("LONG") /\ NoRefs /\ UNCHANGED index /\ err' = "none"
  /\ UNCHANGED <<len, changed, size, res, delivered>>

\* Looking for toDict clears what is pending.
Json ==
  /\ pc = "BEGIN" /\ kind = "json"
  /\ Begun("RAW")
  /\ Account([rawJSONValue |-> Ref("raw", 0)], {Ref("raw", 0)}, {})
  /\ err' = "none"
  /\ UNCHANGED container

\* toDict or __json__ raises, or __json__ does not return a string.  A result
\* of toDict with an older exception still pending becomes a SystemError.
MethodFails ==
  /\ pc = "BEGIN"
  /\ \/ kind \in {"toDict", "json"} /\ Raises /\ \E e \in Exceptions : INVALID(e)
     \/ kind = "toDict" /\ err # "none" /\ INVALID("other")
     \/ kind = "json" /\ INVALID("other")

\* What default returns is not the object still held in newObj.
Result == Ref("result", IF slots.newObj = Ref("result", 0) THEN 1 ELSE 0)

CallDefaultUncounted ==           \* variant: level is not incremented
  /\ pc = "BEGIN" /\ kind = "other"
  /\ enc.defaultFn /\ level < DEFAULT_FN_MAX_DEPTH
  /\ \E k \in DefaultKinds : kind' = k
  /\ Account([newObj |-> Result], {Result}, X(slots.newObj))
  /\ err' = "none"
  /\ UNCHANGED <<enc, pc, level, type, err0, container>>

CallDefault ==
  /\ pc = "BEGIN" /\ kind = "other"
  /\ enc.defaultFn /\ level < DEFAULT_FN_MAX_DEPTH
  /\ \E k \in DefaultKinds : kind' = k
  /\ Account([newObj |-> Result], {Result}, X(slots.newObj))
  /\ level' = level + 1
  /\ err' = "none"
  /\ UNCHANGED <<enc, pc, type, err0, container>>

DefaultFails ==
  /\ pc = "BEGIN" /\ kind = "other" /\ enc.defaultFn
  /\ \/ level = DEFAULT_FN_MAX_DEPTH /\ INVALID("other")
     \/ level < DEFAULT_FN_MAX_DEPTH /\ Raises /\ \E e \in Exceptions : INVALID(e)

NotSerializableSilently ==        \* variant: no exception is set
  /\ pc = "BEGIN" /\ kind = "other" /\ ~enc.defaultFn
  /\ INVALID("none")

\* PyErr_Clear, then the TypeError, unless repr raises.
NotSerializable ==
  /\ pc = "BEGIN" /\ kind = "other" /\ ~enc.defaultFn
  /\ \/ INVALID("other")
     \/ Raises /\ \E e \in Exceptions : INVALID(e)

-----------------------------------------------------------------------------
(* Object_getStringValue. *)

\* PyUnicodeToUTF8 leaves the intermediate bytes object in newObj.
KeepBytes == Account([newObj |-> Ref("bytes", 0)], {Ref("bytes", 0)}, {})

GetStringValue ==
  /\ pc = "string"
  /\ \/ kind \in {"ascii", "bytes", "json"} /\ NoRefs
     \/ kind \in {"text", "json"} /\ KeepBytes
     \/ kind \in {"int", "bigint"} /\ Account(<<>>, {Ref("digits", 0)}, {})
  /\ pc' = "endTypeContext"
  /\ UNCHANGED <<context, err, err0, container>>

\* PyLongToINTSTR: PyNumber_ToBase refuses an int of too many digits.
StringUnavailable ==
  /\ pc = "string" /\ kind = "bigint" /\ StringFails
  /\ err' \in Exceptions
  /\ pc' = "abandoned"
  /\ NoRefs
  /\ UNCHANGED <<context, err0, container>>

\* Object_getDoubleValue: PyFloat_AsDouble refuses a signalling NaN, and runs
\* the __float__ of a subclass of Decimal.
GetDoubleValue ==
  /\ pc = "double"
  /\ \/ UNCHANGED err
     \/ kind = "decimal" /\ err' \in Exceptions
  /\ pc' = "endTypeContext"
  /\ NoRefs
  /\ UNCHANGED <<context, err0, container>>

-----------------------------------------------------------------------------
(* List_iterNext and Tuple_iterNext. *)

Deliver(k) ==
  /\ delivered' = Append(delivered, k)
  /\ res' = 1
  /\ pc' = "item"

ArrayNext ==
  /\ pc = "iterate" /\ type = "ARRAY"
  /\ index < size
  /\ index' = index + 1
  /\ IF index < len
     THEN Deliver(index + 1) /\ UNCHANGED err
     ELSE res' = 1 /\ pc' = "item" /\ err' = "other" /\ UNCHANGED delivered
  /\ NoRefs
  /\ UNCHANGED <<context, err0, len, changed, size>>

\* encode calls iterEnd after 0 or -1.
Stop(r) == res' = r /\ pc' = "iterEnd"

ArrayEndsEarly ==                 \* variant: the last item is left out
  /\ pc = "iterate" /\ type = "ARRAY"
  /\ index + 1 >= size
  /\ Stop(0)
  /\ NoRefs
  /\ UNCHANGED <<context, err, err0, len, changed, size, index, delivered>>

ArrayEnds ==
  /\ pc = "iterate" /\ type = "ARRAY"
  /\ index >= size
  /\ Stop(0)
  /\ NoRefs
  /\ UNCHANGED <<context, err, err0, len, changed, size, index, delivered>>

-----------------------------------------------------------------------------
(* Dict_iterNext.  The name of the last item is released first. *)

Unsorted == pc = "iterate" /\ type = "OBJECT" /\ ~enc.sortKeys

\* PyIter_Next returns NULL, or PyDict_GetItem does.
DictEnds ==
  /\ Unsorted
  /\ \/ /\ index = len \/ changed
        /\ Account([itemName |-> NULL], {}, X(slots.itemName))
        /\ \/ UNCHANGED err
           \/ changed /\ err' = "other"
        /\ UNCHANGED index
     \/ /\ index < len /\ changed
        /\ Account([itemName |-> Ref("key", index)], {Ref("key", index)}, X(slots.itemName))
        /\ index' = index + 1
        /\ UNCHANGED err
  /\ Stop(0)
  /\ UNCHANGED <<context, err0, len, changed, size, delivered>>

\* What is left of the key: its encoding, or the key itself when it is bytes.
NameOf(k) == Ref(IF k = "bytes" THEN "key" ELSE "name", index)

DictNextKeepsName ==              \* variant: the last name is not released
  /\ Unsorted
  /\ index < len
  /\ \E k \in KeyKinds :
       /\ k = "other" => err = "none"
       /\ Account([itemName |-> NameOf(k)],
                  {NameOf(k)} \cup (IF k = "None" THEN {Ref("null", index)} ELSE {}), {})
  /\ index' = index + 1
  /\ Deliver(index + 1)
  /\ UNCHANGED <<context, err, err0, len, changed, size>>

\* An int's text, say, needs no exception to be pending; the text of None is
\* made and encoded, and not released.
DictNext ==
  /\ Unsorted
  /\ index < len
  /\ \E k \in KeyKinds :
       /\ k = "other" => err = "none"
       /\ Account([itemName |-> NameOf(k)],
                  {NameOf(k)} \cup (IF k = "None" THEN {Ref("null", index)} ELSE {}),
                  X(slots.itemName))
  /\ index' = index + 1
  /\ Deliver(index + 1)
  /\ UNCHANGED <<context, err, err0, len, changed, size>>

\* PyErr_Occurred after PyObject_Str: it raised, or something was pending.
DictKeyFails ==
  /\ Unsorted
  /\ index < len
  /\ "other" \in KeyKinds
  /\ \/ /\ Raises /\ \E e \in Exceptions : err' = e
        /\ Account([itemName |-> NULL], {}, X(slots.itemName))
     \/ /\ err # "none" /\ UNCHANGED err
        /\ Account([itemName |-> Ref("str", index)], {Ref("str", index)}, X(slots.itemName))
  /\ index' = index + 1
  /\ Stop(-1)
  /\ UNCHANGED <<context, err0, len, changed, size, delivered>>

-----------------------------------------------------------------------------
(* SortedDict_iterNext. *)

Sorted == type = "OBJECT" /\ enc.sortKeys

\* PyMapping_Keys, on the first call: as long as newObj is NULL.
Keys ==
  /\ pc = "iterate" /\ Sorted
  /\ slots.newObj = NULL
  /\ Account([items |-> Ref("items", 0)], {Ref("items", 0)}, {})
  /\ pc' = "sort"
  /\ UNCHANGED <<context, err, err0, container>>

\* Sorted and packed, with the names in place of the keys, items becomes newObj.
Packed ==
  /\ pc = "sort"
  /\ len = 0 \/ err = "none" \/ KeyKinds \cap {"str", "bytes"} # {}
  /\ Account([items |-> NULL, newObj |-> slots.items], {}, {})
  /\ size' = len
  /\ pc' = "iterate"
  /\ UNCHANGED <<context, err, err0, len, changed, index, res, delivered>>

\* Keys of two types; of a single one nothing is compared.
Unorderable ==
  /\ pc = "sort" /\ len > 1
  /\ err' = "other"
  /\ Stop(-1)
  /\ Account([items |-> NULL], {}, X(slots.items))
  /\ UNCHANGED <<context, err0, len, changed, size, index, delivered>>

\* The text of a key cannot be had, or something was pending, which here even
\* the text of None is refused for: the error exit also releases value, which is
\* borrowed from the dict.
SortedKeyFails ==
  /\ pc = "sort" /\ len > 0
  /\ \/ "other" \in KeyKinds /\ Raises /\ err' \in Exceptions
     \/ KeyKinds \cap {"other", "None"} # {} /\ err # "none" /\ UNCHANGED err
  /\ Stop(-1)
  /\ slots' = [slots EXCEPT !.items = NULL]
  /\ owned' = owned \ X(slots.items)
  /\ fault' = TRUE
  /\ UNCHANGED <<context, err0, len, changed, size, index, delivered>>

\* Name and value are borrowed from the tuple in newObj.
SortedNext ==
  /\ pc = "iterate" /\ Sorted
  /\ slots.newObj # NULL
  /\ index < size
  /\ index' = index + 1
  /\ Deliver(index + 1)
  /\ NoRefs
  /\ UNCHANGED <<context, err, err0, len, changed, size>>

SortedEnds ==
  /\ pc = "iterate" /\ Sorted
  /\ slots.newObj # NULL
  /\ index >= size
  /\ Stop(0)
  /\ NoRefs
  /\ UNCHANGED <<context, err, err0, len, changed, size, index, delivered>>

-----------------------------------------------------------------------------
(* Between and after the items. *)

\* encode returns from an item, having run user code.
ItemEncoded ==
  /\ pc = "item"
  /\ pc' \in {"iterate", "iterEnd"}
  /\ err' \in Exceptions \cup {"none"}
  /\ \/ UNCHANGED <<len, changed>>
     \/ kind # "tuple" /\ len' \in 0..MaxItems /\ changed' = TRUE
  /\ NoRefs
  /\ UNCHANGED <<context, err0, size, index, res, delivered>>

\* Dict_iterEnd and SortedDict_iterEnd.
IterEnd ==
  /\ pc = "iterEnd"
  /\ IF type = "ARRAY" THEN NoRefs
     ELSE Account([itemName |-> NULL, iterator |-> NULL], {},
                  X(slots.itemName) \cup X(slots.iterator) \cup {slots.dictObj})
  /\ pc' = "endTypeContext"
  /\ UNCHANGED <<context, err, err0, container>>

\* Object_endTypeContext.
EndTypeContext ==
  /\ pc = "endTypeContext"
  /\ Account([s \in Slots |-> NULL], {},
             X(slots.newObj) \cup IF type = "RAW" THEN X(slots.rawJSONValue) ELSE {})
  /\ pc' = "done"
  /\ UNCHANGED <<context, err, err0, container>>

Done == pc \in {"done", "abandoned"} /\ UNCHANGED vars

BeginTypeContext ==
  \/ NoContext \/ Begin
  \/ Scalar \/ RejectBytes \/ PyLong \/ PyLongRefused
  \/ ListOrTuple \/ Dict
  \/ ToDict \/ Json \/ MethodFails
  \/ CallDefault \/ DefaultFails \/ NotSerializable

IterNext ==
  \/ ArrayNext \/ ArrayEnds
  \/ DictNext \/ DictKeyFails \/ DictEnds
  \/ Keys \/ Packed \/ Unorderable \/ SortedKeyFails
  \/ SortedNext \/ SortedEnds

Step ==
  \/ BeginTypeContext
  \/ GetStringValue \/ StringUnavailable \/ GetDoubleValue
  \/ IterNext \/ ItemEncoded
  \/ IterEnd \/ EndTypeContext

Next == Step \/ Done

Spec == Init /\ [][Next]_vars
FairSpec == Spec /\ WF_vars(Step)

-----------------------------------------------------------------------------
(* Properties. *)

Held == {slots[s] : s \in Slots} \ {NULL, Bits}

\* References nothing keeps until they are given up: the text of None that
\* names an item; the decimal text of an integer; the result of default when
\* the value is refused, or its text is put into newObj in its place.
Forgotten(r) ==
  \/ r.what \in {"null", "digits"}
  \/ /\ r.what = "result"
     /\ pc \in {"endTypeContext", "done"}
     /\ type = "INVALID" \/ kind \in {"text", "json"}

\* The state is well typed and, apart from those, every reference made
\* for a value sits in the one field that will give it up, whatever default,
\* methods and keys do and however the container changes; fields hold nothing
\* that was given up (dictObj apart, which Dict_iterEnd releases and does not
\* clear); nothing is left in the end; and only the error exit of the sorted
\* iteration gives up what it does not own.
Ownership ==
  /\ TypeOK
  /\ \A r \in owned \ Held : Forgotten(r)
  /\ Held \ owned \subseteq IF pc = "endTypeContext" THEN {slots.dictObj} ELSE {}
  /\ pc = "done" => \A r \in owned : Forgotten(r)
  /\ fault => Sorted /\ res = -1

\* A container nobody changed is delivered completely, in order, once.
AllDelivered ==
  pc = "iterEnd" /\ res = 0 /\ ~changed => delivered = [i \in 1..len |-> i]

\* ... but for a sorted dict that default returned: newObj is not NULL then,
\* and its first iteration takes it for the list of sorted items.
OthersDelivered == ~(Sorted /\ level > 0) => AllDelivered

\* default is called a bounded number of times and every iteration ends, even
\* of a container that grows while it is iterated.
Terminates == <>(pc \in {"done", "abandoned"})

Phase ==
  CASE pc \in {"call", "BEGIN"}             -> "idle"
    [] pc \in {"iterate", "sort"}           -> "iterate"
    [] pc \in {"iterEnd", "endTypeContext"} -> "closing"
    [] pc \in {"done", "abandoned"}         -> "done"
    [] OTHER                                -> pc

Contract ==
  INSTANCE Callbacks WITH phase <- Phase,
                          err <- IF pc = "BEGIN" THEN err0 ELSE err

\* The callbacks behave as encode is modelled to expect: no INVALID without an
\* exception, no other answer of iterNext, exceptions cleared only where
\* BeginOutcomes says so, and left unreported only by the getter of a double and
\* the iterators.
KeepsContract == Contract!Spec
=============================================================================
