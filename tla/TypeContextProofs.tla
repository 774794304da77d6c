-------------------------- MODULE TypeContextProofs --------------------------
(***************************************************************************)
(* The callbacks of python/objToJSON.c keep the contract that encode is    *)
(* modelled to rely on: every step of TypeContext is a step of Callbacks   *)
(* or changes nothing that encode sees.  Who holds each reference; and     *)
(* that iterations are complete.                                           *)
(***************************************************************************)
EXTENDS TypeContext, TLAPS

\* What is pending, and which type there is, at each place.  default has left
\* nothing pending; before its first call nothing has changed.
Control ==
  /\ err \in Exceptions \cup {"none"} /\ err0 \in Exceptions \cup {"none"}
  /\ enc.defaultFn => HasDefault
  /\ pc = "call" => err = err0 /\ type = "INVALID" /\ level = 0
  /\ pc = "BEGIN" => \/ level = 0 /\ err = err0
                     \/ enc.defaultFn /\ err = "none"
  /\ pc = "BEGIN" => type = "INVALID"
  /\ pc = "string" => type \in {"UTF8", "RAW"}
  /\ pc = "double" => type = "DOUBLE"
  /\ pc \in {"iterate", "item", "iterEnd"} => type \in Containers
  /\ pc = "sort" => type = "OBJECT"

LEMMA InitControl == Init => Control
PROOF
  BY CallbackAssumption DEF Init, Control

\* The exits of beginTypeContext.
LEMMA BegunControl ==
  ASSUME Control, pc = "BEGIN", NEW t \in Types \ {"INVALID"}, Begun(t),
         err' \in {err, "none"}
  PROVE  Control'
PROOF
  BY DEF Control, Begun, Types, Containers

LEMMA InvalidControl ==
  ASSUME Control, NEW e \in Exceptions, INVALID(e)
  PROVE  Control'
PROOF
  BY DEF Control, INVALID

LEMMA BeginControl == ASSUME Control, BeginTypeContext PROVE Control'
PROOF
  <1> USE DEF Exceptions
  <1>1. CASE NoContext BY <1>1 DEF NoContext, Control, context
  <1>2. CASE Begin BY <1>2 DEF Begin, Control, context
  <1>3. CASE Scalar
    BY <1>3, BegunControl DEF Scalar, Types
  <1>4. CASE RejectBytes BY <1>4, InvalidControl DEF RejectBytes
  <1>5. CASE PyLong
    <2>1. pc = "BEGIN" /\ err' = "none" /\ (Begun("LONG") \/ Begun("RAW"))
      BY <1>5, Zenon DEF PyLong
    <2>2. QED BY <2>1, BegunControl DEF Types
  <1>6. CASE PyLongRefused BY <1>6, InvalidControl DEF PyLongRefused
  <1>7. CASE ListOrTuple BY <1>7, BegunControl DEF ListOrTuple, IsDecimal, Types
  <1>8. CASE Dict BY <1>8, BegunControl DEF Dict, IsDecimal, Types
  <1>9. CASE ToDict
    <2>1. pc = "BEGIN" /\ err' = "none" /\ (Begun("LONG") \/ Begun("OBJECT"))
      BY <1>9, Zenon DEF ToDict
    <2>2. QED BY <2>1, BegunControl DEF Types
  <1>10. CASE Json BY <1>10, BegunControl DEF Json, Types
  <1>11. CASE MethodFails BY <1>11, InvalidControl DEF MethodFails
  <1>12. CASE CallDefault BY <1>12 DEF CallDefault, Control
  <1>13. CASE DefaultFails BY <1>13, InvalidControl DEF DefaultFails
  <1>14. CASE NotSerializable BY <1>14, InvalidControl DEF NotSerializable
  <1>15. QED
    BY <1>1, <1>2, <1>3, <1>4, <1>5, <1>6, <1>7, <1>8, <1>9, <1>10, <1>11, <1>12,
       <1>13, <1>14 DEF BeginTypeContext

LEMMA NextControl == Control /\ [Next]_vars => Control'
PROOF
  <1> SUFFICES ASSUME Control, [Next]_vars PROVE Control' OBVIOUS
  <1>1. CASE BeginTypeContext BY <1>1, BeginControl
  <1> USE DEF Control, context, Containers, Exceptions
  <1>2. CASE GetStringValue BY <1>2 DEF GetStringValue
  <1>3. CASE StringUnavailable \/ GetDoubleValue
    BY <1>3 DEF StringUnavailable, GetDoubleValue
  <1>4. CASE ArrayNext BY <1>4 DEF ArrayNext, Deliver
  <1>5. CASE ArrayEnds BY <1>5 DEF ArrayEnds, Stop
  <1>6. CASE DictNext BY <1>6 DEF DictNext, Unsorted, Deliver
  <1>7. CASE DictKeyFails BY <1>7 DEF DictKeyFails, Unsorted, Stop
  <1>8. CASE DictEnds BY <1>8 DEF DictEnds, Unsorted, Stop
  <1>9. CASE Keys BY <1>9 DEF Keys, Sorted
  <1>10. CASE Packed BY <1>10 DEF Packed
  <1>11. CASE Unorderable BY <1>11 DEF Unorderable, Stop
  <1>12. CASE SortedKeyFails BY <1>12 DEF SortedKeyFails, Stop
  <1>13. CASE SortedNext BY <1>13 DEF SortedNext, Sorted, Deliver
  <1>14. CASE SortedEnds BY <1>14 DEF SortedEnds, Sorted, Stop
  <1>15. CASE ItemEncoded BY <1>15 DEF ItemEncoded
  <1>16. CASE IterEnd BY <1>16 DEF IterEnd
  <1>17. CASE EndTypeContext BY <1>17 DEF EndTypeContext
  <1>18. CASE UNCHANGED vars BY <1>18 DEF vars
  <1>19. QED
    BY <1>1, <1>2, <1>3, <1>4, <1>5, <1>6, <1>7, <1>8, <1>9, <1>10, <1>11, <1>12,
       <1>13, <1>14, <1>15, <1>16, <1>17, <1>18 DEF Next, Step, IterNext, Done

-----------------------------------------------------------------------------
(* The refinement. *)

\* The exception as encode sees it.
Seen == IF pc = "BEGIN" THEN err0 ELSE err

LEMMA InitContract == Init => Contract!Init
PROOF
  BY DEF Init, Contract!Init, Phase, Contract!Exceptions, Exceptions

\* An exit of beginTypeContext is one of the outcomes that encode expects.
LEMMA BegunContract ==
  ASSUME Control, pc = "BEGIN", NEW t \in Types \ {"INVALID"}, Begun(t),
         \/ err' = err /\ t # "RAW"
         \/ err' = "none" /\ t \in {"LONG", "ARRAY", "OBJECT", "RAW"}
  PROVE  Contract!BeginTypeContext
PROOF
  <1> DEFINE o == [type |-> t, err |-> err']
  <1>1. o \in Contract!BeginOutcomes(Seen)
    <2>1. CASE err' = err0 /\ t # "RAW"
      <3>1. o \in [type : Types \ {"INVALID", "RAW"}, err : {err0}] BY <2>1
      <3>2. QED BY <3>1 DEF Seen, Contract!BeginOutcomes, Contract!Types, Types
    <2>2. CASE err' = "none" /\ t \in {"LONG", "ARRAY", "OBJECT", "RAW"}
      <3>1. t \in IF HasDefault THEN Types \ {"INVALID"} ELSE {"LONG", "ARRAY", "OBJECT", "RAW"}
        BY <2>2 DEF Types
      <3>2. QED BY <2>2, <3>1 DEF Contract!BeginOutcomes, Contract!Types, Types
    <2>3. CASE err' = "none" /\ enc.defaultFn
      <3>1. HasDefault BY <2>3 DEF Control
      <3>2. QED BY <2>3, <3>1 DEF Contract!BeginOutcomes, Contract!Types, Types
    <2>4. QED BY <2>1, <2>2, <2>3 DEF Control
  <1>2. /\ Phase = "idle" /\ type' = t
        /\ Phase' = Contract!PhaseOf(t)
        /\ Seen' = err'
    BY DEF Begun, Phase, Seen, Contract!PhaseOf, Contract!Containers, Containers, Types
  <1>3. QED BY <1>1, <1>2 DEF Contract!BeginTypeContext, Seen

LEMMA InvalidContract ==
  ASSUME Control, pc = "BEGIN", NEW e \in Exceptions, INVALID(e)
  PROVE  Contract!BeginTypeContext
PROOF
  <1> DEFINE o == [type |-> "INVALID", err |-> e]
  <1>1. o \in Contract!BeginOutcomes(Seen)
    BY DEF Contract!BeginOutcomes, Contract!Exceptions, Exceptions
  <1>2. /\ Phase = "idle" /\ type' = "INVALID"
        /\ Phase' = Contract!PhaseOf("INVALID")
        /\ Seen' = e
    BY DEF INVALID, Phase, Seen, Contract!PhaseOf, Contract!Containers
  <1>3. QED BY <1>1, <1>2 DEF Contract!BeginTypeContext, Seen

LEMMA BeginContract ==
  ASSUME Control, BeginTypeContext
  PROVE  Contract!BeginTypeContext \/ Contract!BeginNull \/ UNCHANGED <<Phase, type, Seen>>
PROOF
  <1> USE DEF Exceptions
  <1>1. CASE NoContext
    <2>1. /\ pc = "call" /\ pc' = "done" /\ err' \in {err, "other"} /\ type' = type
          /\ type = "INVALID"
      BY <1>1 DEF NoContext, context, Control
    <2>2. Phase = "idle" /\ Phase' = "done" /\ Seen = err /\ Seen' = err'
      BY <2>1 DEF Phase, Seen
    <2>3. CASE err' = err BY <2>1, <2>2, <2>3 DEF Contract!BeginNull, Seen
    <2>4. CASE err' = "other"
      <3>1. [type |-> "INVALID", err |-> "other"] \in Contract!BeginOutcomes(Seen)
        BY DEF Contract!BeginOutcomes, Contract!Exceptions
      <3>2. Contract!PhaseOf("INVALID") = "done"
        BY DEF Contract!PhaseOf, Contract!Containers
      <3>3. QED BY <2>1, <2>2, <2>4, <3>1, <3>2 DEF Contract!BeginTypeContext, Seen
    <2>5. QED BY <2>1, <2>3, <2>4
  <1>2. CASE Begin BY <1>2 DEF Begin, Control, context, Phase, Seen
  <1>3. CASE Scalar BY <1>3, BegunContract DEF Scalar, Types
  <1>4. CASE RejectBytes BY <1>4, InvalidContract DEF RejectBytes
  <1>5. CASE PyLong
    <2>1. pc = "BEGIN" /\ err' = "none" /\ (Begun("LONG") \/ Begun("RAW"))
      BY <1>5, Zenon DEF PyLong
    <2>2. QED BY <2>1, BegunContract DEF Types
  <1>6. CASE PyLongRefused BY <1>6, InvalidContract DEF PyLongRefused
  <1>7. CASE ListOrTuple BY <1>7, BegunContract DEF ListOrTuple, IsDecimal, Types
  <1>8. CASE Dict BY <1>8, BegunContract DEF Dict, IsDecimal, Types
  <1>9. CASE ToDict
    <2>1. pc = "BEGIN" /\ err' = "none" /\ (Begun("LONG") \/ Begun("OBJECT"))
      BY <1>9, Zenon DEF ToDict
    <2>2. QED BY <2>1, BegunContract DEF Types
  <1>10. CASE Json BY <1>10, BegunContract DEF Json, Types
  <1>11. CASE MethodFails BY <1>11, InvalidContract DEF MethodFails
  <1>12. CASE CallDefault BY <1>12 DEF CallDefault, Phase, Seen
  <1>13. CASE DefaultFails BY <1>13, InvalidContract DEF DefaultFails
  <1>14. CASE NotSerializable BY <1>14, InvalidContract DEF NotSerializable
  <1>15. QED
    BY <1>1, <1>2, <1>3, <1>4, <1>5, <1>6, <1>7, <1>8, <1>9, <1>10, <1>11, <1>12,
       <1>13, <1>14 DEF BeginTypeContext

\* A container's iteration.  A list that user code has made shorter, or a dict
\* that it has changed, is what IterFails allows.
LEMMA IterContract ==
  ASSUME Control, IterFails, IterNext
  PROVE  \/ Contract!IterNext \/ Contract!IterationEnds
         \/ UNCHANGED <<Phase, type, Seen>>
PROOF
  <1> USE DEF Phase, Seen, context, Contract!IterNext, Contract!IterationEnds
  <1>1. CASE ArrayNext
    <2>1. err' \in {err, "other"} BY <1>1 DEF ArrayNext
    <2>2. PICK a \in Contract!ItemAnswers(type, err) : err' = a.err
      <3>1. CASE err' = err
        <4>1. [value |-> "object", err |-> err] \in Contract!ItemAnswers(type, err)
          BY DEF Contract!ItemAnswers
        <4>2. QED BY <3>1, <4>1
      <3>2. CASE err' = "other" /\ type = "ARRAY"
        <4>1. [value |-> "NULL", err |-> "other"] \in Contract!ItemAnswers(type, err)
          BY <3>2 DEF Contract!ItemAnswers
        <4>2. QED BY <3>2, <4>1
      <3>3. QED BY <2>1, <3>1, <3>2, <1>1 DEF ArrayNext
    <2>3. QED BY <1>1, <2>2 DEF ArrayNext, Deliver
  <1>2. ASSUME DictNext \/ SortedNext
        PROVE  Contract!IterNext
    <2>1. [value |-> "object", err |-> err] \in Contract!ItemAnswers(type, err)
      BY DEF Contract!ItemAnswers
    <2>2. pc = "iterate" /\ pc' = "item" /\ err' = err /\ type' = type
      BY <1>2 DEF DictNext, SortedNext, Unsorted, Deliver
    <2>3. QED BY <2>1, <2>2
  <1>3. CASE ArrayEnds \/ SortedEnds
    BY <1>3 DEF ArrayEnds, SortedEnds, Stop
  <1>4. CASE DictEnds
    BY <1>4 DEF DictEnds, Unsorted, Stop, Contract!EarlyEnds
  <1>5. CASE DictKeyFails
    BY <1>5 DEF DictKeyFails, Unsorted, Stop, Contract!IterErrors, Contract!Exceptions, Exceptions
  <1>6. CASE Keys \/ Packed BY <1>6 DEF Keys, Packed
  <1>7. CASE Unorderable
    BY <1>7 DEF Unorderable, Stop, Control, Contract!IterErrors, Contract!Exceptions
  <1>8. CASE SortedKeyFails
    BY <1>8 DEF SortedKeyFails, Stop, Control, Contract!IterErrors, Contract!Exceptions,
                Exceptions
  <1>9. QED
    BY <1>1, <1>2, <1>3, <1>4, <1>5, <1>6, <1>7, <1>8 DEF IterNext

LEMMA NextContract ==
  ASSUME Control, IterFails, DoubleFails, [Next]_vars
  PROVE  [Contract!Next]_(Contract!abstractVars)
PROOF
  <1> USE DEF Contract!abstractVars, Contract!Next
  <1>1. CASE BeginTypeContext BY <1>1, BeginContract DEF Seen
  <1>2. CASE IterNext BY <1>2, IterContract DEF Seen
  <1> USE DEF Phase, context
  <1>3. CASE GetStringValue BY <1>3 DEF GetStringValue, Contract!GetStringValue
  <1>4. CASE StringUnavailable
    BY <1>4 DEF StringUnavailable, Control, Contract!StringUnavailable,
                Contract!StringErrors, Contract!Exceptions, Exceptions
  <1>10. CASE GetDoubleValue
    BY <1>10 DEF GetDoubleValue, Control, Contract!GetDoubleValue, Contract!DoubleErrors,
                 Contract!Exceptions, Exceptions
  <1>5. CASE ItemEncoded
    BY <1>5 DEF ItemEncoded, Contract!ItemEncoded, Contract!Exceptions, Exceptions
  <1>6. CASE IterEnd BY <1>6 DEF IterEnd
  <1>7. CASE EndTypeContext BY <1>7 DEF EndTypeContext, Contract!EndTypeContext
  <1>8. CASE UNCHANGED vars BY <1>8 DEF vars
  <1>9. QED
    BY <1>1, <1>2, <1>3, <1>4, <1>5, <1>6, <1>7, <1>8, <1>10 DEF Next, Step, Done

\* TypeContext implements Callbacks, for all objects, keys and settings, if
\* that contract admits iterators and conversions to double that fail.
THEOREM ContractCorrect == ASSUME IterFails, DoubleFails PROVE Spec => KeepsContract
PROOF
  <1>1. Spec => []Control
    BY InitControl, NextControl, PTL DEF Spec
  <1>2. Init => Contract!Init BY InitContract
  <1>3. Control /\ [Next]_vars => [Contract!Next]_(Contract!abstractVars)
    BY NextContract
  <1>4. QED BY <1>1, <1>2, <1>3, PTL DEF Spec, KeepsContract, Contract!Spec

-----------------------------------------------------------------------------
(* References. *)

\* Each field has references of its own kind; those of default, PyUnicodeToUTF8
\* and the list of sorted items share newObj.
Kind(s) ==
  CASE s = "newObj"       -> {"NULL", "result", "bytes", "items"}
    [] s = "dictObj"      -> {"NULL", "dict"}
    [] s = "itemName"     -> {"NULL", "key", "name", "str"}
    [] s = "iterator"     -> {"NULL", "iterator"}
    [] s = "rawJSONValue" -> {"NULL", "Bits", "raw"}
    [] s = "items"        -> {"NULL", "items"}

Filed == \A s \in Slots : slots[s].what \in Kind(s)

Values == Refs \cup {NULL, Bits}

Typed ==
  /\ slots \in [Slots -> Values]
  /\ owned \subseteq Refs
  /\ fault \in BOOLEAN

\* A field whose reference has been given up is cleared, but for dictObj.
Backed ==
  \A s \in Slots :
    \/ slots[s] \in {NULL, Bits} \cup owned
    \/ s = "dictObj" /\ pc = "endTypeContext"

Kept == \A r \in owned : Forgotten(r) \/ \E s \in Slots : slots[s] = r

Empty(S) == \A s \in S : slots[s] = NULL

\* Which fields are in use at each place.
Used ==
  /\ pc \in {"call", "done"} => Empty(Slots)
  /\ pc \in {"call", "BEGIN"} => \A r \in owned : r = slots["newObj"]
  /\ pc \in {"BEGIN", "string", "double"} =>
       /\ Empty({"dictObj", "itemName", "iterator", "items"})
       /\ slots["newObj"].what \in {"NULL", "result"}
  /\ pc = "BEGIN" => slots["rawJSONValue"] = NULL
  /\ pc \in {"iterate", "sort", "item", "iterEnd"} =>
       /\ slots["rawJSONValue"] = NULL
       /\ type = "OBJECT" => slots["dictObj"] # NULL
       /\ type = "ARRAY" => Empty({"dictObj", "itemName", "iterator"})
       /\ slots["newObj"].what # "bytes"
  /\ pc = "sort" => slots["newObj"] = NULL /\ slots["items"] # NULL /\ enc.sortKeys
  /\ pc # "sort" => slots["items"] = NULL
  /\ pc = "endTypeContext" => /\ Empty({"itemName", "iterator"})
                              /\ slots["dictObj"] \notin owned
  /\ slots["rawJSONValue"].what = "raw" => type = "RAW"
  /\ slots["rawJSONValue"].what = "Bits" => type # "RAW"
  /\ enc.sortKeys => slots["iterator"] = NULL /\ slots["itemName"] = NULL

\* Only the error exit of the sorted iteration gives up what it does not own.
Faults == fault => pc \in {"iterEnd", "endTypeContext", "done"} /\ Sorted /\ res = -1

Own == Typed /\ Filed /\ Backed /\ Kept /\ Used /\ Faults

-----------------------------------------------------------------------------
\* No reference is in two fields.
LEMMA Apart ==
  ASSUME Filed, Used, NEW s \in Slots, NEW t \in Slots, s # t, slots[s] = slots[t]
  PROVE  slots[s].what \in {"NULL", "Bits"}
PROOF
  <1>1. slots[s].what \in Kind(s) /\ slots[s].what \in Kind(t) BY DEF Filed
  <1>2. slots["items"] = NULL \/ slots["newObj"] = NULL BY DEF Used
  <1>3. CASE {s, t} = {"items", "newObj"}
    BY <1>2, <1>3 DEF NULL
  <1>4. CASE {s, t} # {"items", "newObj"}
    BY <1>1, <1>4 DEF Kind, Slots
  <1>5. QED BY <1>3, <1>4

LEMMA NoReference ==
  ASSUME NEW v \in Values
  PROVE  v \in {NULL, Bits} <=> v.what \in {"NULL", "Bits"}
PROOF
  BY DEF Values, Refs, Made, NULL, Bits

\* A step that changes the fields in the domain of upd to references they are
\* given, and gives up, forgets or moves those that were there.
Moves(upd, new, drop) ==
  /\ Account(upd, new, drop)
  /\ DOMAIN upd \subseteq Slots
  /\ new \subseteq Refs
  /\ \A s \in DOMAIN upd : upd[s] \in {NULL, Bits} \cup new \cup (owned \ drop)
  /\ \A r \in drop : r \notin {NULL, Bits} /\ \E s \in DOMAIN upd : r = slots[s]
  /\ \A s \in DOMAIN upd, r \in owned \ drop :
       slots[s] = r => Forgotten(r)' \/ \E t \in DOMAIN upd : upd[t] = r
  /\ \A r \in new : Forgotten(r)' \/ \E s \in DOMAIN upd : upd[s] = r

LEMMA Transfer ==
  ASSUME Own, pc \notin {"endTypeContext", "done"},
         NEW upd, NEW new, NEW drop, Moves(upd, new, drop)
  PROVE  /\ Typed' /\ Backed' /\ Kept'
         /\ \A s \in Slots : slots'[s] = IF s \in DOMAIN upd THEN upd[s] ELSE slots[s]
         /\ owned' = (owned \ drop) \cup new
         /\ fault' = fault
PROOF
  <1> USE DEF Moves
  <1> Typed /\ Filed /\ Backed /\ Kept /\ Used BY DEF Own
  <1>1. \A s \in Slots : slots'[s] = IF s \in DOMAIN upd THEN upd[s] ELSE slots[s]
    BY DEF Account
  <1>2. owned' = (owned \ drop) \cup new BY DEF Account
  <1>3. fault' = fault
    <2>1. ASSUME NEW r \in drop PROVE r \in owned
      BY DEF Backed
    <2>2. QED BY <2>1 DEF Account, Typed
  <1>4. Typed'
    <2>1. \A s \in Slots : slots'[s] \in Values BY <1>1 DEF Typed, Values
    <2>2. slots' \in [Slots -> Values] BY <2>1, Zenon DEF Account
    <2>3. owned' \subseteq Refs BY <1>2 DEF Typed
    <2>4. QED BY <2>2, <2>3, <1>3 DEF Typed
  <1>5. ASSUME NEW s \in Slots
        PROVE  slots'[s] \in {NULL, Bits} \cup owned'
    <2>1. CASE s \in DOMAIN upd BY <2>1, <1>1, <1>2
    <2>2. CASE s \notin DOMAIN upd
      <3>1. slots'[s] = slots[s] BY <2>2, <1>1
      <3>2. slots[s] \in {NULL, Bits} \cup owned BY DEF Backed
      <3>3. CASE slots[s] \in drop
        <4>1. PICK t \in DOMAIN upd : slots[s] = slots[t] BY <3>3
        <4>2. slots[s].what \in {"NULL", "Bits"} BY <4>1, <2>2, Apart
        <4>3. slots[s] \in Values BY DEF Typed
        <4>4. QED BY <3>1, <4>2, <4>3, NoReference
      <3>4. QED BY <3>1, <3>2, <3>3, <1>2
    <2>3. QED BY <2>1, <2>2
  <1>6. ASSUME NEW r \in owned'
        PROVE  Forgotten(r)' \/ \E s \in Slots : slots'[s] = r
    <2>1. CASE r \in new
      <3>1. CASE \E s \in DOMAIN upd : upd[s] = r BY <3>1, <1>1
      <3>2. QED BY <2>1, <3>1
    <2>2. CASE r \in owned \ drop
      <3>1. CASE Forgotten(r)
        <4>1. r.what \in {"null", "digits"} BY <3>1 DEF Forgotten
        <4>2. QED BY <4>1 DEF Forgotten
      <3>2. ASSUME NEW s \in Slots, slots[s] = r
            PROVE  Forgotten(r)' \/ \E t \in Slots : slots'[t] = r
        <4>1. CASE s \notin DOMAIN upd BY <4>1, <3>2, <1>1
        <4>2. CASE s \in DOMAIN upd
          <5>1. CASE \E t \in DOMAIN upd : upd[t] = r BY <5>1, <1>1
          <5>2. QED BY <4>2, <3>2, <2>2, <5>1
        <4>3. QED BY <4>1, <4>2
      <3>3. QED BY <2>2, <3>1, <3>2 DEF Kept
    <2>3. QED BY <1>2, <2>1, <2>2
  <1>7. Backed' BY <1>5 DEF Backed
  <1>8. Kept' BY <1>6 DEF Kept
  <1>9. QED BY <1>1, <1>2, <1>3, <1>4, <1>7, <1>8

\* A step that leaves the references alone.
LEMMA Untouched ==
  ASSUME Typed, Filed, Backed, Kept, pc \notin {"endTypeContext", "done"}, NoRefs
  PROVE  Typed' /\ Filed' /\ Backed' /\ Kept'
PROOF
  <1>1. Typed' /\ Filed' BY DEF NoRefs, Typed, Filed
  <1>2. Backed' BY DEF NoRefs, Backed
  <1>3. ASSUME NEW r \in owned
        PROVE  Forgotten(r)' \/ \E s \in Slots : slots[s] = r
    BY DEF Kept, Forgotten
  <1>4. Kept' BY <1>3 DEF NoRefs, Kept
  <1>5. QED BY <1>1, <1>2, <1>4

-----------------------------------------------------------------------------
(* The steps that leave the references alone. *)

LEMMA BegunUsed ==
  ASSUME Own, pc = "BEGIN", NEW t \in Types \ {"INVALID", "RAW"}, NoRefs, Begun(t),
         t # "OBJECT"
  PROVE  Own'
PROOF
  <1>1. Typed' /\ Filed' /\ Backed' /\ Kept' BY Untouched DEF Own
  <1>2. pc' \in {"iterate", "string", "double", "endTypeContext"}
    /\ (pc' = "iterate" => t = "ARRAY")
    BY DEF Begun, Containers, Types
  <1>3. Used'
    <2>1. NULL \notin owned BY DEF Own, Typed, Refs, Made, NULL
    <2>2. type' = t /\ enc' = enc /\ slots' = slots /\ owned' = owned /\ NULL.what = "NULL"
      BY DEF Begun, NoRefs, NULL
    <2>3. Empty({"dictObj", "itemName", "iterator", "items", "rawJSONValue"})
          /\ slots["newObj"].what \in {"NULL", "result"}
      BY DEF Own, Used, Empty
    <2>4. QED BY <1>2, <2>1, <2>2, <2>3 DEF Used, Empty
  <1>4. Faults'
    BY DEF Own, Faults, NoRefs
  <1>5. QED BY <1>1, <1>3, <1>4 DEF Own

LEMMA NoRefsOwn ==
  ASSUME Own, Control, NoRefs,
         \/ NoContext \/ Begin \/ StringUnavailable \/ GetDoubleValue
         \/ ArrayNext \/ ArrayEnds \/ SortedNext \/ SortedEnds \/ ItemEncoded
  PROVE  Own'
PROOF
  <1>1. Typed' /\ Filed' /\ Backed' /\ Kept'
    <2>1. pc \notin {"endTypeContext", "done"}
      BY DEF NoContext, Begin, StringUnavailable, GetDoubleValue, ArrayNext, ArrayEnds,
             SortedNext, SortedEnds, ItemEncoded
    <2>2. QED BY <2>1, Untouched DEF Own
  <1> USE DEF Own, Used, Faults, NoRefs, context, Empty, Slots
  <1>2. CASE NoContext BY <1>1, <1>2 DEF NoContext
  <1>3. CASE Begin BY <1>1, <1>3 DEF Begin, NULL
  <1>4. CASE StringUnavailable BY <1>1, <1>4 DEF StringUnavailable, Control
  <1>5. CASE ArrayNext BY <1>1, <1>5 DEF ArrayNext, Deliver
  <1>6. CASE ArrayEnds BY <1>1, <1>6 DEF ArrayEnds, Stop
  <1>7. CASE SortedNext BY <1>1, <1>7 DEF SortedNext, Sorted, Deliver
  <1>8. CASE SortedEnds BY <1>1, <1>8 DEF SortedEnds, Sorted, Stop
  <1>9. CASE ItemEncoded BY <1>1, <1>9 DEF ItemEncoded
  <1>10. CASE GetDoubleValue
    <2>1. NULL \notin owned BY DEF Typed, Refs, Made, NULL
    <2>2. QED BY <1>1, <1>10, <2>1 DEF GetDoubleValue, NULL
  <1>11. QED BY <1>2, <1>3, <1>4, <1>5, <1>6, <1>7, <1>8, <1>9, <1>10

LEMMA InvalidOwn ==
  ASSUME Own, pc = "BEGIN", NEW e, INVALID(e)
  PROVE  Own'
PROOF
  <1> DEFINE upd == [s \in Slots |-> NULL]
  <1>1. Account(upd, {}, {}) BY DEF INVALID
  <1>2. \A s \in Slots, r \in owned : slots[s] = r => Forgotten(r)'
    <2>1. SUFFICES ASSUME NEW s \in Slots, NEW r \in owned, slots[s] = r
                   PROVE  Forgotten(r)'
      OBVIOUS
    <2>2. r.what = "result"
      <3>1. r = slots["newObj"] BY DEF Own, Used
      <3>2. r.what \in {"NULL", "result"} BY <3>1 DEF Own, Used
      <3>3. r.what # "NULL" BY DEF Own, Typed, Refs, Made
      <3>4. QED BY <3>2, <3>3
    <2>3. QED BY <2>2 DEF Forgotten, INVALID
  <1>3. Typed' /\ Backed' /\ Kept' /\ (\A s \in Slots : slots'[s] = NULL) /\ fault' = fault
    <2>1. DOMAIN upd = Slots /\ \A s \in Slots : upd[s] = NULL OBVIOUS
    <2>2. pc \notin {"endTypeContext", "done"} OBVIOUS
    <2> HIDE DEF upd
    <2>3. Moves(upd, {}, {}) BY <1>1, <1>2, <2>1 DEF Moves
    <2>4. QED BY <2>1, <2>2, <2>3, Transfer
  <1>4. Filed' /\ Used' /\ Faults'
    BY <1>3 DEF Own, Filed, Kind, Used, Faults, INVALID, Empty, Slots, NULL
  <1>5. QED BY <1>3, <1>4 DEF Own

-----------------------------------------------------------------------------
(* The exits of beginTypeContext that make references, and default. *)

\* A step that puts references into fields that are not in use.
LEMMA Fill ==
  ASSUME Own, pc = "BEGIN", NEW upd, NEW new \in SUBSET Refs, Account(upd, new, {}),
         DOMAIN upd \subseteq {"dictObj", "iterator", "rawJSONValue"},
         \A s \in DOMAIN upd : upd[s] \in {NULL, Bits} \cup new,
         \A r \in new : \E s \in DOMAIN upd : upd[s] = r
  PROVE  /\ Typed' /\ Backed' /\ Kept'
         /\ \A s \in Slots : slots'[s] = IF s \in DOMAIN upd THEN upd[s] ELSE slots[s]
         /\ owned' = owned \cup new
         /\ fault' = fault
PROOF
  <1> DEFINE drop == {}
  <1>1. NULL \notin owned BY DEF Own, Typed, Refs, Made, NULL
  <1>2. \A s \in DOMAIN upd : slots[s] = NULL BY DEF Own, Used, Empty
  <1>3. DOMAIN upd \subseteq Slots BY DEF Slots
  <1>4. \A s \in DOMAIN upd, r \in owned \ drop :
          slots[s] = r => Forgotten(r)' \/ \E t \in DOMAIN upd : upd[t] = r
    BY <1>1, <1>2
  <1>5. \A r \in new : Forgotten(r)' \/ \E s \in DOMAIN upd : upd[s] = r
    OBVIOUS
  <1>6. /\ \A s \in DOMAIN upd : upd[s] \in {NULL, Bits} \cup new \cup (owned \ drop)
        /\ \A r \in drop : r \notin {NULL, Bits} /\ \E s \in DOMAIN upd : r = slots[s]
        /\ Account(upd, new, drop)
        /\ new \subseteq Refs
        /\ owned \ drop = owned
    OBVIOUS
  <1>7. Moves(upd, new, drop)
    BY <1>3, <1>4, <1>5, <1>6 DEF Moves
  <1> HIDE DEF drop
  <1>8. /\ Typed' /\ Backed' /\ Kept'
        /\ \A s \in Slots : slots'[s] = IF s \in DOMAIN upd THEN upd[s] ELSE slots[s]
        /\ owned' = (owned \ drop) \cup new
        /\ fault' = fault
    BY <1>7, Transfer
  <1>9. QED BY <1>6, <1>8

LEMMA PyLongOwn == ASSUME Own, PyLong PROVE Own'
PROOF
  <1>1. PICK v \in {NULL, Bits}, t \in {"LONG", "RAW"} :
          Account([rawJSONValue |-> v], {}, {}) /\ Begun(t) /\ (v = NULL \/ t = "LONG")
    BY Zenon DEF PyLong
  <1>2. /\ Typed' /\ Backed' /\ Kept' /\ fault' = fault /\ owned' = owned
        /\ \A s \in Slots : slots'[s] = IF s = "rawJSONValue" THEN v ELSE slots[s]
    <2>1. pc = "BEGIN" BY DEF PyLong
    <2> DEFINE upd == [rawJSONValue |-> v]
    <2>3. /\ DOMAIN upd = {"rawJSONValue"} /\ upd["rawJSONValue"] = v
          /\ Account(upd, {}, {})
      BY <1>1
    <2> HIDE DEF upd
    <2>4. QED BY <2>1, <2>3, Fill
  <1>3. NULL \notin owned BY DEF Own, Typed, Refs, Made, NULL
  <1>4. v.what \in {"NULL", "Bits"} BY DEF NULL, Bits
  <1>5. pc = "BEGIN" /\ pc' \in {"string", "double", "endTypeContext"} /\ type' = t /\ enc' = enc
    BY <1>1 DEF PyLong, Begun, Containers
  <1>6. Filed' BY <1>2, <1>4 DEF Own, Filed, Kind, Slots
  <1>7. Used'
    BY <1>1, <1>2, <1>3, <1>4, <1>5 DEF Own, Used, Empty, Slots, NULL
  <1>8. Faults' BY <1>2, <1>5 DEF Own, Faults
  <1>9. QED BY <1>2, <1>6, <1>7, <1>8 DEF Own

LEMMA JsonOwn == ASSUME Own, Json PROVE Own'
PROOF
  <1> DEFINE r == Ref("raw", 0)
             upd == [rawJSONValue |-> r]
  <1>1. r \in Refs /\ r.what = "raw" BY DEF Refs, Ref, Made
  <1>2. /\ DOMAIN upd = {"rawJSONValue"} /\ upd["rawJSONValue"] = r
        /\ Account(upd, {r}, {})
    BY DEF Json
  <1>3. pc = "BEGIN" /\ pc' = "string" /\ type' = "RAW" /\ enc' = enc
    BY DEF Json, Begun, Containers
  <1> HIDE DEF r, upd
  <1>4. /\ Typed' /\ Backed' /\ Kept' /\ fault' = fault
        /\ \A s \in Slots : slots'[s] = IF s = "rawJSONValue" THEN r ELSE slots[s]
    BY <1>1, <1>2, <1>3, Fill
  <1>5. Filed' BY <1>1, <1>4 DEF Own, Filed, Kind, Slots
  <1>6. Used' BY <1>1, <1>3, <1>4 DEF Own, Used, Empty, Slots
  <1>7. Faults' BY <1>3, <1>4 DEF Own, Faults
  <1>8. QED BY <1>4, <1>5, <1>6, <1>7 DEF Own

LEMMA DictOwn ==
  ASSUME Own, pc = "BEGIN", NEW k \in Nat, Begun("OBJECT"), SetupDictIter(Ref("dict", k))
  PROVE  Own'
PROOF
  <1> DEFINE d == Ref("dict", k)
             i == Ref("iterator", 0)
  <1>1. d \in Refs /\ d.what = "dict" /\ i \in Refs /\ i.what = "iterator"
    BY DEF Refs, Ref, Made
  <1>2. pc' = "iterate" /\ type' = "OBJECT" /\ enc' = enc BY DEF Begun, Containers
  <1>3. ASSUME NEW v \in {NULL, i}, Typed', Backed', Kept', fault' = fault,
               enc.sortKeys => v = NULL,
               \A s \in Slots : slots'[s] = CASE s = "dictObj" -> d
                                              [] s = "iterator" -> v
                                              [] OTHER -> slots[s]
        PROVE  Own'
    <2>1. v.what \in {"NULL", "iterator"} BY <1>1, <1>3 DEF NULL
    <2>2. d # NULL BY <1>1 DEF NULL
    <2> HIDE DEF d, i
    <2>3. Filed' BY <1>1, <1>3, <2>1 DEF Own, Filed, Kind, Slots
    <2>4. Used' BY <1>2, <1>3, <2>2 DEF Own, Used, Empty, Slots, NULL
    <2>5. Faults' BY <1>2, <1>3 DEF Own, Faults
    <2>6. QED BY <1>3, <2>3, <2>4, <2>5 DEF Own
  <1>4. CASE enc.sortKeys
    <2> DEFINE upd == [dictObj |-> d]
    <2>1. /\ DOMAIN upd = {"dictObj"} /\ upd["dictObj"] = d
          /\ Account(upd, {d}, {})
      BY <1>4 DEF SetupDictIter
    <2> HIDE DEF upd, d, i
    <2>2. /\ Typed' /\ Backed' /\ Kept' /\ fault' = fault
          /\ \A s \in Slots : slots'[s] = IF s = "dictObj" THEN d ELSE slots[s]
      BY <1>1, <2>1, Fill
    <2>3. slots["iterator"] = NULL BY DEF Own, Used, Empty
    <2>4. QED BY <1>3, <2>2, <2>3
  <1>5. CASE ~enc.sortKeys
    <2> DEFINE upd == [dictObj |-> d, iterator |-> i]
    <2>1. /\ DOMAIN upd = {"dictObj", "iterator"} /\ upd["dictObj"] = d /\ upd["iterator"] = i
          /\ Account(upd, {d, i}, {})
      BY <1>5 DEF SetupDictIter
    <2> HIDE DEF upd, d, i
    <2>2. /\ Typed' /\ Backed' /\ Kept' /\ fault' = fault
          /\ \A s \in Slots : slots'[s] = IF s \in {"dictObj", "iterator"}
                                          THEN upd[s] ELSE slots[s]
      BY <1>1, <2>1, Fill
    <2>3. QED BY <1>3, <1>5, <2>1, <2>2
  <1>6. QED BY <1>4, <1>5

LEMMA CallDefaultOwn == ASSUME Own, CallDefault PROVE Own'
PROOF
  <1>a. PICK r, new, drop : r = Result /\ new = {r} /\ drop = X(slots.newObj) OBVIOUS
  <1> DEFINE upd == [newObj |-> r]
  <1>1. r \in Refs /\ r.what = "result" /\ r # slots["newObj"]
    BY <1>a DEF Result, Refs, Ref, Made
  <1>2. /\ DOMAIN upd = {"newObj"} /\ upd["newObj"] = r
        /\ Account(upd, new, drop)
    BY <1>a DEF CallDefault
  <1>3. pc = "BEGIN" /\ pc' = pc /\ type' = type /\ enc' = enc
    BY DEF CallDefault
  <1>4. drop = {slots["newObj"]} \ {NULL} BY <1>a DEF X
  <1>5. slots["newObj"] # Bits BY <1>3 DEF Own, Used, Bits
  <1>6. NULL \notin owned BY DEF Own, Typed, Refs, Made, NULL
  <1>7. \A q \in owned : q = slots["newObj"] BY <1>3 DEF Own, Used
  <1> HIDE DEF upd
  <1>8. /\ Typed' /\ Backed' /\ Kept' /\ fault' = fault /\ owned' = (owned \ drop) \cup new
        /\ \A s \in Slots : slots'[s] = IF s = "newObj" THEN r ELSE slots[s]
    <2>1. "newObj" \in Slots BY DEF Slots
    <2>2. \A q \in drop : q \notin {NULL, Bits} /\ q = slots["newObj"] BY <1>4, <1>5
    <2>3. \A q \in owned \ drop : q # slots["newObj"] BY <1>4, <1>6
    <2>4. Moves(upd, new, drop)
      BY <1>a, <1>1, <1>2, <2>1, <2>2, <2>3 DEF Moves
    <2>6. /\ Typed' /\ Backed' /\ Kept'
          /\ \A s \in Slots : slots'[s] = IF s \in DOMAIN upd THEN upd[s] ELSE slots[s]
          /\ owned' = (owned \ drop) \cup new
          /\ fault' = fault
      BY <1>3, <2>4, Transfer
    <2>7. QED BY <1>2, <2>6
  <1>9. Filed' BY <1>1, <1>8 DEF Own, Filed, Kind, Slots
  <1>10. Used'
    <2>1. \A q \in owned' : q = r BY <1>a, <1>4, <1>6, <1>7, <1>8
    <2>2. slots'["newObj"] = r /\ \A s \in Slots \ {"newObj"} : slots'[s] = slots[s]
      BY <1>8 DEF Slots
    <2>3. QED BY <1>1, <1>3, <2>1, <2>2 DEF Own, Used, Empty, Slots
  <1>11. Faults' BY <1>3, <1>8 DEF Own, Faults
  <1>12. QED BY <1>8, <1>9, <1>10, <1>11 DEF Own

LEMMA BeginOwn == ASSUME Own, Control, BeginTypeContext PROVE Own'
PROOF
  <1> USE DEF Types
  <1>1. CASE NoContext BY <1>1, NoRefsOwn DEF NoContext
  <1>2. CASE Begin BY <1>2, NoRefsOwn DEF Begin
  <1>3. CASE Scalar BY <1>3, BegunUsed DEF Scalar
  <1>4. CASE RejectBytes BY <1>4, InvalidOwn DEF RejectBytes
  <1>5. CASE PyLong BY <1>5, PyLongOwn
  <1>6. CASE PyLongRefused BY <1>6, InvalidOwn DEF PyLongRefused
  <1>7. CASE ListOrTuple BY <1>7, BegunUsed DEF ListOrTuple
  <1>8. CASE Dict BY <1>8, DictOwn DEF Dict
  <1>9. CASE ToDict
    <2>1. \/ Begun("OBJECT") /\ SetupDictIter(Ref("dict", 1))
          \/ Begun("LONG") /\ NoRefs
      BY <1>9 DEF ToDict
    <2>2. pc = "BEGIN" BY <1>9 DEF ToDict
    <2>3. QED BY <2>1, <2>2, DictOwn, BegunUsed
  <1>10. CASE Json BY <1>10, JsonOwn
  <1>11. CASE MethodFails BY <1>11, InvalidOwn DEF MethodFails
  <1>12. CASE CallDefault BY <1>12, CallDefaultOwn
  <1>13. CASE DefaultFails BY <1>13, InvalidOwn DEF DefaultFails
  <1>14. CASE NotSerializable BY <1>14, InvalidOwn DEF NotSerializable
  <1>15. QED
    BY <1>1, <1>2, <1>3, <1>4, <1>5, <1>6, <1>7, <1>8, <1>9, <1>10, <1>11, <1>12,
       <1>13, <1>14 DEF BeginTypeContext

-----------------------------------------------------------------------------
(* Object_getStringValue. *)

LEMMA StringOwn == ASSUME Own, GetStringValue PROVE Own'
PROOF
  <1>1. /\ pc = "string" /\ pc' = "endTypeContext" /\ type' = type /\ enc' = enc
        /\ kind' = kind
    BY DEF GetStringValue, context
  <1>2. NULL \notin owned BY DEF Own, Typed, Refs, Made, NULL
  <1>3. Empty({"dictObj", "itemName", "iterator", "items"}) BY <1>1 DEF Own, Used
  <1>4. CASE NoRefs
    <2>1. Typed' /\ Filed' /\ Backed' /\ Kept' BY <1>1, <1>4, Untouched DEF Own
    <2>2. Used' BY <1>1, <1>2, <1>3, <1>4 DEF Own, Used, Empty, NoRefs
    <2>3. Faults' BY <1>1, <1>4 DEF Own, Faults, NoRefs
    <2>4. QED BY <2>1, <2>2, <2>3 DEF Own
  <1>5. CASE kind \in {"text", "json"} /\ KeepBytes
    <2> DEFINE b == Ref("bytes", 0)
               upd == [newObj |-> b]
    <2>1. b \in Refs /\ b.what = "bytes" BY DEF Refs, Ref, Made
    <2>2. /\ DOMAIN upd = {"newObj"} /\ upd["newObj"] = b
          /\ Account(upd, {b}, {})
      BY <1>5 DEF KeepBytes
    <2>3. PICK new, drop : new = {b} /\ drop = {} OBVIOUS
    <2> HIDE DEF b, upd
    <2>4. \A r \in owned : slots["newObj"] = r => Forgotten(r)'
      <3>1. SUFFICES ASSUME NEW r \in owned, slots["newObj"] = r PROVE Forgotten(r)'
        OBVIOUS
      <3>2. r.what \in {"NULL", "result"} BY <1>1, <3>1 DEF Own, Used
      <3>3. r.what # "NULL" BY DEF Own, Typed, Refs, Made
      <3>4. QED BY <1>1, <1>5, <3>2, <3>3 DEF Forgotten
    <2>5. /\ Typed' /\ Backed' /\ Kept'
          /\ \A s \in Slots : slots'[s] = IF s \in DOMAIN upd THEN upd[s] ELSE slots[s]
          /\ owned' = (owned \ drop) \cup new
          /\ fault' = fault
      <3>1. DOMAIN upd \subseteq Slots BY <2>2 DEF Slots
      <3>2. Moves(upd, new, drop) BY <2>1, <2>2, <2>3, <2>4, <3>1 DEF Moves
      <3>3. QED BY <1>1, <3>2, Transfer
    <2>6. \A s \in Slots : slots'[s] = IF s = "newObj" THEN b ELSE slots[s]
      BY <2>2, <2>5
    <2>7. Filed' BY <2>1, <2>6 DEF Own, Filed, Kind, Slots
    <2>8. NULL \notin owned' BY <2>5 DEF Typed, Refs, Made, NULL
    <2>9. Used' BY <1>1, <1>3, <2>6, <2>8 DEF Own, Used, Empty, Slots
    <2>10. Faults' BY <1>1, <2>5 DEF Own, Faults
    <2>11. QED BY <2>5, <2>7, <2>9, <2>10 DEF Own
  <1>6. CASE Account(<<>>, {Ref("digits", 0)}, {})
    <2> DEFINE d == Ref("digits", 0)
    <2>1. PICK upd, new, drop : upd = <<>> /\ new = {d} /\ drop = {} OBVIOUS
    <2>2. d \in Refs /\ d.what = "digits" BY DEF Refs, Ref, Made
    <2>3. Account(upd, new, drop) BY <1>6, <2>1
    <2>4. DOMAIN upd = {} BY <2>1
    <2> HIDE DEF d
    <2>5. Forgotten(d)' BY <2>2 DEF Forgotten
    <2>6. /\ Typed' /\ Backed' /\ Kept'
          /\ \A s \in Slots : slots'[s] = IF s \in DOMAIN upd THEN upd[s] ELSE slots[s]
          /\ owned' = (owned \ drop) \cup new
          /\ fault' = fault
      <3>1. Moves(upd, new, drop) BY <2>1, <2>2, <2>3, <2>4, <2>5 DEF Moves
      <3>2. QED BY <1>1, <3>1, Transfer
    <2>7. \A s \in Slots : slots'[s] = slots[s] BY <2>4, <2>6
    <2>8. Filed' BY <2>7 DEF Own, Filed
    <2>9. NULL \notin owned' BY <2>6 DEF Typed, Refs, Made, NULL
    <2>10. Used' BY <1>1, <1>3, <2>7, <2>9 DEF Own, Used, Empty, Slots
    <2>11. Faults' BY <1>1, <2>6 DEF Own, Faults
    <2>12. QED BY <2>6, <2>8, <2>10, <2>11 DEF Own
  <1>7. QED BY <1>4, <1>5, <1>6 DEF GetStringValue

-----------------------------------------------------------------------------
(* The iteration of a dict. *)

\* The name of the last item is released, whatever takes its place; texts of
\* None are made besides.
LEMMA NameOwn ==
  ASSUME Own, pc = "iterate", type = "OBJECT", ~enc.sortKeys,
         type' = type, enc' = enc, pc' \in {"item", "iterEnd"},
         NEW v \in Refs \cup {NULL}, v.what \in {"NULL", "key", "name", "str"},
         NEW new \in SUBSET Refs, NEW drop, Account([itemName |-> v], new, drop),
         drop = X(slots.itemName),
         v = NULL \/ v \in new,
         \A r \in new : r = v \/ r.what = "null"
  PROVE  Own'
PROOF
  <1> DEFINE upd == [itemName |-> v]
  <1>1. DOMAIN upd = {"itemName"} /\ upd["itemName"] = v /\ Account(upd, new, drop)
    OBVIOUS
  <1>2. drop = {slots["itemName"]} \ {NULL} BY DEF X
  <1> HIDE DEF upd
  <1>3. "itemName" \in Slots BY DEF Slots
  <1>4. slots["itemName"] # Bits BY <1>3 DEF Own, Filed, Kind, Bits
  <1>5. NULL \notin owned BY DEF Own, Typed, Refs, Made, NULL
  <1>6. Moves(upd, new, drop)
    <2>1. \A r \in new : Forgotten(r)' \/ upd["itemName"] = r BY <1>1 DEF Forgotten
    <2>2. QED BY <1>1, <1>2, <1>3, <1>4, <1>5, <2>1 DEF Moves
  <1>7. /\ Typed' /\ Backed' /\ Kept'
        /\ \A s \in Slots : slots'[s] = IF s \in DOMAIN upd THEN upd[s] ELSE slots[s]
        /\ fault' = fault
    BY <1>6, Transfer
  <1>8. \A s \in Slots : slots'[s] = IF s = "itemName" THEN v ELSE slots[s]
    BY <1>1, <1>7
  <1>9. Filed' BY <1>8 DEF Own, Filed, Kind, Slots
  <1>10. Used' BY <1>8 DEF Own, Used, Empty, Slots
  <1>11. Faults' BY <1>7 DEF Own, Faults
  <1>12. QED BY <1>7, <1>9, <1>10, <1>11 DEF Own

LEMMA DictIterOwn ==
  ASSUME TypeOK, Own, DictNext \/ DictKeyFails \/ DictEnds
  PROVE  Own'
PROOF
  <1> USE DEF context, Unsorted
  <1>1. index \in Nat BY DEF TypeOK
  <1>2. PICK drop : drop = X(slots.itemName) OBVIOUS
  <1>3. NULL \in Refs \cup {NULL} /\ NULL.what = "NULL" BY DEF NULL
  <1>4. CASE DictNext
    <2>1. PICK k \in KeyKinds :
            Account([itemName |-> NameOf(k)],
                    {NameOf(k)} \cup (IF k = "None" THEN {Ref("null", index)} ELSE {}),
                    X(slots.itemName))
      BY <1>4, Zenon DEF DictNext
    <2>2. PICK v, new : /\ v = NameOf(k)
                        /\ new = {v} \cup (IF k = "None" THEN {Ref("null", index)} ELSE {})
      OBVIOUS
    <2>3. v \in Refs /\ v.what \in {"key", "name"}
      BY <1>1, <2>2 DEF NameOf, Ref, Refs, Made
    <2>4. Ref("null", index) \in Refs /\ Ref("null", index).what = "null"
      BY <1>1 DEF Ref, Refs, Made
    <2>5. new \in SUBSET Refs /\ v \in new /\ \A r \in new : r = v \/ r.what = "null"
      BY <2>2, <2>3, <2>4
    <2>6. Account([itemName |-> v], new, drop) BY <1>2, <2>1, <2>2
    <2>7. /\ pc = "iterate" /\ type = "OBJECT" /\ ~enc.sortKeys
          /\ type' = type /\ enc' = enc /\ pc' \in {"item", "iterEnd"}
      BY <1>4 DEF DictNext, Deliver
    <2>8. QED BY <1>2, <2>3, <2>5, <2>6, <2>7, NameOwn
  <1>5. ASSUME DictKeyFails \/ DictEnds
        PROVE  Own'
    <2>1. /\ pc = "iterate" /\ type = "OBJECT" /\ ~enc.sortKeys
          /\ type' = type /\ enc' = enc /\ pc' \in {"item", "iterEnd"}
      BY <1>5 DEF DictKeyFails, DictEnds, Stop
    <2>2. \/ Account([itemName |-> NULL], {}, X(slots.itemName))
          \/ \E w \in {"key", "str"} :
               Account([itemName |-> Ref(w, index)], {Ref(w, index)}, X(slots.itemName))
      BY <1>5 DEF DictKeyFails, DictEnds
    <2>3. CASE Account([itemName |-> NULL], {}, X(slots.itemName))
      <3>1. PICK new : new = {} OBVIOUS
      <3>2. Account([itemName |-> NULL], new, drop) BY <1>2, <2>3, <3>1
      <3>3. QED BY <1>2, <1>3, <2>1, <3>1, <3>2, NameOwn
    <2>4. CASE \E w \in {"key", "str"} :
                 Account([itemName |-> Ref(w, index)], {Ref(w, index)}, X(slots.itemName))
      <3>1. PICK w \in {"key", "str"} :
              Account([itemName |-> Ref(w, index)], {Ref(w, index)}, X(slots.itemName))
        BY <2>4
      <3>2. PICK v, new : v = Ref(w, index) /\ new = {v} OBVIOUS
      <3>3. v \in Refs /\ v.what \in {"key", "str"} BY <1>1, <3>2 DEF Ref, Refs, Made
      <3>4. Account([itemName |-> v], new, drop) BY <1>2, <3>1, <3>2
      <3>5. QED BY <1>2, <2>1, <3>2, <3>3, <3>4, NameOwn
    <2>5. QED BY <2>2, <2>3, <2>4
  <1>6. QED BY <1>4, <1>5

-----------------------------------------------------------------------------
(* The sorted iteration. *)

LEMMA KeysOwn == ASSUME Own, Keys PROVE Own'
PROOF
  <1> DEFINE l == Ref("items", 0)
             upd == [items |-> l]
  <1>1. l \in Refs /\ l.what = "items" BY DEF Refs, Ref, Made
  <1>2. /\ DOMAIN upd = {"items"} /\ upd["items"] = l
        /\ Account(upd, {l}, {})
    BY DEF Keys
  <1>3. PICK new, drop : new = {l} /\ drop = {} OBVIOUS
  <1>4. /\ pc = "iterate" /\ type = "OBJECT" /\ enc.sortKeys /\ slots["newObj"] = NULL
        /\ pc' = "sort" /\ type' = type /\ enc' = enc
    BY DEF Keys, Sorted, context
  <1> HIDE DEF l, upd
  <1>5. NULL \notin owned BY DEF Own, Typed, Refs, Made, NULL
  <1>6. Moves(upd, new, drop)
    <2>1. slots["items"] = NULL BY <1>4 DEF Own, Used
    <2>2. DOMAIN upd \subseteq Slots BY <1>2 DEF Slots
    <2>3. QED BY <1>1, <1>2, <1>3, <1>5, <2>1, <2>2 DEF Moves
  <1>7. /\ Typed' /\ Backed' /\ Kept'
        /\ \A s \in Slots : slots'[s] = IF s \in DOMAIN upd THEN upd[s] ELSE slots[s]
        /\ fault' = fault
    BY <1>4, <1>6, Transfer
  <1>8. \A s \in Slots : slots'[s] = IF s = "items" THEN l ELSE slots[s]
    BY <1>2, <1>7
  <1>9. Filed' BY <1>1, <1>8 DEF Own, Filed, Kind, Slots
  <1>10. Used' BY <1>1, <1>4, <1>8 DEF Own, Used, Empty, Slots, NULL
  <1>11. Faults' BY <1>4, <1>7 DEF Own, Faults
  <1>12. QED BY <1>7, <1>9, <1>10, <1>11 DEF Own

\* Where keys are sorted, the list is a reference.
LEMMA ItemsOwned ==
  ASSUME Own, pc = "sort"
  PROVE  /\ slots["items"] \in owned /\ slots["items"].what = "items"
         /\ slots["items"] \notin {NULL, Bits}
PROOF
  <1>1. "items" \in Slots BY DEF Slots
  <1>2. /\ slots["items"].what \in {"NULL", "items"}
        /\ slots["items"] \in {NULL, Bits} \cup owned
        /\ slots["items"] # NULL
    BY <1>1 DEF Own, Filed, Kind, Backed, Used
  <1>3. QED BY <1>2 DEF Own, Typed, Refs, Made, NULL, Bits

LEMMA PackedOwn == ASSUME Own, Packed PROVE Own'
PROOF
  <1>1. PICK l : l = slots["items"] OBVIOUS
  <1>2. /\ pc = "sort" /\ pc' = "iterate" /\ type' = type /\ enc' = enc
    BY DEF Packed, context
  <1>3. l \in owned /\ l.what = "items" /\ l \notin {NULL, Bits}
    BY <1>1, <1>2, ItemsOwned
  <1> DEFINE upd == [items |-> NULL, newObj |-> l]
  <1>4. /\ DOMAIN upd = {"items", "newObj"} /\ upd["items"] = NULL /\ upd["newObj"] = l
        /\ Account(upd, {}, {})
    BY <1>1 DEF Packed
  <1>5. PICK new, drop : new = {} /\ drop = {} OBVIOUS
  <1> HIDE DEF upd
  <1>6. NULL \notin owned BY DEF Own, Typed, Refs, Made, NULL
  <1>7. slots["newObj"] = NULL BY <1>2 DEF Own, Used
  <1>8. Moves(upd, new, drop)
    <2>1. DOMAIN upd \subseteq Slots BY <1>4 DEF Slots
    <2>2. QED BY <1>1, <1>3, <1>4, <1>5, <1>6, <1>7, <2>1 DEF Moves
  <1>9. /\ Typed' /\ Backed' /\ Kept'
        /\ \A s \in Slots : slots'[s] = IF s \in DOMAIN upd THEN upd[s] ELSE slots[s]
        /\ fault' = fault
    BY <1>2, <1>8, Transfer
  <1>10. \A s \in Slots : slots'[s] = CASE s = "items" -> NULL
                                        [] s = "newObj" -> l
                                        [] OTHER -> slots[s]
    BY <1>4, <1>9
  <1>11. Filed' BY <1>3, <1>10 DEF Own, Filed, Kind, Slots, NULL
  <1>12. Used' BY <1>2, <1>3, <1>10 DEF Own, Used, Empty, Slots
  <1>13. Faults' BY <1>2, <1>9 DEF Own, Faults
  <1>14. QED BY <1>9, <1>11, <1>12, <1>13 DEF Own

\* Both exits with an error release the list.
LEMMA SortFailsOwn ==
  ASSUME Own, Control, Unorderable \/ SortedKeyFails
  PROVE  Own'
PROOF
  <1>1. /\ pc = "sort" /\ pc' = "iterEnd" /\ type' = type /\ enc' = enc /\ res' = -1
        /\ type = "OBJECT" /\ enc.sortKeys
    BY DEF Unorderable, SortedKeyFails, Stop, context, Control, Own, Used
  <1>2. /\ slots["items"] \in owned /\ slots["items"].what = "items"
        /\ slots["items"] \notin {NULL, Bits}
    BY <1>1, ItemsOwned
  <1>3. "items" \in Slots BY DEF Slots
  <1>4. slots \in [Slots -> Values] BY DEF Own, Typed
  <1>5. /\ slots' \in [Slots -> Values]
        /\ \A s \in Slots : slots'[s] = IF s = "items" THEN NULL ELSE slots[s]
    <2>1. CASE Unorderable
      <3> DEFINE upd == [items |-> NULL]
      <3>1. DOMAIN upd = {"items"} /\ upd["items"] = NULL
            /\ slots' = [s \in Slots |-> IF s \in DOMAIN upd THEN upd[s] ELSE slots[s]]
        BY <2>1 DEF Unorderable, Account
      <3> HIDE DEF upd
      <3>2. slots' = [s \in Slots |-> IF s = "items" THEN NULL ELSE slots[s]]
        BY <3>1
      <3>3. QED BY <1>4, <3>2 DEF Values
    <2>2. CASE SortedKeyFails BY <1>4, <2>2 DEF SortedKeyFails, Values
    <2>3. QED BY <2>1, <2>2
  <1>6. owned' = owned \ {slots["items"]}
    BY <1>2 DEF Unorderable, SortedKeyFails, Account, X
  <1>7. fault' \in BOOLEAN
    BY DEF Unorderable, SortedKeyFails, Account, Own, Typed
  <1>8. Typed' BY <1>5, <1>6, <1>7 DEF Own, Typed
  <1>9. Filed' BY <1>5 DEF Own, Filed, Kind, Slots, NULL
  <1>10. ASSUME NEW s \in Slots
         PROVE  slots'[s] \in {NULL, Bits} \cup owned'
    <2>1. CASE s = "items" BY <1>5, <2>1
    <2>2. CASE s # "items"
      <3>1. slots'[s] = slots[s] /\ slots[s] \in {NULL, Bits} \cup owned
        BY <1>1, <1>5, <2>2 DEF Own, Backed
      <3>2. slots[s] # slots["items"]
        BY <1>2, <1>3, <2>2, Apart DEF Own
      <3>3. QED BY <1>6, <3>1, <3>2
    <2>3. QED BY <2>1, <2>2
  <1>11. Backed' BY <1>10 DEF Backed
  <1>12. ASSUME NEW r \in owned'
         PROVE  Forgotten(r)' \/ \E s \in Slots : slots'[s] = r
    <2>1. r \in owned /\ r # slots["items"] BY <1>6
    <2>2. CASE Forgotten(r) BY <1>1, <2>2 DEF Forgotten
    <2>3. CASE \E s \in Slots : slots[s] = r BY <1>5, <2>1, <2>3
    <2>4. QED BY <2>1, <2>2, <2>3 DEF Own, Kept
  <1>13. Kept' BY <1>12 DEF Kept
  <1>14. Used' BY <1>1, <1>5 DEF Own, Used, Empty, Slots
  <1>15. Faults' BY <1>1 DEF Faults, Sorted
  <1>16. QED BY <1>8, <1>9, <1>11, <1>13, <1>14, <1>15 DEF Own

-----------------------------------------------------------------------------
(* The end of the context. *)

LEMMA IterEndOwn == ASSUME Own, Control, IterEnd PROVE Own'
PROOF
  <1>1. /\ pc = "iterEnd" /\ pc' = "endTypeContext" /\ type' = type /\ enc' = enc
        /\ res' = res /\ type \in {"ARRAY", "OBJECT"}
    BY DEF IterEnd, context, container, Control, Containers
  <1>2. NULL \notin owned BY DEF Own, Typed, Refs, Made, NULL
  <1>3. CASE type = "ARRAY"
    <2>1. NoRefs BY <1>3 DEF IterEnd
    <2>2. Typed' /\ Filed' /\ Backed' /\ Kept' BY <1>1, <2>1, Untouched DEF Own
    <2>3. Used' BY <1>1, <1>2, <1>3, <2>1 DEF Own, Used, Empty, NoRefs
    <2>4. Faults' BY <1>1, <2>1 DEF Own, Faults, NoRefs, Sorted
    <2>5. QED BY <2>2, <2>3, <2>4 DEF Own
  <1>4. CASE type = "OBJECT"
    <2>1. PICK drop : drop = X(slots.itemName) \cup X(slots.iterator) \cup {slots.dictObj}
      OBVIOUS
    <2> DEFINE upd == [itemName |-> NULL, iterator |-> NULL]
    <2>2. /\ DOMAIN upd = {"itemName", "iterator"}
          /\ upd["itemName"] = NULL /\ upd["iterator"] = NULL
          /\ Account(upd, {}, drop)
      BY <1>4, <2>1 DEF IterEnd
    <2>3. drop = ({slots["itemName"], slots["iterator"]} \ {NULL}) \cup {slots["dictObj"]}
      BY <2>1 DEF X
    <2> HIDE DEF upd
    <2>4. {"itemName", "iterator", "dictObj"} \subseteq Slots BY DEF Slots
    <2>5. \A r \in drop : r \notin {NULL, Bits} /\ r \in owned
      <3>1. slots["dictObj"] # NULL BY <1>1, <1>4 DEF Own, Used
      <3>2. \A s \in {"itemName", "iterator", "dictObj"} : slots[s] # Bits
        BY <2>4 DEF Own, Filed, Kind, Bits
      <3>3. QED BY <1>1, <2>3, <2>4, <3>1, <3>2 DEF Own, Backed
    <2>6. \A s \in Slots : slots'[s] = IF s \in {"itemName", "iterator"} THEN NULL ELSE slots[s]
      BY <2>2 DEF Account
    <2>7. owned' = owned \ drop BY <2>2 DEF Account
    <2>8. fault' = fault BY <2>2, <2>5 DEF Account, Own, Typed
    <2>9. Typed'
      <3>1. \A s \in Slots : slots'[s] \in Values BY <2>6 DEF Own, Typed, Values
      <3>2. slots' \in [Slots -> Values] BY <2>2, <3>1, Zenon DEF Account
      <3>3. QED BY <2>7, <2>8, <3>2 DEF Own, Typed
    <2>10. Filed' BY <2>6 DEF Own, Filed, Kind, Slots, NULL
    <2>11. ASSUME NEW s \in Slots
           PROVE  slots'[s] \in {NULL, Bits} \cup owned' \/ s = "dictObj"
      <3>1. CASE s \in {"itemName", "iterator"} BY <2>6, <3>1
      <3>2. CASE s \notin {"itemName", "iterator", "dictObj"}
        <4>1. slots'[s] = slots[s] /\ slots[s] \in {NULL, Bits} \cup owned
          BY <1>1, <2>6, <3>2 DEF Own, Backed
        <4>2. CASE slots[s] \in drop
          <5>1. PICK t \in {"itemName", "iterator", "dictObj"} : slots[s] = slots[t]
            BY <2>3, <4>2
          <5>2. slots[s].what \in {"NULL", "Bits"}
            BY <2>4, <3>2, <5>1, Apart DEF Own
          <5>3. slots[s] \in Values BY DEF Own, Typed
          <5>4. QED BY <4>1, <5>2, <5>3, NoReference
        <4>3. QED BY <2>7, <4>1, <4>2
      <3>3. QED BY <3>1, <3>2
    <2>12. Backed' BY <1>1, <2>11 DEF Backed
    <2>13. ASSUME NEW r \in owned'
           PROVE  Forgotten(r)' \/ \E s \in Slots : slots'[s] = r
      <3>1. r \in owned /\ r \notin drop BY <2>7
      <3>2. CASE Forgotten(r) BY <1>1, <3>2 DEF Forgotten
      <3>3. ASSUME NEW s \in Slots, slots[s] = r
            PROVE  slots'[s] = r
        BY <1>2, <2>3, <2>6, <3>1, <3>3
      <3>4. QED BY <3>1, <3>2, <3>3 DEF Own, Kept
    <2>14. Kept' BY <2>13 DEF Kept
    <2>15. Used'
      <3>1. slots'["dictObj"] = slots["dictObj"] /\ slots["dictObj"] \notin owned'
        BY <2>3, <2>4, <2>6, <2>7
      <3>2. QED BY <1>1, <2>6, <3>1 DEF Own, Used, Empty, Slots
    <2>16. Faults' BY <1>1, <2>8 DEF Own, Faults, Sorted
    <2>17. QED BY <2>9, <2>10, <2>12, <2>14, <2>15, <2>16 DEF Own
  <1>5. QED BY <1>1, <1>3, <1>4

LEMMA EndTypeContextOwn == ASSUME Own, EndTypeContext PROVE Own'
PROOF
  <1>1. /\ pc = "endTypeContext" /\ pc' = "done" /\ type' = type /\ enc' = enc
        /\ res' = res /\ kind' = kind
    BY DEF EndTypeContext, context, container
  <1>2. PICK drop : drop = X(slots.newObj) \cup IF type = "RAW" THEN X(slots.rawJSONValue) ELSE {}
    OBVIOUS
  <1>3. drop = ({slots["newObj"]} \ {NULL})
                 \cup IF type = "RAW" THEN {slots["rawJSONValue"]} \ {NULL} ELSE {}
    BY <1>2 DEF X
  <1>4. /\ \A s \in Slots : slots'[s] = NULL
        /\ slots' = [s \in Slots |-> slots'[s]]
        /\ owned' = owned \ drop
        /\ fault' = (fault \/ ~(drop \subseteq owned))
    <2> DEFINE upd == [s \in Slots |-> NULL]
    <2>1. DOMAIN upd = Slots /\ (\A s \in Slots : upd[s] = NULL) /\ Account(upd, {}, drop)
      BY <1>2 DEF EndTypeContext
    <2> HIDE DEF upd
    <2>2. QED BY <2>1 DEF Account
  <1>5. {"newObj", "rawJSONValue"} \subseteq Slots BY DEF Slots
  <1>6. drop \subseteq owned
    <2>1. slots["newObj"] # Bits BY <1>5 DEF Own, Filed, Kind, Bits
    <2>2. type = "RAW" => slots["rawJSONValue"] # Bits BY DEF Own, Used, Bits
    <2>3. QED BY <1>3, <1>5, <2>1, <2>2 DEF Own, Backed
  <1>7. fault' = fault BY <1>4, <1>6 DEF Own, Typed
  <1>8. Typed'
    <2>1. slots' \in [Slots -> Values] BY <1>4 DEF Values
    <2>2. QED BY <1>4, <1>7, <2>1 DEF Own, Typed
  <1>9. Filed' BY <1>4 DEF Filed, Kind, Slots, NULL
  <1>10. Backed' BY <1>4 DEF Backed
  <1>11. ASSUME NEW r \in owned'
         PROVE  Forgotten(r)'
    <2>1. r \in owned /\ r \notin drop BY <1>4
    <2>2. CASE Forgotten(r) BY <1>1, <2>2 DEF Forgotten
    <2>3. ASSUME NEW s \in Slots, slots[s] = r
          PROVE  FALSE
      <3>1. r \notin {NULL, Bits} /\ r.what \notin {"NULL", "Bits"}
        BY <2>1 DEF Own, Typed, Refs, Made, NULL, Bits
      <3>2. s \notin {"itemName", "iterator", "items"}
        BY <1>1, <2>3, <3>1 DEF Own, Used, Empty
      <3>3. s # "dictObj" BY <1>1, <2>1, <2>3 DEF Own, Used
      <3>4. s # "newObj" BY <1>3, <2>1, <2>3, <3>1
      <3>5. s = "rawJSONValue" BY <3>2, <3>3, <3>4 DEF Slots
      <3>6. type = "RAW" BY <2>3, <3>1, <3>5 DEF Own, Used, Filed, Kind
      <3>7. QED BY <1>3, <2>1, <2>3, <3>1, <3>5, <3>6
    <2>4. QED BY <2>1, <2>2, <2>3 DEF Own, Kept
  <1>12. Kept' BY <1>11 DEF Kept
  <1>13. Used' BY <1>1, <1>4 DEF Used, Empty, Slots, NULL
  <1>14. Faults' BY <1>1, <1>7 DEF Own, Faults, Sorted
  <1>15. QED BY <1>8, <1>9, <1>10, <1>12, <1>13, <1>14 DEF Own

LEMMA NextOwn == ASSUME TypeOK, Control, Own, [Next]_vars PROVE Own'
PROOF
  <1>1. CASE BeginTypeContext BY <1>1, BeginOwn
  <1>2. CASE GetStringValue BY <1>2, StringOwn
  <1>3. CASE \/ StringUnavailable \/ GetDoubleValue
             \/ ArrayNext \/ ArrayEnds \/ SortedNext \/ SortedEnds \/ ItemEncoded
    <2>1. NoRefs
      BY <1>3 DEF StringUnavailable, GetDoubleValue, ArrayNext, ArrayEnds, SortedNext,
                  SortedEnds, ItemEncoded
    <2>2. QED BY <1>3, <2>1, NoRefsOwn
  <1>4. CASE DictNext \/ DictKeyFails \/ DictEnds BY <1>4, DictIterOwn
  <1>5. CASE Keys BY <1>5, KeysOwn
  <1>6. CASE Packed BY <1>6, PackedOwn
  <1>7. CASE Unorderable \/ SortedKeyFails BY <1>7, SortFailsOwn
  <1>8. CASE IterEnd BY <1>8, IterEndOwn
  <1>9. CASE EndTypeContext BY <1>9, EndTypeContextOwn
  <1>10. CASE UNCHANGED vars
    <2> SUFFICES ASSUME UNCHANGED vars PROVE Own' BY <1>10
    <2> USE DEF vars
    <2>1. Typed' /\ Filed' /\ Backed' BY DEF Own, Typed, Filed, Backed
    <2>2. Kept' BY DEF Own, Kept, Forgotten
    <2>3. Used' BY DEF Own, Used, Empty
    <2>4. Faults' BY DEF Own, Faults, Sorted
    <2>5. QED BY <2>1, <2>2, <2>3, <2>4 DEF Own
  <1>11. QED
    BY <1>1, <1>2, <1>3, <1>4, <1>5, <1>6, <1>7, <1>8, <1>9, <1>10
    DEF Next, Step, IterNext, Done

-----------------------------------------------------------------------------
(* Types, and the theorem. *)

LEMMA InitTypes == Init => TypeOK /\ Own
PROOF
  <1> SUFFICES ASSUME Init PROVE TypeOK /\ Own OBVIOUS
  <1> USE DEF Init
  <1>1. slots \in [Slots -> Values] BY DEF Values
  <1>2. Own
    <2>1. Typed BY <1>1 DEF Typed
    <2>2. Filed BY DEF Filed, Kind, Slots, NULL
    <2>3. Backed /\ Kept BY DEF Backed, Kept
    <2>4. Used BY DEF Used, Empty, Slots, NULL
    <2>5. Faults BY DEF Faults
    <2>6. QED BY <2>1, <2>2, <2>3, <2>4, <2>5 DEF Own
  <1>3. enc \in [sortKeys : BOOLEAN, defaultFn : BOOLEAN]
    BY CallbackAssumption, TypeContextAssumption
  <1>4. /\ kind \in AllKinds /\ level \in 0..DEFAULT_FN_MAX_DEPTH /\ type \in Types
        /\ err \in Exceptions \cup {"none"} /\ err0 \in Exceptions \cup {"none"}
        /\ len \in Nat /\ size \in Nat /\ index \in Nat /\ res \in {-1, 0, 1}
    BY TypeContextAssumption DEF DEFAULT_FN_MAX_DEPTH, Types
  <1>5. delivered \in Seq(Nat)
    <2>1. <<>> \in Seq(Nat) OBVIOUS
    <2>2. QED BY <2>1
  <1>6. QED BY <1>1, <1>2, <1>3, <1>4, <1>5 DEF TypeOK, Values

\* What TypeOK says besides Typed.
Fields ==
  /\ enc \in [sortKeys : BOOLEAN, defaultFn : BOOLEAN]
  /\ pc \in {"call", "BEGIN", "string", "double", "iterate", "sort", "item", "iterEnd",
             "endTypeContext", "done", "abandoned"}
  /\ kind \in AllKinds /\ level \in 0..DEFAULT_FN_MAX_DEPTH /\ type \in Types
  /\ err \in Exceptions \cup {"none"} /\ err0 \in Exceptions \cup {"none"}
  /\ changed \in BOOLEAN
  /\ len \in Nat /\ size \in Nat /\ index \in Nat /\ res \in {-1, 0, 1}
  /\ delivered \in Seq(Nat)

LEMMA NextFields == ASSUME Fields, [Next]_vars PROVE Fields'
PROOF
  <1> USE DEF Fields
  <1> USE DEF context, container
  <1>a. ASSUME NEW t \in Types, Begun(t)
        PROVE  type' \in Types /\ pc' \in {"iterate", "string", "double", "endTypeContext"}
    BY <1>a DEF Begun
  <1>b. ASSUME NEW e \in Exceptions \cup {"none"}, INVALID(e)
        PROVE  Fields'
    BY <1>b DEF INVALID, Types
  <1>c. ASSUME NEW k \in Nat, Deliver(k)
        PROVE  delivered' \in Seq(Nat)
    BY <1>c DEF Deliver
  <1>1. CASE NoContext \/ Begin
    BY <1>1 DEF NoContext, Begin, Exceptions
  <1>2. CASE Scalar
    BY <1>2, <1>a DEF Scalar, Begun, Types
  <1>3. CASE RejectBytes \/ PyLongRefused \/ MethodFails \/ DefaultFails \/ NotSerializable
    BY <1>3, <1>b DEF RejectBytes, PyLongRefused, MethodFails, DefaultFails,
                      NotSerializable, Exceptions
  <1>4. CASE PyLong
    <2>1. err' = "none" /\ UNCHANGED container /\ (Begun("LONG") \/ Begun("RAW"))
      BY <1>4, Zenon DEF PyLong
    <2>2. QED BY <2>1 DEF Begun, Types, Containers
  <1>5. CASE ListOrTuple
    BY <1>5 DEF ListOrTuple, Begun, IsDecimal, Types, Containers
  <1>6. CASE Dict
    BY <1>6 DEF Dict, Begun, IsDecimal, SetupDictIter, Types, Containers
  <1>7. CASE ToDict
    BY <1>7 DEF ToDict, Begun, SetupDictIter, Types, Containers
  <1>8. CASE Json
    BY <1>8 DEF Json, Begun, Types, Containers
  <1>9. CASE CallDefault
    BY <1>9, TypeContextAssumption DEF CallDefault, DEFAULT_FN_MAX_DEPTH
  <1>10. CASE GetStringValue \/ StringUnavailable \/ GetDoubleValue
    BY <1>10 DEF GetStringValue, StringUnavailable, GetDoubleValue
  <1>11. CASE ArrayNext
    BY <1>11, <1>c DEF ArrayNext, Deliver, Exceptions
  <1>12. CASE DictNext
    BY <1>12, <1>c DEF DictNext, Deliver
  <1>13. CASE SortedNext
    BY <1>13, <1>c DEF SortedNext, Deliver
  <1>14. CASE ArrayEnds \/ SortedEnds
    BY <1>14 DEF ArrayEnds, SortedEnds, Stop
  <1>15. CASE DictKeyFails
    BY <1>15 DEF DictKeyFails, Stop
  <1>16. CASE DictEnds
    BY <1>16 DEF DictEnds, Stop, Exceptions
  <1>17. CASE Keys \/ Packed
    BY <1>17 DEF Keys, Packed
  <1>18. CASE Unorderable \/ SortedKeyFails
    BY <1>18 DEF Unorderable, SortedKeyFails, Stop, Exceptions
  <1>19. CASE ItemEncoded
    <2>1. \A n \in 0..MaxItems : n \in Nat BY TypeContextAssumption
    <2>2. len' \in Nat /\ changed' \in BOOLEAN BY <1>19, <2>1, Zenon DEF ItemEncoded
    <2>3. QED BY <1>19, <2>2 DEF ItemEncoded
  <1>20. CASE IterEnd \/ EndTypeContext
    BY <1>20 DEF IterEnd, EndTypeContext
  <1>21. CASE UNCHANGED vars BY <1>21 DEF vars
  <1>22. QED
    BY <1>1, <1>2, <1>3, <1>4, <1>5, <1>6, <1>7, <1>8, <1>9, <1>10, <1>11, <1>12,
       <1>13, <1>14, <1>15, <1>16, <1>17, <1>18, <1>19, <1>20, <1>21
    DEF Next, Step, BeginTypeContext, IterNext, Done

LEMMA NextTypes == ASSUME TypeOK, Typed', [Next]_vars PROVE TypeOK'
PROOF
  <1>1. Fields BY DEF TypeOK, Fields
  <1>2. Fields' BY <1>1, NextFields
  <1>3. QED BY <1>2 DEF TypeOK, Fields, Typed, Values

LEMMA OwnImpliesOwnership == ASSUME TypeOK, Own PROVE Ownership
PROOF
  <1>1. \A r \in owned : Forgotten(r) \/ r \in Held
    <2>1. ASSUME NEW r \in owned, ~Forgotten(r) PROVE r \in Held
      <3>1. PICK s \in Slots : slots[s] = r BY <2>1 DEF Own, Kept
      <3>2. r \notin {NULL, Bits} BY DEF Own, Typed, Refs, Made, NULL, Bits
      <3>3. QED BY <3>1, <3>2 DEF Held
    <2>2. QED BY <2>1
  <1>2. Held \ owned \subseteq IF pc = "endTypeContext" THEN {slots.dictObj} ELSE {}
    BY DEF Own, Backed, Held
  <1>3. pc = "done" => Held = {}
    BY DEF Own, Used, Empty, Held
  <1>4. fault => Sorted /\ res = -1 BY DEF Own, Faults
  <1>5. QED BY <1>1, <1>2, <1>3, <1>4 DEF Ownership

Invariant == TypeOK /\ Control /\ Own

LEMMA InitInvariant == Init => Invariant
PROOF
  BY InitTypes, InitControl DEF Invariant

LEMMA NextInvariant == Invariant /\ [Next]_vars => Invariant'
PROOF
  <1> SUFFICES ASSUME Invariant, [Next]_vars PROVE Invariant' OBVIOUS
  <1>1. Own' BY NextOwn DEF Invariant
  <1>2. Control' BY NextControl DEF Invariant
  <1>3. TypeOK' BY <1>1, NextTypes DEF Invariant, Own
  <1>4. QED BY <1>1, <1>2, <1>3 DEF Invariant

\* Whatever default, methods and keys do, and for containers of any length:
\* apart from those listed in Forgotten, every reference made for a value is
\* held by the field that gives it up, fields hold nothing that was given up,
\* and only the error exit of the sorted iteration gives up what it does not own.
THEOREM OwnershipCorrect == Spec => []Ownership
PROOF
  <1>1. Invariant => Ownership BY OwnImpliesOwnership DEF Invariant
  <1>2. QED BY <1>1, InitInvariant, NextInvariant, PTL DEF Spec

-----------------------------------------------------------------------------
(* Complete iterations. *)

Counting(n) == [i \in 1..n |-> i]

\* A container that nobody has changed, other than a sorted dict that default
\* returned, has been delivered as far as index, and size is its length.
Listed ==
  ~changed /\ ~(Sorted /\ level > 0) =>
    /\ pc \in {"call", "BEGIN", "iterate", "sort", "item"} =>
         delivered = Counting(index) /\ index <= len
    /\ pc \in {"call", "BEGIN"} => index = 0
    /\ pc = "BEGIN" /\ level = 0 => slots["newObj"] = NULL
    /\ pc \in {"iterate", "item"} /\ (type = "ARRAY" \/ (Sorted /\ slots["newObj"] # NULL))
         => size = len
    /\ pc = "item" => res = 1
    /\ pc = "iterEnd" /\ res = 0 => delivered = Counting(len)

LEMMA CountingNext ==
  ASSUME NEW n \in Nat PROVE Append(Counting(n), n + 1) = Counting(n + 1)
PROOF
  BY DEF Counting

LEMMA InitListed == Init => Listed
PROOF
  <1> SUFFICES ASSUME Init PROVE Listed OBVIOUS
  <1>1. <<>> = Counting(0) BY DEF Counting
  <1>2. \A n \in 0..MaxItems : n >= 0 BY TypeContextAssumption
  <1>3. QED BY <1>1, <1>2 DEF Init, Listed, Slots

LEMMA DeliverListed ==
  ASSUME TypeOK, Listed, pc = "iterate", Deliver(index + 1), index' = index + 1,
         ~changed /\ ~(Sorted /\ level > 0) => index < len,
         UNCHANGED <<context, len, changed, size>>,
         NoRefs \/ (type = "OBJECT" /\ ~enc.sortKeys)
  PROVE  Listed'
PROOF
  <1>1. index \in Nat /\ len \in Nat BY DEF TypeOK
  <1>2. Append(Counting(index), index + 1) = Counting(index + 1) BY <1>1, CountingNext
  <1>3. index < len => index + 1 <= len BY <1>1
  <1>4. QED BY <1>2, <1>3 DEF Listed, Deliver, context, NoRefs, Sorted

LEMMA NextListed ==
  ASSUME TypeOK, Control, Own, Listed, [Next]_vars
  PROVE  Listed'
PROOF
  <1>1. index \in Nat /\ len \in Nat /\ size \in Nat /\ level \in Nat
    BY DEF TypeOK, DEFAULT_FN_MAX_DEPTH
  <1>a. ASSUME NEW e, INVALID(e) PROVE Listed'
    BY <1>a DEF INVALID, Listed
  <1> USE DEF context, container, Sorted
  <1>2. CASE NoContext \/ Begin
    <2>1. pc = "call" => slots["newObj"] = NULL BY DEF Own, Used, Empty, Slots
    <2>2. QED BY <1>2, <2>1 DEF NoContext, Begin, Listed, NoRefs
  <1>3. CASE RejectBytes \/ PyLongRefused \/ MethodFails \/ DefaultFails \/ NotSerializable
    BY <1>3, <1>a DEF RejectBytes, PyLongRefused, MethodFails, DefaultFails, NotSerializable
  <1>4. CASE Scalar
    <2>1. pc' \in {"string", "double", "endTypeContext"} BY <1>4 DEF Scalar, Begun, Containers
    <2>2. QED BY <2>1 DEF Listed
  <1>5. CASE PyLong \/ Json
    <2>1. pc' \in {"string", "double", "endTypeContext"}
      BY <1>5 DEF PyLong, Json, Begun, Containers
    <2>2. QED BY <2>1 DEF Listed
  <1>6. CASE ListOrTuple
    <2>1. pc = "BEGIN" => type = "INVALID" BY DEF Control
    <2>2. /\ pc = "BEGIN" /\ pc' = "iterate" /\ type' = "ARRAY"
          /\ size' = len /\ index' = 0 /\ slots' = slots
          /\ UNCHANGED <<enc, level, len, changed, res, delivered>>
      BY <1>6 DEF ListOrTuple, Begun, Containers, NoRefs
    <2>3. QED BY <1>1, <2>1, <2>2 DEF Listed
  <1>7. CASE Dict \/ ToDict
    <2>1. CASE pc' # "iterate"
      BY <1>7, <2>1 DEF Dict, ToDict, Begun, Containers, Listed
    <2>2. CASE pc' = "iterate"
      <3>1. /\ type' = "OBJECT" /\ enc' = enc /\ level' = level /\ pc = "BEGIN"
            /\ UNCHANGED <<len, changed, size, res, delivered>>
            /\ \E k \in {0, 1} : SetupDictIter(Ref("dict", k))
        BY <1>7, <2>2 DEF Dict, ToDict, Begun, Containers
      <3>2. PICK k \in {0, 1} : SetupDictIter(Ref("dict", k)) BY <3>1
      <3>3. slots'["newObj"] = slots["newObj"]
        <4>1. CASE enc.sortKeys BY <3>2, <4>1 DEF SetupDictIter, Account, Slots
        <4>2. CASE ~enc.sortKeys BY <3>2, <4>2 DEF SetupDictIter, Account, Slots
        <4>3. QED BY <4>1, <4>2
      <3>4. index' \in {0, index} BY <3>2 DEF SetupDictIter
      <3>5. QED BY <1>1, <2>2, <3>1, <3>3, <3>4 DEF Listed, Sorted
    <2>3. QED BY <2>1, <2>2
  <1>8. CASE CallDefault
    BY <1>1, <1>8 DEF CallDefault, Listed
  <1>9. CASE GetStringValue \/ StringUnavailable \/ GetDoubleValue
    BY <1>9 DEF GetStringValue, StringUnavailable, GetDoubleValue, Listed
  <1>10. CASE ArrayNext
    <2>1. CASE index < len BY <1>10, <2>1, DeliverListed DEF ArrayNext
    <2>2. CASE ~(index < len)
      BY <1>1, <1>10, <2>2 DEF ArrayNext, Listed
    <2>3. QED BY <2>1, <2>2
  <1>11. CASE DictNext
    BY <1>11, DeliverListed DEF DictNext, Unsorted
  <1>12. CASE SortedNext
    <2>1. ~changed /\ ~(Sorted /\ level > 0) => index < len
      BY <1>12 DEF SortedNext, Listed
    <2>2. QED BY <1>12, <2>1, DeliverListed DEF SortedNext
  <1>13. CASE ArrayEnds \/ SortedEnds
    <2>1. ~changed /\ ~(Sorted /\ level > 0) => index = len
      BY <1>1, <1>13 DEF ArrayEnds, SortedEnds, Listed
    <2>2. QED BY <1>13, <2>1 DEF ArrayEnds, SortedEnds, Stop, Listed
  <1>14. CASE DictKeyFails \/ Unorderable \/ SortedKeyFails
    BY <1>14 DEF DictKeyFails, Unorderable, SortedKeyFails, Stop, Listed
  <1>15. CASE DictEnds
    BY <1>15 DEF DictEnds, Unsorted, Stop, Listed
  <1>16. CASE Keys
    BY <1>16 DEF Keys, Listed
  <1>17. CASE Packed
    BY <1>17 DEF Packed, Listed
  <1>18. CASE ItemEncoded
    BY <1>18 DEF ItemEncoded, Listed, NoRefs, Sorted
  <1>19. CASE IterEnd \/ EndTypeContext
    BY <1>19 DEF IterEnd, EndTypeContext, Listed
  <1>20. CASE UNCHANGED vars BY <1>20 DEF vars, Listed, Sorted
  <1>21. QED
    BY <1>2, <1>3, <1>4, <1>5, <1>6, <1>7, <1>8, <1>9, <1>10, <1>11, <1>12, <1>13,
       <1>14, <1>15, <1>16, <1>17, <1>18, <1>19, <1>20
    DEF Next, Step, BeginTypeContext, IterNext, Done

\* Containers of any length that nobody changes are delivered completely, in
\* order, once, but for sorted dicts that default returned.
THEOREM DeliveredCorrect == Spec => []OthersDelivered
PROOF
  <1>1. Init => Invariant /\ Listed BY InitInvariant, InitListed
  <1>2. Invariant /\ Listed /\ [Next]_vars => (Invariant /\ Listed)'
    BY NextInvariant, NextListed DEF Invariant
  <1>3. Listed => OthersDelivered BY DEF Listed, OthersDelivered, AllDelivered, Counting
  <1>4. QED BY <1>1, <1>2, <1>3, PTL DEF Spec
-----------------------------------------------------------------------------
(* Termination: how many steps the callbacks for one value may still take. *)

\* Every iteration counts up to a number that was read when it began, or to the
\* number of keys there are now.
Bounded ==
  /\ len \in 0..MaxItems /\ size \in 0..MaxItems /\ index \in 0..MaxItems
  /\ pc \in {"call", "BEGIN"} => index = 0
  /\ pc = "item" /\ Sorted => slots["newObj"] # NULL

LEMMA InitBounded == Init => Bounded
PROOF
  <1>1. 0 \in 0..MaxItems BY TypeContextAssumption
  <1>2. QED BY <1>1 DEF Init, Bounded

LEMMA NextBounded == ASSUME Bounded, [Next]_vars PROVE Bounded'
PROOF
  <1>1. /\ len \in Nat /\ size \in Nat /\ index \in Nat /\ MaxItems \in Nat
        /\ len <= MaxItems /\ size <= MaxItems /\ index <= MaxItems
        /\ 0 \in 0..MaxItems
    BY TypeContextAssumption DEF Bounded
  <1>2. index < size \/ index < len => index + 1 \in 0..MaxItems BY <1>1, SMT
  <1> USE DEF context, container
  <1>3. ASSUME NEW e, INVALID(e) PROVE Bounded'
    BY <1>3 DEF INVALID, Bounded
  <1>4. CASE NoContext \/ Begin
    BY <1>4 DEF NoContext, Begin, Bounded
  <1>5. CASE RejectBytes \/ PyLongRefused \/ MethodFails \/ DefaultFails \/ NotSerializable
    BY <1>3, <1>5 DEF RejectBytes, PyLongRefused, MethodFails, DefaultFails, NotSerializable
  <1>6. CASE Scalar \/ PyLong \/ Json
    <2>1. pc' \in {"string", "double", "endTypeContext", "iterate"} /\ UNCHANGED container
      BY <1>6 DEF Scalar, PyLong, Json, Begun
    <2>2. QED BY <2>1 DEF Bounded
  <1>7. CASE ListOrTuple
    <2>1. /\ pc' \in {"string", "double", "endTypeContext", "iterate"}
          /\ size' = len /\ index' = 0 /\ UNCHANGED len
      BY <1>7 DEF ListOrTuple, Begun
    <2>2. QED BY <1>1, <2>1 DEF Bounded
  <1>8. CASE Dict \/ ToDict
    <2>1. /\ pc' \in {"string", "double", "endTypeContext", "iterate"} /\ UNCHANGED <<len, size>>
          /\ index' \in {0, index}
      BY <1>8 DEF Dict, ToDict, Begun, SetupDictIter
    <2>2. QED BY <1>1, <2>1 DEF Bounded
  <1>9. CASE CallDefault
    BY <1>9 DEF CallDefault, Bounded
  <1>10. CASE GetStringValue \/ StringUnavailable \/ GetDoubleValue
    BY <1>10 DEF GetStringValue, StringUnavailable, GetDoubleValue, Bounded
  <1>11. CASE ArrayNext
    <2>1. /\ pc' = "item" /\ index' = index + 1 /\ index < size
          /\ UNCHANGED <<len, size, type, enc>> /\ type = "ARRAY"
      BY <1>11 DEF ArrayNext, Deliver
    <2>2. QED BY <1>2, <2>1 DEF Bounded, Sorted
  <1>12. CASE DictNext
    <2>1. /\ pc' = "item" /\ index' = index + 1 /\ index < len
          /\ UNCHANGED <<len, size, type, enc>> /\ ~enc.sortKeys
      BY <1>12 DEF DictNext, Unsorted, Deliver
    <2>2. QED BY <1>2, <2>1 DEF Bounded, Sorted
  <1>13. CASE SortedNext
    <2>1. /\ pc' = "item" /\ index' = index + 1 /\ index < size
          /\ UNCHANGED <<len, size, slots>> /\ slots["newObj"] # NULL
      BY <1>13 DEF SortedNext, Deliver, NoRefs
    <2>2. QED BY <1>2, <2>1 DEF Bounded
  <1>14. CASE ArrayEnds \/ SortedEnds \/ DictKeyFails \/ DictEnds \/ Unorderable
              \/ SortedKeyFails
    <2>1. /\ pc' = "iterEnd" /\ UNCHANGED <<len, size>>
          /\ index' = index \/ (index < len /\ index' = index + 1)
      BY <1>14, Zenon
      DEF ArrayEnds, SortedEnds, DictKeyFails, DictEnds, Unorderable, SortedKeyFails, Stop
    <2>2. QED BY <1>2, <2>1 DEF Bounded
  <1>15. CASE Keys \/ Packed
    <2>1. /\ pc' \in {"sort", "iterate"} /\ UNCHANGED <<len, index>> /\ size' \in {size, len}
      BY <1>15 DEF Keys, Packed
    <2>2. QED BY <2>1 DEF Bounded
  <1>16. CASE ItemEncoded
    <2>1. /\ pc' \in {"iterate", "iterEnd"} /\ UNCHANGED <<size, index>>
          /\ UNCHANGED len \/ len' \in 0..MaxItems
      BY <1>16, Zenon DEF ItemEncoded
    <2>2. QED BY <2>1 DEF Bounded
  <1>17. CASE IterEnd \/ EndTypeContext
    <2>1. pc' \in {"endTypeContext", "done"} /\ UNCHANGED container
      BY <1>17 DEF IterEnd, EndTypeContext
    <2>2. QED BY <2>1 DEF Bounded
  <1>18. CASE UNCHANGED vars BY <1>18 DEF vars, Bounded, Sorted
  <1>19. QED
    BY <1>4, <1>5, <1>6, <1>7, <1>8, <1>9, <1>10, <1>11, <1>12, <1>13, <1>14, <1>15,
       <1>16, <1>17, <1>18
    DEF Next, Step, BeginTypeContext, IterNext, Done

\* The steps before an item or the end: default may be called as often as level
\* allows, and the keys may have to be sorted.
Rank ==
  CASE pc = "call"                  -> 10
    [] pc = "BEGIN"                 -> 9 - level
    [] pc = "iterate"               -> IF Sorted /\ slots["newObj"] = NULL THEN 5 ELSE 3
    [] pc \in {"sort", "item"}      -> 4
    [] pc \in {"string", "double", "iterEnd"} -> 2
    [] pc = "endTypeContext"        -> 1
    [] OTHER                        -> 0

Fuel == 2 * (MaxItems - index) + Rank

LEMMA RankRange ==
  /\ TypeOK => Rank \in 0..10 /\ (pc = "BEGIN" => Rank \in 6..9)
  /\ TypeOK' => Rank' \in 0..10 /\ (pc' = "BEGIN" => Rank' \in 6..9)
PROOF
  <1>1. ASSUME NEW n \in 0..3 PROVE 9 - n \in 6..9 BY SMT
  <1>2. (TypeOK => level \in 0..3) /\ (TypeOK' => level' \in 0..3)
    BY DEF TypeOK, DEFAULT_FN_MAX_DEPTH
  <1>3. (TypeOK => 9 - level \in 6..9) /\ (TypeOK' => 9 - level' \in 6..9)
    BY <1>1, <1>2, Zenon
  <1>4. QED BY <1>3, SMT DEF Rank

LEMMA FuelType == ASSUME TypeOK, Bounded PROVE Fuel \in Nat
PROOF
  <1>1. index \in 0..MaxItems /\ MaxItems \in Nat BY TypeContextAssumption DEF Bounded
  <1>2. Rank \in Nat BY RankRange, SMT
  <1>3. QED BY <1>1, <1>2, SMT DEF Fuel

\* A step pays with the item it asks for.
LEMMA Spends ==
  ASSUME TypeOK, TypeOK', NEW d \in {0, 1}, index' = index + d, Rank' < Rank + 2 * d
  PROVE  Fuel' < Fuel
PROOF
  <1>1. index \in Nat /\ MaxItems \in Nat BY TypeContextAssumption DEF TypeOK
  <1>2. Rank \in Nat /\ Rank' \in Nat BY RankRange, SMT
  <1>3. Fuel' = 2 * (MaxItems - index') + Rank' BY DEF Fuel
  <1>4. Fuel = 2 * (MaxItems - index) + Rank BY DEF Fuel
  <1>5. ASSUME NEW m \in Nat, NEW i \in Nat, NEW r \in Nat, NEW s \in Nat, s < r + 2 * d
        PROVE  2 * (m - (i + d)) + s < 2 * (m - i) + r
    BY <1>5, SMT
  <1>6. 2 * (MaxItems - (index + d)) + Rank' < 2 * (MaxItems - index) + Rank
    BY <1>1, <1>2, <1>5
  <1>7. QED BY <1>3, <1>4, <1>6

LEMMA StepSpends ==
  ASSUME TypeOK, TypeOK', Own, Bounded, Step
  PROVE  Fuel' < Fuel
PROOF
  <1>1. index \in Nat /\ 0 \in {0, 1} /\ 1 \in {0, 1} BY DEF TypeOK
  <1>2. UNCHANGED index => index' = index + 0 BY <1>1, SMT
  <1>3. Rank \in 0..10 /\ Rank' \in 0..10 /\ (pc = "BEGIN" => Rank \in 6..9) BY RankRange
  <1>4. ASSUME UNCHANGED index, Rank' < Rank PROVE Fuel' < Fuel
    <2>1. Rank' < Rank + 2 * 0 BY <1>3, <1>4, SMT
    <2>2. QED BY <1>1, <1>2, <1>4, <2>1, Spends
  <1>5. ASSUME pc = "BEGIN", UNCHANGED index \/ index' = 0,
               pc' \in {"done", "string", "double", "endTypeContext", "iterate"}
        PROVE  Fuel' < Fuel
    <2>1. UNCHANGED index BY <1>5 DEF Bounded
    <2>2. Rank' \in 0..5 BY <1>5 DEF Rank
    <2>3. Rank' < Rank BY <1>3, <1>5, <2>2, SMT
    <2>4. QED BY <1>4, <2>1, <2>3
  <1> USE DEF context, container
  <1>6. CASE NoContext
    <2>1. pc = "call" /\ pc' = "done" /\ UNCHANGED index BY <1>6 DEF NoContext
    <2>2. Rank = 10 /\ Rank' = 0 BY <2>1 DEF Rank
    <2>3. QED BY <1>4, <2>1, <2>2
  <1>7. CASE Begin
    <2>1. pc = "call" /\ pc' = "BEGIN" /\ UNCHANGED index BY <1>7 DEF Begin
    <2>2. Rank = 10 BY <2>1 DEF Rank
    <2>3. Rank' \in 6..9 BY <2>1, RankRange
    <2>4. Rank' < Rank BY <2>2, <2>3, SMT
    <2>5. QED BY <1>4, <2>1, <2>4
  <1>8. CASE Scalar \/ PyLong \/ Json \/ ListOrTuple \/ Dict \/ ToDict
    <2>1. /\ pc = "BEGIN"
          /\ UNCHANGED index \/ index' = 0
          /\ \E t : Begun(t)
      BY <1>8, Zenon DEF Scalar, PyLong, Json, ListOrTuple, Dict, ToDict, SetupDictIter
    <2>2. pc' \in {"string", "double", "endTypeContext", "iterate"} BY <2>1 DEF Begun
    <2>3. QED BY <1>5, <2>1, <2>2
  <1>9. CASE RejectBytes \/ PyLongRefused \/ MethodFails \/ DefaultFails \/ NotSerializable
    <2>1. pc = "BEGIN" /\ \E e : INVALID(e)
      BY <1>9, Zenon
      DEF RejectBytes, PyLongRefused, MethodFails, DefaultFails, NotSerializable
    <2>2. pc' = "done" /\ UNCHANGED index BY <2>1 DEF INVALID
    <2>3. QED BY <1>5, <2>1, <2>2
  <1>10. CASE CallDefault
    <2>1. pc = "BEGIN" /\ pc' = "BEGIN" /\ level' = level + 1 /\ UNCHANGED index
      BY <1>10 DEF CallDefault
    <2>2. Rank = 9 - level /\ Rank' = 9 - (level + 1) BY <2>1 DEF Rank
    <2>3. level \in Nat BY DEF TypeOK, DEFAULT_FN_MAX_DEPTH
    <2>4. Rank' < Rank BY <2>2, <2>3, SMT
    <2>5. QED BY <1>4, <2>1, <2>4
  <1>11. CASE GetStringValue \/ StringUnavailable \/ GetDoubleValue
    <2>1. pc \in {"string", "double"} /\ pc' \in {"endTypeContext", "abandoned"} /\ UNCHANGED index
      BY <1>11 DEF GetStringValue, StringUnavailable, GetDoubleValue
    <2>2. Rank = 2 /\ Rank' \in {0, 1} BY <2>1 DEF Rank
    <2>3. QED BY <1>4, <2>1, <2>2
  <1>12. CASE ArrayNext \/ DictNext \/ SortedNext
    <2>1. pc = "iterate" /\ pc' = "item" /\ index' = index + 1
      BY <1>12 DEF ArrayNext, DictNext, SortedNext, Unsorted, Deliver
    <2>2. ~(Sorted /\ slots["newObj"] = NULL)
      BY <1>12 DEF ArrayNext, DictNext, SortedNext, Unsorted, Sorted
    <2>3. Rank = 3 /\ Rank' = 4 BY <2>1, <2>2 DEF Rank
    <2>4. Rank' < Rank + 2 * 1 BY <2>3, SMT
    <2>5. QED BY <1>1, <2>1, <2>4, Spends
  <1>13. CASE ArrayEnds \/ SortedEnds \/ DictKeyFails \/ DictEnds \/ Unorderable
              \/ SortedKeyFails
    <2>1. /\ pc \in {"iterate", "sort"} /\ pc' = "iterEnd"
          /\ index' = index \/ index' = index + 1
      BY <1>13, Zenon
      DEF ArrayEnds, SortedEnds, DictKeyFails, DictEnds, Unorderable, SortedKeyFails, Stop,
          Unsorted
    <2>2. Rank \in 3..5 /\ Rank' = 2 BY <2>1 DEF Rank
    <2>3. \A d \in {0, 1} : Rank' < Rank + 2 * d BY <2>2, SMT
    <2>4. QED BY <1>1, <1>2, <2>1, <2>3, Spends
  <1>14. CASE Keys
    <2>1. /\ pc = "iterate" /\ pc' = "sort" /\ UNCHANGED index
          /\ Sorted /\ slots["newObj"] = NULL
      BY <1>14 DEF Keys
    <2>2. Rank = 5 /\ Rank' = 4 BY <2>1 DEF Rank
    <2>3. QED BY <1>4, <2>1, <2>2
  <1>15. CASE Packed
    <2>1. pc = "sort" /\ pc' = "iterate" /\ UNCHANGED index BY <1>15 DEF Packed
    <2>2. slots'["newObj"] = slots["items"]
      <3>1. Account([items |-> NULL, newObj |-> slots.items], {}, {}) BY <1>15 DEF Packed
      <3>2. QED BY <3>1 DEF Account, Slots
    <2>3. slots["items"] # NULL BY <2>1 DEF Own, Used
    <2>4. Rank = 4 /\ Rank' = 3 BY <2>1, <2>2, <2>3 DEF Rank
    <2>5. QED BY <1>4, <2>1, <2>4
  <1>16. CASE ItemEncoded
    <2>1. /\ pc = "item" /\ pc' \in {"iterate", "iterEnd"}
          /\ UNCHANGED <<index, slots, type, enc>>
      BY <1>16, Zenon DEF ItemEncoded, NoRefs
    <2>2. ~(Sorted' /\ slots'["newObj"] = NULL) BY <2>1 DEF Bounded, Sorted
    <2>3. Rank = 4 /\ Rank' \in {2, 3} BY <2>1, <2>2 DEF Rank
    <2>4. QED BY <1>4, <2>1, <2>3
  <1>17. CASE IterEnd
    <2>1. pc = "iterEnd" /\ pc' = "endTypeContext" /\ UNCHANGED index BY <1>17 DEF IterEnd
    <2>2. Rank = 2 /\ Rank' = 1 BY <2>1 DEF Rank
    <2>3. QED BY <1>4, <2>1, <2>2
  <1>18. CASE EndTypeContext
    <2>1. pc = "endTypeContext" /\ pc' = "done" /\ UNCHANGED index
      BY <1>18 DEF EndTypeContext
    <2>2. Rank = 1 /\ Rank' = 0 BY <2>1 DEF Rank
    <2>3. QED BY <1>4, <2>1, <2>2
  <1>19. QED
    BY <1>6, <1>7, <1>8, <1>9, <1>10, <1>11, <1>12, <1>13, <1>14, <1>15, <1>16, <1>17,
       <1>18
    DEF Step, BeginTypeContext, IterNext

\* default is asked a bounded number of times, and each iteration ends whatever user
\* code does to the container while an item of it is encoded (MaxItems bounds the
\* container): at most two steps for each item, and ten.
THEOREM StepsCorrect == Spec => [](Fuel \in Nat) /\ [][Fuel' < Fuel]_vars
PROOF
  <1>1. Init => Invariant /\ Bounded BY InitInvariant, InitBounded
  <1>2. Invariant /\ Bounded /\ [Next]_vars => (Invariant /\ Bounded)'
    BY NextInvariant, NextBounded
  <1>3. Invariant /\ Bounded => Fuel \in Nat BY FuelType DEF Invariant
  <1>4. Invariant /\ Invariant' /\ Bounded /\ [Next]_vars => [Fuel' < Fuel]_vars
    BY StepSpends DEF Invariant, Next, Done
  <1>5. QED BY <1>1, <1>2, <1>3, <1>4, PTL DEF Spec
=============================================================================
