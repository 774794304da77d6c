------------------------------ MODULE Callbacks ------------------------------
(***************************************************************************)
(* One type context as encode sees it: beginTypeContext, then either the   *)
(* text of a string or the items of a container, then endTypeContext.      *)
(* This is what TypeContext is to implement and Encoder relies on.         *)
(***************************************************************************)
EXTENDS CallbackContract

VARIABLES phase, type, err

abstractVars == <<phase, type, err>>

Init ==
  /\ phase = "idle"
  /\ type = "INVALID"
  /\ err \in Exceptions \cup {"none"}

PhaseOf(t) ==
  CASE t \in Containers      -> "iterate"
    [] t \in {"UTF8", "RAW"} -> "string"
    [] t = "DOUBLE"          -> "double"
    [] t = "INVALID"         -> "done"
    [] OTHER                 -> "closing"

BeginTypeContext ==
  /\ phase = "idle"
  /\ \E o \in BeginOutcomes(err) :
       type' = o.type /\ err' = o.err /\ phase' = PhaseOf(o.type)

\* beginTypeContext of NULL makes no context.
BeginNull ==
  /\ phase = "idle"
  /\ phase' = "done"
  /\ UNCHANGED <<type, err>>

GetStringValue ==
  /\ phase = "string"
  /\ phase' = "closing"
  /\ UNCHANGED <<type, err>>

\* After NULL encode does not call endTypeContext.
StringUnavailable ==
  /\ phase = "string"
  /\ err' \in StringErrors(type)
  /\ phase' = "done"
  /\ UNCHANGED type

\* encode goes on and calls endTypeContext whether or not it has raised.
GetDoubleValue ==
  /\ phase = "double"
  /\ err' \in {err} \cup DoubleErrors(type)
  /\ phase' = "closing"
  /\ UNCHANGED type

IterNext ==
  /\ phase = "iterate"
  /\ \E a \in ItemAnswers(type, err) : err' = a.err
  /\ phase' = "item"
  /\ UNCHANGED type

IterationEnds ==
  /\ phase = "iterate"
  /\ err' \in {err} \cup EarlyEnds(type, err) \cup IterErrors(type)
  /\ phase' = "closing"
  /\ UNCHANGED type

\* encode has been called for the item; an error there closes this context.
ItemEncoded ==
  /\ phase = "item"
  /\ phase' \in {"iterate", "closing"}
  /\ err' \in Exceptions \cup {"none"}
  /\ UNCHANGED type

EndTypeContext ==
  /\ phase = "closing"
  /\ phase' = "done"
  /\ UNCHANGED <<type, err>>

Next ==
  \/ BeginTypeContext \/ BeginNull
  \/ GetStringValue \/ StringUnavailable \/ GetDoubleValue
  \/ IterNext \/ IterationEnds \/ ItemEncoded
  \/ EndTypeContext

Spec == Init /\ [][Next]_abstractVars
=============================================================================
