------------------------------ MODULE RoundTrip ------------------------------
(***************************************************************************)
(* ujson.loads(ujson.dumps(obj)): what the encoder has appended is the     *)
(* input of the decoder.  The variables of Decoder have a d in front.      *)
(***************************************************************************)
EXTENDS Encoder, FiniteSets

CONSTANT MaxDepth     \* JSON_MAX_OBJECT_DEPTH

ASSUME MaxDepthAssumption == MaxDepth \in Nat

VARIABLES
  turn,       \* whether dumps or loads is running
  dinput, dstart, dstack, dpc, dret, dlastType, dobjDepth, derrorStr, dpyErr,
  dmade, downed, dfault

D == INSTANCE Decoder WITH
  MaxLen <- 0, Known <- {<<>>},
  input <- dinput, start <- dstart, stack <- dstack, pc <- dpc, ret <- dret,
  lastType <- dlastType, objDepth <- dobjDepth, errorStr <- derrorStr,
  pyErr <- dpyErr, made <- dmade, owned <- downed, fault <- dfault

loadsVars == <<dinput, dstart, dstack, dpc, dret, dlastType, dobjDepth, derrorStr,
               dpyErr, dmade, downed, dfault>>
allVars == <<turn, vars, loadsVars>>

RoundTripInit ==
  /\ turn = "dumps"
  /\ Init
  /\ D!Init

Dumps == turn = "dumps" /\ Step /\ UNCHANGED <<turn, loadsVars>>

Handover ==
  /\ turn = "dumps" /\ pc = "done" /\ ret = "string"
  /\ turn' = "loads"
  /\ dinput' = Append(out, "eof")
  /\ UNCHANGED <<vars, dstart, dstack, dpc, dret, dlastType, dobjDepth,
                 derrorStr, dpyErr, dmade, downed, dfault>>

Loads == turn = "loads" /\ D!Step /\ UNCHANGED <<turn, vars>>

Ended ==
  /\ pc = "done" /\ (ret = "NULL" \/ dpc = "done")
  /\ UNCHANGED allVars

RoundTripNext == Dumps \/ Handover \/ Loads \/ Ended

RoundTripSpec == RoundTripInit /\ [][RoundTripNext]_allVars

-----------------------------------------------------------------------------
(* Properties. *)

Values == {i \in DOMAIN out : out[i] \in {"lbrack", "lbrace", "str", "atom"}}

\* How many of the first i lexemes are in cs, and how deep the text is there.
Count(i, cs) == Cardinality({j \in 1..i : out[j] \in cs})
DepthAt(i) == Count(i, {"lbrack", "lbrace"}) - Count(i, {"rbrack", "rbrace"})
Deeper == \E i \in DOMAIN out : DepthAt(i) > MaxDepth

\* loads refuses what dumps returned if it is nested deeper than the limit of
\* the decoder, which counts a container once it is entered.  Of all others it
\* makes one object for each container, name and scalar, and the call owns but
\* the result in the end.
ReadInFull ==
  dpc = "done" =>
    IF Deeper THEN derrorStr = "depth"
    ELSE D!Outcome = "value" /\ dmade = Cardinality(Values) /\ downed = {dret.ref}

\* If that limit is beyond the encoder's, which tests the depth before a
\* container is entered, loads accepts whatever dumps returns.
LoadsAccepts == dpc = "done" => D!Outcome = "value"
=============================================================================
