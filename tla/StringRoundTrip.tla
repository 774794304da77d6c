--------------------------- MODULE StringRoundTrip ---------------------------
(***************************************************************************)
(* Strings through the encoder and back: EscapeString escapes a string,    *)
(* and DecodeString decodes what it wrote between quotes.  DecodeString is *)
(* also given texts from elsewhere.  Its variables have a d in front.      *)
(***************************************************************************)
EXTENDS EscapeString

CONSTANTS
  Documents,     \* the texts from elsewhere
  StackLen, AllocFails

VARIABLES
  turn,
  dtext, dpc, dstart, doffset, descLen, descHeap, dblocks, desc, dlastHigh,
  derrorStr, ddecoded, dreach

D == INSTANCE DecodeString WITH
  Texts <- Documents,
  text <- dtext, pc <- dpc, start <- dstart, offset <- doffset,
  escLen <- descLen, escHeap <- descHeap, blocks <- dblocks, esc <- desc,
  lastHigh <- dlastHigh, errorStr <- derrorStr, decoded <- ddecoded,
  reach <- dreach

decoderVars == <<dtext, dpc, dstart, doffset, descLen, descHeap, dblocks, desc,
                 dlastHigh, derrorStr, ddecoded, dreach>>
allVars == <<turn, vars, decoderVars>>

ASSUME DocumentsAssumption == D!Constants /\ \A t \in Documents : D!Meaning(t)

\* What the one that is not called is given.
NoString == [bytes |-> <<>>, says |-> <<>>, wellFormed |-> FALSE,
             truncated |-> FALSE, overlong |-> FALSE]
AllOptions == [forceASCII |-> TRUE, encodeHTMLChars |-> TRUE, escapeForwardSlashes |-> TRUE]
NoText == [bytes |-> <<34, 0>>, readings |-> <<>>, wellFormed |-> FALSE]

RoundTripInit ==
  \/ /\ turn = "escape"
     /\ Init
     /\ dtext = NoText /\ D!Start
  \/ /\ turn = "decode"
     /\ text = NoString /\ options = AllOptions /\ Start
     /\ D!Init

EscapeTurn == turn = "escape" /\ Step /\ UNCHANGED <<turn, decoderVars>>

\* The string is the whole document.
Handover ==
  /\ turn = "escape" /\ pc = "done"
  /\ turn' = "read back"
  /\ dtext' = [NoText EXCEPT !.bytes =
                 <<34>> \o FlattenSeq([i \in DOMAIN out |-> Bytes(out[i])]) \o <<34, 0>>]
  /\ UNCHANGED <<vars, dpc, dstart, doffset, descLen, descHeap, dblocks, desc,
                 dlastHigh, derrorStr, ddecoded, dreach>>

DecodeTurn == turn # "escape" /\ D!Step /\ UNCHANGED <<turn, vars>>

Ended ==
  /\ pc \in {"failed", "outside"} \/ dpc = "done"
  /\ UNCHANGED allVars

RoundTripNext == EscapeTurn \/ Handover \/ DecodeTurn \/ Ended

RoundTripSpec == RoundTripInit /\ [][RoundTripNext]_allVars

-----------------------------------------------------------------------------
(* Properties. *)

\* A string that is UTF-8 is escaped without an error, under all options, and
\* loads reads the same string back.  This is so up to surrogates, which dumps
\* writes one by one and loads combines.
ReadsBack ==
  /\ EscapesUtf8
  /\ text.wellFormed /\ turn = "read back" /\ dpc = "done" /\ derrorStr # "memory" =>
       derrorStr = "none" /\ [i \in DOMAIN ddecoded |-> InUtf16(ddecoded[i])] = <<InUtf16(text.says)>>

\* The properties of DecodeString, for the escaped strings ...
StaysInside == D!StaysInside
BufferFreed == D!BufferFreed

\* ... or for the documents alone; see there.
DecodesExactly == turn = "decode" => D!DecodesExactly
RejectsMalformed == turn = "decode" => D!RejectsMalformed
=============================================================================
