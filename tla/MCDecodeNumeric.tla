-------------------------- MODULE MCDecodeNumeric --------------------------
(***************************************************************************)
(* A machine with 4-bit JSINT32 and 8-bit JSINT64: its boundaries are at   *)
(* 8, 128 and 256, so texts of five digits cross each of them and go on.   *)
(***************************************************************************)
EXTENDS DecodeNumeric
=============================================================================
