---------------------------- MODULE ModuleProofs ----------------------------
(***************************************************************************)
(* The functions of the Python module and its state.  Whatever fails in a  *)
(* call of dumps, dump, loads or load, it returns NULL only with an        *)
(* exception, keeps what it uses and leaves nothing behind.  The class     *)
(* that loads raises and the type that dumps compares with are alive and   *)
(* right in any number of interpreters, in whatever order they import the  *)
(* module and end.                                                         *)
(***************************************************************************)
EXTENDS EntryPoints, ModuleState, TLAPS

Encoding == fn \in {"dumps", "dump"}

\* What a file function holds while objToJSON or JSONToObj runs for it.
Outer ==
  CASE fn = "dump" -> {"method", "argtuple"}
    [] fn = "load" -> {"string", "argtuple"}
    [] OTHER       -> {}

\* A call is for text or for a value.
Direction ==
  /\ pc \in {"options", "separators", "encode", "encoded", "decodeUTF8", "write"} => Encoding
  /\ pc \in {"arg", "decode", "decoded", "read"} => ~Encoding
  /\ pc = "read" => fn = "load"
  /\ pc = "write" => fn = "dump"
  /\ pc = "returned" => inner \in {"NULL", IF Encoding THEN "text" ELSE "value"}

\* What may be held at each point.
Held ==
  /\ pc = "call" => owned = {}
  /\ pc = "read" => owned = {"method"}
  /\ pc \in {"options", "separators", "arg"} => owned = Outer
  /\ pc = "encode" => owned \subseteq Outer \cup {"item", "key"}
  /\ pc = "encoded" => owned \subseteq Outer \cup {"item", "key", "block"}
  /\ pc = "decodeUTF8" => owned \subseteq Outer \cup {"block"}
  /\ pc = "decode" => owned \subseteq Outer \cup {"sarg"}
  /\ pc = "decoded" => owned \subseteq Outer \cup {"sarg", "value"}
  /\ pc = "returned" => owned \subseteq Outer \cup ({"text", "value"} \cap {inner})
  /\ pc = "write" => owned \subseteq {"method", "writeargs", "text"}
  /\ OnlyTextLeft

\* What was used is held, and is given up only when it is of no more use.
Used ==
  /\ pc \in {"call", "options", "separators", "read", "arg"} => uses = {}
  /\ pc \in {"returned", "write", "done"} => uses = {}
  /\ pc = "encode" => uses \subseteq {"item", "key"}
  /\ pc = "encoded" => uses \subseteq {"item", "key", "block"}
  /\ pc = "decodeUTF8" => uses \subseteq {"block"}
  /\ UsesOnlyHeld

\* Which exception is pending where, and why NULL is returned.
Reason ==
  /\ pc \in {"call", "options", "read", "arg", "decode", "decodeUTF8", "write"} => err = "none"
  /\ pc = "decoded" => error \/ err # "none" \/ "value" \in owned
  /\ pc = "returned" => /\ inner = "NULL" => err # "none"
                        /\ inner = "text" => err = "none"
  /\ NullHasException

IInv == TypeOK /\ Direction /\ Held /\ Used /\ Reason

LEMMA InitInvariant == Init => IInv
PROOF
  <1> SUFFICES ASSUME Init PROVE IInv OBVIOUS
  <1>1. TypeOK
    <2>1. error \in BOOLEAN BY DEF Init
    <2>2. QED BY <2>1 DEF Init, TypeOK, References, Results
  <1>2. Direction BY DEF Init, Direction
  <1>3. Held BY DEF Init, Held, OnlyTextLeft
  <1>4. Used BY DEF Init, Used, UsesOnlyHeld
  <1>5. Reason BY DEF Init, Reason, NullHasException
  <1>6. QED BY <1>1, <1>2, <1>3, <1>4, <1>5 DEF IInv

\* One action at a time.
LEMMA TypeStep == TypeOK /\ [Next]_vars => TypeOK'
PROOF
  <1> SUFFICES ASSUME TypeOK, [Next]_vars PROVE TypeOK' OBVIOUS
  <1> USE EntryAssumption DEF TypeOK, References, Results, AllFunctions
  <1>1. CASE UNCHANGED vars BY <1>1 DEF vars
  <1>2. CASE Refused BY <1>2 DEF Refused, Return, Hold
  <1>3. CASE Accepted BY <1>3 DEF Accepted, Hold
  <1>4. CASE ReadFails BY <1>4 DEF ReadFails, Return, Hold
  <1>5. CASE Read BY <1>5 DEF Read, Hold
  <1>6. CASE OptionsRefused BY <1>6 DEF OptionsRefused, InnerFails, InnerReturns, Hold
  <1>7. CASE Options BY <1>7 DEF Options
  <1>8. CASE DefaultSeparators BY <1>8 DEF DefaultSeparators
  <1>9. CASE SeparatorsRefused BY <1>9 DEF SeparatorsRefused, InnerFails, InnerReturns, Hold
  <1>10. CASE Separators BY <1>10 DEF Separators, Hold
  <1>11. CASE SeparatorMalformed BY <1>11 DEF SeparatorMalformed, InnerFails, InnerReturns, Hold
  <1>12. CASE Encode BY <1>12 DEF Encode, Hold
  <1>13. CASE Encoded BY <1>13 DEF Encoded, InnerReturns, Hold
  <1>14. CASE DecodeUTF8 BY <1>14 DEF DecodeUTF8, InnerReturns, Hold
  <1>15. CASE Arg BY <1>15 DEF Arg, Hold
  <1>16. CASE ArgRefused BY <1>16 DEF ArgRefused, InnerFails, InnerReturns, Hold
  <1>17. CASE Decode BY <1>17 DEF Decode, Hold
  <1>18. CASE Decoded BY <1>18 DEF Decoded, InnerReturns, Hold
  <1>19. CASE PassOn BY <1>19 DEF PassOn, Return, Hold, WithFile
  <1>20. CASE PackText BY <1>20 DEF PackText, Hold
  <1>21. CASE PackFails BY <1>21 DEF PackFails, Return, Hold
  <1>22. CASE WriteFails BY <1>22 DEF WriteFails, Return, Hold
  <1>23. CASE Write BY <1>23 DEF Write, Return, Hold
  <1>24. CASE Done BY <1>24, <1>1 DEF Done
  <1>25. QED BY <1>1, <1>2, <1>3, <1>4, <1>5, <1>6, <1>7, <1>8, <1>9, <1>10, <1>11, <1>12,
            <1>13, <1>14, <1>15, <1>16, <1>17, <1>18, <1>19, <1>20, <1>21, <1>22, <1>23, <1>24 DEF Next

\* The function called decides which way a call goes.
LEMMA DirectionStep == TypeOK /\ Direction /\ [Next]_vars => Direction'
PROOF
  <1> SUFFICES ASSUME TypeOK, Direction, [Next]_vars PROVE Direction' OBVIOUS
  <1> USE EntryAssumption DEF TypeOK, AllFunctions, Direction, Encoding
  <1>1. CASE UNCHANGED vars BY <1>1 DEF vars
  <1>2. CASE Refused BY <1>2 DEF Refused, Return, Hold
  <1>3. CASE Accepted BY <1>3 DEF Accepted, Hold
  <1>4. CASE ReadFails BY <1>4 DEF ReadFails, Return, Hold
  <1>5. CASE Read BY <1>5 DEF Read, Hold
  <1>6. CASE OptionsRefused BY <1>6 DEF OptionsRefused, InnerFails, InnerReturns, Hold
  <1>7. CASE Options BY <1>7 DEF Options
  <1>8. CASE DefaultSeparators BY <1>8 DEF DefaultSeparators
  <1>9. CASE SeparatorsRefused BY <1>9 DEF SeparatorsRefused, InnerFails, InnerReturns, Hold
  <1>10. CASE Separators BY <1>10 DEF Separators, Hold
  <1>11. CASE SeparatorMalformed BY <1>11 DEF SeparatorMalformed, InnerFails, InnerReturns, Hold
  <1>12. CASE Encode BY <1>12 DEF Encode, Hold
  <1>13. CASE Encoded BY <1>13 DEF Encoded, InnerReturns, Hold
  <1>14. CASE DecodeUTF8 BY <1>14 DEF DecodeUTF8, InnerReturns, Hold
  <1>15. CASE Arg BY <1>15 DEF Arg, Hold
  <1>16. CASE ArgRefused BY <1>16 DEF ArgRefused, InnerFails, InnerReturns, Hold
  <1>17. CASE Decode BY <1>17 DEF Decode, Hold
  <1>18. CASE Decoded BY <1>18 DEF Decoded, InnerReturns, Hold
  <1>19. CASE PassOn BY <1>19 DEF PassOn, Return, Hold, WithFile
  <1>20. CASE PackText BY <1>20 DEF PackText, Hold
  <1>21. CASE PackFails BY <1>21 DEF PackFails, Return, Hold
  <1>22. CASE WriteFails BY <1>22 DEF WriteFails, Return, Hold
  <1>23. CASE Write BY <1>23 DEF Write, Return, Hold
  <1>24. CASE Done BY <1>24, <1>1 DEF Done
  <1>25. QED BY <1>1, <1>2, <1>3, <1>4, <1>5, <1>6, <1>7, <1>8, <1>9, <1>10, <1>11, <1>12,
            <1>13, <1>14, <1>15, <1>16, <1>17, <1>18, <1>19, <1>20, <1>21, <1>22, <1>23, <1>24 DEF Next

\* Each way out gives up what was held at the place it leaves.
LEMMA HeldStep == TypeOK /\ Direction /\ Held /\ [Next]_vars => Held'
PROOF
  <1> SUFFICES ASSUME TypeOK, Direction, Held, [Next]_vars PROVE Held' OBVIOUS
  <1> USE EntryAssumption DEF TypeOK, AllFunctions, Direction, Encoding, Held, Outer, OnlyTextLeft
  <1>1. CASE UNCHANGED vars BY <1>1 DEF vars
  <1>2. CASE Refused BY <1>2 DEF Refused, Return, Hold
  <1>3. CASE Accepted BY <1>3 DEF Accepted, Hold
  <1>4. CASE ReadFails BY <1>4 DEF ReadFails, Return, Hold
  <1>5. CASE Read BY <1>5 DEF Read, Hold
  <1>6. CASE OptionsRefused BY <1>6 DEF OptionsRefused, InnerFails, InnerReturns, Hold
  <1>7. CASE Options BY <1>7 DEF Options
  <1>8. CASE DefaultSeparators BY <1>8 DEF DefaultSeparators
  <1>9. CASE SeparatorsRefused BY <1>9 DEF SeparatorsRefused, InnerFails, InnerReturns, Hold
  <1>10. CASE Separators BY <1>10 DEF Separators, Hold
  <1>11. CASE SeparatorMalformed BY <1>11 DEF SeparatorMalformed, InnerFails, InnerReturns, Hold
  <1>12. CASE Encode BY <1>12 DEF Encode, Hold
  <1>13. CASE Encoded BY <1>13 DEF Encoded, InnerReturns, Hold
  <1>14. CASE DecodeUTF8 BY <1>14 DEF DecodeUTF8, InnerReturns, Hold
  <1>15. CASE Arg BY <1>15 DEF Arg, Hold
  <1>16. CASE ArgRefused BY <1>16 DEF ArgRefused, InnerFails, InnerReturns, Hold
  <1>17. CASE Decode BY <1>17 DEF Decode, Hold
  <1>18. CASE Decoded
    <2>1. CASE error BY <1>18, <2>1 DEF Decoded, InnerReturns, Hold
    <2>2. CASE ~error /\ "value" \in owned BY <1>18, <2>2 DEF Decoded, InnerReturns, Hold
    <2>3. CASE ~error /\ "value" \notin owned BY <1>18, <2>3 DEF Decoded, InnerReturns, Hold
    <2>4. QED BY <2>1, <2>2, <2>3
  <1>19. CASE PassOn BY <1>19 DEF PassOn, Return, Hold, WithFile
  <1>20. CASE PackText BY <1>20 DEF PackText, Hold
  <1>21. CASE PackFails BY <1>21 DEF PackFails, Return, Hold
  <1>22. CASE WriteFails BY <1>22 DEF WriteFails, Return, Hold
  <1>23. CASE Write BY <1>23 DEF Write, Return, Hold
  <1>24. CASE Done BY <1>24, <1>1 DEF Done
  <1>25. QED BY <1>1, <1>2, <1>3, <1>4, <1>5, <1>6, <1>7, <1>8, <1>9, <1>10, <1>11, <1>12,
            <1>13, <1>14, <1>15, <1>16, <1>17, <1>18, <1>19, <1>20, <1>21, <1>22, <1>23, <1>24 DEF Next

\* Nothing is given up while it is used.
LEMMA UsedStep == TypeOK /\ Direction /\ Held /\ Used /\ [Next]_vars => Used'
PROOF
  <1> SUFFICES ASSUME TypeOK, Direction, Held, Used, [Next]_vars PROVE Used' OBVIOUS
  <1> USE EntryAssumption
      DEF TypeOK, AllFunctions, Direction, Encoding, Held, Outer, Used, UsesOnlyHeld
  <1>1. CASE UNCHANGED vars BY <1>1 DEF vars
  <1>2. CASE Refused BY <1>2 DEF Refused, Return, Hold
  <1>3. CASE Accepted BY <1>3 DEF Accepted, Hold
  <1>4. CASE ReadFails BY <1>4 DEF ReadFails, Return, Hold
  <1>5. CASE Read BY <1>5 DEF Read, Hold
  <1>6. CASE OptionsRefused BY <1>6 DEF OptionsRefused, InnerFails, InnerReturns, Hold
  <1>7. CASE Options BY <1>7 DEF Options
  <1>8. CASE DefaultSeparators BY <1>8 DEF DefaultSeparators
  <1>9. CASE SeparatorsRefused BY <1>9 DEF SeparatorsRefused, InnerFails, InnerReturns, Hold
  <1>10. CASE Separators BY <1>10 DEF Separators, Hold
  <1>11. CASE SeparatorMalformed BY <1>11 DEF SeparatorMalformed, InnerFails, InnerReturns, Hold
  <1>12. CASE Encode BY <1>12 DEF Encode, Hold
  <1>13. CASE Encoded BY <1>13 DEF Encoded, InnerReturns, Hold
  <1>14. CASE DecodeUTF8 BY <1>14 DEF DecodeUTF8, InnerReturns, Hold
  <1>15. CASE Arg BY <1>15 DEF Arg, Hold
  <1>16. CASE ArgRefused BY <1>16 DEF ArgRefused, InnerFails, InnerReturns, Hold
  <1>17. CASE Decode BY <1>17 DEF Decode, Hold
  <1>18. CASE Decoded BY <1>18 DEF Decoded, InnerReturns, Hold
  <1>19. CASE PassOn BY <1>19 DEF PassOn, Return, Hold, WithFile
  <1>20. CASE PackText BY <1>20 DEF PackText, Hold
  <1>21. CASE PackFails BY <1>21 DEF PackFails, Return, Hold
  <1>22. CASE WriteFails BY <1>22 DEF WriteFails, Return, Hold
  <1>23. CASE Write BY <1>23 DEF Write, Return, Hold
  <1>24. CASE Done BY <1>24, <1>1 DEF Done
  <1>25. QED BY <1>1, <1>2, <1>3, <1>4, <1>5, <1>6, <1>7, <1>8, <1>9, <1>10, <1>11, <1>12,
            <1>13, <1>14, <1>15, <1>16, <1>17, <1>18, <1>19, <1>20, <1>21, <1>22, <1>23, <1>24 DEF Next

\* Each way to NULL has an exception, or sets one.
LEMMA ReasonStep == TypeOK /\ Direction /\ Reason /\ [Next]_vars => Reason'
PROOF
  <1> SUFFICES ASSUME TypeOK, Direction, Reason, [Next]_vars PROVE Reason' OBVIOUS
  <1> USE EntryAssumption DEF TypeOK, AllFunctions, Direction, Encoding, Reason, NullHasException
  <1>1. CASE UNCHANGED vars BY <1>1 DEF vars
  <1>2. CASE Refused BY <1>2 DEF Refused, Return, Hold
  <1>3. CASE Accepted BY <1>3 DEF Accepted, Hold
  <1>4. CASE ReadFails BY <1>4 DEF ReadFails, Return, Hold
  <1>5. CASE Read BY <1>5 DEF Read, Hold
  <1>6. CASE OptionsRefused BY <1>6 DEF OptionsRefused, InnerFails, InnerReturns, Hold
  <1>7. CASE Options BY <1>7 DEF Options
  <1>8. CASE DefaultSeparators BY <1>8 DEF DefaultSeparators
  <1>9. CASE SeparatorsRefused BY <1>9 DEF SeparatorsRefused, InnerFails, InnerReturns, Hold
  <1>10. CASE Separators BY <1>10 DEF Separators, Hold
  <1>11. CASE SeparatorMalformed BY <1>11 DEF SeparatorMalformed, InnerFails, InnerReturns, Hold
  <1>12. CASE Encode BY <1>12 DEF Encode, Hold
  <1>13. CASE Encoded BY <1>13 DEF Encoded, InnerReturns, Hold
  <1>14. CASE DecodeUTF8 BY <1>14 DEF DecodeUTF8, InnerReturns, Hold
  <1>15. CASE Arg BY <1>15 DEF Arg, Hold
  <1>16. CASE ArgRefused BY <1>16 DEF ArgRefused, InnerFails, InnerReturns, Hold
  <1>17. CASE Decode BY <1>17 DEF Decode, Hold
  <1>18. CASE Decoded BY <1>18 DEF Decoded, InnerReturns, Hold
  <1>19. CASE PassOn BY <1>19 DEF PassOn, Return, Hold, WithFile
  <1>20. CASE PackText BY <1>20 DEF PackText, Hold
  <1>21. CASE PackFails BY <1>21 DEF PackFails, Return, Hold
  <1>22. CASE WriteFails BY <1>22 DEF WriteFails, Return, Hold
  <1>23. CASE Write BY <1>23 DEF Write, Return, Hold
  <1>24. CASE Done BY <1>24, <1>1 DEF Done
  <1>25. QED BY <1>1, <1>2, <1>3, <1>4, <1>5, <1>6, <1>7, <1>8, <1>9, <1>10, <1>11, <1>12,
            <1>13, <1>14, <1>15, <1>16, <1>17, <1>18, <1>19, <1>20, <1>21, <1>22, <1>23, <1>24 DEF Next

LEMMA NextInvariant == IInv /\ [Next]_vars => IInv'
PROOF
  BY TypeStep, DirectionStep, HeldStep, UsedStep, ReasonStep DEF IInv

LEMMA Invariance == Spec => []IInv
PROOF
  BY InitInvariant, NextInvariant, PTL DEF Spec

\* The variables of a call have the types that the code gives them.
THEOREM TypeCorrect == Spec => []TypeOK
PROOF
  <1>1. IInv => TypeOK BY DEF IInv
  <1>2. QED BY Invariance, <1>1, PTL

\* NULL always comes with an exception, whichever of the three channels of
\* errors reported it; dumps and dump return nothing else with one pending.
THEOREM NullCorrect == Spec => []NullHasException
PROOF
  <1>1. IInv => NullHasException BY DEF IInv, Reason
  <1>2. QED BY Invariance, <1>1, PTL

\* A call leaves what it returns, but for the text that dump failed to write.
THEOREM LeftCorrect == Spec => []OnlyTextLeft
PROOF
  <1>1. IInv => OnlyTextLeft BY DEF IInv, Held
  <1>2. QED BY Invariance, <1>1, PTL

\* Separators, argument and block outlive the code that works on them.
THEOREM UsesCorrect == Spec => []UsesOnlyHeld
PROOF
  <1>1. IInv => UsesOnlyHeld BY DEF IInv, Used
  <1>2. QED BY Invariance, <1>1, PTL

-----------------------------------------------------------------------------
(* The state of the module, for several interpreters.                      *)

\* The references to an interpreter's class and its type of Decimal follow from
\* where its module is, and the class in the variable is that of some import.
Counted ==
  \A i \in Interpreters :
    /\ module[i] = "none" => refs[i] = 0
    /\ module[i] = "loaded" => refs[i] = 2
    /\ module[i] = "cleared" => refs[i] = 1
    /\ type_decimal[i] = IF module[i] = "loaded" /\ i \in Decimals THEN i ELSE NULL

Defined ==
  /\ JSONDecodeError # NULL => module[JSONDecodeError] # "none"
  /\ JSONDecodeError = NULL /\ ~importFailed => \A i \in Interpreters : module[i] = "none"
  /\ importFailed => JSONDecodeError = NULL

StateInv == StateTypeOK /\ Counted /\ Defined

LEMMA InitState == StateInit => StateInv
PROOF
  <1> SUFFICES ASSUME StateInit PROVE StateInv OBVIOUS
  <1>1. asked \in [by : Names, is : BOOLEAN] BY Zenon DEF StateInit, Names
  <1>5. importFailed \in BOOLEAN BY Zenon DEF StateInit
  <1>2. StateTypeOK BY <1>1, <1>5, SMT DEF StateInit, StateTypeOK, Names
  <1>3. Counted /\ Defined BY SMT DEF StateInit, Counted, Defined
  <1>4. QED BY <1>2, <1>3 DEF StateInv

LEMMA NextState == StateInv /\ [StateNext]_stateVars => StateInv'
PROOF
  <1> SUFFICES ASSUME StateInv, [StateNext]_stateVars PROVE StateInv' OBVIOUS
  <1>0. /\ StateTypeOK /\ Counted /\ Defined
        /\ Decimals \subseteq Interpreters /\ NULL \notin Interpreters
    BY ModuleAssumption DEF StateInv
  <1> USE <1>0
  <1>1. CASE UNCHANGED stateVars
    BY <1>1 DEF stateVars, StateInv, StateTypeOK, Counted, Defined
  <1>2. ASSUME NEW i \in Interpreters, Import(i)
        PROVE  StateInv'
    <2>5. importFailed' \in BOOLEAN BY <1>2, Zenon DEF Import
    <2>1. StateTypeOK' BY <1>2, <2>5, SMT DEF Import, StateTypeOK, Names
    <2>2. Counted' BY <1>2, SMT DEF Import, Counted, StateTypeOK
    <2>3. Defined' BY <1>2, SMT DEF Import, Defined, StateTypeOK
    <2>4. QED BY <2>1, <2>2, <2>3 DEF StateInv
  <1>3. ASSUME NEW i \in Interpreters, ImportFails(i)
        PROVE  StateInv'
    BY <1>3, SMT DEF ImportFails, StateInv, StateTypeOK, Names, Counted, Defined
  <1>4. ASSUME NEW i \in Interpreters, Clear(i)
        PROVE  StateInv'
    <2>1. refs[i] = 2 BY <1>4 DEF Clear, Counted
    <2>2. StateTypeOK' BY <1>4, <2>1, SMT DEF Clear, StateTypeOK, Names
    <2>3. Counted' BY <1>4, <2>1, SMT DEF Clear, Counted, StateTypeOK
    <2>4. Defined' BY <1>4, SMT DEF Clear, Defined, StateTypeOK, Names
    <2>5. QED BY <2>2, <2>3, <2>4 DEF StateInv
  <1>5. ASSUME NEW i \in Interpreters, IsDecimal(i)
        PROVE  StateInv'
    <2>1. asked' = [by |-> i, is |-> type_decimal[i] = i] BY <1>5 DEF IsDecimal
    <2>2. asked' \in [by : Names, is : BOOLEAN] BY <2>1, Zenon DEF Names
    <2>3. UNCHANGED <<module, type_decimal, JSONDecodeError, refs, importFailed>>
      BY <1>5 DEF IsDecimal
    <2>4. QED BY <2>2, <2>3, Zenon DEF StateInv, StateTypeOK, Counted, Defined
  <1>6. QED BY <1>1, <1>2, <1>3, <1>4, <1>5, Zenon DEF StateNext, ImportAgain

-----------------------------------------------------------------------------
\* The state of the modules is well typed; in particular no class is released
\* more often than it was referred to.
THEOREM StateTypeCorrect == StateSpec => []StateTypeOK
PROOF
  <1>1. StateInv => StateTypeOK BY DEF StateInv
  <1>2. QED BY <1>1, InitState, NextState, PTL DEF StateSpec

\* However many interpreters import the module and end: once one has, loads has
\* no class to raise exactly if the last import failed, in whichever
\* interpreter; otherwise the class in JSONDecodeError has a reference.
THEOREM ClassCorrect == StateSpec => []ClassAlive
PROOF
  <1>1. StateInv => ClassAlive
    <2> SUFFICES ASSUME StateInv, NEW i \in Interpreters, module[i] # "none"
                 PROVE  /\ JSONDecodeError = NULL <=> importFailed
                        /\ JSONDecodeError # NULL => refs[JSONDecodeError] > 0
      BY DEF ClassAlive
    <2>1. JSONDecodeError = NULL <=> importFailed BY DEF StateInv, Defined
    <2>2. ASSUME JSONDecodeError # NULL
          PROVE  refs[JSONDecodeError] > 0
      <3>1. JSONDecodeError \in Interpreters BY <2>2 DEF StateInv, StateTypeOK, Names
      <3>2. module[JSONDecodeError] \in {"loaded", "cleared"}
        BY <2>2, <3>1 DEF StateInv, StateTypeOK, Defined
      <3>3. refs[JSONDecodeError] \in {1, 2} BY <3>1, <3>2 DEF StateInv, Counted
      <3>4. QED BY <3>3, SMT
    <2>3. QED BY <2>1, <2>2
  <1>2. QED BY <1>1, InitState, NextState, PTL DEF StateSpec

\* object_is_decimal_type recognises a Decimal of its interpreter exactly where
\* decimal could be imported and until the module is cleared.
THEOREM DecimalCorrect == StateSpec => DecimalsRecognised
PROOF
  <1> DEFINE Right ==
        \A i \in Interpreters :
          IsDecimal(i) => asked'.is = (module[i] = "loaded" /\ i \in Decimals)
  <1>1. StateInv /\ [StateNext]_stateVars => [Right]_stateVars
    <2> SUFFICES ASSUME StateInv, NEW i \in Interpreters, IsDecimal(i)
                 PROVE  asked'.is = (module[i] = "loaded" /\ i \in Decimals)
      BY DEF StateInv
    <2>1. asked'.is = (type_decimal[i] = i) BY Zenon DEF IsDecimal
    <2>2. type_decimal[i] = i <=> module[i] = "loaded" /\ i \in Decimals
      BY ModuleAssumption DEF StateInv, Counted
    <2>3. QED BY <2>1, <2>2, Zenon
  <1>2. QED BY <1>1, InitState, NextState, PTL DEF StateSpec, DecimalsRecognised
=============================================================================
