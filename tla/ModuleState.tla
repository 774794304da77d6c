---------------------------- MODULE ModuleState ----------------------------
(***************************************************************************)
(* PyInit_ujson, the module state and object_is_decimal_type of            *)
(* python/ujson.c (CPython), in a process with several interpreters.       *)
(* Each has a module object with a state of its own; JSONDecodeError is    *)
(* one C variable of the process.                                          *)
(***************************************************************************)
EXTENDS Naturals

CONSTANTS
  Interpreters,
  Decimals,      \* the interpreters that can import decimal
  ImportMayFail  \* whether PyModule_AddObject may fail

NULL == "NULL"
ASSUME ModuleAssumption ==
  /\ Decimals \subseteq Interpreters /\ NULL \notin Interpreters
  /\ ImportMayFail \in BOOLEAN

\* A class and a type are named after the interpreter they belong to.
VARIABLES
  module,           \* the interpreters' modules: "none", "loaded" or "cleared"
  type_decimal,     \* the field of each module's state
  JSONDecodeError,
  refs,             \* references to each interpreter's class
  importFailed,     \* history: whether the last import failed, in any interpreter
  asked             \* who asked object_is_decimal_type last of a Decimal of
                    \* its interpreter, and the answer

stateVars == <<module, type_decimal, JSONDecodeError, refs, importFailed, asked>>

Names == Interpreters \cup {NULL}
StateTypeOK ==
  /\ module \in [Interpreters -> {"none", "loaded", "cleared"}]
  /\ type_decimal \in [Interpreters -> Names]
  /\ JSONDecodeError \in Names
  /\ refs \in [Interpreters -> 0..2]
  /\ importFailed \in BOOLEAN
  /\ asked \in [by : Names, is : BOOLEAN]

StateInit ==
  /\ module = [i \in Interpreters |-> "none"]
  /\ type_decimal = [i \in Interpreters |-> NULL]
  /\ JSONDecodeError = NULL
  /\ refs = [i \in Interpreters |-> 0]
  /\ importFailed = FALSE
  /\ asked = [by |-> NULL, is |-> FALSE]

\* A module that PyState_FindModule finds is returned as it is.
ImportAgain(i) == module[i] = "loaded" /\ UNCHANGED stateVars

ImportOnce(i) ==          \* variant: the class belongs to the module alone
  /\ module[i] = "none"
  /\ module' = [module EXCEPT ![i] = "loaded"]
  /\ type_decimal' = [type_decimal EXCEPT ![i] = IF i \in Decimals THEN i ELSE NULL]
  /\ JSONDecodeError' = i
  /\ refs' = [refs EXCEPT ![i] = 1]
  /\ importFailed' = FALSE
  /\ UNCHANGED asked

ImportSharesDecimal(i) == \* variant: the type of the first import is used by all
  /\ module[i] = "none"
  /\ module' = [module EXCEPT ![i] = "loaded"]
  /\ type_decimal' = [j \in Interpreters |-> IF i \in Decimals THEN i ELSE type_decimal[j]]
  /\ JSONDecodeError' = i
  /\ refs' = [refs EXCEPT ![i] = 2]
  /\ importFailed' = FALSE
  /\ UNCHANGED asked

\* Without decimal no type is stored.  The class has one reference for the
\* module and one for the variable.
Import(i) ==
  /\ module[i] = "none"
  /\ module' = [module EXCEPT ![i] = "loaded"]
  /\ type_decimal' = [type_decimal EXCEPT ![i] = IF i \in Decimals THEN i ELSE NULL]
  /\ JSONDecodeError' = i
  /\ refs' = [refs EXCEPT ![i] = 2]
  /\ importFailed' = FALSE
  /\ UNCHANGED asked

\* PyModule_AddObject fails: the class, the variable and the module are given
\* up.  The variable is cleared for the modules of all interpreters.
ImportFails(i) ==
  /\ module[i] = "none" /\ ImportMayFail
  /\ JSONDecodeError' = NULL
  /\ importFailed' = TRUE
  /\ UNCHANGED <<module, type_decimal, refs, asked>>

\* module_clear, when the interpreter ends.
Clear(i) ==
  /\ module[i] = "loaded"
  /\ module' = [module EXCEPT ![i] = "cleared"]
  /\ type_decimal' = [type_decimal EXCEPT ![i] = NULL]
  /\ refs' = [refs EXCEPT ![i] = @ - 1]
  /\ UNCHANGED <<JSONDecodeError, importFailed, asked>>

\* Functions kept by the program work on after module_clear.
IsDecimal(i) ==
  /\ module[i] # "none"
  /\ asked' = [by |-> i, is |-> type_decimal[i] = i]
  /\ UNCHANGED <<module, type_decimal, JSONDecodeError, refs, importFailed>>

StateNext ==
  \E i \in Interpreters :
    \/ ImportAgain(i) \/ Import(i) \/ ImportFails(i) \/ Clear(i)
    \/ IsDecimal(i)

StateSpec == StateInit /\ [][StateNext]_stateVars

-----------------------------------------------------------------------------
(* Properties. *)

\* Once a module has been imported its loads has a class to raise, and the class
\* is alive, in whatever order interpreters import the module and end: the
\* variable has a reference of its own.  There is one exception, and it is exact:
\* an import that fails in one interpreter takes the class from the modules of
\* all, until an import succeeds.
ClassAlive ==
  (\E i \in Interpreters : module[i] # "none") =>
    /\ JSONDecodeError = NULL <=> importFailed
    /\ JSONDecodeError # NULL => refs[JSONDecodeError] > 0

\* Decimals are recognised where decimal could be imported and until the module
\* is cleared, whatever other interpreters do: the type is the interpreter's own.
DecimalsRecognised ==
  [][\A i \in Interpreters :
       IsDecimal(i) => asked'.is = (module[i] = "loaded" /\ i \in Decimals)]_stateVars
=============================================================================
