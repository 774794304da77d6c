--------------------------- MODULE DecoderProofs ---------------------------
(***************************************************************************)
(* Theorems about module Decoder, for every depth limit, every bound on    *)
(* the length of the input and every set of texts.                         *)
(***************************************************************************)
EXTENDS Decoder, SequenceTheorems, TLAPS

(***************************************************************************)
(* Where the parser is determines what it holds: the part of the inductive *)
(* invariant on the control state.                                         *)
(***************************************************************************)
Control ==
  /\ pc \in {"member", "delimiter", "colon"} => stack # <<>>
  /\ pc \in {"trailing", "done"} => stack = <<>>
  /\ pc \in {"decode_any", "member", "delimiter", "colon"} => ret = NULL
  /\ pc = "colon" => Top.fn = "object" /\ Top.name # NULL
  /\ pc \in {"member", "delimiter"} => Top.name = NULL
  /\ \A i \in 1..Len(stack) : /\ stack[i].obj # NULL
                              /\ stack[i].fn = "array" => stack[i].name = NULL
  /\ errorStr # "none" => Unwinding
  /\ Unwinding => errorStr # "none" \/ pyErr

IInv == TypeOK /\ Control /\ DepthBounded

LEMMA PeekInput ==
  ASSUME TypeOK, NEW c, Peek(c)
  PROVE  /\ input' \in Seq(Lexemes)
         /\ c \in Lexemes
PROOF
  <1>1. input \in Seq(Lexemes) /\ start \in Nat \ {0} BY DEF TypeOK
  <1>2. CASE start <= Len(input) /\ c = input[start] /\ UNCHANGED input
    BY <1>1, <1>2
  <1>3. CASE c \in Lexemes /\ input' = Append(input, c)
    BY <1>1, <1>3
  <1>4. QED BY <1>2, <1>3, Zenon DEF Peek

LEMMA PopStack ==
  ASSUME NEW S, NEW s \in Seq(S), s # <<>>
  PROVE  /\ SubSeq(s, 1, Len(s) - 1) \in Seq(S)
         /\ Len(SubSeq(s, 1, Len(s) - 1)) = Len(s) - 1
         /\ \A i \in 1..Len(s) - 1 : SubSeq(s, 1, Len(s) - 1)[i] = s[i]
         /\ s[Len(s)] \in S
         /\ Len(s) \in Nat \ {0}
PROOF
  <1>1. Len(s) \in Nat \ {0} /\ s[Len(s)] \in S BY EmptySeq, SMT
  <1>2. ASSUME NEW n \in Nat, n = Len(s) - 1
        PROVE  SubSeq(s, 1, n) \in Seq(S)
    BY <1>2, SMT
  <1>3. ASSUME NEW n \in Nat, n = Len(s) - 1
        PROVE  Len(SubSeq(s, 1, n)) = n
    BY <1>3, SMT
  <1>4. ASSUME NEW n \in Nat, n = Len(s) - 1
        PROVE  \A i \in 1..n : SubSeq(s, 1, n)[i] = s[i]
    BY <1>4, SMT
  <1>5. Len(s) - 1 \in Nat BY <1>1, SMT
  <1>6. QED BY <1>1, <1>2, <1>3, <1>4, <1>5, Zenon

LEMMA PushStack ==
  ASSUME NEW s \in Seq(Frame), NEW f \in Frame
  PROVE  /\ Append(s, f) \in Seq(Frame)
         /\ Len(Append(s, f)) = Len(s) + 1
         /\ \A i \in 1..Len(s) : Append(s, f)[i] = s[i]
         /\ Append(s, f)[Len(s) + 1] = f
PROOF BY SMT
\* objectAddKey and the name of a member change the name field of the top frame.
LEMMA SetName ==
  ASSUME NEW s \in Seq(Frame), s # <<>>, NEW o \in JSOBJ
  PROVE  LET t == [s EXCEPT ![Len(s)].name = o]
         IN  /\ t \in Seq(Frame)
             /\ Len(t) = Len(s)
             /\ t # <<>>
             /\ \A i \in 1..Len(s) - 1 : t[i] = s[i]
             /\ t[Len(s)] = [s[Len(s)] EXCEPT !.name = o]
PROOF
  <1> DEFINE t == [s EXCEPT ![Len(s)].name = o]
  <1>1. Len(s) \in Nat \ {0} /\ s[Len(s)] \in Frame BY EmptySeq, SMT
  <1>2. [s[Len(s)] EXCEPT !.name = o] \in Frame BY <1>1, SMT DEF Frame
  <1>3. t = [s EXCEPT ![Len(s)] = [s[Len(s)] EXCEPT !.name = o]] OBVIOUS
  <1> HIDE DEF t
  <1>4. /\ t \in Seq(Frame)
        /\ Len(t) = Len(s)
        /\ t # <<>>
        /\ \A i \in 1..Len(s) - 1 : t[i] = s[i]
        /\ t[Len(s)] = [s[Len(s)] EXCEPT !.name = o]
    BY <1>1, <1>2, <1>3, EmptySeq, ExceptSeq, SMT
  <1>5. QED BY <1>4 DEF t

\* A comma counts a member in the top frame.
LEMMA CountMember ==
  ASSUME NEW s \in Seq(Frame), s # <<>>
  PROVE  LET t == [s EXCEPT ![Len(s)].len = @ + 1]
         IN  /\ t \in Seq(Frame)
             /\ Len(t) = Len(s)
             /\ t # <<>>
             /\ \A i \in 1..Len(s) - 1 : t[i] = s[i]
             /\ t[Len(s)] = [s[Len(s)] EXCEPT !.len = @ + 1]
PROOF
  <1> DEFINE t == [s EXCEPT ![Len(s)].len = @ + 1]
  <1>1. Len(s) \in Nat \ {0} /\ s[Len(s)] \in Frame BY EmptySeq, SMT
  <1>2. [s[Len(s)] EXCEPT !.len = @ + 1] \in Frame BY <1>1, SMT DEF Frame
  <1>3. t = [s EXCEPT ![Len(s)] = [s[Len(s)] EXCEPT !.len = @ + 1]] OBVIOUS
  <1> HIDE DEF t
  <1>4. /\ t \in Seq(Frame)
        /\ Len(t) = Len(s)
        /\ t # <<>>
        /\ \A i \in 1..Len(s) - 1 : t[i] = s[i]
        /\ t[Len(s)] = [s[Len(s)] EXCEPT !.len = @ + 1]
    BY <1>1, <1>2, <1>3, EmptySeq, ExceptSeq, SMT
  <1>5. QED BY <1>4 DEF t

\* Giving up references never adds one.
LEMMA DropOwned ==
  ASSUME TypeOK, NEW objs, Drop(objs)
  PROVE  owned' \subseteq 1..made /\ fault' \in BOOLEAN
PROOF
  <1>1. owned' \subseteq owned /\ fault' \in BOOLEAN BY Zenon DEF Drop, TypeOK
  <1>2. QED BY <1>1 DEF TypeOK

\* What the frames on the stack and the frame an activation returns from are.
LEMMA StackFacts ==
  ASSUME TypeOK
  PROVE  /\ Len(stack) \in Nat
         /\ stack # <<>> => /\ Pop \in Seq(Frame)
                            /\ Len(Pop) = Len(stack) - 1
                            /\ \A i \in 1..Len(stack) - 1 : Pop[i] = stack[i]
                            /\ Top.obj \in JSOBJ /\ Top.name \in JSOBJ
                            /\ Len(stack) \in Nat \ {0}
PROOF
  <1>1. stack \in Seq(Frame) BY DEF TypeOK
  <1>2. Len(stack) \in Nat BY <1>1, SMT
  <1>3. CASE stack # <<>>
    <2>1. /\ Pop \in Seq(Frame)
          /\ Len(Pop) = Len(stack) - 1
          /\ \A i \in 1..Len(stack) - 1 : Pop[i] = stack[i]
          /\ Top \in Frame
          /\ Len(stack) \in Nat \ {0}
      BY <1>1, <1>3, PopStack DEF Pop, Top
    <2>2. Top.obj \in JSOBJ /\ Top.name \in JSOBJ BY <2>1 DEF Frame
    <2>3. QED BY <1>2, <2>1, <2>2
  <1>4. QED BY <1>2, <1>3

LEMMA InitInvariant == Init => IInv
PROOF
  <1> SUFFICES ASSUME Init PROVE IInv OBVIOUS
  <1> USE DEF Init, NULL
  <1>1. TypeOK
    <2>1. input \in Seq(Lexemes) BY KnownAssumption
    <2>2. stack \in Seq(Frame) BY EmptySeq
    <2>3. ret \in JSOBJ BY SMT DEF JSOBJ, Kinds
    <2>4. owned \subseteq 1..made BY SMT
    <2>5. pc \in Locations /\ errorStr \in Errors \cup {"none"} BY DEF Locations
    <2>6. start \in Nat \ {0} /\ objDepth \in Nat /\ made \in Nat BY SMT
    <2>7. pyErr \in BOOLEAN /\ fault \in BOOLEAN BY Zenon
    <2>8. QED BY <2>1, <2>2, <2>3, <2>4, <2>5, <2>6, <2>7 DEF TypeOK
  <1>2. Control BY DEF Control, Unwinding
  <1>3. DepthBounded BY DepthAssumption, SMT DEF DepthBounded, Unwinding
  <1>4. QED BY <1>1, <1>2, <1>3 DEF IInv

LEMMA NextInvariant == IInv /\ [Next]_vars => IInv'
PROOF
  <1> SUFFICES ASSUME IInv, [Next]_vars PROVE IInv' OBVIOUS
  <1> USE DEF IInv
  <1>0. /\ Len(stack) \in Nat
        /\ stack # <<>> => /\ Pop \in Seq(Frame)
                           /\ Len(Pop) = Len(stack) - 1
                           /\ \A i \in 1..Len(stack) - 1 : Pop[i] = stack[i]
                           /\ Top.obj \in JSOBJ /\ Top.name \in JSOBJ
                           /\ Len(stack) \in Nat \ {0}
    BY StackFacts
  <1>1. CASE SkipWhitespace
    <2> USE <1>0, <1>1 DEF SkipWhitespace
    <2>1. input' \in Seq(Lexemes) BY PeekInput
    <2>2. TypeOK'
      BY <2>1, SMT DEF TypeOK, Control, DepthBounded, Unwinding, Locations, Errors, JSOBJ, Kinds, NULL
    <2>3. Control'
      BY <2>2, SMT DEF TypeOK, Control, Unwinding, JSOBJ, NULL, Top
    <2>4. DepthBounded'
      BY DepthAssumption, SMT DEF TypeOK, Control, DepthBounded, Unwinding, NULL
    <2>5. QED BY <2>2, <2>3, <2>4
  <1>2. CASE DecodeScalar
    <2> USE <1>0, <1>2 DEF DecodeScalar, New, Return, Fresh
    <2>1. input' \in Seq(Lexemes) BY PeekInput
    <2>a. owned' \subseteq 1..made' /\ fault' \in BOOLEAN BY SMT DEF TypeOK
    <2>b. ret' \in JSOBJ BY SMT DEF TypeOK, JSOBJ, Kinds
    <2>2. TypeOK'
      BY <2>1, <2>a, <2>b, SMT DEF TypeOK, Locations
    <2>3. Control'
      BY <2>2, SMT DEF TypeOK, Control, Unwinding, JSOBJ, NULL, Top
    <2>4. DepthBounded'
      BY DepthAssumption, SMT DEF TypeOK, Control, DepthBounded, Unwinding, NULL
    <2>5. QED BY <2>2, <2>3, <2>4
  <1>3. CASE DecodeJunkNumber
    <2> USE <1>0, <1>3 DEF DecodeJunkNumber, New, Return, Fresh
    <2>1. input' \in Seq(Lexemes) BY PeekInput
    <2>2. TypeOK'
      BY <2>1, SMT DEF TypeOK, Control, DepthBounded, Unwinding, Locations, Errors, JSOBJ, Kinds, NULL
    <2>3. Control'
      BY <2>2, SMT DEF TypeOK, Control, Unwinding, JSOBJ, NULL, Top
    <2>4. DepthBounded'
      BY DepthAssumption, SMT DEF TypeOK, Control, DepthBounded, Unwinding, NULL
    <2>5. QED BY <2>2, <2>3, <2>4
  <1>4. CASE DecodeError
    <2> USE <1>0, <1>4 DEF DecodeError, SetError, Keep
    <2>1. input' \in Seq(Lexemes) BY PeekInput
    <2>2. TypeOK'
      BY <2>1, SMT DEF TypeOK, Control, DepthBounded, Unwinding, Locations, Errors, JSOBJ, Kinds, NULL
    <2>3. Control'
      BY <2>2, SMT DEF TypeOK, Control, Unwinding, JSOBJ, NULL, Top
    <2>4. DepthBounded'
      BY DepthAssumption, SMT DEF TypeOK, Control, DepthBounded, Unwinding, NULL
    <2>5. QED BY <2>2, <2>3, <2>4
  <1>5. CASE DecodeRaises
    <2> USE <1>0, <1>5 DEF DecodeRaises, Return, Keep
    <2>1. input' \in Seq(Lexemes) BY PeekInput
    <2>2. TypeOK'
      BY <2>1, SMT DEF TypeOK, Control, DepthBounded, Unwinding, Locations, Errors, JSOBJ, Kinds, NULL
    <2>3. Control'
      BY <2>2, SMT DEF TypeOK, Control, Unwinding, JSOBJ, NULL, Top
    <2>4. DepthBounded'
      BY DepthAssumption, SMT DEF TypeOK, Control, DepthBounded, Unwinding, NULL
    <2>5. QED BY <2>2, <2>3, <2>4
  <1>6. ASSUME NEW fn \in {"array", "object"}, NEW c, Enter(fn, c)
        PROVE  IInv'
    <2> USE <1>0, <1>6 DEF Enter, New, Fresh, DepthExceeded
    <2> DEFINE f == [fn |-> fn, obj |-> Fresh(fn), name |-> NULL, len |-> 0]
    <2>1. input' \in Seq(Lexemes) BY PeekInput
    <2>2. f \in Frame BY SMT DEF Frame, JSOBJ, Kinds, NULL, TypeOK
    <2>3. stack' = Append(stack, f) OBVIOUS
    <2> HIDE DEF f
    <2>4. stack \in Seq(Frame) BY DEF TypeOK
    <2>5. /\ stack' \in Seq(Frame)
          /\ Len(stack') = Len(stack) + 1
          /\ \A i \in 1..Len(stack) : stack'[i] = stack[i]
          /\ stack'[Len(stack')] = f
      BY <2>2, <2>3, <2>4, PushStack
    <2>6. f.name = NULL /\ f.obj # NULL BY SMT DEF f, NULL, TypeOK
    <2>7. TypeOK'
      BY <2>1, <2>5, SMT DEF TypeOK, Locations
    <2>8. stack' # <<>> BY <2>5, <2>7, SMT
    <2>9. Control'
      <3>1. \A i \in 1..Len(stack') : i \in 1..Len(stack) \/ i = Len(stack')
        BY <2>5, SMT
      <3>2. QED BY <2>5, <2>6, <2>8, <3>1, SMT DEF Control, Unwinding, Top
    <2>10. DepthBounded'
      BY <2>5, DepthAssumption, SMT DEF TypeOK, Control, DepthBounded, Unwinding
    <2>11. QED BY <2>7, <2>9, <2>10
  <1>7. ASSUME NEW c, TooDeep(c)
        PROVE  IInv'
    <2> USE <1>0, <1>7 DEF TooDeep, SetError, Keep, DepthExceeded
    <2>1. input' \in Seq(Lexemes) BY PeekInput
    <2>2. ret' \in JSOBJ BY SMT DEF JSOBJ, Kinds, NULL
    <2>3. TypeOK'
      BY <2>1, <2>2, SMT DEF TypeOK, Locations, Errors
    <2>4. Control'
      BY <2>3, SMT DEF TypeOK, Control, Unwinding, NULL
    <2>5. DepthBounded'
      BY DepthAssumption, SMT DEF TypeOK, Control, DepthBounded, Unwinding, NULL
    <2>6. QED BY <2>3, <2>4, <2>5
  <1>8. CASE CloseAtMember
    <2> USE <1>0, <1>8 DEF CloseAtMember, SetError, Return
    <2>1. input' \in Seq(Lexemes) BY PeekInput
    <2>d. owned' \subseteq 1..made /\ fault' \in BOOLEAN
      BY DropOwned DEF Keep, TypeOK
    <2>a. stack # <<>> BY SMT DEF Control
    <2>b. objDepth \in Nat /\ objDepth = Len(stack) BY DEF TypeOK, DepthBounded, Unwinding
    <2>c. ret' \in JSOBJ BY <2>a, SMT DEF JSOBJ, Kinds, NULL
    <2>2. TypeOK'
      BY <2>1, <2>a, <2>b, <2>c, <2>d, SMT DEF TypeOK, Locations, Errors
    <2>3. Control'
      <3>1. Top.obj # NULL BY <2>a, SMT DEF Control, Top
      <3>2. QED
        BY <2>a, <2>2, <3>1, SMT DEF Control, Unwinding
    <2>4. DepthBounded'
      BY DepthAssumption, SMT DEF TypeOK, Control, DepthBounded, Unwinding, NULL
    <2>5. QED BY <2>2, <2>3, <2>4
  <1>9. CASE BeginMember
    <2> USE <1>0, <1>9 DEF BeginMember, Keep
    <2>1. input' \in Seq(Lexemes) BY PeekInput
    <2>2. TypeOK'
      BY <2>1, SMT DEF TypeOK, Control, DepthBounded, Unwinding, Locations, Errors, JSOBJ, Kinds, NULL
    <2>3. Control'
      BY <2>2, SMT DEF TypeOK, Control, Unwinding, JSOBJ, NULL, Top
    <2>4. DepthBounded'
      BY DepthAssumption, SMT DEF TypeOK, Control, DepthBounded, Unwinding, NULL
    <2>5. QED BY <2>2, <2>3, <2>4
  <1>10. CASE Unwind
    <2> USE <1>0, <1>10 DEF Unwind
    <2>1. input' \in Seq(Lexemes) BY DEF TypeOK
    <2>d. owned' \subseteq 1..made /\ fault' \in BOOLEAN
      BY DropOwned DEF Keep, TypeOK
    <2>2. TypeOK'
      BY <2>1, <2>d, SMT DEF TypeOK, Control, DepthBounded, Unwinding, Locations, Errors, JSOBJ, Kinds, NULL
    <2>3. Control'
      BY <2>2, SMT DEF TypeOK, Control, Unwinding, JSOBJ, NULL, Top
    <2>4. DepthBounded'
      BY DepthAssumption, SMT DEF TypeOK, Control, DepthBounded, Unwinding, NULL
    <2>5. QED BY <2>2, <2>3, <2>4
  <1>11. CASE ArrayAddItem
    <2> USE <1>0, <1>11 DEF ArrayAddItem
    <2>1. input' \in Seq(Lexemes) BY DEF TypeOK
    <2>d. owned' \subseteq 1..made /\ fault' \in BOOLEAN
      BY DropOwned DEF Keep, TypeOK
    <2>e. Top.name = NULL BY SMT DEF Control, Top
    <2>2. TypeOK'
      BY <2>1, <2>d, SMT DEF TypeOK, Control, DepthBounded, Unwinding, Locations, Errors, JSOBJ, Kinds, NULL
    <2>3. Control'
      BY <2>2, <2>e, SMT DEF TypeOK, Control, Unwinding, JSOBJ, NULL, Top
    <2>4. DepthBounded'
      BY DepthAssumption, SMT DEF TypeOK, Control, DepthBounded, Unwinding, NULL
    <2>5. QED BY <2>2, <2>3, <2>4
  <1>12. CASE GotName
    <2> USE <1>0, <1>12 DEF GotName
    <2>1. stack \in Seq(Frame) /\ ret \in JSOBJ /\ UNCHANGED input BY DEF TypeOK
    <2>2. CASE lastType = "JT_UTF8"
      <3>1. stack' = [stack EXCEPT ![Len(stack)].name = ret] /\ stack # <<>>
        BY <2>2
      <3>2. /\ stack' \in Seq(Frame)
            /\ Len(stack') = Len(stack)
            /\ stack' # <<>>
            /\ \A i \in 1..Len(stack) - 1 : stack'[i] = stack[i]
            /\ stack'[Len(stack)] = [stack[Len(stack)] EXCEPT !.name = ret]
        <4>1. stack # <<>> OBVIOUS
        <4>2. QED BY <2>1, <3>1, <4>1, SetName
      <3>3. Top \in Frame BY <2>1, SMT DEF Top
      <3>4. stack'[Len(stack')].fn = "object" /\ stack'[Len(stack')].name = ret
        BY <3>2, <3>3, SMT DEF Top, Frame
      <3>5. TypeOK'
        BY <2>1, <2>2, <3>2, SMT DEF TypeOK, Locations, Keep, JSOBJ, Kinds, NULL
      <3>6. Control'
        <4>1. \A i \in 1..Len(stack') : i \in 1..Len(stack) - 1 \/ i = Len(stack')
          BY <3>2, SMT
        <4>2. stack'[Len(stack')].obj = Top.obj /\ Top.obj # NULL
          BY <3>2, <3>3, SMT DEF Control, Top, Frame
        <4>3. \A i \in 1..Len(stack') :
                 /\ stack'[i].obj # NULL
                 /\ stack'[i].fn = "array" => stack'[i].name = NULL
          <5>1. ASSUME NEW i \in 1..Len(stack) - 1
                PROVE  /\ i \in 1..Len(stack)
                       /\ stack'[i] = stack[i]
            BY <3>2, SMT
          <5>2. QED
            BY <3>2, <3>4, <4>1, <4>2, <5>1, Zenon DEF Control
        <4>4. errorStr = "none" /\ errorStr' = "none" /\ pc' = "colon" /\ ret' = NULL
          BY <2>2 DEF Control, Unwinding
        <4>5. QED
          BY <3>2, <3>4, <4>3, <4>4 DEF Control, Unwinding, Top
      <3>7. DepthBounded'
        BY <2>2, <3>2, SMT DEF DepthBounded, Unwinding
      <3>8. QED BY <3>5, <3>6, <3>7
    <2>3. CASE lastType # "JT_UTF8"
      <3> USE <2>3 DEF SetError
      <3>1. owned' \subseteq 1..made /\ fault' \in BOOLEAN BY DropOwned
      <3>2. TypeOK'
        BY <2>1, <3>1, SMT DEF TypeOK, Locations, Errors, JSOBJ, Kinds, NULL
      <3>3. Control'
        BY <3>2, SMT DEF Control, Unwinding, NULL
      <3>4. DepthBounded'
        BY DepthAssumption, SMT DEF TypeOK, DepthBounded, Unwinding, NULL
      <3>5. QED BY <3>2, <3>3, <3>4
    <2>4. QED BY <2>2, <2>3
  <1>13. CASE Colon
    <2> USE <1>0, <1>13 DEF Colon, SetError
    <2>0. stack # <<>> BY DEF Control
    <2>1. input' \in Seq(Lexemes) BY PeekInput
    <2>2. owned' \subseteq 1..made /\ fault' \in BOOLEAN BY DropOwned DEF Keep, TypeOK
    <2>3. TypeOK'
      BY <2>1, <2>2, SMT DEF TypeOK, Control, Locations, Errors, JSOBJ, Kinds, NULL
    <2>4. Control'
      BY <2>3, SMT DEF TypeOK, Control, Unwinding, NULL
    <2>5. DepthBounded'
      BY <2>0, DepthAssumption, SMT DEF TypeOK, DepthBounded, Unwinding, NULL
    <2>6. QED BY <2>3, <2>4, <2>5
  <1>14. CASE ObjectAddKey
    <2> USE <1>0, <1>14 DEF ObjectAddKey
    <2>1. stack \in Seq(Frame) /\ NULL \in JSOBJ BY SMT DEF TypeOK, JSOBJ, Kinds, NULL
    <2>2. owned' \subseteq 1..made /\ fault' \in BOOLEAN BY DropOwned
    <2>3. stack' = [stack EXCEPT ![Len(stack)].name = NULL] /\ stack # <<>>
      OBVIOUS
    <2>4. /\ stack' \in Seq(Frame)
          /\ Len(stack') = Len(stack)
          /\ stack' # <<>>
          /\ \A i \in 1..Len(stack) - 1 : stack'[i] = stack[i]
          /\ stack'[Len(stack)] = [stack[Len(stack)] EXCEPT !.name = NULL]
      BY <2>1, <2>3, SetName
    <2>5. Top \in Frame BY <2>1, SMT DEF Top
    <2>6. stack'[Len(stack')].name = NULL BY <2>4, <2>5, SMT DEF Top, Frame
    <2>7. pyErr' \in BOOLEAN BY Zenon DEF TypeOK
    <2>8. TypeOK'
      BY <2>1, <2>2, <2>4, <2>7, SMT DEF TypeOK, Locations
    <2>9. Control'
      BY <2>4, <2>6, <2>8, SMT DEF Control, Unwinding, Top
    <2>10. DepthBounded'
      BY <2>4, SMT DEF DepthBounded, Unwinding
    <2>11. QED BY <2>8, <2>9, <2>10
  <1>15. CASE Delimiter
    <2> USE <1>0, <1>15 DEF Delimiter, CloseAfterMember, Comma, BadDelimiter
    <2>0. stack # <<>> BY SMT DEF Control
    <2>1. input' \in Seq(Lexemes) BY PeekInput
    <2>2. owned' \subseteq 1..made /\ fault' \in BOOLEAN BY DropOwned DEF Keep, TypeOK
    <2>3. CASE stack' = Pop /\ pc' = "return"
      <3>1. TypeOK'
        BY <2>0, <2>1, <2>2, <2>3, SMT
        DEF TypeOK, Control, DepthBounded, Unwinding, Locations, Errors, SetError,
            Return, JSOBJ, Kinds, NULL
      <3>2. Control'
        <4>1. Top.obj # NULL BY <2>0, SMT DEF Control, Top
        <4>2. QED
          BY <2>0, <2>3, <4>1, SMT DEF TypeOK, Control, Unwinding, SetError, Return, NULL
      <3>3. DepthBounded'
        BY <2>0, <2>3, DepthAssumption, SMT
        DEF TypeOK, Control, DepthBounded, Unwinding, SetError, Return, NULL
      <3>4. QED BY <3>1, <3>2, <3>3
    <2>4. CASE stack' # Pop \/ pc' # "return"
      <3>1. /\ stack' = [stack EXCEPT ![Len(stack)].len = @ + 1]
            /\ pc' = "member"
            /\ UNCHANGED <<objDepth, ret, errorStr>>
        BY <2>4 DEF Return, SetError
      <3>2. stack \in Seq(Frame) BY DEF TypeOK
      <3>3. /\ stack' \in Seq(Frame)
            /\ Len(stack') = Len(stack)
            /\ stack' # <<>>
            /\ \A i \in 1..Len(stack) - 1 : stack'[i] = stack[i]
            /\ stack'[Len(stack)] = [stack[Len(stack)] EXCEPT !.len = @ + 1]
        BY <2>0, <3>1, <3>2, CountMember
      <3>4. stack'[Len(stack')].name = NULL
        BY <2>0, <3>2, <3>3, SMT DEF Control, Top, Frame
      <3>5. TypeOK'
        <4>1. start' \in Nat \ {0} BY SMT DEF TypeOK
        <4>2. UNCHANGED <<lastType, pyErr, made>> OBVIOUS
        <4> HIDE <1>0, <1>15 DEF Delimiter, CloseAfterMember, Comma, BadDelimiter
        <4>3. QED BY <2>1, <2>2, <3>1, <3>3, <4>1, <4>2, SMT DEF TypeOK, Locations
      <3>6. Control'
        BY <3>1, <3>3, <3>4, <3>5, SMT DEF Control, Unwinding, Top
      <3>7. DepthBounded'
        BY <3>1, <3>3, SMT DEF DepthBounded, Unwinding
      <3>8. QED BY <3>5, <3>6, <3>7
    <2>5. QED BY <2>3, <2>4
  <1>16. CASE Epilogue
    <2> USE <1>0, <1>16 DEF Epilogue
    <2>1. input' \in Seq(Lexemes) BY DEF TypeOK
    <2>2. TypeOK' BY SMT DEF TypeOK, Locations
    <2>3. Control' BY SMT DEF Control, Unwinding
    <2>4. DepthBounded' BY SMT DEF Control, DepthBounded, Unwinding
    <2>5. QED BY <2>2, <2>3, <2>4
  <1>17. CASE Trailing
    <2> USE <1>0, <1>17 DEF Trailing
    <2>1. input' \in Seq(Lexemes) BY PeekInput
    <2>2. owned' \subseteq 1..made /\ fault' \in BOOLEAN BY DropOwned DEF Keep, TypeOK
    <2>3. TypeOK'
      BY <2>1, <2>2, SMT DEF TypeOK, Locations, Errors, JSOBJ, Kinds, NULL
    <2>4. Control'
      BY <2>3, SMT DEF TypeOK, Control, Unwinding, NULL
    <2>5. DepthBounded'
      BY SMT DEF TypeOK, Control, DepthBounded, Unwinding, NULL
    <2>6. QED BY <2>3, <2>4, <2>5
  <1>18. CASE UNCHANGED vars
    BY <1>18 DEF vars, TypeOK, Control, DepthBounded, Unwinding, Top
  <1>19. QED
    BY <1>1, <1>2, <1>3, <1>4, <1>5, <1>6, <1>7, <1>8, <1>9, <1>10, <1>11, <1>12,
       <1>13, <1>14, <1>15, <1>16, <1>17, <1>18 DEF Next, Step, Done

-----------------------------------------------------------------------------
\* The state of the decoder is always of the declared type.
THEOREM TypeCorrect == Spec => []TypeOK
PROOF
  <1>1. IInv => TypeOK BY DEF IInv
  <1>2. QED BY <1>1, InitInvariant, NextInvariant, PTL DEF Spec

\* The recursion of decode_array and decode_object never exceeds the depth
\* limit, and objDepth counts it, for every limit.
THEOREM DepthCorrect == Spec => []DepthBounded
PROOF
  <1>1. IInv => DepthBounded BY DEF IInv
  <1>2. QED BY <1>1, InitInvariant, NextInvariant, PTL DEF Spec

\* No path returns NULL without an error string or a pending exception, and
\* none returns a value with an error string.
THEOREM NullCorrect == Spec => []NullHasReason
PROOF
  <1>1. IInv => NullHasReason BY DEF IInv, Control, NullHasReason
  <1>2. QED BY <1>1, InitInvariant, NextInvariant, PTL DEF Spec

\* JSON_DecodeObject looks for trailing data only where nothing failed.
TrailingClean == pc = "trailing" => errorStr = "none"

LEMMA TrailingInvariant ==
  /\ Init => TrailingClean
  /\ TrailingClean /\ [Next]_vars => TrailingClean'
PROOF
  <1>1. Init => TrailingClean BY DEF Init, TrailingClean
  <1>2. TrailingClean /\ [Next]_vars => TrailingClean'
    <2> SUFFICES ASSUME TrailingClean, [Next]_vars, pc' = "trailing"
                 PROVE  errorStr' = "none"
      BY DEF TrailingClean
    <2>1. CASE Epilogue BY <2>1 DEF Epilogue
    <2>2. CASE SkipWhitespace BY <2>2 DEF SkipWhitespace, TrailingClean
    <2>3. CASE UNCHANGED vars BY <2>3 DEF vars, TrailingClean
    <2>4. QED
      BY <2>1, <2>2, <2>3
      DEF Next, Step, Done, DecodeScalar, DecodeJunkNumber, DecodeError, DecodeRaises,
          Enter, TooDeep, CloseAtMember, BeginMember, Unwind, ArrayAddItem, GotName,
          Colon, ObjectAddKey, Delimiter, CloseAfterMember, Comma, BadDelimiter,
          Trailing, Return, SetError, TrailingClean
  <1>3. QED BY <1>1, <1>2

\* SetError is called at most once: the first error is the one reported, and
\* the parser does not move after it, however many levels return.
THEOREM FirstErrorCorrect == Spec => FirstErrorWins
PROOF
  <1> DEFINE Kept == Unwinding /\ errorStr # "none" => errorStr' = errorStr /\ start' = start
  <1>1. TrailingClean /\ Next => [Kept]_vars
    <2> SUFFICES ASSUME TrailingClean, Next, Unwinding, errorStr # "none"
                 PROVE  errorStr' = errorStr /\ start' = start
      OBVIOUS
    <2>1. pc \in {"return", "done"} /\ ret = NULL BY DEF Unwinding, TrailingClean
    <2>2. CASE Unwind BY <2>2 DEF Unwind
    <2>3. CASE Epilogue BY <2>3 DEF Epilogue
    <2>4. CASE Done BY <2>4 DEF Done, vars
    <2>5. QED
      BY <2>1, <2>2, <2>3, <2>4
      DEF Next, Step, SkipWhitespace, DecodeScalar, DecodeJunkNumber, DecodeError,
          DecodeRaises, Enter, TooDeep, CloseAtMember, BeginMember, ArrayAddItem,
          GotName, Colon, ObjectAddKey, Delimiter, Trailing
  <1>2. QED BY <1>1, TrailingInvariant, PTL DEF Spec, FirstErrorWins

-----------------------------------------------------------------------------
(***************************************************************************)
(* Ownership.  The references held by a frame and by the return register;  *)
(* Own says that these sets are disjoint and make up owned.  Disjointness  *)
(* is what Ownership lacks to be inductive: were one reference held twice, *)
(* giving it up once would leave the other holder with a dead object.      *)
(***************************************************************************)
RefOf(obj) == IF obj = NULL THEN {} ELSE {obj.ref}
FrameRefs(f) == {f.obj.ref} \cup RefOf(f.name)

Own ==
  /\ ~fault
  /\ RefOf(ret) \subseteq owned
  /\ \A i \in 1..Len(stack) :
       /\ FrameRefs(stack[i]) \subseteq owned
       /\ FrameRefs(stack[i]) \cap RefOf(ret) = {}
       /\ stack[i].obj.ref \notin RefOf(stack[i].name)
  /\ \A i, j \in 1..Len(stack) :
       i # j => FrameRefs(stack[i]) \cap FrameRefs(stack[j]) = {}
  /\ \A r \in owned :
       r \in RefOf(ret) \/ \E i \in 1..Len(stack) : r \in FrameRefs(stack[i])

\* A step that leaves the frames alone and adds a fresh result, or nothing.
LEMMA OwnReturn ==
  ASSUME Own, TypeOK, UNCHANGED stack, ~fault', ret = NULL,
         \/ ret' = NULL /\ owned' = owned
         \/ RefOf(ret') = {made + 1} /\ owned' = owned \cup {made + 1}
  PROVE  Own'
PROOF
  <1>1. RefOf(ret) = {} BY DEF RefOf
  <1>2. made + 1 \notin owned BY SMT DEF TypeOK
  <1>3. \/ RefOf(ret') = {} /\ owned' = owned
        \/ RefOf(ret') = {made + 1} /\ owned' = owned \cup {made + 1}
    BY DEF RefOf
  <1>4. /\ owned \subseteq owned'
        /\ RefOf(ret') \subseteq owned'
        /\ RefOf(ret') \cap owned = {}
        /\ \A r \in owned' : r \in owned \/ r \in RefOf(ret')
    BY <1>2, <1>3
  <1>5. /\ \A i \in 1..Len(stack) :
             /\ FrameRefs(stack[i]) \subseteq owned'
             /\ FrameRefs(stack[i]) \cap RefOf(ret') = {}
        /\ \A r \in owned' :
             r \in RefOf(ret') \/ \E i \in 1..Len(stack) : r \in FrameRefs(stack[i])
    BY <1>1, <1>4 DEF Own
  <1>6. QED BY <1>4, <1>5 DEF Own

\* A step that pops the top frame, gives up what it and the result hold, and
\* keeps at most a reference of that frame as the new result.
LEMMA OwnPop ==
  ASSUME Own, TypeOK, stack # <<>>, stack' = Pop, ~fault',
         RefOf(ret') \subseteq FrameRefs(Top),
         owned' = (owned \ (FrameRefs(Top) \cup RefOf(ret))) \cup RefOf(ret')
  PROVE  Own'
PROOF
  <1>1. /\ Len(stack') = Len(stack) - 1
        /\ Len(stack) \in Nat \ {0}
        /\ \A i \in 1..Len(stack) - 1 : stack'[i] = stack[i]
    BY StackFacts
  <1>2. ASSUME NEW i \in 1..Len(stack')
        PROVE  i \in 1..Len(stack) /\ i # Len(stack) /\ stack'[i] = stack[i]
    BY <1>1, SMT
  <1>3. ASSUME NEW i \in 1..Len(stack), i # Len(stack)
        PROVE  i \in 1..Len(stack')
    BY <1>1, <1>3, SMT
  <1>4. Len(stack) \in 1..Len(stack) BY <1>1, SMT
  <1>5. RefOf(ret') \subseteq owned' OBVIOUS
  <1>6. ASSUME NEW i \in 1..Len(stack')
        PROVE  /\ FrameRefs(stack'[i]) \subseteq owned'
               /\ FrameRefs(stack'[i]) \cap RefOf(ret') = {}
               /\ stack'[i].obj.ref \notin RefOf(stack'[i].name)
    <2>1. /\ FrameRefs(stack[i]) \cap FrameRefs(Top) = {}
          /\ FrameRefs(stack[i]) \cap RefOf(ret) = {}
          /\ FrameRefs(stack[i]) \subseteq owned
          /\ stack[i].obj.ref \notin RefOf(stack[i].name)
      BY <1>2, <1>4 DEF Own, Top
    <2>2. QED BY <1>2, <2>1
  <1>7. ASSUME NEW i \in 1..Len(stack'), NEW j \in 1..Len(stack'), i # j
        PROVE  FrameRefs(stack'[i]) \cap FrameRefs(stack'[j]) = {}
    BY <1>2, <1>7 DEF Own
  <1>8. ASSUME NEW r \in owned'
        PROVE  r \in RefOf(ret') \/ \E i \in 1..Len(stack') : r \in FrameRefs(stack'[i])
    BY <1>1, <1>2, <1>3, Zenon DEF Own, Top
  <1>9. QED BY <1>5, <1>6, <1>7, <1>8 DEF Own

\* A step that changes the top frame and the result only, and keeps no
\* reference but those the two held.
LEMMA OwnTop ==
  ASSUME Own, TypeOK, stack # <<>>, ~fault',
         Len(stack') = Len(stack),
         \A i \in 1..Len(stack) - 1 : stack'[i] = stack[i],
         FrameRefs(stack'[Len(stack)]) \cup RefOf(ret') \subseteq FrameRefs(Top) \cup RefOf(ret),
         FrameRefs(stack'[Len(stack)]) \cap RefOf(ret') = {},
         stack'[Len(stack)].obj.ref \notin RefOf(stack'[Len(stack)].name),
         owned' = (owned \ (FrameRefs(Top) \cup RefOf(ret)))
                     \cup FrameRefs(stack'[Len(stack)]) \cup RefOf(ret')
  PROVE  Own'
PROOF
  <1> DEFINE n == Len(stack)
             new == FrameRefs(stack'[n]) \cup RefOf(ret')
             old == FrameRefs(Top) \cup RefOf(ret)
  <1>1. n \in Nat \ {0} BY StackFacts
  <1>2. ASSUME NEW i \in 1..n, i # n
        PROVE  stack'[i] = stack[i]
    BY <1>1, <1>2, SMT
  <1>3. n \in 1..n BY <1>1, SMT
  <1>4. new \subseteq owned' OBVIOUS
  <1>5. ASSUME NEW i \in 1..n, i # n
        PROVE  /\ FrameRefs(stack'[i]) \subseteq owned'
               /\ FrameRefs(stack'[i]) \cap new = {}
               /\ stack'[i].obj.ref \notin RefOf(stack'[i].name)
    <2>1. /\ FrameRefs(stack[i]) \cap old = {}
          /\ FrameRefs(stack[i]) \subseteq owned
          /\ stack[i].obj.ref \notin RefOf(stack[i].name)
      BY <1>3, <1>5, Zenon DEF Own, Top
    <2>2. QED BY <1>2, <1>5, <2>1
  <1>6. ASSUME NEW i \in 1..n
        PROVE  /\ FrameRefs(stack'[i]) \subseteq owned'
               /\ FrameRefs(stack'[i]) \cap RefOf(ret') = {}
               /\ stack'[i].obj.ref \notin RefOf(stack'[i].name)
    BY <1>4, <1>5
  <1>7. ASSUME NEW i \in 1..n, NEW j \in 1..n, i # j
        PROVE  FrameRefs(stack'[i]) \cap FrameRefs(stack'[j]) = {}
    <2>1. CASE i # n /\ j # n BY <1>2, <1>7, <2>1 DEF Own
    <2>2. CASE i = n BY <1>5, <1>7, <2>2
    <2>3. CASE j = n BY <1>5, <1>7, <2>3
    <2>4. QED BY <2>1, <2>2, <2>3
  <1>8. ASSUME NEW r \in owned'
        PROVE  r \in RefOf(ret') \/ \E i \in 1..n : r \in FrameRefs(stack'[i])
    <2>1. CASE r \in new BY <1>3, <2>1
    <2>2. CASE r \notin new
      <3>1. r \in owned /\ r \notin old BY <1>8, <2>2
      <3>2. PICK i \in 1..n : r \in FrameRefs(stack[i]) BY <3>1 DEF Own
      <3>3. i # n BY <3>1, <3>2 DEF Top
      <3>4. QED BY <1>2, <3>2, <3>3
    <2>3. QED BY <2>1, <2>2
  <1>9. QED BY <1>4, <1>6, <1>7, <1>8 DEF Own

\* A step that pushes a frame holding one fresh reference.
LEMMA OwnPush ==
  ASSUME Own, TypeOK, ~fault', UNCHANGED ret,
         NEW f \in Frame, stack' = Append(stack, f),
         f.obj.ref = made + 1, f.name = NULL,
         owned' = owned \cup {made + 1}
  PROVE  Own'
PROOF
  <1> DEFINE n == Len(stack)
  <1>1. made + 1 \notin owned BY SMT DEF TypeOK
  <1>2. stack \in Seq(Frame) BY DEF TypeOK
  <1>3. /\ n \in Nat
        /\ Len(stack') = n + 1
        /\ \A i \in 1..n : stack'[i] = stack[i]
        /\ stack'[n + 1] = f
    BY <1>2, PushStack, StackFacts
  <1>4. ASSUME NEW i \in 1..Len(stack')
        PROVE  (i \in 1..n /\ stack'[i] = stack[i]) \/ (i = n + 1 /\ stack'[i] = f)
    BY <1>3, SMT
  <1>5. 1..n \subseteq 1..Len(stack') /\ n + 1 \in 1..Len(stack') BY <1>3, SMT
  <1>6. FrameRefs(f) = {made + 1} /\ f.obj.ref \notin RefOf(f.name)
    BY DEF FrameRefs, RefOf
  <1>7. ASSUME NEW i \in 1..Len(stack')
        PROVE  /\ FrameRefs(stack'[i]) \subseteq owned'
               /\ FrameRefs(stack'[i]) \cap RefOf(ret') = {}
               /\ stack'[i].obj.ref \notin RefOf(stack'[i].name)
    BY <1>1, <1>4, <1>6 DEF Own
  <1>8. ASSUME NEW i \in 1..Len(stack'), NEW j \in 1..Len(stack'), i # j
        PROVE  FrameRefs(stack'[i]) \cap FrameRefs(stack'[j]) = {}
    <2>1. CASE i = n + 1 \/ j = n + 1
      BY <1>1, <1>3, <1>4, <1>6, <1>8, <2>1, SMT DEF Own
    <2>2. CASE i # n + 1 /\ j # n + 1
      BY <1>4, <1>8, <2>2 DEF Own
    <2>3. QED BY <2>1, <2>2
  <1>9. ASSUME NEW r \in owned'
        PROVE  r \in RefOf(ret') \/ \E i \in 1..Len(stack') : r \in FrameRefs(stack'[i])
    BY <1>3, <1>5, <1>6 DEF Own
  <1>10. QED BY <1>7, <1>8, <1>9 DEF Own

\* What Drop gives up.
LEMMA DropRefs ==
  ASSUME NEW a, NEW b
  PROVE  /\ {o.ref : o \in {a}} = {a.ref}
         /\ {o.ref : o \in {a, b}} = {a.ref, b.ref}
         /\ {o.ref : o \in {a} \cup ({b} \ {NULL})} = {a.ref} \cup RefOf(b)
PROOF
  <1>1. {o.ref : o \in {a}} = {a.ref} OBVIOUS
  <1>2. {o.ref : o \in {a, b}} = {a.ref, b.ref} OBVIOUS
  <1>3. {o.ref : o \in {a} \cup ({b} \ {NULL})} = {a.ref} \cup RefOf(b)
    BY Zenon DEF RefOf
  <1>4. QED BY <1>1, <1>2, <1>3

LEMMA NextOwn == IInv /\ Own /\ [Next]_vars => Own'
PROOF
  <1> SUFFICES ASSUME IInv, Own, [Next]_vars PROVE Own' OBVIOUS
  <1>0. TypeOK /\ Control BY DEF IInv
  <1>t. stack # <<>> => /\ Len(stack) \in 1..Len(stack)
                       /\ Top.obj # NULL
                       /\ Top.obj.ref \in owned
                       /\ RefOf(Top.name) \subseteq owned
                       /\ Top.obj.ref \notin RefOf(Top.name)
                       /\ FrameRefs(Top) \cap RefOf(ret) = {}
                       /\ FrameRefs(Top) \subseteq owned
    <2>1. SUFFICES ASSUME stack # <<>>
                   PROVE  /\ Len(stack) \in 1..Len(stack)
                          /\ Top.obj # NULL
                          /\ FrameRefs(Top) \subseteq owned
                          /\ Top.obj.ref \notin RefOf(Top.name)
                          /\ FrameRefs(Top) \cap RefOf(ret) = {}
      BY DEF FrameRefs
    <2>2. Len(stack) \in 1..Len(stack) BY <1>0, <2>1, StackFacts, SMT
    <2>3. QED BY <1>0, <2>2 DEF Own, Control, Top
  <1>n. RefOf(NULL) = {} BY DEF RefOf
  <1>v. ~fault /\ RefOf(ret) \subseteq owned BY DEF Own
  <1>1. CASE SkipWhitespace BY <1>1, Zenon DEF SkipWhitespace, Own
  <1>2. CASE DecodeScalar \/ DecodeJunkNumber
    <2>1. ret = NULL BY <1>0, <1>2 DEF DecodeScalar, DecodeJunkNumber, Control
    <2>2. /\ ret'.ref = made + 1
          /\ owned' = owned \cup {made + 1}
          /\ UNCHANGED <<stack, fault>>
      BY <1>2 DEF DecodeScalar, DecodeJunkNumber, New, Return, Fresh
    <2>3. ret' # NULL BY <1>0, <2>2, SMT DEF TypeOK, NULL
    <2>4. RefOf(ret') = {made + 1} BY <2>2, <2>3 DEF RefOf
    <2>5. QED BY <1>0, <1>v, <2>1, <2>2, <2>4, OwnReturn
  <1>3. CASE DecodeError \/ DecodeRaises
    <2>1. ret = NULL BY <1>0, <1>3 DEF DecodeError, DecodeRaises, Control
    <2>2. ret' = NULL /\ owned' = owned /\ UNCHANGED <<stack, fault>>
      BY <1>3 DEF DecodeError, DecodeRaises, SetError, Return, Keep
    <2>3. QED BY <1>0, <1>v, <2>1, <2>2, OwnReturn
  <1>4. ASSUME NEW fn \in {"array", "object"}, NEW c, Enter(fn, c)
        PROVE  Own'
    <2> DEFINE f == [fn |-> fn, obj |-> Fresh(fn), name |-> NULL, len |-> 0]
    <2>1. f \in Frame BY <1>0, SMT DEF Frame, JSOBJ, Kinds, NULL, TypeOK, Fresh
    <2>2. /\ stack' = Append(stack, f)
          /\ owned' = owned \cup {made + 1}
          /\ UNCHANGED <<ret, fault>>
      BY <1>4 DEF Enter, New
    <2>3. f.obj.ref = made + 1 /\ f.name = NULL BY DEF Fresh
    <2> HIDE DEF f
    <2>4. QED BY <1>0, <1>v, <2>1, <2>2, <2>3, OwnPush
  <1>5. ASSUME NEW c, TooDeep(c)
        PROVE  Own'
    <2>1. ret = NULL BY <1>0, <1>5 DEF TooDeep, Control
    <2>2. ret' = NULL /\ owned' = owned /\ UNCHANGED <<stack, fault>>
      BY <1>5 DEF TooDeep, SetError, Keep
    <2>3. QED BY <1>0, <1>v, <2>1, <2>2, OwnReturn
  <1>6. CASE CloseAtMember
    <2>1. stack # <<>> /\ stack' = Pop /\ Top.name = NULL /\ ret = NULL
      BY <1>0, <1>6 DEF CloseAtMember, Control
    <2>2. FrameRefs(Top) = {Top.obj.ref} BY <2>1, <1>n DEF FrameRefs
    <2>3. CASE Top.len = 0
      <3>1. ret' = Top.obj /\ UNCHANGED <<owned, fault>>
        BY <1>6, <2>3 DEF CloseAtMember, Return, Keep
      <3>2. RefOf(ret') = {Top.obj.ref} BY <1>t, <2>1, <3>1 DEF RefOf
      <3>3. owned = (owned \ (FrameRefs(Top) \cup RefOf(ret))) \cup RefOf(ret')
        BY <1>t, <1>n, <2>1, <2>2, <3>2
      <3>4. QED BY <1>0, <1>v, <2>1, <2>2, <3>1, <3>2, <3>3, OwnPop
    <2>4. CASE Top.len # 0
      <3>1. Drop({Top.obj}) /\ ret' = NULL
        BY <1>6, <2>4 DEF CloseAtMember, SetError
      <3>2. owned' = owned \ {Top.obj.ref} /\ ~fault'
        BY <1>t, <1>v, <2>1, <3>1, DropRefs DEF Drop
      <3>3. QED BY <1>0, <1>n, <2>1, <2>2, <3>1, <3>2, OwnPop
    <2>5. QED BY <2>3, <2>4
  <1>7. CASE BeginMember BY <1>7, Zenon DEF BeginMember, Keep, Own
  <1>8. CASE Unwind
    <2>1. stack # <<>> /\ ret = NULL /\ ret' = NULL /\ stack' = Pop
      BY <1>8 DEF Unwind
    <2>2. owned' = owned \ FrameRefs(Top) /\ ~fault'
      BY <1>t, <1>v, <1>8, DropRefs DEF Unwind, Drop, FrameRefs
    <2>3. QED BY <1>0, <1>n, <2>1, <2>2, OwnPop
  <1>9. CASE ArrayAddItem
    <2>1. /\ stack # <<>> /\ ret # NULL /\ ret' = NULL /\ stack' = stack
          /\ Drop({ret})
      BY <1>9 DEF ArrayAddItem
    <2>2. RefOf(ret) = {ret.ref} BY <2>1 DEF RefOf
    <2>3. owned' = owned \ RefOf(ret) /\ ~fault'
      BY <1>v, <2>1, <2>2, DropRefs DEF Drop
    <2>4. owned' = (owned \ (FrameRefs(Top) \cup RefOf(ret)))
                      \cup FrameRefs(stack'[Len(stack)]) \cup RefOf(ret')
      BY <1>t, <1>n, <2>1, <2>3 DEF Top
    <2>5. QED BY <1>0, <1>n, <1>t, <2>1, <2>3, <2>4, OwnTop DEF Top
  <1>10. CASE GotName
    <2>1. /\ stack # <<>> /\ ret # NULL /\ ret' = NULL
          /\ Top.name = NULL
      BY <1>10 DEF GotName, SetError
    <2>2. RefOf(ret) = {ret.ref} BY <2>1 DEF RefOf
    <2>3. FrameRefs(Top) = {Top.obj.ref} BY <2>1, <1>n DEF FrameRefs
    <2>4. CASE lastType = "JT_UTF8"
      <3>1. /\ stack' = [stack EXCEPT ![Len(stack)].name = ret]
            /\ UNCHANGED <<owned, fault>>
        BY <1>10, <2>4 DEF GotName, Keep
      <3>2. stack \in Seq(Frame) /\ ret \in JSOBJ BY <1>0 DEF TypeOK
      <3>3. /\ Len(stack') = Len(stack)
            /\ \A i \in 1..Len(stack) - 1 : stack'[i] = stack[i]
            /\ stack'[Len(stack)] = [stack[Len(stack)] EXCEPT !.name = ret]
        BY <2>1, <3>1, <3>2, SetName
      <3>4. Top \in Frame BY <2>1, <3>2, <1>t, ElementOfSeq DEF Top
      <3>5. stack'[Len(stack)].obj = Top.obj /\ stack'[Len(stack)].name = ret
        BY <3>3, <3>4 DEF Top, Frame
      <3>6. FrameRefs(stack'[Len(stack)]) = FrameRefs(Top) \cup RefOf(ret)
        BY <2>3, <3>5 DEF FrameRefs
      <3>7. owned' = (owned \ (FrameRefs(Top) \cup RefOf(ret)))
                        \cup FrameRefs(stack'[Len(stack)]) \cup RefOf(ret')
        BY <1>t, <1>n, <1>v, <2>1, <3>1, <3>6
      <3>8. /\ FrameRefs(stack'[Len(stack)]) \cup RefOf(ret') \subseteq FrameRefs(Top) \cup RefOf(ret)
            /\ FrameRefs(stack'[Len(stack)]) \cap RefOf(ret') = {}
        BY <1>n, <2>1, <3>6
      <3>9. stack'[Len(stack)].obj.ref \notin RefOf(stack'[Len(stack)].name)
        BY <1>t, <2>1, <2>3, <3>5
      <3>10. ~fault' BY <1>v, <3>1
      <3>11. QED BY <1>0, <2>1, <3>3, <3>7, <3>8, <3>9, <3>10, OwnTop
    <2>5. CASE lastType # "JT_UTF8"
      <3>1. Drop({Top.obj, ret}) /\ stack' = Pop BY <1>10, <2>5 DEF GotName
      <3>2. owned' = owned \ (FrameRefs(Top) \cup RefOf(ret)) /\ ~fault'
        BY <1>t, <1>v, <2>1, <2>2, <2>3, <3>1, DropRefs DEF Drop
      <3>3. QED BY <1>0, <1>n, <2>1, <3>1, <3>2, OwnPop
    <2>6. QED BY <2>4, <2>5
  <1>11. CASE Colon
    <2>1. stack # <<>> /\ Top.name # NULL /\ ret = NULL
      BY <1>0, <1>11 DEF Colon, Control
    <2>2. CASE UNCHANGED <<stack, ret, owned, fault>>
      BY <2>2, Zenon DEF Own
    <2>3. CASE Drop({Top.obj, Top.name}) /\ stack' = Pop /\ ret' = NULL
      <3>1. FrameRefs(Top) = {Top.obj.ref, Top.name.ref}
        BY <2>1 DEF FrameRefs, RefOf
      <3>2. owned' = owned \ FrameRefs(Top) /\ ~fault'
        BY <1>t, <1>v, <2>1, <2>3, <3>1, DropRefs DEF Drop
      <3>3. QED BY <1>0, <1>n, <2>1, <2>3, <3>2, OwnPop
    <2>4. QED BY <1>11, <2>2, <2>3 DEF Colon, Keep, SetError
  <1>12. CASE ObjectAddKey
    <2>1. /\ stack # <<>> /\ ret # NULL /\ ret' = NULL
          /\ Top.name # NULL
          /\ stack' = [stack EXCEPT ![Len(stack)].name = NULL]
          /\ Drop({Top.name, ret})
      BY <1>12 DEF ObjectAddKey
    <2>2. RefOf(ret) = {ret.ref} /\ RefOf(Top.name) = {Top.name.ref} BY <2>1 DEF RefOf
    <2>3. stack \in Seq(Frame) /\ NULL \in JSOBJ
      BY <1>0, SMT DEF TypeOK, JSOBJ, Kinds, NULL
    <2>4. /\ Len(stack') = Len(stack)
          /\ \A i \in 1..Len(stack) - 1 : stack'[i] = stack[i]
          /\ stack'[Len(stack)] = [stack[Len(stack)] EXCEPT !.name = NULL]
      BY <2>1, <2>3, SetName
    <2>5. Top \in Frame BY <2>1, <2>3, <1>t, ElementOfSeq DEF Top
    <2>6. stack'[Len(stack)].obj = Top.obj /\ stack'[Len(stack)].name = NULL
      BY <2>4, <2>5 DEF Top, Frame
    <2>7. FrameRefs(stack'[Len(stack)]) = {Top.obj.ref}
      BY <2>6, <1>n DEF FrameRefs
    <2>8. FrameRefs(Top) = {Top.obj.ref, Top.name.ref}
      BY <2>1 DEF FrameRefs, RefOf
    <2>9. owned' = owned \ {Top.name.ref, ret.ref} /\ ~fault'
      BY <1>t, <1>v, <2>1, <2>2, DropRefs DEF Drop
    <2>10. owned' = (owned \ (FrameRefs(Top) \cup RefOf(ret)))
                      \cup FrameRefs(stack'[Len(stack)]) \cup RefOf(ret')
      <3>1. Top.obj.ref # Top.name.ref /\ Top.obj.ref # ret.ref /\ Top.obj.ref \in owned
        BY <1>t, <2>1, <2>2, <2>8
      <3>2. QED BY <1>n, <2>1, <2>2, <2>7, <2>8, <2>9, <3>1
    <2>11. /\ FrameRefs(stack'[Len(stack)]) \cup RefOf(ret') \subseteq FrameRefs(Top) \cup RefOf(ret)
           /\ FrameRefs(stack'[Len(stack)]) \cap RefOf(ret') = {}
           /\ stack'[Len(stack)].obj.ref \notin RefOf(stack'[Len(stack)].name)
      BY <1>n, <2>1, <2>6, <2>7, <2>8
    <2>12. QED BY <1>0, <2>1, <2>4, <2>9, <2>10, <2>11, OwnTop
  <1>13. CASE Delimiter
    <2>1. stack # <<>> /\ Top.name = NULL /\ ret = NULL
      BY <1>0, <1>13 DEF Delimiter, Control
    <2>2. FrameRefs(Top) = {Top.obj.ref} BY <2>1, <1>n DEF FrameRefs
    <2>3. CASE stack' = Pop /\ ret' = Top.obj /\ UNCHANGED <<owned, fault>>
      <3>1. RefOf(ret') = {Top.obj.ref} BY <1>t, <2>1, <2>3 DEF RefOf
      <3>2. owned = (owned \ (FrameRefs(Top) \cup RefOf(ret))) \cup RefOf(ret')
        BY <1>t, <1>n, <2>1, <2>2, <3>1
      <3>3. QED BY <1>0, <1>v, <2>1, <2>2, <2>3, <3>1, <3>2, OwnPop
    <2>4. CASE /\ stack' = [stack EXCEPT ![Len(stack)].len = @ + 1]
               /\ UNCHANGED <<ret, owned, fault>>
      <3>1. stack \in Seq(Frame) BY <1>0 DEF TypeOK
      <3>2. /\ Len(stack') = Len(stack)
            /\ \A i \in 1..Len(stack) - 1 : stack'[i] = stack[i]
            /\ stack'[Len(stack)] = [stack[Len(stack)] EXCEPT !.len = @ + 1]
        BY <2>1, <2>4, <3>1, CountMember
      <3>3. Top \in Frame BY <2>1, <3>1, <1>t, ElementOfSeq DEF Top
      <3>4. stack'[Len(stack)].obj = Top.obj /\ stack'[Len(stack)].name = NULL
        BY <2>1, <3>2, <3>3 DEF Top, Frame
      <3>5. FrameRefs(stack'[Len(stack)]) = FrameRefs(Top)
        BY <2>1, <3>4 DEF FrameRefs
      <3>6. owned' = (owned \ (FrameRefs(Top) \cup RefOf(ret)))
                        \cup FrameRefs(stack'[Len(stack)]) \cup RefOf(ret')
        BY <1>t, <1>n, <2>1, <2>4, <3>5
      <3>7. /\ FrameRefs(stack'[Len(stack)]) \cup RefOf(ret') \subseteq FrameRefs(Top) \cup RefOf(ret)
            /\ FrameRefs(stack'[Len(stack)]) \cap RefOf(ret') = {}
            /\ stack'[Len(stack)].obj.ref \notin RefOf(stack'[Len(stack)].name)
        BY <1>n, <2>1, <2>4, <3>4, <3>5
      <3>8. ~fault' BY <1>v, <2>4
      <3>9. QED BY <1>0, <2>1, <3>2, <3>6, <3>7, <3>8, OwnTop
    <2>5. CASE Drop({Top.obj}) /\ stack' = Pop /\ ret' = NULL
      <3>1. owned' = owned \ {Top.obj.ref} /\ ~fault'
        BY <1>t, <1>v, <2>1, <2>5, DropRefs DEF Drop
      <3>2. QED BY <1>0, <1>n, <2>1, <2>2, <2>5, <3>1, OwnPop
    <2>6. QED BY <1>13, <2>3, <2>4, <2>5
      DEF Delimiter, CloseAfterMember, Comma, BadDelimiter, Return, Keep, SetError
  <1>14. CASE Epilogue BY <1>14, Zenon DEF Epilogue, Own
  <1>15. CASE Trailing
    <2>1. CASE UNCHANGED <<stack, ret, owned, fault>>
      BY <2>1, Zenon DEF Own
    <2>2. CASE Drop({ret}) /\ ret # NULL /\ ret' = NULL /\ UNCHANGED stack
      <3>1. RefOf(ret) = {ret.ref} BY <2>2 DEF RefOf
      <3>2. stack = <<>> BY <1>0, <1>15 DEF Trailing, Control
      <3>3. Len(stack) = 0 BY <3>2
      <3>4. owned' = owned \ RefOf(ret) /\ ~fault'
        BY <1>v, <2>2, <3>1, DropRefs DEF Drop
      <3>5. 1..Len(stack) = {} BY <3>3, SMT
      <3>6. owned' = {} BY <3>4, <3>5 DEF Own
      <3>7. QED BY <1>n, <2>2, <3>4, <3>5, <3>6 DEF Own
    <2>3. QED BY <1>15, <2>1, <2>2 DEF Trailing, Keep
  <1>16. CASE UNCHANGED vars BY <1>16, Zenon DEF vars, Own
  <1>17. QED
    BY <1>1, <1>2, <1>3, <1>4, <1>5, <1>6, <1>7, <1>8, <1>9, <1>10, <1>11, <1>12,
       <1>13, <1>14, <1>15, <1>16 DEF Next, Step, Done

\* Disjointness gives the set of holders the properties speak of.
LEMMA OwnImpliesOwnership == IInv /\ Own => Ownership
PROOF
  <1> SUFFICES ASSUME IInv, Own PROVE Ownership OBVIOUS
  <1>1. ASSUME NEW r \in owned
        PROVE  \E o \in Held \ {NULL} : r = o.ref
    <2>1. CASE r \in RefOf(ret) BY <2>1 DEF RefOf, Held
    <2>2. CASE \E i \in 1..Len(stack) : r \in FrameRefs(stack[i])
      <3>1. PICK i \in 1..Len(stack) : r \in FrameRefs(stack[i]) BY <2>2
      <3>2. stack[i].obj \in Held /\ stack[i].name \in Held /\ stack[i].obj # NULL
        BY DEF Held, IInv, Control
      <3>3. QED BY <3>1, <3>2 DEF FrameRefs, RefOf
    <2>3. QED BY <1>1, <2>1, <2>2 DEF Own
  <1>2. ASSUME NEW o \in Held \ {NULL}
        PROVE  o.ref \in owned
    <2>1. CASE o = ret BY <1>2, <2>1 DEF Own, RefOf
    <2>2. CASE \E i \in 1..Len(stack) : o = stack[i].obj \/ o = stack[i].name
      BY <1>2, <2>2 DEF Own, FrameRefs, RefOf
    <2>3. QED BY <1>2, <2>1, <2>2 DEF Held
  <1>3. QED BY <1>1, <1>2 DEF Ownership, Own

\* Every reference the callbacks return has exactly one holder until it is
\* given away or released: no path of the decoder leaks one or releases one
\* twice, for every input and depth limit.
THEOREM OwnershipCorrect == Spec => []Ownership
PROOF
  <1>1. Init => Own
    <2> SUFFICES ASSUME Init PROVE Own OBVIOUS
    <2>1. 1..Len(stack) = {} BY SMT DEF Init
    <2>2. RefOf(ret) = {} /\ owned = {} /\ ~fault BY DEF Init, RefOf
    <2>3. QED BY <2>1, <2>2 DEF Own
  <1>2. QED
    BY <1>1, InitInvariant, NextInvariant, NextOwn, OwnImpliesOwnership, PTL DEF Spec

-----------------------------------------------------------------------------
(* The end of the buffer. *)

\* start is at a byte of the buffer, or at the next one to be decided, or past
\* the terminator after an error.
Inside == start <= Len(input) + 1 /\ StopsAtTerminator

\* A byte is looked at where there is one.
LEMMA PeekInside ==
  ASSUME TypeOK, Inside, ~Unwinding \/ errorStr = "none", NEW c, Peek(c)
  PROVE  /\ input' \in Seq(Lexemes)
         /\ start <= Len(input')
         /\ start = Len(input') /\ c # "eof" => ~Complete'
PROOF
  <1>1. input \in Seq(Lexemes) /\ start \in Nat \ {0} BY DEF TypeOK
  <1>2. CASE start <= Len(input) /\ c = input[start] /\ input' = input
    BY <1>1, <1>2 DEF Complete
  <1>3. CASE /\ start = Len(input) + 1
             /\ c \in Lexemes /\ input' = Append(input, c)
    <2>1. /\ input' \in Seq(Lexemes) /\ Len(input') = Len(input) + 1
          /\ input'[Len(input) + 1] = c
      BY <1>1, <1>3
    <2>2. QED BY <1>1, <1>3, <2>1 DEF Complete
  <1>4. QED BY <1>2, <1>3 DEF Peek

\* A byte that is not the terminator is passed, or any byte with an error.
LEMMA AdvanceInside ==
  ASSUME TypeOK, Inside, ~Unwinding \/ errorStr = "none", NEW c, Peek(c),
         start' = start \/ start' = start + 1,
         start' = start \/ c # "eof" \/ (Unwinding' /\ errorStr' # "none")
  PROVE  Inside'
PROOF
  <1>1. /\ input' \in Seq(Lexemes) /\ start <= Len(input')
        /\ start = Len(input') /\ c # "eof" => ~Complete'
    BY PeekInside
  <1>2. start \in Nat \ {0} /\ Len(input') \in Nat BY <1>1 DEF TypeOK
  <1>3. QED BY <1>1, <1>2 DEF Inside, StopsAtTerminator

LEMMA NextInside == IInv /\ TrailingClean /\ Inside /\ [Next]_vars => Inside'
PROOF
  <1> SUFFICES ASSUME IInv, TrailingClean, Inside, [Next]_vars PROVE Inside' OBVIOUS
  <1>1. TypeOK /\ (errorStr # "none" => Unwinding) BY DEF IInv, Control
  <1>2. pc # "return" /\ ~(pc = "trailing" /\ ret = NULL) /\ pc # "done" => ~Unwinding
    BY DEF Unwinding
  <1>3. pc = "trailing" => errorStr = "none" BY DEF TrailingClean
  <1>4. pc \notin {"return", "done"} => ~Unwinding \/ errorStr = "none" BY <1>2, <1>3
  <1>5. CASE SkipWhitespace
    BY <1>1, <1>4, <1>5, AdvanceInside DEF SkipWhitespace
  <1>6. CASE DecodeScalar
    BY <1>1, <1>4, <1>6, AdvanceInside DEF DecodeScalar
  <1>7. CASE DecodeJunkNumber
    BY <1>1, <1>4, <1>7, AdvanceInside DEF DecodeJunkNumber
  <1>8. CASE DecodeError
    BY <1>1, <1>4, <1>8, AdvanceInside DEF DecodeError
  <1>9. CASE DecodeRaises
    BY <1>1, <1>4, <1>9, AdvanceInside DEF DecodeRaises
  <1>10. CASE Enter("array", "lbrack") \/ Enter("object", "lbrace")
    BY <1>1, <1>4, <1>10, AdvanceInside DEF Enter
  <1>11. CASE TooDeep("lbrack") \/ TooDeep("lbrace")
    BY <1>1, <1>4, <1>11, AdvanceInside DEF TooDeep
  <1>12. CASE CloseAtMember
    <2>1. Peek(Closer) /\ Closer # "eof" /\ (start' = start \/ start' = start + 1)
      BY <1>12 DEF CloseAtMember, Closer
    <2>2. pc = "member" BY <1>12 DEF CloseAtMember
    <2>3. QED BY <1>1, <1>4, <2>1, <2>2, AdvanceInside
  <1>13. CASE BeginMember
    BY <1>1, <1>4, <1>13, AdvanceInside DEF BeginMember
  <1>14. CASE Colon
    <2>1. pc = "colon" /\ start' = start + 1 BY <1>14 DEF Colon
    <2>2. CASE Peek("colon") BY <1>1, <1>4, <2>1, <2>2, AdvanceInside
    <2>3. CASE (\E c \in Lexemes : Peek(c)) /\ SetError("colon")
      <3>1. Unwinding' /\ errorStr' # "none" BY <2>3 DEF SetError, Unwinding
      <3>2. QED BY <1>1, <1>4, <2>1, <2>3, <3>1, AdvanceInside
    <2>4. QED BY <1>14, <2>2, <2>3 DEF Colon
  <1>15. CASE Delimiter
    <2>1. pc = "delimiter" /\ start' = start + 1 BY <1>15 DEF Delimiter
    <2>2. CASE Peek(Closer) \/ Peek("comma")
      BY <1>1, <1>4, <2>1, <2>2, AdvanceInside DEF Closer
    <2>3. CASE BadDelimiter
      <3>1. PICK c \in Lexemes : Peek(c) BY <2>3 DEF BadDelimiter
      <3>2. Unwinding' /\ errorStr' # "none" BY <2>3 DEF BadDelimiter, SetError, Unwinding
      <3>3. QED BY <1>1, <1>4, <2>1, <3>1, <3>2, AdvanceInside
    <2>4. QED BY <1>15, <2>2, <2>3 DEF Delimiter, CloseAfterMember, Comma
  <1>16. CASE Trailing
    BY <1>1, <1>4, <1>16, AdvanceInside DEF Trailing
  <1>17. CASE Unwind \/ ArrayAddItem \/ GotName \/ ObjectAddKey \/ Epilogue \/ UNCHANGED vars
    <2>1. UNCHANGED <<input, start>>
      BY <1>17 DEF Unwind, ArrayAddItem, GotName, ObjectAddKey, Epilogue, vars
    <2>2. Unwinding /\ errorStr # "none" => Unwinding' /\ errorStr' # "none"
      BY <1>17 DEF Unwind, ArrayAddItem, GotName, ObjectAddKey, Epilogue, vars, Unwinding
    <2>3. QED BY <2>1, <2>2 DEF Inside, StopsAtTerminator, Complete
  <1>18. QED
    BY <1>5, <1>6, <1>7, <1>8, <1>9, <1>10, <1>11, <1>12, <1>13, <1>14, <1>15, <1>16,
       <1>17 DEF Next, Step, Done

\* No text makes the decoder read past the NUL that ends the buffer, however
\* deep and wherever it is cut off: start passes it only to return an error.
THEOREM TerminatorCorrect == Spec => []StopsAtTerminator
PROOF
  <1>1. Init => Inside
    <2> SUFFICES ASSUME Init PROVE Inside OBVIOUS
    <2>1. start = 1 /\ input \in Seq(Lexemes) BY KnownAssumption DEF Init
    <2>2. Len(input) \in Nat BY <2>1
    <2>3. QED BY <2>1, <2>2 DEF Inside, StopsAtTerminator, Complete
  <1>2. Inside => StopsAtTerminator BY DEF Inside
  <1>3. QED BY <1>1, <1>2, InitInvariant, NextInvariant, TrailingInvariant, NextInside, PTL
    DEF Spec

-----------------------------------------------------------------------------
(***************************************************************************)
(* The text that has been read.                                            *)
(***************************************************************************)
\* The four ways a step changes the stack, frame by frame.
Pushes(f) ==
  /\ Len(stack') = Len(stack) + 1
  /\ \A i \in 1..Len(stack) : stack'[i] = stack[i]
  /\ stack'[Len(stack')] = f
Pops ==
  /\ stack # <<>> /\ Len(stack') = Len(stack) - 1
  /\ \A i \in 1..Len(stack') : stack'[i] = stack[i]
Changes(f) ==
  /\ stack # <<>> /\ stack' # <<>> /\ Len(stack') = Len(stack)
  /\ \A i \in 1..Len(stack) - 1 : stack'[i] = stack[i]
  /\ stack'[Len(stack)] = f

NewFrame(fn) == [fn |-> fn, obj |-> Fresh(fn), name |-> NULL, len |-> 0]
Named(obj) == [Top EXCEPT !.name = obj]
Longer == [Top EXCEPT !.len = @ + 1]

LEMMA StackSteps ==
  ASSUME IInv
  PROVE  /\ \A fn \in {"array", "object"} : \A c : Enter(fn, c) => Pushes(NewFrame(fn))
         /\ CloseAtMember \/ Unwind => Pops
         /\ GotName => Changes(Named(ret)) \/ (Pops /\ errorStr' # "none")
         /\ Colon => UNCHANGED stack \/ (Pops /\ errorStr' # "none")
         /\ ObjectAddKey => Changes(Named(NULL))
         /\ Delimiter /\ CloseAfterMember => Pops
         /\ Delimiter /\ Comma => Changes(Longer)
         /\ Delimiter /\ BadDelimiter => Pops /\ errorStr' # "none"
PROOF
  <1>1. TypeOK /\ Control /\ stack \in Seq(Frame) /\ Len(stack) \in Nat BY StackFacts DEF IInv, TypeOK
  <1>2. pc \in {"member", "delimiter", "colon"} => stack # <<>> BY <1>1 DEF Control
  <1>3. stack # <<>> /\ stack' = Pop => Pops BY <1>1, StackFacts DEF Pops
  <1>4. ASSUME NEW fn \in {"array", "object"}, NEW c, Enter(fn, c) PROVE Pushes(NewFrame(fn))
    <2>1. PICK f : f = NewFrame(fn) OBVIOUS
    <2>2. stack' = Append(stack, f) BY <1>4, <2>1 DEF Enter, NewFrame
    <2>3. f \in Frame BY <1>1, <2>1, SMT DEF NewFrame, Fresh, Frame, JSOBJ, Kinds, NULL, TypeOK
    <2>4. QED BY <1>1, <2>1, <2>2, <2>3, PushStack DEF Pushes
  <1>5. CloseAtMember \/ Unwind => Pops BY <1>2, <1>3 DEF CloseAtMember, Unwind
  <1>6. ASSUME stack # <<>>, NEW o \in JSOBJ, stack' = [stack EXCEPT ![Len(stack)].name = o]
        PROVE  Changes(Named(o))
    BY <1>1, <1>6, SetName DEF Changes, Named, Top
  <1>7. GotName => Changes(Named(ret)) \/ (Pops /\ errorStr' # "none")
    BY <1>1, <1>3, <1>6 DEF GotName, SetError, TypeOK
  <1>8. Colon => UNCHANGED stack \/ (Pops /\ errorStr' # "none")
    BY <1>2, <1>3 DEF Colon, SetError
  <1>9. NULL \in JSOBJ BY SMT DEF NULL, JSOBJ, Kinds
  <1>10. ObjectAddKey => Changes(Named(NULL)) BY <1>6, <1>9 DEF ObjectAddKey
  <1>11. Delimiter /\ CloseAfterMember => Pops
    BY <1>2, <1>3 DEF Delimiter, CloseAfterMember
  <1>12. ASSUME Delimiter, Comma PROVE Changes(Longer)
    <2>1. stack # <<>> /\ stack' = [stack EXCEPT ![Len(stack)].len = @ + 1]
      BY <1>2, <1>12 DEF Delimiter, Comma
    <2>2. QED BY <1>1, <2>1, CountMember DEF Changes, Longer, Top
  <1>13. Delimiter /\ BadDelimiter => Pops /\ errorStr' # "none"
    BY <1>2, <1>3 DEF Delimiter, BadDelimiter, SetError
  <1>14. QED BY <1>4, <1>5, <1>7, <1>8, <1>10, <1>11, <1>12, <1>13

\* Containers are what their frames say, and a name is a string or a container:
\* after a number lastType is not JT_UTF8.
Proper(f) ==
  /\ f.obj.kind = f.fn
  /\ f.name # NULL => f.name.kind \in {"str", "array", "object"}

KindsFit ==
  /\ \A i \in 1..Len(stack) : Proper(stack[i])
  /\ ret # NULL => ret.kind \in {"str", "atom", "array", "object"}
  /\ pc = "return" /\ ret.kind = "atom" => lastType # "JT_UTF8"
  /\ pc = "return" /\ ret.kind = "str" => lastType = "JT_UTF8"

LEMMA ProperPush ==
  ASSUME TypeOK, \A i \in 1..Len(stack) : Proper(stack[i]), NEW f, Proper(f), Pushes(f)
  PROVE  \A i \in 1..Len(stack') : Proper(stack'[i])
PROOF
  <1>1. Len(stack) \in Nat BY StackFacts
  <1>2. \A i \in 1..Len(stack') : i \in 1..Len(stack) \/ i = Len(stack')
    BY <1>1, SMT DEF Pushes
  <1>3. QED BY <1>2 DEF Pushes

LEMMA ProperPop ==
  ASSUME TypeOK, \A i \in 1..Len(stack) : Proper(stack[i]), Pops
  PROVE  \A i \in 1..Len(stack') : Proper(stack'[i])
PROOF
  <1>1. Len(stack) \in Nat BY StackFacts
  <1>2. \A i \in 1..Len(stack') : i \in 1..Len(stack) BY <1>1, SMT DEF Pops
  <1>3. QED BY <1>2 DEF Pops

LEMMA ProperChange ==
  ASSUME TypeOK, \A i \in 1..Len(stack) : Proper(stack[i]), NEW f, Proper(f), Changes(f)
  PROVE  \A i \in 1..Len(stack') : Proper(stack'[i])
PROOF
  <1>1. Len(stack) \in Nat BY StackFacts
  <1>2. \A i \in 1..Len(stack') : i \in 1..Len(stack) - 1 \/ i = Len(stack)
    BY <1>1, SMT DEF Changes
  <1>3. \A i \in 1..Len(stack) - 1 : i \in 1..Len(stack) BY <1>1, SMT
  <1>4. QED BY <1>2, <1>3 DEF Changes

LEMMA NextKinds == IInv /\ KindsFit /\ [Next]_vars => KindsFit'
PROOF
  <1> SUFFICES ASSUME IInv, KindsFit, [Next]_vars PROVE KindsFit' OBVIOUS
  <1>1. TypeOK /\ Control /\ Len(stack) \in Nat /\ (stack # <<>> => Len(stack) \in 1..Len(stack))
    <2>1. TypeOK /\ Control BY DEF IInv
    <2>2. QED BY <2>1, StackFacts, SMT
  <1>2. stack # <<>> => Proper(Top) /\ Top \in Frame
    <2>1. stack # <<>> => Top \in Frame BY <1>1, PopStack DEF Top, TypeOK
    <2>2. QED BY <1>1, <2>1 DEF KindsFit, Top
  <1>3. NULL.kind = "none" BY DEF NULL
  <1>4. ASSUME Pops,
               ret' # NULL => ret' = Top.obj,
               pc' = "return" => ret' = NULL \/ ret' = Top.obj
        PROVE  KindsFit'
    <2>1. \A i \in 1..Len(stack') : Proper(stack'[i]) BY <1>1, <1>4, ProperPop DEF KindsFit
    <2>2. Top.obj.kind \in {"array", "object"} BY <1>2, <1>4 DEF Pops, Proper, Frame
    <2>3. QED BY <1>3, <1>4, <2>1, <2>2 DEF KindsFit
  <1>5. ASSUME NEW f, Changes(f), Proper(f), ret' = NULL PROVE KindsFit'
    BY <1>1, <1>3, <1>5, ProperChange DEF KindsFit
  <1>6. CASE SkipWhitespace \/ BeginMember \/ TooDeep("lbrack") \/ TooDeep("lbrace") \/ DecodeError
    <2>1. UNCHANGED stack /\ (ret' = NULL \/ (ret' = ret /\ pc' # "return"))
      BY <1>6 DEF SkipWhitespace, BeginMember, TooDeep, DecodeError, SetError
    <2>2. QED BY <1>3, <2>1 DEF KindsFit
  <1>7. CASE DecodeScalar
    <2>1. PICK c \in {"str", "atom"} :
            /\ Return(Fresh(c)) /\ lastType' = IF c = "str" THEN "JT_UTF8" ELSE "JT_OTHER"
      BY <1>7 DEF DecodeScalar
    <2>2. ret'.kind = c /\ UNCHANGED stack BY <1>7, <2>1 DEF DecodeScalar, Return, Fresh
    <2>3. QED BY <2>1, <2>2 DEF KindsFit
  <1>8. CASE DecodeJunkNumber
    BY <1>8 DEF DecodeJunkNumber, Return, Fresh, KindsFit
  <1>9. CASE DecodeRaises
    BY <1>3, <1>9 DEF DecodeRaises, Return, KindsFit
  <1>10. ASSUME NEW fn \in {"array", "object"}, NEW c, Enter(fn, c) PROVE KindsFit'
    <2>1. PICK f : f = NewFrame(fn) OBVIOUS
    <2>2. Pushes(f) /\ Proper(f) BY <1>10, <2>1, StackSteps DEF NewFrame, Fresh, Proper
    <2>3. pc' = "member" /\ ret' = ret BY <1>10 DEF Enter
    <2>4. QED BY <1>1, <2>2, <2>3, ProperPush DEF KindsFit
  <1>11. CASE CloseAtMember \/ Unwind
    <2>1. ret' = NULL \/ ret' = Top.obj
      BY <1>11 DEF CloseAtMember, Unwind, Return, SetError
    <2>2. QED BY <1>4, <1>11, <2>1, StackSteps
  <1>12. CASE ArrayAddItem
    BY <1>12 DEF ArrayAddItem, KindsFit
  <1>13. CASE GotName
    <2>1. CASE Pops BY <1>4, <1>13, <2>1 DEF GotName, SetError
    <2>2. CASE ~Pops
      <3>1. PICK f : f = Named(ret) OBVIOUS
      <3>2. Changes(f) BY <1>13, <2>2, <3>1, StackSteps
      <3>3. stack # <<>> /\ ret.kind \in {"str", "array", "object"} /\ ret' = NULL
        <4>1. pc = "return" /\ ret # NULL /\ stack # <<>> BY <1>13 DEF GotName
        <4>2. stack' # Pop
          <5>1. SUFFICES ASSUME stack' = Pop PROVE FALSE OBVIOUS
          <5>2. Pops BY <1>1, <4>1, <5>1, StackFacts DEF Pops
          <5>3. QED BY <2>2, <5>2
        <4>3. lastType = "JT_UTF8" /\ ret' = NULL BY <1>13, <4>2 DEF GotName
        <4>4. QED BY <4>1, <4>3 DEF KindsFit
      <3>4. f.name = ret /\ f.obj = Top.obj /\ f.fn = Top.fn
        BY <1>2, <3>1, <3>3 DEF Named, Frame
      <3>5. Proper(f) BY <1>2, <3>3, <3>4 DEF Proper
      <3>6. QED BY <1>5, <3>2, <3>3, <3>5
    <2>3. QED BY <2>1, <2>2
  <1>14. CASE Colon
    <2>1. CASE Pops /\ errorStr' # "none"
      <3>1. ret' = NULL
        <4>1. ret = NULL BY <1>1, <1>14 DEF Colon, Control
        <4>2. QED BY <1>14, <4>1 DEF Colon, SetError
      <3>2. QED BY <1>4, <2>1, <3>1
    <2>2. CASE UNCHANGED stack
      BY <1>3, <1>14, <2>2 DEF Colon, SetError, KindsFit
    <2>3. QED BY <1>14, <2>1, <2>2, StackSteps
  <1>15. CASE ObjectAddKey
    <2>1. PICK f : f = Named(NULL) OBVIOUS
    <2>2. Changes(f) /\ stack # <<>> /\ ret' = NULL BY <1>15, <2>1, StackSteps DEF ObjectAddKey
    <2>3. f.name = NULL /\ f.obj = Top.obj /\ f.fn = Top.fn
      BY <1>2, <2>1, <2>2 DEF Named, Frame
    <2>4. Proper(f) BY <1>2, <2>2, <2>3 DEF Proper
    <2>5. QED BY <1>5, <2>2, <2>4
  <1>16. CASE Delimiter
    <2>1. CASE CloseAfterMember
      BY <1>4, <1>16, <2>1, StackSteps DEF CloseAfterMember, Return
    <2>2. CASE Comma
      <3>1. PICK f : f = Longer OBVIOUS
      <3>2. Changes(f) /\ stack # <<>> BY <1>16, <2>2, <3>1, StackSteps DEF Changes
      <3>3. f.name = Top.name /\ f.obj = Top.obj /\ f.fn = Top.fn
        BY <1>2, <3>1, <3>2 DEF Longer, Frame
      <3>4. Proper(f) BY <1>2, <3>2, <3>3 DEF Proper
      <3>5. ret' = NULL BY <1>1, <1>16, <2>2 DEF Comma, Delimiter, Control
      <3>6. QED BY <1>5, <3>2, <3>4, <3>5
    <2>3. CASE BadDelimiter
      BY <1>4, <1>16, <2>3, StackSteps DEF BadDelimiter, SetError
    <2>4. QED BY <1>16, <2>1, <2>2, <2>3 DEF Delimiter
  <1>17. CASE Epilogue \/ Trailing
    <2>1. UNCHANGED stack /\ pc' # "return" /\ (ret' = ret \/ ret' = NULL)
      BY <1>17 DEF Epilogue, Trailing
    <2>2. QED BY <2>1 DEF KindsFit
  <1>18. CASE UNCHANGED vars BY <1>18 DEF vars, KindsFit
  <1>19. QED
    BY <1>6, <1>7, <1>8, <1>9, <1>10, <1>11, <1>12, <1>13, <1>14, <1>15, <1>16, <1>17, <1>18
    DEF Next, Step, Done

-----------------------------------------------------------------------------
(* What has gone wrong stays wrong. *)

NameDue(f) == f.fn = "object" /\ f.name = NULL
OddName(f) == f.name.kind \notin {"none", "str"}

\* Somewhere below the top a container is read as a name, or has been.
Astray ==
  \E i \in 1..Len(stack) : OddName(stack[i]) \/ (NameDue(stack[i]) /\ i < Len(stack))

\* The value being returned is to be a name, and is not a string.
OddReturn ==
  pc = "return" /\ ret # NULL /\ ret.kind # "str" /\ stack # <<>> /\ NameDue(Top)

LEMMA MisnamedIs == Misnamed <=> Astray \/ OddReturn
PROOF BY DEF Misnamed, Astray, OddReturn, OddName, NameDue

LEMMA AstrayPush ==
  ASSUME TypeOK, NEW f, Pushes(f), Astray \/ (stack # <<>> /\ NameDue(Top))
  PROVE  Astray'
PROOF
  <1>1. Len(stack) \in Nat /\ (stack # <<>> => Len(stack) \in Nat \ {0}) BY StackFacts
  <1>2. PICK i \in 1..Len(stack) : OddName(stack[i]) \/ NameDue(stack[i])
    <2>1. stack # <<>> => Len(stack) \in 1..Len(stack) BY <1>1, SMT
    <2>2. QED BY <2>1 DEF Astray, Top
  <1>3. i \in 1..Len(stack') /\ i < Len(stack') /\ stack'[i] = stack[i]
    BY <1>1, <1>2, SMT DEF Pushes
  <1>4. QED BY <1>2, <1>3 DEF Astray, OddName, NameDue

LEMMA AstrayPop ==
  ASSUME TypeOK, Pops, Astray, ~OddName(Top)
  PROVE  Astray' \/ (stack' # <<>> /\ NameDue(Top'))
PROOF
  <1>1. Len(stack) \in Nat BY StackFacts
  <1>2. PICK i \in 1..Len(stack) : OddName(stack[i]) \/ (NameDue(stack[i]) /\ i < Len(stack))
    BY DEF Astray
  <1>3. i \in 1..Len(stack') /\ stack'[i] = stack[i]
    <2>1. i # Len(stack) BY <1>1, <1>2, SMT DEF Top
    <2>2. QED BY <1>1, <2>1, SMT DEF Pops
  <1>4. CASE i < Len(stack') \/ OddName(stack[i]) BY <1>2, <1>3, <1>4 DEF Astray, OddName, NameDue
  <1>5. CASE ~(i < Len(stack')) /\ ~OddName(stack[i])
    <2>1. i = Len(stack') BY <1>1, <1>3, <1>5, SMT DEF Pops
    <2>2. Top' = stack[i] BY <1>3, <2>1 DEF Top
    <2>3. stack' # <<>> BY <1>3, <2>1, SMT
    <2>4. QED BY <1>2, <1>5, <2>2, <2>3
  <1>6. QED BY <1>4, <1>5

LEMMA AstrayChange ==
  ASSUME TypeOK, NEW f, Changes(f), Astray, ~OddName(Top)
  PROVE  Astray'
PROOF
  <1>1. Len(stack) \in Nat BY StackFacts
  <1>2. PICK i \in 1..Len(stack) : OddName(stack[i]) \/ (NameDue(stack[i]) /\ i < Len(stack))
    BY DEF Astray
  <1>3. i \in 1..Len(stack) - 1 BY <1>1, <1>2, SMT DEF Top
  <1>4. i \in 1..Len(stack') /\ i < Len(stack') /\ stack'[i] = stack[i]
    BY <1>1, <1>2, <1>3, SMT DEF Changes
  <1>5. QED BY <1>2, <1>4 DEF Astray, OddName, NameDue

\* Closing a container that stood for a name returns what is no string.
LEMMA ClosingAstray ==
  ASSUME IInv, KindsFit, Astray, Pops, Top.name = NULL, pc' = "return", ret' = Top.obj
  PROVE  Misnamed'
PROOF
  <1>1. TypeOK /\ Control BY DEF IInv
  <1>2. ~OddName(Top) BY DEF OddName, NULL
  <1>3. Astray' \/ (stack' # <<>> /\ NameDue(Top')) BY <1>1, <1>2, AstrayPop
  <1>4. Len(stack) \in 1..Len(stack) /\ Top \in Frame
    <2>1. stack # <<>> /\ stack \in Seq(Frame) BY <1>1 DEF Pops, TypeOK
    <2>2. QED BY <2>1, PopStack, SMT DEF Top
  <1>5. Top.obj # NULL /\ Top.obj.kind \in {"array", "object"}
    BY <1>1, <1>4 DEF Control, KindsFit, Proper, Top, Frame
  <1>6. Astray' => Misnamed'
    BY DEF Misnamed, Astray, OddName, NameDue
  <1>7. stack' # <<>> /\ NameDue(Top') => Misnamed'
    BY <1>5 DEF Misnamed, NameDue, Top
  <1>8. QED BY <1>3, <1>6, <1>7

LEMMA FailureStays ==
  ASSUME [Next]_vars
  PROVE  (errorStr # "none" => errorStr' # "none") /\ (pyErr => pyErr')
PROOF
  <1>1. \A msg \in Errors : SetError(msg) => errorStr' # "none" BY DEF SetError, Errors
  <1>2. CASE UNCHANGED vars BY <1>2 DEF vars
  <1>3. CASE SkipWhitespace \/ BeginMember \/ Unwind \/ ArrayAddItem \/ Epilogue
    BY <1>3 DEF SkipWhitespace, BeginMember, Unwind, ArrayAddItem, Epilogue
  <1>10. CASE ObjectAddKey BY <1>10, Zenon DEF ObjectAddKey
  <1>4. CASE DecodeScalar \/ DecodeJunkNumber \/ DecodeRaises
    BY <1>4 DEF DecodeScalar, DecodeJunkNumber, DecodeRaises, Return
  <1>5. CASE DecodeError \/ TooDeep("lbrack") \/ TooDeep("lbrace")
    BY <1>1, <1>5 DEF DecodeError, TooDeep, Errors
  <1>6. ASSUME NEW fn, NEW c, Enter(fn, c) PROVE UNCHANGED <<errorStr, pyErr>>
    BY <1>6 DEF Enter
  <1>7. CASE CloseAtMember \/ GotName \/ Colon
    BY <1>1, <1>7 DEF CloseAtMember, GotName, Colon, Return, Errors
  <1>8. CASE Delimiter
    BY <1>1, <1>8 DEF Delimiter, CloseAfterMember, Comma, BadDelimiter, Return, Errors
  <1>9. CASE Trailing BY <1>9 DEF Trailing
  <1>11. QED BY <1>2, <1>3, <1>4, <1>5, <1>6, <1>7, <1>8, <1>9, <1>10 DEF Next, Step, Done

LEMMA RefusedStays == IInv /\ KindsFit /\ TrailingClean /\ Refused /\ [Next]_vars => Refused'
PROOF
  <1> SUFFICES ASSUME IInv, KindsFit, TrailingClean, Refused, [Next]_vars,
                      errorStr' = "none", ~pyErr'
               PROVE  Misnamed' \/ Stuck'
    BY DEF Refused
  <1>1. TypeOK /\ Control /\ (stack # <<>> => Len(stack) \in 1..Len(stack) /\ Top \in Frame)
    <2>1. TypeOK /\ Control BY DEF IInv
    <2>2. stack \in Seq(Frame) BY <2>1 DEF TypeOK
    <2>3. QED BY <2>1, <2>2, PopStack, SMT DEF Top
  <1>2. errorStr = "none" /\ ~pyErr BY FailureStays
  <1>3. ~Unwinding BY <1>1, <1>2 DEF Control
  <1>4. Astray \/ OddReturn \/ Stuck BY <1>2, MisnamedIs DEF Refused
  <1>5. Astray' => Misnamed' BY DEF Misnamed, Astray, OddName, NameDue
  <1>6. UNCHANGED stack /\ Astray => Misnamed' BY <1>5 DEF Astray
  <1>7. Stuck => \A c : Peek(c) => c = "junk"
    BY <1>1, SMT DEF Stuck, Peek, TypeOK
  <1>8. CASE SkipWhitespace
    <2>1. Peek("ws") /\ UNCHANGED <<stack, pc, ret>> /\ pc # "return" BY <1>8 DEF SkipWhitespace
    <2>2. QED BY <1>4, <1>6, <1>7, <2>1 DEF OddReturn
  <1>9. CASE DecodeScalar \/ DecodeJunkNumber \/ DecodeError \/ DecodeRaises \/ BeginMember
             \/ TooDeep("lbrack") \/ TooDeep("lbrace")
    <2>1. pc \notin {"return", "colon", "delimiter", "trailing"} /\ UNCHANGED stack
      BY <1>9 DEF DecodeScalar, DecodeJunkNumber, DecodeError, DecodeRaises, BeginMember, TooDeep
    <2>2. QED BY <1>4, <1>6, <2>1 DEF OddReturn, Stuck
  <1>10. ASSUME NEW fn \in {"array", "object"}, NEW c, Enter(fn, c) PROVE Misnamed'
    <2>1. PICK f : f = NewFrame(fn) OBVIOUS
    <2>2. Pushes(f) /\ pc = "decode_any" BY <1>10, <2>1, StackSteps DEF Enter
    <2>3. QED BY <1>1, <1>4, <1>5, <2>2, AstrayPush DEF OddReturn, Stuck
  <1>11. CASE CloseAtMember
    <2>1. pc = "member" /\ Pops BY <1>11, StackSteps DEF CloseAtMember
    <2>2. Astray /\ Top.name = NULL BY <1>1, <1>4, <2>1 DEF OddReturn, Stuck, Control
    <2>3. pc' = "return" /\ ret' = Top.obj
      BY <1>11 DEF CloseAtMember, Return, SetError, Errors
    <2>4. QED BY <2>1, <2>2, <2>3, ClosingAstray
  <1>12. CASE Unwind BY <1>3, <1>12 DEF Unwind, Unwinding
  <1>13. CASE ArrayAddItem
    <2>1. /\ UNCHANGED <<stack, input, start>> /\ pc' = "delimiter" /\ ~OddReturn
      BY <1>13 DEF ArrayAddItem, OddReturn, NameDue
    <2>2. QED BY <1>4, <1>6, <2>1 DEF Stuck
  <1>14. CASE GotName
    <2>1. /\ lastType = "JT_UTF8" /\ pc' = "colon" /\ UNCHANGED <<input, start>> /\ stack # <<>>
          /\ pc = "return" /\ ret # NULL /\ Top.name = NULL
          /\ stack' = [stack EXCEPT ![Len(stack)].name = ret]
      BY <1>14 DEF GotName, SetError
    <2>2. PICK f : f = Named(ret) OBVIOUS
    <2>3. Changes(f) BY <1>14, <2>2, <1>2, StackSteps, <2>1, SetName DEF Changes, Named, Top, TypeOK, IInv
    <2>4. CASE Stuck BY <2>1, <2>4 DEF Stuck
    <2>5. CASE Astray
      <3>1. ~OddName(Top) BY <2>1 DEF OddName, NULL
      <3>2. QED BY <1>1, <1>5, <2>3, <2>5, <3>1, AstrayChange
    <2>6. CASE OddReturn
      <3>1. f.name = ret BY <1>1, <2>1, <2>2 DEF Named, Frame
      <3>2. ret.kind \in {"array", "object"} BY <2>1, <2>6 DEF KindsFit, OddReturn
      <3>3. Len(stack) \in 1..Len(stack') /\ stack'[Len(stack)] = f BY <1>1, <2>1, <2>3 DEF Changes
      <3>4. OddName(f) BY <3>1, <3>2 DEF OddName
      <3>5. QED BY <1>5, <3>3, <3>4 DEF Astray
    <2>7. QED BY <1>4, <2>4, <2>5, <2>6
  <1>15. CASE Colon
    <2>1. pc = "colon" /\ Peek("colon") /\ UNCHANGED stack
      BY <1>15 DEF Colon, SetError
    <2>2. QED BY <1>4, <1>6, <1>7, <2>1 DEF OddReturn
  <1>16. CASE ObjectAddKey
    <2>1. /\ UNCHANGED <<input, start>> /\ pc = "return" /\ pc' = "delimiter" /\ stack # <<>>
          /\ Top.name # NULL /\ Top.name.kind \notin {"array", "object"}
      BY <1>16 DEF ObjectAddKey
    <2>2. PICK f : f = Named(NULL) OBVIOUS
    <2>3. Changes(f) BY <1>16, <2>2, StackSteps
    <2>4. CASE Stuck BY <2>1, <2>4 DEF Stuck
    <2>5. CASE Astray
      <3>1. Top.name.kind = "str" BY <1>1, <2>1 DEF KindsFit, Proper, Top
      <3>2. ~OddName(Top) BY <3>1 DEF OddName
      <3>3. QED BY <1>1, <1>5, <2>3, <2>5, <3>2, AstrayChange
    <2>6. ~OddReturn BY <2>1 DEF OddReturn, NameDue
    <2>7. QED BY <1>4, <2>4, <2>5, <2>6
  <1>17. CASE Delimiter
    <2>1. pc = "delimiter" /\ stack # <<>> /\ Top.name = NULL
      BY <1>1, <1>17 DEF Delimiter, Control
    <2>2. ~OddName(Top) /\ ~OddReturn BY <2>1 DEF OddName, OddReturn, NULL
    <2>3. CASE CloseAfterMember
      <3>1. Pops /\ pc' = "return" /\ ret' = Top.obj /\ Peek(Closer) /\ Closer # "junk"
        BY <1>17, <2>3, StackSteps DEF CloseAfterMember, Return, Closer
      <3>2. Astray BY <1>4, <1>7, <2>2, <3>1
      <3>3. QED BY <2>1, <3>1, <3>2, ClosingAstray
    <2>4. CASE Comma
      <3>1. PICK f : f = Longer OBVIOUS
      <3>2. Changes(f) /\ Peek("comma") BY <1>17, <2>4, <3>1, StackSteps DEF Comma
      <3>3. Astray BY <1>4, <1>7, <2>2, <3>2
      <3>4. QED BY <1>1, <1>5, <2>2, <3>2, <3>3, AstrayChange
    <2>5. CASE BadDelimiter BY <1>17, <2>5, StackSteps
    <2>6. QED BY <1>17, <2>3, <2>4, <2>5 DEF Delimiter
  <1>18. CASE Epilogue
    <2>1. /\ stack = <<>> /\ UNCHANGED <<input, start>> /\ pc' = "trailing"
      BY <1>2, <1>18 DEF Epilogue
    <2>2. ~Astray /\ ~OddReturn BY <2>1, SMT DEF Astray, OddReturn
    <2>3. QED BY <1>4, <2>1, <2>2 DEF Stuck
  <1>19. CASE Trailing
    <2>1. /\ stack = <<>> /\ pc = "trailing" /\ Peek("eof")
      BY <1>1, <1>3, <1>19 DEF Trailing, Control, Unwinding
    <2>2. ~Astray /\ ~OddReturn BY <2>1, SMT DEF Astray, OddReturn
    <2>3. QED BY <1>4, <1>7, <2>1, <2>2
  <1>20. CASE UNCHANGED vars BY <1>4, <1>6, <1>20 DEF vars, Stuck, OddReturn, Misnamed, NameDue, Top
  <1>21. QED
    BY <1>8, <1>9, <1>10, <1>11, <1>12, <1>13, <1>14, <1>15, <1>16, <1>17, <1>18, <1>19, <1>20
    DEF Next, Step, Done

-----------------------------------------------------------------------------
(* Where the text is. *)

Kind(f) == IF f.fn = "array" THEN "ARRAY" ELSE "OBJECT"
Opens(s) == [i \in DOMAIN s |-> Kind(s[i])]

LEMMA OpensType ==
  ASSUME NEW s \in Seq(Frame)
  PROVE  /\ Opens(s) \in Seq(Text!Kinds) /\ Len(Opens(s)) = Len(s) /\ Len(s) \in Nat
         /\ (Opens(s) = <<>> <=> s = <<>>)
         /\ \A i \in 1..Len(s) : Opens(s)[i] = Kind(s[i])
PROOF
  <1>1. Len(s) \in Nat /\ DOMAIN s = 1..Len(s) OBVIOUS
  <1>2. \A i \in 1..Len(s) : Kind(s[i]) \in Text!Kinds BY DEF Kind, Text!Kinds
  <1>3. Opens(s) \in [1..Len(s) -> Text!Kinds] BY <1>1, <1>2 DEF Opens
  <1>4. Opens(s) \in Seq(Text!Kinds) BY <1>1, <1>3, SeqDef
  <1>5. DOMAIN Opens(s) = 1..Len(s) /\ Len(Opens(s)) = Len(s) BY <1>1, <1>3, <1>4, SMT
  <1>6. \A i \in 1..Len(s) : Opens(s)[i] = Kind(s[i]) BY <1>1 DEF Opens
  <1>7. Opens(s) = <<>> <=> s = <<>> BY <1>1, <1>4, <1>5, SMT
  <1>8. QED BY <1>1, <1>4, <1>5, <1>6, <1>7

LEMMA OpensEqual ==
  ASSUME NEW s \in Seq(Frame), NEW o \in Seq(Text!Kinds), Len(o) = Len(s),
         \A i \in 1..Len(s) : o[i] = Kind(s[i])
  PROVE  Opens(s) = o
PROOF BY OpensType, SeqEqual

LEMMA OpenedPush ==
  ASSUME TypeOK, TypeOK', NEW f, Pushes(f)
  PROVE  Opened' = Append(Opened, Kind(f)) /\ Len(Opened) = Len(stack)
PROOF
  <1>1. PICK s \in Seq(Frame) : s = stack BY DEF TypeOK
  <1>2. PICK t \in Seq(Frame) : t = stack' BY DEF TypeOK
  <1>3. /\ Len(s) \in Nat /\ Len(t) = Len(s) + 1 /\ t[Len(s) + 1] = f
        /\ \A i \in 1..Len(s) : t[i] = s[i]
    BY <1>1, <1>2, OpensType DEF Pushes
  <1>4. PICK o : o = Append(Opens(s), Kind(f)) OBVIOUS
  <1>5. Kind(f) \in Text!Kinds BY DEF Kind, Text!Kinds
  <1>6. /\ o \in Seq(Text!Kinds) /\ Len(o) = Len(s) + 1
        /\ \A i \in 1..Len(s) : o[i] = Kind(s[i])
        /\ o[Len(s) + 1] = Kind(f)
    BY <1>4, <1>5, OpensType, AppendProperties
  <1>7. ASSUME NEW i \in 1..Len(t) PROVE o[i] = Kind(t[i])
    <2>1. i \in 1..Len(s) \/ i = Len(s) + 1 BY <1>3, SMT
    <2>2. QED BY <1>3, <1>6, <2>1
  <1>8. Opens(t) = o BY <1>3, <1>6, <1>7, OpensEqual
  <1>9. QED BY <1>1, <1>2, <1>4, <1>8, OpensType DEF Opened, Opens, Kind

LEMMA OpenedPop ==
  ASSUME TypeOK, TypeOK', Pops
  PROVE  Opened' = SubSeq(Opened, 1, Len(Opened) - 1)
PROOF
  <1>1. PICK s \in Seq(Frame) : s = stack BY DEF TypeOK
  <1>2. PICK t \in Seq(Frame) : t = stack' BY DEF TypeOK
  <1>3. PICK o \in Seq(Text!Kinds) : /\ o = Opens(s) /\ Len(o) = Len(s) /\ Len(s) \in Nat \ {0}
                                    /\ \A i \in 1..Len(s) : o[i] = Kind(s[i])
    <2>1. s # <<>> BY <1>1 DEF Pops
    <2>2. QED BY <2>1, OpensType, EmptySeq, SMT
  <1>4. PICK n \in Nat : n = Len(s) - 1 BY <1>3, SMT
  <1>5. /\ SubSeq(o, 1, n) \in Seq(Text!Kinds) /\ Len(SubSeq(o, 1, n)) = n
        /\ \A i \in 1..n : SubSeq(o, 1, n)[i] = o[i]
    BY <1>3, <1>4, SMT
  <1>6. Len(t) = n /\ \A i \in 1..n : t[i] = s[i] BY <1>1, <1>2, <1>4 DEF Pops
  <1>7. ASSUME NEW i \in 1..Len(t) PROVE SubSeq(o, 1, n)[i] = Kind(t[i])
    <2>1. i \in 1..Len(s) /\ i \in 1..n BY <1>3, <1>4, <1>6, SMT
    <2>2. QED BY <1>3, <1>5, <1>6, <2>1
  <1>8. Opens(t) = SubSeq(o, 1, n) BY <1>5, <1>6, <1>7, OpensEqual
  <1>9. QED BY <1>1, <1>2, <1>3, <1>4, <1>8 DEF Opened, Opens, Kind

LEMMA OpenedSame ==
  ASSUME TypeOK, TypeOK',
         UNCHANGED stack \/ \E f : Changes(f) /\ f.fn = Top.fn
  PROVE  Opened' = Opened
PROOF
  <1>1. CASE UNCHANGED stack BY <1>1 DEF Opened
  <1>2. ASSUME NEW f, Changes(f), f.fn = Top.fn PROVE Opened' = Opened
    <2>1. PICK s \in Seq(Frame) : s = stack BY DEF TypeOK
    <2>2. PICK t \in Seq(Frame) : t = stack' BY DEF TypeOK
    <2>3. /\ Opens(s) \in Seq(Text!Kinds) /\ Len(Opens(s)) = Len(s) /\ Len(s) \in Nat
          /\ \A i \in 1..Len(s) : Opens(s)[i] = Kind(s[i])
      BY OpensType
    <2>4. /\ Len(t) = Len(s) /\ (\A i \in 1..Len(s) - 1 : t[i] = s[i]) /\ t[Len(s)] = f
          /\ Kind(f) = Kind(s[Len(s)])
      BY <1>2, <2>1, <2>2 DEF Changes, Kind, Top
    <2>5. ASSUME NEW i \in 1..Len(t) PROVE Opens(s)[i] = Kind(t[i])
      <3>1. i \in 1..Len(s) - 1 \/ i = Len(s) BY <2>3, <2>4, SMT
      <3>2. i \in 1..Len(s) BY <2>4
      <3>3. QED BY <2>3, <2>4, <3>1, <3>2
    <2>6. Opens(t) = Opens(s) BY <2>3, <2>4, <2>5, OpensEqual
    <2>7. QED BY <2>1, <2>2, <2>6 DEF Opened, Opens, Kind
  <1>3. QED BY <1>1, <1>2

LEMMA InsideTop ==
  ASSUME TypeOK
  PROVE  /\ Place.open = Opened /\ Place.at = At
         /\ (Opened = <<>> <=> stack = <<>>)
         /\ \A kind : Text!Inside(Place, kind) <=> stack # <<>> /\ Kind(Top) = kind
PROOF
  <1>1. PICK s \in Seq(Frame) : s = stack BY DEF TypeOK
  <1>2. Place.open = Opens(s) /\ Place.at = At /\ Opened = Opens(s)
    BY <1>1 DEF Place, Opened, Opens, Kind
  <1>3. /\ Len(Opens(s)) = Len(s) /\ (Opens(s) = <<>> <=> s = <<>>)
        /\ \A i \in 1..Len(s) : Opens(s)[i] = Kind(s[i])
    BY OpensType
  <1>4. s # <<>> => Len(s) \in 1..Len(s) BY SMT
  <1>5. QED BY <1>1, <1>2, <1>3, <1>4 DEF Text!Inside, Top

\* A value is due wherever decode_any is called other than for a name.
LEMMA ValueDue ==
  ASSUME IInv, pc = "decode_any", ~(stack # <<>> /\ NameDue(Top))
  PROVE  Text!ValueDue(Place)
PROOF
  <1>1. TypeOK /\ Control BY DEF IInv
  <1>2. CASE stack = <<>>
    <2>1. At = "value" BY <1>2 DEF At
    <2>2. QED BY <1>1, <2>1, InsideTop DEF Text!ValueDue
  <1>3. CASE stack # <<>> /\ Top.name # NULL
    <2>1. At = "value" BY <1>3 DEF At
    <2>2. QED BY <1>1, <2>1, InsideTop DEF Text!ValueDue
  <1>4. CASE stack # <<>> /\ Top.name = NULL
    <2>1. Top.fn = "array"
      <3>1. Top \in Frame BY <1>1, <1>4, PopStack DEF Top, TypeOK
      <3>2. QED BY <1>4, <3>1 DEF NameDue, Frame
    <2>2. At = "first" \/ At = "value" BY <1>4, <2>1 DEF At
    <2>3. Text!Inside(Place, "ARRAY") BY <1>1, <1>4, <2>1, InsideTop DEF Kind
    <2>4. QED BY <1>1, <2>2, <2>3, InsideTop DEF Text!ValueDue
  <1>5. QED BY <1>2, <1>3, <1>4

\* Where a value has been read that is no name.
LEMMA EndsAt ==
  ASSUME TypeOK', pc' = "return", ~(stack' # <<>> /\ NameDue(Top'))
  PROVE  Place' = Text!Ended(Opened')
PROOF
  <1>1. PICK s \in Seq(Frame) : s = stack' BY DEF TypeOK
  <1>2. Opened' = Opens(s) BY <1>1 DEF Opened, Opens, Kind
  <1>3. Opened' = <<>> <=> stack' = <<>> BY <1>1, <1>2, OpensType
  <1>4. stack' = <<>> => At' = "end" BY DEF At
  <1>5. stack' # <<>> => At' = "delimiter" BY DEF At, NameDue
  <1>6. QED BY <1>3, <1>4, <1>5 DEF Place, Text!Ended

-----------------------------------------------------------------------------
(* What a step makes of the text. *)

Before == SubSeq(input, 1, start - 1)

LEMMA ReadOn ==
  ASSUME TypeOK, Inside, ~Unwinding \/ errorStr = "none", NEW c, Peek(c)
  PROVE  /\ UNCHANGED start => Before' = Before
         /\ start' = start + 1 => Before' = Append(Before, c)
PROOF
  <1>1. PICK s \in Seq(Lexemes) : s = input BY DEF TypeOK
  <1>2. PICK t \in Seq(Lexemes) : t = input' BY PeekInside
  <1>3. PICK n \in Nat : n = start - 1 BY SMT DEF TypeOK
  <1>4. start = n + 1 /\ n <= Len(s) /\ n < Len(t) /\ Len(s) \in Nat /\ Len(t) \in Nat
    BY <1>1, <1>2, <1>3, PeekInside, SMT DEF TypeOK, Inside
  <1>5. t[n + 1] = c /\ \A i \in 1..n : t[i] = s[i]
    <2>1. CASE input' = input /\ c = input[start] BY <1>1, <1>2, <1>4, <2>1
    <2>2. CASE input' = Append(input, c) /\ start = Len(input) + 1 /\ c \in Lexemes
      <3>1. t = Append(s, c) /\ n = Len(s) BY <1>1, <1>2, <1>4, <2>2, SMT
      <3>2. QED BY <2>2, <3>1, AppendProperties
    <2>3. QED BY <2>1, <2>2 DEF Peek
  <1>6. PICK u : u = SubSeq(s, 1, n) OBVIOUS
  <1>7. /\ u \in Seq(Lexemes) /\ Len(u) = n /\ \A i \in 1..n : u[i] = s[i]
    BY <1>1, <1>4, <1>6, SMT
  <1>8. c \in Lexemes BY <1>2, <1>4, <1>5, SMT
  <1>9. SubSeq(t, 1, n) = u
    <2>1. PICK v : v = SubSeq(t, 1, n) OBVIOUS
    <2>2. v \in Seq(Lexemes) /\ Len(v) = n /\ \A i \in 1..n : v[i] = t[i]
      BY <1>4, <2>1, SMT
    <2>3. QED BY <1>5, <1>7, <2>1, <2>2, SeqEqual
  <1>10. SubSeq(t, 1, n + 1) = Append(u, c)
    <2>1. PICK v : v = SubSeq(t, 1, n + 1) OBVIOUS
    <2>2. v \in Seq(Lexemes) /\ Len(v) = n + 1 /\ \A i \in 1..n + 1 : v[i] = t[i]
      BY <1>4, <2>1, SMT
    <2>3. PICK w : w = Append(u, c) OBVIOUS
    <2>4. /\ w \in Seq(Lexemes) /\ Len(w) = n + 1 /\ w[n + 1] = c
          /\ \A i \in 1..n : w[i] = u[i]
      BY <1>7, <1>8, <2>3, AppendProperties
    <2>5. ASSUME NEW i \in 1..n + 1 PROVE v[i] = w[i]
      <3>1. i \in 1..n \/ i = n + 1 BY SMT
      <3>2. QED BY <1>5, <1>7, <2>2, <2>4, <3>1
    <2>6. QED BY <2>1, <2>2, <2>3, <2>4, <2>5, SeqEqual
  <1>11. Before = u BY <1>1, <1>3, <1>6 DEF Before
  <1>12. UNCHANGED start => Before' = SubSeq(t, 1, n) BY <1>2, <1>3 DEF Before
  <1>13. start' = start + 1 => Before' = SubSeq(t, 1, n + 1)
    <2>1. start' = start + 1 => start' - 1 = n + 1 BY <1>3, <1>4, SMT
    <2>2. QED BY <1>2, <2>1 DEF Before
  <1>14. QED BY <1>9, <1>10, <1>11, <1>12, <1>13

\* A lexeme is read and leads on, or the text stays where it is.
ReadsOne ==
  \E c \in Text!Lexemes :
    /\ Peek(c) /\ start' = start + 1 /\ Before' = Append(Before, c)
    /\ Text!Follows(Place, c, Place')
ReadsNone == UNCHANGED start /\ Before' = Before /\ Place' = Place

LEMMA PlaceFrom ==
  ASSUME NEW open, NEW place, Opened' = open, At' = place
  PROVE  Place' = [open |-> open, at |-> place]
PROOF BY DEF Place

\* A container that was no name is closed.
LEMMA TextClose ==
  ASSUME IInv, IInv', KindsFit, ~Misnamed', pc \in {"member", "delimiter"},
         pc = "member" => At = "first", Pops, pc' = "return", ret' = Top.obj,
         Peek(Closer), start' = start + 1, Before' = Append(Before, Closer)
  PROVE  ReadsOne
PROOF
  <1>1. TypeOK /\ TypeOK' /\ Control BY DEF IInv
  <1>2. Top \in Frame /\ Len(stack) \in 1..Len(stack)
    <2>1. stack # <<>> /\ stack \in Seq(Frame) BY <1>1 DEF Pops, TypeOK
    <2>2. QED BY <2>1, PopStack, SMT DEF Top
  <1>3. Top.obj # NULL /\ Top.obj.kind # "str"
    BY <1>1, <1>2 DEF Control, KindsFit, Proper, Top, Frame
  <1>4. ~(stack' # <<>> /\ NameDue(Top')) BY <1>3 DEF Misnamed, NameDue, Top
  <1>5. Place' = Text!Ended(SubSeq(Opened, 1, Len(Opened) - 1))
    BY <1>1, <1>4, EndsAt, OpenedPop
  <1>6. At \in {"first", "delimiter"}
    BY <1>1 DEF Control, At
  <1>7. Kind(Top) \in Text!Kinds /\ Text!Inside(Place, Kind(Top)) /\ Closer = Text!Closer(Kind(Top))
    <2>1. Kind(Top) \in Text!Kinds BY DEF Kind, Text!Kinds
    <2>2. Closer = Text!Closer(Kind(Top)) BY DEF Kind, Closer, Text!Closer
    <2>3. QED BY <1>1, <2>1, <2>2, InsideTop DEF Pops
  <1>8. Text!Closing(Place, Closer, Place')
    BY <1>1, <1>5, <1>6, <1>7, InsideTop DEF Text!Closing
  <1>9. Closer \in Text!Lexemes BY DEF Closer, Text!Lexemes
  <1>10. QED BY <1>8, <1>9 DEF ReadsOne, Text!Follows

\* Unless the step fails, it moves the text as JsonText says.
LEMMA StepMoves ==
  ASSUME IInv, IInv', KindsFit, TrailingClean, Inside, Step, ~Refused,
         errorStr' = "none", ~pyErr', ~Misnamed', ~DecodeJunkNumber
  PROVE  ReadsOne \/ ReadsNone
PROOF
  <1>1. /\ TypeOK /\ TypeOK' /\ Control /\ Control' /\ DepthBounded /\ DepthBounded'
        /\ errorStr = "none" /\ errorStr' = "none" /\ ~pyErr /\ ~pyErr'
    BY DEF IInv, Refused
  <1>2. ~Unwinding /\ ~Unwinding' BY <1>1 DEF Control
  <1>3. stack # <<>> => Top \in Frame /\ Len(stack) \in 1..Len(stack)
    <2>1. stack \in Seq(Frame) BY <1>1 DEF TypeOK
    <2>2. QED BY <2>1, PopStack, SMT DEF Top
  <1>4. /\ \A c : Peek(c) /\ UNCHANGED start => Before' = Before
        /\ \A c : Peek(c) /\ start' = start + 1 => Before' = Append(Before, c)
    BY <1>1, <1>2, ReadOn
  <1>5. UNCHANGED <<input, start>> => Before' = Before BY DEF Before
  <1>6. ~Misnamed /\ ~Misnamed' BY DEF Refused
  <1>7. UNCHANGED stack => Opened' = Opened /\ Top' = Top BY DEF Opened, Top
  <1>8. CASE SkipWhitespace
    <2>1. Peek("ws") /\ start' = start + 1 /\ UNCHANGED <<stack, pc>>
      BY <1>8 DEF SkipWhitespace
    <2>2. Before' = Append(Before, "ws") /\ At' = At BY <1>4, <2>1 DEF At, Top
    <2>3. Place' = Place BY <1>7, <2>1, <2>2 DEF Place
    <2>4. Text!Follows(Place, "ws", Place') BY <2>3 DEF Text!Follows, Text!Blank
    <2>5. QED BY <2>1, <2>2, <2>4 DEF ReadsOne, Text!Lexemes
  <1>9. CASE DecodeScalar
    <2>1. PICK c \in {"str", "atom"} :
            /\ Peek(c) /\ ret' = Fresh(c) /\ pc' = "return" /\ start' = start + 1
            /\ UNCHANGED stack /\ pc = "decode_any"
      BY <1>9 DEF DecodeScalar, Return
    <2>2. Before' = Append(Before, c) BY <1>4, <2>1
    <2>3. CASE stack # <<>> /\ NameDue(Top)
      <3>1. c = "str"
        <4>1. ret' # NULL /\ ret'.kind = c BY <1>2, <2>1 DEF Fresh, Unwinding
        <4>2. QED BY <1>6, <1>7, <2>1, <2>3, <4>1 DEF Misnamed, NameDue, Top
      <3>2. At \in {"first", "name"} BY <2>1, <2>3 DEF At, NameDue
      <3>3. Text!Inside(Place, "OBJECT") BY <1>1, <2>3, InsideTop DEF Kind, NameDue
      <3>4. At' = "colon" BY <1>7, <2>1, <2>3 DEF At, NameDue
      <3>5. Place' = [open |-> Opened, at |-> "colon"] BY <1>7, <2>1, <3>4 DEF Place
      <3>6. Text!Name(Place, c, Place') BY <1>1, <3>1, <3>2, <3>3, <3>5, InsideTop DEF Text!Name
      <3>7. QED BY <2>1, <2>2, <3>1, <3>6 DEF ReadsOne, Text!Follows, Text!Lexemes
    <2>4. CASE ~(stack # <<>> /\ NameDue(Top))
      <3>1. Text!ValueDue(Place) BY <2>1, <2>4, ValueDue
      <3>2. Place' = Text!Ended(Opened) BY <1>1, <1>7, <2>1, <2>4, EndsAt
      <3>3. Text!Scalar(Place, c, Place') BY <1>1, <3>1, <3>2, InsideTop DEF Text!Scalar
      <3>4. QED BY <2>1, <2>2, <3>3 DEF ReadsOne, Text!Follows, Text!Lexemes
    <2>5. QED BY <2>3, <2>4
  <1>11. CASE DecodeError \/ DecodeRaises \/ TooDeep("lbrack") \/ TooDeep("lbrace")
    BY <1>1, <1>11 DEF DecodeError, DecodeRaises, TooDeep, SetError
  <1>12. ASSUME NEW fn \in {"array", "object"}, NEW c,
                c = IF fn = "array" THEN "lbrack" ELSE "lbrace", Enter(fn, c)
         PROVE  ReadsOne
    <2>1. /\ Peek(c) /\ pc = "decode_any" /\ pc' = "member" /\ start' = start + 1
          /\ ~(objDepth + 1 > MaxDepth)
      BY <1>12 DEF Enter, DepthExceeded
    <2>2. Before' = Append(Before, c) BY <1>4, <2>1
    <2>3. PICK f : f = NewFrame(fn) OBVIOUS
    <2>4. Pushes(f) /\ f.fn = fn /\ f.name = NULL /\ f.len = 0
      BY <1>12, <2>3, StackSteps DEF NewFrame
    <2>5. ~(stack # <<>> /\ NameDue(Top))
      <3>1. ~Astray' BY <1>6 DEF Misnamed, Astray, OddName, NameDue
      <3>2. QED BY <1>1, <2>4, <3>1, AstrayPush
    <2>6. Text!ValueDue(Place) BY <2>1, <2>5, ValueDue
    <2>7. Opened' = Append(Opened, Kind(f)) /\ Len(Opened) = Len(stack)
      BY <1>1, <2>4, OpenedPush
    <2>8. Len(Opened) < MaxDepth
      <3>1. objDepth = Len(stack) BY <1>1, <1>2 DEF DepthBounded
      <3>2. QED BY <1>1, <2>1, <2>7, <3>1, DepthAssumption, SMT DEF TypeOK
    <2>9. At' = "first"
      <3>1. Len(stack) \in Nat /\ Len(stack') = Len(stack) + 1 BY <1>1, <2>4, StackFacts DEF Pushes
      <3>2. stack' # <<>> /\ Top' = f
        BY <1>1, <2>4, <3>1, SMT DEF Pushes, Top
      <3>3. QED BY <2>1, <2>4, <3>2 DEF At
    <2>10. Place' = [open |-> Append(Opened, Kind(f)), at |-> "first"]
      BY <2>7, <2>9 DEF Place
    <2>11. Kind(f) \in Text!Kinds /\ c = Text!Opener(Kind(f))
      BY <1>12, <2>4 DEF Kind, Text!Kinds, Text!Opener
    <2>12. Text!Opening(Place, c, Place')
      BY <1>1, <2>6, <2>8, <2>10, <2>11, InsideTop DEF Text!Opening
    <2>13. c \in Text!Lexemes BY <1>12 DEF Text!Lexemes
    <2>14. QED BY <2>1, <2>2, <2>12, <2>13 DEF ReadsOne, Text!Follows
  <1>13. CASE CloseAtMember
    <2>1. /\ Top.len = 0 /\ Peek(Closer) /\ start' = start + 1 /\ pc = "member"
          /\ pc' = "return" /\ ret' = Top.obj
      BY <1>1, <1>13 DEF CloseAtMember, SetError, Return
    <2>2. Pops /\ stack # <<>> BY <1>13, StackSteps DEF Pops
    <2>3. At = "first" BY <1>1, <2>1, <2>2 DEF At, Control
    <2>4. Before' = Append(Before, Closer) BY <1>4, <2>1
    <2>5. QED BY <2>1, <2>2, <2>3, <2>4, TextClose
  <1>14. CASE BeginMember
    <2>1. /\ UNCHANGED <<stack, start>> /\ pc = "member" /\ pc' = "decode_any"
          /\ \E c : Peek(c)
      BY <1>14 DEF BeginMember
    <2>2. stack # <<>> BY <1>1, <2>1 DEF Control
    <2>3. At' = At BY <1>7, <2>1, <2>2 DEF At
    <2>4. Place' = Place BY <1>7, <2>1, <2>3 DEF Place
    <2>5. QED BY <1>4, <2>1, <2>4 DEF ReadsNone
  <1>15. CASE Unwind BY <1>2, <1>15 DEF Unwind, Unwinding
  <1>16. CASE ArrayAddItem
    <2>1. /\ UNCHANGED <<input, start, stack>> /\ pc = "return" /\ pc' = "delimiter"
          /\ stack # <<>> /\ Top.fn = "array"
      BY <1>16 DEF ArrayAddItem
    <2>2. At = "delimiter" /\ At' = "delimiter" BY <2>1 DEF At
    <2>3. Place' = Place BY <1>7, <2>1, <2>2 DEF Place
    <2>4. QED BY <1>5, <2>1, <2>3 DEF ReadsNone
  <1>17. CASE GotName
    <2>1. /\ UNCHANGED <<input, start>> /\ pc = "return" /\ pc' = "colon"
          /\ stack # <<>> /\ Top.fn = "object" /\ Top.name = NULL
      BY <1>1, <1>17 DEF GotName, SetError
    <2>2. PICK f : f = Named(ret) OBVIOUS
    <2>3. Changes(f) /\ f.fn = Top.fn
      <3>1. Changes(f) BY <1>1, <1>17, <2>2, StackSteps
      <3>2. QED BY <1>3, <2>1, <2>2, <3>1 DEF Named, Frame
    <2>4. Opened' = Opened BY <1>1, <2>3, OpenedSame
    <2>5. At = "colon" /\ At' = "colon" BY <2>1, <2>3 DEF At, Changes
    <2>6. Place' = Place BY <2>4, <2>5 DEF Place
    <2>7. QED BY <1>5, <2>1, <2>6 DEF ReadsNone
  <1>18. CASE Colon
    <2>1. /\ Peek("colon") /\ start' = start + 1 /\ pc = "colon" /\ pc' = "decode_any"
          /\ UNCHANGED stack
      BY <1>1, <1>18 DEF Colon, SetError
    <2>2. Before' = Append(Before, "colon") BY <1>4, <2>1
    <2>3. stack # <<>> /\ Top.name # NULL BY <1>1, <2>1 DEF Control
    <2>4. At = "colon" /\ At' = "value" BY <1>7, <2>1, <2>3 DEF At
    <2>5. Place' = [open |-> Opened, at |-> "value"] BY <1>7, <2>1, <2>4 DEF Place
    <2>6. Text!Colon(Place, "colon", Place') BY <1>1, <2>4, <2>5, InsideTop DEF Text!Colon
    <2>7. QED BY <2>1, <2>2, <2>6 DEF ReadsOne, Text!Follows, Text!Lexemes
  <1>19. CASE ObjectAddKey
    <2>1. /\ UNCHANGED <<input, start>> /\ pc = "return" /\ pc' = "delimiter"
          /\ stack # <<>> /\ Top.fn = "object" /\ Top.name # NULL
      BY <1>19 DEF ObjectAddKey
    <2>2. PICK f : f = Named(NULL) OBVIOUS
    <2>3. Changes(f) /\ f.fn = Top.fn
      <3>1. Changes(f) BY <1>19, <2>2, StackSteps
      <3>2. QED BY <1>3, <2>1, <2>2, <3>1 DEF Named, Frame
    <2>4. Opened' = Opened BY <1>1, <2>3, OpenedSame
    <2>5. At = "delimiter" /\ At' = "delimiter" BY <2>1, <2>3 DEF At, Changes
    <2>6. Place' = Place BY <2>4, <2>5 DEF Place
    <2>7. QED BY <1>5, <2>1, <2>6 DEF ReadsNone
  <1>20. CASE Delimiter
    <2>1. /\ pc = "delimiter" /\ start' = start + 1 /\ stack # <<>> /\ Top.name = NULL
          /\ At = "delimiter"
      BY <1>1, <1>20 DEF Delimiter, Control, At
    <2>2. CASE CloseAfterMember
      <3>1. /\ Peek(Closer) /\ pc' = "return" /\ ret' = Top.obj /\ Pops
        BY <1>20, <2>2, StackSteps DEF CloseAfterMember, Return
      <3>2. Before' = Append(Before, Closer) BY <1>4, <2>1, <3>1
      <3>3. QED BY <2>1, <3>1, <3>2, TextClose
    <2>3. CASE Comma
      <3>1. Peek("comma") /\ pc' = "member" BY <2>3 DEF Comma
      <3>2. Before' = Append(Before, "comma") BY <1>4, <2>1, <3>1
      <3>3. PICK f : f = Longer OBVIOUS
      <3>4. Changes(f) BY <1>20, <2>3, <3>3, StackSteps
      <3>5. f.fn = Top.fn /\ f.name = NULL /\ f.len # 0
        BY <1>3, <2>1, <3>3, SMT DEF Longer, Frame
      <3>6. Opened' = Opened BY <1>1, <3>4, <3>5, OpenedSame
      <3>7. stack' # <<>> /\ Top' = f BY <3>4 DEF Changes, Top
      <3>8. At' = IF f.fn = "array" THEN "value" ELSE "name"
        BY <3>1, <3>5, <3>7 DEF At
      <3>9. Text!Inside(Place, "ARRAY") <=> f.fn = "array"
        BY <1>1, <2>1, <3>5, InsideTop DEF Kind
      <3>10. Text!Comma(Place, "comma", Place')
        BY <1>1, <2>1, <3>6, <3>8, <3>9, InsideTop DEF Text!Comma, Place
      <3>11. QED BY <2>1, <3>1, <3>2, <3>10 DEF ReadsOne, Text!Follows, Text!Lexemes
    <2>4. CASE BadDelimiter BY <1>1, <1>20, <2>4, StackSteps
    <2>5. QED BY <1>20, <2>2, <2>3, <2>4 DEF Delimiter
  <1>21. CASE Epilogue
    <2>1. /\ UNCHANGED <<input, start, stack>> /\ stack = <<>> /\ pc = "return" /\ pc' = "trailing"
      BY <1>1, <1>21 DEF Epilogue
    <2>2. At = "end" /\ At' = "end" BY <2>1 DEF At
    <2>3. Place' = Place BY <1>7, <2>1, <2>2 DEF Place
    <2>4. QED BY <1>5, <2>1, <2>3 DEF ReadsNone
  <1>22. CASE Trailing
    <2>1. /\ stack = <<>> /\ UNCHANGED <<start, stack, ret>> /\ pc = "trailing" /\ pc' = "done"
          /\ ret' # NULL /\ \E c : Peek(c)
      BY <1>1, <1>2, <1>22 DEF Trailing, Control, Unwinding
    <2>2. At = "end" /\ At' = "end" BY <2>1 DEF At
    <2>3. Place' = Place BY <1>7, <2>1, <2>2 DEF Place
    <2>4. Before' = Before BY <1>4, <2>1
    <2>5. QED BY <2>1, <2>3, <2>4 DEF ReadsNone
  <1>23. QED
    BY <1>8, <1>9, <1>11, <1>12, <1>13, <1>14, <1>15, <1>16, <1>17, <1>18, <1>19,
       <1>20, <1>21, <1>22
    DEF Step

LEMMA StepEnds == Step => pc # "done" /\ (pc' = "done" => Epilogue \/ Trailing)
PROOF
  <1> SUFFICES ASSUME Step, ~Epilogue, ~Trailing PROVE pc # "done" /\ pc' # "done"
    BY DEF Epilogue, Trailing
  <1>1. \A msg, obj : SetError(msg) \/ Return(obj) => pc' = "return" BY DEF SetError, Return
  <1>2. CASE SkipWhitespace \/ BeginMember \/ Unwind \/ ArrayAddItem \/ ObjectAddKey
    BY <1>2 DEF SkipWhitespace, BeginMember, Unwind, ArrayAddItem, ObjectAddKey
  <1>3. CASE DecodeScalar \/ DecodeJunkNumber \/ DecodeError \/ DecodeRaises
    BY <1>1, <1>3 DEF DecodeScalar, DecodeJunkNumber, DecodeError, DecodeRaises
  <1>4. ASSUME NEW fn, NEW c, Enter(fn, c) \/ TooDeep(c) PROVE pc # "done" /\ pc' # "done"
    BY <1>1, <1>4 DEF Enter, TooDeep
  <1>5. CASE CloseAtMember \/ GotName \/ Colon
    BY <1>1, <1>5 DEF CloseAtMember, GotName, Colon
  <1>6. CASE Delimiter
    BY <1>1, <1>6 DEF Delimiter, CloseAfterMember, Comma, BadDelimiter
  <1>7. QED BY <1>2, <1>3, <1>4, <1>5, <1>6 DEF Step

LEMMA StepReads ==
  ASSUME IInv, IInv', KindsFit, TrailingClean, Inside, Step, ~Refused, ~Refused'
  PROVE  Text!Next \/ UNCHANGED Text!textVars
PROOF
  <1>1. TypeOK /\ errorStr = "none" /\ errorStr' = "none" /\ ~pyErr' /\ ~Misnamed' /\ ~Stuck'
    BY DEF IInv, Refused
  <1>2. ~DecodeJunkNumber
    <2> SUFFICES ASSUME DecodeJunkNumber PROVE FALSE OBVIOUS
    <2>1. Peek("junk") /\ UNCHANGED start /\ pc' = "return" BY DEF DecodeJunkNumber, Return
    <2>2. start <= Len(input') /\ input'[start] = "junk" BY <1>1, <2>1, SMT DEF Peek, TypeOK
    <2>3. QED BY <1>1, <2>1, <2>2 DEF Stuck
  <1>3. ReadsOne \/ ReadsNone BY <1>1, <1>2, StepMoves
  <1>4. CASE pc' # "done"
    <2>1. pc # "done" BY StepEnds
    <2>2. ReadsOne => Text!Next
      BY <1>4, <2>1 DEF ReadsOne, Before, Text!Write, Text!Next
    <2>3. ReadsNone => UNCHANGED Text!textVars
      BY <1>4, <2>1 DEF ReadsNone, Before, Text!textVars
    <2>4. QED BY <1>3, <2>2, <2>3
  <1>5. CASE pc' = "done"
    <2>1. Trailing BY <1>1, <1>5, StepEnds DEF Epilogue
    <2>2. /\ stack = <<>> /\ stack' = <<>> /\ pc = "trailing" /\ UNCHANGED start /\ \E c : Peek(c)
      BY <2>1 DEF Trailing, IInv, Control
    <2>3. ReadsNone
      <3>1. ~ReadsOne BY <1>1, <2>2, SMT DEF ReadsOne, TypeOK
      <3>2. QED BY <1>3, <3>1
    <2>4. At = "end" BY <2>2 DEF At
    <2>5. Outcome' = "value"
      <3>1. ~Unwinding' BY <1>1 DEF IInv, Control
      <3>2. QED BY <1>1, <1>5, <3>1 DEF Outcome, Unwinding
    <2>6. Text!Complete BY <1>1, <1>5, <2>2, <2>3, <2>4, <2>5, InsideTop DEF Text!Complete, Before, ReadsNone
    <2>7. QED BY <2>6 DEF Text!Next
  <1>6. QED BY <1>4, <1>5

Valued == pc = "done" /\ Outcome = "value"
ValueClean == Valued => ~Refused

LEMMA IsClean == IInv => ValueClean
PROOF
  <1> SUFFICES ASSUME IInv, pc = "done", Outcome = "value" PROVE ~Refused
    BY DEF ValueClean, Valued
  <1>1. stack = <<>> BY DEF IInv, Control
  <1>2. errorStr = "none" /\ ~pyErr BY DEF Outcome
  <1>3. ~Misnamed
    <2>1. Len(stack) = 0 BY <1>1, SMT
    <2>2. ~(\E i \in 1..Len(stack) : TRUE) BY <2>1, SMT
    <2>3. QED BY <1>1, <2>2 DEF Misnamed
  <1>4. QED BY <1>2, <1>3 DEF Refused, Stuck

LEMMA ImplementsText ==
  /\ IInv /\ IInv' /\ KindsFit /\ TrailingClean /\ Inside /\ ValueClean /\ ValueClean'
  /\ [Next]_vars
  => [Text!Next]_Text!textVars
PROOF
  <1> SUFFICES ASSUME IInv, IInv', KindsFit, TrailingClean, Inside, ValueClean, ValueClean',
                      [Next]_vars
               PROVE  Text!Next \/ UNCHANGED Text!textVars
    BY Zenon
  <1>1. CASE UNCHANGED vars
    BY <1>1 DEF vars, Text!textVars, Refused, Misnamed, Stuck, Outcome, Place, Opened, At, Top
  <1>2. CASE Step /\ Refused
    <2>1. Refused' BY <1>2, RefusedStays
    <2>2. ~(pc = "done" /\ Outcome = "value") BY <1>2 DEF ValueClean, Valued
    <2>3. ~(pc' = "done" /\ Outcome' = "value") BY <2>1 DEF ValueClean, Valued
    <2>4. QED BY <1>2, <2>1, <2>2, <2>3 DEF Text!textVars
  <1>3. CASE Step /\ ~Refused /\ Refused'
    <2>1. pc # "done" BY <1>3, StepEnds
    <2>2. ~(pc' = "done" /\ Outcome' = "value") BY <1>3 DEF ValueClean, Valued
    <2>3. Text!GiveUp BY <1>3, <2>1, <2>2 DEF Text!GiveUp, Text!Beginning
    <2>4. QED BY <2>3 DEF Text!Next
  <1>4. CASE Step /\ ~Refused /\ ~Refused' BY <1>4, StepReads
  <1>5. QED BY <1>1, <1>2, <1>3, <1>4 DEF Next, Done

LEMMA InitText == Init => Text!Init
PROOF
  <1> SUFFICES ASSUME Init PROVE Text!Init OBVIOUS
  <1>1. stack = <<>> /\ pc = "decode_any" /\ errorStr = "none" /\ ~pyErr /\ start = 1
    BY DEF Init
  <1>2. ~Refused
    <2>1. ~(\E i \in 1..Len(stack) : TRUE) BY <1>1, SMT
    <2>2. QED BY <1>1, <2>1 DEF Refused, Misnamed, Stuck
  <1>3. SubSeq(input, 1, start - 1) = <<>>
    <2>1. PICK s \in Seq(Lexemes) : s = input BY KnownAssumption DEF Init
    <2>2. SubSeq(s, 1, 0) = <<>> BY SMT
    <2>3. start - 1 = 0 BY <1>1, SMT
    <2>4. QED BY <2>1, <2>2, <2>3
  <1>4. Opened = <<>>
    <2>1. PICK s : s = <<>> OBVIOUS
    <2>2. s \in Seq(Frame) BY <2>1
    <2>3. Opens(s) = <<>> BY <2>1, <2>2, OpensType
    <2>4. QED BY <1>1, <2>1, <2>3 DEF Opened, Opens, Kind
  <1>5. At = "value" BY <1>1 DEF At
  <1>6. QED BY <1>1, <1>2, <1>3, <1>4, <1>5 DEF Text!Init, Text!Beginning, Place

\* What loads accepts is JSON, for every depth limit and every text: whatever was
\* skipped, closed, taken for a name or left unread, at any depth and after any
\* other value, ends in an error.
THEOREM ReadsCorrect == Spec => ReadsJson
PROOF
  <1>1. Init => KindsFit
    <2> SUFFICES ASSUME Init PROVE KindsFit OBVIOUS
    <2>1. ~(\E i \in 1..Len(stack) : TRUE) BY SMT DEF Init
    <2>2. QED BY <2>1 DEF KindsFit, Init, NULL
  <1>2. Init => Inside
    <2> SUFFICES ASSUME Init PROVE Inside OBVIOUS
    <2>1. start = 1 /\ input \in Seq(Lexemes) BY KnownAssumption DEF Init
    <2>2. Len(input) \in Nat BY <2>1
    <2>3. QED BY <2>1, <2>2 DEF Inside, StopsAtTerminator, Complete
  <1>3. QED
    BY <1>1, <1>2, InitInvariant, NextInvariant, TrailingInvariant, NextInside, NextKinds,
       IsClean, InitText, ImplementsText, PTL
    DEF Spec, ReadsJson, Text!Spec

-----------------------------------------------------------------------------
(* What has been read and what stops the parser. *)

\* input is extended, and never with anything after the terminator.
Grows ==
  /\ Len(input) \in Nat /\ Len(input') \in Nat /\ Len(input) <= Len(input')
  /\ \A i \in 1..Len(input) : input'[i] = input[i]

LEMMA PeekAt ==
  ASSUME TypeOK, NEW c, Peek(c)
  PROVE  Grows /\ start \in 1..Len(input') /\ input'[start] = c
PROOF
  <1>1. PICK s \in Seq(Lexemes) : s = input BY DEF TypeOK
  <1>2. start \in Nat \ {0} /\ Len(s) \in Nat BY DEF TypeOK
  <1>3. CASE start <= Len(s) /\ c = s[start] /\ input' = s
    BY <1>1, <1>2, <1>3, SMT DEF Grows
  <1>4. CASE start = Len(s) + 1 /\ c \in Lexemes /\ input' = Append(s, c)
    <2>1. PICK t : t = Append(s, c) OBVIOUS
    <2>2. Len(t) = Len(s) + 1 /\ t[Len(s) + 1] = c /\ \A i \in 1..Len(s) : t[i] = s[i]
      BY <1>4, <2>1, AppendProperties
    <2>3. QED BY <1>1, <1>2, <1>4, <2>1, <2>2, SMT DEF Grows
  <1>5. QED BY <1>1, <1>3, <1>4 DEF Peek

LEMMA InputSteps == [Next]_vars => UNCHANGED input \/ \E c : Peek(c)
PROOF
  <1> SUFFICES ASSUME [Next]_vars, ~ \E c : Peek(c) PROVE UNCHANGED input OBVIOUS
  <1>1. ~ \E fn, c : Enter(fn, c) \/ TooDeep(c) BY DEF Enter, TooDeep
  <1>2. ~Colon BY DEF Colon
  <1>3. ~Delimiter BY DEF Delimiter, CloseAfterMember, Comma, BadDelimiter
  <1>4. ~(SkipWhitespace \/ DecodeScalar \/ DecodeJunkNumber \/ DecodeError \/ DecodeRaises)
    BY DEF SkipWhitespace, DecodeScalar, DecodeJunkNumber, DecodeError, DecodeRaises
  <1>5. ~(CloseAtMember \/ BeginMember \/ Trailing) BY DEF CloseAtMember, BeginMember, Trailing
  <1>6. QED
    BY <1>1, <1>2, <1>3, <1>4, <1>5
    DEF Next, Step, Done, vars, Unwind, ArrayAddItem, GotName, ObjectAddKey, Epilogue

LEMMA InputGrows == ASSUME TypeOK, [Next]_vars PROVE Grows
PROOF
  <1>1. CASE UNCHANGED input
    <2>1. Len(input) \in Nat BY DEF TypeOK
    <2>2. QED BY <1>1, <2>1, SMT DEF Grows
  <1>2. QED BY <1>1, InputSteps, PeekAt

EofLast == \A i \in 1..Len(input) : input[i] = "eof" => i = Len(input)

LEMMA EofInvariant == TypeOK /\ EofLast /\ [Next]_vars => EofLast'
PROOF
  <1> SUFFICES ASSUME TypeOK, EofLast, NEW c, Peek(c) PROVE EofLast'
    BY InputSteps DEF EofLast
  <1>1. CASE UNCHANGED input BY <1>1 DEF EofLast
  <1>2. CASE ~Complete /\ c \in Lexemes /\ input' = Append(input, c)
    <2>1. PICK s \in Seq(Lexemes) : s = input BY DEF TypeOK
    <2>2. PICK t : t = Append(s, c) OBVIOUS
    <2>3. /\ Len(t) = Len(s) + 1 /\ Len(s) \in Nat /\ t[Len(s) + 1] = c
          /\ \A i \in 1..Len(s) : t[i] = s[i]
      BY <1>2, <2>2, AppendProperties
    <2>4. ASSUME NEW i \in 1..Len(t), t[i] = "eof" PROVE i = Len(t)
      <3>1. CASE i \in 1..Len(s)
        <4>1. s[i] = "eof" /\ i = Len(s) BY <2>1, <2>3, <2>4, <3>1 DEF EofLast
        <4>2. QED BY <1>2, <2>1, <4>1, SMT DEF Complete
      <3>2. QED BY <2>3, <3>1, SMT
    <2>5. QED BY <1>2, <2>1, <2>2, <2>4 DEF EofLast
  <1>3. QED BY <1>1, <1>2 DEF Peek

\* A value is returned at the terminator only.
Ended == Valued => start \in 1..Len(input) /\ input[start] = "eof"

LEMMA EndedInvariant == IInv /\ TrailingClean /\ Ended /\ [Next]_vars => Ended'
PROOF
  <1> SUFFICES ASSUME IInv, TrailingClean, Ended, [Next]_vars, Valued'
               PROVE  (start \in 1..Len(input) /\ input[start] = "eof")'
    BY DEF Ended
  <1>1. TypeOK BY DEF IInv
  <1>2. CASE Trailing
    <2>1. errorStr' = "none" /\ ret' # NULL BY DEF Valued, Outcome
    <2>2. Peek("eof") /\ UNCHANGED start BY <1>2, <2>1 DEF Trailing
    <2>3. QED BY <1>1, <2>2, PeekAt
  <1>3. CASE Epilogue BY <1>3 DEF Epilogue, Valued, Outcome
  <1>4. CASE Done \/ UNCHANGED vars BY <1>4 DEF Done, vars, Ended, Valued, Outcome
  <1>5. QED BY <1>2, <1>3, <1>4, StepEnds DEF Next, Valued

\* decode_any is called for the member of an array or for a name where there is
\* something else than the closing bracket.
Begun ==
  pc = "decode_any" /\ stack # <<>> /\ Top.name = NULL =>
    start \in 1..Len(input) /\ input[start] \notin {"ws", Closer}

LEMMA BegunInvariant == IInv /\ Begun /\ [Next]_vars => Begun'
PROOF
  <1> SUFFICES ASSUME IInv, Begun, [Next]_vars,
                      pc' = "decode_any", stack' # <<>>, Top'.name = NULL
               PROVE  (start \in 1..Len(input) /\ input[start] \notin {"ws", Closer})'
    BY DEF Begun
  <1>1. TypeOK /\ Control BY DEF IInv
  <1>2. UNCHANGED stack => Top' = Top /\ Closer' = Closer BY DEF Top, Closer
  <1>3. CASE SkipWhitespace
    <2>1. UNCHANGED <<stack, pc>> /\ Peek("ws") BY <1>3 DEF SkipWhitespace
    <2>2. start \in 1..Len(input) /\ input[start] # "ws" BY <1>2, <2>1 DEF Begun
    <2>3. Grows /\ input'[start] = "ws" BY <1>1, <2>1, PeekAt
    <2>4. QED BY <2>2, <2>3 DEF Grows
  <1>4. CASE BeginMember
    <2>1. PICK c \in Lexemes \ {"ws", Closer} : Peek(c) BY <1>4 DEF BeginMember
    <2>2. UNCHANGED <<start, stack>> BY <1>4 DEF BeginMember
    <2>3. QED BY <1>1, <1>2, <2>1, <2>2, PeekAt
  <1>5. CASE Colon
    <2>1. UNCHANGED stack /\ pc = "colon" BY <1>5 DEF Colon, SetError
    <2>2. QED BY <1>1, <1>2, <2>1 DEF Control
  <1>6. CASE UNCHANGED vars
    <2>1. UNCHANGED <<input, start, stack, pc>> BY <1>6 DEF vars
    <2>2. QED BY <1>2, <2>1 DEF Begun
  <1>7. \A msg, obj : SetError(msg) \/ Return(obj) => pc' = "return" BY DEF SetError, Return
  <1>8. ~(DecodeScalar \/ DecodeJunkNumber \/ DecodeError \/ DecodeRaises)
    BY <1>7 DEF DecodeScalar, DecodeJunkNumber, DecodeError, DecodeRaises
  <1>9. ~ \E fn, c : Enter(fn, c) \/ TooDeep(c) BY <1>7 DEF Enter, TooDeep
  <1>10. ~(CloseAtMember \/ Delimiter)
    BY <1>7 DEF CloseAtMember, Delimiter, CloseAfterMember, Comma, BadDelimiter
  <1>11. ~(Unwind \/ ArrayAddItem \/ GotName \/ ObjectAddKey \/ Epilogue \/ Trailing)
    BY <1>7 DEF Unwind, ArrayAddItem, GotName, ObjectAddKey, Epilogue, Trailing
  <1>12. QED
    BY <1>3, <1>4, <1>5, <1>6, <1>8, <1>9, <1>10, <1>11 DEF Next, Step, Done, vars

\* c cannot stand where the text is, and does not end it there.
Barred(c) == (\A l : ~Text!Follows(Place, c, l)) /\ ~(At = "end" /\ c = "eof")

\* What can.
LEMMA Following ==
  ASSUME TypeOK, NEW c, NEW l, Text!Follows(Place, c, l)
  PROVE  \/ c = "ws"
         \/ c \in {"str", "atom"} /\ Text!ValueDue(Place)
         \/ c \in {"lbrack", "lbrace"} /\ Text!ValueDue(Place) /\ Len(stack) < MaxDepth
         \/ c = Closer /\ At \in {"first", "delimiter"}
         \/ c = "str" /\ At \in {"first", "name"}
         \/ c = "colon" /\ At = "colon"
         \/ c = "comma" /\ At = "delimiter"
PROOF
  <1>1. /\ Place.open = Opened /\ Place.at = At
        /\ \A kind : Text!Inside(Place, kind) => Kind(Top) = kind
    BY InsideTop
  <1>2. Len(Opened) = Len(stack)
    <2>1. PICK s \in Seq(Frame) : s = stack BY DEF TypeOK
    <2>2. QED BY <2>1, OpensType DEF Opened, Opens, Kind
  <1>3. CASE Text!Scalar(Place, c, l) BY <1>3 DEF Text!Scalar
  <1>4. CASE Text!Opening(Place, c, l)
    <2>1. \A kind : Text!Opener(kind) \in {"lbrack", "lbrace"} BY DEF Text!Opener
    <2>2. QED BY <1>1, <1>2, <1>4, <2>1 DEF Text!Opening
  <1>5. CASE Text!Closing(Place, c, l)
    <2>1. Text!Closer(Kind(Top)) = Closer BY DEF Text!Closer, Closer, Kind
    <2>2. QED BY <1>1, <1>5, <2>1 DEF Text!Closing
  <1>6. CASE Text!Name(Place, c, l) BY <1>1, <1>6 DEF Text!Name
  <1>7. CASE Text!Colon(Place, c, l) BY <1>1, <1>7 DEF Text!Colon
  <1>8. CASE Text!Comma(Place, c, l) BY <1>1, <1>8 DEF Text!Comma
  <1>9. CASE Text!Blank(Place, c, l) BY <1>9 DEF Text!Blank
  <1>10. QED BY <1>3, <1>4, <1>5, <1>6, <1>7, <1>8, <1>9 DEF Text!Follows

\* Where decode_any is called.
LEMMA PlaceAny ==
  ASSUME IInv, pc = "decode_any"
  PROVE  /\ At \in {"value", "first", "name"}
         /\ At = "first" => stack # <<>> /\ Top.name = NULL
         /\ stack # <<>> /\ NameDue(Top) => ~Text!ValueDue(Place)
PROOF
  <1>1. TypeOK BY DEF IInv
  <1>2. CASE stack = <<>> BY <1>2 DEF At
  <1>3. CASE stack # <<>>
    <2>1. At = IF Top.name # NULL THEN "value"
               ELSE IF Top.len = 0 THEN "first"
               ELSE IF Top.fn = "array" THEN "value" ELSE "name"
      BY <1>3 DEF At
    <2>2. At \in {"value", "first", "name"} /\ (At = "first" => Top.name = NULL) BY <2>1
    <2>3. ASSUME NameDue(Top) PROVE ~Text!ValueDue(Place)
      <3>1. At # "value" BY <2>1, <2>3 DEF NameDue
      <3>2. ~Text!Inside(Place, "ARRAY") BY <1>1, <2>3, InsideTop DEF NameDue, Kind
      <3>3. Place.at = At BY <1>1, InsideTop
      <3>4. QED BY <3>1, <3>2, <3>3 DEF Text!ValueDue
    <2>4. QED BY <1>3, <2>2, <2>3
  <1>4. QED BY <1>2, <1>3

\* No name goes astray where none was.
LEMMA StraightPush ==
  ASSUME TypeOK, ~Astray, NEW f, Pushes(f), ~OddName(f), ~(stack # <<>> /\ NameDue(Top))
  PROVE  ~Astray'
PROOF
  <1>1. Len(stack) \in Nat BY StackFacts
  <1>2. ASSUME NEW i \in 1..Len(stack'),
               OddName(stack'[i]) \/ (NameDue(stack'[i]) /\ i < Len(stack'))
        PROVE  FALSE
    <2>1. CASE i = Len(stack') BY <1>1, <1>2, <2>1, SMT DEF Pushes
    <2>2. CASE i # Len(stack')
      <3>1. i \in 1..Len(stack) /\ stack'[i] = stack[i] BY <1>1, <2>2, SMT DEF Pushes
      <3>2. NameDue(stack[i]) /\ ~(i < Len(stack)) BY <1>2, <3>1 DEF Astray
      <3>3. i = Len(stack) /\ stack # <<>> BY <1>1, <3>1, <3>2, SMT
      <3>4. QED BY <3>2, <3>3 DEF Top
    <2>3. QED BY <2>1, <2>2
  <1>3. QED BY <1>2 DEF Astray, OddName, NameDue

LEMMA StraightPop ==
  ASSUME TypeOK, TypeOK', ~Astray, Pops
  PROVE  ~Astray' /\ ~(stack' # <<>> /\ NameDue(Top'))
PROOF
  <1>1. Len(stack) \in Nat /\ Len(stack') = Len(stack) - 1 BY StackFacts DEF Pops
  <1>2. \A i \in 1..Len(stack') :
          i \in 1..Len(stack) /\ i < Len(stack) /\ stack'[i] = stack[i]
    BY <1>1, SMT DEF Pops
  <1>3. \A i \in 1..Len(stack') : ~OddName(stack'[i]) /\ ~NameDue(stack'[i])
    BY <1>2 DEF Astray
  <1>4. stack' # <<>> => Len(stack') \in 1..Len(stack')
    <2>1. PICK s \in Seq(Frame) : s = stack' BY DEF TypeOK
    <2>2. s # <<>> => Len(s) \in Nat \ {0} BY EmptySeq, SMT
    <2>3. QED BY <2>1, <2>2, SMT
  <1>5. QED BY <1>3, <1>4 DEF Astray, OddName, NameDue, Top

LEMMA StraightChange ==
  ASSUME TypeOK, ~Astray, NEW f, Changes(f), ~OddName(f)
  PROVE  ~Astray'
PROOF
  <1>1. Len(stack) \in Nat /\ Len(stack') = Len(stack) BY StackFacts DEF Changes
  <1>2. ASSUME NEW i \in 1..Len(stack'),
               OddName(stack'[i]) \/ (NameDue(stack'[i]) /\ i < Len(stack'))
        PROVE  FALSE
    <2>1. i \in 1..Len(stack) /\ (i = Len(stack) \/ (i \in 1..Len(stack) - 1 /\ i < Len(stack)))
      BY <1>1, <1>2, SMT
    <2>2. CASE i = Len(stack) BY <1>1, <1>2, <2>2, SMT DEF Changes
    <2>3. CASE i \in 1..Len(stack) - 1 /\ i < Len(stack)
      BY <1>1, <1>2, <2>1, <2>3 DEF Changes, Astray
    <2>4. QED BY <2>1, <2>2, <2>3
  <1>3. QED BY <1>2 DEF Astray, OddName, NameDue

\* The lexeme at which the parser gives a text up could not stand there, in
\* whatever containers.
LEMMA StepBars ==
  ASSUME IInv, IInv', KindsFit, TrailingClean, Begun, Step, ~Refused,
         errorStr' # "none" \/ pyErr' \/ Misnamed' \/ DecodeJunkNumber
  PROVE  \E c : Peek(c) /\ Barred(c)
PROOF
  <1>1. /\ TypeOK /\ TypeOK' /\ Control /\ DepthBounded
        /\ errorStr = "none" /\ ~pyErr /\ ~Misnamed /\ ~Astray /\ ~OddReturn
    BY MisnamedIs DEF IInv, Refused
  <1>2. ~Unwinding BY <1>1 DEF Control
  <1>3. Misnamed' => Astray' \/ (pc' = "return" /\ ret' # NULL /\ ret'.kind # "str"
                                 /\ stack' # <<>> /\ NameDue(Top'))
    BY DEF Misnamed, Astray, OddName, NameDue, Top
  <1>4. UNCHANGED stack => ~Astray' /\ Top' = Top BY <1>1 DEF Astray, Top
  <1>5. ASSUME NEW c, Peek(c), pc = "decode_any", c \notin {"ws", "str", "atom", "lbrack", "lbrace"}
        PROVE  Barred(c)
    <2>1. At \in {"value", "first", "name"} /\ (At = "first" => stack # <<>> /\ Top.name = NULL)
      BY <1>5, PlaceAny
    <2>2. At = "first" => c # Closer
      <3>1. At = "first" => start \in 1..Len(input) /\ input[start] # Closer
        BY <1>5, <2>1 DEF Begun
      <3>2. input'[start] = c /\ Grows BY <1>1, <1>5, PeekAt
      <3>3. QED BY <3>1, <3>2 DEF Grows
    <2>3. \A l : ~Text!Follows(Place, c, l)
      <3> SUFFICES ASSUME NEW l, Text!Follows(Place, c, l) PROVE FALSE OBVIOUS
      <3>1. QED BY <1>1, <1>5, <2>1, <2>2, Following
    <2>4. QED BY <2>1, <2>3 DEF Barred
  <1>6. ASSUME NEW c \in {"str", "atom", "lbrack", "lbrace"}, pc = "decode_any",
               ~Text!ValueDue(Place), c # "str"
        PROVE  Barred(c)
    <2>1. At # "end" /\ c # Closer /\ c # "ws" BY <1>6, PlaceAny DEF Closer
    <2>2. \A l : ~Text!Follows(Place, c, l) BY <1>1, <1>6, <2>1, Following
    <2>3. QED BY <2>1, <2>2 DEF Barred
  <1>7. CASE DecodeJunkNumber
    <2>1. Peek("junk") /\ pc = "decode_any" BY <1>7 DEF DecodeJunkNumber
    <2>2. QED BY <1>5, <2>1
  <1>8. CASE DecodeError
    <2>1. PICK c \in {"bad", "rbrack", "rbrace", "comma", "colon", "nul", "eof"} : Peek(c)
      BY <1>8 DEF DecodeError
    <2>2. pc = "decode_any" BY <1>8 DEF DecodeError
    <2>3. QED BY <1>5, <2>1, <2>2
  <1>9. CASE DecodeRaises
    <2>1. Peek("raise") /\ pc = "decode_any" BY <1>9 DEF DecodeRaises
    <2>2. QED BY <1>5, <2>1
  <1>10. CASE DecodeScalar
    <2>1. PICK c \in {"str", "atom"} :
            Peek(c) /\ ret' = Fresh(c) /\ UNCHANGED <<stack, pyErr, errorStr>> /\ pc = "decode_any"
      BY <1>10 DEF DecodeScalar, Return
    <2>2. Misnamed' \/ DecodeJunkNumber BY <1>1, <2>1
    <2>3. CASE Misnamed'
      <3>1. c # "str" /\ stack # <<>> /\ NameDue(Top) BY <1>3, <1>4, <2>1, <2>3 DEF Fresh
      <3>2. ~Text!ValueDue(Place) BY <2>1, <3>1, PlaceAny
      <3>3. QED BY <1>6, <2>1, <3>1, <3>2
    <2>4. QED BY <1>7, <2>2, <2>3
  <1>11. ASSUME NEW fn \in {"array", "object"},
                NEW c, c = IF fn = "array" THEN "lbrack" ELSE "lbrace", Enter(fn, c)
         PROVE  \E d : Peek(d) /\ Barred(d)
    <2>1. Peek(c) /\ pc = "decode_any" /\ pc' = "member" /\ UNCHANGED <<pyErr, errorStr>>
      BY <1>11 DEF Enter
    <2>2. PICK f : f = NewFrame(fn) OBVIOUS
    <2>3. Pushes(f) /\ ~OddName(f)
      <3>1. Pushes(f) BY <1>11, <2>2, StackSteps
      <3>2. QED BY <2>2, <3>1 DEF NewFrame, OddName, NULL
    <2>4. Misnamed' \/ DecodeJunkNumber BY <1>1, <2>1
    <2>5. CASE Misnamed'
      <3>1. Astray' BY <1>3, <2>1, <2>5
      <3>2. stack # <<>> /\ NameDue(Top) BY <1>1, <2>3, <3>1, StraightPush
      <3>3. ~Text!ValueDue(Place) BY <2>1, <3>2, PlaceAny
      <3>4. c \in {"lbrack", "lbrace"} BY <1>11
      <3>5. QED BY <1>6, <2>1, <3>3, <3>4
    <2>6. QED BY <1>7, <2>4, <2>5
  <1>12. ASSUME NEW c \in {"lbrack", "lbrace"}, TooDeep(c) PROVE \E d : Peek(d) /\ Barred(d)
    <2>1. Peek(c) /\ pc = "decode_any" /\ objDepth + 1 > MaxDepth
      BY <1>12 DEF TooDeep, DepthExceeded
    <2>2. ~(Len(stack) < MaxDepth)
      <3>1. objDepth = Len(stack) BY <1>1, <1>2 DEF DepthBounded
      <3>2. QED BY <1>1, <2>1, <3>1, DepthAssumption, SMT DEF TypeOK
    <2>3. At \in {"value", "first", "name"} /\ (At = "first" => stack # <<>> /\ Top.name = NULL)
      BY <2>1, PlaceAny
    <2>4. c # Closer BY DEF Closer
    <2>5. \A l : ~Text!Follows(Place, c, l) BY <1>1, <2>2, <2>3, <2>4, Following
    <2>6. Barred(c) BY <2>3, <2>5 DEF Barred
    <2>7. QED BY <2>1, <2>6
  <1>13. ASSUME Pops, UNCHANGED <<errorStr, pyErr>>, ~DecodeJunkNumber PROVE FALSE
    <2>1. ~Astray' /\ ~(stack' # <<>> /\ NameDue(Top')) BY <1>1, <1>13, StraightPop
    <2>2. QED BY <1>1, <1>3, <1>13, <2>1
  <1>14. CASE CloseAtMember
    <2>1. pc = "member" /\ Peek(Closer) /\ Pops /\ UNCHANGED pyErr /\ stack # <<>> /\ Top.name = NULL
      BY <1>1, <1>14, StackSteps DEF CloseAtMember, Control
    <2>2. ~DecodeJunkNumber BY <2>1 DEF DecodeJunkNumber
    <2>3. Top.len # 0 BY <1>13, <1>14, <2>1, <2>2 DEF CloseAtMember, Return
    <2>4. At \in {"value", "name"} BY <2>1, <2>3 DEF At
    <2>5. Closer \in {"rbrack", "rbrace"} BY DEF Closer
    <2>6. \A l : ~Text!Follows(Place, Closer, l) BY <1>1, <2>4, <2>5, Following
    <2>7. QED BY <2>1, <2>4, <2>6 DEF Barred
  <1>15. CASE Colon
    <2>1. pc = "colon" /\ UNCHANGED pyErr /\ stack # <<>> BY <1>1, <1>15 DEF Colon, Control
    <2>2. ~DecodeJunkNumber BY <2>1 DEF DecodeJunkNumber
    <2>3. At = "colon" BY <2>1 DEF At
    <2>4. PICK c \in Lexemes \ {"ws", "colon"} : Peek(c)
      <3>1. CASE UNCHANGED <<stack, errorStr>> /\ pc' = "decode_any" BY <1>1, <1>3, <1>4, <2>1, <2>2, <3>1
      <3>2. QED BY <1>15, <3>1 DEF Colon
    <2>5. ~Text!ValueDue(Place)
      <3>1. Place.at = "colon" BY <1>1, <2>3, InsideTop
      <3>2. QED BY <3>1 DEF Text!ValueDue
    <2>6. \A l : ~Text!Follows(Place, c, l) BY <1>1, <2>3, <2>4, <2>5, Following
    <2>7. QED BY <2>3, <2>4, <2>6 DEF Barred
  <1>16. CASE Delimiter
    <2>1. pc = "delimiter" /\ UNCHANGED pyErr /\ stack # <<>> /\ Top.name = NULL
      BY <1>1, <1>16 DEF Delimiter, Control
    <2>2. ~DecodeJunkNumber BY <2>1 DEF DecodeJunkNumber
    <2>3. At = "delimiter" BY <2>1 DEF At
    <2>4. ~CloseAfterMember
      <3> SUFFICES ASSUME CloseAfterMember PROVE FALSE OBVIOUS
      <3>1. Pops /\ UNCHANGED errorStr BY <1>16, StackSteps DEF CloseAfterMember, Return
      <3>2. QED BY <1>13, <2>1, <2>2, <3>1
    <2>5. ~Comma
      <3> SUFFICES ASSUME Comma PROVE FALSE OBVIOUS
      <3>1. PICK f : f = Longer OBVIOUS
      <3>2. Changes(f) /\ UNCHANGED errorStr /\ pc' = "member"
        BY <1>16, <3>1, StackSteps DEF Comma
      <3>3. f.name = NULL
        <4>1. stack \in Seq(Frame) BY <1>1 DEF TypeOK
        <4>2. Top \in Frame BY <2>1, <4>1, PopStack DEF Top
        <4>3. QED BY <2>1, <3>1, <4>2 DEF Longer, Frame
      <3>4. ~OddName(f) BY <3>3 DEF OddName, NULL
      <3>5. ~Astray' BY <1>1, <3>2, <3>4, StraightChange
      <3>6. QED BY <1>1, <1>3, <2>1, <2>2, <3>2, <3>5
    <2>6. PICK c \in Lexemes \ {"ws", Closer, "comma"} : Peek(c)
      BY <1>16, <2>4, <2>5 DEF Delimiter, BadDelimiter
    <2>7. ~Text!ValueDue(Place)
      <3>1. Place.at = "delimiter" BY <1>1, <2>3, InsideTop
      <3>2. QED BY <3>1 DEF Text!ValueDue
    <2>8. \A l : ~Text!Follows(Place, c, l) BY <1>1, <2>3, <2>6, <2>7, Following
    <2>9. QED BY <2>3, <2>6, <2>8 DEF Barred
  <1>17. CASE GotName
    <2>1. /\ pc = "return" /\ ret # NULL /\ stack # <<>> /\ NameDue(Top) /\ UNCHANGED pyErr
      BY <1>17 DEF GotName, NameDue
    <2>2. ret.kind = "str" BY <1>1, <2>1 DEF OddReturn
    <2>3. lastType = "JT_UTF8" BY <2>1, <2>2 DEF KindsFit
    <2>4. UNCHANGED errorStr /\ pc' = "colon" BY <1>17, <2>3 DEF GotName
    <2>5. PICK f : f = Named(ret) OBVIOUS
    <2>6. Changes(f) BY <1>1, <1>17, <2>4, <2>5, StackSteps
    <2>7. f.name = ret
      <3>1. stack \in Seq(Frame) BY <1>1 DEF TypeOK
      <3>2. Top \in Frame BY <2>1, <3>1, PopStack DEF Top
      <3>3. QED BY <2>5, <3>2 DEF Named, Frame
    <2>8. ~OddName(f) BY <2>2, <2>7 DEF OddName
    <2>9. ~Astray' BY <1>1, <2>6, <2>8, StraightChange
    <2>10. ~DecodeJunkNumber BY <2>1 DEF DecodeJunkNumber
    <2>11. QED BY <1>1, <1>3, <2>1, <2>4, <2>9, <2>10
  <1>18. CASE ObjectAddKey
    <2>1. pc = "return" /\ stack # <<>> /\ Top.name # NULL /\ pc' = "delimiter" /\ UNCHANGED errorStr
          /\ pyErr' = (pyErr \/ Top.name.kind \in {"array", "object"})
      BY <1>18 DEF ObjectAddKey
    <2>2. Top.name.kind \in {"none", "str"}
      <3>1. Len(stack) \in 1..Len(stack) BY <1>1, <2>1, StackFacts, SMT
      <3>2. QED BY <1>1, <3>1 DEF Astray, OddName, Top
    <2>3. ~pyErr' BY <1>1, <2>1, <2>2
    <2>4. PICK f : f = Named(NULL) OBVIOUS
    <2>5. Changes(f) BY <1>18, <2>4, StackSteps
    <2>6. f.name = NULL
      <3>1. stack \in Seq(Frame) BY <1>1 DEF TypeOK
      <3>2. Top \in Frame BY <2>1, <3>1, PopStack DEF Top
      <3>3. QED BY <2>4, <3>2 DEF Named, Frame
    <2>7. ~OddName(f) BY <2>6 DEF OddName, NULL
    <2>8. ~Astray' BY <1>1, <2>5, <2>7, StraightChange
    <2>9. ~DecodeJunkNumber BY <2>1 DEF DecodeJunkNumber
    <2>10. QED BY <1>1, <1>3, <2>1, <2>3, <2>8, <2>9
  <1>19. CASE Trailing
    <2>1. pc = "trailing" /\ stack = <<>> /\ UNCHANGED <<stack, pyErr>> /\ pc' = "done"
      BY <1>1, <1>19 DEF Trailing, Control
    <2>2. ~DecodeJunkNumber BY <2>1 DEF DecodeJunkNumber
    <2>3. errorStr' # "none" BY <1>1, <1>3, <1>4, <2>1, <2>2
    <2>4. PICK c \in Lexemes \ {"ws"} : Peek(c) /\ c # "eof" BY <1>1, <1>19, <2>3 DEF Trailing
    <2>5. At = "end" /\ Place.at = "end"
      <3>1. At = "end" BY <2>1 DEF At
      <3>2. QED BY <1>1, <3>1, InsideTop
    <2>6. ~Text!ValueDue(Place) BY <2>5 DEF Text!ValueDue
    <2>7. \A l : ~Text!Follows(Place, c, l) BY <1>1, <2>4, <2>5, <2>6, Following
    <2>8. QED BY <2>4, <2>7 DEF Barred
  <1>20. CASE SkipWhitespace \/ BeginMember \/ ArrayAddItem \/ Epilogue
    <2>1. UNCHANGED <<stack, errorStr, pyErr>>
      BY <1>20 DEF SkipWhitespace, BeginMember, ArrayAddItem, Epilogue
    <2>2. pc' = "return" => UNCHANGED <<pc, ret>>
      BY <1>20 DEF SkipWhitespace, BeginMember, ArrayAddItem, Epilogue
    <2>3. ~Misnamed' BY <1>1, <1>3, <1>4, <2>1, <2>2 DEF OddReturn
    <2>4. QED BY <1>1, <1>7, <2>1, <2>3
  <1>21. CASE Unwind BY <1>2, <1>21 DEF Unwind, Unwinding
  <1>22. CASE Enter("array", "lbrack") \/ Enter("object", "lbrace")
    <2>1. Enter("array", "lbrack") => \E d : Peek(d) /\ Barred(d) BY <1>11
    <2>2. Enter("object", "lbrace") => \E d : Peek(d) /\ Barred(d) BY <1>11
    <2>3. QED BY <1>22, <2>1, <2>2
  <1>23. CASE TooDeep("lbrack") \/ TooDeep("lbrace") BY <1>12, <1>23
  <1>24. QED
    BY <1>7, <1>8, <1>9, <1>10, <1>14, <1>15, <1>16, <1>17, <1>18, <1>19, <1>20, <1>21, <1>22,
       <1>23
    DEF Step

-----------------------------------------------------------------------------
(* What is accepted is derived by the grammar, and what is derived is       *)
(* accepted.                                                               *)

Syntax == INSTANCE JsonSyntaxProofs WITH Depth <- MaxDepth, Spaced <- TRUE

LEMMA SameDerivations ==
  ASSUME NEW s, NEW depth
  PROVE  Syntax!Derives(s, depth) = Derives(s, depth)
PROOF
  BY Zenon
  DEF Syntax!Derives, Syntax!Spans, Syntax!Symbols, Syntax!Rule, Syntax!Enclosed,
      Syntax!Pair, Derives, Spans, Symbols, Rule, Enclosed, Pair

LEMMA SameFollows ==
  ASSUME NEW k, NEW c, NEW l
  PROVE  Text!Follows(k, c, l) <=> Syntax!Follows(k, c, l)
PROOF
  BY Zenon
  DEF Text!Follows, Text!Scalar, Text!Opening, Text!Closing, Text!Name, Text!Colon,
      Text!Comma, Text!Blank, Text!Ended, Text!Inside, Text!ValueDue, Text!Opener,
      Text!Closer, Text!Kinds,
      Syntax!Follows, Syntax!Scalar, Syntax!Opening, Syntax!Closing, Syntax!Name,
      Syntax!Colon, Syntax!Comma, Syntax!Blank, Syntax!Ended, Syntax!Inside,
      Syntax!ValueDue, Syntax!Opener, Syntax!Closer, Syntax!Kinds

\* The lexemes before start lead to where the parser is.
Leads(run) == Syntax!Run(input, start - 1, run) /\ run[start] = Place

\* At some lexeme of the input, not at its end, no text with this beginning can
\* go on.
Dead ==
  \E n \in Nat : \E run :
    /\ n < Len(input) /\ Syntax!Run(input, n, run)
    /\ \A l : ~Syntax!Follows(run[n + 1], input[n + 1], l)
    /\ ~(run[n + 1].at = "end" /\ input[n + 1] = "eof")

Led == IF Refused THEN Dead ELSE \E run : Leads(run)

LEMMA RunGrows ==
  ASSUME Grows, NEW n \in Nat, n <= Len(input), NEW run, Syntax!Run(input, n, run)
  PROVE  Syntax!Run(input', n, run)
PROOF
  <1>1. \A i \in 1..n : i \in 1..Len(input) BY SMT DEF Grows
  <1>2. \A i \in 1..n : input'[i] = input[i] BY <1>1 DEF Grows
  <1>3. QED BY <1>2, Syntax!RunElsewhere

LEMMA DeadGrows == Dead /\ Grows => Dead'
PROOF
  <1> SUFFICES ASSUME Dead, Grows PROVE Dead' OBVIOUS
  <1>1. PICK n, run :
          /\ n \in Nat /\ n < Len(input) /\ Syntax!Run(input, n, run)
          /\ \A l : ~Syntax!Follows(run[n + 1], input[n + 1], l)
          /\ ~(run[n + 1].at = "end" /\ input[n + 1] = "eof")
    BY DEF Dead
  <1>2. n <= Len(input) /\ n < Len(input') /\ n + 1 \in 1..Len(input) BY <1>1, SMT DEF Grows
  <1>3. Syntax!Run(input', n, run) BY <1>1, <1>2, RunGrows
  <1>4. input'[n + 1] = input[n + 1] BY <1>2 DEF Grows
  <1>5. QED BY <1>1, <1>2, <1>3, <1>4 DEF Dead

LEMMA InitLed == Init => Led
PROOF
  <1> SUFFICES ASSUME Init PROVE Led OBVIOUS
  <1>1. Text!Init BY InitText
  <1>2. ~Refused
    <2>1. pc # "done" BY DEF Init
    <2>2. QED BY <1>1, <2>1 DEF Text!Init
  <1>3. Place = Syntax!Beginning
    BY <1>1, <1>2 DEF Text!Init, Text!Beginning, Syntax!Beginning
  <1>4. start = 1 /\ start - 1 = 0 BY SMT DEF Init
  <1>5. PICK run : run = <<Syntax!Beginning>> OBVIOUS
  <1>6. Syntax!Run(input, 0, run) /\ run[1] = Syntax!Beginning BY <1>5, Syntax!RunBeginning
  <1>7. QED BY <1>2, <1>3, <1>4, <1>6 DEF Led, Leads

\* A step that keeps the text going leads on ...
LEMMA MovesLead ==
  ASSUME TypeOK, start <= Len(input) + 1, Grows, NEW run, Leads(run), ReadsOne \/ ReadsNone
  PROVE  \E r : Syntax!Run(input', start' - 1, r) /\ r[start'] = Place'
PROOF
  <1>1. PICK n \in Nat : n = start - 1 /\ start = n + 1 /\ n <= Len(input)
    BY SMT DEF TypeOK, Grows
  <1>2. Syntax!Run(input', n, run) /\ run[n + 1] = Place BY <1>1, RunGrows DEF Leads
  <1>3. CASE ReadsNone BY <1>1, <1>2, <1>3 DEF ReadsNone
  <1>4. CASE ReadsOne
    <2>1. PICK c : Peek(c) /\ start' = start + 1 /\ Text!Follows(Place, c, Place')
      BY <1>4 DEF ReadsOne
    <2>2. input'[n + 1] = c BY <1>1, <2>1, PeekAt
    <2>3. PICK l : l = Place' OBVIOUS
    <2>4. Syntax!Follows(run[n + 1], input'[n + 1], l) BY <1>2, <2>1, <2>2, <2>3, SameFollows
    <2>5. PICK r : Syntax!Run(input', n + 1, r) /\ r[n + 2] = l
      BY <1>2, <2>4, Syntax!RunOn
    <2>6. start' - 1 = n + 1 /\ start' = n + 2 BY <1>1, <2>1, SMT
    <2>7. QED BY <2>3, <2>5, <2>6
  <1>5. QED BY <1>3, <1>4

\* ... and one that gives it up is right to.
LEMMA BarsDead ==
  ASSUME TypeOK, start <= Len(input) + 1, NEW run, Leads(run), NEW c, Peek(c), Barred(c)
  PROVE  Dead'
PROOF
  <1>1. Grows /\ start \in 1..Len(input') /\ input'[start] = c BY PeekAt
  <1>2. PICK n \in Nat : n = start - 1 /\ start = n + 1 /\ n <= Len(input) /\ n < Len(input')
    BY <1>1, SMT DEF TypeOK, Grows
  <1>3. Syntax!Run(input', n, run) /\ run[n + 1] = Place BY <1>1, <1>2, RunGrows DEF Leads
  <1>4. \A l : ~Syntax!Follows(Place, c, l) BY SameFollows DEF Barred
  <1>5. ~(Place.at = "end" /\ c = "eof") BY InsideTop DEF Barred
  <1>6. QED BY <1>1, <1>2, <1>3, <1>4, <1>5 DEF Dead

LEMMA JunkBars == \A k, l : ~Syntax!Follows(k, "junk", l)
PROOF
  BY DEF Syntax!Follows, Syntax!Scalar, Syntax!Opening, Syntax!Closing, Syntax!Name,
         Syntax!Colon, Syntax!Comma, Syntax!Blank, Syntax!Opener, Syntax!Closer

LEMMA LedInvariant ==
  ASSUME IInv, IInv', KindsFit, TrailingClean, Inside, Begun, Led, [Next]_vars
  PROVE  Led'
PROOF
  <1>1. TypeOK /\ TypeOK' /\ start <= Len(input) + 1 BY DEF IInv, Inside
  <1>2. Grows BY <1>1, InputGrows
  <1>3. CASE UNCHANGED vars
    BY <1>3
    DEF vars, Led, Dead, Leads, Refused, Misnamed, Stuck, Place, Opened, At, Top
  <1>4. CASE Refused
    <2>1. Refused' BY <1>4, RefusedStays
    <2>2. Dead BY <1>4 DEF Led
    <2>3. QED BY <1>2, <2>1, <2>2, DeadGrows DEF Led
  <1>5. CASE Step /\ ~Refused
    <2>1. PICK run : Leads(run) BY <1>5 DEF Led
    <2>2. CASE errorStr' # "none" \/ pyErr' \/ Misnamed' \/ DecodeJunkNumber
      <3>1. Dead'
        <4>1. PICK c : Peek(c) /\ Barred(c) BY <1>5, <2>2, StepBars
        <4>2. QED BY <1>1, <2>1, <4>1, BarsDead
      <3>2. Refused'
        <4>1. CASE DecodeJunkNumber
          <5>1. Peek("junk") /\ UNCHANGED start /\ pc' = "return"
            BY <4>1 DEF DecodeJunkNumber, Return
          <5>2. start \in 1..Len(input') /\ input'[start] = "junk" BY <1>1, <5>1, PeekAt
          <5>3. QED BY <5>1, <5>2, SMT DEF Refused, Stuck
        <4>2. QED BY <2>2, <4>1 DEF Refused
      <3>3. QED BY <3>1, <3>2 DEF Led
    <2>3. CASE errorStr' = "none" /\ ~pyErr' /\ ~Misnamed' /\ ~DecodeJunkNumber
      <3>1. ReadsOne \/ ReadsNone BY <1>5, <2>3, StepMoves
      <3>2. PICK r : Syntax!Run(input', start' - 1, r) /\ r[start'] = Place'
        BY <1>1, <1>2, <2>1, <3>1, MovesLead
      <3>3. CASE ~Refused' BY <3>2, <3>3 DEF Led, Leads
      <3>4. CASE Refused'
        <4>1. Stuck' BY <2>3, <3>4 DEF Refused
        <4>2. PICK n \in Nat : n = start' - 1 /\ n + 1 = start' /\ n < Len(input')
          <5>1. start' \in Nat \ {0} /\ Len(input') \in Nat BY <1>1, <1>2 DEF TypeOK, Grows
          <5>2. start' <= Len(input') BY <4>1 DEF Stuck
          <5>3. PICK q \in Nat \ {0}, m \in Nat : q = start' /\ m = Len(input') BY <5>1
          <5>4. q <= m BY <5>2, <5>3
          <5>5. q - 1 \in Nat /\ (q - 1) + 1 = q /\ q - 1 < m BY <5>4, SMT
          <5>6. QED BY <5>3, <5>5, Zenon
        <4>3. input'[n + 1] = "junk" BY <4>1, <4>2 DEF Stuck
        <4>4. Syntax!Run(input', n, r) BY <3>2, <4>2
        <4>5. Dead' BY <4>2, <4>3, <4>4, JunkBars DEF Dead
        <4>6. QED BY <3>4, <4>5 DEF Led
      <3>5. QED BY <3>3, <3>4
    <2>4. QED BY <2>2, <2>3
  <1>6. QED BY <1>3, <1>4, <1>5 DEF Next, Done

\* A text at whose terminator the parser is at its end is a document ...
LEMMA AcceptsJson ==
  ASSUME IInv, EofLast, Ended, Led, Valued
  PROVE  IsJson(input, MaxDepth)
PROOF
  <1>1. TypeOK /\ Control BY DEF IInv
  <1>2. start \in 1..Len(input) /\ input[start] = "eof" BY DEF Ended
  <1>3. start = Len(input) BY <1>2 DEF EofLast
  <1>4. PICK n \in Nat : n = start - 1 /\ n + 1 = start /\ n \in 0..Len(input)
    BY <1>1, <1>3, SMT DEF TypeOK
  <1>5. PICK run : Leads(run)
    <2>1. ~Refused BY IsClean DEF ValueClean
    <2>2. QED BY <2>1 DEF Led
  <1>6. Place.at = "end"
    <2>1. stack = <<>> /\ pc = "done" BY <1>1 DEF Control, Valued
    <2>2. At = "end" BY <2>1 DEF At
    <2>3. QED BY <1>1, <2>2, InsideTop
  <1>7. Syntax!Run(input, n, run) /\ run[n + 1].at = "end" BY <1>4, <1>5, <1>6 DEF Leads
  <1>8. Len(input) \in Nat /\ MaxDepth \in Nat BY <1>1, DepthAssumption DEF TypeOK
  <1>9. Syntax!Derives(input, MaxDepth)[<<"value", 1, n + 1, MaxDepth>>]
    BY <1>4, <1>7, <1>8, Syntax!RunDerived
  <1>10. Derives(input, MaxDepth)[<<"value", 1, Len(input), MaxDepth>>]
    BY <1>3, <1>4, <1>9, SameDerivations
  <1>11. input # <<>> BY <1>2, SMT
  <1>12. QED BY <1>2, <1>3, <1>10, <1>11 DEF IsJson

\* ... and of a document no lexeme is one that could not stand there.
LEMMA DeadIsNoJson ==
  ASSUME TypeOK, Dead
  PROVE  ~IsJson(input, MaxDepth)
PROOF
  <1> SUFFICES ASSUME IsJson(input, MaxDepth) PROVE FALSE OBVIOUS
  <1>1. PICK n, run :
          /\ n \in Nat /\ n < Len(input) /\ Syntax!Run(input, n, run)
          /\ \A l : ~Syntax!Follows(run[n + 1], input[n + 1], l)
          /\ ~(run[n + 1].at = "end" /\ input[n + 1] = "eof")
    BY DEF Dead
  <1>2. PICK e : e = Len(input) OBVIOUS
  <1>3. Len(input) \in Nat /\ MaxDepth \in Nat BY DepthAssumption DEF TypeOK
  <1>4. n \in 0..Len(input) /\ e \in 1..Len(input) + 1 BY <1>1, <1>2, <1>3, SMT
  <1>5. Syntax!Halted(input, n, run) BY <1>1 DEF Syntax!Halted
  <1>6. Syntax!Derives(input, MaxDepth)[<<"value", 1, e, MaxDepth>>] /\ input[e] = "eof"
    BY <1>2, SameDerivations DEF IsJson
  <1>7. e \in 1..n + 1 /\ run[e].at = "end"
    BY <1>3, <1>4, <1>5, <1>6, Syntax!DerivedRun
  <1>8. e = n + 1 BY <1>1, <1>2, <1>3, <1>7, SMT
  <1>9. QED BY <1>1, <1>6, <1>7, <1>8

\* loads returns a value for a text that the grammar derives, nested no deeper
\* than the limit, and for no other: what decode_any, decode_array and
\* decode_object accept between them is JSON, for every text, every limit and
\* every state ds was left in.
THEOREM DecodesCorrect == Spec => []DecodesJson
PROOF
  <1>1. Init => KindsFit /\ Inside /\ EofLast /\ Begun /\ Ended
    <2> SUFFICES ASSUME Init PROVE KindsFit /\ Inside /\ EofLast /\ Begun /\ Ended OBVIOUS
    <2>1. ~(\E i \in 1..Len(stack) : TRUE) BY SMT DEF Init
    <2>2. KindsFit BY <2>1 DEF KindsFit, Init, NULL
    <2>3. /\ start = 1 /\ input \in Seq(Lexemes)
          /\ \A i \in 1..Len(input) : input[i] = "eof" => i = Len(input)
      BY KnownAssumption DEF Init
    <2>4. Len(input) \in Nat BY <2>3
    <2>5. Inside BY <2>3, <2>4 DEF Inside, StopsAtTerminator, Complete
    <2>6. EofLast BY <2>3 DEF EofLast
    <2>7. Begun /\ Ended BY DEF Init, Begun, Ended, Valued
    <2>8. QED BY <2>2, <2>5, <2>6, <2>7
  <1>2. IInv => TypeOK BY DEF IInv
  <1>3. IInv /\ EofLast /\ Ended /\ Led => DecodesJson
    <2> SUFFICES ASSUME IInv, EofLast, Ended, Led, pc = "done"
                 PROVE  Outcome = "value" <=> IsJson(input, MaxDepth)
      BY DEF DecodesJson
    <2>1. Outcome = "value" => IsJson(input, MaxDepth) BY AcceptsJson DEF Valued
    <2>2. ASSUME Outcome # "value" PROVE ~IsJson(input, MaxDepth)
      <3>1. Control BY DEF IInv
      <3>2. ret = NULL => errorStr # "none" \/ pyErr BY <3>1 DEF Control, Unwinding
      <3>3. errorStr = "none" /\ ret # NULL /\ ~pyErr => Outcome = "value" BY DEF Outcome
      <3>4. Refused BY <2>2, <3>2, <3>3 DEF Refused
      <3>5. QED BY <1>2, <3>4, DeadIsNoJson DEF Led
    <2>3. QED BY <2>1, <2>2
  <1>4. QED
    BY <1>1, <1>2, <1>3, InitInvariant, NextInvariant, TrailingInvariant, NextInside,
       NextKinds, EofInvariant, EndedInvariant, BegunInvariant, InitLed, LedInvariant, PTL
    DEF Spec

-----------------------------------------------------------------------------
(* Termination: how many steps the parser may still take.                  *)

\* Where the terminator is, or will be at the latest.
Limit ==
  IF Complete THEN Len(input)
  ELSE IF Len(input) <= MaxLen THEN MaxLen + 1 ELSE Len(input) + 1

\* The steps of decode_any and its callers before the next lexeme is passed or
\* an activation returns.
Rank ==
  CASE pc = "member"     -> 4
    [] pc = "decode_any" -> 3
    [] pc = "return"     -> 2
    [] pc = "done"       -> 0
    [] OTHER             -> 1

\* Four for each lexeme that is ahead and one for each activation.
Fuel == 4 * (Limit + 1 - start) + Len(stack) + Rank

LEMMA RankRange == Rank \in 0..4 /\ Rank' \in 0..4
PROOF BY DEF Rank

LEMMA LimitType ==
  /\ TypeOK => Limit \in Nat /\ Len(input) <= Limit
  /\ TypeOK' => Limit' \in Nat
PROOF
  <1>1. TypeOK => Limit \in Nat /\ Len(input) <= Limit
    BY LenAssumption, SMT DEF TypeOK, Limit
  <1>2. TypeOK' => Len(input') \in Nat BY SMT DEF TypeOK
  <1>3. QED BY <1>1, <1>2, LenAssumption, SMT DEF Limit

LEMMA PeekLimit == ASSUME TypeOK, NEW c, Peek(c) PROVE Limit' <= Limit
PROOF
  <1>1. CASE UNCHANGED input
    <2>1. Limit' = Limit BY <1>1 DEF Limit, Complete
    <2>2. QED BY <2>1, LimitType, SMT
  <1>2. CASE ~Complete /\ (Len(input) >= MaxLen => c = "eof") /\ input' = Append(input, c)
             /\ c \in Lexemes
    <2>1. PICK s \in Seq(Lexemes) : s = input BY DEF TypeOK
    <2>2. PICK t : t = Append(s, c) OBVIOUS
    <2>3. Len(t) = Len(s) + 1 /\ Len(s) \in Nat /\ t[Len(s) + 1] = c
      BY <1>2, <2>2, AppendProperties
    <2>4. input' = t BY <1>2, <2>1, <2>2
    <2>5. Complete' <=> c = "eof" BY <2>3, <2>4, SMT DEF Complete
    <2>6. Limit' = IF c = "eof" THEN Len(t)
                   ELSE IF Len(t) <= MaxLen THEN MaxLen + 1 ELSE Len(t) + 1
      BY <2>4, <2>5 DEF Limit
    <2>7. Limit = IF Len(s) <= MaxLen THEN MaxLen + 1 ELSE Len(s) + 1
      BY <1>2, <2>1 DEF Limit
    <2>8. QED BY <1>2, <2>1, <2>3, <2>6, <2>7, LenAssumption, SMT
  <1>3. QED BY <1>1, <1>2 DEF Peek

LEMMA FuelType == TypeOK /\ Inside => Fuel \in Nat
PROOF
  <1> SUFFICES ASSUME TypeOK, Inside PROVE Fuel \in Nat OBVIOUS
  <1>1. Limit \in Nat /\ Len(input) <= Limit BY LimitType
  <1>2. start \in Nat /\ Len(input) \in Nat /\ Len(stack) \in Nat /\ start <= Len(input) + 1
    BY DEF TypeOK, Inside
  <1>3. Rank \in Nat BY RankRange, SMT
  <1>4. QED BY <1>1, <1>2, <1>3, SMT DEF Fuel

\* A step pays with the lexeme it passes.
LEMMA Spends ==
  ASSUME TypeOK, TypeOK', Limit' <= Limit,
         NEW d \in {0, 1}, start' = start + d,
         Len(stack') + Rank' < Len(stack) + Rank + 4 * d
  PROVE  Fuel' < Fuel
PROOF
  <1>1. Limit \in Nat /\ Limit' \in Nat BY LimitType
  <1>2. Rank \in Nat /\ Rank' \in Nat BY RankRange, SMT
  <1>3. start \in Nat /\ Len(stack) \in Nat /\ Len(stack') \in Nat BY DEF TypeOK
  <1>4. Fuel' = 4 * (Limit' + 1 - start') + Len(stack') + Rank' BY DEF Fuel
  <1>5. QED BY <1>1, <1>2, <1>3, <1>4, SMT DEF Fuel

LEMMA StepSpends ==
  ASSUME IInv, IInv', Step
  PROVE  Fuel' < Fuel
PROOF
  <1>1. /\ TypeOK /\ TypeOK' /\ Len(stack) \in Nat /\ Len(stack') \in Nat
        /\ 0 \in {0, 1} /\ 1 \in {0, 1}
    BY DEF IInv, TypeOK
  <1>2. \A c : Peek(c) => Limit' <= Limit BY <1>1, PeekLimit
  <1>3. UNCHANGED input => Limit' <= Limit
    <2>1. UNCHANGED input => Limit' = Limit BY DEF Limit, Complete
    <2>2. QED BY <1>1, <2>1, LimitType, SMT
  <1>4. \A obj, msg : Return(obj) \/ SetError(msg) => Rank' = 2 BY DEF Return, SetError, Rank
  <1>5. start \in Nat /\ Rank \in Nat /\ Rank' \in Nat
    <2>1. start \in Nat BY <1>1 DEF TypeOK
    <2>2. QED BY <2>1, RankRange, SMT
  <1>6. /\ UNCHANGED start => start' = start + 0
        /\ UNCHANGED stack => Len(stack') = Len(stack)
        /\ UNCHANGED pc => Rank' = Rank
    BY <1>5, SMT DEF Rank
  <1>7. Pops => Len(stack') + 1 = Len(stack) BY <1>1, SMT DEF Pops
  <1>8. CASE SkipWhitespace
    <2>1. Limit' <= Limit /\ start' = start + 1 /\ UNCHANGED <<stack, pc>>
      BY <1>2, <1>8 DEF SkipWhitespace
    <2>2. Len(stack') + Rank' < Len(stack) + Rank + 4 * 1 BY <1>1, <1>5, <1>6, <2>1, SMT
    <2>3. QED BY <1>1, <2>1, <2>2, Spends
  <1>9. CASE DecodeScalar \/ DecodeRaises
    <2>1. Limit' <= Limit /\ start' = start + 1 /\ UNCHANGED stack /\ pc = "decode_any"
      BY <1>2, <1>9 DEF DecodeScalar, DecodeRaises
    <2>2. Rank = 3 /\ Rank' = 2 BY <1>4, <1>9, <2>1 DEF Rank, DecodeScalar, DecodeRaises
    <2>3. Len(stack') + Rank' < Len(stack) + Rank + 4 * 1 BY <1>1, <1>6, <2>1, <2>2, SMT
    <2>4. QED BY <1>1, <2>1, <2>3, Spends
  <1>10. CASE DecodeJunkNumber \/ DecodeError \/ TooDeep("lbrack") \/ TooDeep("lbrace")
    <2>1. Limit' <= Limit /\ UNCHANGED <<start, stack>> /\ pc = "decode_any"
      BY <1>2, <1>10 DEF DecodeJunkNumber, DecodeError, TooDeep
    <2>2. Rank = 3 BY <2>1 DEF Rank
    <2>3. Rank' = 2 BY <1>4, <1>10 DEF DecodeJunkNumber, DecodeError, TooDeep
    <2>4. Len(stack') + Rank' < Len(stack) + Rank + 4 * 0 BY <1>1, <1>6, <2>1, <2>2, <2>3, SMT
    <2>5. QED BY <1>1, <1>6, <2>1, <2>4, Spends
  <1>11. ASSUME NEW fn \in {"array", "object"}, NEW c, Enter(fn, c) PROVE Fuel' < Fuel
    <2>1. Limit' <= Limit /\ start' = start + 1 /\ pc = "decode_any" /\ pc' = "member"
      BY <1>2, <1>11 DEF Enter
    <2>2. Len(stack') = Len(stack) + 1 BY <1>11, StackSteps DEF Pushes
    <2>3. Rank = 3 /\ Rank' = 4 BY <2>1 DEF Rank
    <2>4. Len(stack') + Rank' < Len(stack) + Rank + 4 * 1 BY <1>1, <2>2, <2>3, SMT
    <2>5. QED BY <1>1, <2>1, <2>4, Spends
  <1>12. CASE CloseAtMember
    <2>1. Limit' <= Limit /\ pc = "member" /\ Pops BY <1>2, <1>12, StackSteps DEF CloseAtMember
    <2>2. Rank = 4 /\ Rank' = 2 BY <1>4, <1>12, <2>1, Zenon DEF Rank, CloseAtMember
    <2>3. start' = start + 1 \/ start' = start + 0 BY <1>6, <1>12 DEF CloseAtMember
    <2>4. \A d \in {0, 1} : Len(stack') + Rank' < Len(stack) + Rank + 4 * d
      BY <1>1, <1>7, <2>1, <2>2, SMT
    <2>5. QED BY <1>1, <2>1, <2>3, <2>4, Spends
  <1>13. CASE BeginMember
    <2>1. Limit' <= Limit /\ UNCHANGED <<start, stack>> /\ pc = "member" /\ pc' = "decode_any"
      BY <1>2, <1>13 DEF BeginMember
    <2>2. Rank = 4 /\ Rank' = 3 BY <2>1 DEF Rank
    <2>3. Len(stack') + Rank' < Len(stack) + Rank + 4 * 0 BY <1>1, <1>6, <2>1, <2>2, SMT
    <2>4. QED BY <1>1, <1>6, <2>1, <2>3, Spends
  <1>14. CASE Unwind
    <2>1. Limit' <= Limit /\ UNCHANGED <<start, pc>> /\ Pops
      BY <1>3, <1>14, StackSteps DEF Unwind
    <2>2. Len(stack') + Rank' < Len(stack) + Rank + 4 * 0 BY <1>1, <1>5, <1>6, <1>7, <2>1, SMT
    <2>3. QED BY <1>1, <1>6, <2>1, <2>2, Spends
  <1>15. CASE ArrayAddItem \/ ObjectAddKey \/ Epilogue
    <2>1. /\ Limit' <= Limit /\ UNCHANGED start /\ pc = "return"
          /\ pc' \in {"delimiter", "trailing", "done"}
      BY <1>3, <1>15 DEF ArrayAddItem, ObjectAddKey, Epilogue
    <2>2. Rank = 2 /\ Rank' \in {0, 1} BY <2>1 DEF Rank
    <2>3. Len(stack') = Len(stack)
      BY <1>6, <1>15, StackSteps DEF ArrayAddItem, Epilogue, Changes
    <2>4. Len(stack') + Rank' < Len(stack) + Rank + 4 * 0 BY <1>1, <2>2, <2>3, SMT
    <2>5. QED BY <1>1, <1>6, <2>1, <2>4, Spends
  <1>16. CASE GotName
    <2>1. Limit' <= Limit /\ UNCHANGED start /\ pc = "return" BY <1>3, <1>16 DEF GotName
    <2>2. \/ stack' = [stack EXCEPT ![Len(stack)].name = ret] /\ pc' = "colon"
          \/ Pops /\ Rank' = 2
      <3>1. stack # <<>> /\ stack' = Pop => Pops
        BY <1>1, StackFacts DEF Pops
      <3>2. QED BY <1>4, <1>16, <3>1 DEF GotName
    <2>3. Rank = 2 BY <2>1 DEF Rank
    <2>4. CASE stack' = [stack EXCEPT ![Len(stack)].name = ret] /\ pc' = "colon"
      <3>1. Rank' = 1 BY <2>4 DEF Rank
      <3>2. Len(stack') = Len(stack) BY <1>1, <2>4, SMT DEF TypeOK
      <3>3. Len(stack') + Rank' < Len(stack) + Rank + 4 * 0 BY <1>1, <2>3, <3>1, <3>2, SMT
      <3>4. QED BY <1>1, <1>6, <2>1, <3>3, Spends
    <2>5. CASE Pops /\ Rank' = 2
      <3>1. Len(stack') + Rank' < Len(stack) + Rank + 4 * 0 BY <1>1, <1>7, <2>3, <2>5, SMT
      <3>2. QED BY <1>1, <1>6, <2>1, <3>1, Spends
    <2>6. QED BY <2>2, <2>4, <2>5
  <1>17. CASE Colon
    <2>1. Limit' <= Limit /\ start' = start + 1 /\ pc = "colon" BY <1>2, <1>17 DEF Colon
    <2>2. Rank = 1 /\ Rank' \in {2, 3} BY <1>4, <1>17, <2>1 DEF Rank, Colon
    <2>3. UNCHANGED stack \/ Pops BY <1>17, StackSteps
    <2>4. Len(stack') + Rank' < Len(stack) + Rank + 4 * 1
      BY <1>1, <1>6, <1>7, <2>2, <2>3, SMT
    <2>5. QED BY <1>1, <2>1, <2>4, Spends
  <1>18. CASE Delimiter
    <2>1. Limit' <= Limit /\ start' = start + 1 /\ pc = "delimiter"
      BY <1>2, <1>18 DEF Delimiter, CloseAfterMember, Comma, BadDelimiter
    <2>2. Rank = 1 BY <2>1 DEF Rank
    <2>3. Rank' \in {2, 4}
      BY <1>4, <1>18 DEF Rank, Delimiter, CloseAfterMember, Comma, BadDelimiter
    <2>4. Len(stack') <= Len(stack)
      <3>1. Pops \/ Changes(Longer) BY <1>18, StackSteps DEF Delimiter
      <3>2. QED BY <1>1, <1>7, <3>1, SMT DEF Changes
    <2>5. Len(stack') + Rank' < Len(stack) + Rank + 4 * 1 BY <1>1, <2>2, <2>3, <2>4, SMT
    <2>6. QED BY <1>1, <2>1, <2>5, Spends
  <1>19. CASE Trailing
    <2>1. /\ Limit' <= Limit /\ UNCHANGED <<start, stack>> /\ pc = "trailing"
          /\ pc' = "done"
      BY <1>2, <1>19 DEF Trailing
    <2>2. Rank = 1 /\ Rank' = 0 BY <2>1 DEF Rank
    <2>3. Len(stack') + Rank' < Len(stack) + Rank + 4 * 0 BY <1>1, <1>6, <2>1, <2>2, SMT
    <2>4. QED BY <1>1, <1>6, <2>1, <2>3, Spends
  <1>20. QED
    BY <1>8, <1>9, <1>10, <1>11, <1>12, <1>13, <1>14, <1>15, <1>16, <1>17, <1>18, <1>19
    DEF Step

\* The parser takes at most four steps for each lexeme, and each brings it
\* nearer to its end: no sequence of white space, nesting, errors or numbers
\* that consume nothing keeps it going, for any text and any depth.
THEOREM StepsCorrect == Spec => [](Fuel \in Nat) /\ [][Fuel' < Fuel]_vars
PROOF
  <1>1. Init => Inside
    <2> SUFFICES ASSUME Init PROVE Inside OBVIOUS
    <2>1. start = 1 /\ Len(input) \in Nat BY KnownAssumption DEF Init
    <2>2. QED BY <2>1 DEF Inside, StopsAtTerminator, Complete
  <1>2. IInv /\ Inside => Fuel \in Nat BY FuelType DEF IInv
  <1>3. IInv /\ IInv' /\ [Next]_vars => [Fuel' < Fuel]_vars
    BY StepSpends DEF Next, Done
  <1>4. QED
    BY <1>1, <1>2, <1>3, InitInvariant, NextInvariant, TrailingInvariant, NextInside, PTL
    DEF Spec
=============================================================================
