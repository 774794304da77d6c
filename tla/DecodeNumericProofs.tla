------------------------ MODULE DecodeNumericProofs ------------------------
(***************************************************************************)
(* decode_numeric is exact for every number of digits and every pair of    *)
(* widths of which one divides the other, 32 and 64 bits among them.       *)
(***************************************************************************)
EXTENDS DecodeNumeric, TLAPS

\* What % is: the remainder that completes a multiple of the modulus.
LEMMA Remainder ==
  ASSUME NEW m \in Nat \ {0}, NEW q \in Int, NEW r \in 0..m - 1
  PROVE  (q * m + r) % m = r
PROOF BY SMT

LEMMA RemainderRange ==
  ASSUME NEW m \in Nat \ {0}, NEW x \in Int
  PROVE  x % m \in 0..m - 1
PROOF BY SMT

LEMMA RemainderSmall ==
  ASSUME NEW m \in Nat \ {0}, NEW x \in 0..m - 1
  PROVE  x % m = x
PROOF BY SMT

LEMMA RemainderNegative ==
  ASSUME NEW m \in Nat \ {0}, NEW v \in 1..m - 1
  PROVE  (-v) % m = m - v
PROOF BY SMT

LEMMA Widths ==
  /\ ULong \in Nat \ {0} /\ HalfLong \in Nat \ {0} /\ HalfInt \in Nat \ {0}
  /\ HalfInt <= HalfLong
  /\ ULong = 2 * HalfLong
  /\ \E k \in Nat \ {0} : ULong = k * (2 * HalfInt)
PROOF
  <1>1. HalfLong = (HalfLong \div HalfInt) * HalfInt BY WidthAssumption, SMT
  <1>2. HalfLong \div HalfInt \in Nat \ {0} BY <1>1, WidthAssumption, SMT
  <1>3. ULong = (HalfLong \div HalfInt) * (2 * HalfInt)
    BY <1>1, <1>2, WidthAssumption, SMT DEF ULong
  <1>4. HalfInt <= HalfLong
    <2>1. ASSUME NEW k \in Nat \ {0}, NEW h \in Nat, NEW l \in Nat, l = k * h
          PROVE  h <= l
      BY <2>1, SMT
    <2>2. \E k \in Nat \ {0} : HalfLong = k * HalfInt BY <1>1, <1>2
    <2>3. PICK k \in Nat \ {0} : HalfLong = k * HalfInt BY <2>2
    <2>4. HalfInt \in Nat /\ HalfLong \in Nat BY WidthAssumption
    <2>5. QED BY <2>1, <2>3, <2>4
  <1>5. \E k \in Nat \ {0} : ULong = k * (2 * HalfInt) BY <1>2, <1>3, Zenon
  <1>6. QED BY <1>4, <1>5, WidthAssumption, SMT DEF ULong

-----------------------------------------------------------------------------
(* The scan.  Before an overflow no operation has wrapped; after one,        *)
(* hasError stays and the number only grows.                                 *)

Scanned ==
  /\ hasError <=> magnitude > maxIntValue
  /\ ~hasError => intValue = magnitude
  /\ intNeg = 1 \/ intNeg = -1

LEMMA AccumulateExact ==
  ASSUME TypeOK, Scanned, NEW d \in Digits, Accumulate(d),
         magnitude' = magnitude * 10 + d, UNCHANGED intNeg
  PROVE  Scanned' /\ intValue' \in 0..ULong - 1 /\ hasError' \in BOOLEAN
PROOF
  <1> DEFINE max == maxIntValue
             lim == overflowLimit
             v == intValue
  <1>1. max \in 0..ULong - 1 BY Widths, SMT DEF maxIntValue, Scanned
  <1>2. lim \in Nat /\ 10 * lim <= max /\ max < 10 * lim + 10
    BY <1>1, Widths, SMT DEF overflowLimit
  <1>3. max' = max BY DEF maxIntValue
  <1>4. /\ v \in 0..ULong - 1
        /\ magnitude \in Nat /\ d \in Nat /\ d <= 9
        /\ hasError \in BOOLEAN
    BY Widths, SMT DEF TypeOK, Digits
  <1>5. intValue' \in 0..ULong - 1 /\ hasError' \in BOOLEAN
    <2>1. Wrap(v * 10) + d \in Int BY <1>4, Widths, RemainderRange, SMT DEF Wrap
    <2>2. intValue' \in 0..ULong - 1
      BY <2>1, Widths, RemainderRange DEF Accumulate, Wrap
    <2>3. QED BY <2>2, Zenon DEF Accumulate
  <1> HIDE DEF max, lim, v
  <1>6. CASE hasError
    <2>1. hasError' BY <1>6 DEF Accumulate
    <2>2. magnitude > max BY <1>6 DEF Scanned, max
    <2>3. magnitude' > max BY <1>1, <1>4, <2>2, Widths, SMT
    <2>4. QED BY <1>3, <1>5, <2>1, <2>3 DEF Scanned, max
  <1>7. CASE ~hasError /\ v > lim
    <2>1. hasError' BY <1>7 DEF Accumulate, v, lim
    <2>2. magnitude = v BY <1>7 DEF Scanned, v
    <2>3. magnitude' > max BY <1>1, <1>2, <1>4, <1>7, <2>2, Widths, SMT
    <2>4. QED BY <1>3, <1>5, <2>1, <2>3 DEF Scanned, max
  <1>8. CASE ~hasError /\ ~(v > lim)
    <2>1. magnitude = v BY <1>8 DEF Scanned, v
    <2>2. v * 10 \in 0..ULong - 1 /\ v * 10 <= max
      BY <1>1, <1>2, <1>4, <1>8, Widths, SMT
    <2>3. Wrap(v * 10) = v * 10 BY <2>2, Widths, RemainderSmall DEF Wrap
    <2>4. max - v * 10 \in 0..ULong - 1 BY <1>1, <2>2, Widths, SMT
    <2>5. Wrap(max - v * 10) = max - v * 10 BY <2>4, Widths, RemainderSmall DEF Wrap
    <2>6. hasError' <=> max - v * 10 < d
      BY <1>8, <2>3, <2>5 DEF Accumulate, v, lim, max
    <2>7. hasError' <=> magnitude' > max
      BY <1>1, <1>4, <2>1, <2>2, <2>6, Widths, SMT
    <2>8. ASSUME ~hasError'
          PROVE  intValue' = magnitude'
      <3>1. v * 10 + d \in 0..ULong - 1 /\ magnitude' = v * 10 + d
        BY <1>1, <1>4, <2>1, <2>2, <2>6, <2>8, Widths, SMT
      <3>2. Wrap(v * 10 + d) = v * 10 + d BY <3>1, Widths, RemainderSmall DEF Wrap
      <3>3. QED BY <2>3, <3>1, <3>2 DEF Accumulate, v
    <2>9. QED BY <1>3, <1>5, <2>7, <2>8 DEF Scanned, max
  <1>9. QED BY <1>6, <1>7, <1>8

-----------------------------------------------------------------------------
(* The callback. *)

LEMMA MakeExact ==
  ASSUME TypeOK, Scanned, ~hasError, Make
  PROVE  /\ call' \in {"newInt", "newLong", "newUnsignedLong"}
         /\ arg' = intNeg * magnitude
         /\ call' = "newInt" => arg' \in -HalfInt..HalfInt - 1
         /\ call' = "newLong" => arg' \in -HalfLong..HalfLong - 1
         /\ call' = "newUnsignedLong" => arg' \in 0..ULong - 1
PROOF
  <1> DEFINE v == intValue
  <1>1. v = magnitude /\ v \in 0..ULong - 1 /\ v <= maxIntValue
    BY Widths, SMT DEF Scanned, TypeOK, maxIntValue
  <1>2. CASE intNeg = 1
    <2>1. v * intNeg = v /\ intNeg * magnitude = v BY <1>1, <1>2, SMT
    <2>2. Wrap(v * intNeg) = v BY <1>1, <2>1, Widths, RemainderSmall DEF Wrap
    <2>3. CASE v >= HalfLong
      BY <1>1, <1>2, <2>1, <2>3, Widths, SMT DEF Make
    <2>4. CASE v < HalfLong /\ v >= HalfInt
      <3>1. ToLong(v) = v BY <2>4 DEF ToLong
      <3>2. QED BY <1>1, <1>2, <2>1, <2>2, <2>4, <3>1, Widths, SMT DEF Make
    <2>5. CASE v < HalfInt
      <3>1. v \in 0..(2 * HalfInt) - 1 /\ 2 * HalfInt \in Nat \ {0}
        BY <1>1, <2>5, Widths, SMT
      <3>2. v % (2 * HalfInt) = v BY <3>1, RemainderSmall
      <3>3. ToInt(v) = v BY <2>5, <3>2 DEF ToInt
      <3>4. QED BY <1>1, <1>2, <2>1, <2>2, <2>5, <3>3, Widths, SMT DEF Make
    <2>6. QED BY <1>1, <2>3, <2>4, <2>5, Widths, SMT
  <1>3. CASE intNeg = -1
    <2>1. v * intNeg = -v /\ intNeg * magnitude = -v /\ v <= HalfLong
      BY <1>1, <1>3, Widths, SMT DEF maxIntValue
    <2>2. CASE v = 0
      <3>1. Wrap(0) = 0 BY Widths, RemainderSmall, SMT DEF Wrap
      <3>2. ToInt(0) = 0
        <4>1. 0 % (2 * HalfInt) = 0 BY Widths, SMT
        <4>2. QED BY <4>1, Widths, SMT DEF ToInt
      <3>3. call' = "newInt" /\ arg' = ToInt(Wrap(0))
        BY <1>3, <2>1, <2>2, Widths, SMT DEF Make
      <3>4. QED BY <2>1, <2>2, <3>1, <3>2, <3>3, Widths, SMT
    <2>3. CASE v > 0
      <3>1. v \in 1..ULong - 1 BY <1>1, <2>3, SMT
      <3>2. Wrap(v * intNeg) = ULong - v
        BY <2>1, <3>1, Widths, RemainderNegative DEF Wrap
      <3>3. CASE v >= HalfInt
        <4>1. ToLong(ULong - v) = -v
          BY <1>1, <2>1, Widths, SMT DEF ToLong
        <4>2. call' = "newLong" /\ arg' = ToLong(Wrap(v * intNeg))
          <5>1. ~(intNeg = 1) /\ ~(intValue < HalfInt) BY <1>1, <1>3, <3>3, Widths, SMT
          <5>2. QED BY <5>1, Zenon DEF Make
        <4>3. arg' = -v BY <3>2, <4>1, <4>2
        <4>4. QED BY <1>1, <2>1, <4>2, <4>3, Widths, SMT
      <3>4. CASE v < HalfInt
        <4>1. PICK k \in Nat \ {0} : ULong = k * (2 * HalfInt) BY Widths
        <4>2. /\ 2 * HalfInt \in Nat \ {0}
              /\ 2 * HalfInt - v \in 0..2 * HalfInt - 1
              /\ k - 1 \in Int
          BY <1>1, <2>3, <3>4, <4>1, Widths, SMT
        <4>3. (k - 1) * (2 * HalfInt) + (2 * HalfInt - v) = ULong - v
          BY <1>1, <4>1, Widths, SMT
        <4>4. (ULong - v) % (2 * HalfInt) = 2 * HalfInt - v
          BY <4>2, <4>3, Remainder
        <4>5. ToInt(ULong - v) = -v
          BY <1>1, <2>3, <3>4, <4>4, Widths, SMT DEF ToInt
        <4>6. call' = "newInt" /\ arg' = ToInt(Wrap(v * intNeg))
          <5>1. ~(intNeg = 1) /\ ~(intValue >= HalfInt) BY <1>1, <1>3, <3>4, Widths, SMT
          <5>2. QED BY <5>1, Zenon DEF Make
        <4>7. arg' = -v BY <3>2, <4>5, <4>6
        <4>8. QED BY <1>1, <2>1, <3>4, <4>6, <4>7, Widths, SMT
      <3>5. QED BY <1>1, <3>3, <3>4, Widths, SMT
    <2>4. QED BY <1>1, <2>2, <2>3, SMT
  <1>4. QED BY <1>2, <1>3 DEF Scanned

-----------------------------------------------------------------------------
(* The invariant. *)

\* Nothing is accumulated before the scan and nothing called before its end.
Begun ==
  /\ pc = "begin" => intValue = 0 /\ magnitude = 0 /\ ~hasError
  /\ pc # "done" => call = "none"

IInv == TypeOK /\ Scanned /\ Begun /\ DecodesExactly

LEMMA InitInvariant == Init => IInv
PROOF
  <1> SUFFICES ASSUME Init PROVE IInv OBVIOUS
  <1>1. TypeOK
    <2>1. intValue \in 0..ULong - 1 BY Widths, SMT DEF Init
    <2>2. offset \in Nat /\ arg \in Int /\ magnitude \in Nat /\ intNeg \in {1, -1}
      BY SMT DEF Init
    <2>3. hasError \in BOOLEAN BY Zenon DEF Init
    <2>4. QED BY <2>1, <2>2, <2>3, Zenon DEF Init, TypeOK
  <1>2. Scanned
    <2>1. 0 <= maxIntValue BY Widths, SMT DEF Init, maxIntValue
    <2>2. QED BY <2>1, Widths, SMT DEF Init, Scanned, maxIntValue
  <1>3. DecodesExactly BY DEF Init, DecodesExactly, IntegerCalls
  <1>4. QED BY <1>1, <1>2, <1>3 DEF IInv, Begun, Init

LEMMA NextInvariant == IInv /\ [Next]_vars => IInv'
PROOF
  <1> SUFFICES ASSUME IInv, [Next]_vars PROVE IInv' OBVIOUS
  <1>0. TypeOK /\ Scanned /\ Begun /\ DecodesExactly BY DEF IInv
  <1> USE <1>0
  <1>1. CASE Minus
    <2>1. TypeOK' BY <1>1, SMT DEF Minus, TypeOK
    <2>2. Scanned' BY <1>1, Widths, SMT DEF Minus, Begun, Scanned, maxIntValue
    <2>3. Begun' /\ DecodesExactly'
      BY <1>1, SMT DEF Minus, Begun, DecodesExactly, IntegerCalls
    <2>4. QED BY <2>1, <2>2, <2>3 DEF IInv
  <1>2. CASE BeginScan \/ Double \/ \E w \in Words : BeginWord(w)
    <2> USE <1>2 DEF BeginScan, Double, BeginWord
    <2>1. TypeOK' BY SMT DEF TypeOK, Calls
    <2>2. Scanned' BY DEF Scanned, maxIntValue
    <2>3. Begun' /\ DecodesExactly'
      BY SMT DEF Begun, DecodesExactly, IntegerCalls
    <2>4. QED BY <2>1, <2>2, <2>3 DEF IInv
  <1>3. CASE Letter
    <2>1. /\ pc = "word" /\ pc' \in {"word", "done"}
          /\ (call' = call /\ pc' = pc) \/ (call' \in {"word", "SetError"} /\ pc' = "done")
          /\ offset' = offset + 1
          /\ UNCHANGED <<intNeg, intValue, hasError, word, arg, magnitude>>
      BY <1>3 DEF Letter
    <2>2. TypeOK' BY <2>1, SMT DEF TypeOK, Calls
    <2>3. Scanned' BY <2>1 DEF Scanned, maxIntValue
    <2>4. Begun' /\ DecodesExactly'
      BY <2>1, SMT DEF Begun, DecodesExactly, IntegerCalls
    <2>5. QED BY <2>2, <2>3, <2>4 DEF IInv
  <1>4. ASSUME NEW d \in Digits, Digit(d)
        PROVE  IInv'
    <2>1. Scanned' /\ intValue' \in 0..ULong - 1 /\ hasError' \in BOOLEAN
      BY <1>4, AccumulateExact DEF Digit
    <2>2. TypeOK' BY <1>4, <2>1, SMT DEF Digit, Digits, TypeOK
    <2>3. Begun' /\ DecodesExactly'
      BY <1>4 DEF Digit, Begun, DecodesExactly, IntegerCalls
    <2>4. QED BY <2>1, <2>2, <2>3 DEF IInv
  <1>5. CASE BigInteger
    <2> USE <1>5 DEF BigInteger
    <2>1. TypeOK' BY SMT DEF TypeOK, Calls
    <2>2. Scanned' BY DEF Scanned, maxIntValue
    <2>3. Begun' /\ DecodesExactly' BY DEF Begun, DecodesExactly
    <2>4. QED BY <2>1, <2>2, <2>3 DEF IInv
  <1>6. CASE Integer
    <2>1. /\ call' \in {"newInt", "newLong", "newUnsignedLong"}
          /\ arg' = intNeg * magnitude
          /\ call' = "newInt" => arg' \in -HalfInt..HalfInt - 1
          /\ call' = "newLong" => arg' \in -HalfLong..HalfLong - 1
          /\ call' = "newUnsignedLong" => arg' \in 0..ULong - 1
      BY <1>6, MakeExact DEF Integer
    <2>2. /\ pc' = "done"
          /\ UNCHANGED <<intNeg, intValue, hasError, offset, word, magnitude>>
      BY <1>6 DEF Integer
    <2>3. arg' \in Int BY <2>1, SMT DEF TypeOK
    <2>4. TypeOK' BY <2>1, <2>2, <2>3, SMT DEF TypeOK, Calls
    <2>5. Scanned' BY <2>2 DEF Scanned, maxIntValue
    <2>6. Begun' BY <2>2 DEF Begun
    <2>7. ULong' = ULong BY DEF ULong
    <2>8. DecodesExactly' BY <2>1, <2>2, <2>7, Zenon DEF DecodesExactly
    <2>9. QED BY <2>4, <2>5, <2>6, <2>8 DEF IInv
  <1>7. CASE UNCHANGED vars
    BY <1>7 DEF vars, IInv, TypeOK, Scanned, maxIntValue, Begun, DecodesExactly
  <1>8. QED
    BY <1>1, <1>2, <1>3, <1>4, <1>5, <1>6, <1>7 DEF Next, Done

\* decode_numeric's state stays within its C types.
THEOREM TypeCorrect == Spec => []TypeOK
PROOF
  <1>1. IInv => TypeOK BY DEF IInv
  <1>2. QED BY <1>1, InitInvariant, NextInvariant, PTL DEF Spec

\* The two bounds tests of the scan detect overflow exactly, for both signs.
THEOREM OverflowCorrect == Spec => []OverflowDetected
PROOF
  <1>1. IInv => OverflowDetected BY DEF IInv, Scanned, OverflowDetected
  <1>2. QED BY <1>1, InitInvariant, NextInvariant, PTL DEF Spec

\* Every integer text, however long, is delivered exactly and through a
\* callback whose argument type holds it.
THEOREM ExactCorrect == Spec => []DecodesExactly
PROOF
  <1>1. IInv => DecodesExactly BY DEF IInv
  <1>2. QED BY <1>1, InitInvariant, NextInvariant, PTL DEF Spec
=============================================================================
