------------------------ MODULE StringRoundTripProofs ------------------------
(***************************************************************************)
(* Whatever the bytes of a string and the options, six bytes per byte are  *)
(* enough for its escaped form, and what must be escaped is.  Every string *)
(* that is UTF-8 is escaped to its end, and one that is overlong is not.   *)
(*                                                                         *)
(* Whatever text decode_string is given, it stays inside and frees what it *)
(* has allocated; what is well-formed it decodes to what the text says,    *)
(* what is not it refuses.  And it reads back what has been escaped.       *)
(* DecodeStringProofs has the proofs for decode_string by itself; P is     *)
(* that module, for all texts that may be handed over.                     *)
(***************************************************************************)
EXTENDS StringRoundTrip, SequenceTheorems, WellFoundedInduction, TLAPS

\* The texts that decode_string is called for.
AllTexts ==
  Documents \cup
    {[NoText EXCEPT !.bytes = b] : b \in {s \in Seq(Byte) : Len(s) > 1 /\ s[Len(s)] = 0}}

P == INSTANCE DecodeStringProofs WITH
  Texts <- AllTexts,
  text <- dtext, pc <- dpc, start <- dstart, offset <- doffset,
  escLen <- descLen, escHeap <- descHeap, blocks <- dblocks, esc <- desc,
  lastHigh <- dlastHigh, errorStr <- derrorStr, decoded <- ddecoded,
  reach <- dreach

\* Six bytes per byte that has been consumed.  The loop that passes end has
\* taken the NUL for the last byte of a sequence, which is written as if that
\* byte were there: it has one byte less to pay with, but enough.
Paid ==
  /\ pc = "escape" => io <= end /\ of <= 6 * (io - 1)
  /\ FitsReserve

IInv == TypeOK /\ Paid

-----------------------------------------------------------------------------
(* Bytes and code points. *)

LEMMA Lengths == ASSUME TypeOK PROVE N \in Nat /\ end = N + 1
PROOF
  <1>1. text.bytes \in Seq(Byte) BY TextsAssumption DEF TypeOK
  <1>2. QED BY <1>1 DEF N, end

LEMMA AtType == ASSUME TypeOK, NEW i \in Nat \ {0} PROVE at(i) \in Nat /\ at(i) <= 255
PROOF
  <1>1. text.bytes \in Seq(Byte) BY TextsAssumption DEF TypeOK
  <1>2. ASSUME i <= N PROVE text.bytes[i] \in Nat /\ text.bytes[i] <= 255
    <2>1. text.bytes[i] \in Byte BY <1>1, <1>2 DEF N
    <2>2. QED BY <2>1 DEF Byte
  <1>3. QED BY <1>2 DEF at, ByteAt, N

LEMMA UnitsAre ==
  ASSUME NEW u PROVE u \in 0..MaxUnit <=> u \in Nat /\ u <= MaxUnit
PROOF
  <1>1. MaxUnit \in Nat BY DEF MaxUnit
  <1>2. QED BY <1>1

LEMMA ItemsAre ==
  ASSUME NEW u \in Nat, u <= MaxUnit
  PROVE  /\ Hex(u) \in Items
         /\ u <= 255 => Raw(u) \in Items /\ Short(u) \in Items
PROOF
  <1>1. u \in 0..MaxUnit BY UnitsAre
  <1>2. u <= 255 => u \in Byte BY DEF Byte
  <1>3. QED BY <1>1, <1>2, Zenon DEF Raw, Short, Hex, Items

\* A single byte is written as one item of at most six bytes.
LEMMA ItemType ==
  ASSUME NEW b \in Nat, b <= 255
  PROVE  /\ Item(b) \in Items
         /\ Width(Item(b)) \in Nat /\ Width(Item(b)) <= 6
PROOF
  <1>1. Item(b) \in {Raw(b), Short(b), Hex(b)} BY DEF Item
  <1>2. b <= MaxUnit BY DEF MaxUnit
  <1>3. Item(b) \in Items BY <1>1, <1>2, ItemsAre
  <1>4. Width(Raw(b)) = 1 /\ Width(Short(b)) = 2 /\ Width(Hex(b)) = 6
    BY DEF Width, Raw, Short, Hex
  <1>5. QED BY <1>1, <1>3, <1>4

\* Only four bytes can stand for a code point that needs two units.
LEMMA UcsBound ==
  ASSUME TypeOK, NEW n \in 2..4
  PROVE  /\ ucs(n) \in Nat /\ ucs(n) <= 2097151
         /\ n # 4 => ucs(n) < 65536
PROOF
  <1>1. /\ at(io) \in Nat /\ at(io + 1) \in Nat
        /\ at(io + 2) \in Nat /\ at(io + 3) \in Nat
    BY AtType DEF TypeOK
  <1> DEFINE l(m) == Lead(m, at(io))
             b(i) == Bits(at(io + i))
  <1>2. /\ b(1) \in Nat /\ b(1) <= 63
        /\ b(2) \in Nat /\ b(2) <= 63
        /\ b(3) \in Nat /\ b(3) <= 63
    BY <1>1 DEF Bits
  <1>3. /\ l(2) \in Nat /\ l(2) <= 31
        /\ l(3) \in Nat /\ l(3) <= 15
        /\ l(4) \in Nat /\ l(4) <= 7
    BY <1>1 DEF Lead
  <1>4. /\ n = 2 => ucs(n) = (l(2) * 64) + b(1)
        /\ n = 3 => ucs(n) = (((l(3) * 64) + b(1)) * 64) + b(2)
        /\ n = 4 => ucs(n) = (((((l(4) * 64) + b(1)) * 64) + b(2)) * 64) + b(3)
    <2>1. CASE n = 2 BY <2>1 DEF ucs, Combined, at
    <2>2. CASE n = 3 BY <2>2 DEF ucs, Combined, at
    <2>3. CASE n = 4 BY <2>3 DEF ucs, Combined, at
    <2>4. QED BY <2>1, <2>2, <2>3
  <1> HIDE DEF l, b
  <1>5. QED BY <1>2, <1>3, <1>4, SMT

LEMMA UnitsType ==
  ASSUME NEW u \in Nat, u <= 2097151
  PROVE  Units(u) \in Seq(Items)
PROOF
  <1>1. CASE u >= 65536
    <2>1. /\ ((u - 65536) \div 1024) + 55296 \in Nat
          /\ ((u - 65536) \div 1024) + 55296 <= MaxUnit
          /\ (u % 1024) + 56320 \in Nat /\ (u % 1024) + 56320 <= MaxUnit
      BY <1>1, SMT DEF MaxUnit
    <2>2. /\ Hex(((u - 65536) \div 1024) + 55296) \in Items
          /\ Hex((u % 1024) + 56320) \in Items
      BY <2>1, ItemsAre
    <2>3. QED BY <1>1, <2>2 DEF Units, Pair
  <1>2. CASE u < 65536
    <2>1. Hex(u) \in Items BY <1>2, ItemsAre DEF MaxUnit
    <2>2. QED BY <1>2, <2>1 DEF Units
  <1>3. QED BY <1>1, <1>2

-----------------------------------------------------------------------------
(* The steps. *)

LEMMA InitInvariant == Init => IInv
PROOF
  <1> SUFFICES ASSUME Init PROVE IInv OBVIOUS
  <1>1. /\ io = 1 /\ of = 0 /\ pc = "escape" /\ errorMsg = "none"
        /\ text \in Texts /\ options \in Options
    BY Zenon DEF Init, Start
  <1>2. out \in Seq(Items)
    <2>1. <<>> \in Seq(Items) OBVIOUS
    <2>2. out = <<>> BY DEF Init, Start
    <2>3. QED BY <2>1, <2>2
  <1>3. TypeOK BY <1>1, <1>2 DEF TypeOK
  <1>4. Paid BY <1>1, <1>3, Lengths DEF Paid, FitsReserve
  <1>5. QED BY <1>3, <1>4 DEF IInv

\* n bytes pay for what is written, or n - 1 where the last of them is the NUL.
LEMMA PutStep ==
  ASSUME IInv, pc = "escape",
         NEW n \in 1..4, NEW w \in Nat, NEW items \in Seq(Items),
         io + n <= end + 1,
         w <= 6 * (IF io + n > end THEN n - 1 ELSE n),
         Put(n, w, items)
  PROVE  IInv'
PROOF
  <1>1. N \in Nat /\ end = N + 1 BY Lengths DEF IInv
  <1>2. N' = N /\ end' = end BY DEF Put, N, end
  <1>3. /\ io \in Nat \ {0} /\ of \in Nat /\ out \in Seq(Items)
        /\ of <= 6 * (io - 1)
    BY DEF IInv, TypeOK, Paid
  <1>4. out' \in Seq(Items) BY <1>3 DEF Put
  <1>5. errorMsg = "none" BY DEF IInv, TypeOK
  <1>6. TypeOK'
    <2>1. /\ text' \in Texts /\ options' \in Options /\ errorMsg' = "none"
          /\ pc' \in {"outside", "escape"}
      BY <1>5 DEF IInv, TypeOK, Put
    <2>2. io' \in Nat \ {0} /\ of' \in Nat BY <1>3 DEF Put
    <2>3. QED BY <1>4, <2>1, <2>2 DEF TypeOK
  <1>7. Paid'
    <2>1. /\ io' = io + n /\ of' = of + w
          /\ pc' = IF io + n > end THEN "outside" ELSE "escape"
      BY DEF Put
    <2>2. CASE io + n > end
      <3>1. pc' = "outside" /\ w <= 6 * (n - 1) BY <2>1, <2>2
      <3>2. of' <= 6 * N BY <1>1, <1>3, <2>1, <3>1
      <3>3. QED BY <1>2, <3>1, <3>2 DEF Paid, FitsReserve
    <2>3. CASE ~(io + n > end)
      <3>1. w <= 6 * n BY <2>3
      <3>2. io' <= end /\ of' <= 6 * (io' - 1) /\ of' <= 6 * N
        BY <1>1, <1>3, <2>1, <2>3, <3>1
      <3>3. QED BY <1>2, <3>2 DEF Paid, FitsReserve
    <2>4. QED BY <2>2, <2>3
  <1>8. QED BY <1>6, <1>7 DEF IInv

\* One byte before end.
LEMMA OneStep ==
  ASSUME IInv, Escaping, PutOne(Item(at(io)))
  PROVE  IInv'
PROOF
  <1>1. io \in Nat \ {0} /\ io < end /\ pc = "escape" BY DEF IInv, TypeOK, Escaping
  <1>2. /\ Item(at(io)) \in Items
        /\ Width(Item(at(io))) \in Nat /\ Width(Item(at(io))) <= 6
    BY <1>1, AtType, ItemType DEF IInv
  <1>3. <<Item(at(io))>> \in Seq(Items) BY <1>2
  <1>4. end \in Nat BY Lengths DEF IInv
  <1>5. io + 1 <= end + 1 /\ ~(io + 1 > end) BY <1>1, <1>4
  <1> DEFINE w == Width(Item(at(io)))
  <1>6. w <= 6 * (IF io + 1 > end THEN 1 - 1 ELSE 1) BY <1>2, <1>5
  <1>7. w \in Nat /\ Put(1, w, <<Item(at(io))>>) BY <1>2 DEF PutOne
  <1> HIDE DEF w
  <1>8. 1 \in 1..4 OBVIOUS
  <1>9. QED BY <1>1, <1>3, <1>5, <1>6, <1>7, <1>8, PutStep

LEMMA ErrorStep ==
  ASSUME IInv, NEW msg \in Errors, SetError(msg)
  PROVE  IInv'
PROOF
  <1>1. N' = N BY DEF SetError, N
  <1>2. msg # "none" BY DEF Errors
  <1>3. TypeOK' BY <1>2 DEF IInv, SetError, TypeOK
  <1>4. Paid' BY <1>1 DEF IInv, SetError, Paid, FitsReserve
  <1>5. QED BY <1>3, <1>4 DEF IInv

LEMMA SequenceStep ==
  ASSUME IInv, NEW n \in 2..4, EscapeSequence(n)
  PROVE  IInv'
PROOF
  <1> DEFINE w == IF ucs(n) >= 65536 THEN 12 ELSE 6
  <1>1. pc = "escape" /\ ~TooFew(n) /\ Put(n, w, Units(ucs(n)))
    BY DEF EscapeSequence, Validating, Escaping
  <1>2. io \in Nat /\ end \in Nat BY Lengths DEF IInv, TypeOK
  <1>3. io + n <= end + 1 BY <1>1, <1>2 DEF TooFew
  <1>4. /\ ucs(n) \in Nat /\ ucs(n) <= 2097151
        /\ n # 4 => ucs(n) < 65536
    BY UcsBound DEF IInv
  <1>5. w \in Nat /\ w <= 6 * (n - 1) BY <1>4
  <1>6. Units(ucs(n)) \in Seq(Items) BY <1>4, UnitsType
  <1>7. n \in 1..4 OBVIOUS
  <1> HIDE DEF w
  <1>8. w <= 6 * (IF io + n > end THEN n - 1 ELSE n) BY <1>2, <1>5
  <1>9. QED BY <1>1, <1>3, <1>5, <1>6, <1>7, <1>8, PutStep

LEMMA NextInvariant == IInv /\ [Next]_vars => IInv'
PROOF
  <1> SUFFICES ASSUME IInv, [Next]_vars PROVE IInv' OBVIOUS
  <1>1. CASE Return
    <2>1. N' = N BY <1>1 DEF Return, N
    <2>2. TypeOK' BY <1>1 DEF IInv, Return, TypeOK
    <2>3. Paid' BY <1>1, <2>1 DEF IInv, Return, Paid, FitsReserve
    <2>4. QED BY <2>2, <2>3 DEF IInv
  <1>2. CASE EscapeUnvalidated BY <1>2, OneStep DEF EscapeUnvalidated
  <1>3. CASE EscapeOne BY <1>3, OneStep DEF EscapeOne, Validating
  <1>4. CASE Unsupported
    <2>1. "length" \in Errors BY DEF Errors
    <2>2. QED BY <1>4, <2>1, ErrorStep DEF Unsupported
  <1>5. ASSUME NEW n \in 2..4, Unterminated(n) \/ Overlong(n) \/ EscapeSequence(n)
        PROVE  IInv'
    <2>1. "unterminated" \in Errors /\ "overlong" \in Errors BY DEF Errors
    <2>2. CASE Unterminated(n) BY <2>1, <2>2, ErrorStep DEF Unterminated
    <2>3. CASE Overlong(n) BY <2>1, <2>3, ErrorStep DEF Overlong
    <2>4. CASE EscapeSequence(n) BY <2>4, SequenceStep
    <2>5. QED BY <1>5, <2>2, <2>3, <2>4
  <1>6. CASE UNCHANGED vars
    <2>1. N' = N /\ end' = end BY <1>6 DEF vars, N, end
    <2>2. TypeOK' BY <1>6 DEF IInv, TypeOK, vars
    <2>3. Paid' BY <1>6, <2>1 DEF IInv, Paid, FitsReserve, vars
    <2>4. QED BY <2>2, <2>3 DEF IInv
  <1>7. QED BY <1>1, <1>2, <1>3, <1>4, <1>5, <1>6 DEF Next, Step, Done

LEMMA Invariance == Spec => []IInv
PROOF
  BY InitInvariant, NextInvariant, PTL DEF Spec

-----------------------------------------------------------------------------
\* The variables of the two loops have their types: in particular all that is
\* written as \uXXXX fits four digits, overlong and too large sequences included.
THEOREM TypeCorrect == Spec => []TypeOK
PROOF
  <1>1. IInv => TypeOK BY DEF IInv
  <1>2. QED BY Invariance, <1>1, PTL

\* RESERVE_STRING is enough for every string, UTF-8 or not, cut off or not.
THEOREM ReserveCorrect == Spec => []FitsReserve
PROOF
  <1>1. IInv => FitsReserve BY DEF IInv, Paid
  <1>2. QED BY Invariance, <1>1, PTL

-----------------------------------------------------------------------------
(* The beginning of a string that is in sequences. *)

LEMMA OctetBits ==
  ASSUME NEW c, IsTrail(c)
  PROVE  c \in Nat /\ 128 <= c /\ c <= 191 /\ Bits(c) = c - 128
PROOF
  <1>1. c \in Nat /\ 128 <= c /\ c <= 191 BY SMT DEF IsTrail
  <1>2. QED BY <1>1, SMT DEF Bits

LEMMA LeadBits ==
  ASSUME NEW b, IsLead(b)
  PROVE  /\ b \in Nat /\ 192 <= b /\ b <= 247
         /\ Utflen(b) = SequenceLength(b) /\ Utflen(b) \in {2, 3, 4}
         /\ Utflen(b) = 2 => b <= 223 /\ Lead(2, b) = b - 192
         /\ Utflen(b) = 3 => 224 <= b /\ b <= 239 /\ Lead(3, b) = b - 224
         /\ Utflen(b) = 4 => 240 <= b /\ Lead(4, b) = b - 240
PROOF
  <1>1. b \in Nat /\ 192 <= b /\ b <= 247 BY SMT DEF IsLead
  <1>2. Utflen(b) = SequenceLength(b) /\ Utflen(b) \in {2, 3, 4}
    BY <1>1, SMT DEF Utflen, SequenceLength
  <1>3. /\ Utflen(b) = 2 => b <= 223
        /\ Utflen(b) = 3 => 224 <= b /\ b <= 239
        /\ Utflen(b) = 4 => 240 <= b
    BY <1>1, SMT DEF Utflen
  <1>4. b <= 223 => Lead(2, b) = b - 192 BY <1>1, SMT DEF Lead
  <1>5. 224 <= b /\ b <= 239 => Lead(3, b) = b - 224 BY <1>1, SMT DEF Lead
  <1>6. 240 <= b => Lead(4, b) = b - 240 BY <1>1, SMT DEF Lead
  <1>7. QED BY <1>1, <1>2, <1>3, <1>4, <1>5, <1>6

\* g_asciiOutputTable has the lengths of UTF-8, and the bounds that the loop
\* compares a code point with are those of the overlong forms.
LEMMA Tables ==
  ASSUME NEW s, NEW m \in Nat, m <= Len(s), Len(s) \in Nat,
         NEW i \in Nat, Whole(s, i, m), NEW n, n = Utflen(s[i])
  PROVE  /\ n \in {2, 3, 4} /\ n = SequenceLength(s[i])
         /\ Combined(s, i, n) \in Nat
         /\ Combined(s, i, n) < Least(n) <=> IsOverlong(s, i)
PROOF
  <1>1. PICK b : b = s[i] OBVIOUS
  <1>2. /\ IsLead(b) /\ n = Utflen(b) /\ n \in {2, 3, 4} /\ n = SequenceLength(b)
        /\ i + n - 1 <= m /\ \A k \in 1..n - 1 : IsTrail(s[i + k])
    BY <1>1, LeadBits DEF Whole
  <1>3. ASSUME NEW k \in 1..n - 1
        PROVE  ByteAt(s, i + k) = s[i + k] /\ IsTrail(s[i + k])
    <2>1. i + k <= Len(s) BY <1>2, SMT
    <2>2. QED BY <1>2, <2>1 DEF ByteAt
  <1>4. ByteAt(s, i) = b
    <2>1. i <= Len(s) BY <1>2, SMT
    <2>2. QED BY <1>1, <2>1 DEF ByteAt
  <1>5. CASE n = 2
    <2>1. 1 \in 1..n - 1 BY <1>5, SMT
    <2>2. PICK x : x = s[i + 1] OBVIOUS
    <2>3. /\ ByteAt(s, i + 1) = x
          /\ x \in Nat /\ 128 <= x /\ x <= 191 /\ Bits(x) = x - 128
      BY <1>3, <2>1, <2>2, OctetBits
    <2>4. /\ b \in Nat /\ 192 <= b /\ b <= 223 /\ Lead(2, b) = b - 192
      <3>1. IsLead(b) /\ Utflen(b) = 2 BY <1>2, <1>5
      <3>2. QED BY <3>1, LeadBits
    <2>5. Combined(s, i, n) = ((b - 192) * 64) + (x - 128)
      BY <1>4, <1>5, <2>3, <2>4 DEF Combined
    <2>6. IsOverlong(s, i) <=> b < 194
      BY <1>1, <2>4, SMT DEF IsOverlong
    <2>7. Least(n) = 128 BY <1>5 DEF Least
    <2>8. PICK u : u = ((b - 192) * 64) + (x - 128) OBVIOUS
    <2>9. u \in Nat /\ (u < 128 <=> b < 194) BY <2>3, <2>4, <2>8, SMT
    <2>10. QED BY <1>1, <1>2, <2>5, <2>6, <2>7, <2>8, <2>9
  <1>6. CASE n = 3
    <2>1. 1 \in 1..n - 1 /\ 2 \in 1..n - 1 BY <1>6, SMT
    <2>2. PICK x, y : x = s[i + 1] /\ y = s[i + 2] OBVIOUS
    <2>3. /\ ByteAt(s, i + 1) = x /\ ByteAt(s, i + 2) = y
          /\ x \in Nat /\ 128 <= x /\ x <= 191 /\ Bits(x) = x - 128
          /\ y \in Nat /\ 128 <= y /\ y <= 191 /\ Bits(y) = y - 128
      BY <1>3, <2>1, <2>2, OctetBits
    <2>4. b \in Nat /\ 224 <= b /\ b <= 239 /\ Lead(3, b) = b - 224
      <3>1. IsLead(b) /\ Utflen(b) = 3 BY <1>2, <1>6
      <3>2. QED BY <3>1, LeadBits
    <2>5. Combined(s, i, n) = ((((b - 224) * 64) + (x - 128)) * 64) + (y - 128)
      BY <1>4, <1>6, <2>3, <2>4 DEF Combined
    <2>6. IsOverlong(s, i) <=> b = 224 /\ x < 160
      BY <1>1, <2>2, <2>4, SMT DEF IsOverlong
    <2>7. Least(n) = 2048 BY <1>6 DEF Least
    <2>8. PICK u : u = ((((b - 224) * 64) + (x - 128)) * 64) + (y - 128) OBVIOUS
    <2>9. u \in Nat /\ (u < 2048 <=> b = 224 /\ x < 160) BY <2>3, <2>4, <2>8, SMT
    <2>10. QED BY <1>1, <1>2, <2>5, <2>6, <2>7, <2>8, <2>9
  <1>7. CASE n = 4
    <2>1. 1 \in 1..n - 1 /\ 2 \in 1..n - 1 /\ 3 \in 1..n - 1 BY <1>7, SMT
    <2>2. PICK x, y, z : x = s[i + 1] /\ y = s[i + 2] /\ z = s[i + 3] OBVIOUS
    <2>3. /\ ByteAt(s, i + 1) = x /\ ByteAt(s, i + 2) = y /\ ByteAt(s, i + 3) = z
          /\ x \in Nat /\ 128 <= x /\ x <= 191 /\ Bits(x) = x - 128
          /\ y \in Nat /\ 128 <= y /\ y <= 191 /\ Bits(y) = y - 128
          /\ z \in Nat /\ 128 <= z /\ z <= 191 /\ Bits(z) = z - 128
      BY <1>3, <2>1, <2>2, OctetBits
    <2>4. b \in Nat /\ 240 <= b /\ Lead(4, b) = b - 240
      <3>1. IsLead(b) /\ Utflen(b) = 4 BY <1>2, <1>7
      <3>2. QED BY <3>1, LeadBits
    <2>5. Combined(s, i, n) =
            ((((((b - 240) * 64) + (x - 128)) * 64) + (y - 128)) * 64) + (z - 128)
      BY <1>4, <1>7, <2>3, <2>4 DEF Combined
    <2>6. IsOverlong(s, i) <=> b = 240 /\ x < 144
      BY <1>1, <2>2, <2>4, SMT DEF IsOverlong
    <2>7. Least(n) = 65536 BY <1>7 DEF Least
    <2>8. PICK u : u = ((((((b - 240) * 64) + (x - 128)) * 64) + (y - 128)) * 64) + (z - 128) OBVIOUS
    <2>9. u \in Nat /\ (u < 65536 <=> b = 240 /\ x < 144) BY <2>3, <2>4, <2>8, SMT
    <2>10. QED BY <1>1, <1>2, <2>5, <2>6, <2>7, <2>8, <2>9
  <1>8. QED BY <1>2, <1>5, <1>6, <1>7

Sequencer(m) == m \in 0..N /\ Sequenced(text.bytes, m)

\* From the start of a sequence the loop gets to that of the next.
LEMMA Advance ==
  ASSUME TypeOK, NEW m, Sequencer(m), io <= m, ~IsTrail(at(io)),
         NEW n, n = Utflen(at(io))
  PROVE  /\ n \in 1..4 /\ io + n <= m + 1
         /\ io + n <= m => ~IsTrail(at(io + n))
         /\ n = 1 => at(io) < 128
         /\ n # 1 => ucs(n) >= Least(n) /\ ~TooFew(n)
PROOF
  <1>1. PICK s : s = text.bytes OBVIOUS
  <1>2. /\ N \in Nat /\ end = N + 1 /\ s \in Seq(Byte) /\ N = Len(s)
        /\ m \in 0..N /\ Sequenced(s, m) /\ io \in 1..m /\ io \in 1..N
    BY <1>1, Lengths, TextsAssumption, SMT DEF TypeOK, Sequencer, N
  <1>3. \A i \in 1..N : at(i) = s[i] BY <1>1, <1>2, SMT DEF at, ByteAt
  <1>4. PICK i \in 1..m : i = io BY <1>2
  <1>5. s[i] = at(io) /\ s[i] \in Nat /\ s[i] <= 255 BY <1>2, <1>3, <1>4, AtType DEF TypeOK
  <1>6. \/ s[i] < 128
        \/ /\ s[i] \in 192..247 /\ i + n - 1 <= m
           /\ \A k \in 1..n - 1 : IsTrail(s[i + k])
           /\ ~(Combined(s, i, n) < Least(n)) /\ Combined(s, i, n) \in Nat
    <2>1. SUFFICES ASSUME ~(s[i] < 128)
                   PROVE  /\ s[i] \in 192..247 /\ i + n - 1 <= m
                          /\ \A k \in 1..n - 1 : IsTrail(s[i + k])
                          /\ ~(Combined(s, i, n) < Least(n)) /\ Combined(s, i, n) \in Nat
      OBVIOUS
    <2>2. Whole(s, i, m) /\ ~IsOverlong(s, i) BY <1>2, <1>4, <1>5, <2>1 DEF Sequenced
    <2>3. /\ n = SequenceLength(s[i]) /\ Combined(s, i, n) \in Nat
          /\ Combined(s, i, n) < Least(n) <=> IsOverlong(s, i)
      BY <1>2, <1>4, <1>5, <2>2, Tables
    <2>4. QED BY <2>2, <2>3 DEF Whole, IsLead
  <1>7. n \in 1..4 /\ (n = 1 => s[i] < 128) /\ (n # 1 => s[i] \in 192..247)
    BY <1>5, <1>6, SMT DEF Utflen
  <1>8. io + n <= m + 1
    <2>1. CASE n = 1 BY <1>2, <2>1, SMT
    <2>2. CASE n # 1
      <3>1. i + n - 1 <= m BY <1>6, <1>7, <2>2, SMT
      <3>2. QED BY <1>2, <1>4, <1>7, <3>1, SMT
    <2>3. QED BY <2>1, <2>2
  <1>9. \A k \in 1..n - 1 : IsTrail(s[i + k]) BY <1>6, <1>7, SMT
  <1>10. ASSUME io + n <= m, IsTrail(at(io + n)) PROVE FALSE
    <2>1. PICK j \in 1..m : j = i + n BY <1>2, <1>4, <1>7, <1>10, SMT
    <2>2. j \in 1..N BY <1>2, <2>1, SMT
    <2>3. IsTrail(s[j]) BY <1>3, <1>4, <1>10, <2>1, <2>2
    <2>4. PICK k \in 1..3 : /\ k < j /\ k < SequenceLength(s[j - k])
                            /\ \A h \in 1..k - 1 : IsTrail(s[j - h])
      <3>1. ~(s[j] < 128) /\ ~IsLead(s[j]) BY <2>3, SMT DEF IsTrail, IsLead
      <3>2. QED BY <1>2, <2>1, <3>1 DEF Sequenced, Whole
    <2>5. CASE k < n
      <3>1. PICK q \in 1..n - 1 : q = n - k /\ j - k = i + q
        BY <1>4, <1>7, <2>1, <2>5, SMT
      <3>2. IsTrail(s[j - k]) BY <1>9, <3>1
      <3>3. SequenceLength(s[j - k]) = 1 BY <3>2, SMT DEF IsTrail, SequenceLength
      <3>4. QED BY <2>4, <3>3, SMT
    <2>6. CASE k = n
      <3>1. j - k = i BY <1>4, <1>7, <2>1, <2>6, SMT
      <3>2. SequenceLength(s[i]) = n BY <1>5, <1>7, SMT DEF Utflen, SequenceLength
      <3>3. QED BY <2>4, <2>6, <3>1, <3>2, <1>7, SMT
    <2>7. CASE k > n
      <3>1. n \in 1..k - 1 /\ j - n = i BY <1>4, <1>7, <2>1, <2>7, SMT
      <3>2. IsTrail(s[i]) BY <2>4, <3>1
      <3>3. QED BY <1>5, <3>2
    <2>8. QED BY <1>7, <2>5, <2>6, <2>7, SMT
  <1>11. ASSUME n # 1 PROVE ucs(n) >= Least(n) /\ ~TooFew(n)
    <2>1. ucs(n) = Combined(s, i, n) BY <1>1, <1>4 DEF ucs
    <2>2. Least(n) \in Nat BY <1>7, <1>11, SMT DEF Least
    <2>3. ucs(n) >= Least(n) BY <1>6, <1>7, <1>11, <2>1, <2>2, SMT
    <2>4. ~TooFew(n) BY <1>2, <1>7, <1>8, SMT DEF TooFew
    <2>5. QED BY <2>3, <2>4
  <1>12. QED BY <1>5, <1>7, <1>8, <1>10, <1>11

\* Up to m the loop of Buffer_EscapeStringValidated is at the starts of
\* sequences only.
Aligned(m) == pc = "escape" /\ io <= m => ~IsTrail(at(io))

LEMMA AlignedStep ==
  ASSUME IInv, options.forceASCII, pc = "escape", NEW m, Sequencer(m), Aligned(m),
         io <= m, Step
  PROVE  /\ pc' = "escape" /\ Aligned(m)' /\ io' <= m + 1
         /\ (EscapeOne /\ at(io) < 128) \/ \E n \in 2..4 : EscapeSequence(n)
PROOF
  <1>1. TypeOK /\ ~IsTrail(at(io)) BY DEF IInv, Aligned
  <1>2. /\ N \in Nat /\ end = N + 1 /\ io \in Nat \ {0} /\ m \in Nat /\ io < end
    BY <1>1, Lengths, SMT DEF Sequencer, TypeOK
  <1>3. PICK n : n = Utflen(at(io)) OBVIOUS
  <1>4. /\ n \in 1..4 /\ io + n <= m + 1
        /\ io + n <= m => ~IsTrail(at(io + n))
        /\ n = 1 => at(io) < 128
        /\ n # 1 => ucs(n) >= Least(n) /\ ~TooFew(n)
    BY <1>1, <1>3, Advance
  <1>5. ~Return BY <1>2, SMT DEF Return
  <1>6. ~EscapeUnvalidated BY DEF EscapeUnvalidated
  <1>7. ~Unsupported BY <1>3, <1>4, SMT DEF Unsupported, Validating
  <1>8. n \in 2..4 => ~Unterminated(n) /\ ~Overlong(n)
    <2>1. CASE n \in 2..4
      <3>1. n # 1 BY <2>1, SMT
      <3>2. ucs(n) \in Nat /\ Least(n) \in Nat BY <1>1, <2>1, UcsBound, SMT DEF Least
      <3>3. ~(ucs(n) < Least(n)) BY <1>4, <3>1, <3>2, SMT
      <3>4. QED BY <1>4, <3>1, <3>3 DEF Unterminated, Overlong
    <2>2. QED BY <2>1
  <1>9. ASSUME NEW k \in 2..4, Unterminated(k) \/ Overlong(k) \/ EscapeSequence(k)
        PROVE  k = n
    BY <1>3, <1>9 DEF Unterminated, Overlong, EscapeSequence, Validating
  <1>10. EscapeOne \/ \E k \in 2..4 : EscapeSequence(k) /\ k = n
    BY <1>5, <1>6, <1>7, <1>8, <1>9 DEF Step
  <1>11. EscapeOne => n = 1 BY <1>3 DEF EscapeOne, Validating
  <1>12. /\ io' = io + n /\ UNCHANGED text
         /\ pc' = IF io + n > end THEN "outside" ELSE "escape"
    <2>1. CASE EscapeOne BY <1>11, <2>1 DEF EscapeOne, PutOne, Put
    <2>2. ASSUME NEW k \in 2..4, EscapeSequence(k), k = n
          PROVE  /\ io' = io + n /\ UNCHANGED text
                 /\ pc' = IF io + n > end THEN "outside" ELSE "escape"
      BY <2>2 DEF EscapeSequence, Put
    <2>3. QED BY <1>10, <2>1, <2>2
  <1>13. ~(io + n > end) BY <1>2, <1>4, SMT DEF Sequencer
  <1>14. PICK j : j = io + n OBVIOUS
  <1>15. Aligned(m)'
    <2>1. at(j)' = at(j) /\ io' = j BY <1>12, <1>14 DEF at
    <2>2. QED BY <1>4, <1>14, <2>1 DEF Aligned
  <1>16. QED BY <1>4, <1>10, <1>11, <1>12, <1>13, <1>15

-----------------------------------------------------------------------------
(* Induction: a set of natural numbers has a least one. *)

LEMMA LeastOf ==
  ASSUME NEW S, S \subseteq Nat, S # {}
  PROVE  \E m \in S : \A k \in S : m <= k
PROOF
  <1> DEFINE R == {p \in Nat \X Nat : p[1] < p[2]}
  <1>1. IsWellFoundedOn(R, Nat) BY NatLessThanWellFounded, Zenon DEF OpToRel
  <1> HIDE DEF R
  <1>2. PICK x \in S : \A y \in S : ~ (<<y, x>> \in R) BY <1>1, WFMin
  <1>3. ASSUME NEW y \in S PROVE x <= y
    <2>1. ~(<<y, x>> \in R) BY <1>2
    <2>2. x \in Nat /\ y \in Nat OBVIOUS
    <2>3. ~(y < x) BY <2>1, <2>2 DEF R
    <2>4. QED BY <2>2, <2>3
  <1>4. QED BY <1>3

\* g has the beginnings of ss put together.
Flattens(g, ss, n) ==
  g = [i \in 1..n |-> IF i = 1 THEN ss[i] ELSE g[i - 1] \o ss[i]]

LEMMA FlattensExists ==
  ASSUME NEW ss, NEW n \in Nat \ {0}
  PROVE  \E g : Flattens(g, ss, n)
PROOF
  <1> DEFINE Bad == {m \in Nat \ {0} : ~ \E g : Flattens(g, ss, m)}
  <1>1. SUFFICES ASSUME Bad # {} PROVE FALSE OBVIOUS
  <1>2. PICK m \in Bad : \A k \in Bad : m <= k BY <1>1, LeastOf
  <1>3. m \in Nat \ {0} /\ ~ \E g : Flattens(g, ss, m) OBVIOUS
  <1>4. CASE m = 1
    <2>1. Flattens([i \in 1..1 |-> ss[i]], ss, 1) BY DEF Flattens
    <2>2. QED BY <1>3, <1>4, <2>1
  <1>5. CASE m # 1
    <2>1. m - 1 \in Nat \ {0} /\ ~(m <= m - 1) BY <1>3, <1>5
    <2>2. m - 1 \notin Bad BY <1>2, <2>1
    <2>3. PICK g : Flattens(g, ss, m - 1) BY <2>1, <2>2
    <2> DEFINE h == [i \in 1..m |-> IF i < m THEN g[i] ELSE g[i - 1] \o ss[i]]
    <2>4. ASSUME NEW i \in 1..m PROVE h[i] = IF i = 1 THEN ss[i] ELSE h[i - 1] \o ss[i]
      <3>1. CASE i < m
        <4>1. i \in 1..m - 1 /\ h[i] = g[i] BY <1>3, <3>1
        <4>2. g[i] = IF i = 1 THEN ss[i] ELSE g[i - 1] \o ss[i] BY <2>3, <4>1 DEF Flattens
        <4>3. i # 1 => i - 1 \in 1..m /\ i - 1 < m BY <3>1, <4>1
        <4>4. i # 1 => h[i - 1] = g[i - 1] BY <4>3
        <4>5. QED BY <4>1, <4>2, <4>4
      <3>2. CASE ~(i < m)
        <4>1. i = m /\ i # 1 /\ i - 1 \in 1..m /\ i - 1 < m BY <1>3, <1>5, <3>2
        <4>2. h[i - 1] = g[i - 1] /\ h[i] = g[i - 1] \o ss[i] BY <3>2, <4>1
        <4>3. QED BY <4>1, <4>2
      <3>3. QED BY <3>1, <3>2
    <2>5. h = [i \in 1..m |-> h[i]] OBVIOUS
    <2> HIDE DEF h
    <2>6. Flattens(h, ss, m) BY <2>4, <2>5 DEF Flattens
    <2>7. QED BY <1>3, <2>6
  <1>6. QED BY <1>4, <1>5

LEMMA FlattensUnique ==
  ASSUME NEW ss, NEW tt, NEW n \in Nat \ {0}, NEW m \in Nat \ {0}, n <= m,
         NEW g, NEW h, Flattens(g, ss, n), Flattens(h, tt, m),
         \A i \in 1..n : ss[i] = tt[i]
  PROVE  g[n] = h[n]
PROOF
  <1> DEFINE Bad == {i \in 1..n : g[i] # h[i]}
  <1>1. SUFFICES ASSUME Bad # {} PROVE FALSE
    <2>1. n \in 1..n OBVIOUS
    <2>2. QED BY <2>1
  <1>2. Bad \subseteq Nat OBVIOUS
  <1>3. PICK i \in Bad : \A k \in Bad : i <= k BY <1>1, <1>2, LeastOf
  <1>4. i \in 1..n /\ g[i] # h[i] OBVIOUS
  <1>5. g[i] = IF i = 1 THEN ss[i] ELSE g[i - 1] \o ss[i] BY <1>4 DEF Flattens
  <1>6. h[i] = IF i = 1 THEN tt[i] ELSE h[i - 1] \o tt[i]
    <2>1. i \in 1..m BY <1>4
    <2>2. QED BY <2>1 DEF Flattens
  <1>7. i # 1 => i - 1 \in 1..n /\ ~(i <= i - 1) BY <1>4
  <1>8. i # 1 => g[i - 1] = h[i - 1] BY <1>3, <1>7
  <1>9. QED BY <1>4, <1>5, <1>6, <1>8

LEMMA Flattened ==
  ASSUME NEW ss, Len(ss) \in Nat \ {0}, NEW g, Flattens(g, ss, Len(ss))
  PROVE  FlattenSeq(ss) = g[Len(ss)]
PROOF
  <1> DEFINE F == CHOOSE f : f = [i \in 1..Len(ss) |-> IF i = 1 THEN ss[i] ELSE f[i - 1] \o ss[i]]
  <1>1. F = [i \in 1..Len(ss) |-> IF i = 1 THEN ss[i] ELSE F[i - 1] \o ss[i]]
    BY DEF Flattens
  <1>2. Flattens(F, ss, Len(ss)) BY <1>1 DEF Flattens
  <1>3. FlattenSeq(ss) = F[Len(ss)] BY DEF FlattenSeq
  <1> HIDE DEF F
  <1>4. QED BY <1>2, <1>3, FlattensUnique

LEMMA FlattenEmpty == FlattenSeq(<<>>) = <<>>
PROOF BY DEF FlattenSeq

LEMMA FlattenType ==
  ASSUME NEW S, NEW ss \in Seq(Seq(S))
  PROVE  FlattenSeq(ss) \in Seq(S)
PROOF
  <1>1. CASE Len(ss) = 0
    <2>1. ss = <<>> BY <1>1
    <2>2. <<>> \in Seq(S) OBVIOUS
    <2>3. QED BY <2>1, <2>2, FlattenEmpty
  <1>2. CASE Len(ss) # 0
    <2>1. PICK n : n = Len(ss) OBVIOUS
    <2>2. n \in Nat \ {0} BY <1>2, <2>1
    <2>3. PICK g : Flattens(g, ss, n) BY <2>2, FlattensExists
    <2> DEFINE Bad == {i \in 1..n : g[i] \notin Seq(S)}
    <2>4. Bad = {}
      <3>1. SUFFICES ASSUME Bad # {} PROVE FALSE OBVIOUS
      <3>2. Bad \subseteq Nat OBVIOUS
      <3>3. PICK i \in Bad : \A k \in Bad : i <= k BY <3>1, <3>2, LeastOf
      <3>4. i \in 1..n /\ g[i] \notin Seq(S) OBVIOUS
      <3>5. g[i] = IF i = 1 THEN ss[i] ELSE g[i - 1] \o ss[i]
        BY <2>2, <2>3, <3>4 DEF Flattens
      <3>6. ss[i] \in Seq(S) BY <2>1, <3>4
      <3>7. i # 1 => i - 1 \in 1..n /\ ~(i <= i - 1) BY <2>2, <3>4
      <3>8. i # 1 => g[i - 1] \in Seq(S) BY <3>3, <3>7
      <3>9. ASSUME NEW a \in Seq(S), NEW b \in Seq(S) PROVE a \o b \in Seq(S) OBVIOUS
      <3>10. QED BY <3>4, <3>5, <3>6, <3>8, <3>9
    <2>5. g[n] \in Seq(S)
      <3>1. n \in 1..n BY <2>2
      <3>2. QED BY <2>4, <3>1
    <2>6. QED BY <2>1, <2>2, <2>3, <2>5, Flattened
  <1>3. QED BY <1>1, <1>2

LEMMA FlattenAppend ==
  ASSUME NEW S, NEW ss \in Seq(Seq(S)), NEW x \in Seq(S)
  PROVE  FlattenSeq(Append(ss, x)) = FlattenSeq(ss) \o x
PROOF
  <1>1. PICK n, tt : n = Len(ss) /\ tt = Append(ss, x) OBVIOUS
  <1>2. /\ n \in Nat /\ Len(tt) = n + 1 /\ tt[n + 1] = x
        /\ \A i \in 1..n : tt[i] = ss[i]
    BY <1>1
  <1>3. n + 1 \in Nat \ {0} BY <1>2
  <1>4. PICK h : Flattens(h, tt, n + 1) BY <1>3, FlattensExists
  <1>5. FlattenSeq(tt) = h[n + 1] BY <1>2, <1>3, <1>4, Flattened
  <1>6. h[n + 1] = IF n + 1 = 1 THEN x ELSE h[n] \o x
    <2>1. PICK k : k = n + 1 OBVIOUS
    <2>2. k \in 1..k /\ k - 1 = n BY <1>2, <2>1
    <2>3. Flattens(h, tt, k) BY <1>4, <2>1
    <2>4. h[k] = IF k = 1 THEN tt[k] ELSE h[k - 1] \o tt[k] BY <2>2, <2>3 DEF Flattens
    <2>5. QED BY <1>2, <2>1, <2>2, <2>4
  <1>7. CASE n = 0
    <2>0. Len(ss) = 0 BY <1>1, <1>7
    <2>1. ss = <<>> BY <2>0
    <2>2. h[n + 1] = x BY <1>6, <1>7
    <2>3. <<>> \o x = x OBVIOUS
    <2>4. QED BY <1>1, <1>5, <2>1, <2>2, <2>3, FlattenEmpty
  <1>8. CASE n # 0
    <2>1. n \in Nat \ {0} /\ n <= n + 1 BY <1>2, <1>8
    <2>2. PICK g : Flattens(g, ss, n) BY <2>1, FlattensExists
    <2>3. FlattenSeq(ss) = g[n] BY <1>1, <2>1, <2>2, Flattened
    <2>4. \A i \in 1..n : ss[i] = tt[i] BY <1>2
    <2>5. g[n] = h[n] BY <1>3, <1>4, <2>1, <2>2, <2>4, FlattensUnique
    <2>6. h[n + 1] = h[n] \o x BY <1>2, <1>6, <1>8
    <2>7. QED BY <1>1, <1>5, <2>3, <2>5, <2>6
  <1>9. QED BY <1>7, <1>8

-----------------------------------------------------------------------------
(* UTF-8 and UTF-16, code point by code point. *)

LEMMA Same ==
  /\ \A u : P!Utf8(u) = Utf8(u)
  /\ P!MaxCodePoint = MaxCodePoint /\ P!CodePoint = CodePoint
PROOF
  <1>1. P!MaxCodePoint = MaxCodePoint BY DEF P!MaxCodePoint, MaxCodePoint
  <1>2. P!CodePoint = CodePoint BY <1>1 DEF P!CodePoint, CodePoint
  <1>3. ASSUME NEW u PROVE P!Utf8(u) = Utf8(u)
    BY DEF P!Utf8, Utf8, P!Octet, Octet
  <1>4. QED BY <1>1, <1>2, <1>3

LEMMA Coded ==
  ASSUME NEW u \in CodePoint
  PROVE  /\ u \in Nat /\ u <= MaxCodePoint
         /\ Utf8(u) \in Seq(Byte) /\ Len(Utf8(u)) \in Nat \ {0}
PROOF
  <1>1. u \in Nat /\ u <= MaxCodePoint BY Same, P!CodePointsAre
  <1>2. Len(Utf8(u)) \in Nat \ {0} BY Same, P!Utf8Length
  <1>3. CASE u < 128
    <2>1. Utf8(u) = <<u>> BY <1>1, <1>3, Same, P!Forms
    <2>2. u \in Byte BY <1>1, <1>3 DEF Byte
    <2>3. QED BY <1>1, <1>2, <2>1, <2>2
  <1>4. CASE 128 <= u /\ u <= 2047
    <2>1. PICK a, b \in Nat : Utf8(u) = <<a, b>> /\ a <= 223 /\ b <= 191
      BY <1>1, <1>4, Same, P!TwoBytes
    <2>2. a \in Byte /\ b \in Byte BY <2>1 DEF Byte
    <2>3. QED BY <1>1, <1>2, <2>1, <2>2
  <1>5. CASE 2048 <= u /\ u <= 65535
    <2>1. PICK a, b, c \in Nat : Utf8(u) = <<a, b, c>> /\ a <= 239 /\ b <= 191 /\ c <= 191
      BY <1>1, <1>5, Same, P!ThreeBytes
    <2>2. a \in Byte /\ b \in Byte /\ c \in Byte BY <2>1 DEF Byte
    <2>3. QED BY <1>1, <1>2, <2>1, <2>2
  <1>6. CASE 65536 <= u
    <2>1. PICK a, b, c, d \in Nat :
            Utf8(u) = <<a, b, c, d>> /\ a <= 244 /\ b <= 191 /\ c <= 191 /\ d <= 191
      BY <1>1, <1>6, Same, P!FourBytes
    <2>2. a \in Byte /\ b \in Byte /\ c \in Byte /\ d \in Byte BY <2>1 DEF Byte
    <2>3. QED BY <1>1, <1>2, <2>1, <2>2
  <1>7. QED BY <1>1, <1>3, <1>4, <1>5, <1>6

LEMMA Utf8Append ==
  ASSUME NEW s \in Seq(CodePoint), NEW c \in CodePoint
  PROVE  /\ InUtf8(s) \in Seq(Byte)
         /\ InUtf8(Append(s, c)) = InUtf8(s) \o Utf8(c)
PROOF
  <1> DEFINE coded(t) == [i \in DOMAIN t |-> Utf8(t[i])]
  <1>1. \A u \in CodePoint : Utf8(u) \in Seq(Byte) BY Coded
  <1>2. coded(s) \in Seq(Seq(Byte))
    <2>1. \A i \in 1..Len(s) : Utf8(s[i]) \in Seq(Byte) BY <1>1
    <2>2. DOMAIN s = 1..Len(s) /\ Len(s) \in Nat OBVIOUS
    <2>3. QED BY <2>1, <2>2
  <1>3. coded(Append(s, c)) = Append(coded(s), Utf8(c))
    <2>1. PICK t : t = Append(s, c) OBVIOUS
    <2>2. /\ t \in Seq(CodePoint) /\ Len(t) = Len(s) + 1 /\ DOMAIN t = 1..Len(s) + 1
          /\ t[Len(s) + 1] = c /\ \A i \in 1..Len(s) : t[i] = s[i]
      BY <2>1
    <2>3. Len(coded(s)) = Len(s) /\ coded(s) \in Seq(Seq(Byte)) BY <1>2
    <2>4. \A i \in 1..Len(s) : coded(s)[i] = Utf8(s[i]) OBVIOUS
    <2>5. coded(t) = [i \in 1..Len(s) + 1 |-> Utf8(t[i])] BY <2>2
    <2>6. PICK f : f = coded(s) OBVIOUS
    <2>7. PICK x : x = Utf8(c) OBVIOUS
    <2>8. Append(f, x) = [i \in 1..Len(s) + 1 |-> IF i = Len(s) + 1 THEN x ELSE f[i]]
      BY <2>3, <2>6
    <2>9. \A i \in 1..Len(s) + 1 : Utf8(t[i]) = IF i = Len(s) + 1 THEN x ELSE f[i]
      BY <2>2, <2>4, <2>6, <2>7
    <2> HIDE DEF coded
    <2>10. coded(t) = Append(f, x) BY <2>5, <2>8, <2>9
    <2>11. QED BY <2>1, <2>6, <2>7, <2>10
  <1>4. Utf8(c) \in Seq(Byte) BY <1>1
  <1>5. InUtf8(s) = FlattenSeq(coded(s)) /\ InUtf8(Append(s, c)) = FlattenSeq(coded(Append(s, c)))
    BY DEF InUtf8
  <1> HIDE DEF coded
  <1>6. FlattenSeq(coded(s)) \in Seq(Byte) BY <1>2, FlattenType
  <1>7. FlattenSeq(Append(coded(s), Utf8(c))) = FlattenSeq(coded(s)) \o Utf8(c)
    BY <1>2, <1>4, FlattenAppend
  <1>8. QED BY <1>3, <1>5, <1>6, <1>7

LEMMA Utf16Append ==
  ASSUME NEW s \in Seq(CodePoint), NEW c \in CodePoint
  PROVE  /\ InUtf16(s) \in Seq(Nat) /\ Utf16(c) \in Seq(Nat)
         /\ InUtf16(Append(s, c)) = InUtf16(s) \o Utf16(c)
PROOF
  <1> DEFINE coded(t) == [i \in DOMAIN t |-> Utf16(t[i])]
  <1>1. ASSUME NEW u \in CodePoint PROVE Utf16(u) \in Seq(Nat)
    <2>1. u \in Nat BY Coded
    <2>2. CASE u < 65536 BY <2>1, <2>2 DEF Utf16
    <2>3. CASE ~(u < 65536)
      <3>1. ((u - 65536) \div 1024) + 55296 \in Nat /\ ((u - 65536) % 1024) + 56320 \in Nat
        BY <2>1, <2>3, SMT
      <3>2. QED BY <2>3, <3>1 DEF Utf16
    <2>4. QED BY <2>2, <2>3
  <1>2. coded(s) \in Seq(Seq(Nat))
    <2>1. \A i \in 1..Len(s) : Utf16(s[i]) \in Seq(Nat) BY <1>1
    <2>2. DOMAIN s = 1..Len(s) /\ Len(s) \in Nat OBVIOUS
    <2>3. QED BY <2>1, <2>2
  <1>3. coded(Append(s, c)) = Append(coded(s), Utf16(c))
    <2>1. PICK t : t = Append(s, c) OBVIOUS
    <2>2. /\ t \in Seq(CodePoint) /\ Len(t) = Len(s) + 1 /\ DOMAIN t = 1..Len(s) + 1
          /\ t[Len(s) + 1] = c /\ \A i \in 1..Len(s) : t[i] = s[i]
      BY <2>1
    <2>3. Len(coded(s)) = Len(s) /\ coded(s) \in Seq(Seq(Nat)) BY <1>2
    <2>4. \A i \in 1..Len(s) : coded(s)[i] = Utf16(s[i]) OBVIOUS
    <2>5. coded(t) = [i \in 1..Len(s) + 1 |-> Utf16(t[i])] BY <2>2
    <2>6. PICK f : f = coded(s) OBVIOUS
    <2>7. PICK x : x = Utf16(c) OBVIOUS
    <2>8. Append(f, x) = [i \in 1..Len(s) + 1 |-> IF i = Len(s) + 1 THEN x ELSE f[i]]
      BY <2>3, <2>6
    <2>9. \A i \in 1..Len(s) + 1 : Utf16(t[i]) = IF i = Len(s) + 1 THEN x ELSE f[i]
      BY <2>2, <2>4, <2>6, <2>7
    <2> HIDE DEF coded
    <2>10. coded(t) = Append(f, x) BY <2>5, <2>8, <2>9
    <2>11. QED BY <2>1, <2>6, <2>7, <2>10
  <1>4. Utf16(c) \in Seq(Nat) BY <1>1
  <1>5. InUtf16(s) = FlattenSeq(coded(s)) /\ InUtf16(Append(s, c)) = FlattenSeq(coded(Append(s, c)))
    BY DEF InUtf16
  <1> HIDE DEF coded
  <1>6. FlattenSeq(coded(s)) \in Seq(Nat) BY <1>2, FlattenType
  <1>7. FlattenSeq(Append(coded(s), Utf16(c))) = FlattenSeq(coded(s)) \o Utf16(c)
    BY <1>2, <1>4, FlattenAppend
  <1>8. QED BY <1>3, <1>4, <1>5, <1>6, <1>7

\* The bytes of what has been written.
Spelled(items) == FlattenSeq([i \in DOMAIN items |-> Bytes(items[i])])

LEMMA BytesType ==
  ASSUME NEW item \in Items
  PROVE  Bytes(item) \in Seq(Byte)
PROOF
  <1>1. PICK u : u = item[2] OBVIOUS
  <1>2. CASE item[1] = "raw" \/ item[1] = "short"
    <2>1. u \in Byte BY <1>1, <1>2 DEF Items
    <2>2. 92 \in Byte /\ Letter(u) \in Byte BY <2>1 DEF Byte, Letter
    <2>3. CASE item[1] = "raw" BY <1>1, <2>1, <2>3 DEF Bytes
    <2>4. CASE item[1] = "short" BY <1>1, <2>2, <2>4 DEF Bytes
    <2>5. QED BY <1>2, <2>3, <2>4
  <1>3. CASE item[1] = "hex"
    <2>1. u \in 0..MaxUnit BY <1>1, <1>3 DEF Items
    <2>2. u \in Nat /\ u < 65536
      <3>1. u \in Nat /\ u <= MaxUnit BY <2>1, UnitsAre
      <3>2. QED BY <3>1 DEF MaxUnit
    <2>3. PICK d1, d2, d3, d4 :
            d1 = u \div 4096 /\ d2 = (u \div 256) % 16 /\ d3 = (u \div 16) % 16 /\ d4 = u % 16
      OBVIOUS
    <2>4. d1 \in Nat /\ d1 < 16 /\ d2 \in Nat /\ d2 < 16 /\ d3 \in Nat /\ d3 < 16
          /\ d4 \in Nat /\ d4 < 16
      BY <2>2, <2>3, SMT
    <2>5. \A d \in Nat : d < 16 => HexDigit(d) \in Byte BY DEF HexDigit, Byte
    <2>6. 92 \in Byte /\ 117 \in Byte BY DEF Byte
    <2>7. Bytes(item) = <<92, 117, HexDigit(d1), HexDigit(d2), HexDigit(d3), HexDigit(d4)>>
      BY <1>1, <1>3, <2>3 DEF Bytes
    <2>8. PICK e1, e2, e3, e4 \in Byte :
            Bytes(item) = <<92, 117, e1, e2, e3, e4>>
      BY <2>4, <2>5, <2>7
    <2>9. <<92, 117, e1, e2, e3, e4>> \in Seq(Byte) BY <2>6
    <2>10. QED BY <2>8, <2>9
  <1>4. QED BY <1>2, <1>3 DEF Items

LEMMA SpelledAppend ==
  ASSUME NEW s \in Seq(Items), NEW c \in Items
  PROVE  /\ Spelled(s) \in Seq(Byte)
         /\ Spelled(Append(s, c)) = Spelled(s) \o Bytes(c)
PROOF
  <1> DEFINE coded(t) == [i \in DOMAIN t |-> Bytes(t[i])]
  <1>1. \A u \in Items : Bytes(u) \in Seq(Byte) BY BytesType
  <1>2. coded(s) \in Seq(Seq(Byte))
    <2>1. \A i \in 1..Len(s) : Bytes(s[i]) \in Seq(Byte) BY <1>1
    <2>2. DOMAIN s = 1..Len(s) /\ Len(s) \in Nat OBVIOUS
    <2>3. QED BY <2>1, <2>2
  <1>3. coded(Append(s, c)) = Append(coded(s), Bytes(c))
    <2>1. PICK t : t = Append(s, c) OBVIOUS
    <2>2. /\ t \in Seq(Items) /\ Len(t) = Len(s) + 1 /\ DOMAIN t = 1..Len(s) + 1
          /\ t[Len(s) + 1] = c /\ \A i \in 1..Len(s) : t[i] = s[i]
      BY <2>1
    <2>3. Len(coded(s)) = Len(s) /\ coded(s) \in Seq(Seq(Byte)) BY <1>2
    <2>4. \A i \in 1..Len(s) : coded(s)[i] = Bytes(s[i]) OBVIOUS
    <2>5. coded(t) = [i \in 1..Len(s) + 1 |-> Bytes(t[i])] BY <2>2
    <2>6. PICK f : f = coded(s) OBVIOUS
    <2>7. PICK x : x = Bytes(c) OBVIOUS
    <2>8. Append(f, x) = [i \in 1..Len(s) + 1 |-> IF i = Len(s) + 1 THEN x ELSE f[i]]
      BY <2>3, <2>6
    <2>9. \A i \in 1..Len(s) + 1 : Bytes(t[i]) = IF i = Len(s) + 1 THEN x ELSE f[i]
      BY <2>2, <2>4, <2>6, <2>7
    <2> HIDE DEF coded
    <2>10. coded(t) = Append(f, x) BY <2>5, <2>8, <2>9
    <2>11. QED BY <2>1, <2>6, <2>7, <2>10
  <1>4. Bytes(c) \in Seq(Byte) BY <1>1
  <1>5. Spelled(s) = FlattenSeq(coded(s)) /\ Spelled(Append(s, c)) = FlattenSeq(coded(Append(s, c)))
    BY DEF Spelled
  <1> HIDE DEF coded
  <1>6. FlattenSeq(coded(s)) \in Seq(Byte) BY <1>2, FlattenType
  <1>7. FlattenSeq(Append(coded(s), Bytes(c))) = FlattenSeq(coded(s)) \o Bytes(c)
    BY <1>2, <1>4, FlattenAppend
  <1>8. QED BY <1>3, <1>5, <1>6, <1>7

LEMMA Nothing == InUtf8(<<>>) = <<>> /\ InUtf16(<<>>) = <<>> /\ Spelled(<<>>) = <<>>
PROOF
  <1>1. ASSUME NEW f, f \in [DOMAIN <<>> -> {}] PROVE f = <<>>
    BY <1>1
  <1>2. /\ [i \in DOMAIN <<>> |-> Utf8(<<>>[i])] = <<>>
        /\ [i \in DOMAIN <<>> |-> Utf16(<<>>[i])] = <<>>
        /\ [i \in DOMAIN <<>> |-> Bytes(<<>>[i])] = <<>>
    OBVIOUS
  <1>3. QED BY <1>2, FlattenEmpty DEF InUtf8, InUtf16, Spelled

\* The bytes of a code point: one below 128, or a lead and its octets, not overlong.
LEMMA Form ==
  ASSUME NEW c \in CodePoint, NEW x \in Seq(Byte), x = Utf8(c)
  PROVE  /\ c < 128 => Len(x) = 1 /\ x[1] = c
         /\ ~(c < 128) =>
            /\ Len(x) \in {2, 3, 4} /\ SequenceLength(x[1]) = Len(x) /\ IsLead(x[1])
            /\ \A k \in 2..Len(x) : IsTrail(x[k])
            /\ ~(x[1] < 194) /\ ~(x[1] = 224 /\ x[2] < 160) /\ ~(x[1] = 240 /\ x[2] < 144)
PROOF
  <1>1. c \in Nat /\ c <= MaxCodePoint BY Coded
  <1>2. CASE c < 128
    <2>1. Utf8(c) = <<c>> BY <1>1, <1>2, Same, P!Forms
    <2>2. QED BY <1>2, <2>1
  <1>3. CASE 128 <= c /\ c <= 2047
    <2>1. PICK a, b \in Nat :
            /\ Utf8(c) = <<a, b>>
            /\ 192 <= a /\ a <= 223 /\ 128 <= b /\ b <= 191
            /\ ((a % 32) * 64) + (b % 64) = c
      BY <1>1, <1>3, Same, P!TwoBytes
    <2>2. Len(x) = 2 /\ x[1] = a /\ x[2] = b BY <2>1
    <2>3. IsLead(a) /\ SequenceLength(a) = 2 /\ IsTrail(b) BY <2>1 DEF IsLead, SequenceLength, IsTrail
    <2>4. ~(a < 194)
      <3>1. PICK r, q : r = b % 64 /\ q = a % 32 OBVIOUS
      <3>2. r \in Nat /\ r <= 63 /\ q \in Nat /\ q <= a - 192 BY <2>1, <3>1, SMT
      <3>3. (q * 64) + r >= 128 BY <1>3, <2>1, <3>1
      <3>4. QED BY <2>1, <3>2, <3>3, SMT
    <2>5. a # 224 /\ a # 240 BY <2>1
    <2>6. \A k \in 2..Len(x) : IsTrail(x[k])
      <3>1. 2..Len(x) = {2} BY <2>2
      <3>2. QED BY <2>2, <2>3, <3>1
    <2>7. QED BY <1>3, <2>1, <2>2, <2>3, <2>4, <2>5, <2>6
  <1>4. CASE 2048 <= c /\ c <= 65535
    <2>1. PICK a, b, d \in Nat :
            /\ Utf8(c) = <<a, b, d>>
            /\ 224 <= a /\ a <= 239 /\ 128 <= b /\ b <= 191 /\ 128 <= d /\ d <= 191
            /\ ((((a % 16) * 64) + (b % 64)) * 64) + (d % 64) = c
      BY <1>1, <1>4, Same, P!ThreeBytes
    <2>2. Len(x) = 3 /\ x[1] = a /\ x[2] = b /\ x[3] = d BY <2>1
    <2>3. IsLead(a) /\ SequenceLength(a) = 3 /\ IsTrail(b) /\ IsTrail(d)
      BY <2>1 DEF IsLead, SequenceLength, IsTrail
    <2>4. ~(a = 224 /\ b < 160)
      <3>1. SUFFICES ASSUME a = 224, b < 160 PROVE FALSE OBVIOUS
      <3>2. PICK r, q : r = b % 64 /\ q = d % 64 OBVIOUS
      <3>3. r \in Nat /\ r <= 31 /\ q \in Nat /\ q <= 63 BY <2>1, <3>1, <3>2, SMT
      <3>4. a % 16 = 0 BY <3>1, SMT
      <3>5. (r * 64) + q = c BY <2>1, <3>2, <3>3, <3>4, SMT
      <3>6. QED BY <1>4, <3>3, <3>5, SMT
    <2>5. a # 240 /\ ~(a < 194) BY <2>1
    <2>6. \A k \in 2..Len(x) : IsTrail(x[k])
      <3>1. 2..Len(x) = {2, 3} BY <2>2
      <3>2. QED BY <2>2, <2>3, <3>1
    <2>7. ~(c < 128) BY <1>1, <1>4
    <2>8. QED BY <2>1, <2>2, <2>3, <2>4, <2>5, <2>6, <2>7
  <1>5. CASE 65536 <= c
    <2>1. PICK a, b, d, e \in Nat :
            /\ Utf8(c) = <<a, b, d, e>>
            /\ 240 <= a /\ a <= 244 /\ 128 <= b /\ b <= 191 /\ 128 <= d /\ d <= 191
            /\ 128 <= e /\ e <= 191
            /\ ((((((a % 8) * 64) + (b % 64)) * 64) + (d % 64)) * 64) + (e % 64) = c
      BY <1>1, <1>5, Same, P!FourBytes
    <2>2. Len(x) = 4 /\ x[1] = a /\ x[2] = b /\ x[3] = d /\ x[4] = e BY <2>1
    <2>3. IsLead(a) /\ SequenceLength(a) = 4 /\ IsTrail(b) /\ IsTrail(d) /\ IsTrail(e)
      BY <2>1 DEF IsLead, SequenceLength, IsTrail
    <2>4. ~(a = 240 /\ b < 144)
      <3>1. SUFFICES ASSUME a = 240, b < 144 PROVE FALSE OBVIOUS
      <3>2. PICK r, q, p : r = b % 64 /\ q = d % 64 /\ p = e % 64 OBVIOUS
      <3>3. r \in Nat /\ r <= 15 /\ q \in Nat /\ q <= 63 /\ p \in Nat /\ p <= 63
        BY <2>1, <3>1, <3>2, SMT
      <3>4. a % 8 = 0 BY <3>1, SMT
      <3>5. (((r * 64) + q) * 64) + p = c BY <2>1, <3>2, <3>3, <3>4, SMT
      <3>6. QED BY <1>5, <3>3, <3>5, SMT
    <2>5. a # 224 /\ ~(a < 194) BY <2>1
    <2>6. \A k \in 2..Len(x) : IsTrail(x[k])
      <3>1. 2..Len(x) = {2, 3, 4} BY <2>2
      <3>2. QED BY <2>2, <2>3, <3>1
    <2>7. ~(c < 128) BY <1>1, <1>5
    <2>8. QED BY <2>1, <2>2, <2>3, <2>4, <2>5, <2>6, <2>7
  <1>6. QED BY <1>1, <1>2, <1>3, <1>4, <1>5

\* Their bits are its bits.
LEMMA FormValue ==
  ASSUME NEW c \in CodePoint, NEW x \in Seq(Byte), x = Utf8(c)
  PROVE  ~(c < 128) =>
            /\ Len(x) = 2 => ((x[1] % 32) * 64) + (x[2] % 64) = c
            /\ Len(x) = 3 => ((((x[1] % 16) * 64) + (x[2] % 64)) * 64) + (x[3] % 64) = c
            /\ Len(x) = 4 =>
                 ((((((x[1] % 8) * 64) + (x[2] % 64)) * 64) + (x[3] % 64)) * 64) + (x[4] % 64) = c
PROOF
  <1>1. c \in Nat /\ c <= MaxCodePoint BY Coded
  <1>2. CASE 128 <= c /\ c <= 2047
    <2>1. PICK a, b \in Nat :
            /\ Utf8(c) = <<a, b>>
            /\ 192 <= a /\ a <= 223 /\ 128 <= b /\ b <= 191
            /\ ((a % 32) * 64) + (b % 64) = c
      BY <1>1, <1>2, Same, P!TwoBytes
    <2>2. Len(x) = 2 /\ x[1] = a /\ x[2] = b BY <2>1
    <2>3. QED BY <2>1, <2>2
  <1>3. CASE 2048 <= c /\ c <= 65535
    <2>1. PICK a, b, d \in Nat :
            /\ Utf8(c) = <<a, b, d>>
            /\ 224 <= a /\ a <= 239 /\ 128 <= b /\ b <= 191 /\ 128 <= d /\ d <= 191
            /\ ((((a % 16) * 64) + (b % 64)) * 64) + (d % 64) = c
      BY <1>1, <1>3, Same, P!ThreeBytes
    <2>2. Len(x) = 3 /\ x[1] = a /\ x[2] = b /\ x[3] = d BY <2>1
    <2>3. QED BY <2>1, <2>2
  <1>4. CASE 65536 <= c
    <2>1. PICK a, b, d, e \in Nat :
            /\ Utf8(c) = <<a, b, d, e>>
            /\ 240 <= a /\ a <= 244 /\ 128 <= b /\ b <= 191 /\ 128 <= d /\ d <= 191
            /\ 128 <= e /\ e <= 191
            /\ ((((((a % 8) * 64) + (b % 64)) * 64) + (d % 64)) * 64) + (e % 64) = c
      BY <1>1, <1>4, Same, P!FourBytes
    <2>2. Len(x) = 4 /\ x[1] = a /\ x[2] = b /\ x[3] = d /\ x[4] = e BY <2>1
    <2>3. QED BY <2>1, <2>2
  <1>5. QED BY <1>1, <1>2, <1>3, <1>4

\* A code point put behind what is in sequences.
LEMMA SequencedAppend ==
  ASSUME NEW b \in Seq(Byte), Sequenced(b, Len(b)), NEW c \in CodePoint
  PROVE  Sequenced(b \o Utf8(c), Len(b \o Utf8(c)))
PROOF
  <1>1. PICK x \in Seq(Byte) : x = Utf8(c) BY Coded
  <1>2. PICK t : t = b \o x OBVIOUS
  <1>3. PICK n, w : n = Len(b) /\ w = Len(x) OBVIOUS
  <1>4. /\ n \in Nat /\ w \in Nat /\ Len(t) = n + w /\ t \in Seq(Byte)
        /\ \A i \in 1..n : t[i] = b[i]
        /\ \A i \in 1..w : t[n + i] = x[i]
    BY <1>2, <1>3
  <1> DEFINE G(i) == \/ t[i] < 128
                     \/ Whole(t, i, n + w) /\ ~IsOverlong(t, i)
                     \/ /\ IsTrail(t[i])
                        /\ \E k \in 1..3 : /\ k < i /\ k < SequenceLength(t[i - k])
                                           /\ \A j \in 1..k - 1 : IsTrail(t[i - j])
  <1>5. ASSUME NEW i \in 1..n
        PROVE  G(i)
    <2>1. t[i] = b[i] BY <1>4
    <2>2. CASE b[i] < 128 BY <2>1, <2>2
    <2>3. CASE Whole(b, i, n) /\ ~IsOverlong(b, i)
      <3>1. PICK l : l = SequenceLength(b[i]) OBVIOUS
      <3>2. l \in {1, 2, 3, 4} /\ IsLead(b[i]) BY <2>3, <3>1 DEF SequenceLength, Whole
      <3>3. PICK v : v = b[i] OBVIOUS
      <3>4. l # 1
        <4>1. v \in Int /\ 192 <= v BY <3>2, <3>3, LeadBits
        <4>2. ~(v < 192) BY <4>1
        <4>3. QED BY <3>1, <3>3, <4>2, SMT DEF SequenceLength
      <3>5. i + l - 1 <= n /\ \A k \in 1..l - 1 : IsTrail(b[i + k]) BY <2>3, <3>1 DEF Whole
      <3>6. ASSUME NEW k \in 1..l - 1 PROVE t[i + k] = b[i + k]
        <4>1. i + k \in 1..n BY <1>4, <3>2, <3>5
        <4>2. QED BY <1>4, <4>1
      <3>7. i + l - 1 <= n + w BY <1>4, <3>2, <3>5
      <3>8. Whole(t, i, n + w) BY <2>1, <3>1, <3>2, <3>5, <3>6, <3>7 DEF Whole
      <3>9. 1 \in 1..l - 1 BY <3>2, <3>4
      <3>10. t[i + 1] = b[i + 1] BY <3>6, <3>9
      <3>11. ~IsOverlong(t, i) BY <2>1, <2>3, <3>10 DEF IsOverlong
      <3>12. QED BY <3>8, <3>11
    <2>4. CASE /\ IsTrail(b[i])
               /\ \E k \in 1..3 : /\ k < i /\ k < SequenceLength(b[i - k])
                                  /\ \A j \in 1..k - 1 : IsTrail(b[i - j])
      <3>1. PICK k \in 1..3 : /\ k < i /\ k < SequenceLength(b[i - k])
                              /\ \A j \in 1..k - 1 : IsTrail(b[i - j])
        BY <2>4
      <3>2. t[i - k] = b[i - k]
        <4>1. i - k \in 1..n BY <1>4, <3>1
        <4>2. QED BY <1>4, <4>1
      <3>3. ASSUME NEW j \in 1..k - 1 PROVE IsTrail(t[i - j])
        <4>1. i - j \in 1..n BY <1>4, <3>1
        <4>2. QED BY <1>4, <3>1, <4>1
      <3>4. QED BY <2>1, <2>4, <3>1, <3>2, <3>3
    <2>5. QED BY <1>3, <2>2, <2>3, <2>4 DEF Sequenced
  <1>6. ASSUME NEW h \in 1..w, NEW i, i = n + h
        PROVE  G(i)
    <2>1. t[i] = x[h] BY <1>4, <1>6
    <2>2. CASE c < 128
      <3>1. w = 1 /\ x[1] = c
        <4>1. x = Utf8(c) BY <1>1
        <4>2. Len(x) = 1 /\ x[1] = c BY <4>1, <2>2, Form
        <4>3. QED BY <1>3, <4>2
      <3>2. h = 1 BY <3>1
      <3>3. QED BY <2>1, <2>2, <3>1, <3>2
    <2>3. CASE ~(c < 128)
      <3>1. /\ w \in {2, 3, 4} /\ SequenceLength(x[1]) = w /\ IsLead(x[1])
            /\ \A k \in 2..w : IsTrail(x[k])
            /\ ~(x[1] < 194) /\ ~(x[1] = 224 /\ x[2] < 160) /\ ~(x[1] = 240 /\ x[2] < 144)
        <4>1. x = Utf8(c) BY <1>1
        <4>2. /\ Len(x) \in {2, 3, 4} /\ SequenceLength(x[1]) = Len(x) /\ IsLead(x[1])
              /\ \A k \in 2..Len(x) : IsTrail(x[k])
              /\ ~(x[1] < 194) /\ ~(x[1] = 224 /\ x[2] < 160) /\ ~(x[1] = 240 /\ x[2] < 144)
          BY <4>1, <2>3, Form
        <4>3. QED BY <1>3, <4>2
      <3>2. CASE h = 1
        <4>1. \A k \in 1..w - 1 : IsTrail(t[i + k])
          <5>1. ASSUME NEW k \in 1..w - 1 PROVE IsTrail(t[i + k])
            <6>1. PICK j : j = k + 1 OBVIOUS
            <6>2. j \in 1..w /\ j \in 2..w /\ i + k = n + j BY <1>4, <1>6, <3>2, <6>1
            <6>3. QED BY <1>4, <1>6, <3>1, <6>2
          <5>2. QED BY <5>1
        <4>2. i + w - 1 <= n + w BY <1>4, <1>6, <3>2
        <4>3. Whole(t, i, n + w) BY <2>1, <3>1, <3>2, <4>1, <4>2 DEF Whole
        <4>4. t[i + 1] = x[2]
          <5>1. 2 \in 1..w /\ i + 1 = n + 2 BY <1>4, <1>6, <3>1, <3>2
          <5>2. QED BY <1>4, <5>1
        <4>5. ~IsOverlong(t, i) BY <2>1, <3>1, <3>2, <4>4 DEF IsOverlong
        <4>6. QED BY <4>3, <4>5
      <3>3. CASE h # 1
        <4>1. h \in 2..w BY <3>3
        <4>2. IsTrail(t[i]) BY <2>1, <3>1, <4>1
        <4>3. PICK k : k = h - 1 OBVIOUS
        <4>4. k \in 1..3 /\ k < i /\ i - k = n + 1 /\ 1 \in 1..w
          BY <1>4, <1>6, <3>1, <4>1, <4>3
        <4>5. k < SequenceLength(t[i - k])
          <5>1. t[i - k] = x[1] BY <1>4, <1>6, <4>4
          <5>2. QED BY <1>4, <1>6, <3>1, <4>1, <4>3, <5>1
        <4>6. ASSUME NEW j \in 1..k - 1 PROVE IsTrail(t[i - j])
          <5>1. PICK g : g = h - j OBVIOUS
          <5>2. g \in 2..w /\ g \in 1..w /\ i - j = n + g BY <1>4, <1>6, <4>1, <4>3, <4>4, <5>1
          <5>3. QED BY <1>4, <1>6, <3>1, <5>2
        <4>7. QED BY <4>2, <4>4, <4>5, <4>6
      <3>4. QED BY <3>2, <3>3
    <2>4. QED BY <2>2, <2>3
  <1> HIDE DEF G
  <1>7. ASSUME NEW i \in 1..n + w
        PROVE  G(i)
    <2>1. CASE i <= n
      <3>1. i \in 1..n BY <1>4, <2>1
      <3>2. QED BY <1>5, <3>1
    <2>2. CASE ~(i <= n)
      <3>1. PICK h : h = i - n OBVIOUS
      <3>2. h \in 1..w /\ i = n + h BY <1>4, <2>2, <3>1
      <3>3. QED BY <1>6, <3>2
    <2>3. QED BY <2>1, <2>2
  <1>8. Sequenced(t, n + w) BY <1>7 DEF Sequenced, G
  <1>9. QED BY <1>1, <1>2, <1>4, <1>8

-----------------------------------------------------------------------------
(* The beginnings of a string. *)

Take(s, m) == SubSeq(s, 1, m)

LEMMA Taken ==
  ASSUME NEW S, NEW s \in Seq(S)
  PROVE  /\ Take(s, 0) = <<>> /\ Take(s, Len(s)) = s
         /\ \A m \in 0..Len(s) : Take(s, m) \in Seq(S) /\ Len(Take(s, m)) = m
         /\ \A m \in 0..Len(s) - 1 : m + 1 \in 1..Len(s) /\ Take(s, m + 1) = Append(Take(s, m), s[m + 1])
PROOF
  <1>1. Take(s, 0) = <<>> BY DEF Take
  <1>2. Take(s, Len(s)) = s BY DEF Take
  <1>3. ASSUME NEW m \in 0..Len(s) PROVE Take(s, m) \in Seq(S) /\ Len(Take(s, m)) = m
    BY DEF Take
  <1>4. ASSUME NEW m \in 0..Len(s) - 1
        PROVE  m + 1 \in 1..Len(s) /\ Take(s, m + 1) = Append(Take(s, m), s[m + 1])
    BY DEF Take
  <1>5. QED BY <1>1, <1>2, <1>3, <1>4

\* They are in sequences, ...
LEMMA TakenSequenced ==
  ASSUME NEW s \in Seq(CodePoint), NEW m \in 0..Len(s)
  PROVE  /\ InUtf8(Take(s, m)) \in Seq(Byte)
         /\ Sequenced(InUtf8(Take(s, m)), Len(InUtf8(Take(s, m))))
PROOF
  <1> DEFINE Good(k) == /\ InUtf8(Take(s, k)) \in Seq(Byte)
                        /\ Sequenced(InUtf8(Take(s, k)), Len(InUtf8(Take(s, k))))
             Bad == {k \in 0..Len(s) : ~Good(k)}
  <1>1. SUFFICES ASSUME Bad # {} PROVE FALSE OBVIOUS
  <1>2. Bad \subseteq Nat OBVIOUS
  <1>3. PICK k \in Bad : \A i \in Bad : k <= i BY <1>1, <1>2, LeastOf
  <1>4. k \in 0..Len(s) /\ ~Good(k) BY <1>3
  <1>5. k # 0
    <2>1. InUtf8(Take(s, 0)) = <<>> BY Taken, Nothing
    <2>2. <<>> \in Seq(Byte) /\ Len(<<>>) = 0 OBVIOUS
    <2>3. Sequenced(<<>>, 0) BY DEF Sequenced
    <2>4. QED BY <1>4, <2>1, <2>2, <2>3
  <1>6. PICK i : i = k - 1 OBVIOUS
  <1>7. i \in 0..Len(s) - 1 /\ i \in 0..Len(s) /\ k = i + 1 /\ ~(k <= i) BY <1>4, <1>5, <1>6
  <1>8. Good(i) BY <1>3, <1>7
  <1>9. Take(s, k) = Append(Take(s, i), s[k]) /\ s[k] \in CodePoint /\ Take(s, i) \in Seq(CodePoint)
    BY <1>7, Taken
  <1> HIDE DEF Bad
  <1>10. /\ InUtf8(Take(s, k)) = InUtf8(Take(s, i)) \o Utf8(s[k])
    BY <1>9, Utf8Append
  <1>11. InUtf8(Take(s, k)) \in Seq(Byte)
    <2>1. Take(s, k) \in Seq(CodePoint) BY <1>9
    <2>2. QED BY <1>9, <2>1, Utf8Append
  <1>12. QED BY <1>4, <1>8, <1>9, <1>10, <1>11, SequencedAppend

\* ... and their bytes are the beginnings of those of the string.
LEMMA TakenBegins ==
  ASSUME NEW s \in Seq(CodePoint), NEW m \in 0..Len(s)
  PROVE  /\ InUtf8(Take(s, m)) \in Seq(Byte) /\ InUtf8(s) \in Seq(Byte)
         /\ Len(InUtf8(Take(s, m))) <= Len(InUtf8(s))
         /\ \A i \in 1..Len(InUtf8(Take(s, m))) : InUtf8(s)[i] = InUtf8(Take(s, m))[i]
PROOF
  <1> DEFINE B(k) == InUtf8(Take(s, k))
             Good(k) == /\ Len(B(k)) <= Len(B(Len(s)))
                        /\ \A i \in 1..Len(B(k)) : B(Len(s))[i] = B(k)[i]
             Bad == {k \in 0..Len(s) : ~Good(Len(s) - k)}
  <1>1. \A k \in 0..Len(s) : B(k) \in Seq(Byte) BY TakenSequenced
  <1>2. \A k \in 0..Len(s) - 1 : B(k + 1) = B(k) \o Utf8(s[k + 1])
    <2>1. ASSUME NEW k \in 0..Len(s) - 1 PROVE B(k + 1) = B(k) \o Utf8(s[k + 1])
      <3>1. Take(s, k + 1) = Append(Take(s, k), s[k + 1]) /\ s[k + 1] \in CodePoint
            /\ Take(s, k) \in Seq(CodePoint)
        BY Taken
      <3>2. QED BY <3>1, Utf8Append
    <2>2. QED BY <2>1
  <1>3. B(Len(s)) = InUtf8(s) BY Taken
  <1> HIDE DEF B
  <1>4. Bad = {}
    <2>1. SUFFICES ASSUME Bad # {} PROVE FALSE OBVIOUS
    <2>2. Bad \subseteq Nat OBVIOUS
    <2>3. PICK k \in Bad : \A i \in Bad : k <= i BY <2>1, <2>2, LeastOf
    <2>4. k \in 0..Len(s) /\ ~Good(Len(s) - k) BY <2>3
    <2>5. k # 0 BY <2>4
    <2>6. PICK i, n : i = k - 1 /\ n = Len(s) - k OBVIOUS
    <2>7. i \in 0..Len(s) /\ ~(k <= i) /\ n \in 0..Len(s) - 1 /\ Len(s) - i = n + 1
          /\ n \in 0..Len(s) /\ n + 1 \in 0..Len(s) /\ n + 1 \in 1..Len(s)
      BY <2>4, <2>5, <2>6
    <2>8. Good(n + 1) BY <2>3, <2>7
    <2>9. PICK x \in Seq(Byte) : x = Utf8(s[n + 1]) BY <2>7, Coded
    <2>10. PICK a, b, e : a = B(n) /\ b = B(n + 1) /\ e = B(Len(s)) OBVIOUS
    <2>11. a \in Seq(Byte) /\ b = a \o x /\ e \in Seq(Byte)
      <3>1. b = a \o x BY <1>2, <2>7, <2>9, <2>10
      <3>2. Len(s) \in 0..Len(s) OBVIOUS
      <3>3. QED BY <1>1, <2>7, <2>10, <3>1, <3>2
    <2>12. Len(b) <= Len(e) /\ \A j \in 1..Len(b) : e[j] = b[j] BY <2>8, <2>10
    <2>13. Len(a) <= Len(b) /\ \A j \in 1..Len(a) : j \in 1..Len(b) /\ b[j] = a[j] BY <2>11
    <2>14. Len(a) <= Len(e) /\ \A j \in 1..Len(a) : e[j] = a[j] BY <2>11, <2>12, <2>13
    <2>15. QED BY <2>4, <2>6, <2>10, <2>14
  <1>5. PICK k : k = Len(s) - m OBVIOUS
  <1>6. k \in 0..Len(s) /\ Len(s) - k = m BY <1>5
  <1>7. Good(m) BY <1>4, <1>6
  <1>8. QED BY <1>1, <1>3, <1>7 DEF B

-----------------------------------------------------------------------------
(* What is written. *)

\* What an item that is written raw must not be.
Proper(item) ==
  LET b == item[2] IN
    item[1] = "raw" =>
      /\ b >= 32 /\ b \notin {34, 92}
      /\ options.encodeHTMLChars => b \notin Html
      /\ options.escapeForwardSlashes => b # 47
      /\ options.forceASCII /\ text.wellFormed => b < 128

\* A string that is UTF-8 is taken sequence by sequence.
Valid ==
  text.wellFormed =>
    /\ pc \in {"escape", "done"}
    /\ options.forceASCII => Aligned(N)

Clean == Valid /\ \A i \in 1..Len(out) : Proper(out[i])

LEMMA WellFormed == ASSUME TypeOK, text.wellFormed PROVE Sequencer(N)
PROOF
  <1> DEFINE s == text.says
  <1>0. s \in Seq(CodePoint) /\ text.bytes = InUtf8(s) BY TextsAssumption DEF TypeOK, Meaning
  <1>1. Sequenced(text.bytes, N)
    <2>1. PICK t \in Seq(CodePoint) : t = s BY <1>0
    <2>2. Len(t) \in 0..Len(t) /\ Take(t, Len(t)) = t BY Taken
    <2>3. Sequenced(InUtf8(t), Len(InUtf8(t))) BY <2>2, TakenSequenced
    <2>4. QED BY <1>0, <2>1, <2>3 DEF N
  <1>2. N \in 0..N BY Lengths, SMT
  <1>3. QED BY <1>1, <1>2 DEF Sequencer

LEMMA ItemProper ==
  ASSUME NEW b \in Nat, options.forceASCII /\ text.wellFormed => b < 128
  PROVE  Proper(Item(b))
PROOF
  <1>1. CASE Item(b) = Raw(b)
    <2>1. /\ b \notin Letters /\ ~(b = 47 /\ options.escapeForwardSlashes)
          /\ ~(b < 32) /\ ~(b \in Html /\ options.encodeHTMLChars)
      <3>1. Raw(b) # Short(b) /\ Raw(b) # Hex(b) BY DEF Raw, Short, Hex
      <3>2. QED BY <1>1, <3>1 DEF Item
    <2>2. b >= 32 /\ b \notin {34, 92} BY <2>1, SMT DEF Letters
    <2>3. Item(b)[2] = b BY <1>1 DEF Raw
    <2>4. QED BY <2>1, <2>2, <2>3 DEF Proper
  <1>2. CASE Item(b) # Raw(b)
    <2>1. Item(b)[1] # "raw" BY <1>2 DEF Item, Short, Hex
    <2>2. QED BY <2>1 DEF Proper
  <1>3. QED BY <1>1, <1>2

LEMMA UnitsProper == ASSUME NEW u \in Nat PROVE \A i \in 1..Len(Units(u)) : Proper(Units(u)[i])
PROOF
  <1>1. \A i \in 1..Len(Units(u)) : Units(u)[i][1] = "hex" BY SMT DEF Units, Pair, Hex
  <1>2. QED BY <1>1 DEF Proper

LEMMA PutClean ==
  ASSUME TypeOK, \A i \in 1..Len(out) : Proper(out[i]),
         NEW items \in Seq(Items), \A i \in 1..Len(items) : Proper(items[i]),
         out' = out \o items, UNCHANGED <<text, options>>
  PROVE  (\A i \in 1..Len(out) : Proper(out[i]))'
PROOF
  <1>1. PICK s \in Seq(Items) : s = out BY DEF TypeOK
  <1>2. PICK t : t = s \o items OBVIOUS
  <1>3. \A i \in 1..Len(t) : Proper(t[i])
    <2>1. Len(t) = Len(s) + Len(items) BY <1>2, ConcatProperties
    <2>2. \A i \in 1..Len(t) : t[i] = IF i <= Len(s) THEN s[i] ELSE items[i - Len(s)]
      BY <1>2, <2>1, ConcatProperties
    <2>3. ASSUME NEW i \in 1..Len(t) PROVE Proper(t[i])
      <3>1. i \in 1..Len(s) \/ i - Len(s) \in 1..Len(items) BY <2>1, SMT
      <3>2. CASE i \in 1..Len(s) BY <1>1, <2>2, <3>2, SMT
      <3>3. CASE i \notin 1..Len(s)
        <4>1. ~(i <= Len(s)) /\ i - Len(s) \in 1..Len(items) BY <2>1, <3>3, SMT
        <4>2. QED BY <2>2, <4>1
      <3>4. QED BY <3>2, <3>3
    <2>4. QED BY <2>3
  <1>4. \A x : Proper(x)' <=> Proper(x) BY DEF Proper
  <1>5. t = out' BY <1>1, <1>2
  <1>6. QED BY <1>3, <1>4, <1>5

LEMMA InitClean == Init => Clean
PROOF
  <1> SUFFICES ASSUME Init PROVE Clean OBVIOUS
  <1>1. pc = "escape" /\ io = 1 /\ out = <<>> BY DEF Init, Start
  <1>2. TypeOK BY InitInvariant DEF IInv
  <1>3. \A i \in 1..Len(out) : Proper(out[i]) BY <1>1, SMT
  <1>4. ASSUME text.wellFormed, 1 <= N PROVE ~IsTrail(at(1))
    <2>1. Sequencer(N) /\ N \in Nat BY <1>2, <1>4, WellFormed, Lengths
    <2>2. 1 \in 1..N BY <1>4, <2>1, SMT
    <2>3. at(1) = text.bytes[1] BY <1>4 DEF at, ByteAt, N
    <2>4. ~(\E k \in 1..3 : k < 1) BY SMT
    <2>5. at(1) < 128 \/ at(1) \in 192..247 BY <2>1, <2>2, <2>3, <2>4 DEF Sequencer, Sequenced, Whole, IsLead
    <2>6. QED BY <1>2, <2>5, AtType, SMT DEF IsTrail
  <1>5. Valid BY <1>1, <1>4 DEF Valid, Aligned
  <1>6. QED BY <1>3, <1>5 DEF Clean

LEMMA StepClean == IInv /\ Clean /\ [Next]_vars => Clean'
PROOF
  <1> SUFFICES ASSUME IInv, Clean, [Next]_vars PROVE Clean' OBVIOUS
  <1>1. TypeOK /\ N \in Nat /\ end = N + 1 BY Lengths DEF IInv
  <1>2. UNCHANGED <<text, options>> /\ UNCHANGED N
    <2>1. UNCHANGED <<text, options>>
      BY DEF Next, Step, Done, vars, Return, EscapeUnvalidated, EscapeOne, Unsupported,
         Unterminated, Overlong, EscapeSequence, PutOne, Put, SetError
    <2>2. QED BY <2>1 DEF N
  <1>3. \A x : Proper(x)' <=> Proper(x) BY <1>2 DEF Proper
  <1>4. ASSUME UNCHANGED out PROVE (\A i \in 1..Len(out) : Proper(out[i]))'
    BY <1>3, <1>4 DEF Clean
  <1>5. CASE UNCHANGED vars
    <2>1. Valid' BY <1>2, <1>5 DEF Clean, Valid, Aligned, vars, at
    <2>2. QED BY <1>4, <1>5, <2>1 DEF Clean, vars
  <1>6. CASE Return
    <2>1. pc' = "done" /\ UNCHANGED out BY <1>6 DEF Return
    <2>2. Valid' BY <1>2, <2>1 DEF Clean, Valid, Aligned
    <2>3. QED BY <1>4, <2>1, <2>2 DEF Clean
  <1>7. CASE EscapeUnvalidated
    <2>1. /\ ~options.forceASCII /\ pc = "escape" /\ io < end
          /\ PutOne(Item(at(io)))
      BY <1>7 DEF EscapeUnvalidated, Escaping
    <2>2. io \in Nat \ {0} /\ ~(io + 1 > end) BY <1>1, <2>1, SMT DEF TypeOK
    <2>3. /\ pc' = "escape" /\ out' = out \o <<Item(at(io))>>
      BY <2>1, <2>2 DEF PutOne, Put
    <2>4. Valid' BY <1>2, <2>1, <2>3 DEF Valid
    <2>5. at(io) \in Nat /\ at(io) <= 255 BY <1>1, <2>2, AtType
    <2>6. Proper(Item(at(io))) /\ Item(at(io)) \in Items
      BY <2>1, <2>5, ItemProper, ItemType
    <2>7. PICK w : w = <<Item(at(io))>> OBVIOUS
    <2>8. w \in Seq(Items) /\ \A i \in 1..Len(w) : Proper(w[i]) BY <2>6, <2>7, SMT
    <2>9. QED BY <1>1, <1>2, <2>3, <2>4, <2>7, <2>8, PutClean DEF Clean
  <1>8. ASSUME Step, ~Return, ~EscapeUnvalidated PROVE Valid'
    <2>1. SUFFICES ASSUME text.wellFormed PROVE Valid' BY <1>2 DEF Valid
    <2>2. options.forceASCII /\ pc = "escape" /\ io < end
      BY <1>8 DEF Step, EscapeOne, Unsupported, Unterminated, Overlong, EscapeSequence,
         Validating, Escaping
    <2>3. Sequencer(N) /\ Aligned(N) BY <1>1, <2>1, <2>2, WellFormed DEF Clean, Valid
    <2>4. io <= N BY <1>1, <2>2, SMT DEF TypeOK
    <2>5. PICK m : m = N OBVIOUS
    <2>6. pc' = "escape" /\ Aligned(m)' BY <1>8, <2>2, <2>3, <2>4, <2>5, AlignedStep
    <2>7. Aligned(N)' BY <1>2, <2>5, <2>6 DEF Aligned
    <2>8. QED BY <2>6, <2>7 DEF Valid
  <1>9. CASE EscapeOne
    <2>1. /\ options.forceASCII /\ pc = "escape" /\ io < end /\ Utflen(at(io)) = 1
          /\ out' = out \o <<Item(at(io))>> /\ ~Return
      BY <1>9 DEF EscapeOne, Validating, Escaping, PutOne, Put, Return
    <2>2. at(io) \in Nat /\ at(io) <= 255 BY <1>1, AtType DEF TypeOK
    <2>3. text.wellFormed => at(io) < 128
      <3>1. SUFFICES ASSUME text.wellFormed PROVE at(io) < 128 OBVIOUS
      <3>2. Sequencer(N) /\ Aligned(N) BY <1>1, <2>1, <3>1, WellFormed DEF Clean, Valid
      <3>3. io <= N BY <1>1, <2>1, SMT DEF TypeOK
      <3>4. QED BY <1>1, <2>1, <3>2, <3>3, Advance DEF Aligned
    <2>4. Proper(Item(at(io))) /\ Item(at(io)) \in Items
      BY <2>2, <2>3, ItemProper, ItemType
    <2>5. PICK w : w = <<Item(at(io))>> OBVIOUS
    <2>6. w \in Seq(Items) /\ \A i \in 1..Len(w) : Proper(w[i]) BY <2>4, <2>5, SMT
    <2>7. Valid' BY <1>8, <1>9, <2>1 DEF Step, EscapeUnvalidated
    <2>8. QED BY <1>1, <1>2, <2>1, <2>5, <2>6, <2>7, PutClean DEF Clean
  <1>10. ASSUME NEW n \in 2..4, EscapeSequence(n) PROVE Clean'
    <2>1. /\ out' = out \o Units(ucs(n)) /\ ~Return /\ ~EscapeUnvalidated
      BY <1>10 DEF EscapeSequence, Put, Validating, EscapeUnvalidated, Escaping, Return
    <2>2. ucs(n) \in Nat /\ ucs(n) <= 2097151 BY <1>1, UcsBound
    <2>3. PICK w : w = Units(ucs(n)) OBVIOUS
    <2>4. w \in Seq(Items) /\ \A i \in 1..Len(w) : Proper(w[i])
      BY <2>2, <2>3, UnitsType, UnitsProper
    <2>5. Valid' BY <1>8, <1>10, <2>1 DEF Step
    <2>6. QED BY <1>1, <1>2, <2>1, <2>3, <2>4, <2>5, PutClean DEF Clean
  <1>11. CASE Unsupported \/ \E n \in 2..4 : Unterminated(n) \/ Overlong(n)
    <2>1. UNCHANGED out /\ ~Return /\ ~EscapeUnvalidated
      BY <1>11 DEF Unsupported, Unterminated, Overlong, SetError, Validating,
         EscapeUnvalidated, Escaping, Return
    <2>2. Valid' BY <1>8, <1>11, <2>1 DEF Step
    <2>3. QED BY <1>4, <2>1, <2>2 DEF Clean
  <1>12. QED BY <1>5, <1>6, <1>7, <1>9, <1>10, <1>11 DEF Next, Step, Done

-----------------------------------------------------------------------------
(* Overlong sequences. *)

\* The loop does not get past the first overlong sequence.
Stopped ==
  options.forceASCII =>
    \A i \in 1..N :
      OverlongAt(text.bytes, i) =>
        pc # "done" /\ (pc = "escape" => io <= i) /\ Aligned(i - 1)

LEMMA StoppedStep == IInv /\ Stopped /\ [Next]_vars => Stopped'
PROOF
  <1> SUFFICES ASSUME IInv, Stopped, [Next]_vars PROVE Stopped' OBVIOUS
  <1>1. TypeOK /\ N \in Nat /\ end = N + 1 /\ text.bytes \in Seq(Byte) /\ Len(text.bytes) = N
    BY Lengths, TextsAssumption DEF IInv, TypeOK, N
  <1>2. UNCHANGED <<text, options>> /\ UNCHANGED N
    <2>1. UNCHANGED <<text, options>>
      BY DEF Next, Step, Done, vars, Return, EscapeUnvalidated, EscapeOne, Unsupported,
         Unterminated, Overlong, EscapeSequence, PutOne, Put, SetError
    <2>2. QED BY <2>1 DEF N
  <1>3. SUFFICES ASSUME NEW i \in 1..N, OverlongAt(text.bytes, i), options.forceASCII,
                        pc # "done", pc = "escape" => io <= i, Aligned(i - 1)
                 PROVE  pc' # "done" /\ (pc' = "escape" => io' <= i) /\ Aligned(i - 1)'
    BY <1>2 DEF Stopped
  <1>4. PICK m : m = i - 1 OBVIOUS
  <1>5. m \in 0..N /\ io \in Nat \ {0} BY <1>1, <1>4, SMT DEF TypeOK
  <1>6. CASE UNCHANGED vars BY <1>3, <1>6 DEF vars, Aligned, at
  <1>7. CASE Step /\ pc # "escape"
    BY <1>7 DEF Step, Return, EscapeUnvalidated, EscapeOne, Unsupported, Unterminated, Overlong,
       EscapeSequence, Validating, Escaping
  <1>8. CASE Step /\ pc = "escape" /\ io <= m
    <2>1. Sequencer(m) BY <1>3, <1>4, <1>5 DEF Sequencer, OverlongAt
    <2>2. pc' = "escape" /\ Aligned(m)' /\ io' <= m + 1
      BY <1>3, <1>4, <1>8, <2>1, AlignedStep
    <2>3. Aligned(i - 1)' BY <1>4, <2>2 DEF Aligned
    <2>4. m + 1 = i BY <1>4, SMT
    <2>5. QED BY <2>2, <2>3, <2>4
  <1>9. CASE Step /\ pc = "escape" /\ ~(io <= m)
    <2>1. io = i BY <1>3, <1>4, <1>5, <1>9, SMT
    <2>2. at(i) = text.bytes[i] BY <1>1, <1>3, SMT DEF at, ByteAt
    <2>3. PICK n : n = Utflen(at(i)) OBVIOUS
    <2>4. /\ at(i) \in 192..247 /\ i + n - 1 <= N /\ Combined(text.bytes, i, n) < Least(n)
      <3>1. PICK s \in Seq(Byte) : s = text.bytes BY <1>1
      <3>2. Len(s) = N /\ Len(s) \in 0..Len(s) /\ i \in 1..Len(s) BY <1>1, <3>1, SMT
      <3>3. Whole(s, i, Len(s)) /\ IsOverlong(s, i) BY <1>3, <3>1 DEF OverlongAt
      <3>4. /\ n = SequenceLength(s[i])
            /\ Combined(s, i, n) < Least(n) <=> IsOverlong(s, i)
        BY <2>2, <2>3, <3>1, <3>2, <3>3, Tables
      <3>5. QED BY <2>2, <3>1, <3>2, <3>3, <3>4 DEF Whole, IsLead
    <2>5. n \in 2..4 BY <2>3, <2>4, SMT DEF Utflen
    <2>6. ucs(n) = Combined(text.bytes, i, n) BY <2>1 DEF ucs
    <2>7. io # end BY <1>1, <2>1, SMT
    <2>8. ~EscapeOne /\ ~Unsupported BY <2>1, <2>3, <2>5 DEF EscapeOne, Unsupported, Validating
    <2>9. ASSUME NEW k \in 2..4, EscapeSequence(k) PROVE FALSE
      <3>1. k = n /\ ucs(n) >= Least(n) BY <2>1, <2>3, <2>9 DEF EscapeSequence, Validating
      <3>2. ucs(n) \in Nat /\ Least(n) \in Nat BY <1>1, <2>5, UcsBound, SMT DEF Least
      <3>3. QED BY <2>4, <2>6, <3>1, <3>2, SMT
    <2>10. \E msg \in Errors : SetError(msg)
      BY <1>3, <1>9, <2>7, <2>8, <2>9 DEF Step, Return, EscapeUnvalidated, Unterminated,
         Overlong, Errors
    <2>11. pc' = "failed" BY <2>10 DEF SetError
    <2>12. QED BY <2>11 DEF Aligned
  <1>10. QED BY <1>6, <1>7, <1>8, <1>9 DEF Next, Done

LEMMA InitStopped == Init => Stopped
PROOF
  <1> SUFFICES ASSUME Init, NEW i \in 1..N, OverlongAt(text.bytes, i)
               PROVE  pc # "done" /\ (pc = "escape" => io <= i) /\ Aligned(i - 1)
    BY DEF Stopped
  <1>1. pc = "escape" /\ io = 1 BY DEF Init, Start
  <1>2. TypeOK /\ N \in Nat BY InitInvariant, Lengths DEF IInv
  <1>3. ASSUME 1 <= i - 1 PROVE ~IsTrail(at(1))
    <2>1. PICK m : m = i - 1 OBVIOUS
    <2>2. 1 \in 1..m /\ 1 <= N BY <1>2, <1>3, <2>1, SMT
    <2>3. at(1) = text.bytes[1] BY <2>2 DEF at, ByteAt, N
    <2>4. ~(\E k \in 1..3 : k < 1) BY SMT
    <2>5. at(1) < 128 \/ at(1) \in 192..247
      <3>1. Sequenced(text.bytes, m) BY <2>1 DEF OverlongAt
      <3>2. text.bytes[1] < 128 \/ IsLead(text.bytes[1])
        BY <2>2, <2>4, <3>1, Zenon DEF Sequenced, Whole
      <3>3. QED BY <2>3, <3>2 DEF IsLead
    <2>6. QED BY <1>2, <2>5, AtType, SMT DEF IsTrail
  <1>4. QED BY <1>1, <1>2, <1>3, SMT DEF Aligned

LEMMA CleanInvariance == Spec => []Clean
PROOF BY InitClean, StepClean, Invariance, PTL DEF Spec

LEMMA StoppedInvariance == Spec => []Stopped
PROOF BY InitStopped, StoppedStep, Invariance, PTL DEF Spec

-----------------------------------------------------------------------------
\* Whatever the bytes and the options, no quote, backslash or control character
\* is written as it is, nor a character that the options ask to escape; and if
\* the string is UTF-8, with forceASCII all that is written is ASCII.
THEOREM EscapesCorrect == Spec => []Escapes
PROOF
  <1>1. TypeOK /\ Clean => Escapes
    <2>1. SUFFICES ASSUME TypeOK, Clean PROVE Escapes OBVIOUS
    <2>2. DOMAIN out = 1..Len(out) BY <2>1, SMT DEF TypeOK
    <2>3. QED BY <2>1, <2>2 DEF Clean, Proper, Escapes
  <1>2. IInv => TypeOK BY DEF IInv
  <1>3. QED BY <1>1, <1>2, Invariance, CleanInvariance, PTL

\* All UTF-8 is escaped, up to its end: neither the tests for what is cut off,
\* overlong or too long nor the reading ahead go wrong for it.
THEOREM Utf8Correct == Spec => []EscapesUtf8
PROOF
  <1>1. Clean => EscapesUtf8 BY DEF Clean, Valid, EscapesUtf8
  <1>2. QED BY <1>1, CleanInvariance, PTL

\* A string with an overlong sequence is not written with forceASCII, wherever
\* the sequence is.
THEOREM OverlongCorrect == Spec => []RefusesOverlong
PROOF
  <1>1. TypeOK /\ Stopped => RefusesOverlong
    BY TextsAssumption DEF TypeOK, Meaning, Stopped, RefusesOverlong, N
  <1>2. IInv => TypeOK BY DEF IInv
  <1>3. QED BY <1>1, <1>2, Invariance, StoppedInvariance, PTL

-----------------------------------------------------------------------------
(* decode_string as StringRoundTrip and as DecodeStringProofs have it. *)

\* The actions are the same, one by one.
LEMMA SameScan ==
  /\ D!End = P!End /\ D!buffer = P!buffer
  /\ \A i : D!at(i) = P!at(i)
  /\ \A b : D!Lookup(b) = P!Lookup(b)
  /\ \A b : D!IsHex(b) <=> P!IsHex(b)
  /\ D!Ch = P!Ch /\ (D!InRange <=> P!InRange)
PROOF
  <1>1. D!End = P!End BY DEF D!End, P!End
  <1>2. D!buffer = P!buffer BY DEF D!buffer, P!buffer
  <1>3. \A i : D!at(i) = P!at(i) BY DEF D!at, P!at
  <1>4. \A b : D!Lookup(b) = P!Lookup(b) BY Zenon DEF D!Lookup, P!Lookup
  <1>5. \A b : D!IsHex(b) <=> P!IsHex(b) BY Zenon DEF D!IsHex, P!IsHex
  <1>6. \A b : D!Digit(b) = P!Digit(b) BY Zenon DEF D!Digit, P!Digit
  <1>7. D!Ch = P!Ch BY <1>3, <1>6, Zenon DEF D!Ch, P!Ch
  <1>8. D!InRange <=> P!InRange BY SMT DEF D!InRange, P!InRange
  <1>9. QED BY <1>1, <1>2, <1>3, <1>4, <1>5, <1>7, <1>8

LEMMA SameActs ==
  /\ \A i : D!Reads(i) <=> P!Reads(i)
  /\ \A c : D!Case(c) <=> P!Case(c)
  /\ \A msg : D!SetError(msg) <=> P!SetError(msg)
  /\ \A n, u : D!Emit(n, u) <=> P!Emit(n, u)
PROOF
  <1>1. \A i : D!Reads(i) <=> P!Reads(i) BY Zenon DEF D!Reads, P!Reads
  <1>2. \A c : D!Case(c) <=> P!Case(c) BY SameScan, Zenon DEF D!Case, P!Case
  <1>3. \A msg : D!SetError(msg) <=> P!SetError(msg) BY Zenon DEF D!SetError, P!SetError
  <1>4. \A n, u : D!Emit(n, u) <=> P!Emit(n, u)
    BY <1>1, SameScan, Zenon DEF D!Emit, P!Emit, D!buffer, P!buffer
  <1>5. QED BY <1>1, <1>2, <1>3, <1>4

LEMMA SameSequences ==
  \A n, c : /\ D!Sequence(n, c) => P!Sequence(n, c)
            /\ D!Overlong(n, c) => P!Overlong(n, c)
            /\ D!BadOctet(n, c) => P!BadOctet(n, c)
PROOF
  <1>1. \A n, b : D!Lead(n, b) = P!Lead(n, b) BY Zenon DEF D!Lead, P!Lead
  <1>2. \A i : D!Bits(i) = P!Bits(i) BY SameScan, Zenon DEF D!Bits, P!Bits
  <1>3. \A n : D!Ucs(n) = P!Ucs(n) BY <1>1, <1>2, SameScan, Zenon DEF D!Ucs, P!Ucs
  <1>4. \A n : D!Least(n) = P!Least(n) BY SMT DEF D!Least, P!Least
  <1>5. \A b : D!IsOctet(b) <=> P!IsOctet(b) BY Zenon DEF D!IsOctet, P!IsOctet
  <1>6. \A n, c : D!Sequence(n, c) => P!Sequence(n, c)
    BY <1>3, <1>4, <1>5, SameScan, SameActs, Zenon DEF D!Sequence, P!Sequence
  <1>7. \A n, c : D!Overlong(n, c) => P!Overlong(n, c)
    BY <1>3, <1>4, <1>5, SameScan, SameActs, Zenon DEF D!Overlong, P!Overlong, D!buffer, P!buffer
  <1>8. \A n, c : D!BadOctet(n, c) => P!BadOctet(n, c)
    BY <1>5, SameScan, SameActs, Zenon DEF D!BadOctet, P!BadOctet, D!buffer, P!buffer
  <1>9. QED BY <1>6, <1>7, <1>8

LEMMA SameStep == D!Step => P!Step
PROOF
  <1>1. D!OpenFits => P!OpenFits BY SameScan, Zenon DEF D!OpenFits, P!OpenFits, D!buffer, P!buffer
  <1>2. D!OpenGrows => P!OpenGrows BY SameScan, Zenon DEF D!OpenGrows, P!OpenGrows, D!buffer, P!buffer
  <1>3. D!OpenNoMemory => P!OpenNoMemory
    BY SameScan, SameActs, Zenon DEF D!OpenNoMemory, P!OpenNoMemory, D!buffer, P!buffer
  <1>4. D!Quote => P!Quote BY SameScan, SameActs, Zenon DEF D!Quote, P!Quote, D!buffer, P!buffer
  <1>5. D!NotAString => P!NotAString
    BY SameScan, SameActs, Zenon DEF D!NotAString, P!NotAString, D!buffer, P!buffer
  <1>6. D!Unmatched => P!Unmatched BY SameScan, SameActs, Zenon DEF D!Unmatched, P!Unmatched, D!buffer, P!buffer
  <1>7. D!Plain => P!Plain BY SameScan, SameActs, Zenon DEF D!Plain, P!Plain
  <1>8. D!Escape => P!Escape
    <2>1. \A b : D!Escaped(b) = P!Escaped(b) BY Zenon DEF D!Escaped, P!Escaped
    <2>2. D!Simple = P!Simple BY Zenon DEF D!Simple, P!Simple
    <2>3. QED BY <2>1, <2>2, SameScan, SameActs, Zenon DEF D!Escape, P!Escape
  <1>9. D!BadEscape => P!BadEscape
    BY SameScan, SameActs, Zenon DEF D!BadEscape, P!BadEscape, D!buffer, P!buffer, D!Simple, P!Simple
  <1>10. D!UnicodeEscape => P!UnicodeEscape
    <2>1. \A h, l : D!Pair(h, l) = P!Pair(h, l) BY SMT DEF D!Pair, P!Pair
    <2>2. \A u : (D!IsLow(u) <=> P!IsLow(u)) /\ (D!IsHigh(u) <=> P!IsHigh(u))
      BY SMT DEF D!IsLow, P!IsLow, D!IsHigh, P!IsHigh
    <2>3. QED
      BY <2>1, <2>2, SameScan, SameActs, Zenon DEF D!UnicodeEscape, P!UnicodeEscape, D!buffer, P!buffer
  <1>11. D!BadUnicodeEscape => P!BadUnicodeEscape
    <2>1. \A i : D!BadDigit(i) <=> P!BadDigit(i)
      BY SameScan, Zenon DEF D!BadDigit, P!BadDigit
    <2>2. QED
      BY <2>1, SameScan, SameActs, Zenon
      DEF D!BadUnicodeEscape, P!BadUnicodeEscape, D!buffer, P!buffer
  <1>12. D!NextString => P!NextString
    BY SameScan, Zenon DEF D!NextString, P!NextString, D!buffer, P!buffer
  <1>13. D!FreeBuffer => P!FreeBuffer BY Zenon DEF D!FreeBuffer, P!FreeBuffer
  <1>14. QED
    BY <1>1, <1>2, <1>3, <1>4, <1>5, <1>6, <1>7, <1>8, <1>9, <1>10, <1>11, <1>12, <1>13,
       SameSequences DEF D!Step, P!Step, D!Scan, P!Scan

-----------------------------------------------------------------------------
(* What D!Meaning says. *)

LEMMA SameUnicode ==
  /\ \A c : D!Utf8(c) = P!Utf8(c)
  /\ D!CodePoint = P!CodePoint
  /\ D!HighSurrogate = P!HighSurrogate /\ D!LowSurrogate = P!LowSurrogate
  /\ \A h, l : D!FromUtf16(h, l) = P!FromUtf16(h, l)
  /\ \A b : D!IsLead(b) <=> P!IsLead(b)
  /\ \A b : D!SequenceLength(b) = P!SequenceLength(b)
  /\ \A s, i, m : D!Whole(s, i, m) <=> P!Whole(s, i, m)
  /\ \A s, i : (D!IsOverlong(s, i) <=> P!IsOverlong(s, i)) /\ (D!IsTooLarge(s, i) <=> P!IsTooLarge(s, i))
PROOF
  <1>1. \A c : D!Utf8(c) = P!Utf8(c) BY SMT DEF D!Utf8, P!Utf8, D!Octet, P!Octet
  <1>2. D!CodePoint = P!CodePoint
    <2>1. D!MaxCodePoint = P!MaxCodePoint BY SMT DEF D!MaxCodePoint, P!MaxCodePoint
    <2>2. QED BY <2>1, Zenon DEF D!CodePoint, P!CodePoint
  <1>3. D!HighSurrogate = P!HighSurrogate /\ D!LowSurrogate = P!LowSurrogate
    BY SMT DEF D!HighSurrogate, P!HighSurrogate, D!LowSurrogate, P!LowSurrogate
  <1>4. \A h, l : D!FromUtf16(h, l) = P!FromUtf16(h, l) BY SMT DEF D!FromUtf16, P!FromUtf16
  <1>5. \A b : D!IsLead(b) <=> P!IsLead(b) BY Zenon DEF D!IsLead, P!IsLead
  <1>6. \A b : D!SequenceLength(b) = P!SequenceLength(b)
    BY Zenon DEF D!SequenceLength, P!SequenceLength
  <1>7. \A b : D!IsTrail(b) <=> P!IsTrail(b) BY Zenon DEF D!IsTrail, P!IsTrail
  <1>8. \A s, i, m : D!Whole(s, i, m) <=> P!Whole(s, i, m)
    BY <1>5, <1>6, <1>7, Zenon DEF D!Whole, P!Whole
  <1>9. \A s, i : (D!IsOverlong(s, i) <=> P!IsOverlong(s, i)) /\ (D!IsTooLarge(s, i) <=> P!IsTooLarge(s, i))
    BY Zenon DEF D!IsOverlong, P!IsOverlong, D!IsTooLarge, P!IsTooLarge
  <1>10. QED BY <1>1, <1>2, <1>3, <1>4, <1>5, <1>6, <1>8, <1>9

LEMMA SameMeaning ==
  ASSUME NEW R, NEW s, NEW w, D!Describes(R, s, w)
  PROVE  P!Describes(R, s, w)
PROOF
  <1>1. \A d : D!Digits(d) = P!Digits(d) BY Zenon DEF D!Digits, P!Digits
  <1>2. D!Shorts = P!Shorts BY Zenon DEF D!Shorts, P!Shorts
  <1>3. \A t, i, u : D!Hexes(t, i, u) <=> P!Hexes(t, i, u)
    BY <1>1, SMT DEF D!Hexes, P!Hexes
  <1>13. \A t, i : D!Masked(t, i) = P!Masked(t, i) BY SMT DEF D!Masked, P!Masked
  <1>14. \A t, i, j, u : D!Lax(t, i, j, u) <=> P!Lax(t, i, j, u)
    BY <1>13, SameUnicode, SMT DEF D!Lax, P!Lax
  <1>4. \A t, i, j, u, e : D!Piece(t, i, j, u, e) <=> P!Piece(t, i, j, u, e)
    BY <1>2, <1>3, <1>14, SameUnicode, SMT DEF D!Piece, P!Piece
  <1>5. \A p, q : D!Paired(p, q) <=> P!Paired(p, q) BY SameUnicode, Zenon DEF D!Paired, P!Paired
  <1>6. \A t, p, q : D!Leads(t, p, q) <=> P!Leads(t, p, q)
    BY <1>4, <1>5, SameUnicode, Zenon DEF D!Leads, P!Leads
  <1>7. \A t, i, r : D!IsReading(t, i, r) <=> P!IsReading(t, i, r)
    BY <1>6, Zenon DEF D!IsReading, P!IsReading
  <1>8. \A r : D!EndOf(r) = P!EndOf(r) BY Zenon DEF D!EndOf, P!EndOf
  <1>9. D!Places = P!Places BY SameUnicode, Zenon DEF D!Places, P!Places
  <1>10. D!AreReadings(s, R) <=> P!AreReadings(s, R)
    BY <1>7, <1>8, <1>9, Zenon DEF D!AreReadings, P!AreReadings
  <1>11. \A t, i : D!Malformed(t, i) <=> P!Malformed(t, i)
    <2>1. ASSUME NEW t, NEW i PROVE D!Malformed(t, i) <=> P!Malformed(t, i)
      <3>1. PICK l : l = P!SequenceLength(t[i]) OBVIOUS
      <3>2. /\ D!SequenceLength(t[i]) = l /\ (D!IsLead(t[i]) <=> P!IsLead(t[i]))
        BY <3>1, SameUnicode, Zenon
      <3>9. (/\ D!Whole(D!Masked(t, i), i, Len(t))
             /\ D!IsOverlong(D!Masked(t, i), i) \/ D!IsTooLarge(D!Masked(t, i), i))
              <=> (/\ P!Whole(P!Masked(t, i), i, Len(t))
                   /\ P!IsOverlong(P!Masked(t, i), i) \/ P!IsTooLarge(P!Masked(t, i), i))
        BY <1>13, SameUnicode, Zenon
      <3>3. (\A d \in 0..15 : \A x : x \notin D!Digits(d) <=> x \notin P!Digits(d))
        BY <1>1, Zenon
      <3>4. \A k : (\A d \in 0..15 : t[k] \notin D!Digits(d)) <=> (\A d \in 0..15 : t[k] \notin P!Digits(d))
        BY <3>3, Zenon
      <3>5. (\A p \in D!Shorts : t[i + 1] # p[1]) <=> (\A p \in P!Shorts : t[i + 1] # p[1])
        BY <1>2, Zenon
      <3>6. (\E k \in i + 2..i + 5 : k <= Len(t) /\ \A d \in 0..15 : t[k] \notin D!Digits(d))
              <=> (\E k \in i + 2..i + 5 : k <= Len(t) /\ \A d \in 0..15 : t[k] \notin P!Digits(d))
        BY <3>4, Zenon
      <3>7. (\E k \in i + 1..i + D!SequenceLength(t[i]) - 1 : k <= Len(t) /\ t[k] < 128)
              <=> (\E k \in i + 1..i + P!SequenceLength(t[i]) - 1 : k <= Len(t) /\ t[k] < 128)
        BY <3>1, <3>2, Zenon
      <3>8. QED BY <3>2, <3>5, <3>6, <3>7, <3>9, Zenon DEF D!Malformed, P!Malformed
    <2>2. QED BY <2>1, Zenon
  <1>12. QED BY <1>8, <1>10, <1>11, Zenon DEF D!Describes, P!Describes

-----------------------------------------------------------------------------
(* The two halves. *)

LEMMA TextsAre ==
  /\ P!Constants
  /\ Documents \subseteq AllTexts
  /\ NoText \in AllTexts
  /\ \A b \in Seq(Byte) : Len(b) > 1 /\ b[Len(b)] = 0 => [NoText EXCEPT !.bytes = b] \in AllTexts
PROOF
  <1>1. D!Byte = Byte /\ P!Byte = Byte BY DEF D!Byte, P!Byte, Byte
  <1>2. \A b \in Seq(Byte) : Len(b) > 1 /\ b[Len(b)] = 0 => [NoText EXCEPT !.bytes = b] \in AllTexts
    BY DEF AllTexts
  <1>3. NoText \in AllTexts
    <2>1. PICK b : b = <<34, 0>> OBVIOUS
    <2>2. 34 \in Byte /\ 0 \in Byte BY DEF Byte
    <2>3. b \in Seq(Byte) /\ Len(b) > 1 /\ b[Len(b)] = 0 BY <2>1, <2>2
    <2>4. [NoText EXCEPT !.bytes = b] = NoText BY <2>1 DEF NoText
    <2>5. QED BY <1>2, <2>3, <2>4
  <1>4. ASSUME NEW t \in AllTexts
        PROVE  t.bytes \in Seq(Byte) /\ Len(t.bytes) > 1 /\ t.bytes[Len(t.bytes)] = 0
    <2>1. CASE t \in Documents BY <1>1, <2>1, DocumentsAssumption DEF D!Constants
    <2>2. CASE t \notin Documents
      <3>1. PICK b \in {s \in Seq(Byte) : Len(s) > 1 /\ s[Len(s)] = 0} :
              t = [NoText EXCEPT !.bytes = b]
        BY <2>2 DEF AllTexts
      <3>2. t.bytes = b BY <3>1 DEF NoText
      <3>3. QED BY <3>2
    <2>3. QED BY <2>1, <2>2
  <1>5. StackLen \in Nat /\ AllocFails \in BOOLEAN BY DocumentsAssumption DEF D!Constants
  <1>6. P!Constants BY <1>1, <1>4, <1>5 DEF P!Constants
  <1>7. QED BY <1>2, <1>3, <1>6 DEF AllTexts

\* In each turn, what holds of the half whose turn it is; the other waits.
Halves ==
  /\ turn \in {"escape", "decode", "read back"}
  /\ turn # "decode" => IInv /\ Clean
  /\ turn = "decode" => text = NoString
  /\ turn = "escape" => dtext = NoText /\ D!Start
  /\ P!IInv

\* The bytes handed over.
Handed == <<34>> \o Spelled(out) \o <<34, 0>>

LEMMA HandedType ==
  ASSUME TypeOK
  PROVE  /\ Handed \in Seq(Byte) /\ Len(Handed) > 1 /\ Handed[Len(Handed)] = 0
         /\ [NoText EXCEPT !.bytes = Handed] \in AllTexts
PROOF
  <1>1. PICK o \in Seq(Items) : o = out BY DEF TypeOK
  <1>2. PICK x \in Seq(Byte) : x = Spelled(o)
    <2>1. Raw(0) \in Items BY ItemsAre DEF MaxUnit
    <2>2. QED BY <2>1, SpelledAppend
  <1>3. 34 \in Byte /\ 0 \in Byte BY DEF Byte
  <1>4. PICK h : h = <<34>> \o x \o <<34, 0>> OBVIOUS
  <1>5. h \in Seq(Byte) BY <1>3, <1>4
  <1>6. Len(h) = Len(x) + 3 /\ Len(x) \in Nat BY <1>4
  <1>7. h[Len(h)] = 0 BY <1>4, <1>6
  <1>8. h = Handed BY <1>1, <1>2, <1>4 DEF Handed
  <1>9. Len(h) > 1 BY <1>6
  <1>10. [NoText EXCEPT !.bytes = h] \in AllTexts BY <1>5, <1>7, <1>9, TextsAre
  <1>11. QED BY <1>5, <1>7, <1>8, <1>9, <1>10

LEMMA HalvesInit == RoundTripInit => Halves
PROOF
  <1> SUFFICES ASSUME RoundTripInit PROVE Halves OBVIOUS
  <1>1. D!Start => P!Start BY DEF D!Start, P!Start
  <1>2. CASE turn = "escape" /\ Init /\ dtext = NoText /\ D!Start
    <2>1. P!Init BY <1>1, <1>2, TextsAre DEF P!Init
    <2>2. P!IInv BY <2>1, TextsAre, P!InitInvariant
    <2>3. IInv /\ Clean BY <1>2, InitInvariant, InitClean
    <2>4. QED BY <1>2, <2>2, <2>3 DEF Halves
  <1>3. CASE turn = "decode" /\ text = NoString /\ D!Init
    <2>1. P!Init BY <1>1, <1>3, TextsAre DEF P!Init, D!Init
    <2>2. P!IInv BY <2>1, TextsAre, P!InitInvariant
    <2>3. QED BY <1>3, <2>2 DEF Halves
  <1>4. QED BY <1>2, <1>3 DEF RoundTripInit

LEMMA DecoderStep ==
  ASSUME P!IInv, D!Step \/ UNCHANGED decoderVars
  PROVE  P!IInv' /\ [P!Next]_(P!vars)
PROOF
  <1>1. UNCHANGED decoderVars => UNCHANGED P!vars BY DEF decoderVars, P!vars
  <1>2. [P!Next]_(P!vars) BY <1>1, SameStep DEF P!Next
  <1>3. QED BY <1>2, TextsAre, P!NextInvariant

LEMMA EscaperStep ==
  ASSUME IInv, Clean, Step \/ UNCHANGED vars
  PROVE  IInv' /\ Clean'
PROOF
  <1>1. [Next]_vars BY DEF Next
  <1>2. QED BY <1>1, NextInvariant, StepClean

LEMMA HandoverStep ==
  ASSUME Halves, Handover
  PROVE  P!IInv' /\ dtext' = [NoText EXCEPT !.bytes = Handed] /\ P!Start /\ P!Start'
PROOF
  <1>1. D!Start /\ TypeOK /\ P!IInv BY DEF Handover, Halves, IInv
  <1>2. P!Start BY <1>1 DEF D!Start, P!Start
  <1>3. dtext' = [NoText EXCEPT !.bytes = Handed] BY DEF Handover, Handed, Spelled
  <1>4. UNCHANGED <<dpc, dstart, doffset, descLen, descHeap, dblocks, desc, dlastHigh,
                    derrorStr, ddecoded, dreach>>
    BY DEF Handover
  <1>5. P!Start' BY <1>2, <1>4 DEF P!Start
  <1>6. dtext' \in AllTexts BY <1>1, <1>3, HandedType
  <1>7. P!TypeOK' BY <1>1, <1>4, <1>6 DEF P!IInv, P!TypeOK
  <1>8. P!End' \in Nat /\ P!End' > 1
    <2>1. dtext'.bytes = Handed BY <1>3 DEF NoText
    <2>2. QED BY <1>1, <2>1, HandedType DEF P!End
  <1>9. P!Reading'
    <2>1. dpc' = "decode_string" /\ dstart' = 1 /\ dreach' = 1 /\ desc' = <<>> /\ descLen' = StackLen
      BY <1>5 DEF P!Start
    <2>2. StackLen \in Nat BY DocumentsAssumption DEF D!Constants
    <2>3. QED BY <1>8, <2>1, <2>2 DEF P!Reading
  <1>10. P!Surrogates' /\ P!Blocks' BY <1>5 DEF P!Start, P!Surrogates, P!Blocks
  <1>11. QED BY <1>2, <1>3, <1>5, <1>7, <1>9, <1>10 DEF P!IInv

LEMMA HalvesStep == Halves /\ [RoundTripNext]_allVars => Halves'
PROOF
  <1> SUFFICES ASSUME Halves, [RoundTripNext]_allVars PROVE Halves' OBVIOUS
  <1>1. P!IInv /\ turn \in {"escape", "decode", "read back"} BY DEF Halves
  <1>2. CASE EscapeTurn
    <2>1. turn = "escape" /\ turn' = turn /\ Step /\ UNCHANGED decoderVars BY <1>2 DEF EscapeTurn
    <2>2. P!IInv' BY <1>1, <2>1, DecoderStep
    <2>3. IInv' /\ Clean' BY <2>1, EscaperStep DEF Halves
    <2>4. dtext' = NoText /\ D!Start' BY <2>1 DEF Halves, decoderVars, D!Start
    <2>5. QED BY <1>1, <2>1, <2>2, <2>3, <2>4 DEF Halves
  <1>3. CASE Handover
    <2>1. turn = "escape" /\ turn' = "read back" /\ UNCHANGED vars BY <1>3 DEF Handover
    <2>2. P!IInv' BY <1>3, HandoverStep
    <2>3. IInv' /\ Clean' BY <2>1, EscaperStep DEF Halves
    <2>4. QED BY <2>1, <2>2, <2>3 DEF Halves
  <1>4. CASE DecodeTurn
    <2>1. turn # "escape" /\ turn' = turn /\ D!Step /\ UNCHANGED vars BY <1>4 DEF DecodeTurn
    <2>2. P!IInv' BY <1>1, <2>1, DecoderStep
    <2>3. turn # "decode" => IInv' /\ Clean' BY <2>1, EscaperStep DEF Halves
    <2>4. turn = "decode" => text' = NoString BY <2>1 DEF Halves, vars
    <2>5. QED BY <1>1, <2>1, <2>2, <2>3, <2>4 DEF Halves
  <1>5. CASE UNCHANGED allVars
    <2>1. turn' = turn /\ UNCHANGED vars /\ UNCHANGED decoderVars BY <1>5 DEF allVars
    <2>2. P!IInv' BY <1>1, <2>1, DecoderStep
    <2>3. turn # "decode" => IInv' /\ Clean' BY <2>1, EscaperStep DEF Halves
    <2>4. turn = "decode" => text' = NoString BY <2>1 DEF Halves, vars
    <2>5. turn = "escape" => dtext' = NoText /\ D!Start' BY <2>1 DEF Halves, decoderVars, D!Start
    <2>6. QED BY <1>1, <2>1, <2>2, <2>3, <2>4, <2>5 DEF Halves
  <1>6. QED BY <1>2, <1>3, <1>4, <1>5 DEF RoundTripNext, Ended

LEMMA HalvesInvariance == RoundTripSpec => []Halves
PROOF BY HalvesInit, HalvesStep, PTL DEF RoundTripSpec

-----------------------------------------------------------------------------
\* Whatever decode_string is given, from elsewhere or from the escaping, it writes
\* no code point outside the escape buffer and reads no byte behind the NUL.
THEOREM InsideCorrect == RoundTripSpec => []StaysInside
PROOF
  <1>1. Halves => StaysInside
    BY DEF Halves, P!IInv, P!Reading, StaysInside, D!StaysInside, D!End, P!End
  <1>2. QED BY <1>1, HalvesInvariance, PTL

\* It allocates one buffer at most, which is freed on every way out.
THEOREM FreedCorrect == RoundTripSpec => []BufferFreed
PROOF
  <1>1. Halves => P!Blocks BY DEF Halves, P!IInv
  <1>2. P!Blocks => BufferFreed BY DEF P!Blocks, BufferFreed, D!BufferFreed
  <1>3. QED BY <1>1, <1>2, HalvesInvariance, PTL

-----------------------------------------------------------------------------
(* The texts from elsewhere. *)

LEMMA TextKept == ASSUME [P!Next]_(P!vars) PROVE dtext' = dtext
PROOF
  BY DEF P!Next, P!Step, P!Done, P!vars, P!OpenFits, P!OpenGrows, P!OpenNoMemory, P!SetError,
     P!Scan, P!Quote, P!NotAString, P!Unmatched, P!Plain, P!Escape, P!Emit, P!BadEscape,
     P!UnicodeEscape, P!BadUnicodeEscape, P!Sequence, P!Overlong, P!BadOctet, P!NextString,
     P!FreeBuffer

\* decode_string is where the readings of its text say.
AsSaid ==
  turn = "decode" =>
    /\ P!Describes(dtext.readings, dtext.bytes, dtext.wellFormed)
    /\ P!Following(dtext.readings, dtext.wellFormed)

LEMMA AsSaidInit == RoundTripInit => AsSaid
PROOF
  <1> SUFFICES ASSUME RoundTripInit, turn = "decode" PROVE AsSaid BY DEF AsSaid
  <1>1. dtext \in Documents /\ D!Start BY DEF RoundTripInit, D!Init
  <1>2. P!Start BY <1>1 DEF D!Start, P!Start
  <1>3. PICK R, w, s : R = dtext.readings /\ w = dtext.wellFormed /\ s = dtext.bytes OBVIOUS
  <1>4. D!Describes(R, s, w) BY <1>1, <1>3, DocumentsAssumption DEF D!Meaning
  <1>5. P!Describes(R, dtext.bytes, w) BY <1>3, <1>4, SameMeaning
  <1>6. P!Following(R, w) BY <1>2, <1>5, TextsAre, P!FollowingInit
  <1>7. QED BY <1>3, <1>5, <1>6 DEF AsSaid

LEMMA AsSaidStep == Halves /\ AsSaid /\ [RoundTripNext]_allVars => AsSaid'
PROOF
  <1> SUFFICES ASSUME Halves, AsSaid, [RoundTripNext]_allVars, turn' = "decode" PROVE AsSaid'
    BY DEF AsSaid
  <1>1. P!IInv BY DEF Halves
  <1>2. turn = "decode" /\ (D!Step \/ UNCHANGED decoderVars)
    BY DEF RoundTripNext, EscapeTurn, Handover, DecodeTurn, Ended, allVars
  <1>3. [P!Next]_(P!vars) BY <1>1, <1>2, DecoderStep
  <1>4. PICK R, w : R = dtext.readings /\ w = dtext.wellFormed OBVIOUS
  <1>5. P!Describes(R, dtext.bytes, w) /\ P!Following(R, w) BY <1>2, <1>4 DEF AsSaid
  <1>6. P!Following(R, w)' BY <1>1, <1>3, <1>5, TextsAre, P!FollowingStep
  <1>7. dtext' = dtext BY <1>3, TextKept
  <1>8. QED BY <1>4, <1>5, <1>6, <1>7 DEF AsSaid

LEMMA AsSaidInvariance == RoundTripSpec => []AsSaid
PROOF BY AsSaidInit, AsSaidStep, HalvesInvariance, PTL DEF RoundTripSpec

LEMMA AsSaidDone ==
  ASSUME Halves, AsSaid, turn = "decode", dpc = "done", derrorStr # "memory"
  PROVE  IF dtext.wellFormed
         THEN derrorStr = "none" /\ ddecoded = D!Said(dtext.readings) ELSE derrorStr # "none"
PROOF
  <1>1. PICK R, w : R = dtext.readings /\ w = dtext.wellFormed OBVIOUS
  <1>2. P!Following(R, w) /\ R \in Seq(Seq(P!Places))
    BY <1>1 DEF AsSaid, P!Describes, P!AreReadings
  <1>3. IF w THEN derrorStr = "none" /\ ddecoded = P!Said(R) ELSE derrorStr # "none"
    BY <1>2, P!Followed DEF Halves
  <1>4. P!Said(R) = D!Said(R) BY DEF P!Said, D!Said
  <1>5. QED BY <1>1, <1>3, <1>4

\* Strings that are well-formed, any number of them, are decoded to what they say:
\* escapes, surrogate pairs and UTF-8, none carried over from one to the next.
THEOREM DecodesCorrect == RoundTripSpec => []DecodesExactly
PROOF
  <1>1. Halves /\ AsSaid => DecodesExactly BY AsSaidDone DEF DecodesExactly, D!DecodesExactly
  <1>2. QED BY <1>1, HalvesInvariance, AsSaidInvariance, PTL

\* Strings that are malformed somewhere, be it UTF-8, an escape or a missing quote,
\* are refused.
THEOREM RejectsCorrect == RoundTripSpec => []RejectsMalformed
PROOF
  <1>1. Halves /\ AsSaid => RejectsMalformed
    BY AsSaidDone DEF RejectsMalformed, D!RejectsMalformed
  <1>2. QED BY <1>1, HalvesInvariance, AsSaidInvariance, PTL

-----------------------------------------------------------------------------
(* Reading what is written, piece by piece. *)

\* A piece does not depend on what follows it.
LEMMA PieceKept ==
  ASSUME NEW b \in Seq(Byte), NEW y \in Seq(Byte), NEW z \in Seq(Byte), Len(y) <= Len(z),
         NEW i \in Nat \ {0}, NEW j \in Nat, j <= Len(b) + 1, NEW u, u \in CodePoint, NEW e,
         P!Piece(b \o y, i, j, u, e)
  PROVE  P!Piece(b \o z, i, j, u, e)
PROOF
  <1>1. PICK s, t : s = b \o y /\ t = b \o z OBVIOUS
  <1>2. /\ s \in Seq(Byte) /\ t \in Seq(Byte) /\ Len(s) = Len(b) + Len(y) /\ Len(t) = Len(b) + Len(z)
        /\ \A k \in 1..Len(b) : s[k] = b[k] /\ t[k] = b[k]
    BY <1>1
  <1>3. P!Piece(s, i, j, u, e) BY <1>1
  <1> DEFINE A(x) == /\ ~e /\ u >= 32 /\ u \notin {34, 92}
                     /\ j = i + Len(P!Utf8(u)) /\ SubSeq(x, i, j - 1) = P!Utf8(u)
             B(x) == ~e /\ j = i + 2 /\ x[i] = 92 /\ <<x[i + 1], u>> \in P!Shorts
             C(x) == e /\ u < 65536 /\ j = i + 6 /\ P!Hexes(x, i, u)
             F(x) == ~e /\ j = i + 1 /\ x[i] = u /\ u \in 1..31 \cup 128..191
             G(x) == /\ ~e /\ u >= 128 /\ j = i + Len(P!Utf8(u))
                     /\ SubSeq(P!Masked(x, i), i, j - 1) = P!Utf8(u)
  <1>10. ASSUME NEW x
         PROVE  P!Piece(x, i, j, u, e)
                  <=> j <= Len(x) /\ (A(x) \/ B(x) \/ C(x) \/ F(x) \/ G(x))
    <2>1. ~e /\ P!Lax(x, i, j, u) <=> F(x) \/ G(x)
      BY Zenon DEF P!Lax
    <2> HIDE DEF F, G
    <2>2. P!Piece(x, i, j, u, e) <=> j <= Len(x) /\ (A(x) \/ B(x) \/ C(x) \/ (~e /\ P!Lax(x, i, j, u)))
      BY SMT DEF P!Piece
    <2>3. QED BY <2>1, <2>2
  <1> HIDE DEF A, B, C, F, G
  <1>4. j <= Len(s) BY <1>3, <1>10
  <1>5. j <= Len(t) /\ Len(b) \in Nat BY <1>2, <1>4
  <1>6. CASE A(s)
    <2>1. PICK n : n = Len(P!Utf8(u)) OBVIOUS
    <2>2. n \in Nat \ {0} BY <2>1, Same, Coded
    <2>3. j = i + n BY <1>6, <2>1 DEF A
    <2>4. i \in 1..Len(s) /\ j - 1 \in 1..Len(s) /\ i <= j - 1 BY <1>4, <1>2, <2>2, <2>3
    <2>5. SubSeq(t, i, j - 1) = SubSeq(s, i, j - 1)
      <3>1. \A k \in 1..n : t[i + k - 1] = s[i + k - 1]
        <4>1. ASSUME NEW k \in 1..n PROVE t[i + k - 1] = s[i + k - 1]
          <5>1. i + k - 1 \in 1..Len(b) BY <1>5, <2>2, <2>3
          <5>2. QED BY <1>2, <5>1
        <4>2. QED BY <4>1
      <3>2. PICK h : h = j - 1 OBVIOUS
      <3>3. h \in Nat /\ h - i + 1 = n BY <2>2, <2>3, <3>2
      <3>4. SubSeq(t, i, h) = [k \in 1..n |-> t[i + k - 1]] BY <3>3
      <3>5. SubSeq(s, i, h) = [k \in 1..n |-> s[i + k - 1]] BY <3>3
      <3>6. QED BY <3>1, <3>2, <3>4, <3>5
    <2>6. A(t) BY <1>6, <2>5, Zenon DEF A
    <2>7. P!Piece(t, i, j, u, e) BY <1>5, <1>10, <2>6
    <2>8. QED BY <1>1, <2>7
  <1>7. CASE B(s)
    <2>1. i \in 1..Len(b) /\ i + 1 \in 1..Len(b) BY <1>5, <1>7 DEF B
    <2>2. s[i] = t[i] /\ s[i + 1] = t[i + 1] BY <1>2, <2>1
    <2>3. B(t) BY <1>7, <2>2, Zenon DEF B
    <2>4. P!Piece(t, i, j, u, e) BY <1>5, <1>10, <2>3
    <2>5. QED BY <1>1, <2>4
  <1>8. CASE C(s)
    <2>1. /\ i \in 1..Len(b) /\ i + 1 \in 1..Len(b) /\ i + 2 \in 1..Len(b) /\ i + 3 \in 1..Len(b)
          /\ i + 4 \in 1..Len(b) /\ i + 5 \in 1..Len(b)
      BY <1>5, <1>8 DEF C
    <2>2. /\ s[i] = t[i] /\ s[i + 1] = t[i + 1] /\ s[i + 2] = t[i + 2] /\ s[i + 3] = t[i + 3]
          /\ s[i + 4] = t[i + 4] /\ s[i + 5] = t[i + 5]
      BY <1>2, <2>1
    <2>3. P!Hexes(s, i, u) => P!Hexes(t, i, u) BY <2>2 DEF P!Hexes
    <2>4. C(t) BY <1>8, <2>3 DEF C
    <2>5. P!Piece(t, i, j, u, e) BY <1>5, <1>10, <2>4
    <2>6. QED BY <1>1, <2>5
  <1>11. CASE F(s)
    <2>1. i \in 1..Len(b) BY <1>5, <1>11 DEF F
    <2>2. s[i] = t[i] BY <1>2, <2>1
    <2>3. F(t) BY <1>11, <2>2, Zenon DEF F
    <2>4. P!Piece(t, i, j, u, e) BY <1>5, <1>10, <2>3
    <2>5. QED BY <1>1, <2>4
  <1>12. CASE G(s)
    <2>1. PICK n, v, w : n = Len(P!Utf8(u)) /\ v = P!Masked(s, i) /\ w = P!Masked(t, i) OBVIOUS
    <2>2. n \in Nat \ {0} BY <2>1, Same, Coded
    <2>3. j = i + n BY <1>12, <2>1 DEF G
    <2>4. \A k \in 1..n : w[i + k - 1] = v[i + k - 1]
      <3>1. ASSUME NEW k \in 1..n PROVE w[i + k - 1] = v[i + k - 1]
        <4>1. PICK l : l = i + k - 1 OBVIOUS
        <4>2. l \in 1..Len(b) BY <1>5, <2>2, <2>3, <4>1
        <4>3. l \in DOMAIN s /\ l \in DOMAIN t /\ s[l] = t[l] BY <1>2, <4>2
        <4>4. v[l] = w[l] BY <2>1, <4>3, SMT DEF P!Masked
        <4>5. QED BY <4>1, <4>4
      <3>2. QED BY <3>1
    <2>5. SubSeq(w, i, j - 1) = SubSeq(v, i, j - 1)
      <3>1. PICK h : h = j - 1 OBVIOUS
      <3>2. h \in Nat /\ h - i + 1 = n BY <2>2, <2>3, <3>1
      <3>3. SubSeq(w, i, h) = [k \in 1..n |-> w[i + k - 1]] BY <3>2
      <3>4. SubSeq(v, i, h) = [k \in 1..n |-> v[i + k - 1]] BY <3>2
      <3>5. QED BY <2>4, <3>1, <3>3, <3>4
    <2>6. G(t) BY <1>12, <2>1, <2>5, Zenon DEF G
    <2>7. P!Piece(t, i, j, u, e) BY <1>5, <1>10, <2>6
    <2>8. QED BY <1>1, <2>7
  <1>9. QED BY <1>3, <1>6, <1>7, <1>8, <1>10, <1>11, <1>12

\* b, up to its end, is the beginning of a string that stands for the units v.
ReadSoFar(b, v) ==
  \E r \in Seq(P!Places) :
    /\ P!IsReading(b \o <<34, 0>>, 2, r)
    /\ \A k \in 1..Len(r) : r[k].at \in 1..Len(b) + 1
    /\ P!EndOf(r) = Len(b) + 1
    /\ LET p == r[Len(r)]
       IN  /\ InUtf16(p.said) = v
           /\ p.escaped /\ p.unit \in P!HighSurrogate =>
                p.said # <<>> /\ p.said[Len(p.said)] = p.unit

LEMMA NothingRead == ReadSoFar(<<34>>, <<>>)
PROOF
  <1> DEFINE p == [at |-> 2, unit |-> 0, escaped |-> FALSE, said |-> <<>>]
  <1>1. p \in P!Places
    <2>1. 0 \in P!CodePoint BY P!CodePointsAre DEF P!MaxCodePoint
    <2>2. <<>> \in Seq(P!CodePoint) OBVIOUS
    <2>3. QED BY <2>1, <2>2 DEF P!Places
  <1>2. PICK r : r = <<p>> OBVIOUS
  <1>3. r \in Seq(P!Places) /\ Len(r) = 1 /\ r[1] = p /\ r # <<>> BY <1>1, <1>2
  <1>4. Len(<<34>>) = 1 OBVIOUS
  <1>5. p.at = 2 /\ p.escaped = FALSE /\ p.said = <<>> OBVIOUS
  <1>6. P!IsReading(<<34>> \o <<34, 0>>, 2, r) BY <1>3 DEF P!IsReading
  <1> HIDE DEF p
  <1>7. P!EndOf(r) = Len(<<34>>) + 1 BY <1>3, <1>4, <1>5 DEF P!EndOf
  <1>8. \A k \in 1..Len(r) : r[k].at \in 1..Len(<<34>>) + 1 BY <1>3, <1>4, <1>5
  <1>9. InUtf16(p.said) = <<>> BY <1>5, Nothing
  <1>10. QED BY <1>3, <1>5, <1>6, <1>7, <1>8, <1>9 DEF ReadSoFar

LEMMA SurrogatesAre ==
  ASSUME NEW u \in Nat
  PROVE  /\ u \in P!HighSurrogate <=> 55296 <= u /\ u <= 56319
         /\ u \in P!LowSurrogate <=> 56320 <= u /\ u <= 57343
PROOF BY P!Between DEF P!HighSurrogate, P!LowSurrogate

\* The pair of two surrogates.
LEMMA PairIs ==
  ASSUME NEW h \in Nat, NEW l \in Nat, h \in P!HighSurrogate, l \in P!LowSurrogate
  PROVE  /\ P!FromUtf16(h, l) \in CodePoint
         /\ Utf16(P!FromUtf16(h, l)) = <<h, l>>
PROOF
  <1>1. 55296 <= h /\ h <= 56319 /\ 56320 <= l /\ l <= 57343 BY SurrogatesAre
  <1>2. PICK c : c = P!FromUtf16(h, l) OBVIOUS
  <1>3. PICK a, d : a = h - 55296 /\ d = l - 56320 OBVIOUS
  <1>4. a \in Nat /\ a <= 1023 /\ d \in Nat /\ d <= 1023 BY <1>1, <1>3
  <1>5. c = 65536 + (a * 1024) + d BY <1>2, <1>3 DEF P!FromUtf16
  <1>6. c \in Nat /\ ~(c < 65536) /\ c <= 1114111 BY <1>4, <1>5
  <1>7. c \in CodePoint BY <1>6, Same, P!CodePointsAre DEF MaxCodePoint
  <1>8. (c - 65536) \div 1024 = a /\ (c - 65536) % 1024 = d BY <1>4, <1>5, SMT
  <1>9. Utf16(c) = <<((c - 65536) \div 1024) + 55296, ((c - 65536) % 1024) + 56320>>
    BY <1>6 DEF Utf16
  <1>10. a + 55296 = h /\ d + 56320 = l BY <1>1, <1>3
  <1>11. QED BY <1>2, <1>7, <1>8, <1>9, <1>10

\* What the place after p has been read to say.
SaidAfter(p, u, e) ==
  IF p.escaped /\ e /\ p.unit \in P!HighSurrogate /\ u \in P!LowSurrogate
  THEN [p.said EXCEPT ![Len(p.said)] = P!FromUtf16(p.unit, u)]
  ELSE Append(p.said, u)

LEMMA SaidMore ==
  ASSUME NEW p \in P!Places, NEW u \in CodePoint, NEW e \in BOOLEAN,
         p.escaped /\ p.unit \in P!HighSurrogate =>
           p.said # <<>> /\ p.said[Len(p.said)] = p.unit
  PROVE  /\ SaidAfter(p, u, e) \in Seq(CodePoint)
         /\ InUtf16(SaidAfter(p, u, e)) = InUtf16(p.said) \o Utf16(u)
         /\ e /\ u \in P!HighSurrogate =>
              SaidAfter(p, u, e) # <<>> /\ SaidAfter(p, u, e)[Len(SaidAfter(p, u, e))] = u
PROOF
  <1>1. PICK s \in Seq(CodePoint) : s = p.said BY Same DEF P!Places
  <1>2. PICK h \in CodePoint : h = p.unit BY Same DEF P!Places
  <1>3. h \in Nat /\ u \in Nat BY Coded
  <1>4. CASE p.escaped /\ e /\ h \in P!HighSurrogate /\ u \in P!LowSurrogate
    <2>1. PICK n : n = Len(s) OBVIOUS
    <2>2. s # <<>> /\ s[n] = h BY <1>1, <1>2, <1>4, <2>1
    <2>3. n \in Nat /\ n > 0 BY <2>1, <2>2
    <2>4. PICK c : c = P!FromUtf16(h, u) OBVIOUS
    <2>5. c \in CodePoint /\ Utf16(c) = <<h, u>> BY <1>3, <1>4, <2>4, PairIs
    <2>6. PICK a : a = Take(s, n - 1) OBVIOUS
    <2>7. n - 1 \in 0..Len(s) - 1 /\ n - 1 \in 0..Len(s) /\ (n - 1) + 1 = n BY <2>1, <2>3
    <2>8. a \in Seq(CodePoint) /\ Len(a) = n - 1 BY <2>6, <2>7, Taken
    <2>9. s = Append(a, h)
      <3>1. Take(s, (n - 1) + 1) = Append(Take(s, n - 1), s[(n - 1) + 1]) BY <2>7, Taken
      <3>2. QED BY <2>1, <2>2, <2>6, <2>7, <3>1, Taken
    <2>10. [s EXCEPT ![n] = c] = Append(a, c)
      <3>1. \A k \in 1..n - 1 : s[k] = a[k] BY <2>8, <2>9
      <3>2. PICK f : f = [s EXCEPT ![n] = c] OBVIOUS
      <3>3. f \in Seq(CodePoint) /\ Len(f) = n /\ f[n] = c /\ \A k \in 1..n - 1 : f[k] = s[k]
        BY <2>1, <2>3, <2>5, <3>2
      <3>4. PICK g : g = Append(a, c) OBVIOUS
      <3>5. g \in Seq(CodePoint) /\ Len(g) = n /\ g[n] = c /\ \A k \in 1..n - 1 : g[k] = a[k]
        BY <2>3, <2>5, <2>8, <3>4
      <3>6. \A k \in 1..n : f[k] = g[k] BY <2>3, <3>1, <3>3, <3>5
      <3>7. f = g BY <3>3, <3>5, <3>6
      <3>8. QED BY <3>2, <3>4, <3>7
    <2>11. SaidAfter(p, u, e) = Append(a, c)
      BY <1>1, <1>2, <1>4, <2>1, <2>4, <2>10 DEF SaidAfter
    <2>12. Utf16(h) = <<h>> /\ Utf16(u) = <<u>>
      <3>1. h < 65536 /\ u < 65536 BY <1>3, <1>4, SurrogatesAre
      <3>2. QED BY <3>1 DEF Utf16
    <2>13. InUtf16(Append(a, c)) = InUtf16(a) \o <<h, u>> BY <2>5, <2>8, Utf16Append
    <2>14. InUtf16(s) = InUtf16(a) \o <<h>> BY <2>8, <2>9, <2>12, Utf16Append
    <2>15. InUtf16(a) \in Seq(Nat) BY <2>5, <2>8, Utf16Append
    <2>16. InUtf16(a) \o <<h, u>> = (InUtf16(a) \o <<h>>) \o <<u>> BY <1>3, <2>15
    <2>17. Append(a, c) \in Seq(CodePoint) BY <2>5, <2>8
    <2>18. u \notin P!HighSurrogate BY <1>3, <1>4, SurrogatesAre
    <2>19. QED BY <1>1, <2>11, <2>12, <2>13, <2>14, <2>16, <2>17, <2>18
  <1>5. CASE ~(p.escaped /\ e /\ h \in P!HighSurrogate /\ u \in P!LowSurrogate)
    <2>1. SaidAfter(p, u, e) = Append(s, u) BY <1>1, <1>2, <1>5 DEF SaidAfter
    <2>2. PICK t : t = Append(s, u) OBVIOUS
    <2>3. t \in Seq(CodePoint) /\ Len(t) = Len(s) + 1 /\ t[Len(t)] = u /\ Len(s) \in Nat BY <2>2
    <2>4. t # <<>> BY <2>3
    <2>5. InUtf16(Append(s, u)) = InUtf16(s) \o Utf16(u) BY Utf16Append
    <2>6. QED BY <1>1, <2>1, <2>2, <2>3, <2>4, <2>5
  <1>6. QED BY <1>4, <1>5

\* One more piece.
LEMMA ReadMore ==
  ASSUME NEW b \in Seq(Byte), NEW v, ReadSoFar(b, v), NEW x \in Seq(Byte), Len(x) > 0,
         NEW u \in CodePoint, NEW e \in BOOLEAN,
         P!Piece(b \o (x \o <<34, 0>>), Len(b) + 1, Len(b) + Len(x) + 1, u, e)
  PROVE  ReadSoFar(b \o x, v \o Utf16(u))
PROOF
  <1>0. PICK y, z : y = <<34, 0>> /\ z = x \o <<34, 0>> OBVIOUS
  <1>1. y \in Seq(Byte) /\ Len(y) = 2 /\ z \in Seq(Byte) /\ Len(z) = Len(x) + 2
    <2>1. 34 \in Byte /\ 0 \in Byte BY DEF Byte
    <2>2. QED BY <1>0, <2>1
  <1>2. PICK s, t : s = b \o y /\ t = b \o z OBVIOUS
  <1>3. t = (b \o x) \o <<34, 0>> BY <1>0, <1>2
  <1>4. PICK r \in Seq(P!Places) :
          /\ P!IsReading(s, 2, r)
          /\ \A k \in 1..Len(r) : r[k].at \in 1..Len(b) + 1
          /\ P!EndOf(r) = Len(b) + 1
          /\ InUtf16(r[Len(r)].said) = v
          /\ r[Len(r)].escaped /\ r[Len(r)].unit \in P!HighSurrogate =>
               r[Len(r)].said # <<>> /\ r[Len(r)].said[Len(r[Len(r)].said)] = r[Len(r)].unit
    BY <1>0, <1>2 DEF ReadSoFar
  <1>5. PICK n, p : n = Len(r) /\ p = r[n] OBVIOUS
  <1>6. n \in Nat /\ n > 0 /\ n \in 1..n /\ p \in P!Places
    <2>1. r # <<>> BY <1>4 DEF P!IsReading
    <2>2. QED BY <1>5, <2>1
  <1>7. p.at = Len(b) + 1 /\ InUtf16(p.said) = v BY <1>4, <1>5 DEF P!EndOf
  <1>8. PICK m, w : m = Len(b) + Len(x) + 1 /\ w = SaidAfter(p, u, e) OBVIOUS
  <1>9. PICK q : q = [at |-> m, unit |-> u, escaped |-> e, said |-> w] OBVIOUS
  <1>10. q.at = m /\ q.unit = u /\ q.escaped = e /\ q.said = w BY <1>9
  <1>11. /\ w \in Seq(CodePoint)
         /\ InUtf16(w) = v \o Utf16(u)
         /\ e /\ u \in P!HighSurrogate => w # <<>> /\ w[Len(w)] = u
    BY <1>4, <1>5, <1>6, <1>7, <1>8, SaidMore
  <1>12. q \in P!Places
    <2>1. m \in Nat BY <1>8
    <2>2. QED BY <1>9, <1>11, <2>1, Same DEF P!Places
  <1>13. PICK f : f = Append(r, q) OBVIOUS
  <1>14. /\ f \in Seq(P!Places) /\ f # <<>> /\ Len(f) = n + 1 /\ f[n + 1] = q
         /\ \A k \in 1..n : f[k] = r[k]
    BY <1>5, <1>12, <1>13
  <1>15. ASSUME NEW k \in 1..Len(f) - 1 PROVE P!Leads(t, f[k], f[k + 1])
    <2>1. k \in 1..n /\ f[k] = r[k] BY <1>6, <1>14
    <2>2. CASE k < n
      <3>1. k + 1 \in 1..n /\ k \in 1..n - 1 BY <1>6, <2>1, <2>2
      <3>2. f[k + 1] = r[k + 1] BY <1>14, <3>1
      <3>3. P!Leads(s, r[k], r[k + 1]) BY <1>4, <1>5, <3>1 DEF P!IsReading
      <3>4. PICK c, d : c = r[k] /\ d = r[k + 1] OBVIOUS
      <3>5. c \in P!Places /\ d \in P!Places BY <1>5, <2>1, <3>1, <3>4
      <3>6. c.at \in 1..Len(b) + 1 /\ d.at \in 1..Len(b) + 1 BY <1>4, <1>5, <2>1, <3>1, <3>4
      <3>7. d.unit \in CodePoint BY <3>5, Same DEF P!Places
      <3>8. P!Piece(s, c.at, d.at, d.unit, d.escaped) BY <3>3, <3>4 DEF P!Leads
      <3>9. PICK i, j, a, g : i = c.at /\ j = d.at /\ a = d.unit /\ g = d.escaped OBVIOUS
      <3>10. i \in Nat \ {0} /\ j \in Nat /\ j <= Len(b) + 1 /\ a \in CodePoint
        BY <3>6, <3>7, <3>9
      <3>11. P!Piece(b \o y, i, j, a, g) BY <1>2, <3>8, <3>9
      <3>12. Len(y) <= Len(z) BY <1>1
      <3>13. P!Piece(b \o z, i, j, a, g) BY <1>1, <3>10, <3>11, <3>12, PieceKept
      <3>14. P!Piece(t, c.at, d.at, d.unit, d.escaped) BY <1>2, <3>9, <3>13
      <3>15. P!Leads(t, c, d) BY <3>3, <3>4, <3>14 DEF P!Leads
      <3>16. QED BY <2>1, <3>2, <3>4, <3>15
    <2>3. CASE k = n
      <3>1. f[k] = p /\ f[k + 1] = q BY <1>5, <1>14, <2>1, <2>3
      <3>2. P!Piece(t, p.at, q.at, q.unit, q.escaped) BY <1>0, <1>2, <1>7, <1>8, <1>10
      <3>3. q.said = IF P!Paired(p, q)
                     THEN [p.said EXCEPT ![Len(p.said)] = P!FromUtf16(p.unit, q.unit)]
                     ELSE Append(p.said, q.unit)
        BY <1>8, <1>10 DEF P!Paired, SaidAfter
      <3>4. QED BY <3>1, <3>2, <3>3 DEF P!Leads
    <2>4. QED BY <1>6, <2>1, <2>2, <2>3
  <1>16. P!IsReading(t, 2, f)
    <2>1. f[1] = r[1] BY <1>6, <1>14
    <2>2. QED BY <1>4, <1>14, <1>15, <2>1 DEF P!IsReading
  <1>17. PICK a : a = b \o x OBVIOUS
  <1>18. a \in Seq(Byte) /\ Len(a) = Len(b) + Len(x) /\ m = Len(a) + 1 BY <1>8, <1>17
  <1>19. ASSUME NEW k \in 1..Len(f) PROVE f[k].at \in 1..Len(a) + 1
    <2>1. CASE k \in 1..n
      <3>1. f[k].at \in 1..Len(b) + 1 BY <1>4, <1>5, <1>14, <2>1
      <3>2. QED BY <1>18, <3>1
    <2>2. CASE k = n + 1 BY <1>10, <1>14, <1>18, <2>2
    <2>3. QED BY <1>6, <1>14, <2>1, <2>2
  <1>20. f[Len(f)] = q BY <1>14
  <1>21. P!EndOf(f) = Len(a) + 1 BY <1>10, <1>18, <1>20 DEF P!EndOf
  <1>22. P!IsReading(a \o <<34, 0>>, 2, f) BY <1>3, <1>16, <1>17
  <1>23. ReadSoFar(a, v \o Utf16(u))
    BY <1>10, <1>11, <1>14, <1>19, <1>20, <1>21, <1>22, Zenon DEF ReadSoFar
  <1>24. QED BY <1>17, <1>23

\* The closing quote.
LEMMA ReadAll ==
  ASSUME NEW b \in Seq(Byte), Len(b) > 0, b[1] = 34, NEW v, ReadSoFar(b, v)
  PROVE  \E r \in Seq(P!Places) :
           /\ P!Describes(<<r>>, b \o <<34, 0>>, TRUE)
           /\ InUtf16(r[Len(r)].said) = v
PROOF
  <1>1. PICK r \in Seq(P!Places) :
          /\ P!IsReading(b \o <<34, 0>>, 2, r) /\ P!EndOf(r) = Len(b) + 1
          /\ InUtf16(r[Len(r)].said) = v
    BY DEF ReadSoFar
  <1>2. PICK s, n, R : s = b \o <<34, 0>> /\ n = Len(b) /\ R = <<r>> OBVIOUS
  <1>3. s[1] = 34 /\ s[n + 1] = 34 /\ Len(s) = n + 2 /\ n \in Nat BY <1>2
  <1>4. R \in Seq(Seq(P!Places)) /\ R # <<>> /\ Len(R) = 1 /\ R[1] = r BY <1>2
  <1>5. P!IsReading(s, 2, R[1]) /\ P!EndOf(R[Len(R)]) = n + 1 BY <1>1, <1>2, <1>4
  <1>6. P!AreReadings(s, R) BY <1>3, <1>4, <1>5 DEF P!AreReadings
  <1>7. P!Describes(R, s, TRUE) BY <1>3, <1>5, <1>6 DEF P!Describes
  <1>8. QED BY <1>1, <1>2, <1>7

-----------------------------------------------------------------------------
(* Reading what is written, item by item. *)

LEMMA Behind ==
  ASSUME NEW S, NEW a \in Seq(S), NEW b \in Seq(S)
  PROVE  /\ a \o b \in Seq(S) /\ Len(a) \in Nat /\ Len(b) \in Nat /\ Len(a \o b) = Len(a) + Len(b)
         /\ \A k \in 1..Len(a) : (a \o b)[k] = a[k]
         /\ \A k \in 1..Len(b) : (a \o b)[Len(a) + k] = b[k]
PROOF OBVIOUS

LEMMA Associative ==
  ASSUME NEW a \in Seq(Byte), NEW b \in Seq(Byte), NEW c \in Seq(Byte)
  PROVE  (a \o b) \o c = a \o (b \o c)
PROOF OBVIOUS

LEMMA TwoOf == ASSUME NEW S, NEW p \in S, NEW q \in S PROVE <<p, q>> = <<p>> \o <<q>>
PROOF
  <1>0. <<p>> \in Seq(S) /\ <<q>> \in Seq(S) /\ <<p, q>> \in Seq(S) OBVIOUS
  <1>1. PICK e \in Seq(S), f \in Seq(S), g \in Seq(S) : e = <<p>> /\ f = <<q>> /\ g = <<p, q>>
    BY <1>0
  <1>2. PICK h : h = e \o f OBVIOUS
  <1>3. h \in Seq(S) /\ Len(h) = Len(e) + Len(f)
        /\ (\A k \in 1..Len(e) : h[k] = e[k]) /\ (\A k \in 1..Len(f) : h[Len(e) + k] = f[k])
    BY <1>2, Behind
  <1>4. Len(e) = 1 /\ e[1] = p /\ Len(f) = 1 /\ f[1] = q /\ Len(g) = 2 /\ g[1] = p /\ g[2] = q
    BY <1>1
  <1>5. Len(h) = 2 /\ h[1] = p /\ h[2] = q BY <1>3, <1>4
  <1>6. \A k \in 1..2 : h[k] = g[k] BY <1>4, <1>5
  <1>7. h = g BY <1>3, <1>4, <1>5, <1>6
  <1>8. QED BY <1>1, <1>2, <1>7

LEMMA Amid ==
  ASSUME NEW b \in Seq(Byte), NEW x \in Seq(Byte), NEW y \in Seq(Byte)
  PROVE  /\ Len(b) \in Nat /\ Len(b \o (x \o y)) = Len(b) + Len(x) + Len(y)
         /\ b \o (x \o y) \in Seq(Byte)
         /\ \A k \in 1..Len(x) : (b \o (x \o y))[Len(b) + k] = x[k]
PROOF
  <1>1. PICK z : z = x \o y OBVIOUS
  <1>2. z \in Seq(Byte) /\ Len(x) \in Nat /\ Len(y) \in Nat /\ Len(z) = Len(x) + Len(y)
        /\ \A k \in 1..Len(x) : z[k] = x[k]
    BY <1>1, Behind
  <1>3. Len(b) \in Nat /\ b \o z \in Seq(Byte) /\ Len(b \o z) = Len(b) + Len(z)
        /\ \A k \in 1..Len(z) : (b \o z)[Len(b) + k] = z[k]
    <2>1. z \in Seq(Byte) BY <1>2
    <2>2. QED BY <2>1, Behind
  <1>4. \A k \in 1..Len(x) : k \in 1..Len(z) BY <1>2
  <1>5. QED BY <1>1, <1>2, <1>3, <1>4

\* A code point as it is, ...
LEMMA RawRead ==
  ASSUME NEW b \in Seq(Byte), NEW v, ReadSoFar(b, v), NEW u \in CodePoint,
         u >= 32, u # 34, u # 92
  PROVE  ReadSoFar(b \o Utf8(u), v \o Utf16(u))
PROOF
  <1>1. PICK x \in Seq(Byte) : x = Utf8(u) BY Coded
  <1>2. Len(x) \in Nat /\ Len(x) > 0 BY <1>1, Coded
  <1>3. PICK y : y = <<34, 0>> OBVIOUS
  <1>4. y \in Seq(Byte) /\ Len(y) = 2
    <2>1. 34 \in Byte /\ 0 \in Byte BY DEF Byte
    <2>2. QED BY <1>3, <2>1
  <1>5. PICK s, i, j : s = b \o (x \o y) /\ i = Len(b) + 1 /\ j = Len(b) + Len(x) + 1 OBVIOUS
  <1>6. Len(b) \in Nat /\ Len(s) = Len(b) + Len(x) + 2 /\ s \in Seq(Byte)
        /\ \A k \in 1..Len(x) : s[Len(b) + k] = x[k]
    <2>1. y \in Seq(Byte) BY <1>4
    <2>2. Len(b) \in Nat /\ Len(s) = Len(b) + Len(x) + Len(y) /\ s \in Seq(Byte)
          /\ \A k \in 1..Len(x) : s[Len(b) + k] = x[k]
      BY <1>5, <2>1, Amid
    <2>3. QED BY <1>4, <2>2
  <1>7. SubSeq(s, i, j - 1) = x
    <2>1. PICK h, n : h = j - 1 /\ n = Len(x) OBVIOUS
    <2>2. h \in Nat /\ i \in Nat /\ h - i + 1 = n /\ n \in Nat BY <1>2, <1>5, <1>6, <2>1
    <2>3. SubSeq(s, i, h) = [k \in 1..n |-> s[i + k - 1]] BY <1>6, <2>2
    <2>4. \A k \in 1..n : s[i + k - 1] = x[k]
      <3>1. ASSUME NEW k \in 1..n PROVE s[i + k - 1] = x[k]
        <4>1. i + k - 1 = Len(b) + k BY <1>5, <1>6, <2>2
        <4>2. QED BY <1>6, <2>1, <4>1
      <3>2. QED BY <3>1
    <2>5. x = [k \in 1..n |-> x[k]] BY <2>1
    <2>6. QED BY <2>1, <2>3, <2>4, <2>5
  <1>8. /\ j <= Len(s) /\ j = i + Len(x) BY <1>2, <1>5, <1>6
  <1>9. x = P!Utf8(u) BY <1>1, Same
  <1>10. P!Piece(s, i, j, u, FALSE)
    <2>1. u >= 32 /\ u \notin {34, 92} OBVIOUS
    <2>2. j = i + Len(P!Utf8(u)) /\ SubSeq(s, i, j - 1) = P!Utf8(u) BY <1>7, <1>8, <1>9
    <2>3. QED BY <1>8, <2>1, <2>2, SMT DEF P!Piece
  <1>11. QED BY <1>1, <1>2, <1>3, <1>5, <1>10, ReadMore

\* ... as a backslash and a letter, ...
LEMMA ShortRead ==
  ASSUME NEW b \in Seq(Byte), NEW v, ReadSoFar(b, v), NEW u \in CodePoint, NEW l \in Byte,
         <<l, u>> \in P!Shorts
  PROVE  ReadSoFar(b \o <<92, l>>, v \o Utf16(u))
PROOF
  <1>1. PICK x : x = <<92, l>> OBVIOUS
  <1>2. 92 \in Byte /\ 34 \in Byte /\ 0 \in Byte BY DEF Byte
  <1>3. x \in Seq(Byte) /\ Len(x) = 2 /\ x[1] = 92 /\ x[2] = l BY <1>1, <1>2
  <1>4. PICK y : y = <<34, 0>> OBVIOUS
  <1>5. y \in Seq(Byte) /\ Len(y) = 2 BY <1>2, <1>4
  <1>6. PICK s, i, j : s = b \o (x \o y) /\ i = Len(b) + 1 /\ j = Len(b) + Len(x) + 1 OBVIOUS
  <1>7. Len(b) \in Nat /\ Len(s) = Len(b) + 4 /\ s[Len(b) + 1] = 92 /\ s[Len(b) + 2] = l
    <2>1. PICK z : z = x \o y OBVIOUS
    <2>2. z \in Seq(Byte) /\ Len(z) = 4 /\ z[1] = 92 /\ z[2] = l
      <3>1. 1 \in 1..Len(x) /\ 2 \in 1..Len(x) BY <1>3
      <3>2. x \in Seq(Byte) /\ y \in Seq(Byte) BY <1>3, <1>5
      <3>3. z \in Seq(Byte) /\ Len(z) = Len(x) + Len(y) /\ \A k \in 1..Len(x) : z[k] = x[k]
        BY <2>1, <3>2, Behind
      <3>4. QED BY <1>3, <1>5, <3>1, <3>3
    <2>3. s = b \o z BY <1>6, <2>1
    <2>4. 1 \in 1..Len(z) /\ 2 \in 1..Len(z) BY <2>2
    <2>5. z \in Seq(Byte) BY <2>2
    <2>6. /\ s \in Seq(Byte) /\ Len(b) \in Nat /\ Len(s) = Len(b) + Len(z)
            /\ \A k \in 1..Len(z) : s[Len(b) + k] = z[k]
      BY <2>3, <2>5, Behind
    <2>7. QED BY <2>2, <2>4, <2>6
  <1>8. j <= Len(s) /\ j = i + 2 /\ i + 1 = Len(b) + 2 BY <1>3, <1>6, <1>7
  <1>9. s[i] = 92 /\ s[i + 1] = l BY <1>6, <1>7, <1>8
  <1>10. P!Piece(s, i, j, u, FALSE) BY <1>8, <1>9, SMT DEF P!Piece
  <1>11. Len(x) > 0 BY <1>3
  <1>12. QED BY <1>1, <1>3, <1>4, <1>6, <1>10, <1>11, ReadMore

LEMMA DigitIs ==
  ASSUME NEW d \in Nat, d < 16
  PROVE  HexDigit(d) \in P!Digits(d) /\ HexDigit(d) \in Byte
PROOF
  <1>1. CASE d < 10 BY <1>1 DEF HexDigit, P!Digits, Byte
  <1>2. CASE ~(d < 10) BY <1>2 DEF HexDigit, P!Digits, Byte
  <1>3. QED BY <1>1, <1>2

\* ... or as \uXXXX.
LEMMA HexRead ==
  ASSUME NEW b \in Seq(Byte), NEW v, ReadSoFar(b, v), NEW u \in Nat, u <= MaxUnit
  PROVE  ReadSoFar(b \o Bytes(Hex(u)), v \o Utf16(u))
PROOF
  <1>1. PICK d1, d2, d3, d4 :
          d1 = u \div 4096 /\ d2 = (u \div 256) % 16 /\ d3 = (u \div 16) % 16 /\ d4 = u % 16
    OBVIOUS
  <1>2. d1 \in Nat /\ d1 < 16 /\ d2 \in Nat /\ d2 < 16 /\ d3 \in Nat /\ d3 < 16
        /\ d4 \in Nat /\ d4 < 16
    BY <1>1, SMT DEF MaxUnit
  <1>3. PICK e1, e2, e3, e4 \in Byte :
          /\ e1 = HexDigit(d1) /\ e1 \in P!Digits(d1) /\ e2 = HexDigit(d2) /\ e2 \in P!Digits(d2)
          /\ e3 = HexDigit(d3) /\ e3 \in P!Digits(d3) /\ e4 = HexDigit(d4) /\ e4 \in P!Digits(d4)
    BY <1>2, DigitIs
  <1>4. PICK x : x = <<92, 117, e1, e2, e3, e4>> OBVIOUS
  <1>5. Bytes(Hex(u)) = x
    <2>1. Hex(u)[1] = "hex" /\ Hex(u)[2] = u BY DEF Hex
    <2>2. QED BY <1>1, <1>3, <1>4, <2>1 DEF Bytes
  <1>6. 92 \in Byte /\ 117 \in Byte /\ 34 \in Byte /\ 0 \in Byte BY DEF Byte
  <1>7. /\ x \in Seq(Byte) /\ Len(x) = 6 /\ x[1] = 92 /\ x[2] = 117 /\ x[3] = e1 /\ x[4] = e2
        /\ x[5] = e3 /\ x[6] = e4
    BY <1>4, <1>6
  <1>8. PICK y : y = <<34, 0>> OBVIOUS
  <1>9. y \in Seq(Byte) /\ Len(y) = 2 BY <1>6, <1>8
  <1>10. PICK z : z = x \o y OBVIOUS
  <1>11. /\ z \in Seq(Byte) /\ Len(z) = 8 /\ z[1] = 92 /\ z[2] = 117 /\ z[3] = e1 /\ z[4] = e2
         /\ z[5] = e3 /\ z[6] = e4
    <2>1. \A k \in 1..6 : k \in 1..Len(x) BY <1>7
    <2>2. z \in Seq(Byte) /\ Len(z) = 8 /\ \A k \in 1..6 : z[k] = x[k]
      <3>1. x \in Seq(Byte) /\ y \in Seq(Byte) BY <1>7, <1>9
      <3>2. z \in Seq(Byte) /\ Len(z) = Len(x) + Len(y) /\ \A k \in 1..Len(x) : z[k] = x[k]
        BY <1>10, <3>1, Behind
      <3>3. QED BY <1>7, <1>9, <2>1, <3>2
    <2>3. QED BY <1>7, <2>2
  <1>12. PICK s, i, j, n : s = b \o z /\ i = Len(b) + 1 /\ j = Len(b) + Len(x) + 1 /\ n = Len(b)
    OBVIOUS
  <1>13. /\ n \in Nat /\ Len(s) = n + 8 /\ \A k \in 1..8 : s[n + k] = z[k]
    <2>1. Len(z) = 8 BY <1>11
    <2>2. z \in Seq(Byte) BY <1>11
    <2>3. /\ s \in Seq(Byte) /\ Len(b) \in Nat /\ Len(s) = Len(b) + Len(z)
            /\ \A k \in 1..Len(z) : s[Len(b) + k] = z[k]
      BY <1>12, <2>2, Behind
    <2>4. QED BY <1>12, <2>1, <2>3
  <1>14. /\ j <= Len(s) /\ j = i + 6 /\ i = n + 1 /\ i + 1 = n + 2 /\ i + 2 = n + 3 /\ i + 3 = n + 4
         /\ i + 4 = n + 5 /\ i + 5 = n + 6
    BY <1>7, <1>12, <1>13
  <1>15. /\ s[i] = 92 /\ s[i + 1] = 117 /\ s[i + 2] = e1 /\ s[i + 3] = e2 /\ s[i + 4] = e3
         /\ s[i + 5] = e4
    BY <1>11, <1>13, <1>14
  <1>16. P!Hexes(s, i, u) BY <1>1, <1>3, <1>15 DEF P!Hexes
  <1>17. P!Piece(s, i, j, u, TRUE)
    <2>1. u < 65536 BY DEF MaxUnit
    <2>2. QED BY <1>14, <1>16, <2>1, SMT DEF P!Piece
  <1>18. u \in CodePoint
    <2>1. u <= MaxCodePoint BY DEF MaxUnit, MaxCodePoint
    <2>2. QED BY <2>1, Same, P!CodePointsAre
  <1>19. Len(x) > 0 BY <1>7
  <1>20. QED BY <1>5, <1>7, <1>8, <1>10, <1>12, <1>17, <1>18, <1>19, ReadMore

\* A byte that is a character.
LEMMA ItemRead ==
  ASSUME NEW b \in Seq(Byte), NEW v, ReadSoFar(b, v), NEW u \in Nat, u < 128
  PROVE  ReadSoFar(b \o Bytes(Item(u)), v \o Utf16(u))
PROOF
  <1>1. u \in CodePoint
    <2>1. u <= MaxCodePoint BY DEF MaxCodePoint
    <2>2. QED BY <2>1, Same, P!CodePointsAre
  <1>2. PICK item : item = Item(u) OBVIOUS
  <1>3. CASE item = Raw(u)
    <2>1. u \notin Letters /\ ~(u < 32)
      <3>1. Raw(u) # Short(u) /\ Raw(u) # Hex(u) BY DEF Raw, Short, Hex
      <3>2. QED BY <1>2, <1>3, <3>1 DEF Item
    <2>2. u >= 32 /\ u # 34 /\ u # 92 BY <2>1 DEF Letters
    <2>3. Utf8(u) = <<u>> BY Same, P!Forms
    <2>4. Bytes(item) = Utf8(u) BY <1>3, <2>3 DEF Bytes, Raw
    <2>5. QED BY <1>1, <1>2, <2>2, <2>4, RawRead
  <1>4. CASE item = Short(u)
    <2>1. u \in Letters \/ u = 47
      <3>1. Short(u) # Raw(u) /\ Short(u) # Hex(u) BY DEF Raw, Short, Hex
      <3>2. QED BY <1>2, <1>4, <3>1 DEF Item
    <2>2. <<Letter(u), u>> \in P!Shorts /\ Letter(u) \in Byte
      BY <2>1 DEF Letters, Letter, P!Shorts, Byte
    <2>3. Bytes(item) = <<92, Letter(u)>> BY <1>4 DEF Bytes, Short
    <2>4. QED BY <1>1, <1>2, <2>2, <2>3, ShortRead
  <1>5. CASE item = Hex(u)
    <2>1. u <= MaxUnit BY DEF MaxUnit
    <2>2. QED BY <1>2, <1>5, <2>1, HexRead
  <1>6. QED BY <1>2, <1>3, <1>4, <1>5 DEF Item

LEMMA SpelledOne ==
  ASSUME NEW item \in Items
  PROVE  Spelled(<<item>>) = Bytes(item)
PROOF
  <1>1. PICK e : e = <<>> OBVIOUS
  <1>2. e \in Seq(Items) /\ Append(e, item) = <<item>> BY <1>1
  <1>3. Bytes(item) \in Seq(Byte) BY BytesType
  <1>4. Spelled(<<item>>) = Spelled(e) \o Bytes(item) BY <1>2, SpelledAppend
  <1>5. Spelled(e) = <<>> BY <1>1, Nothing
  <1>6. <<>> \o Bytes(item) = Bytes(item) BY <1>3
  <1>7. QED BY <1>4, <1>5, <1>6

LEMMA ReadUnits ==
  ASSUME NEW b, NEW v, ReadSoFar(b, v)
  PROVE  v \in Seq(Nat)
PROOF
  <1>1. PICK r \in Seq(P!Places) : r # <<>> /\ InUtf16(r[Len(r)].said) = v
    BY DEF ReadSoFar, P!IsReading
  <1>2. r[Len(r)] \in P!Places BY <1>1
  <1>3. r[Len(r)].said \in Seq(CodePoint) BY <1>2, Same DEF P!Places
  <1>4. 0 \in CodePoint BY Same, P!CodePointsAre DEF MaxCodePoint
  <1>5. QED BY <1>1, <1>3, <1>4, Utf16Append

LEMMA TwoMore ==
  ASSUME NEW v \in Seq(Nat), NEW h \in Nat, NEW l \in Nat
  PROVE  (v \o <<h>>) \o <<l>> = v \o <<h, l>>
PROOF 
  <1>1. PICK a, b : a = (v \o <<h>>) \o <<l>> /\ b = v \o <<h, l>> OBVIOUS
  <1>2. a \in Seq(Nat) /\ b \in Seq(Nat) /\ Len(a) = Len(v) + 2 /\ Len(b) = Len(v) + 2 BY <1>1
  <1>3. \A k \in 1..Len(v) : a[k] = v[k] /\ b[k] = v[k] BY <1>1
  <1>4. a[Len(v)+1] = h /\ b[Len(v)+1] = h /\ a[Len(v)+2] = l /\ b[Len(v)+2] = l BY <1>1
  <1>5. \A k \in 1..Len(v)+2 : a[k] = b[k] BY <1>3, <1>4
  <1>6. a = b BY <1>2, <1>5
  <1>7. QED BY <1>1, <1>6

\* A code point in one or two units.
LEMMA UnitsRead ==
  ASSUME NEW b \in Seq(Byte), NEW v, ReadSoFar(b, v), NEW u \in CodePoint
  PROVE  ReadSoFar(b \o Spelled(Units(u)), v \o Utf16(u))
PROOF
  <1>1. u \in Nat /\ u <= MaxCodePoint BY Coded
  <1>2. CASE u < 65536
    <2>1. u <= MaxUnit BY <1>1, <1>2 DEF MaxUnit
    <2>2. Hex(u) \in Items BY <1>1, <2>1, ItemsAre
    <2>3. Units(u) = <<Hex(u)>> BY <1>1, <1>2 DEF Units
    <2>4. Spelled(Units(u)) = Bytes(Hex(u)) BY <2>2, <2>3, SpelledOne
    <2>5. QED BY <1>1, <2>1, <2>4, HexRead
  <1>3. CASE ~(u < 65536)
    <2>1. PICK h, l : h = ((u - 65536) \div 1024) + 55296 /\ l = (u % 1024) + 56320 OBVIOUS
    <2>2. /\ h \in Nat /\ l \in Nat /\ h < 65536 /\ l < 65536
          /\ (u - 65536) % 1024 = u % 1024
      BY <1>1, <1>3, <2>1, SMT DEF MaxCodePoint
    <2>3. Units(u) = <<Hex(h), Hex(l)>> BY <1>1, <1>3, <2>1 DEF Units, Pair
    <2>4. Utf16(u) = <<h, l>> BY <1>3, <2>1, <2>2 DEF Utf16
    <2>5. Utf16(h) = <<h>> /\ Utf16(l) = <<l>> BY <2>2 DEF Utf16
    <2>6. h \in Nat /\ l \in Nat /\ h <= MaxUnit /\ l <= MaxUnit BY <2>2 DEF MaxUnit
    <2>7. Hex(h) \in Items /\ Hex(l) \in Items BY <2>6, ItemsAre
    <2>8. PICK x \in Seq(Byte), y \in Seq(Byte) : x = Bytes(Hex(h)) /\ y = Bytes(Hex(l))
      BY <2>7, BytesType
    <2>9. Spelled(Units(u)) = x \o y
      <3>1. <<Hex(h)>> \in Seq(Items) /\ Units(u) = Append(<<Hex(h)>>, Hex(l)) BY <2>3, <2>7
      <3>2. QED BY <2>7, <2>8, <3>1, SpelledAppend, SpelledOne
    <2>10. ReadSoFar(b \o x, v \o <<h>>) BY <2>5, <2>8, <2>6, HexRead
    <2>11. PICK a, w : a = b \o x /\ w = v \o <<h>> OBVIOUS
    <2>12. a \in Seq(Byte) /\ ReadSoFar(a, w) BY <2>8, <2>10, <2>11
    <2>13. ReadSoFar(a \o y, w \o <<l>>) BY <2>5, <2>8, <2>12, <2>6, HexRead
    <2>14. a \o y = b \o (x \o y) BY <2>8, <2>11
    <2>15. v \in Seq(Nat) BY ReadUnits
    <2>16. w \o <<l>> = v \o <<h, l>>
      <3>1. h \in Nat /\ l \in Nat BY <2>6
      <3>2. (v \o <<h>>) \o <<l>> = v \o <<h, l>> BY <2>15, <3>1, TwoMore
      <3>3. QED BY <2>11, <3>2
    <2>17. QED BY <2>4, <2>9, <2>13, <2>14, <2>16
  <1>4. QED BY <1>2, <1>3

-----------------------------------------------------------------------------
(* Escaping, code point by code point. *)

\* Where the bytes of the code point behind the first m of s are.
LEMMA NextBytes ==
  ASSUME NEW s \in Seq(CodePoint), NEW m \in 0..Len(s) - 1
  PROVE  /\ s[m + 1] \in CodePoint
         /\ \E n \in Nat : n = Len(InUtf8(Take(s, m)))
         /\ Len(InUtf8(Take(s, m + 1))) = Len(InUtf8(Take(s, m))) + Len(Utf8(s[m + 1]))
         /\ Len(InUtf8(Take(s, m))) + Len(Utf8(s[m + 1])) <= Len(InUtf8(s))
         /\ \A k \in 1..Len(Utf8(s[m + 1])) :
              InUtf8(s)[Len(InUtf8(Take(s, m))) + k] = Utf8(s[m + 1])[k]
PROOF
  <1>1. m \in 0..Len(s) /\ m + 1 \in 0..Len(s) /\ m + 1 \in 1..Len(s) OBVIOUS
  <1>2. PICK c \in CodePoint : c = s[m + 1] BY <1>1
  <1>3. PICK x \in Seq(Byte) : x = Utf8(c) BY Coded
  <1>4. PICK a \in Seq(CodePoint) : a = Take(s, m) BY <1>1, Taken
  <1>5. Take(s, m + 1) = Append(a, c) BY <1>2, <1>4, Taken
  <1>6. PICK p \in Seq(Byte) : p = InUtf8(a) BY <1>2, <1>4, Utf8Append
  <1>7. PICK q : q = p \o x OBVIOUS
  <1>8. q = InUtf8(Take(s, m + 1)) BY <1>3, <1>4, <1>5, <1>6, <1>7, Utf8Append
  <1>9. Len(p) \in Nat /\ Len(x) \in Nat /\ Len(q) = Len(p) + Len(x)
        /\ \A k \in 1..Len(x) : q[Len(p) + k] = x[k]
    BY <1>7, Behind
  <1>10. Len(q) <= Len(InUtf8(s)) /\ \A i \in 1..Len(q) : InUtf8(s)[i] = q[i]
    BY <1>1, <1>8, TakenBegins
  <1>11. ASSUME NEW k \in 1..Len(x) PROVE InUtf8(s)[Len(p) + k] = x[k]
    <2>1. Len(p) + k \in 1..Len(q) BY <1>9
    <2>2. QED BY <1>9, <1>10, <2>1
  <1>12. QED BY <1>2, <1>3, <1>4, <1>6, <1>8, <1>9, <1>10, <1>11

\* w is what is written, with the quote before it, when the loop is at i: the
\* first m code points of s, which b spells, and j bytes of the next.
Progress(s, i, ascii, w, m, j, b) ==
  /\ m \in 0..Len(s) /\ j \in Nat
  /\ b \in Seq(Byte) /\ Len(b) > 0 /\ b[1] = 34
  /\ ReadSoFar(b, InUtf16(Take(s, m)))
  /\ i = Len(InUtf8(Take(s, m))) + 1 + j
  /\ \/ j = 0 /\ w = b
     \/ /\ ~ascii /\ m < Len(s) /\ ~(s[m + 1] < 128) /\ j < Len(Utf8(s[m + 1]))
        /\ w = b \o Take(Utf8(s[m + 1]), j)

\* What is written of a string that is UTF-8 reads as its code points.
WrittenOut == <<34>> \o Spelled(out)
Written ==
  text.wellFormed =>
    /\ \E m, j, b : Progress(text.says, io, options.forceASCII, WrittenOut, m, j, b)
    /\ pc = "done" => io = end

\* One more code point.
LEMMA ProgressOne ==
  ASSUME NEW s \in Seq(CodePoint), NEW i, NEW ascii, NEW w, NEW m, NEW j, NEW b,
         Progress(s, i, ascii, w, m, j, b), m < Len(s),
         NEW y \in Seq(Byte),
         ReadSoFar(b \o y, InUtf16(Take(s, m)) \o Utf16(s[m + 1]))
  PROVE  Progress(s, Len(InUtf8(Take(s, m))) + 1 + Len(Utf8(s[m + 1])), ascii, b \o y, m + 1, 0, b \o y)
PROOF
  <1>1. m \in 0..Len(s) - 1 /\ b \in Seq(Byte) /\ Len(b) > 0 /\ b[1] = 34 BY DEF Progress
  <1>2. PICK c \in CodePoint : c = s[m + 1] BY <1>1, NextBytes
  <1>3. PICK a \in Seq(CodePoint) : a = Take(s, m) BY <1>1, Taken
  <1>4. Take(s, m + 1) = Append(a, c) BY <1>1, <1>2, <1>3, Taken
  <1>5. InUtf16(Take(s, m + 1)) = InUtf16(a) \o Utf16(c) BY <1>2, <1>3, <1>4, Utf16Append
  <1>6. PICK e : e = b \o y OBVIOUS
  <1>7. e \in Seq(Byte) /\ Len(e) > 0 /\ e[1] = 34 BY <1>1, <1>6
  <1>8. ReadSoFar(e, InUtf16(Take(s, m + 1))) BY <1>2, <1>3, <1>5, <1>6
  <1>9. m + 1 \in 0..Len(s) BY <1>1
  <1>10. Len(InUtf8(Take(s, m))) + 1 + Len(Utf8(s[m + 1])) = Len(InUtf8(Take(s, m + 1))) + 1 + 0
    <2>1. PICK n : n \in Nat /\ n = Len(InUtf8(Take(s, m))) BY <1>1, NextBytes
    <2>2. PICK l : l \in Nat /\ l = Len(Utf8(s[m + 1])) BY <1>2, Coded
    <2>3. Len(InUtf8(Take(s, m + 1))) = n + l BY <1>1, <2>1, <2>2, NextBytes
    <2>4. n + 1 + l = (n + l) + 1 + 0 BY <2>1, <2>2
    <2>5. QED BY <2>1, <2>2, <2>3, <2>4, Zenon
  <1>11. QED BY <1>6, <1>7, <1>8, <1>9, <1>10, Zenon DEF Progress

\* Where the loop is.
LEMMA ProgressAt ==
  ASSUME NEW s \in Seq(CodePoint), NEW i, NEW ascii, NEW w, NEW m, NEW j, NEW b,
         Progress(s, i, ascii, w, m, j, b)
  PROVE  /\ i = Len(InUtf8(s)) + 1 => m = Len(s) /\ j = 0 /\ w = b
         /\ i < Len(InUtf8(s)) + 1 =>
              /\ m \in 0..Len(s) - 1 /\ j < Len(Utf8(s[m + 1]))
              /\ InUtf8(s)[i] = Utf8(s[m + 1])[j + 1]
PROOF
  <1>1. m \in 0..Len(s) /\ j \in Nat /\ i = Len(InUtf8(Take(s, m))) + 1 + j
        /\ ((j = 0 /\ w = b) \/ (m < Len(s) /\ j < Len(Utf8(s[m + 1]))))
    BY DEF Progress
  <1>2. CASE m = Len(s)
    <2>1. Take(s, m) = s BY <1>2, Taken
    <2>2. Len(InUtf8(s)) \in Nat
      <3>1. InUtf8(s) \in Seq(Byte) BY <1>1, TakenBegins
      <3>2. QED BY <3>1
    <2>3. j = 0 /\ w = b BY <1>1, <1>2
    <2>4. QED BY <1>1, <1>2, <2>1, <2>2, <2>3
  <1>3. CASE m # Len(s)
    <2>1. m \in 0..Len(s) - 1 BY <1>1, <1>3
    <2>2. PICK c \in CodePoint : c = s[m + 1] BY <2>1, NextBytes
    <2>3. PICK l \in Nat \ {0} : l = Len(Utf8(c)) BY Coded
    <2>4. PICK n \in Nat : n = Len(InUtf8(Take(s, m))) BY <2>1, NextBytes
    <2>5. PICK z : z = Len(InUtf8(s)) OBVIOUS
    <2>6. z \in Nat
      <3>1. InUtf8(s) \in Seq(Byte) BY <1>1, TakenBegins
      <3>2. QED BY <2>5, <3>1
    <2>7. n + l <= z /\ \A k \in 1..l : InUtf8(s)[n + k] = Utf8(c)[k]
      BY <2>1, <2>2, <2>3, <2>4, <2>5, NextBytes
    <2>8. j < l /\ i = n + 1 + j BY <1>1, <2>2, <2>3, <2>4
    <2>9. i < z + 1 BY <1>1, <2>6, <2>7, <2>8
    <2>10. j + 1 \in 1..l /\ n + (j + 1) = i BY <1>1, <2>8
    <2>11. InUtf8(s)[i] = Utf8(c)[j + 1] BY <2>7, <2>10
    <2>12. i # z + 1 BY <1>1, <2>6, <2>8, <2>9
    <2>13. QED BY <2>1, <2>2, <2>3, <2>5, <2>8, <2>11, <2>12
  <1>4. QED BY <1>2, <1>3

\* A step that writes items.
LEMMA SpelledMore ==
  ASSUME NEW s \in Seq(Items), NEW item \in Items
  PROVE  Spelled(s \o <<item>>) = Spelled(s) \o Bytes(item)
PROOF
  <1>1. s \o <<item>> = Append(s, item) OBVIOUS
  <1>2. QED BY <1>1, SpelledAppend

LEMMA WrittenSays ==
  ASSUME TypeOK, text.wellFormed
  PROVE  /\ text.says \in Seq(CodePoint) /\ text.bytes = InUtf8(text.says)
         /\ N = Len(InUtf8(text.says)) /\ end = Len(InUtf8(text.says)) + 1
PROOF BY TextsAssumption DEF TypeOK, Meaning, N, end

LEMMA WrittenInit == Init => Written
PROOF
  <1> SUFFICES ASSUME Init, text.wellFormed PROVE Written BY DEF Written
  <1>1. TypeOK BY InitInvariant DEF IInv
  <1>2. PICK s \in Seq(CodePoint) : s = text.says BY <1>1, WrittenSays
  <1>3. pc = "escape" /\ io = 1 /\ out = <<>> BY DEF Init, Start
  <1>4. PICK b : b = <<34>> OBVIOUS
  <1>5. b \in Seq(Byte) /\ Len(b) > 0 /\ b[1] = 34
    <2>1. 34 \in Byte BY DEF Byte
    <2>2. QED BY <1>4, <2>1
  <1>6. WrittenOut = b
    <2>1. Spelled(out) = <<>> BY <1>3, Nothing
    <2>2. b \o <<>> = b BY <1>5
    <2>3. QED BY <1>4, <2>1, <2>2 DEF WrittenOut
  <1>7. InUtf16(Take(s, 0)) = <<>> /\ InUtf8(Take(s, 0)) = <<>> BY Taken, Nothing
  <1>8. Len(InUtf8(Take(s, 0))) = 0 BY <1>7
  <1>9. io = Len(InUtf8(Take(s, 0))) + 1 + 0 BY <1>3, <1>8
  <1>10. ReadSoFar(b, InUtf16(Take(s, 0))) BY <1>4, <1>7, NothingRead
  <1>11. 0 \in 0..Len(s) /\ 0 \in Nat OBVIOUS
  <1>12. Progress(s, io, options.forceASCII, WrittenOut, 0, 0, b)
    BY <1>5, <1>6, <1>9, <1>10, <1>11, Zenon DEF Progress
  <1>13. QED BY <1>2, <1>3, <1>12 DEF Written

\* The byte at io is one of the code point that is being written.
LEMMA WrittenAt ==
  ASSUME TypeOK, text.wellFormed, io < end, NEW m, NEW j, NEW b,
         Progress(text.says, io, options.forceASCII, WrittenOut, m, j, b)
  PROVE  /\ m \in 0..Len(text.says) - 1 /\ j < Len(Utf8(text.says[m + 1]))
         /\ text.says[m + 1] \in CodePoint
         /\ at(io) = Utf8(text.says[m + 1])[j + 1]
PROOF
  <1>1. PICK s \in Seq(CodePoint) : s = text.says BY WrittenSays
  <1>2. text.bytes = InUtf8(s) /\ end = Len(InUtf8(s)) + 1 /\ N = Len(InUtf8(s)) BY <1>1, WrittenSays
  <1>3. PICK i, w, a : i = io /\ w = WrittenOut /\ a = options.forceASCII OBVIOUS
  <1>4. i < Len(InUtf8(s)) + 1 /\ Progress(s, i, a, w, m, j, b) BY <1>1, <1>2, <1>3
  <1>5. m \in 0..Len(s) - 1 /\ j < Len(Utf8(s[m + 1])) /\ InUtf8(s)[i] = Utf8(s[m + 1])[j + 1]
    BY <1>4, ProgressAt
  <1>6. s[m + 1] \in CodePoint BY <1>5, NextBytes
  <1>7. i <= N BY <1>2, <1>3, Lengths DEF TypeOK
  <1>8. at(io) = InUtf8(s)[i] BY <1>2, <1>3, <1>7 DEF at, ByteAt, N
  <1>9. QED BY <1>1, <1>5, <1>6, <1>8

\* A step that writes the next code point.
LEMMA WrittenMore ==
  ASSUME TypeOK, NEW s \in Seq(CodePoint), NEW m, NEW b, NEW c \in CodePoint, NEW y \in Seq(Byte),
         NEW a, Progress(s, io, a, WrittenOut, m, 0, b), m < Len(s), c = s[m + 1],
         ReadSoFar(b \o y, InUtf16(Take(s, m)) \o Utf16(c))
  PROVE  Progress(s, io + Len(Utf8(c)), a, b \o y, m + 1, 0, b \o y)
PROOF
  <1>1. PICK i, w : i = io /\ w = WrittenOut OBVIOUS
  <1>2. Progress(s, i, a, w, m, 0, b) BY <1>1
  <1>3. Progress(s, Len(InUtf8(Take(s, m))) + 1 + Len(Utf8(s[m + 1])), a, b \o y, m + 1, 0, b \o y)
    BY <1>2, ProgressOne
  <1>4. io = Len(InUtf8(Take(s, m))) + 1 + 0 /\ m \in 0..Len(s) - 1 BY <1>1, <1>2 DEF Progress
  <1>5. PICK n \in Nat : n = Len(InUtf8(Take(s, m))) BY <1>4, NextBytes
  <1>6. PICK l \in Nat : l = Len(Utf8(c)) BY Coded
  <1>7. io + l = n + 1 + l BY <1>4, <1>5
  <1>8. QED BY <1>3, <1>5, <1>6, <1>7

LEMMA SpelledUnits ==
  ASSUME NEW s \in Seq(Items), NEW u \in CodePoint
  PROVE  /\ Spelled(Units(u)) \in Seq(Byte)
         /\ Spelled(s \o Units(u)) = Spelled(s) \o Spelled(Units(u))
PROOF
  <1>1. u \in Nat /\ u <= MaxCodePoint BY Coded
  <1>2. CASE u < 65536
    <2>1. u <= MaxUnit BY <1>1, <1>2 DEF MaxUnit
    <2>2. PICK item \in Items : item = Hex(u) BY <1>1, <2>1, ItemsAre
    <2>3. Units(u) = <<item>> BY <1>1, <1>2, <2>2 DEF Units
    <2>4. Spelled(<<item>>) = Bytes(item) BY SpelledOne
    <2>5. QED BY <2>3, <2>4, SpelledMore, BytesType
  <1>3. CASE ~(u < 65536)
    <2>1. PICK h, l : h = ((u - 65536) \div 1024) + 55296 /\ l = (u % 1024) + 56320 OBVIOUS
    <2>2. /\ h \in Nat /\ l \in Nat /\ h < 65536 /\ l < 65536
      BY <1>1, <1>3, <2>1, SMT DEF MaxCodePoint
    <2>3. Units(u) = <<Hex(h), Hex(l)>> BY <1>1, <1>3, <2>1 DEF Units, Pair
    <2>4. h <= MaxUnit /\ l <= MaxUnit BY <2>2 DEF MaxUnit
    <2>5. PICK p \in Items, q \in Items : p = Hex(h) /\ q = Hex(l) BY <2>2, <2>4, ItemsAre
    <2>6. PICK t : t = s \o <<p>> OBVIOUS
    <2>7. t \in Seq(Items) /\ s \o <<p, q>> = t \o <<q>>
      <3>1. t \in Seq(Items) /\ s \o <<p, q>> = Append(t, q) BY <2>6
      <3>2. t \o <<q>> = Append(t, q) BY <3>1
      <3>3. QED BY <3>1, <3>2
    <2>8. PICK x \in Seq(Byte), y \in Seq(Byte) : x = Bytes(p) /\ y = Bytes(q) BY BytesType
    <2>9. Spelled(t) = Spelled(s) \o x BY <2>6, <2>8, SpelledMore
    <2>10. Spelled(s \o <<p, q>>) = Spelled(t) \o y BY <2>7, <2>8, SpelledMore
    <2>11. PICK a \in Seq(Byte) : a = Spelled(s) BY <2>5, SpelledAppend
    <2>12. (a \o x) \o y = a \o (x \o y) BY <2>8, <2>11
    <2>13. Spelled(<<p, q>>) = x \o y
      <3>1. <<p>> \in Seq(Items) /\ <<p, q>> = <<p>> \o <<q>>
        <4>1. <<p>> \in Seq(Items) OBVIOUS
        <4>2. QED BY <4>1, TwoOf
      <3>2. Spelled(<<p, q>>) = Spelled(<<p>>) \o y BY <2>8, <3>1, SpelledMore
      <3>3. Spelled(<<p>>) = x BY <2>8, SpelledOne
      <3>4. QED BY <3>2, <3>3
    <2>14. x \o y \in Seq(Byte) BY <2>8
    <2>15. QED BY <2>3, <2>5, <2>9, <2>10, <2>11, <2>12, <2>13, <2>14
  <1>4. QED BY <1>2, <1>3

LEMMA OutMore ==
  ASSUME TypeOK, NEW items, NEW y \in Seq(Byte), out' = out \o items,
         Spelled(out \o items) = Spelled(out) \o y
  PROVE  WrittenOut' = WrittenOut \o y
PROOF
  <1>1. PICK x \in Seq(Byte) : x = Spelled(out)
    <2>1. PICK o \in Seq(Items) : o = out BY DEF TypeOK
    <2>2. Raw(0) \in Items BY ItemsAre DEF MaxUnit
    <2>3. QED BY <2>1, <2>2, SpelledAppend
  <1>2. Spelled(out') = x \o y BY <1>1
  <1>3. WrittenOut' = <<34>> \o (x \o y) BY <1>2 DEF WrittenOut, Spelled
  <1>4. <<34>> \o (x \o y) = (<<34>> \o x) \o y
    <2>1. 34 \in Byte BY DEF Byte
    <2>2. PICK z \in Seq(Byte) : z = <<34>>
      <3>1. PICK d : d = 34 OBVIOUS
      <3>2. <<d>> \in Seq(Byte) BY <2>1, <3>1
      <3>3. QED BY <3>1, <3>2
    <2>3. z \o (x \o y) = (z \o x) \o y OBVIOUS
    <2>4. QED BY <2>2, <2>3
  <1>5. QED BY <1>1, <1>3, <1>4 DEF WrittenOut

\* A character of ASCII.
LEMMA OneWritten ==
  ASSUME TypeOK, text.wellFormed, io < end, NEW m, NEW j, NEW b,
         Progress(text.says, io, options.forceASCII, WrittenOut, m, j, b),
         text.says[m + 1] < 128,
         io' = io + 1, out' = out \o <<Item(at(io))>>
  PROVE  Progress(text.says, io', options.forceASCII, WrittenOut', m + 1, 0, WrittenOut')
PROOF
  <1>1. PICK s \in Seq(CodePoint) : s = text.says BY WrittenSays
  <1>2. PICK a : a = options.forceASCII OBVIOUS
  <1>3. m \in 0..Len(s) - 1 /\ s[m + 1] \in CodePoint /\ at(io) = Utf8(s[m + 1])[j + 1]
    BY <1>1, WrittenAt
  <1>4. PICK c \in CodePoint : c = s[m + 1] BY <1>3
  <1>5. c < 128 /\ c \in Nat BY <1>1, <1>4, Coded
  <1>6. j = 0 /\ WrittenOut = b /\ b \in Seq(Byte) /\ ReadSoFar(b, InUtf16(Take(s, m)))
    BY <1>1, <1>4, <1>5 DEF Progress
  <1>7. Utf8(c) = <<c>> BY <1>5, Same, P!Forms
  <1>8. Len(Utf8(c)) = 1 /\ at(io) = c BY <1>3, <1>4, <1>6, <1>7
  <1>9. c <= 255 BY <1>5
  <1>10. PICK item \in Items : item = Item(c)
    <2>1. at(io) \in Nat /\ at(io) <= 255 BY <1>5, <1>8, <1>9
    <2>2. QED BY <1>8, <2>1, ItemType
  <1>11. PICK y \in Seq(Byte) : y = Bytes(item) BY BytesType
  <1>12. ReadSoFar(b \o y, InUtf16(Take(s, m)) \o Utf16(c)) BY <1>5, <1>6, <1>10, <1>11, ItemRead
  <1>13. WrittenOut' = b \o y
    <2>1. out' = out \o <<item>> BY <1>8, <1>10
    <2>2. out \in Seq(Items) BY DEF TypeOK
    <2>3. PICK o \in Seq(Items) : o = out BY <2>2
    <2>4. Spelled(o \o <<item>>) = Spelled(o) \o y BY <1>11, SpelledMore
    <2>5. Spelled(out \o <<item>>) = Spelled(out) \o y BY <2>3, <2>4
    <2>6. WrittenOut' = WrittenOut \o y BY <2>1, <2>5, OutMore
    <2>7. QED BY <1>6, <2>6
  <1>14. Progress(s, io, a, WrittenOut, m, 0, b) BY <1>1, <1>2, <1>6
  <1>15. m < Len(s) BY <1>3
  <1>16. Progress(s, io + Len(Utf8(c)), a, b \o y, m + 1, 0, b \o y)
    BY <1>4, <1>12, <1>14, <1>15, WrittenMore
  <1>17. QED BY <1>1, <1>2, <1>8, <1>13, <1>16

\* A sequence, with forceASCII.
LEMMA SequenceWritten ==
  ASSUME TypeOK, text.wellFormed, io < end, NEW m, NEW j, NEW b,
         Progress(text.says, io, options.forceASCII, WrittenOut, m, j, b),
         options.forceASCII, NEW n \in 2..4, Utflen(at(io)) = n,
         io' = io + n, out' = out \o Units(ucs(n))
  PROVE  Progress(text.says, io', options.forceASCII, WrittenOut', m + 1, 0, WrittenOut')
PROOF
  <1>1. PICK s \in Seq(CodePoint) : s = text.says BY WrittenSays
  <1>2. PICK a : a = options.forceASCII OBVIOUS
  <1>3. m \in 0..Len(s) - 1 /\ s[m + 1] \in CodePoint /\ at(io) = Utf8(s[m + 1])[j + 1]
    BY <1>1, WrittenAt
  <1>4. PICK c \in CodePoint : c = s[m + 1] BY <1>3
  <1>5. PICK x \in Seq(Byte) : x = Utf8(c) BY Coded
  <1>6. j = 0 /\ WrittenOut = b /\ b \in Seq(Byte) /\ ReadSoFar(b, InUtf16(Take(s, m)))
        /\ io = Len(InUtf8(Take(s, m))) + 1 + 0
    BY <1>1 DEF Progress
  <1>7. at(io) = x[1] BY <1>3, <1>4, <1>5, <1>6
  <1>8. ~(c < 128)
    <2>1. SUFFICES ASSUME c < 128 PROVE FALSE OBVIOUS
    <2>2. x[1] = c /\ c \in Nat BY <1>5, <2>1, Form, Coded
    <2>3. c \notin 192..223 /\ c \notin 224..239 /\ c \notin 240..247 /\ c \notin 248..253
      BY <2>1, <2>2
    <2>4. Utflen(c) = 1 BY <2>3, Zenon DEF Utflen
    <2>5. QED BY <1>7, <2>2, <2>4
  <1>9. Len(x) = n
    <2>1. SequenceLength(x[1]) = Len(x) /\ IsLead(x[1]) BY <1>5, <1>8, Form
    <2>2. Utflen(x[1]) = SequenceLength(x[1]) BY <2>1, LeadBits
    <2>3. QED BY <1>7, <2>1, <2>2
  <1>10. ucs(n) = c
    <2>1. PICK t \in Seq(Byte) : t = text.bytes BY TextsAssumption DEF TypeOK
    <2>2. t = InUtf8(s) /\ N = Len(t) BY <1>1, <2>1, WrittenSays
    <2>3. PICK p \in Nat : p = Len(InUtf8(Take(s, m))) BY <1>3, NextBytes
    <2>4. p + n <= Len(t) /\ \A k \in 1..n : t[p + k] = x[k]
      BY <1>3, <1>4, <1>5, <1>9, <2>2, <2>3, NextBytes
    <2>5. io = p + 1 BY <1>6, <2>3
    <2>6. \A k \in 0..n - 1 : ByteAt(t, io + k) = x[k + 1]
      <3>1. ASSUME NEW k \in 0..n - 1 PROVE ByteAt(t, io + k) = x[k + 1]
        <4>1. k + 1 \in 1..n /\ io + k = p + (k + 1) /\ io + k <= Len(t) BY <2>4, <2>5
        <4>2. QED BY <2>4, <4>1 DEF ByteAt
      <3>2. QED BY <3>1
    <2>7. ByteAt(t, io) = x[1]
      <3>1. 0 \in 0..n - 1 /\ io + 0 = io BY <2>5
      <3>2. ByteAt(t, io + 0) = x[0 + 1] BY <2>6, <3>1
      <3>3. QED BY <3>1, <3>2
    <2>8. ByteAt(t, io + 1) = x[2]
      <3>1. 1 \in 0..n - 1 OBVIOUS
      <3>2. QED BY <2>6, <3>1
    <2>9. n > 2 => ByteAt(t, io + 2) = x[3]
      <3>1. n > 2 => 2 \in 0..n - 1 OBVIOUS
      <3>2. QED BY <2>6, <3>1
    <2>10. n > 3 => ByteAt(t, io + 3) = x[4]
      <3>1. n > 3 => 3 \in 0..n - 1 OBVIOUS
      <3>2. QED BY <2>6, <3>1
    <2>11. ucs(n) = Combined(t, io, n) BY <2>1 DEF ucs
    <2>12. CASE n = 2
      <3>1. ((x[1] % 32) * 64) + (x[2] % 64) = c BY <1>5, <1>8, <1>9, <2>12, FormValue
      <3>2. Combined(t, io, n) = ((x[1] % 32) * 64) + (x[2] % 64)
        BY <2>7, <2>8, <2>12 DEF Combined, Lead, Bits
      <3>3. QED BY <2>11, <3>1, <3>2
    <2>13. CASE n = 3
      <3>1. ((((x[1] % 16) * 64) + (x[2] % 64)) * 64) + (x[3] % 64) = c
        BY <1>5, <1>8, <1>9, <2>13, FormValue
      <3>2. Combined(t, io, n) = ((((x[1] % 16) * 64) + (x[2] % 64)) * 64) + (x[3] % 64)
        BY <2>7, <2>8, <2>9, <2>13 DEF Combined, Lead, Bits
      <3>3. QED BY <2>11, <3>1, <3>2
    <2>14. CASE n = 4
      <3>1. ((((((x[1] % 8) * 64) + (x[2] % 64)) * 64) + (x[3] % 64)) * 64) + (x[4] % 64) = c
        BY <1>5, <1>8, <1>9, <2>14, FormValue
      <3>2. Combined(t, io, n) =
              ((((((x[1] % 8) * 64) + (x[2] % 64)) * 64) + (x[3] % 64)) * 64) + (x[4] % 64)
        BY <2>7, <2>8, <2>9, <2>10, <2>14 DEF Combined, Lead, Bits
      <3>3. QED BY <2>11, <3>1, <3>2
    <2>15. QED BY <2>12, <2>13, <2>14
  <1>11. PICK y : y = Spelled(Units(c)) OBVIOUS
  <1>12. PICK o \in Seq(Items) : o = out BY DEF TypeOK
  <1>13. y \in Seq(Byte) /\ Spelled(o \o Units(c)) = Spelled(o) \o y BY <1>11, SpelledUnits
  <1>14. ReadSoFar(b \o y, InUtf16(Take(s, m)) \o Utf16(c)) BY <1>6, <1>11, UnitsRead
  <1>15. WrittenOut' = b \o y
    <2>1. out' = out \o Units(c) BY <1>10
    <2>2. Spelled(out \o Units(c)) = Spelled(out) \o y BY <1>12, <1>13
    <2>3. WrittenOut' = WrittenOut \o y BY <1>13, <2>1, <2>2, OutMore
    <2>4. QED BY <1>6, <2>3
  <1>16. Progress(s, io, a, WrittenOut, m, 0, b) BY <1>1, <1>2, <1>6
  <1>17. m < Len(s) BY <1>3
  <1>18. Progress(s, io + Len(Utf8(c)), a, b \o y, m + 1, 0, b \o y)
    BY <1>4, <1>13, <1>14, <1>16, <1>17, WrittenMore
  <1>19. QED BY <1>1, <1>2, <1>5, <1>9, <1>15, <1>18

\* A byte of a longer code point, as it is.
LEMMA RawWritten ==
  ASSUME TypeOK, text.wellFormed, io < end, NEW m, NEW j, NEW b,
         Progress(text.says, io, options.forceASCII, WrittenOut, m, j, b),
         ~options.forceASCII, ~(text.says[m + 1] < 128),
         io' = io + 1, out' = out \o <<Item(at(io))>>
  PROVE  \E n, k, d : Progress(text.says, io', options.forceASCII, WrittenOut', n, k, d)
PROOF
  <1>1. PICK s \in Seq(CodePoint) : s = text.says BY WrittenSays
  <1>2. PICK a : a = options.forceASCII OBVIOUS
  <1>3. m \in 0..Len(s) - 1 /\ s[m + 1] \in CodePoint /\ at(io) = Utf8(s[m + 1])[j + 1]
        /\ j < Len(Utf8(s[m + 1]))
    BY <1>1, WrittenAt
  <1>4. PICK c \in CodePoint : c = s[m + 1] BY <1>3
  <1>5. PICK x \in Seq(Byte) : x = Utf8(c) BY Coded
  <1>6. /\ j \in Nat /\ b \in Seq(Byte) /\ Len(b) > 0 /\ b[1] = 34
        /\ ReadSoFar(b, InUtf16(Take(s, m))) /\ io = Len(InUtf8(Take(s, m))) + 1 + j
        /\ (WrittenOut = b /\ j = 0) \/ WrittenOut = b \o Take(x, j)
    BY <1>1, <1>4, <1>5, Zenon DEF Progress
  <1>7. PICK p \in Nat : p = Len(InUtf8(Take(s, m))) BY <1>3, NextBytes
  <1>8. PICK l \in Nat : l = Len(x) BY <1>5
  <1>9. ~(c < 128) /\ c \in Nat BY <1>1, <1>4, Coded
  <1>10. j \in 0..Len(x) - 1 /\ j \in 0..Len(x) /\ j + 1 \in 1..Len(x) /\ j + 1 \in 0..Len(x)
    BY <1>3, <1>4, <1>5, <1>6, <1>8
  <1>11. PICK t \in Seq(Byte), f \in Byte : t = Take(x, j) /\ f = x[j + 1] BY <1>10, Taken
  <1>12. Take(x, j + 1) = Append(t, f) BY <1>10, <1>11, Taken
  <1>13. WrittenOut = b \o t
    <2>1. CASE WrittenOut = b /\ j = 0
      <3>1. t = <<>> BY <1>11, <2>1, Taken
      <3>2. b \o <<>> = b BY <1>6
      <3>3. QED BY <2>1, <3>1, <3>2
    <2>2. CASE WrittenOut = b \o Take(x, j) BY <1>11, <2>2
    <2>3. QED BY <1>6, <2>1, <2>2
  <1>14. at(io) = f BY <1>3, <1>4, <1>5, <1>11
  <1>15. f \in Nat /\ f <= 255 /\ f >= 128
    <2>1. f \in Nat /\ f <= 255
      <3>1. f \in Byte OBVIOUS
      <3>2. QED BY <3>1 DEF Byte
    <2>2. IsLead(x[1]) /\ \A k \in 2..Len(x) : IsTrail(x[k]) BY <1>5, <1>9, Form
    <2>3. CASE j = 0 BY <1>11, <2>2, <2>3, LeadBits
    <2>4. CASE j # 0
      <3>1. j + 1 \in 2..Len(x) BY <1>6, <1>10, <2>4
      <3>2. IsTrail(f) BY <1>11, <2>2, <3>1
      <3>3. QED BY <3>2, OctetBits
    <2>5. QED BY <2>1, <2>3, <2>4
  <1>16. PICK item \in Items : item = Raw(f)
    <2>1. f <= MaxUnit BY <1>15 DEF MaxUnit
    <2>2. QED BY <1>15, <2>1, ItemsAre
  <1>17. Item(f) = item
    <2>1. f \notin Letters /\ f # 47 /\ ~(f < 32) /\ f \notin Html BY <1>15 DEF Letters, Html
    <2>2. QED BY <1>16, <2>1, Zenon DEF Item
  <1>18. PICK y \in Seq(Byte) : y = <<f>>
    <2>1. <<f>> \in Seq(Byte) OBVIOUS
    <2>2. QED BY <2>1
  <1>19. Bytes(item) = y BY <1>16, <1>18 DEF Bytes, Raw
  <1>20. WrittenOut' = (b \o t) \o y
    <2>1. out' = out \o <<item>> BY <1>14, <1>17
    <2>2. PICK o \in Seq(Items) : o = out BY DEF TypeOK
    <2>3. Spelled(o \o <<item>>) = Spelled(o) \o y BY <1>19, SpelledMore
    <2>4. Spelled(out \o <<item>>) = Spelled(out) \o y BY <2>2, <2>3
    <2>5. WrittenOut' = WrittenOut \o y BY <1>18, <2>1, <2>4, OutMore
    <2>6. QED BY <1>13, <2>5
  <1>21. WrittenOut' = b \o Take(x, j + 1)
    <2>1. (b \o t) \o y = b \o (t \o y)
      <3>1. b \in Seq(Byte) BY <1>6
      <3>2. QED BY <3>1, Associative
    <2>2. t \o y = Append(t, f) BY <1>18
    <2>3. QED BY <1>12, <1>20, <2>1, <2>2
  <1>22. io' = p + 1 + (j + 1) BY <1>6, <1>7
  <1>23. CASE j + 1 < l
    <2>1. j + 1 \in Nat /\ m \in 0..Len(s) /\ m < Len(s) BY <1>3, <1>6
    <2>2. ~(s[m + 1] < 128) /\ j + 1 < Len(Utf8(s[m + 1])) /\ WrittenOut' = b \o Take(Utf8(s[m + 1]), j + 1)
      BY <1>4, <1>5, <1>8, <1>9, <1>21, <1>23
    <2>3. io' = Len(InUtf8(Take(s, m))) + 1 + (j + 1) BY <1>7, <1>22
    <2>4. Progress(s, io', options.forceASCII, WrittenOut', m, j + 1, b)
      BY <1>6, <2>1, <2>2, <2>3, Zenon DEF Progress
    <2>5. QED BY <1>1, <2>4
  <1>24. CASE ~(j + 1 < l)
    <2>1. j + 1 = l BY <1>8, <1>10, <1>24
    <2>2. Take(x, j + 1) = x BY <1>8, <2>1, Taken
    <2>3. WrittenOut' = b \o x BY <1>21, <2>2
    <2>4. c >= 32 /\ c # 34 /\ c # 92 BY <1>9
    <2>5. ReadSoFar(b \o x, InUtf16(Take(s, m)) \o Utf16(c)) BY <1>5, <1>6, <2>4, RawRead
    <2>6. PICK i, w : i = io /\ w = WrittenOut OBVIOUS
    <2>7. Progress(s, i, a, w, m, j, b) BY <1>1, <1>2, <2>6
    <2>8. m < Len(s) BY <1>3
    <2>9. Progress(s, Len(InUtf8(Take(s, m))) + 1 + Len(Utf8(s[m + 1])), a, b \o x, m + 1, 0, b \o x)
      BY <1>4, <2>5, <2>7, <2>8, ProgressOne
    <2>10. Len(InUtf8(Take(s, m))) + 1 + Len(Utf8(s[m + 1])) = io'
      BY <1>4, <1>5, <1>7, <1>8, <1>22, <2>1
    <2>11. QED BY <1>1, <1>2, <2>3, <2>9, <2>10
  <1>25. QED BY <1>23, <1>24

LEMMA WrittenStep == IInv /\ Clean /\ Written /\ [Next]_vars => Written'
PROOF
  <1> SUFFICES ASSUME IInv, Clean, Written, [Next]_vars PROVE Written' OBVIOUS
  <1>1. TypeOK /\ Clean' BY StepClean DEF IInv
  <1>2. UNCHANGED <<text, options>>
    BY DEF Next, Step, Done, vars, Return, EscapeUnvalidated, EscapeOne, Unsupported,
       Unterminated, Overlong, EscapeSequence, PutOne, Put, SetError
  <1>3. SUFFICES ASSUME text.wellFormed PROVE Written' BY <1>2 DEF Written
  <1>4. PICK m, j, b : Progress(text.says, io, options.forceASCII, WrittenOut, m, j, b)
    BY <1>3 DEF Written
  <1>5. UNCHANGED end BY <1>2 DEF end, N
  <1>6. pc' # "failed" BY <1>1, <1>2, <1>3 DEF Clean, Valid
  <1>7. CASE UNCHANGED vars
    <2>1. UNCHANGED <<pc, io, WrittenOut>> BY <1>7 DEF vars, WrittenOut
    <2>2. QED BY <1>2, <1>5, <2>1 DEF Written
  <1>8. CASE Return
    <2>1. UNCHANGED <<io, WrittenOut>> /\ io' = end' BY <1>5, <1>8 DEF Return, WrittenOut
    <2>2. QED BY <1>2, <1>3, <2>1 DEF Written
  <1>9. CASE EscapeOne \/ EscapeUnvalidated
    <2>1. /\ io < end /\ pc = "escape" /\ io' = io + 1 /\ out' = out \o <<Item(at(io))>>
          /\ pc' # "done"
      BY <1>9 DEF EscapeOne, EscapeUnvalidated, Validating, Escaping, PutOne, Put
    <2>2. EscapeOne => options.forceASCII /\ Utflen(at(io)) = 1 BY DEF EscapeOne, Validating
    <2>3. EscapeUnvalidated => ~options.forceASCII BY DEF EscapeUnvalidated
    <2>4. CASE text.says[m + 1] < 128
      <3>1. Progress(text.says, io', options.forceASCII, WrittenOut', m + 1, 0, WrittenOut')
        BY <1>1, <1>3, <1>4, <2>1, <2>4, OneWritten
      <3>2. QED BY <1>2, <2>1, <3>1 DEF Written
    <2>5. CASE ~(text.says[m + 1] < 128) /\ ~options.forceASCII
      <3>1. \E n, k, d : Progress(text.says, io', options.forceASCII, WrittenOut', n, k, d)
        BY <1>1, <1>3, <1>4, <2>1, <2>5, RawWritten
      <3>2. QED BY <1>2, <2>1, <3>1 DEF Written
    <2>6. CASE ~(text.says[m + 1] < 128) /\ options.forceASCII
      <3>1. PICK c \in CodePoint : c = text.says[m + 1] BY <1>1, <1>3, <1>4, <2>1, WrittenAt
      <3>2. PICK x \in Seq(Byte) : x = Utf8(c) BY Coded
      <3>3. j = 0 /\ at(io) = x[j + 1]
        <4>1. j = 0 BY <1>4, <2>6 DEF Progress
        <4>2. at(io) = Utf8(text.says[m + 1])[j + 1] BY <1>1, <1>3, <1>4, <2>1, WrittenAt
        <4>3. QED BY <3>1, <3>2, <4>1, <4>2
      <3>4. IsLead(x[1]) BY <2>6, <3>1, <3>2, Form
      <3>5. Utflen(x[1]) \in {2, 3, 4} BY <3>4, LeadBits
      <3>6. at(io) = x[1] BY <3>3
      <3>7. EscapeOne BY <1>9, <2>3, <2>6
      <3>8. QED BY <2>2, <3>5, <3>6, <3>7
    <2>7. QED BY <2>4, <2>5, <2>6
  <1>10. ASSUME NEW n \in 2..4, EscapeSequence(n) PROVE Written'
    <2>1. /\ io < end /\ pc = "escape" /\ io' = io + n /\ out' = out \o Units(ucs(n))
          /\ options.forceASCII /\ Utflen(at(io)) = n /\ pc' # "done"
      BY <1>10 DEF EscapeSequence, Validating, Escaping, Put
    <2>2. Progress(text.says, io', options.forceASCII, WrittenOut', m + 1, 0, WrittenOut')
      BY <1>1, <1>3, <1>4, <2>1, SequenceWritten
    <2>3. QED BY <1>2, <2>1, <2>2 DEF Written
  <1>11. CASE Unsupported \/ \E n \in 2..4 : Unterminated(n) \/ Overlong(n)
    <2>1. pc' = "failed" BY <1>11 DEF Unsupported, Unterminated, Overlong, SetError
    <2>2. QED BY <1>6, <2>1
  <1>12. QED BY <1>7, <1>8, <1>9, <1>10, <1>11 DEF Next, Step, Done

-----------------------------------------------------------------------------
(* Reading it back. *)

\* What has been written is handed over whole.
LEMMA HandedReads ==
  ASSUME TypeOK, text.wellFormed, Written, pc = "done"
  PROVE  \E r \in Seq(P!Places) :
           /\ P!Describes(<<r>>, Handed, TRUE)
           /\ InUtf16(r[Len(r)].said) = InUtf16(text.says)
PROOF
  <1>1. PICK s \in Seq(CodePoint) : s = text.says BY WrittenSays
  <1>2. PICK i, a, w : i = io /\ a = options.forceASCII /\ w = WrittenOut OBVIOUS
  <1>3. PICK m, j, b : Progress(s, i, a, w, m, j, b) BY <1>1, <1>2 DEF Written
  <1>4. i = Len(InUtf8(s)) + 1 BY <1>1, <1>2, WrittenSays DEF Written
  <1>5. m = Len(s) /\ w = b BY <1>3, <1>4, ProgressAt
  <1>6. b \in Seq(Byte) /\ Len(b) > 0 /\ b[1] = 34 /\ ReadSoFar(b, InUtf16(Take(s, m)))
    BY <1>3 DEF Progress
  <1>7. Take(s, m) = s BY <1>5, Taken
  <1>8. PICK r \in Seq(P!Places) : /\ P!Describes(<<r>>, b \o <<34, 0>>, TRUE)
                                   /\ InUtf16(r[Len(r)].said) = InUtf16(s)
    BY <1>6, <1>7, ReadAll
  <1>9. Handed = b \o <<34, 0>> BY <1>2, <1>5 DEF Handed, WrittenOut
  <1>10. QED BY <1>1, <1>8, <1>9

LEMMA StartFollowing ==
  ASSUME NEW r, NEW s, P!Describes(<<r>>, s, TRUE), P!Start'
  PROVE  P!Following(<<r>>, TRUE)'
PROOF
  <1>1. PICK R : R = <<r>> OBVIOUS
  <1>2. Len(R) = 1 /\ R[1] = r BY <1>1
  <1>3. dpc' = "decode_string" /\ dstart' = 1 /\ derrorStr' = "none" /\ ddecoded' = <<>>
    BY DEF P!Start
  <1>4. Len(ddecoded') = 0 BY <1>3
  <1>5. r[1].at = 2
    <2>1. P!AreReadings(s, R) BY <1>1 DEF P!Describes
    <2>2. 1 \in 1..Len(R) BY <1>2
    <2>3. P!IsReading(s, 2, R[1]) BY <2>1, <2>2 DEF P!AreReadings
    <2>4. QED BY <1>2, <2>3 DEF P!IsReading
  <1>6. dstart' + 1 = R[Len(ddecoded') + 1][1].at BY <1>2, <1>3, <1>4, <1>5
  <1>7. P!Following(R, TRUE)' BY <1>2, <1>3, <1>4, <1>6 DEF P!Following
  <1>8. QED BY <1>1, <1>7

\* decode_string is where a reading of what was written says.
ReadingBack ==
  turn = "read back" /\ text.wellFormed =>
    \E r \in Seq(P!Places) :
      /\ P!Describes(<<r>>, dtext.bytes, TRUE)
      /\ P!Following(<<r>>, TRUE)
      /\ InUtf16(r[Len(r)].said) = InUtf16(text.says)

\* Escaping or reading back, it is where the string says.
OnTheWay == (turn = "escape" => Written) /\ ReadingBack

LEMMA OnTheWayInit == RoundTripInit => OnTheWay
PROOF
  <1>1. RoundTripInit => turn # "read back" BY DEF RoundTripInit
  <1>2. RoundTripInit /\ turn = "escape" => Init BY DEF RoundTripInit
  <1>3. QED BY <1>1, <1>2, WrittenInit DEF OnTheWay, ReadingBack

LEMMA OnTheWayStep == Halves /\ OnTheWay /\ [RoundTripNext]_allVars => OnTheWay'
PROOF
  <1> SUFFICES ASSUME Halves, OnTheWay, [RoundTripNext]_allVars PROVE OnTheWay' OBVIOUS
  <1>1. ASSUME UNCHANGED vars, Written PROVE Written'
    BY <1>1 DEF Written, vars, WrittenOut, end, N
  <1>2. ASSUME turn' = turn, UNCHANGED vars, D!Step \/ UNCHANGED decoderVars
        PROVE  ReadingBack'
    <2>1. SUFFICES ASSUME turn = "read back", text.wellFormed PROVE ReadingBack'
      BY <1>2 DEF ReadingBack, vars
    <2>2. PICK r \in Seq(P!Places) :
            /\ P!Describes(<<r>>, dtext.bytes, TRUE)
            /\ P!Following(<<r>>, TRUE)
            /\ InUtf16(r[Len(r)].said) = InUtf16(text.says)
      BY <2>1 DEF OnTheWay, ReadingBack
    <2>3. PICK R, w : R = <<r>> /\ w = TRUE OBVIOUS
    <2>4. P!IInv BY DEF Halves
    <2>5. [P!Next]_(P!vars) BY <1>2, <2>4, DecoderStep
    <2>6. P!Describes(R, dtext.bytes, w) /\ P!Following(R, w) BY <2>2, <2>3
    <2>7. P!Following(R, w)' BY <2>4, <2>5, <2>6, TextsAre, P!FollowingStep
    <2>8. dtext' = dtext BY <2>5, TextKept
    <2>9. P!Following(<<r>>, TRUE)' BY <2>3, <2>7
    <2>10. text' = text BY <1>2 DEF vars
    <2>11. QED BY <2>2, <2>8, <2>9, <2>10 DEF ReadingBack
  <1>3. CASE EscapeTurn
    <2>1. turn = "escape" /\ turn' = turn /\ Step BY <1>3 DEF EscapeTurn
    <2>2. IInv /\ Clean /\ Written /\ [Next]_vars BY <2>1 DEF Halves, OnTheWay, Next
    <2>3. Written' BY <2>2, WrittenStep
    <2>4. QED BY <2>1, <2>3 DEF OnTheWay, ReadingBack
  <1>4. CASE Handover
    <2>1. turn = "escape" /\ turn' = "read back" /\ pc = "done" /\ text' = text
      BY <1>4 DEF Handover, vars
    <2>2. TypeOK /\ Written BY <2>1 DEF Halves, OnTheWay, IInv
    <2>3. dtext' = [NoText EXCEPT !.bytes = Handed] /\ P!Start' BY <1>4, HandoverStep
    <2>4. dtext'.bytes = Handed BY <2>3 DEF NoText
    <2>5. ASSUME text.wellFormed PROVE ReadingBack'
      <3>1. PICK r \in Seq(P!Places) : /\ P!Describes(<<r>>, Handed, TRUE)
                                       /\ InUtf16(r[Len(r)].said) = InUtf16(text.says)
        BY <2>1, <2>2, <2>5, HandedReads
      <3>2. PICK h : h = Handed OBVIOUS
      <3>3. P!Describes(<<r>>, h, TRUE) BY <3>1, <3>2
      <3>4. P!Following(<<r>>, TRUE)' BY <2>3, <3>3, StartFollowing
      <3>5. QED BY <2>1, <2>4, <3>1, <3>4 DEF ReadingBack
    <2>6. QED BY <2>1, <2>5 DEF OnTheWay, ReadingBack
  <1>5. CASE DecodeTurn
    <2>1. turn # "escape" /\ turn' = turn /\ D!Step /\ UNCHANGED vars BY <1>5 DEF DecodeTurn
    <2>2. QED BY <1>2, <2>1 DEF OnTheWay
  <1>6. CASE UNCHANGED allVars
    <2>1. turn' = turn /\ UNCHANGED vars /\ UNCHANGED decoderVars BY <1>6 DEF allVars
    <2>2. QED BY <1>1, <1>2, <2>1 DEF OnTheWay
  <1>7. QED BY <1>3, <1>4, <1>5, <1>6 DEF RoundTripNext, Ended

LEMMA OnTheWayInvariance == RoundTripSpec => []OnTheWay
PROOF BY OnTheWayInit, OnTheWayStep, HalvesInvariance, PTL DEF RoundTripSpec

\* What decode_string makes of it.
LEMMA ReadBack ==
  ASSUME Halves, OnTheWay
  PROVE  ReadsBack
PROOF
  <1>1. EscapesUtf8
    <2>1. turn # "decode" => Clean BY DEF Halves
    <2>2. Clean => EscapesUtf8 BY DEF Clean, Valid, EscapesUtf8
    <2>3. turn = "decode" => ~text.wellFormed BY DEF Halves, NoString
    <2>4. QED BY <2>1, <2>2, <2>3 DEF EscapesUtf8
  <1>2. SUFFICES ASSUME text.wellFormed, turn = "read back", dpc = "done", derrorStr # "memory"
                 PROVE  /\ derrorStr = "none"
                        /\ [i \in DOMAIN ddecoded |-> InUtf16(ddecoded[i])] = <<InUtf16(text.says)>>
    BY <1>1 DEF ReadsBack
  <1>3. PICK r \in Seq(P!Places) :
          /\ P!Following(<<r>>, TRUE)
          /\ InUtf16(r[Len(r)].said) = InUtf16(text.says)
    BY <1>2 DEF OnTheWay, ReadingBack
  <1>4. PICK R, w : R = <<r>> /\ w = TRUE OBVIOUS
  <1>5. R \in Seq(Seq(P!Places)) /\ Len(R) = 1 /\ R[1] = r BY <1>4
  <1>6. P!Following(R, w) /\ P!IInv BY <1>3, <1>4 DEF Halves
  <1>7. derrorStr = "none" /\ ddecoded = P!Said(R)
    <2>1. IF w THEN derrorStr = "none" /\ ddecoded = P!Said(R) ELSE derrorStr # "none"
      <3>1. R \in Seq(Seq(P!Places)) BY <1>5
      <3>2. dpc = "done" /\ derrorStr # "memory" BY <1>2
      <3>3. P!IInv /\ P!Following(R, w) BY <1>6
      <3>4. QED BY <3>1, <3>2, <3>3, P!Followed
    <2>2. QED BY <1>4, <2>1
  <1>8. PICK d : d = r[Len(r)].said OBVIOUS
  <1>9. ddecoded = <<d>> BY <1>5, <1>7, <1>8 DEF P!Said
  <1>10. [i \in DOMAIN ddecoded |-> InUtf16(ddecoded[i])] = <<InUtf16(d)>> BY <1>9
  <1>11. QED BY <1>3, <1>7, <1>8, <1>10

-----------------------------------------------------------------------------
\* dumps and loads are inverse on strings: whatever string of code points, and
\* whatever the options, its UTF-8 is escaped without an error, and what was
\* written, between quotes, is decoded to the same string in UTF-16.
THEOREM ReadsBackCorrect == RoundTripSpec => []ReadsBack
PROOF BY ReadBack, HalvesInvariance, OnTheWayInvariance, PTL
=============================================================================
