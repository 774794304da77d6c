-------------------------- MODULE JsonSyntaxProofs --------------------------
(***************************************************************************)
(* The two statements of JSON agree: the configurations of JsonSyntax,     *)
(* which a parser or a writer goes through lexeme by lexeme, and the       *)
(* context-free rules of JsonGrammar, which look at a whole text.          *)
(***************************************************************************)
EXTENDS JsonSyntax, JsonGrammar, SequenceTheorems, WellFoundedInduction, TLAPS

-----------------------------------------------------------------------------
(* The rules define what a symbol derives: each asks for spans that are    *)
(* shorter, or as long and of a symbol that asks for shorter ones only.    *)

Size(x) ==
  IF x[2] < x[3] THEN 2 * (x[3] - x[2]) + IF x[1] \in {"items", "members"} THEN 1 ELSE 0
  ELSE 0

\* What Rule says of the span x.
Ruled(s, f, x) == Rule(s, f, x[1], x[2], x[3], x[4])

LEMMA SpanFields ==
  ASSUME NEW s, Len(s) \in Nat, NEW depth \in Nat, NEW x \in Spans(s, depth)
  PROVE  /\ x = <<x[1], x[2], x[3], x[4]>>
         /\ x[1] \in Symbols /\ x[2] \in 1..Len(s) + 1 /\ x[3] \in 1..Len(s) + 1
         /\ x[4] \in 0..depth
         /\ Size(x) \in 0..2 * Len(s) + 1
PROOF
  <1>1. /\ x = <<x[1], x[2], x[3], x[4]>>
        /\ x[1] \in Symbols /\ x[2] \in 1..Len(s) + 1 /\ x[3] \in 1..Len(s) + 1
        /\ x[4] \in 0..depth
    BY DEF Spans
  <1>2. Size(x) \in 0..2 * Len(s) + 1 BY <1>1, SMT DEF Size
  <1>3. QED BY <1>1, <1>2

LEMMA Shorter ==
  ASSUME NEW symbol, NEW i \in Int, NEW j \in Int, NEW h, NEW other, NEW a \in Int, NEW b \in Int,
         NEW e, i < j,
         \/ b <= a \/ 2 * (b - a) + 1 < 2 * (j - i)
         \/ other = symbol /\ b - a < j - i
         \/ /\ b - a = j - i /\ other \in {"value", "member"}
            /\ symbol \in {"items", "members"}
  PROVE  Size(<<other, a, b, e>>) < Size(<<symbol, i, j, h>>)
PROOF
  <1>1. Size(<<other, a, b, e>>) =
          IF a < b THEN 2 * (b - a) + IF other \in {"items", "members"} THEN 1 ELSE 0 ELSE 0
    BY DEF Size
  <1>2. Size(<<symbol, i, j, h>>) = 2 * (j - i) + IF symbol \in {"items", "members"} THEN 1 ELSE 0
    BY DEF Size
  <1>3. QED BY <1>1, <1>2, SMT

LEMMA RuleLocal ==
  ASSUME NEW s, Len(s) \in Nat, NEW depth \in Nat, NEW f, NEW g, NEW x \in Spans(s, depth),
         \A y \in Spans(s, depth) : Size(y) < Size(x) => f[y] = g[y]
  PROVE  Ruled(s, f, x) = Ruled(s, g, x)
PROOF
  <1>1. PICK symbol \in Symbols, i \in 1..Len(s) + 1, j \in 1..Len(s) + 1, h \in 0..depth :
          x = <<symbol, i, j, h>> /\ x[1] = symbol /\ x[2] = i /\ x[3] = j /\ x[4] = h
    BY SpanFields
  <1>2. ASSUME NEW other \in Symbols, NEW a \in 1..Len(s) + 1, NEW b \in 1..Len(s) + 1,
               NEW e \in 0..depth, i < j,
               \/ b <= a \/ 2 * (b - a) + 1 < 2 * (j - i)
               \/ other = symbol /\ b - a < j - i
               \/ /\ b - a = j - i /\ other \in {"value", "member"}
                  /\ symbol \in {"items", "members"}
        PROVE  f[<<other, a, b, e>>] = g[<<other, a, b, e>>]
    <2>1. <<other, a, b, e>> \in Spans(s, depth) BY DEF Spans
    <2>2. i \in Int /\ j \in Int /\ a \in Int /\ b \in Int BY SMT
    <2>3. Size(<<other, a, b, e>>) < Size(x) BY <1>1, <1>2, <2>2, Shorter
    <2>4. QED BY <2>1, <2>3
  <1>3. i < j => /\ f[<<symbol, i + 1, j, h>>] = g[<<symbol, i + 1, j, h>>]
                 /\ f[<<symbol, i, j - 1, h>>] = g[<<symbol, i, j - 1, h>>]
    <2> SUFFICES ASSUME i < j
                 PROVE  /\ f[<<symbol, i + 1, j, h>>] = g[<<symbol, i + 1, j, h>>]
                        /\ f[<<symbol, i, j - 1, h>>] = g[<<symbol, i, j - 1, h>>]
      OBVIOUS
    <2>1. i + 1 \in 1..Len(s) + 1 /\ j - 1 \in 1..Len(s) + 1 BY SMT
    <2>2. j - (i + 1) < j - i /\ j - 1 - i < j - i BY SMT
    <2>3. QED BY <1>2, <2>1, <2>2
  <1>4. ASSUME i < j, symbol = "items" \/ symbol = "members", NEW other \in {"value", "member"}
        PROVE  f[<<other, i, j, h>>] = g[<<other, i, j, h>>]
    <2>1. other \in Symbols BY DEF Symbols
    <2>2. QED BY <1>2, <1>4, <2>1
  <1>5. ASSUME NEW opener, NEW list \in {"items", "members"}, NEW closer
        PROVE  Enclosed(s, f, i, j, h, opener, list, closer)
                 = Enclosed(s, g, i, j, h, opener, list, closer)
    <2>1. ASSUME h > 0, i + 1 < j, NEW other \in {"nothing", "items", "members"}
          PROVE  f[<<other, i + 1, j - 1, h - 1>>] = g[<<other, i + 1, j - 1, h - 1>>]
      <3>1. /\ i + 1 \in 1..Len(s) + 1 /\ j - 1 \in 1..Len(s) + 1 /\ h - 1 \in 0..depth /\ i < j
            /\ 2 * (j - 1 - (i + 1)) + 1 < 2 * (j - i)
        BY <2>1, SMT
      <3>2. other \in Symbols BY DEF Symbols
      <3>3. QED BY <1>2, <3>1, <3>2
    <2>2. QED BY <2>1 DEF Enclosed
  <1>6. ASSUME i < j, NEW first \in Symbols, NEW separator, NEW second \in Symbols
        PROVE  Pair(s, f, i, j, h, first, separator, second)
                 = Pair(s, g, i, j, h, first, separator, second)
    <2>1. ASSUME NEW m \in i..j - 1
          PROVE  /\ f[<<first, i, m, h>>] = g[<<first, i, m, h>>]
                 /\ f[<<second, m + 1, j, h>>] = g[<<second, m + 1, j, h>>]
      <3>1. /\ m \in 1..Len(s) + 1 /\ m + 1 \in 1..Len(s) + 1
            /\ 2 * (m - i) + 1 < 2 * (j - i) /\ 2 * (j - (m + 1)) + 1 < 2 * (j - i)
        BY SMT
      <3>2. QED BY <1>2, <1>6, <3>1
    <2>2. QED BY <2>1 DEF Pair
  <1>7. {"items", "members", "value", "member", "name", "nothing"} \subseteq Symbols
    BY DEF Symbols
  <1>8. Rule(s, f, symbol, i, j, h) = Rule(s, g, symbol, i, j, h)
    <2>1. /\ Enclosed(s, f, i, j, h, "lbrack", "items", "rbrack")
               = Enclosed(s, g, i, j, h, "lbrack", "items", "rbrack")
          /\ Enclosed(s, f, i, j, h, "lbrace", "members", "rbrace")
               = Enclosed(s, g, i, j, h, "lbrace", "members", "rbrace")
      BY <1>5
    <2>2. i < j => /\ Pair(s, f, i, j, h, "items", "comma", "value")
                       = Pair(s, g, i, j, h, "items", "comma", "value")
                   /\ Pair(s, f, i, j, h, "name", "colon", "value")
                       = Pair(s, g, i, j, h, "name", "colon", "value")
                   /\ Pair(s, f, i, j, h, "members", "comma", "member")
                       = Pair(s, g, i, j, h, "members", "comma", "member")
      BY <1>6, <1>7
    <2>3. i < j /\ symbol = "items" => f[<<"value", i, j, h>>] = g[<<"value", i, j, h>>]
      BY <1>4
    <2>4. i < j /\ symbol = "members" => f[<<"member", i, j, h>>] = g[<<"member", i, j, h>>]
      BY <1>4
    <2>5. CASE i < j BY <1>3, <2>1, <2>2, <2>3, <2>4, <2>5, Zenon DEF Rule
    <2>6. CASE ~(i < j) BY <2>6, Zenon DEF Rule
    <2>7. QED BY <2>5, <2>6
  <1>9. QED BY <1>1, <1>8 DEF Ruled

LEMMA LeastOf ==
  ASSUME NEW S, S \subseteq Nat, S # {}
  PROVE  \E m \in S : \A k \in S : m <= k
PROOF
  <1> DEFINE R == {p \in Nat \X Nat : p[1] < p[2]}
  <1>1. IsWellFoundedOn(R, Nat) BY NatLessThanWellFounded, Zenon DEF OpToRel
  <1> HIDE DEF R
  <1>2. PICK x \in S : \A y \in S : ~ (<<y, x>> \in R) BY <1>1, WFMin
  <1>3. ASSUME NEW y \in S PROVE x <= y
    <2>1. ~(<<y, x>> \in R) BY <1>2
    <2>2. x \in Nat /\ y \in Nat OBVIOUS
    <2>3. ~(y < x) BY <2>1, <2>2 DEF R
    <2>4. QED BY <2>2, <2>3
  <1>4. QED BY <1>3

\* f follows the rules on all spans of a size below m.
Follow(s, depth, f, m) ==
  /\ f = [x \in Spans(s, depth) |-> f[x]]
  /\ \A x \in Spans(s, depth) : Size(x) < m => f[x] = Ruled(s, f, x)

LEMMA FollowExists ==
  ASSUME NEW s, Len(s) \in Nat, NEW depth \in Nat, NEW n \in Nat
  PROVE  \E f : Follow(s, depth, f, n)
PROOF
  <1> DEFINE Bad == {m \in Nat : ~ \E f : Follow(s, depth, f, m)}
  <1>1. SUFFICES ASSUME Bad # {} PROVE FALSE OBVIOUS
  <1>2. PICK m \in Bad : \A k \in Bad : m <= k BY <1>1, LeastOf
  <1>3. m \in Nat /\ ~ \E f : Follow(s, depth, f, m) OBVIOUS
  <1>4. CASE m = 0
    <2>1. PICK f : f = [x \in Spans(s, depth) |-> FALSE] OBVIOUS
    <2>2. f = [x \in Spans(s, depth) |-> f[x]] BY <2>1
    <2>3. \A x \in Spans(s, depth) : ~(Size(x) < m) BY <1>4, SpanFields
    <2>4. Follow(s, depth, f, m) BY <2>2, <2>3 DEF Follow
    <2>5. QED BY <1>3, <2>4
  <1>5. CASE m # 0
    <2>1. m - 1 \in Nat /\ ~(m <= m - 1) BY <1>3, <1>5
    <2>2. m - 1 \notin Bad BY <1>2, <2>1
    <2>3. PICK f : Follow(s, depth, f, m - 1) BY <2>1, <2>2
    <2>4. PICK g : g = [x \in Spans(s, depth) |-> IF Size(x) < m - 1 THEN f[x] ELSE Ruled(s, f, x)]
      OBVIOUS
    <2>5. \A x \in Spans(s, depth) : g[x] = Ruled(s, f, x) BY <2>3, <2>4 DEF Follow
    <2>6. \A x \in Spans(s, depth) : Size(x) < m - 1 => f[x] = g[x] BY <2>4
    <2>7. ASSUME NEW x \in Spans(s, depth), Size(x) < m PROVE g[x] = Ruled(s, g, x)
      <3>1. ASSUME NEW y \in Spans(s, depth), Size(y) < Size(x) PROVE f[y] = g[y]
        <4>1. Size(y) \in Nat /\ Size(x) \in Nat BY SpanFields
        <4>2. Size(y) < m - 1 BY <1>3, <2>7, <3>1, <4>1
        <4>3. QED BY <2>6, <4>2
      <3>2. Ruled(s, f, x) = Ruled(s, g, x) BY <3>1, RuleLocal
      <3>3. QED BY <2>5, <3>2
    <2>8. g = [x \in Spans(s, depth) |-> g[x]] BY <2>4
    <2>9. Follow(s, depth, g, m) BY <2>7, <2>8 DEF Follow
    <2>10. QED BY <1>3, <2>9
  <1>6. QED BY <1>4, <1>5

\* What is derived is what the rules derive.
LEMMA DerivesRuled ==
  ASSUME NEW s, Len(s) \in Nat, NEW depth \in Nat,
         NEW symbol \in Symbols, NEW i \in 1..Len(s) + 1, NEW j \in 1..Len(s) + 1,
         NEW h \in 0..depth
  PROVE  Derives(s, depth)[<<symbol, i, j, h>>]
           = Rule(s, Derives(s, depth), symbol, i, j, h)
PROOF
  <1>1. PICK f : Follow(s, depth, f, 2 * Len(s) + 2) BY FollowExists
  <1>2. \A x \in Spans(s, depth) : f[x] = Ruled(s, f, x)
    <2> SUFFICES ASSUME NEW x \in Spans(s, depth) PROVE f[x] = Ruled(s, f, x) OBVIOUS
    <2>1. Size(x) < 2 * Len(s) + 2 BY SpanFields
    <2>2. QED BY <1>1, <2>1 DEF Follow
  <1>3. f = [x \in Spans(s, depth) |-> Rule(s, f, x[1], x[2], x[3], x[4])]
    BY <1>1, <1>2 DEF Follow, Ruled
  <1>4. PICK d : d = Derives(s, depth) OBVIOUS
  <1>5. d = CHOOSE g : g = [x \in Spans(s, depth) |-> Rule(s, g, x[1], x[2], x[3], x[4])]
    BY <1>4 DEF Derives
  <1>6. d = [x \in Spans(s, depth) |-> Rule(s, d, x[1], x[2], x[3], x[4])]
    BY <1>3, <1>5
  <1>7. <<symbol, i, j, h>> \in Spans(s, depth) BY DEF Spans
  <1>8. d[<<symbol, i, j, h>>] = Rule(s, d, symbol, i, j, h) BY <1>6, <1>7
  <1>9. QED BY <1>4, <1>8

-----------------------------------------------------------------------------
(* What a run leads through is derived.                                    *)

Derived(s, symbol, i, j, h) == Derives(s, Depth)[<<symbol, i, j, h>>]

\* If symbol derives a span that starts at p, list derives the text to its end.
Due(s, list, from, symbol, p, h) ==
  \A j \in p..Len(s) + 1 : Derived(s, symbol, p, j, h) => Derived(s, list, from, j, h)

\* The text from where the innermost list starts to p, when the place is at.
Reached(s, list, from, at, p, h) ==
  CASE at = "value" -> Due(s, list, from, "value", p, h)
    [] at = "first" -> /\ Derived(s, "nothing", from, p, h)
                       /\ list = "items" => Due(s, list, from, "value", p, h)
                       /\ list = "members" => Due(s, list, from, "member", p, h)
    [] at = "name" -> Due(s, list, from, "member", p, h)
    [] at = "colon" -> \E b \in 1..p : /\ Derived(s, "name", b, p, h)
                                      /\ Due(s, list, from, "member", b, h)
    [] OTHER -> Derived(s, list, from, p, h)

Lists == {"value", "items", "members"}

LEMMA DerivedRuled ==
  ASSUME NEW s, Len(s) \in Nat, Depth \in Nat,
         NEW symbol \in Symbols, NEW i \in 1..Len(s) + 1, NEW j \in 1..Len(s) + 1,
         NEW h \in 0..Depth
  PROVE  Derived(s, symbol, i, j, h) <=> Rule(s, Derives(s, Depth), symbol, i, j, h)
PROOF BY DerivesRuled DEF Derived

LEMMA DerivedSpace ==
  ASSUME NEW s, Len(s) \in Nat, Depth \in Nat,
         NEW symbol \in Symbols, NEW i \in 1..Len(s) + 1, NEW j \in 1..Len(s) + 1,
         NEW h \in 0..Depth, i < j,
         \/ s[i] = "ws" /\ Derived(s, symbol, i + 1, j, h)
         \/ s[j - 1] = "ws" /\ Derived(s, symbol, i, j - 1, h)
  PROVE  Derived(s, symbol, i, j, h)
PROOF BY DerivedRuled DEF Rule, Derived

LEMMA DerivedPair ==
  ASSUME NEW s, Len(s) \in Nat, Depth \in Nat,
         NEW i \in 1..Len(s) + 1, NEW m \in 1..Len(s), NEW j \in 1..Len(s) + 1,
         NEW h \in 0..Depth, i <= m, m < j,
         NEW symbol, NEW first, NEW separator, NEW second,
         \/ symbol = "items" /\ first = "items" /\ separator = "comma" /\ second = "value"
         \/ symbol = "member" /\ first = "name" /\ separator = "colon" /\ second = "value"
         \/ symbol = "members" /\ first = "members" /\ separator = "comma" /\ second = "member",
         s[m] = separator, Derived(s, first, i, m, h), Derived(s, second, m + 1, j, h)
  PROVE  Derived(s, symbol, i, j, h)
PROOF
  <1>1. symbol \in Symbols /\ i < j /\ m \in i..j - 1 BY DEF Symbols
  <1>2. Pair(s, Derives(s, Depth), i, j, h, first, separator, second)
    BY <1>1 DEF Pair, Derived
  <1>3. Rule(s, Derives(s, Depth), symbol, i, j, h) BY <1>1, <1>2 DEF Rule
  <1>4. QED BY <1>1, <1>3, DerivedRuled

\* A lexeme that opens or closes nothing.
LEMMA ReachedNext ==
  ASSUME NEW s, Len(s) \in Nat, Depth \in Nat, NEW p \in 1..Len(s), NEW h \in 0..Depth,
         NEW list \in Lists, NEW from \in 1..p, NEW at \in Places, NEW next \in Places,
         Reached(s, list, from, at, p, h),
         \/ s[p] = "ws" /\ next = at
         \/ /\ s[p] \in {"str", "atom"} /\ next \in {"delimiter", "end"}
            /\ at = "value" \/ (at = "first" /\ list = "items")
         \/ /\ s[p] = "str" /\ next = "colon"
            /\ at = "name" \/ (at = "first" /\ list = "members")
         \/ s[p] = "colon" /\ at = "colon" /\ next = "value"
         \/ s[p] = "comma" /\ at = "delimiter" /\ list = "items" /\ next = "value"
         \/ s[p] = "comma" /\ at = "delimiter" /\ list = "members" /\ next = "name"
  PROVE  Reached(s, list, from, next, p + 1, h)
PROOF
  <1>1. /\ p \in 1..Len(s) + 1 /\ p + 1 \in 1..Len(s) + 1 /\ from \in 1..Len(s) + 1
        /\ p < p + 1 /\ (p + 1) - 1 = p /\ from < p + 1
    BY SMT
  <1>2. Lists \subseteq Symbols /\ {"nothing", "name", "member"} \subseteq Symbols
    BY DEF Lists, Symbols
  <1>3. CASE s[p] = "ws" /\ next = at
    <2>1. ASSUME NEW symbol \in Symbols, Due(s, list, from, symbol, p, h)
          PROVE  Due(s, list, from, symbol, p + 1, h)
      <3> SUFFICES ASSUME NEW j \in p + 1..Len(s) + 1, Derived(s, symbol, p + 1, j, h)
                   PROVE  Derived(s, list, from, j, h)
        BY DEF Due
      <3>1. j \in 1..Len(s) + 1 /\ p < j /\ j \in p..Len(s) + 1 BY SMT
      <3>2. Derived(s, symbol, p, j, h) BY <1>1, <1>3, <3>1, DerivedSpace
      <3>3. QED BY <2>1, <3>1, <3>2 DEF Due
    <2>2. ASSUME NEW symbol \in Symbols, NEW b \in 1..p, Derived(s, symbol, b, p, h)
          PROVE  Derived(s, symbol, b, p + 1, h)
      <3>1. b \in 1..Len(s) + 1 /\ b < p + 1 BY SMT
      <3>2. QED BY <1>1, <1>3, <2>2, <3>1, DerivedSpace
    <2>3. "value" \in Symbols /\ list \in Symbols BY <1>2 DEF Lists
    <2>4. CASE at = "value" BY <1>3, <2>1, <2>3, <2>4 DEF Reached
    <2>5. CASE at = "first" BY <1>2, <1>3, <2>1, <2>2, <2>3, <2>5 DEF Reached
    <2>6. CASE at = "name" BY <1>2, <1>3, <2>1, <2>6 DEF Reached
    <2>7. CASE at = "colon"
      <3>1. PICK b \in 1..p : Derived(s, "name", b, p, h) /\ Due(s, list, from, "member", b, h)
        BY <2>7 DEF Reached
      <3>2. b \in 1..p + 1 /\ Derived(s, "name", b, p + 1, h) BY <1>2, <2>2, <3>1
      <3>3. QED BY <1>3, <2>7, <3>1, <3>2 DEF Reached
    <2>8. CASE at \in {"delimiter", "end"}
      <3>1. Derived(s, list, from, p, h) BY <2>8 DEF Reached
      <3>2. Derived(s, list, from, p + 1, h) BY <2>2, <2>3, <3>1
      <3>3. QED BY <1>3, <2>8, <3>2 DEF Reached
    <2>9. QED BY <2>4, <2>5, <2>6, <2>7, <2>8 DEF Places
  <1>4. CASE /\ s[p] \in {"str", "atom"} /\ next \in {"delimiter", "end"}
             /\ at = "value" \/ (at = "first" /\ list = "items")
    <2>1. Due(s, list, from, "value", p, h) BY <1>4 DEF Reached
    <2>2. "value" \in Symbols BY DEF Symbols
    <2>3. Derived(s, "value", p, p + 1, h) BY <1>1, <1>4, <2>2, DerivedRuled DEF Rule
    <2>4. p + 1 \in p..Len(s) + 1 BY SMT
    <2>5. Derived(s, list, from, p + 1, h) BY <2>1, <2>3, <2>4 DEF Due
    <2>6. QED BY <1>4, <2>5 DEF Reached
  <1>5. CASE /\ s[p] = "str" /\ next = "colon"
             /\ at = "name" \/ (at = "first" /\ list = "members")
    <2>1. Due(s, list, from, "member", p, h) BY <1>5 DEF Reached
    <2>2. Derived(s, "name", p, p + 1, h) BY <1>1, <1>2, <1>5, DerivedRuled DEF Rule
    <2>3. p \in 1..p + 1 BY SMT
    <2>4. QED BY <1>5, <2>1, <2>2, <2>3 DEF Reached
  <1>6. CASE s[p] = "colon" /\ at = "colon" /\ next = "value"
    <2>1. PICK b \in 1..p : Derived(s, "name", b, p, h) /\ Due(s, list, from, "member", b, h)
      BY <1>6 DEF Reached
    <2>2. ASSUME NEW j \in p + 1..Len(s) + 1, Derived(s, "value", p + 1, j, h)
          PROVE  Derived(s, list, from, j, h)
      <3>1. b \in 1..Len(s) + 1 /\ j \in 1..Len(s) + 1 /\ b <= p /\ p < j /\ j \in b..Len(s) + 1
        BY SMT
      <3>2. Derived(s, "member", b, j, h) BY <1>6, <2>1, <2>2, <3>1, DerivedPair
      <3>3. QED BY <2>1, <3>1, <3>2 DEF Due
    <2>3. QED BY <1>6, <2>2 DEF Reached, Due
  <1>7. ASSUME NEW item, s[p] = "comma", at = "delimiter",
               \/ list = "items" /\ next = "value" /\ item = "value"
               \/ list = "members" /\ next = "name" /\ item = "member"
        PROVE  Reached(s, list, from, next, p + 1, h)
    <2>1. Derived(s, list, from, p, h) BY <1>7 DEF Reached
    <2>2. ASSUME NEW j \in p + 1..Len(s) + 1, Derived(s, item, p + 1, j, h)
          PROVE  Derived(s, list, from, j, h)
      <3>1. j \in 1..Len(s) + 1 /\ from <= p /\ p < j BY SMT
      <3>2. QED BY <1>1, <1>7, <2>1, <2>2, <3>1, DerivedPair
    <2>3. QED BY <1>7, <2>2 DEF Reached, Due
  <1>8. QED BY <1>3, <1>4, <1>5, <1>6, <1>7

ListOf(kind) == IF kind = "ARRAY" THEN "items" ELSE "members"

\* The lists that are open when the place after the lexemes before p is k: from
\* where the q-th starts, and what its first lexemes derive.
Nested(s, list, from, k, p) ==
  /\ list[0] = "value" /\ from[0] = 1
  /\ \A q \in 1..Len(k.open) :
       /\ list[q] = ListOf(k.open[q]) /\ from[q] \in 2..p
       /\ s[from[q] - 1] = Opener(k.open[q])
       /\ Due(s, list[q - 1], from[q - 1], "value", from[q] - 1, Depth - (q - 1))
  /\ Reached(s, list[Len(k.open)], from[Len(k.open)], k.at, p, Depth - Len(k.open))

Sound(s, k, p) ==
  /\ Len(k.open) <= Depth
  /\ k.at = "end" => k.open = <<>>
  /\ k.at = "delimiter" => k.open # <<>>
  /\ \E list, from : Nested(s, list, from, k, p)

\* What is known of the innermost list.
LEMMA NestedTop ==
  ASSUME NEW s, Depth \in Nat, NEW k \in Configuration, NEW n \in Nat, NEW p \in 1..n,
         NEW list, NEW from, Nested(s, list, from, k, p), Len(k.open) <= Depth
  PROVE  /\ Len(k.open) \in Nat /\ Depth - Len(k.open) \in 0..Depth
         /\ k.open = <<>> <=> Len(k.open) = 0
         /\ list[Len(k.open)] \in Lists /\ from[Len(k.open)] \in 1..p
         /\ k.open # <<>> => /\ list[Len(k.open)] = ListOf(k.open[Len(k.open)])
                             /\ k.open[Len(k.open)] \in Kinds
PROOF
  <1>1. PICK o \in Seq(Kinds) : o = k.open BY DEF Configuration
  <1>2. Len(o) \in Nat /\ (o = <<>> <=> Len(o) = 0) BY EmptySeq
  <1>3. Depth - Len(o) \in 0..Depth BY <1>1, <1>2, SMT
  <1>4. CASE Len(o) = 0
    <2>1. list[Len(o)] = "value" /\ from[Len(o)] = 1 BY <1>1, <1>4 DEF Nested
    <2>2. QED BY <1>1, <1>2, <1>3, <1>4, <2>1 DEF Lists
  <1>5. CASE Len(o) # 0
    <2>1. Len(o) \in 1..Len(o) BY <1>2, <1>5
    <2>2. list[Len(o)] = ListOf(o[Len(o)]) /\ from[Len(o)] \in 2..p BY <1>1, <2>1 DEF Nested
    <2>3. o[Len(o)] \in Kinds BY <2>1
    <2>4. from[Len(o)] \in 1..p BY <2>2, SMT
    <2>5. list[Len(o)] \in Lists BY <2>2 DEF ListOf, Lists
    <2>6. QED BY <1>1, <1>2, <1>3, <2>2, <2>3, <2>4, <2>5
  <1>6. QED BY <1>4, <1>5

LEMMA SoundNext ==
  ASSUME NEW s, Len(s) \in Nat, Depth \in Nat, NEW p \in 1..Len(s),
         NEW k \in Configuration, NEW l \in Configuration, Sound(s, k, p), l.open = k.open,
         l.at = "end" => k.open = <<>>, l.at = "delimiter" => k.open # <<>>,
         \A list \in Lists, from \in 1..p, h \in 0..Depth :
           /\ Reached(s, list, from, k.at, p, h)
           /\ k.open # <<>> => list = ListOf(k.open[Len(k.open)])
           => Reached(s, list, from, l.at, p + 1, h)
  PROVE  Sound(s, l, p + 1)
PROOF
  <1>1. PICK list, from : Nested(s, list, from, k, p) BY DEF Sound
  <1>2. PICK m : m = Len(k.open) OBVIOUS
  <1>3. /\ m \in Nat /\ Depth - m \in 0..Depth /\ list[m] \in Lists /\ from[m] \in 1..p
        /\ k.open # <<>> => list[m] = ListOf(k.open[m])
    BY <1>1, <1>2, NestedTop DEF Sound
  <1>4. Reached(s, list[m], from[m], k.at, p, Depth - m) BY <1>1, <1>2 DEF Nested
  <1>5. Reached(s, list[m], from[m], l.at, p + 1, Depth - m) BY <1>2, <1>3, <1>4
  <1>6. \A q \in 1..m : from[q] \in 2..p => from[q] \in 2..p + 1 BY SMT
  <1>7. Nested(s, list, from, l, p + 1) BY <1>1, <1>2, <1>5, <1>6 DEF Nested
  <1>8. QED BY <1>7 DEF Sound

LEMMA SoundOpening ==
  ASSUME NEW s, Len(s) \in Nat, Depth \in Nat, NEW p \in 1..Len(s),
         NEW k \in Configuration, NEW l, Sound(s, k, p), Opening(k, s[p], l)
  PROVE  Sound(s, l, p + 1)
PROOF
  <1>1. PICK list, from : Nested(s, list, from, k, p) BY DEF Sound
  <1>2. PICK m : m = Len(k.open) OBVIOUS
  <1>3. /\ m \in Nat /\ Depth - m \in 0..Depth /\ list[m] \in Lists /\ from[m] \in 1..p
        /\ k.open # <<>> => list[m] = ListOf(k.open[m])
    BY <1>1, <1>2, NestedTop DEF Sound
  <1>4. PICK kind \in Kinds :
          s[p] = Opener(kind) /\ l = [open |-> Append(k.open, kind), at |-> "first"]
    BY DEF Opening
  <1>5. ValueDue(k) /\ m < Depth BY <1>2 DEF Opening
  <1>6. PICK o \in Seq(Kinds) : o = k.open BY DEF Configuration
  <1>7. PICK t : t = Append(o, kind) OBVIOUS
  <1>8. /\ t \in Seq(Kinds) /\ Len(t) = m + 1 /\ t[m + 1] = kind
        /\ \A q \in 1..m : t[q] = o[q]
    BY <1>2, <1>6, <1>7, AppendProperties
  <1>9. l.open = t /\ l.at = "first" BY <1>4, <1>6, <1>7
  <1>10. Due(s, list[m], from[m], "value", p, Depth - m)
    <2>1. Reached(s, list[m], from[m], k.at, p, Depth - m) BY <1>1, <1>2 DEF Nested
    <2>2. k.at = "first" => list[m] = "items"
      BY <1>2, <1>3, <1>5 DEF ValueDue, Inside, ListOf
    <2>3. QED BY <1>5, <2>1, <2>2 DEF Reached, ValueDue
  <1> DEFINE list2 == [q \in 0..m + 1 |-> IF q = m + 1 THEN ListOf(kind) ELSE list[q]]
             from2 == [q \in 0..m + 1 |-> IF q = m + 1 THEN p + 1 ELSE from[q]]
  <1>11. /\ \A q \in 0..m : list2[q] = list[q] /\ from2[q] = from[q]
         /\ list2[m + 1] = ListOf(kind) /\ from2[m + 1] = p + 1
    BY <1>3, SMT
  <1> HIDE DEF list2, from2
  <1>12. list2[0] = "value" /\ from2[0] = 1 BY <1>1, <1>3, <1>11, SMT DEF Nested
  <1>13. ASSUME NEW q \in 1..m + 1
         PROVE  /\ list2[q] = ListOf(t[q]) /\ from2[q] \in 2..p + 1
                /\ s[from2[q] - 1] = Opener(t[q])
                /\ Due(s, list2[q - 1], from2[q - 1], "value", from2[q] - 1, Depth - (q - 1))
    <2>1. q - 1 \in 0..m BY <1>3, SMT
    <2>2. CASE q = m + 1
      <3>1. q - 1 = m /\ p + 1 \in 2..p + 1 /\ (p + 1) - 1 = p BY <1>3, <2>2, SMT
      <3>2. QED BY <1>4, <1>8, <1>10, <1>11, <2>1, <2>2, <3>1
    <2>3. CASE q # m + 1
      <3>1. q \in 1..m /\ q \in 0..m BY <1>3, <2>3, SMT
      <3>2. /\ list[q] = ListOf(o[q]) /\ from[q] \in 2..p
            /\ s[from[q] - 1] = Opener(o[q])
            /\ Due(s, list[q - 1], from[q - 1], "value", from[q] - 1, Depth - (q - 1))
        BY <1>1, <1>2, <1>6, <3>1 DEF Nested
      <3>3. from[q] \in 2..p + 1 BY <3>2, SMT
      <3>4. QED BY <1>8, <1>11, <2>1, <3>1, <3>2, <3>3
    <2>4. QED BY <2>2, <2>3
  <1>14. Reached(s, ListOf(kind), p + 1, "first", p + 1, Depth - (m + 1))
    <2>1. p + 1 \in 1..Len(s) + 1 /\ Depth - (m + 1) \in 0..Depth BY <1>3, <1>5, SMT
    <2>2. {"nothing", "value", "member", "items", "members"} \subseteq Symbols BY DEF Symbols
    <2>3. Derived(s, "nothing", p + 1, p + 1, Depth - (m + 1))
      BY <2>1, <2>2, DerivedRuled DEF Rule
    <2>4. ASSUME NEW item, NEW j \in p + 1..Len(s) + 1,
                 \/ ListOf(kind) = "items" /\ item = "value"
                 \/ ListOf(kind) = "members" /\ item = "member",
                 Derived(s, item, p + 1, j, Depth - (m + 1))
          PROVE  Derived(s, ListOf(kind), p + 1, j, Depth - (m + 1))
      <3>1. j \in 1..Len(s) + 1 BY SMT
      <3>2. p + 1 < j
        <4>1. item \in Symbols /\ item # "nothing" BY <2>4, <2>2
        <4>2. Rule(s, Derives(s, Depth), item, p + 1, j, Depth - (m + 1))
          BY <2>1, <2>4, <3>1, <4>1, DerivedRuled
        <4>3. QED BY <4>1, <4>2 DEF Rule
      <3>3. Rule(s, Derives(s, Depth), ListOf(kind), p + 1, j, Depth - (m + 1))
        BY <2>4, <3>2 DEF Rule, Derived
      <3>4. ListOf(kind) \in Symbols BY <2>2, <2>4
      <3>5. QED BY <2>1, <3>1, <3>3, <3>4, DerivedRuled
    <2>5. QED BY <2>3, <2>4 DEF Reached, Due
  <1>15. Depth - Len(l.open) = Depth - (m + 1) /\ Len(l.open) = m + 1 BY <1>8, <1>9
  <1>16. Nested(s, list2, from2, l, p + 1)
    BY <1>9, <1>11, <1>12, <1>13, <1>14, <1>15 DEF Nested
  <1>17. m + 1 <= Depth BY <1>3, <1>5, SMT
  <1>18. QED BY <1>9, <1>15, <1>16, <1>17 DEF Sound

LEMMA SoundClosing ==
  ASSUME NEW s, Len(s) \in Nat, Depth \in Nat, NEW p \in 1..Len(s),
         NEW k \in Configuration, NEW l, Sound(s, k, p), Closing(k, s[p], l)
  PROVE  Sound(s, l, p + 1)
PROOF
  <1>1. PICK list, from : Nested(s, list, from, k, p) BY DEF Sound
  <1>2. PICK m : m = Len(k.open) OBVIOUS
  <1>3. PICK o \in Seq(Kinds) : o = k.open BY DEF Configuration
  <1>4. k.open # <<>> /\ s[p] = Closer(k.open[m]) BY <1>2 DEF Closing, Inside
  <1>5. m \in Nat \ {0} /\ m <= Depth /\ m \in 1..m /\ m - 1 \in Nat
    <2>1. m \in Nat /\ m # 0 BY <1>1, <1>2, <1>4, NestedTop DEF Sound
    <2>2. QED BY <1>2, <2>1, SMT DEF Sound
  <1>6. PICK n \in Nat : n = m - 1 BY <1>5
  <1>7. PICK t : t = SubSeq(o, 1, n) OBVIOUS
  <1>8. t \in Seq(Kinds) /\ Len(t) = n /\ \A q \in 1..n : t[q] = o[q]
    BY <1>2, <1>3, <1>5, <1>6, <1>7, SMT
  <1>9. l = Ended(t) BY <1>2, <1>3, <1>6, <1>7 DEF Closing
  <1>10. l.open = t /\ l.at = IF t = <<>> THEN "end" ELSE "delimiter" BY <1>9 DEF Ended
  <1>11. /\ list[m] = ListOf(o[m]) /\ from[m] \in 2..p
         /\ s[from[m] - 1] = Opener(o[m])
         /\ Due(s, list[n], from[n], "value", from[m] - 1, Depth - n)
    BY <1>1, <1>2, <1>3, <1>5, <1>6 DEF Nested
  <1>12. o[m] \in Kinds BY <1>2, <1>3, <1>5
  <1>13. PICK b \in 1..Len(s) + 1 : b = from[m] - 1 /\ b + 1 = from[m] /\ b < p
    BY <1>11, SMT
  <1>14. PICK h \in 0..Depth : h = Depth - n /\ h > 0 /\ h - 1 = Depth - m
    BY <1>5, <1>6, SMT
  <1>15. \/ Derived(s, "nothing", b + 1, p, h - 1)
         \/ Derived(s, ListOf(o[m]), b + 1, p, h - 1)
    <2>1. Reached(s, list[m], from[m], k.at, p, Depth - m) BY <1>1, <1>2 DEF Nested
    <2>2. k.at \in {"first", "delimiter"} BY DEF Closing
    <2>3. QED BY <1>11, <1>13, <1>14, <2>1, <2>2 DEF Reached
  <1>16. Derived(s, "value", b, p + 1, h)
    <2>1. p + 1 \in 1..Len(s) + 1 /\ b + 1 < p + 1 /\ b < p + 1 /\ (p + 1) - 1 = p BY <1>13, SMT
    <2>2. Enclosed(s, Derives(s, Depth), b, p + 1, h, Opener(o[m]), ListOf(o[m]), Closer(o[m]))
      BY <1>2, <1>3, <1>4, <1>11, <1>13, <1>14, <1>15, <2>1 DEF Enclosed, Derived
    <2>3. \/ Opener(o[m]) = "lbrack" /\ ListOf(o[m]) = "items" /\ Closer(o[m]) = "rbrack"
          \/ Opener(o[m]) = "lbrace" /\ ListOf(o[m]) = "members" /\ Closer(o[m]) = "rbrace"
      BY DEF Opener, ListOf, Closer
    <2>4. Rule(s, Derives(s, Depth), "value", b, p + 1, h)
      BY <2>1, <2>2, <2>3 DEF Rule
    <2>5. "value" \in Symbols BY DEF Symbols
    <2>6. QED BY <2>1, <2>4, <2>5, DerivedRuled
  <1>17. Derived(s, list[n], from[n], p + 1, Depth - n)
    <2>1. p + 1 \in b..Len(s) + 1 BY <1>13, SMT
    <2>2. QED BY <1>11, <1>13, <1>14, <1>16, <2>1 DEF Due
  <1>18. Reached(s, list[n], from[n], l.at, p + 1, Depth - n)
    BY <1>10, <1>17 DEF Reached
  <1>19. \A q \in 1..n : q \in 1..m /\ (from[q] \in 2..p => from[q] \in 2..p + 1)
    BY <1>5, <1>6, SMT
  <1>20. Nested(s, list, from, l, p + 1)
    BY <1>1, <1>2, <1>3, <1>8, <1>10, <1>18, <1>19 DEF Nested
  <1>21. n <= Depth BY <1>5, <1>6, SMT
  <1>22. QED BY <1>8, <1>10, <1>20, <1>21 DEF Sound

LEMMA SoundStep ==
  ASSUME NEW s, Len(s) \in Nat, Depth \in Nat, NEW p \in 1..Len(s),
         NEW k \in Configuration, NEW l \in Configuration, Sound(s, k, p), Follows(k, s[p], l)
  PROVE  Sound(s, l, p + 1)
PROOF
  <1>1. k.at \in Places /\ l.at \in Places /\ k.open \in Seq(Kinds) BY DEF Configuration
  <1>2. k.at = "delimiter" => k.open # <<>> BY DEF Sound
  <1>3. CASE Scalar(k, s[p], l)
    <2>1. l = Ended(k.open) /\ ValueDue(k) /\ s[p] \in {"str", "atom"} BY <1>3 DEF Scalar
    <2>2. /\ l.open = k.open /\ l.at \in {"delimiter", "end"}
          /\ l.at = "end" <=> k.open = <<>>
      BY <2>1 DEF Ended
    <2>3. k.at = "value" \/ (k.at = "first" /\ ListOf(k.open[Len(k.open)]) = "items" /\ k.open # <<>>)
      BY <2>1 DEF ValueDue, Inside, ListOf
    <2>4. QED BY <1>1, <2>1, <2>2, <2>3, ReachedNext, SoundNext
  <1>4. CASE Opening(k, s[p], l) BY <1>4, SoundOpening
  <1>5. CASE Closing(k, s[p], l) BY <1>5, SoundClosing
  <1>6. CASE Name(k, s[p], l)
    <2>1. /\ l.open = k.open /\ l.at = "colon" /\ k.at \in {"first", "name"} /\ s[p] = "str"
          /\ k.open # <<>> /\ ListOf(k.open[Len(k.open)]) = "members"
      BY <1>6 DEF Name, Inside, ListOf
    <2>2. QED BY <1>1, <2>1, ReachedNext, SoundNext
  <1>7. CASE Colon(k, s[p], l)
    <2>1. l.open = k.open /\ l.at = "value" /\ k.at = "colon" /\ s[p] = "colon"
      BY <1>7 DEF Colon
    <2>2. QED BY <1>1, <2>1, ReachedNext, SoundNext
  <1>8. CASE Comma(k, s[p], l)
    <2>1. /\ l.open = k.open /\ k.at = "delimiter" /\ s[p] = "comma" /\ k.open # <<>>
          /\ \/ ListOf(k.open[Len(k.open)]) = "items" /\ l.at = "value"
             \/ ListOf(k.open[Len(k.open)]) = "members" /\ l.at = "name"
      BY <1>2, <1>8 DEF Comma, Inside, ListOf
    <2>2. QED BY <1>1, <2>1, ReachedNext, SoundNext
  <1>9. CASE Blank(k, s[p], l)
    <2>1. l = k /\ s[p] = "ws" BY <1>9 DEF Blank
    <2>2. k.at = "end" => k.open = <<>> BY DEF Sound
    <2>3. QED BY <1>1, <1>2, <2>1, <2>2, ReachedNext, SoundNext
  <1>10. QED BY <1>3, <1>4, <1>5, <1>6, <1>7, <1>8, <1>9 DEF Follows

LEMMA SoundBeginning ==
  ASSUME NEW s, Len(s) \in Nat, Depth \in Nat
  PROVE  Sound(s, Beginning, 1)
PROOF
  <1>1. Beginning.open = <<>> /\ Beginning.at = "value" /\ Len(Beginning.open) = 0
    BY DEF Beginning
  <1>2. PICK list, from : list = [q \in {0} |-> "value"] /\ from = [q \in {0} |-> 1] OBVIOUS
  <1>3. list[0] = "value" /\ from[0] = 1 BY <1>2
  <1>4. Reached(s, list[0], from[0], "value", 1, Depth) BY <1>3 DEF Reached, Due
  <1>5. ~ \E q \in 1..0 : TRUE BY SMT
  <1>6. Depth - 0 = Depth BY SMT
  <1>7. Nested(s, list, from, Beginning, 1) BY <1>1, <1>3, <1>4, <1>5, <1>6 DEF Nested
  <1>8. QED BY <1>1, <1>7 DEF Sound

LEMMA RunFacts ==
  ASSUME NEW s, NEW n \in Nat, NEW run, Run(s, n, run)
  PROVE  /\ \A i \in 1..n + 1 : run[i] \in Configuration
         /\ \A i \in 1..n : i \in 1..n + 1 /\ i + 1 \in 1..n + 1
                            /\ Follows(run[i], s[i], run[i + 1])
         /\ run[1] = Beginning
PROOF
  <1>1. run \in Seq(Configuration) /\ Len(run) = n + 1 BY DEF Run
  <1>2. \A i \in 1..n + 1 : run[i] \in Configuration BY <1>1
  <1>3. \A i \in 1..n : i \in 1..n + 1 /\ i + 1 \in 1..n + 1 BY SMT
  <1>4. QED BY <1>2, <1>3 DEF Run

LEMMA FollowsIn ==
  ASSUME NEW k \in Configuration, NEW c, NEW l, Follows(k, c, l)
  PROVE  l \in Configuration
PROOF
  <1>1. PICK o \in Seq(Kinds) : o = k.open BY DEF Configuration
  <1>2. ASSUME NEW q \in Seq(Kinds), NEW p \in Places, l = [open |-> q, at |-> p]
        PROVE  l \in Configuration
    BY <1>2 DEF Configuration
  <1>3. ASSUME NEW q \in Seq(Kinds), l = Ended(q) PROVE l \in Configuration
    <2>1. PICK p \in Places : l = [open |-> q, at |-> p] BY <1>3 DEF Ended, Places
    <2>2. QED BY <1>2, <2>1
  <1>4. CASE Scalar(k, c, l) BY <1>1, <1>3, <1>4 DEF Scalar
  <1>5. CASE Opening(k, c, l)
    <2>1. PICK kind \in Kinds : l = [open |-> Append(o, kind), at |-> "first"]
      BY <1>1, <1>5 DEF Opening
    <2>2. Append(o, kind) \in Seq(Kinds) BY AppendProperties
    <2>3. "first" \in Places BY DEF Places
    <2>4. QED BY <1>2, <2>1, <2>2, <2>3
  <1>6. CASE Closing(k, c, l)
    <2>1. o # <<>> BY <1>1, <1>6 DEF Closing, Inside
    <2>2. PICK n \in Nat : n = Len(o) - 1 BY <2>1, SMT
    <2>3. SubSeq(o, 1, n) \in Seq(Kinds)
      <3>1. n <= Len(o) /\ Len(o) \in Nat BY <2>2, SMT
      <3>2. QED BY <2>2, <3>1, SMT
    <2>4. QED BY <1>1, <1>3, <1>6, <2>2, <2>3 DEF Closing
  <1>7. CASE Name(k, c, l) \/ Colon(k, c, l) \/ Comma(k, c, l)
    <2>1. {"colon", "value", "name"} \subseteq Places BY DEF Places
    <2>2. QED BY <1>1, <1>2, <1>7, <2>1 DEF Name, Colon, Comma
  <1>8. CASE Blank(k, c, l) BY <1>8 DEF Blank
  <1>9. QED BY <1>4, <1>5, <1>6, <1>7, <1>8 DEF Follows

\* A run goes on with the next lexeme ...
LEMMA RunOn ==
  ASSUME NEW s, NEW n \in Nat, NEW run, Run(s, n, run), NEW l, Follows(run[n + 1], s[n + 1], l)
  PROVE  \E r : Run(s, n + 1, r) /\ r[n + 2] = l
PROOF
  <1>1. run \in Seq(Configuration) /\ Len(run) = n + 1 BY DEF Run
  <1>2. n + 1 \in 1..n + 1 BY SMT
  <1>3. run[n + 1] \in Configuration BY <1>2, RunFacts
  <1>4. l \in Configuration BY <1>3, FollowsIn
  <1>5. PICK r : r = Append(run, l) OBVIOUS
  <1>6. /\ r \in Seq(Configuration) /\ Len(r) = n + 2 /\ r[n + 2] = l
        /\ \A i \in 1..n + 1 : r[i] = run[i]
    <2>1. /\ r \in Seq(Configuration) /\ Len(r) = Len(run) + 1 /\ r[Len(run) + 1] = l
          /\ \A i \in 1..Len(run) : r[i] = run[i]
      BY <1>1, <1>4, <1>5, AppendProperties
    <2>2. Len(run) + 1 = n + 2 BY <1>1, SMT
    <2>3. QED BY <1>1, <2>1, <2>2
  <1>7. r[1] = Beginning
    <2>1. 1 \in 1..n + 1 BY SMT
    <2>2. QED BY <1>6, <2>1, RunFacts
  <1>8. ASSUME NEW i \in 1..n + 1 PROVE Follows(r[i], s[i], r[i + 1])
    <2>1. CASE i \in 1..n
      <3>1. i + 1 \in 1..n + 1 BY <2>1, SMT
      <3>2. r[i] = run[i] /\ r[i + 1] = run[i + 1] BY <1>6, <2>1, <3>1
      <3>3. QED BY <2>1, <3>2, RunFacts
    <2>2. CASE i = n + 1
      <3>1. r[i] = run[n + 1] BY <1>6, <2>2
      <3>2. r[i + 1] = l
        <4>1. i + 1 = n + 2 BY <2>2, SMT
        <4>2. QED BY <1>6, <4>1
      <3>3. QED BY <2>2, <3>1, <3>2
    <2>3. i \in 1..n \/ i = n + 1 BY SMT
    <2>4. QED BY <2>1, <2>2, <2>3
  <1>9. Len(r) = (n + 1) + 1 BY <1>6, SMT
  <1>10. Run(s, n + 1, r) BY <1>6, <1>7, <1>8, <1>9 DEF Run
  <1>11. QED BY <1>6, <1>10

\* ... and is one on any other text that begins with the same lexemes.
LEMMA RunElsewhere ==
  ASSUME NEW s, NEW t, NEW n \in Nat, NEW run, Run(s, n, run), \A i \in 1..n : t[i] = s[i]
  PROVE  Run(t, n, run)
PROOF BY DEF Run

LEMMA RunBeginning ==
  ASSUME NEW s
  PROVE  Run(s, 0, <<Beginning>>) /\ <<Beginning>>[1] = Beginning
PROOF
  <1>1. PICK k : k = Beginning OBVIOUS
  <1>2. k \in Configuration
    <2>1. <<>> \in Seq(Kinds) OBVIOUS
    <2>2. QED BY <1>1, <2>1 DEF Beginning, Configuration, Places
  <1>3. <<k>> \in Seq(Configuration) /\ Len(<<k>>) = 1 /\ <<k>>[1] = k BY <1>2, SMT
  <1>4. ~ (\E i \in 1..0 : TRUE) /\ 0 + 1 = 1 BY SMT
  <1>5. QED BY <1>1, <1>3, <1>4 DEF Run

LEMMA RunSound ==
  ASSUME NEW s, Len(s) \in Nat, Depth \in Nat, NEW n \in 0..Len(s), NEW run, Run(s, n, run)
  PROVE  \A p \in 1..n + 1 : Sound(s, run[p], p)
PROOF
  <1> DEFINE Bad == {p \in 1..n + 1 : ~Sound(s, run[p], p)}
  <1>1. SUFFICES ASSUME Bad # {} PROVE FALSE OBVIOUS
  <1>2. Bad \subseteq Nat BY SMT
  <1>3. PICK p \in Bad : \A q \in Bad : p <= q BY <1>1, <1>2, LeastOf
  <1>4. p \in 1..n + 1 /\ ~Sound(s, run[p], p) OBVIOUS
  <1>5. n \in Nat BY SMT
  <1>6. CASE p = 1 BY <1>4, <1>5, <1>6, RunFacts, SoundBeginning
  <1>7. CASE p # 1
    <2>1. PICK q \in 1..n : p = q + 1 /\ q \in 1..n + 1 /\ ~(p <= q) BY <1>4, <1>7, SMT
    <2>2. Sound(s, run[q], q) BY <1>3, <2>1
    <2>3. run[q] \in Configuration /\ run[q + 1] \in Configuration
          /\ Follows(run[q], s[q], run[q + 1])
      BY <1>5, <2>1, RunFacts
    <2>4. q \in 1..Len(s) BY <2>1, SMT
    <2>5. Sound(s, run[p], p) BY <2>1, <2>2, <2>3, <2>4, SoundStep
    <2>6. QED BY <1>4, <2>5
  <1>8. QED BY <1>6, <1>7

\* A run that gets to the end has read a value of the grammar: whatever lexemes
\* it took, in whatever containers, they are derived by the rules, and nest no
\* deeper than Depth.
THEOREM RunDerived ==
  ASSUME NEW s, Len(s) \in Nat, Depth \in Nat, NEW n \in 0..Len(s), NEW run,
         Run(s, n, run), run[n + 1].at = "end"
  PROVE  Derives(s, Depth)[<<"value", 1, n + 1, Depth>>]
PROOF
  <1>1. n \in Nat /\ n + 1 \in 1..n + 1 BY SMT
  <1>2. PICK k \in Configuration : k = run[n + 1] BY <1>1, RunFacts
  <1>3. Sound(s, k, n + 1) BY <1>1, <1>2, RunSound
  <1>4. k.open = <<>> /\ Len(k.open) = 0 BY <1>2, <1>3 DEF Sound
  <1>5. PICK list, from : Nested(s, list, from, k, n + 1) BY <1>3 DEF Sound
  <1>6. Reached(s, list[0], from[0], "end", n + 1, Depth - 0) /\ list[0] = "value" /\ from[0] = 1
    BY <1>2, <1>4, <1>5 DEF Nested
  <1>7. Depth - 0 = Depth BY SMT
  <1>8. QED BY <1>6, <1>7 DEF Reached, Derived

-----------------------------------------------------------------------------
(* What is derived, a run leads through: one that cannot go on has not     *)
(* stopped within it.                                                      *)

LEMMA FollowsOne ==
  ASSUME NEW k, NEW c, NEW l, NEW m, Follows(k, c, l), Follows(k, c, m)
  PROVE  l = m
PROOF
  <1> USE DEF Kinds, Opener, Closer
  <1>1. CASE Scalar(k, c, l)
    BY <1>1 DEF Follows, Scalar, Opening, Closing, Name, Colon, Comma, Blank, ValueDue, Inside
  <1>2. CASE Opening(k, c, l)
    BY <1>2 DEF Follows, Scalar, Opening, Closing, Name, Colon, Comma, Blank
  <1>3. CASE Closing(k, c, l)
    BY <1>3 DEF Follows, Scalar, Opening, Closing, Name, Colon, Comma, Blank
  <1>4. CASE Name(k, c, l)
    BY <1>4 DEF Follows, Scalar, Opening, Closing, Name, Colon, Comma, Blank, ValueDue, Inside
  <1>5. CASE Colon(k, c, l) \/ Comma(k, c, l) \/ Blank(k, c, l)
    BY <1>5 DEF Follows, Scalar, Opening, Closing, Name, Colon, Comma, Blank
  <1>6. QED BY <1>1, <1>2, <1>3, <1>4, <1>5 DEF Follows

\* run goes as far into s as it can.
Halted(s, n, run) ==
  /\ Run(s, n, run)
  /\ n < Len(s) => ~ \E l : Follows(run[n + 1], s[n + 1], l)

LEMMA Takes ==
  ASSUME NEW s, Len(s) \in Nat, NEW n \in 0..Len(s), NEW run, Halted(s, n, run)
  PROVE  \A i \in 1..n + 1 : \A l : i <= Len(s) /\ Follows(run[i], s[i], l)
           => i + 1 \in 1..n + 1 /\ run[i + 1] = l
PROOF
  <1> SUFFICES ASSUME NEW i \in 1..n + 1, i <= Len(s), NEW l, Follows(run[i], s[i], l)
               PROVE  i + 1 \in 1..n + 1 /\ run[i + 1] = l
    BY Zenon
  <1>1. n \in Nat BY SMT
  <1>2. i # n + 1
    <2> SUFFICES ASSUME i = n + 1 PROVE FALSE OBVIOUS
    <2>1. n < Len(s) BY <1>1, SMT
    <2>2. QED BY <2>1 DEF Halted
  <1>3. i \in 1..n BY <1>2, SMT
  <1>4. i + 1 \in 1..n + 1 /\ Follows(run[i], s[i], run[i + 1])
    BY <1>1, <1>3, RunFacts DEF Halted
  <1>5. QED BY <1>4, FollowsOne

\* Where symbol may start, and where the run is behind it.
Ready(symbol, k, h) ==
  /\ symbol \in {"value", "items"} => ValueDue(k)
  /\ symbol = "items" => Inside(k, "ARRAY")
  /\ symbol \in {"name", "member", "members"} => k.at \in {"first", "name"} /\ Inside(k, "OBJECT")
  /\ Len(k.open) + h <= Depth

After(symbol, k) ==
  CASE symbol = "nothing" -> k
    [] symbol = "name" -> [open |-> k.open, at |-> "colon"]
    [] OTHER -> Ended(k.open)

\* The run does not stop within the span.
Reads(n, run, symbol, i, j, h) ==
  i \in 1..n + 1 /\ Ready(symbol, run[i], h) => j \in 1..n + 1 /\ run[j] = After(symbol, run[i])

LEMMA ReadsSpace ==
  ASSUME NEW s, Len(s) \in Nat, NEW n \in 0..Len(s), NEW run, Halted(s, n, run), Spaced,
         NEW i \in 1..n + 1, i <= Len(s), s[i] = "ws"
  PROVE  i + 1 \in 1..n + 1 /\ run[i + 1] = run[i]
PROOF
  <1>1. Follows(run[i], s[i], run[i]) BY DEF Follows, Blank
  <1>2. \A p \in 1..n + 1 : \A l : p <= Len(s) /\ Follows(run[p], s[p], l)
           => p + 1 \in 1..n + 1 /\ run[p + 1] = l
    BY Takes
  <1>3. \A l : i <= Len(s) /\ Follows(run[i], s[i], l)
           => i + 1 \in 1..n + 1 /\ run[i + 1] = l
    BY <1>2
  <1>4. QED BY <1>1, <1>3

PairRead(s, n, run, symbol, first, separator, second) ==
  \A i \in 1..n + 1, m \in 1..Len(s), j \in 1..Len(s) + 1, h \in Nat :
    /\ s[m] = separator /\ Ready(symbol, run[i], h)
    /\ Reads(n, run, first, i, m, h) /\ Reads(n, run, second, m + 1, j, h)
    => j \in 1..n + 1 /\ run[j] = After(symbol, run[i])

LEMMA ReadsPair ==
  ASSUME NEW s, Len(s) \in Nat, NEW n \in 0..Len(s), NEW run, Halted(s, n, run),
         NEW symbol, NEW first, NEW separator, NEW second,
         \/ symbol = "items" /\ first = "items" /\ separator = "comma" /\ second = "value"
         \/ symbol = "member" /\ first = "name" /\ separator = "colon" /\ second = "value"
         \/ symbol = "members" /\ first = "members" /\ separator = "comma" /\ second = "member"
  PROVE  PairRead(s, n, run, symbol, first, separator, second)
PROOF
  <1> SUFFICES ASSUME NEW i \in 1..n + 1, NEW m \in 1..Len(s), NEW j \in 1..Len(s) + 1,
                      NEW h \in Nat, s[m] = separator, Ready(symbol, run[i], h),
                      Reads(n, run, first, i, m, h), Reads(n, run, second, m + 1, j, h)
               PROVE  j \in 1..n + 1 /\ run[j] = After(symbol, run[i])
    BY Zenon DEF PairRead
  <1>1. PICK k : k = run[i] OBVIOUS
  <1>2. Ready(first, k, h) BY <1>1 DEF Ready
  <1>3. m \in 1..n + 1 /\ run[m] = After(first, k) BY <1>1, <1>2 DEF Reads
  <1>4. k.open # <<>> BY <1>1 DEF Ready, Inside
  <1>5. PICK l : l = [open |-> k.open, at |-> IF symbol = "members" THEN "name" ELSE "value"]
    OBVIOUS
  <1>6. Follows(run[m], s[m], l)
    <2>1. CASE symbol = "items"
      <3>1. run[m] = [open |-> k.open, at |-> "delimiter"]
        BY <1>3, <1>4, <2>1 DEF After, Ended
      <3>2. Inside(run[m], "ARRAY") BY <1>1, <2>1, <3>1 DEF Ready, Inside
      <3>3. QED BY <1>5, <2>1, <3>1, <3>2 DEF Follows, Comma
    <2>2. CASE symbol = "member"
      <3>1. run[m] = [open |-> k.open, at |-> "colon"] BY <1>3, <2>2 DEF After
      <3>2. QED BY <1>5, <2>2, <3>1 DEF Follows, Colon
    <2>3. CASE symbol = "members"
      <3>1. run[m] = [open |-> k.open, at |-> "delimiter"]
        BY <1>3, <1>4, <2>3 DEF After, Ended
      <3>2. ~Inside(run[m], "ARRAY") BY <1>1, <2>3, <3>1 DEF Ready, Inside
      <3>3. QED BY <1>5, <2>3, <3>1, <3>2 DEF Follows, Comma
    <2>4. QED BY <2>1, <2>2, <2>3
  <1>7. m + 1 \in 1..n + 1 /\ run[m + 1] = l
    <2>1. \A p \in 1..n + 1 : \A u : p <= Len(s) /\ Follows(run[p], s[p], u)
           => p + 1 \in 1..n + 1 /\ run[p + 1] = u
    BY Takes
    <2>2. m <= Len(s) BY SMT
    <2>3. QED BY <1>3, <1>6, <2>1, <2>2
  <1>8. Ready(second, l, h) BY <1>1, <1>5 DEF Ready, ValueDue, Inside
  <1>9. j \in 1..n + 1 /\ run[j] = After(second, l) BY <1>7, <1>8 DEF Reads
  <1>10. After(second, l) = After(symbol, k) BY <1>5 DEF After
  <1>11. QED BY <1>1, <1>9, <1>10

EnclosedRead(s, n, run, kind) ==
  \A i \in 1..n + 1, j \in 1..Len(s) + 1, h \in Nat :
    /\ h > 0 /\ i + 1 < j /\ s[i] = Opener(kind) /\ s[j - 1] = Closer(kind)
    /\ Ready("value", run[i], h)
    /\ \/ Reads(n, run, "nothing", i + 1, j - 1, h - 1)
       \/ Reads(n, run, ListOf(kind), i + 1, j - 1, h - 1)
    => j \in 1..n + 1 /\ run[j] = Ended(run[i].open)

LEMMA ReadsEnclosed ==
  ASSUME NEW s, Len(s) \in Nat, NEW n \in 0..Len(s), NEW run, Halted(s, n, run), Depth \in Nat,
         NEW kind \in Kinds
  PROVE  EnclosedRead(s, n, run, kind)
PROOF
  <1> SUFFICES ASSUME NEW i \in 1..n + 1, NEW j \in 1..Len(s) + 1, NEW h \in Nat,
                      h > 0, i + 1 < j, s[i] = Opener(kind), s[j - 1] = Closer(kind),
                      Ready("value", run[i], h),
                      \/ Reads(n, run, "nothing", i + 1, j - 1, h - 1)
                      \/ Reads(n, run, ListOf(kind), i + 1, j - 1, h - 1)
               PROVE  j \in 1..n + 1 /\ run[j] = Ended(run[i].open)
    BY Zenon DEF EnclosedRead
  <1>1. PICK k \in Configuration : k = run[i] BY RunFacts, SMT DEF Halted
  <1>2. PICK o \in Seq(Kinds) : o = k.open BY DEF Configuration
  <1>3. PICK t : t = Append(o, kind) OBVIOUS
  <1>4. PICK d : d = Len(o) OBVIOUS
  <1>5. d \in Nat /\ d + h <= Depth BY <1>1, <1>2, <1>4 DEF Ready
  <1>6. /\ t \in Seq(Kinds) /\ Len(t) = d + 1 /\ t[d + 1] = kind /\ t # <<>>
        /\ SubSeq(t, 1, d) = o
    <2>1. /\ t \in Seq(Kinds) /\ Len(t) = d + 1 /\ t[d + 1] = kind
          /\ \A q \in 1..d : t[q] = o[q]
      BY <1>3, <1>4, AppendProperties
    <2>2. PICK u : u = SubSeq(t, 1, d) OBVIOUS
    <2>3. u \in Seq(Kinds) /\ Len(u) = d /\ \A q \in 1..d : u[q] = t[q]
      BY <1>5, <2>1, <2>2, SMT
    <2>4. u = o BY <1>4, <2>1, <2>3, SeqEqual
    <2>5. t # <<>> BY <1>3
    <2>6. QED BY <2>1, <2>2, <2>4, <2>5
  <1>7. PICK l : l = [open |-> t, at |-> "first"] OBVIOUS
  <1>8. Follows(k, s[i], l)
    <2>1. ValueDue(k) BY <1>1 DEF Ready
    <2>2. d < Depth BY <1>5, SMT
    <2>3. Opening(k, s[i], l) BY <1>2, <1>3, <1>4, <1>7, <2>1, <2>2 DEF Opening
    <2>4. QED BY <2>3 DEF Follows
  <1>9. i <= Len(s) BY SMT
  <1>17. \A p \in 1..n + 1 : \A u : p <= Len(s) /\ Follows(run[p], s[p], u)
           => p + 1 \in 1..n + 1 /\ run[p + 1] = u
    BY Takes
  <1>10. i + 1 \in 1..n + 1 /\ run[i + 1] = l BY <1>1, <1>8, <1>9, <1>17
  <1>11. Inside(l, kind) BY <1>6, <1>7 DEF Inside
  <1>12. Ready("nothing", l, h - 1) /\ Ready(ListOf(kind), l, h - 1)
    <2>1. Len(l.open) + (h - 1) <= Depth BY <1>5, <1>6, <1>7, SMT
    <2>2. CASE kind = "ARRAY" BY <1>7, <1>11, <2>1, <2>2 DEF Ready, ListOf, ValueDue
    <2>3. CASE kind = "OBJECT" BY <1>7, <1>11, <2>1, <2>3 DEF Ready, ListOf
    <2>4. QED BY <2>2, <2>3 DEF Kinds
  <1>13. j - 1 \in 1..n + 1 /\ run[j - 1].open = t /\ run[j - 1].at \in {"first", "delimiter"}
    <2>1. After("nothing", l) = l BY DEF After
    <2>2. After(ListOf(kind), l) = [open |-> t, at |-> "delimiter"]
      BY <1>6, <1>7 DEF After, ListOf, Ended
    <2>3. QED BY <1>7, <1>10, <1>12, <2>1, <2>2 DEF Reads
  <1>14. Follows(run[j - 1], s[j - 1], Ended(o))
    <2>1. Inside(run[j - 1], kind) BY <1>6, <1>13 DEF Inside
    <2>2. (d + 1) - 1 = d BY <1>5, SMT
    <2>3. Ended(SubSeq(t, 1, Len(t) - 1)) = Ended(o) BY <1>6, <2>2
    <2>4. Closing(run[j - 1], s[j - 1], Ended(o)) BY <1>13, <2>1, <2>3 DEF Closing
    <2>5. QED BY <2>4 DEF Follows
  <1>15. j - 1 <= Len(s) /\ (j - 1) + 1 = j BY SMT
  <1>16. QED BY <1>1, <1>2, <1>13, <1>14, <1>15, <1>17

\* One span, when the run does not stop within any shorter one.
LEMMA ReadsRuled ==
  ASSUME NEW s, Len(s) \in Nat, NEW n \in 0..Len(s), NEW run, Halted(s, n, run),
         Depth \in Nat, Spaced,
         NEW symbol \in Symbols, NEW i \in 1..Len(s) + 1, NEW j \in 1..Len(s) + 1,
         NEW h \in 0..Depth, Derived(s, symbol, i, j, h),
         \A y \in Spans(s, Depth) :
           Size(y) < Size(<<symbol, i, j, h>>) /\ Derives(s, Depth)[y]
             => Reads(n, run, y[1], y[2], y[3], y[4])
  PROVE  Reads(n, run, symbol, i, j, h)
PROOF
  <1>1. SUFFICES ASSUME i \in 1..n + 1, Ready(symbol, run[i], h)
                 PROVE  j \in 1..n + 1 /\ run[j] = After(symbol, run[i])
    BY DEF Reads
  <1>2. Rule(s, Derives(s, Depth), symbol, i, j, h) BY DerivedRuled
  <1>3. ASSUME NEW other \in Symbols, NEW a \in 1..Len(s) + 1, NEW b \in 1..Len(s) + 1,
               NEW e \in 0..Depth, i < j, Derived(s, other, a, b, e),
               \/ b <= a \/ 2 * (b - a) + 1 < 2 * (j - i)
               \/ other = symbol /\ b - a < j - i
               \/ /\ b - a = j - i /\ other \in {"value", "member"}
                  /\ symbol \in {"items", "members"}
        PROVE  Reads(n, run, other, a, b, e)
    <2>1. PICK y : y = <<other, a, b, e>> OBVIOUS
    <2>2. y \in Spans(s, Depth) /\ y[1] = other /\ y[2] = a /\ y[3] = b /\ y[4] = e
      BY <2>1 DEF Spans
    <2>3. i \in Int /\ j \in Int /\ a \in Int /\ b \in Int BY SMT
    <2>4. Size(y) < Size(<<symbol, i, j, h>>) BY <1>3, <2>1, <2>3, Shorter
    <2>5. Derives(s, Depth)[y] BY <1>3, <2>1 DEF Derived
    <2>6. Reads(n, run, y[1], y[2], y[3], y[4]) BY <2>2, <2>4, <2>5
    <2>7. QED BY <2>2, <2>6
  <1>4. \A p \in 1..n + 1 : \A l : p <= Len(s) /\ Follows(run[p], s[p], l)
          => p + 1 \in 1..n + 1 /\ run[p + 1] = l
    BY Takes
  <1>5. {"nothing", "value", "items", "name", "member", "members"} \subseteq Symbols /\ h \in Nat
    BY SMT DEF Symbols
  <1>6. CASE symbol = "nothing" /\ i = j BY <1>1, <1>6 DEF After
  <1>7. ASSUME i < j, s[i] = "ws", Derived(s, symbol, i + 1, j, h)
        PROVE  j \in 1..n + 1 /\ run[j] = After(symbol, run[i])
    <2>1. i + 1 \in 1..Len(s) + 1 /\ i <= Len(s) /\ j - (i + 1) < j - i BY <1>7, SMT
    <2>2. Reads(n, run, symbol, i + 1, j, h) BY <1>3, <1>7, <2>1
    <2>3. Follows(run[i], s[i], run[i]) BY <1>7 DEF Follows, Blank
    <2>4. i + 1 \in 1..n + 1 /\ run[i + 1] = run[i] BY <1>1, <1>4, <2>1, <2>3
    <2>5. QED BY <1>1, <2>2, <2>4 DEF Reads
  <1>8. ASSUME i < j, s[j - 1] = "ws", Derived(s, symbol, i, j - 1, h)
        PROVE  j \in 1..n + 1 /\ run[j] = After(symbol, run[i])
    <2>1. /\ j - 1 \in 1..Len(s) + 1 /\ j - 1 <= Len(s) /\ (j - 1) - i < j - i
          /\ (j - 1) + 1 = j
      BY <1>8, SMT
    <2>2. Reads(n, run, symbol, i, j - 1, h) BY <1>3, <1>8, <2>1
    <2>3. j - 1 \in 1..n + 1 /\ run[j - 1] = After(symbol, run[i]) BY <1>1, <2>2 DEF Reads
    <2>4. Follows(run[j - 1], s[j - 1], run[j - 1]) BY <1>8 DEF Follows, Blank
    <2>5. QED BY <1>4, <2>1, <2>3, <2>4
  <1>9. ASSUME symbol = "value" \/ symbol = "name", i < j, j = i + 1,
               s[i] = "str" \/ (symbol = "value" /\ s[i] = "atom")
        PROVE  j \in 1..n + 1 /\ run[j] = After(symbol, run[i])
    <2>1. Follows(run[i], s[i], After(symbol, run[i]))
      BY <1>1, <1>9 DEF Ready, After, Follows, Scalar, Name
    <2>2. i <= Len(s) BY <1>9, SMT
    <2>3. QED BY <1>1, <1>4, <1>9, <2>1, <2>2
  <1>10. ASSUME NEW kind \in Kinds, symbol = "value", i < j,
                Enclosed(s, Derives(s, Depth), i, j, h, Opener(kind), ListOf(kind), Closer(kind))
         PROVE  j \in 1..n + 1 /\ run[j] = After(symbol, run[i])
    <2>1. /\ h > 0 /\ i + 1 < j /\ s[i] = Opener(kind) /\ s[j - 1] = Closer(kind)
          /\ \/ Derived(s, "nothing", i + 1, j - 1, h - 1)
             \/ Derived(s, ListOf(kind), i + 1, j - 1, h - 1)
      BY <1>10 DEF Enclosed, Derived
    <2>2. /\ i + 1 \in 1..Len(s) + 1 /\ j - 1 \in 1..Len(s) + 1 /\ h - 1 \in 0..Depth
          /\ 2 * ((j - 1) - (i + 1)) + 1 < 2 * (j - i)
      <3>1. h > 0 /\ i + 1 < j BY <2>1
      <3>2. QED BY <3>1, SMT
    <2>3. ListOf(kind) \in Symbols BY <1>5 DEF ListOf
    <2>4. \/ Reads(n, run, "nothing", i + 1, j - 1, h - 1)
          \/ Reads(n, run, ListOf(kind), i + 1, j - 1, h - 1)
      BY <1>3, <1>5, <1>10, <2>1, <2>2, <2>3
    <2>5. j \in 1..n + 1 /\ run[j] = Ended(run[i].open)
      <3>1. EnclosedRead(s, n, run, kind) BY ReadsEnclosed
      <3>2. QED BY <1>1, <1>5, <1>10, <2>1, <2>4, <3>1 DEF EnclosedRead
    <2>6. QED BY <1>10, <2>5 DEF After
  <1>11. ASSUME NEW first, NEW separator, NEW second, i < j,
                \/ symbol = "items" /\ first = "items" /\ separator = "comma" /\ second = "value"
                \/ symbol = "member" /\ first = "name" /\ separator = "colon" /\ second = "value"
                \/ symbol = "members" /\ first = "members" /\ separator = "comma" /\ second = "member",
                Pair(s, Derives(s, Depth), i, j, h, first, separator, second)
         PROVE  j \in 1..n + 1 /\ run[j] = After(symbol, run[i])
    <2>1. PICK m \in i..j - 1 :
            s[m] = separator /\ Derived(s, first, i, m, h) /\ Derived(s, second, m + 1, j, h)
      BY <1>11 DEF Pair, Derived
    <2>2. /\ m \in 1..Len(s) + 1 /\ m \in 1..Len(s) /\ m + 1 \in 1..Len(s) + 1
          /\ 2 * (m - i) + 1 < 2 * (j - i) /\ 2 * (j - (m + 1)) + 1 < 2 * (j - i)
      BY <1>11, SMT
    <2>3. first \in Symbols /\ second \in Symbols BY <1>5, <1>11
    <2>4. Reads(n, run, first, i, m, h) BY <1>3, <1>11, <2>1, <2>2, <2>3
    <2>5. Reads(n, run, second, m + 1, j, h) BY <1>3, <1>11, <2>1, <2>2, <2>3
    <2>6. PairRead(s, n, run, symbol, first, separator, second)
      <3>1. \/ symbol = "items" /\ first = "items" /\ separator = "comma" /\ second = "value"
            \/ symbol = "member" /\ first = "name" /\ separator = "colon" /\ second = "value"
            \/ symbol = "members" /\ first = "members" /\ separator = "comma" /\ second = "member"
        BY <1>11
      <3>2. QED BY <3>1, ReadsPair
    <2>7. QED BY <1>1, <1>5, <1>11, <2>1, <2>2, <2>4, <2>5, <2>6 DEF PairRead
  <1>12. ASSUME NEW item, i < j, Derived(s, item, i, j, h),
                \/ symbol = "items" /\ item = "value"
                \/ symbol = "members" /\ item = "member"
         PROVE  j \in 1..n + 1 /\ run[j] = After(symbol, run[i])
    <2>1. Reads(n, run, item, i, j, h) BY <1>3, <1>5, <1>12
    <2>2. Ready(item, run[i], h) BY <1>1, <1>12 DEF Ready
    <2>3. After(item, run[i]) = After(symbol, run[i]) BY <1>12 DEF After
    <2>4. QED BY <1>1, <2>1, <2>2, <2>3 DEF Reads
  <1>13. CASE i < j /\ symbol = "value"
              /\ \/ Enclosed(s, Derives(s, Depth), i, j, h, "lbrack", "items", "rbrack")
                 \/ Enclosed(s, Derives(s, Depth), i, j, h, "lbrace", "members", "rbrace")
    <2>1. /\ "ARRAY" \in Kinds /\ "OBJECT" \in Kinds
          /\ Opener("ARRAY") = "lbrack" /\ ListOf("ARRAY") = "items" /\ Closer("ARRAY") = "rbrack"
          /\ Opener("OBJECT") = "lbrace" /\ ListOf("OBJECT") = "members"
          /\ Closer("OBJECT") = "rbrace"
      BY DEF Kinds, Opener, ListOf, Closer
    <2>2. QED BY <1>10, <1>13, <2>1
  <1>14. QED
    BY <1>2, <1>6, <1>7, <1>8, <1>9, <1>11, <1>12, <1>13 DEF Rule, Derived

LEMMA DerivedRead ==
  ASSUME NEW s, Len(s) \in Nat, NEW n \in 0..Len(s), NEW run, Halted(s, n, run),
         Depth \in Nat, Spaced
  PROVE  \A x \in Spans(s, Depth) :
           Derives(s, Depth)[x] => Reads(n, run, x[1], x[2], x[3], x[4])
PROOF
  <1> DEFINE Bad == {x \in Spans(s, Depth) :
                      Derives(s, Depth)[x] /\ ~Reads(n, run, x[1], x[2], x[3], x[4])}
             Sizes == {Size(x) : x \in Bad}
  <1>1. SUFFICES ASSUME Bad # {} PROVE FALSE OBVIOUS
  <1>2. Sizes \subseteq Nat /\ Sizes # {}
    <2>1. \A x \in Bad : Size(x) \in Nat BY SpanFields
    <2>2. QED BY <1>1, <2>1
  <1>3. PICK m \in Sizes : \A k \in Sizes : m <= k BY <1>2, LeastOf
  <1>4. PICK x \in Bad : m = Size(x) OBVIOUS
  <1>5. /\ x \in Spans(s, Depth) /\ Derives(s, Depth)[x]
        /\ ~Reads(n, run, x[1], x[2], x[3], x[4])
    OBVIOUS
  <1>6. PICK symbol \in Symbols, i \in 1..Len(s) + 1, j \in 1..Len(s) + 1, h \in 0..Depth :
          x = <<symbol, i, j, h>> /\ x[1] = symbol /\ x[2] = i /\ x[3] = j /\ x[4] = h
    BY <1>5, SpanFields
  <1>7. ASSUME NEW y \in Spans(s, Depth), Size(y) < Size(<<symbol, i, j, h>>), Derives(s, Depth)[y]
        PROVE  Reads(n, run, y[1], y[2], y[3], y[4])
    <2>1. Size(y) \in Nat /\ m \in Nat BY <1>2, <1>3, SpanFields
    <2>2. ~(m <= Size(y)) BY <1>4, <1>6, <1>7, <2>1
    <2>3. y \notin Bad BY <1>3, <2>2
    <2>4. QED BY <1>7, <2>3
  <1>8. Derived(s, symbol, i, j, h) BY <1>5, <1>6 DEF Derived
  <1>9. Reads(n, run, symbol, i, j, h) BY <1>7, <1>8, ReadsRuled
  <1>10. QED BY <1>5, <1>6, <1>9

\* A run on a text that begins with a value of the grammar is not stopped before
\* the end of that value, and is at the end there: no rule of the grammar is
\* without its configurations.
THEOREM DerivedRun ==
  ASSUME NEW s, Len(s) \in Nat, NEW n \in 0..Len(s), NEW run, Halted(s, n, run),
         Depth \in Nat, Spaced, NEW e \in 1..Len(s) + 1,
         Derives(s, Depth)[<<"value", 1, e, Depth>>]
  PROVE  e \in 1..n + 1 /\ run[e].at = "end"
PROOF
  <1>1. PICK x : x = <<"value", 1, e, Depth>> OBVIOUS
  <1>2. x \in Spans(s, Depth) /\ x[1] = "value" /\ x[2] = 1 /\ x[3] = e /\ x[4] = Depth
    BY <1>1, SMT DEF Spans, Symbols
  <1>3. Reads(n, run, x[1], x[2], x[3], x[4]) BY <1>1, <1>2, DerivedRead
  <1>4. Reads(n, run, "value", 1, e, Depth) BY <1>2, <1>3
  <1>5. 1 \in 1..n + 1 /\ n \in Nat BY SMT
  <1>6. run[1] = Beginning BY <1>5, RunFacts DEF Halted
  <1>7. Ready("value", Beginning, Depth) BY SMT DEF Ready, ValueDue, Beginning
  <1>8. e \in 1..n + 1 /\ run[e] = After("value", Beginning)
    BY <1>4, <1>5, <1>6, <1>7 DEF Reads
  <1>9. QED BY <1>8 DEF After, Ended, Beginning
=============================================================================
