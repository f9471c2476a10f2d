------------------------------ MODULE LexProofs ------------------------------
(***************************************************************************)
(* Theorems about Lex, for every set of texts and every width of u64 that  *)
(* holds a digit.                                                          *)
(***************************************************************************)
EXTENDS Lex, FiniteSetTheorems, SequenceTheorems, TLAPS

(* One turn of scan_int's loop, for each base of IntPrefix: its division   *)
(* reports an overflow exactly when the product and the sum would leave    *)
(* u64, and otherwise its result is the one of unbounded arithmetic.       *)
THEOREM AccumulateExact ==
  ASSUME NEW base \in {2, 8, 10, 16}, NEW digit \in 0 .. base - 1, NEW val \in 0 .. UINT64_MAX
  PROVE  Accumulate(val, digit, base) =
           IF val * base + digit <= UINT64_MAX THEN val * base + digit ELSE OVERFLOW
<1> DEFINE room == UINT64_MAX - digit
           q    == room \div base
<1>1. UINT64_MAX \in Nat /\ room \in Nat /\ val \in Nat /\ digit \in Nat
  BY LexAssumption
<1>2. q \in Nat /\ base * q <= room /\ room < base * (q + 1)
  <2>1. base = 2 \/ base = 8 \/ base = 10 \/ base = 16
    OBVIOUS
  <2> HIDE DEF room
  <2>2. CASE base = 2 BY <1>1, <2>2
  <2>3. CASE base = 8 BY <1>1, <2>3
  <2>4. CASE base = 10 BY <1>1, <2>4
  <2>5. CASE base = 16 BY <1>1, <2>5
  <2> QED BY <2>1, <2>2, <2>3, <2>4, <2>5
<1> HIDE DEF q
<1>3. val <= q <=> val * base + digit <= UINT64_MAX
  <2>1. CASE base = 2 BY <1>1, <1>2, <2>1
  <2>2. CASE base = 8 BY <1>1, <1>2, <2>2
  <2>3. CASE base = 10 BY <1>1, <1>2, <2>3
  <2>4. CASE base = 16 BY <1>1, <1>2, <2>4
  <2> QED BY <2>1, <2>2, <2>3, <2>4
<1>4. val * base + digit \in Nat
  <2>1. CASE base = 2 BY <1>1, <2>1
  <2>2. CASE base = 8 BY <1>1, <2>2
  <2>3. CASE base = 10 BY <1>1, <2>3
  <2>4. CASE base = 16 BY <1>1, <2>4
  <2> QED BY <2>1, <2>2, <2>3, <2>4
<1>5. ASSUME NEW n \in 0 .. UINT64_MAX PROVE n % (UINT64_MAX + 1) = n
  BY <1>1, SMT
<1>6. CASE val <= q
  <2>1. Accumulate(val, digit, base) = (val * base + digit) % (UINT64_MAX + 1)
    BY <1>1, <1>2, <1>6 DEF Accumulate, q
  <2> QED BY <1>1, <1>3, <1>4, <1>5, <1>6, <2>1
<1>7. CASE ~ (val <= q)
  BY <1>1, <1>2, <1>3, <1>7 DEF Accumulate, q
<1> QED BY <1>6, <1>7

-----------------------------------------------------------------------------
(* A set of numbers that is not empty has a least one: induction, where a  *)
(* recursive definition or a loop needs it, is from a least counterexample.*)
LEMMA LeastNumber ==
  ASSUME NEW T \in SUBSET Nat, T # {}
  PROVE  \E m \in T : \A n \in T : m <= n
<1> DEFINE U == {0 .. n : n \in T}
<1>1. U \subseteq FiniteSubsetsOf(Nat)
  <2>1. \A n \in T : IsFiniteSet(0 .. n) /\ 0 .. n \subseteq Nat
    BY FS_Interval
  <2> QED BY <2>1 DEF FiniteSubsetsOf
<1>2. U # {} OBVIOUS
<1>3. PICK x \in U : \A y \in U : ~ (<<y, x>> \in StrictSubsetOrdering(Nat))
  <2> HIDE DEF U
  <2> QED BY <1>1, <1>2, FS_StrictSubsetOrderingWellFounded, WFMin
<1>4. PICK m \in T : x = 0 .. m OBVIOUS
<1>5. ASSUME NEW n \in T, n < m PROVE FALSE
  <2>1. 0 .. n \in U OBVIOUS
  <2>2. 0 .. n \subseteq 0 .. m /\ m \in 0 .. m /\ m \notin 0 .. n BY <1>5
  <2>3. 0 .. n \in SUBSET Nat /\ 0 .. m \in SUBSET Nat OBVIOUS
  <2>4. <<0 .. n, 0 .. m>> \in StrictSubsetOrdering(Nat)
    BY <2>2, <2>3, Zenon DEF StrictSubsetOrdering
  <2> QED BY <1>3, <1>4, <2>1, <2>4
<1> QED BY <1>4, <1>5

LEMMA GreatestNumber ==
  ASSUME NEW b \in Nat, NEW T \in SUBSET (0 .. b), T # {}
  PROVE  \E m \in T : \A n \in T : n <= m
<1> DEFINE R == {b - n : n \in T}
<1>1. R \in SUBSET Nat /\ R # {}
  <2>1. \A n \in T : b - n \in Nat
    OBVIOUS
  <2> QED BY <2>1
<1>2. PICK k \in R : \A n \in R : k <= n
  <2> HIDE DEF R
  <2> QED BY <1>1, LeastNumber
<1>3. PICK m \in T : k = b - m
  OBVIOUS
<1>4. \A n \in T : b - m <= b - n
  BY <1>2, <1>3
<1>5. \A n \in T : n <= m
  BY <1>4
<1> QED BY <1>5

(* The text ends in a null byte and has none before. *)
SourceOK == source \in Seq(STRING \ {NUL})

LEMMA Ends ==
  ASSUME SourceOK
  PROVE  /\ Len(source) \in Nat /\ At(Len(source) + 1) = NUL
         /\ \A i \in 1 .. Len(source) : At(i) = source[i] /\ At(i) # NUL
         /\ \A i \in 1 .. Len(source) + 1 : At(i) # NUL => i <= Len(source)
BY DEF SourceOK, At

(* A loop stops at the first character it does not step over, the null     *)
(* byte at the latest.                                                     *)
LEMMA SpanEnds ==
  ASSUME SourceOK, NEW C, NUL \notin C, NEW i \in 1 .. Len(source) + 1
  PROVE  /\ SpanEnd(i, C) \in i .. Len(source) + 1
         /\ At(SpanEnd(i, C)) \notin C
         /\ \A k \in i .. SpanEnd(i, C) - 1 : At(k) \in C
<1> DEFINE T == {j \in i .. Len(source) + 1 : At(j) \notin C}
<1>1. Len(source) \in Nat /\ Len(source) + 1 \in T /\ T \in SUBSET Nat
  BY Ends
<1>2. PICK j \in T : \A n \in T : j <= n
  BY <1>1, LeastNumber
<1>3. \A k \in i .. j - 1 : At(k) \in C
  BY <1>1, <1>2
<1>4. j \in i .. Len(source) + 1 /\ At(j) \notin C
  BY <1>2
<1> QED BY <1>3, <1>4 DEF SpanEnd

(* The next token starts at a character the scanner has a case for.        *)
LEMMA TokenStarts ==
  ASSUME SourceOK, stream \in 1 .. Len(source) + 1
  PROVE  /\ TokenStart \in stream .. Len(source) + 1
         /\ At(TokenStart) \notin Space /\ ~ Invalid(At(TokenStart))
<1> DEFINE T == {j \in stream .. Len(source) + 1 : At(j) \notin Space /\ ~ Invalid(At(j))}
<1>1. NUL \notin Space /\ ~ Invalid(NUL)
  BY Zenon DEF NUL, Space, Invalid, Cased, Operators
<1>2. Len(source) \in Nat /\ Len(source) + 1 \in T /\ T \in SUBSET Nat
  BY <1>1, Ends
<1>3. PICK j \in T : \A n \in T : j <= n
  BY <1>2, LeastNumber
<1>4. \A k \in stream .. j - 1 : At(k) \in Space \/ Invalid(At(k))
  BY <1>2, <1>3
<1> QED BY <1>3, <1>4 DEF TokenStart

-----------------------------------------------------------------------------
(* The recursive function of scan_int's loop is there. *)
LEMMA AccumulatedTurn ==
  ASSUME NEW first \in Nat, NEW last \in Nat, first <= last, NEW base
  PROVE  LET val == Accumulated(first, last, base)
         IN  /\ val[first] = 0
             /\ \A k \in first + 1 .. last :
                  val[k] = IF val[k - 1] = OVERFLOW THEN OVERFLOW
                           ELSE Accumulate(val[k - 1], IntDigit(k - 1, base), base)
<1> DEFINE Turn(f, k) == IF k = first THEN 0
                         ELSE IF f[k - 1] = OVERFLOW THEN OVERFLOW
                         ELSE Accumulate(f[k - 1], IntDigit(k - 1, base), base)
           Upto(f, n) == f = [k \in first .. n |-> Turn(f, k)]
           T == {n \in first .. last : ~ \E f : Upto(f, n)}
<1>1. T = {}
  <2> SUFFICES ASSUME T # {} PROVE FALSE
    OBVIOUS
  <2>1. PICK m \in T : \A n \in T : m <= n
    <3>1. T \in SUBSET Nat
      OBVIOUS
    <3> HIDE DEF T
    <3> QED BY <3>1, LeastNumber
  <2>2. CASE m = first
    <3>1. Upto([k \in first .. first |-> 0], first)
      OBVIOUS
    <3> QED BY <2>1, <2>2, <3>1
  <2>3. CASE m > first
    <3>1. m - 1 \in first .. last /\ m - 1 \notin T
      BY <2>1, <2>3
    <3>2. PICK f : Upto(f, m - 1)
      BY <3>1
    <3> DEFINE g == [k \in first .. m |-> Turn(f, k)]
    <3>3. \A k \in first .. m - 1 : g[k] = f[k]
      BY <3>2
    <3>4. ASSUME NEW k \in first .. m PROVE Turn(g, k) = Turn(f, k)
      <4> HIDE DEF g
      <4>1. k = first \/ k - 1 \in first .. m - 1
        OBVIOUS
      <4> QED BY <3>3, <4>1
    <3>5. Upto(g, m)
      BY <3>4
    <3> QED BY <2>1, <3>5
  <2> QED BY <2>1, <2>2, <2>3
<1>2. \E f : Upto(f, last)
  <2>1. last \in first .. last /\ last \notin T
    <3> HIDE DEF T
    <3> QED BY <1>1
  <2> QED BY <2>1
<1>3. Upto(Accumulated(first, last, base), last)
  BY <1>2, Zenon DEF Accumulated
<1> QED BY <1>3

LEMMA IntDigitRange ==
  \A k : \A base \in {2, 8, 10, 16} : IntDigit(k, base) \in 0 .. base - 1
<1>1. \A c : hex_char_to_digit(c) \in 0 .. 15
  BY DEF hex_char_to_digit
<1> QED BY <1>1 DEF IntDigit

(* No turn leaves the word, and one that overflows is found. *)
LEMMA AccumulatedRange ==
  ASSUME NEW first \in Nat, NEW last \in Nat, first <= last, NEW base \in {2, 8, 10, 16}
  PROVE  LET val == Accumulated(first, last, base)
         IN  /\ \A k \in first .. last : val[k] \in 0 .. UINT64_MAX \union {OVERFLOW}
             /\ val[last] = OVERFLOW =>
                  \E k \in first .. last - 1 : val[k] # OVERFLOW /\ val[k + 1] = OVERFLOW
<1> DEFINE val == Accumulated(first, last, base)
           T == {k \in first .. last : val[k] \notin 0 .. UINT64_MAX \union {OVERFLOW}}
           O == {k \in first .. last : val[k] = OVERFLOW}
<1>0. UINT64_MAX \in Nat /\ OVERFLOW = -1
  BY LexAssumption DEF OVERFLOW
<1>1. /\ val[first] = 0
      /\ \A k \in first + 1 .. last :
           val[k] = IF val[k - 1] = OVERFLOW THEN OVERFLOW
                    ELSE Accumulate(val[k - 1], IntDigit(k - 1, base), base)
  BY AccumulatedTurn
<1> HIDE DEF val
<1>2. ASSUME NEW k \in first + 1 .. last, val[k - 1] \in 0 .. UINT64_MAX \union {OVERFLOW}
      PROVE  val[k] \in 0 .. UINT64_MAX \union {OVERFLOW}
  <2>1. CASE val[k - 1] = OVERFLOW
    BY <1>1, <2>1
  <2>2. CASE val[k - 1] \in 0 .. UINT64_MAX
    <3> DEFINE d == IntDigit(k - 1, base)
    <3>1. d \in 0 .. base - 1
      BY IntDigitRange
    <3>2. val[k - 1] * base + d \in Nat
      <4> HIDE DEF d
      <4> QED BY <1>0, <2>2, <3>1
    <3>3. Accumulate(val[k - 1], d, base) =
            IF val[k - 1] * base + d <= UINT64_MAX THEN val[k - 1] * base + d ELSE OVERFLOW
      BY <2>2, <3>1, AccumulateExact
    <3>4. val[k] = Accumulate(val[k - 1], d, base)
      BY <1>0, <1>1, <2>2
    <3> HIDE DEF d
    <3> QED BY <1>0, <3>2, <3>3, <3>4
  <2> QED BY <1>2, <2>1, <2>2
<1>3. T = {}
  <2> SUFFICES ASSUME T # {} PROVE FALSE
    OBVIOUS
  <2>1. PICK m \in T : \A n \in T : m <= n
    <3>1. T \in SUBSET Nat
      OBVIOUS
    <3> HIDE DEF T
    <3> QED BY <3>1, LeastNumber
  <2>2. m # first
    BY <1>0, <1>1
  <2>3. m \in first + 1 .. last /\ m - 1 \in first .. last /\ m - 1 \notin T
    BY <2>1, <2>2
  <2> QED BY <1>2, <2>1, <2>3
<1>4. ASSUME val[last] = OVERFLOW
      PROVE  \E k \in first .. last - 1 : val[k] # OVERFLOW /\ val[k + 1] = OVERFLOW
  <2>1. PICK m \in O : \A n \in O : m <= n
    <3>1. O \in SUBSET Nat /\ last \in O
      BY <1>4
    <3> HIDE DEF O
    <3> QED BY <3>1, LeastNumber
  <2>2. m # first
    BY <1>0, <1>1
  <2>3. m - 1 \in first .. last - 1 /\ m - 1 \notin O /\ (m - 1) + 1 = m
    BY <2>1, <2>2
  <2> QED BY <2>1, <2>3
<1> QED BY <1>3, <1>4 DEF val

-----------------------------------------------------------------------------
(* The recursive function of the reference is there too: its weights are   *)
(* positive, its last place is empty, and each place but that one adds the *)
(* digit at it.                                                            *)
Weighs(weight, value, first, last, base) ==
  /\ weight[last] = 1 /\ value[last] = 0
  /\ \A k \in first .. last : weight[k] \in Nat \ {0} /\ value[k] \in Nat
  /\ \A k \in first .. last - 1 :
       /\ weight[k] = weight[k + 1] * base
       /\ value[k] = value[k + 1] + weight[k + 1] * IntDigit(k, base)
  /\ Positional(first, last, base) = value[first]

LEMMA Places ==
  ASSUME NEW first \in Nat, NEW last \in Nat, first <= last, NEW base \in {2, 8, 10, 16}
  PROVE  \E weight, value : Weighs(weight, value, first, last, base)
<1> DEFINE Turn(f, k) == IF k = last THEN [weight |-> 1, value |-> 0]
                         ELSE [weight |-> f[k + 1].weight * base,
                               value  |-> f[k + 1].value + f[k + 1].weight * IntDigit(k, base)]
           From(f, n) == f = [k \in n .. last |-> Turn(f, k)]
           T == {n \in first .. last : ~ \E f : From(f, n)}
<1>1. T = {}
  <2> SUFFICES ASSUME T # {} PROVE FALSE
    OBVIOUS
  <2>1. PICK m \in T : \A n \in T : n <= m
    <3>1. T \in SUBSET (0 .. last)
      OBVIOUS
    <3> HIDE DEF T
    <3> QED BY <3>1, GreatestNumber
  <2>2. CASE m = last
    <3>1. From([k \in last .. last |-> [weight |-> 1, value |-> 0]], last)
      OBVIOUS
    <3> QED BY <2>1, <2>2, <3>1
  <2>3. CASE m < last
    <3>1. m + 1 \in first .. last /\ m + 1 \notin T
      BY <2>1, <2>3
    <3>2. PICK f : From(f, m + 1)
      BY <3>1
    <3> DEFINE g == [k \in m .. last |-> Turn(f, k)]
    <3>3. \A k \in m + 1 .. last : g[k] = f[k]
      BY <3>2
    <3>4. ASSUME NEW k \in m .. last PROVE Turn(g, k) = Turn(f, k)
      <4> HIDE DEF g
      <4>1. k = last \/ k + 1 \in m + 1 .. last
        OBVIOUS
      <4> QED BY <3>3, <4>1
    <3>5. From(g, m)
      BY <3>4
    <3> QED BY <2>1, <3>5
  <2> QED BY <2>1, <2>2, <2>3
<1> DEFINE place == CHOOSE f : From(f, first)
<1>2. \E f : From(f, first)
  <2>1. first \in first .. last /\ first \notin T
    <3> HIDE DEF T
    <3> QED BY <1>1
  <2> QED BY <2>1
<1>3. From(place, first)
  BY <1>2, Zenon
<1>4. Positional(first, last, base) = place[first].value
  BY DEF Positional
<1> HIDE DEF place
<1> DEFINE weight == [k \in first .. last |-> place[k].weight]
           value  == [k \in first .. last |-> place[k].value]
<1>5. \A k \in first .. last : place[k] = Turn(place, k)
  BY <1>3
<1>6. weight[last] = 1 /\ value[last] = 0 /\ last \in first .. last /\ first \in first .. last
  <2>1. last \in first .. last /\ first \in first .. last
    OBVIOUS
  <2>2. place[last] = [weight |-> 1, value |-> 0]
    BY <1>5, <2>1
  <2> QED BY <2>1, <2>2
<1>7. ASSUME NEW k \in first .. last - 1
      PROVE  /\ weight[k] = weight[k + 1] * base
             /\ value[k] = value[k + 1] + weight[k + 1] * IntDigit(k, base)
  <2>1. k \in first .. last /\ k # last /\ k + 1 \in first .. last
    OBVIOUS
  <2>2. place[k] = [weight |-> place[k + 1].weight * base,
                    value  |-> place[k + 1].value + place[k + 1].weight * IntDigit(k, base)]
    BY <1>5, <2>1
  <2> QED BY <2>1, <2>2
<1>8. Positional(first, last, base) = value[first]
  BY <1>4, <1>6
<1> HIDE DEF weight, value
<1>9. \A k \in first .. last : weight[k] \in Nat \ {0} /\ value[k] \in Nat
  <2> DEFINE U == {n \in first .. last : ~ (weight[n] \in Nat \ {0} /\ value[n] \in Nat)}
  <2> SUFFICES ASSUME U # {} PROVE FALSE
    OBVIOUS
  <2>1. PICK m \in U : \A n \in U : n <= m
    <3>1. U \in SUBSET (0 .. last)
      OBVIOUS
    <3> HIDE DEF U
    <3> QED BY <3>1, GreatestNumber
  <2>2. m # last
    BY <1>6, <2>1
  <2>3. m \in first .. last - 1 /\ m + 1 \in first .. last /\ m + 1 \notin U
    BY <2>1, <2>2
  <2>4. PICK w \in Nat \ {0} : w = weight[m + 1]
    BY <2>3
  <2>5. PICK v \in Nat : v = value[m + 1]
    BY <2>3
  <2>6. PICK d \in Nat : d = IntDigit(m, base)
    BY IntDigitRange
  <2>7. w * base \in Nat \ {0} /\ w * d \in Nat
    BY SMT
  <2>8. weight[m] = w * base /\ value[m] = v + w * d
    BY <1>7, <2>3, <2>4, <2>5, <2>6
  <2> QED BY <2>1, <2>7, <2>8
<1>10. Weighs(weight, value, first, last, base)
  BY <1>6, <1>7, <1>8, <1>9 DEF Weighs
<1> QED BY <1>10

(* scan_int's loop against the reference: a turn that does not overflow    *)
(* has the value of the digits so far, and one that does shows that the    *)
(* value of the whole number leaves the word.  The reference may begin at  *)
(* a zero that the loop has stepped over.                                  *)
TurnsExact(start, first, last, base) ==
  LET val  == Accumulated(first, last, base)
      over == {k \in first .. last - 1 : val[k] # OVERFLOW /\ val[k + 1] = OVERFLOW}
  IN  /\ Positional(start, last, base) \in Nat
      /\ val[last] # OVERFLOW =>
           val[last] = Positional(start, last, base) /\ val[last] \in 0 .. UINT64_MAX
      /\ val[last] = OVERFLOW => over # {}
      /\ over # {} => Positional(start, last, base) > UINT64_MAX

LEMMA AccumulatedExact ==
  ASSUME NEW start \in Nat, NEW first \in Nat, NEW last \in Nat, first <= last,
         NEW base \in {2, 8, 10, 16},
         start = first \/ (start = first - 1 /\ IntDigit(start, base) = 0)
  PROVE  TurnsExact(start, first, last, base)
<1> DEFINE val  == Accumulated(first, last, base)
           goal == Positional(start, last, base)
<1>0. UINT64_MAX \in Nat /\ OVERFLOW = -1
  BY LexAssumption DEF OVERFLOW
<1>1. PICK weight, value :
        /\ weight[last] = 1 /\ value[last] = 0
        /\ \A k \in start .. last : weight[k] \in Nat \ {0} /\ value[k] \in Nat
        /\ \A k \in start .. last - 1 :
             /\ weight[k] = weight[k + 1] * base
             /\ value[k] = value[k + 1] + weight[k + 1] * IntDigit(k, base)
        /\ goal = value[start]
  <2>1. start <= last
    OBVIOUS
  <2>2. \E weight, value : Weighs(weight, value, start, last, base)
    BY <2>1, Places
  <2> QED BY <2>2, Zenon DEF Weighs
<1>2. /\ val[first] = 0
      /\ \A k \in first + 1 .. last :
           val[k] = IF val[k - 1] = OVERFLOW THEN OVERFLOW
                    ELSE Accumulate(val[k - 1], IntDigit(k - 1, base), base)
      /\ \A k \in first .. last : val[k] \in 0 .. UINT64_MAX \union {OVERFLOW}
  <2>1. base \in {2, 8, 10, 16} /\ first \in Nat /\ last \in Nat /\ first <= last
    OBVIOUS
  <2>2. /\ val[first] = 0
        /\ \A k \in first + 1 .. last :
             val[k] = IF val[k - 1] = OVERFLOW THEN OVERFLOW
                      ELSE Accumulate(val[k - 1], IntDigit(k - 1, base), base)
    BY AccumulatedTurn
  <2>3. \A k \in first .. last : val[k] \in 0 .. UINT64_MAX \union {OVERFLOW}
    BY <2>1, AccumulatedRange, Zenon
  <2> QED BY <2>2, <2>3
<1> HIDE DEF val, goal
<1>3. goal = value[first] /\ goal \in Nat
  <2>1. CASE start = first
    BY <1>1, <2>1
  <2>2. CASE start = first - 1 /\ IntDigit(start, base) = 0
    <3>1. start \in start .. last - 1 /\ start + 1 = first /\ first \in start .. last
      BY <2>2
    <3>2. value[start] = value[first] + weight[first] * 0
      BY <1>1, <2>2, <3>1
    <3>3. weight[first] \in Nat /\ value[first] \in Nat
      BY <1>1, <3>1
    <3> QED BY <1>1, <3>2, <3>3
  <2> QED BY <2>1, <2>2
(* One turn, over numbers. *)
<1>4. ASSUME NEW k \in first .. last - 1, val[k] # OVERFLOW,
             goal = val[k] * weight[k] + value[k]
      PROVE  /\ val[k + 1] # OVERFLOW => goal = val[k + 1] * weight[k + 1] + value[k + 1]
             /\ val[k + 1] = OVERFLOW => goal > UINT64_MAX
  <2>1. k \in first .. last /\ k + 1 \in first + 1 .. last /\ k + 1 \in start .. last
        /\ k \in start .. last - 1 /\ (k + 1) - 1 = k
    OBVIOUS
  <2>2. PICK a \in 0 .. UINT64_MAX : a = val[k]
    BY <1>2, <1>4, <2>1
  <2>3. PICK d \in 0 .. base - 1 : d = IntDigit(k, base)
    BY IntDigitRange
  <2>4. PICK w \in Nat \ {0} : w = weight[k + 1]
    BY <1>1, <2>1
  <2>5. PICK v \in Nat : v = value[k + 1]
    BY <1>1, <2>1
  <2>6. goal = a * (w * base) + (v + w * d)
    BY <1>1, <1>4, <2>1, <2>2, <2>3, <2>4, <2>5
  <2>7. val[k + 1] = IF a * base + d <= UINT64_MAX THEN a * base + d ELSE OVERFLOW
    <3>1. val[k + 1] = Accumulate(a, d, base)
      BY <1>2, <1>4, <2>1, <2>2, <2>3
    <3> QED BY <3>1, AccumulateExact
  <2>8. a \in Nat /\ d \in Nat /\ a * base + d \in Nat
    <3>1. a \in Nat /\ d \in Nat
      BY <1>0
    <3> QED BY <3>1
  <2>9. goal = (a * base + d) * w + v
    BY <2>6, <2>8
  <2> DEFINE s == a * base + d
  <2>10. goal = s * w + v /\ s \in Nat
    BY <2>8, <2>9
  <2>11. val[k + 1] = IF s <= UINT64_MAX THEN s ELSE OVERFLOW
    BY <2>7
  <2> HIDE DEF s
  <2>12. s * w >= s
    BY <2>10
  <2> QED BY <1>0, <2>4, <2>5, <2>10, <2>11, <2>12
<1> DEFINE W == {k \in first .. last : val[k] # OVERFLOW /\ goal # val[k] * weight[k] + value[k]}
<1>5. W = {}
  <2> SUFFICES ASSUME W # {} PROVE FALSE
    OBVIOUS
  <2>1. PICK m \in W : \A n \in W : m <= n
    <3>1. W \in SUBSET Nat
      OBVIOUS
    <3> HIDE DEF W
    <3> QED BY <3>1, LeastNumber
  <2>2. m # first
    <3>1. first \in start .. last
      OBVIOUS
    <3>2. weight[first] \in Nat /\ value[first] \in Nat
      BY <1>1, <3>1
    <3>3. goal = 0 * weight[first] + value[first]
      BY <1>3, <3>2
    <3> QED BY <1>2, <2>1, <3>3
  <2>3. m - 1 \in first .. last - 1 /\ m - 1 \in first .. last /\ m - 1 \notin W /\ (m - 1) + 1 = m
        /\ m \in first + 1 .. last
    BY <2>1, <2>2
  <2>4. val[m - 1] # OVERFLOW
    BY <1>2, <2>1, <2>3
  <2> QED BY <1>4, <2>1, <2>3, <2>4
<1>6. val[last] # OVERFLOW => val[last] = goal /\ val[last] \in 0 .. UINT64_MAX
  <2>1. last \in first .. last
    OBVIOUS
  <2>2. val[last] # OVERFLOW => goal = val[last] * 1 + 0
    BY <1>1, <1>5, <2>1
  <2> QED BY <1>2, <2>1, <2>2
<1>7. ASSUME NEW k \in first .. last - 1, val[k] # OVERFLOW, val[k + 1] = OVERFLOW
      PROVE  goal > UINT64_MAX
  <2>1. k \in first .. last
    OBVIOUS
  <2> QED BY <1>4, <1>5, <1>7, <2>1
<1>8. val[last] = OVERFLOW => \E k \in first .. last - 1 : val[k] # OVERFLOW /\ val[k + 1] = OVERFLOW
  <2>1. base \in {2, 8, 10, 16} /\ first \in Nat /\ last \in Nat /\ first <= last
    OBVIOUS
  <2> QED BY <2>1, AccumulatedRange, Zenon DEF val
<1> QED BY <1>3, <1>6, <1>7, <1>8, Zenon DEF TurnsExact, val, goal
(* The loop of scan_str stops past the null byte only if the last          *)
(* character of the text is a backslash.                                   *)
StringTurn(body, j) ==
  IF j > Len(source) + 1 \/ At(j) \in {NUL, DQUOTE, "\n"} THEN [stop |-> j, chars |-> << >>, errs |-> {}]
  ELSE LET escaped == At(j) = "\\"
           rest == body[IF escaped THEN j + 2 ELSE j + 1]
           c    == IF escaped THEN char_to_escape(At(j + 1)) ELSE At(j)
       IN  [stop  |-> rest.stop,
            chars |-> IF c = NUL THEN << >> ELSE << c >> \o rest.chars,
            errs  |-> (IF escaped THEN BadEscape(j + 1) ELSE {}) \union rest.errs]

LEMMA StringTurnUses ==
  ASSUME SourceOK, NEW j \in 1 .. Len(source) + 2, NEW f, NEW g,
         \A k \in j + 1 .. Len(source) + 2 : f[k] = g[k]
  PROVE  StringTurn(f, j) = StringTurn(g, j)
<1>1. CASE j > Len(source) + 1 \/ At(j) \in {NUL, DQUOTE, "\n"}
  BY <1>1 DEF StringTurn
<1>2. CASE ~ (j > Len(source) + 1 \/ At(j) \in {NUL, DQUOTE, "\n"})
  <2>1. Len(source) \in Nat /\ j \in 1 .. Len(source)
    <3>1. Len(source) \in Nat /\ j <= Len(source) + 1 /\ At(j) # NUL
      <4>1. Len(source) \in Nat
        BY Ends
      <4>2. ~ (j > Len(source) + 1) /\ At(j) # NUL
        BY <1>2
      <4> QED BY <4>1, <4>2
    <3>2. j \in 1 .. Len(source) + 1
      BY <3>1
    <3> QED BY <3>1, <3>2, Ends
  <2>2. f[j + 1] = g[j + 1] /\ f[j + 2] = g[j + 2]
    BY <2>1
  <2>3. f[IF At(j) = "\\" THEN j + 2 ELSE j + 1] = g[IF At(j) = "\\" THEN j + 2 ELSE j + 1]
    BY <2>2
  <2> QED BY <2>3 DEF StringTurn
<1> QED BY <1>1, <1>2

LEMMA StringBodyTurn ==
  ASSUME SourceOK, NEW i \in 1 .. Len(source)
  PROVE  \A j \in i + 1 .. Len(source) + 2 : StringBody(i)[j] = StringTurn(StringBody(i), j)
<1>0. PICK limit \in Nat : limit = Len(source) + 1 /\ i \in Nat /\ i < limit
  BY Ends
<1> DEFINE From(f, n) == f = [j \in n .. limit + 1 |-> StringTurn(f, j)]
           T == {n \in i + 1 .. limit + 1 : ~ \E f : From(f, n)}
<1>1. T = {}
  <2> SUFFICES ASSUME T # {} PROVE FALSE
    OBVIOUS
  <2>1. PICK m \in T : \A n \in T : n <= m
    <3>1. T \in SUBSET (0 .. limit + 1) /\ limit + 1 \in Nat
      OBVIOUS
    <3> HIDE DEF T
    <3> QED BY <3>1, GreatestNumber
  <2>2. m \in i + 1 .. limit + 1 /\ ~ \E f : From(f, m)
    BY <2>1
  <2>3. \E f : From(f, m)
    <3>1. CASE m = limit + 1
      <4> DEFINE g == [j \in m .. limit + 1 |-> [stop |-> j, chars |-> << >>, errs |-> {}]]
      <4>1. \A j \in m .. limit + 1 : StringTurn(g, j) = [stop |-> j, chars |-> << >>, errs |-> {}]
        <5>1. \A j \in m .. limit + 1 : j > Len(source) + 1
          BY <1>0, <3>1
        <5> QED BY <5>1 DEF StringTurn
      <4>2. From(g, m)
        BY <4>1
      <4> QED BY <4>2
    <3>2. CASE m <= limit
      <4>1. m + 1 \in i + 1 .. limit + 1 /\ m + 1 \notin T
        BY <1>0, <2>1, <2>2, <3>2
      <4>2. PICK f : From(f, m + 1)
        BY <4>1
      <4> DEFINE g == [j \in m .. limit + 1 |-> StringTurn(f, j)]
      <4>3. ASSUME NEW j \in m + 1 .. limit + 1 PROVE g[j] = f[j]
        <5>1. j \in m .. limit + 1 /\ f[j] = StringTurn(f, j)
          BY <1>0, <2>2, <4>2
        <5> QED BY <5>1
      <4>4. ASSUME NEW j \in m .. limit + 1 PROVE StringTurn(g, j) = StringTurn(f, j)
        <5>1. j \in 1 .. Len(source) + 2 /\ \A k \in j + 1 .. Len(source) + 2 : g[k] = f[k]
          <6> HIDE DEF g
          <6> QED BY <1>0, <2>2, <4>3
        <5> HIDE DEF g
        <5> QED BY <5>1, StringTurnUses
      <4>5. From(g, m)
        BY <4>4
      <4> QED BY <4>5
    <3> QED BY <1>0, <2>2, <3>1, <3>2
  <2> QED BY <2>2, <2>3
<1>2. i + 1 \in i + 1 .. limit + 1
  BY <1>0
<1>3. PICK f : From(f, i + 1)
  BY <1>1, <1>2
<1>4. \E g : g = [j \in i + 1 .. (Len(source) + 1) + 1 |-> StringTurn(g, j)]
  BY <1>0, <1>3
<1>5. StringBody(i) = [j \in i + 1 .. (Len(source) + 1) + 1 |-> StringTurn(StringBody(i), j)]
  BY <1>4, Zenon DEF StringBody, StringTurn
<1> QED BY <1>0, <1>5

LEMMA StringTurnStops ==
  \A body, j :
    StringTurn(body, j).stop = IF j > Len(source) + 1 \/ At(j) \in {NUL, DQUOTE, "\n"} THEN j
                               ELSE IF At(j) = "\\" THEN body[j + 2].stop ELSE body[j + 1].stop
BY DEF StringTurn

(* So it stops past the null byte only after a backslash that ends the     *)
(* text.                                                                   *)
LEMMA StringStops ==
  ASSUME SourceOK, NEW i \in 1 .. Len(source)
  PROVE  LET stop == StringBody(i)[i + 1].stop
         IN  /\ stop \in i + 1 .. Len(source) + 2
             /\ stop > Len(source) + 1 => source[Len(source)] = "\\" /\ Len(source) > i
<1>0. PICK n \in Nat : n = Len(source) /\ i \in Nat /\ 1 <= i /\ i <= n
  BY Ends
<1> DEFINE body == StringBody(i)
           OK(j) == /\ body[j].stop \in j .. n + 2
                    /\ j <= n + 1 /\ body[j].stop > n + 1 => j <= n /\ source[n] = "\\"
           T == {j \in i + 1 .. n + 2 : ~ OK(j)}
<1>1. \A j \in i + 1 .. n + 2 : body[j] = StringTurn(body, j)
  BY <1>0, StringBodyTurn
<1> HIDE DEF body
<1>2. T = {}
  <2> SUFFICES ASSUME T # {} PROVE FALSE
    OBVIOUS
  <2>1. PICK m \in T : \A k \in T : k <= m
    <3>1. T \in SUBSET (0 .. n + 2) /\ n + 2 \in Nat
      OBVIOUS
    <3> HIDE DEF T
    <3> QED BY <3>1, GreatestNumber
  <2>2. m \in i + 1 .. n + 2 /\ ~ OK(m)
    BY <2>1
  <2>3. \A k \in m + 1 .. n + 2 : OK(k)
    BY <2>1, <2>2
  <2>4. CASE m > n + 1 \/ At(m) \in {NUL, DQUOTE, "\n"}
    <3>1. body[m].stop = m
      BY <1>0, <1>1, <2>2, <2>4, StringTurnStops
    <3> QED BY <2>2, <3>1
  <2>5. CASE ~ (m > n + 1 \/ At(m) \in {NUL, DQUOTE, "\n"})
    <3>1. m \in 1 .. n /\ m + 1 \in m + 1 .. n + 2 /\ m + 2 \in m + 1 .. n + 2
      <4>1. m \in 1 .. n + 1 /\ At(m) # NUL
        BY <1>0, <2>2, <2>5
      <4>2. m <= n
        BY <1>0, <4>1, Ends
      <4> QED BY <4>1, <4>2
    <3>2. body[m].stop = body[IF At(m) = "\\" THEN m + 2 ELSE m + 1].stop
      BY <1>0, <1>1, <2>2, <2>5, StringTurnStops
    <3>3. CASE At(m) = "\\"
      <4>1. OK(m + 2) /\ body[m].stop = body[m + 2].stop
        BY <2>3, <3>1, <3>2, <3>3
      <4>2. CASE m = n
        <5>1. source[n] = "\\"
          BY <1>0, <3>1, <3>3, <4>2, Ends
        <5> QED BY <2>2, <3>1, <4>1, <5>1
      <4>3. CASE m < n
        BY <2>2, <3>1, <4>1, <4>3
      <4> QED BY <3>1, <4>2, <4>3
    <3>4. CASE At(m) # "\\"
      <4>1. OK(m + 1) /\ body[m].stop = body[m + 1].stop
        BY <2>3, <3>1, <3>2, <3>4
      <4> QED BY <2>2, <3>1, <4>1
    <3> QED BY <3>3, <3>4
  <2> QED BY <2>4, <2>5
<1>3. OK(i + 1)
  BY <1>0, <1>2
<1> QED BY <1>0, <1>3 DEF body

-----------------------------------------------------------------------------
Mods == {"NONE", "HEX", "BIN", "OCT", "CHAR"}

(* What every call of next_token makes of the text from i to j - 1. *)
Fits(i, j, kind, mod, val) ==
  /\ j \in i + 1 .. Len(source) + 2 /\ (j = Len(source) + 2 => kind = "END_OF_FILE" /\ i = Len(source) + 1)
  /\ kind = "INT" /\ mod # "CHAR" => val \in 0 .. UINT64_MAX
  /\ mod \in Mods /\ (mod # "NONE" => kind = "INT")
  /\ mod = "CHAR" <=> At(i) = "'"
  /\ mod = "HEX" <=> At(i) = "0" /\ At(i + 1) \in {"x", "X"} /\ j > i + 1
  /\ mod = "BIN" <=> At(i) = "0" /\ At(i + 1) \in {"b", "B"} /\ j > i + 1
  /\ mod = "OCT" <=> kind = "INT" /\ At(i) = "0" /\ At(i + 1) \in Digits /\ j > i + 1

Unclosed(i) ==
  \/ At(i) = "'" /\ i = Len(source)
  \/ At(i) = "'" /\ i + 1 = Len(source) /\ At(i + 1) = "\\"
  \/ At(i) = DQUOTE /\ i < Len(source) /\ source[Len(source)] = "\\"

(* What an operator is made of: the characters that next_token looks at    *)
(* decide how many of them it takes.                                       *)
Shifts == {"LSHIFT", "RSHIFT"}

OpText(i, j, kind) ==
  \/ At(i) = "." /\ kind = "DOT" /\ j = i + 1
  \/ \E row \in Operators :
       /\ row[1] = At(i)
       /\ \/ (\A more \in row[3] : more[1] # At(i + 1)) /\ kind = row[2] /\ j = i + 1
          \/ \E more \in row[3] :
               /\ more[1] = At(i + 1)
               /\ \/ (more[2] \notin Shifts \/ At(i + 2) # "=") /\ kind = more[2] /\ j = i + 2
                  \/ /\ more[2] \in Shifts /\ At(i + 2) = "=" /\ j = i + 3
                     /\ kind = [LSHIFT |-> "LSHIFT_ASSIGN", RSHIFT |-> "RSHIFT_ASSIGN"][more[2]]

Yields(i, j, kind, mod, val, errs) ==
  /\ Emit(i, j, kind, mod, val, errs) /\ Fits(i, j, kind, mod, val)
  /\ kind = "INT" /\ mod # "CHAR" => At(i) \in Digits /\ scan_int(i)
  /\ mod = "CHAR" => At(i) = "'" /\ scan_char(i)
  /\ kind = "STR" => At(i) = DQUOTE /\ scan_str(i)
  /\ kind \in {"INT", "STR", "FLOAT", "NAME", "KEYWORD"} \/ OpText(i, j, kind)

Scans(i) ==
  \/ \E j, kind, mod, val, errs : Yields(i, j, kind, mod, val, errs)
  \/ \E errs : Fails(i, "abort", errs)
  \/ \E errs : Fails(i, "overrun", errs) /\ Unclosed(i)

LEMMA OthersScan ==
  ASSUME NEW i, NEW j, NEW kind, kind # "INT", kind # "STR", NEW val, NEW errs,
         Emit(i, j, kind, "NONE", val, errs), Fits(i, j, kind, "NONE", val),
         kind \in {"FLOAT", "NAME", "KEYWORD"} \/ OpText(i, j, kind)
  PROVE  Scans(i)
<1>1. Yields(i, j, kind, "NONE", val, errs)
  BY DEF Yields
<1> QED BY <1>1, Zenon DEF Scans

LEMMA NumberScans ==
  ASSUME NEW i, At(i) \in Digits, scan_int(i), NEW j, NEW mod, NEW val, NEW errs,
         Emit(i, j, "INT", mod, val, errs), Fits(i, j, "INT", mod, val)
  PROVE  Scans(i)
<1>1. mod # "CHAR"
  BY Zenon DEF Fits, Digits
<1>2. Yields(i, j, "INT", mod, val, errs)
  BY <1>1 DEF Yields
<1> QED BY <1>2, Zenon DEF Scans

LEMMA CharScans ==
  ASSUME SourceOK, NEW i \in 1 .. Len(source) + 1, At(i) = "'", scan_char(i)
  PROVE  Scans(i)
<1>0. Len(source) \in Nat /\ i \in 1 .. Len(source)
  BY Ends DEF NUL
<1>1. ASSUME NEW j \in i + 1 .. Len(source) + 2, NEW val, NEW errs, CharEnds(i, j, val, errs),
             j > Len(source) + 1 => Unclosed(i)
      PROVE  Scans(i)
  <2>1. CASE j > Len(source) + 1
    <3>1. ~ (j <= Len(source) + 1)
      BY <1>0, <2>1
    <3>2. Fails(i, "overrun", errs)
      BY <1>1, <3>1 DEF CharEnds
    <3> QED BY <1>1, <2>1, <3>2 DEF Scans
  <2>2. CASE j <= Len(source) + 1
    <3>1. At(j) = "'" => j + 1 \in i + 1 .. Len(source) + 1
      BY <1>0, <2>2, Ends DEF NUL
    <3>2. \A k \in i + 1 .. Len(source) + 1 : Fits(i, k, "INT", "CHAR", val)
      BY <1>0 DEF Fits, Mods
    <3>3. \/ At(j) = "'" /\ Emit(i, j + 1, "INT", "CHAR", val, errs)
          \/ Emit(i, j, "INT", "CHAR", val, errs \union {<<"no closing quote", j>>})
      <4>1. ~ (j > Len(source) + 1)
        BY <1>0, <2>2
      <4> QED BY <1>1, <4>1 DEF CharEnds
    <3>4. j \in i + 1 .. Len(source) + 1
      BY <1>0, <2>2
    <3>5. \A k \in i + 1 .. Len(source) + 1 : \A more :
            Emit(i, k, "INT", "CHAR", val, more) => Yields(i, k, "INT", "CHAR", val, more)
      BY <3>2 DEF Yields
    <3>6. \A k \in i + 1 .. Len(source) + 1 : \A more :
            Emit(i, k, "INT", "CHAR", val, more) => Scans(i)
      BY <3>5, Zenon DEF Scans
    <3> QED BY <3>1, <3>3, <3>4, <3>6
  <2> QED BY <2>1, <2>2
<1>2. At(i + 1) # NUL => i + 1 <= Len(source)
  BY <1>0, Ends
<1>3. CASE At(i + 1) = "'"
  <2>1. \E val, errs : CharEnds(i, i + 2, val, errs)
    BY <1>3 DEF scan_char
  <2>2. i + 2 \in i + 1 .. Len(source) + 2 /\ ~ (i + 2 > Len(source) + 1)
    BY <1>0, <1>2, <1>3 DEF NUL
  <2> QED BY <1>1, <2>1, <2>2
<1>4. CASE At(i + 1) = "\n"
  <2>1. \E val, errs : CharEnds(i, i + 1, val, errs)
    BY <1>4 DEF scan_char
  <2>2. i + 1 \in i + 1 .. Len(source) + 2 /\ ~ (i + 1 > Len(source) + 1)
    BY <1>0
  <2> QED BY <1>1, <2>1, <2>2
<1>5. CASE At(i + 1) = "\\"
  <2>1. \E val, errs : CharEnds(i, i + 3, val, errs)
    BY <1>5 DEF scan_char
  <2>2. i + 3 \in i + 1 .. Len(source) + 2 /\ (i + 3 > Len(source) + 1 => Unclosed(i))
    <3>1. i + 1 <= Len(source)
      BY <1>2, <1>5 DEF NUL
    <3>2. i + 3 > Len(source) + 1 => i + 1 = Len(source)
      BY <1>0, <3>1
    <3> QED BY <1>0, <1>5, <3>1, <3>2 DEF Unclosed
  <2> QED BY <1>1, <2>1, <2>2
<1>6. CASE At(i + 1) \notin {"'", "\n", "\\"}
  <2>1. \E val, errs : CharEnds(i, i + 2, val, errs)
    BY <1>6 DEF scan_char
  <2>2. i + 2 \in i + 1 .. Len(source) + 2 /\ (i + 2 > Len(source) + 1 => Unclosed(i))
    BY <1>0 DEF Unclosed
  <2> QED BY <1>1, <2>1, <2>2
<1> QED BY <1>3, <1>4, <1>5, <1>6

LEMMA Quotes == DQUOTE # NUL /\ DQUOTE # "'" /\ DQUOTE # "0"
BY Zenon DEF DQUOTE, NUL

LEMMA StrScans ==
  ASSUME SourceOK, NEW i \in 1 .. Len(source) + 1, At(i) = DQUOTE, scan_str(i)
  PROVE  Scans(i)
<1>0. Len(source) \in Nat /\ i \in 1 .. Len(source)
  BY Quotes, Ends
<1> DEFINE str == StringBody(i)[i + 1]
<1>1. /\ str.stop \in i + 1 .. Len(source) + 2
      /\ str.stop > Len(source) + 1 => source[Len(source)] = "\\" /\ Len(source) > i
  BY <1>0, StringStops
<1> HIDE DEF str
<1>2. \A j \in i + 1 .. Len(source) + 1 : \A val : Fits(i, j, "STR", "NONE", val)
  BY <1>0, Quotes DEF Fits, Mods
<1>3. CASE str.stop > Len(source) + 1
  <2>1. ~ (str.stop <= Len(source) + 1)
    BY <1>0, <1>1, <1>3
  <2>2. Fails(i, "overrun", str.errs)
    BY <2>1 DEF scan_str, str
  <2> QED BY <1>1, <1>3, <2>2 DEF Scans, Unclosed
<1>4. CASE str.stop <= Len(source) + 1
  <2>1. At(str.stop) = DQUOTE => str.stop + 1 \in i + 1 .. Len(source) + 1
    BY <1>0, <1>1, <1>4, Quotes, Ends
  <2>2. \/ \E errs : Fails(i, "abort", errs)
        \/ \E val, errs : At(str.stop) = DQUOTE /\ Emit(i, str.stop + 1, "STR", "NONE", val, errs)
        \/ \E val, errs : Emit(i, str.stop, "STR", "NONE", val, errs)
    <3>1. ~ (str.stop > Len(source) + 1)
      BY <1>0, <1>1, <1>4
    <3> QED BY <3>1 DEF scan_str, str
  <2>3. str.stop \in i + 1 .. Len(source) + 1
    BY <1>0, <1>1, <1>4
  <2>4. \A j \in i + 1 .. Len(source) + 1 : \A val, errs :
          Emit(i, j, "STR", "NONE", val, errs) => Scans(i)
    <3>1. \A j \in i + 1 .. Len(source) + 1 : \A val, errs :
            Emit(i, j, "STR", "NONE", val, errs) => Yields(i, j, "STR", "NONE", val, errs)
      BY <1>2 DEF Yields
    <3> QED BY <3>1, Zenon DEF Scans
  <2>5. (\E errs : Fails(i, "abort", errs)) => Scans(i)
    BY Zenon DEF Scans
  <2> QED BY <2>1, <2>2, <2>3, <2>4, <2>5
<1> QED BY <1>0, <1>1, <1>3, <1>4

-----------------------------------------------------------------------------
(* What is neither a character literal nor a number has no modifier. *)
LEMMA PlainFits ==
  ASSUME SourceOK, NEW i \in 1 .. Len(source) + 1, At(i) \notin {"'", "0"},
         NEW j \in i + 1 .. Len(source) + 2, NEW kind, kind # "INT",
         j = Len(source) + 2 => kind = "END_OF_FILE" /\ i = Len(source) + 1, NEW val
  PROVE  Fits(i, j, kind, "NONE", val)
BY DEF Fits, Mods

LEMMA FloatScans ==
  ASSUME SourceOK, NEW i \in 1 .. Len(source) + 1,
         \/ At(i) = "."
         \/ At(i) \in Digits /\ At(SpanEnd(i, Digits)) \in {".", "e"},
         scan_float(i)
  PROVE  Scans(i)
<1> DEFINE whole    == SpanEnd(i, Digits)
           point    == IF At(whole) = "." THEN whole + 1 ELSE whole
           fraction == SpanEnd(point, Digits)
           sign     == IF At(fraction + 1) \in {"-", "+"} THEN fraction + 2 ELSE fraction + 1
           hasExp   == At(fraction) \in {"e", "E"}
           stop     == IF hasExp THEN SpanEnd(sign, Digits) ELSE fraction
<1>0. Len(source) \in Nat /\ NUL \notin Digits
  BY Ends DEF NUL, Digits
<1>1. whole \in i .. Len(source) + 1 /\ At(whole) \notin Digits
  BY <1>0, SpanEnds
<1>2. At(whole) # NUL
  <2>1. CASE At(i) = "."
    <3>1. "." # NUL /\ "." \notin Digits
      BY DEF NUL, Digits
    <3>2. \A k \in i .. whole - 1 : At(k) \in Digits
      BY <1>0, SpanEnds
    <3>3. whole = i
      BY <1>0, <1>1, <2>1, <3>1, <3>2
    <3> QED BY <2>1, <3>1, <3>3
  <2>2. CASE At(i) \in Digits
    BY <2>2 DEF NUL, Digits
  <2> QED BY <2>1, <2>2
<1>3. whole \in i .. Len(source) /\ point \in i .. Len(source) + 1
  BY <1>0, <1>1, <1>2, Ends
<1>4. point \in 1 .. Len(source) + 1 /\ (At(i) = "." => point > i)
  <2>1. At(i) = "." => At(whole) = "."
    <3>1. SUFFICES ASSUME At(i) = ".", whole > i PROVE FALSE
      BY <1>0, <1>3
    <3>2. At(i) \in Digits
      BY <1>0, <1>3, <3>1, SpanEnds
    <3> QED BY <3>1, <3>2 DEF Digits
  <2> QED BY <1>0, <1>3, <2>1
<1> HIDE DEF point
<1>5. fraction \in point .. Len(source) + 1
  BY <1>0, <1>4, SpanEnds
<1>6. fraction \in i + 1 .. Len(source) + 1
  <2>1. CASE At(i) = "."
    BY <1>0, <1>3, <1>4, <1>5, <2>1
  <2>2. CASE At(i) \in Digits
    <3>1. whole # i
      BY <1>1, <2>2
    <3>2. point > i
      BY <1>0, <1>3, <3>1 DEF point
    <3> QED BY <1>0, <1>3, <1>5, <3>2
  <2> QED BY <2>1, <2>2
<1> HIDE DEF fraction, whole
<1>7. stop \in i + 1 .. Len(source) + 1
  <2>1. CASE ~ hasExp
    BY <1>6, <2>1
  <2>2. CASE hasExp
    <3>1. At(fraction) # NUL
      BY <2>2 DEF NUL
    <3>2. fraction + 1 \in i + 1 .. Len(source) + 1
      BY <1>0, <1>6, <3>1, Ends
    <3>3. At(fraction + 1) \in {"-", "+"} => fraction + 2 \in i + 1 .. Len(source) + 1
      <4>1. At(fraction + 1) \in {"-", "+"} => At(fraction + 1) # NUL
        BY DEF NUL
      <4>2. At(fraction + 1) # NUL => fraction + 1 <= Len(source)
        BY <1>0, <3>2, Ends
      <4>3. fraction + 1 <= Len(source) => fraction + 2 \in i + 1 .. Len(source) + 1
        BY <1>0, <1>6
      <4> QED BY <4>1, <4>2, <4>3
    <3>4. sign \in i + 1 .. Len(source) + 1
      BY <3>2, <3>3
    <3> HIDE DEF sign
    <3>5. SpanEnd(sign, Digits) \in sign .. Len(source) + 1
      BY <1>0, <3>4, SpanEnds
    <3> QED BY <1>0, <2>2, <3>4, <3>5
  <2> QED BY <2>1, <2>2
<1>8. \E val, errs : Emit(i, stop, "FLOAT", "NONE", val, errs)
  BY Zenon DEF scan_float, stop, hasExp, sign, fraction, point, whole
<1> HIDE DEF stop
<1>9. At(i) = "0" => At(i + 1) \notin {"x", "X", "b", "B"}
  <2> SUFFICES ASSUME At(i) = "0", At(i + 1) \in {"x", "X", "b", "B"} PROVE FALSE
    OBVIOUS
  <2>1. At(i) \in Digits /\ At(i + 1) \notin Digits /\ At(i + 1) \notin {".", "e"} /\ "0" # "."
    BY DEF Digits
  <2>2. whole \in i .. Len(source) + 1 /\ At(whole) \notin Digits
        /\ \A k \in i .. whole - 1 : At(k) \in Digits
    BY <1>0, SpanEnds DEF whole
  <2>3. whole = i + 1
    BY <1>0, <2>1, <2>2
  <2> QED BY <2>1, <2>3 DEF whole
<1>10. At(i) # "'"
  BY DEF Digits
<1>11. \A val : Fits(i, stop, "FLOAT", "NONE", val)
  BY <1>0, <1>7, <1>9, <1>10 DEF Fits, Mods
<1> QED BY <1>8, <1>11, OthersScan
LEMMA IntPrefixes ==
  ASSUME NEW i
  PROVE  LET prefix == IntPrefix(i)
         IN  \/ /\ At(i) = "0" /\ At(i + 1) \in {"x", "X"}
                /\ prefix.base = 16 /\ prefix.mod = "HEX" /\ prefix.len = 2
             \/ /\ At(i) = "0" /\ At(i + 1) \in {"b", "B"}
                /\ prefix.base = 2 /\ prefix.mod = "BIN" /\ prefix.len = 2
             \/ /\ At(i) = "0" /\ At(i + 1) \in Digits
                /\ prefix.base = 8 /\ prefix.mod = "OCT" /\ prefix.len = 1
             \/ /\ At(i) = "0" /\ At(i + 1) \notin Digits \union {"x", "X", "b", "B"}
                /\ prefix.base = 10 /\ prefix.mod = "NONE" /\ prefix.len = 1
             \/ /\ At(i) # "0"
                /\ prefix.base = 10 /\ prefix.mod = "NONE" /\ prefix.len = 0
<1>1. "x" \notin Digits /\ "X" \notin Digits /\ "b" \notin Digits /\ "B" \notin Digits
  BY DEF Digits
<1>2. CASE At(i) # "0"
  BY <1>2 DEF IntPrefix
<1>3. CASE At(i) = "0" /\ At(i + 1) \in {"x", "X"}
  <2>1. IntPrefix(i) = [base |-> 16, mod |-> "HEX", len |-> 2]
    BY <1>1, <1>3 DEF IntPrefix
  <2> QED BY <1>3, <2>1
<1>4. CASE At(i) = "0" /\ At(i + 1) \in {"b", "B"}
  <2>1. IntPrefix(i) = [base |-> 2, mod |-> "BIN", len |-> 2]
    BY <1>1, <1>4 DEF IntPrefix
  <2> QED BY <1>4, <2>1
<1>5. CASE At(i) = "0" /\ At(i + 1) \in Digits
  <2>1. IntPrefix(i) = [base |-> 8, mod |-> "OCT", len |-> 1]
    BY <1>1, <1>5 DEF IntPrefix
  <2> QED BY <1>5, <2>1
<1>6. CASE At(i) = "0" /\ At(i + 1) \notin Digits \union {"x", "X", "b", "B"}
  <2>1. IntPrefix(i) = [base |-> 10, mod |-> "NONE", len |-> 1]
    BY <1>6 DEF IntPrefix
  <2> QED BY <1>6, <2>1
<1> QED BY <1>2, <1>3, <1>4, <1>5, <1>6

LEMMA IntScans ==
  ASSUME SourceOK, NEW i \in 1 .. Len(source) + 1, At(i) \in Digits, scan_int(i)
  PROVE  Scans(i)
<1> DEFINE prefix == IntPrefix(i)
           base   == prefix.base
           first  == i + prefix.len
           last   == SpanEnd(first, HexDigits)
           val    == Accumulated(first, last, base)
           over   == {k \in first .. last - 1 : val[k] # OVERFLOW /\ val[k + 1] = OVERFLOW}
<1>0. /\ Len(source) \in Nat /\ NUL \notin Digits /\ NUL \notin HexDigits
      /\ Digits \subseteq HexDigits /\ At(i) # "'"
  BY Ends DEF NUL, Digits, HexDigits
<1>1. i + 1 \in 1 .. Len(source) + 1 /\ i \in 1 .. Len(source)
  BY <1>0, Ends
<1>2. \/ /\ At(i) = "0" /\ At(i + 1) \in {"x", "X"}
         /\ base = 16 /\ prefix.mod = "HEX" /\ prefix.len = 2
      \/ /\ At(i) = "0" /\ At(i + 1) \in {"b", "B"}
         /\ base = 2 /\ prefix.mod = "BIN" /\ prefix.len = 2
      \/ /\ At(i) = "0" /\ At(i + 1) \in Digits
         /\ base = 8 /\ prefix.mod = "OCT" /\ prefix.len = 1
      \/ /\ At(i) = "0" /\ At(i + 1) \notin Digits \union {"x", "X", "b", "B"}
         /\ base = 10 /\ prefix.mod = "NONE" /\ prefix.len = 1
      \/ /\ At(i) # "0"
         /\ base = 10 /\ prefix.mod = "NONE" /\ prefix.len = 0
  BY IntPrefixes
<1>3. first \in i .. Len(source) + 1 /\ first \in 1 .. Len(source) + 1
  <2>1. prefix.len = 2 => i + 1 <= Len(source)
    <3>1. prefix.len = 2 => At(i + 1) # NUL
      BY <1>2 DEF NUL
    <3> QED BY <1>1, <3>1, Ends
  <2>2. prefix.len \in {0, 1, 2}
    BY <1>2
  <2> QED BY <1>0, <1>1, <2>1, <2>2
<1>4. base \in {2, 8, 10, 16}
  BY <1>2
<1>5. \/ prefix.len = 0 /\ first = i
      \/ prefix.len = 1 /\ first = i + 1
      \/ prefix.len = 2 /\ first = i + 2
  BY <1>2
<1> HIDE DEF prefix, first
(* At least one character is consumed, and after a prefix at least two. *)
<1>6. ASSUME NEW C, NUL \notin C, Digits \subseteq C, NEW k \in first .. Len(source) + 1
      PROVE  SpanEnd(k, C) \in i + 1 .. Len(source) + 1
             /\ (prefix.mod \in {"HEX", "BIN", "OCT"} => SpanEnd(k, C) > i + 1)
  <2>1. k \in 1 .. Len(source) + 1
    BY <1>0, <1>3
  <2>2. SpanEnd(k, C) \in k .. Len(source) + 1 /\ At(SpanEnd(k, C)) \notin C
    BY <1>6, <2>1, SpanEnds
  <2> DEFINE j == SpanEnd(k, C)
  <2>3. At(i) \in C /\ (At(i + 1) \in Digits => At(i + 1) \in C)
    BY <1>6
  <2> HIDE DEF j
  <2>4. j # i /\ (At(i + 1) \in Digits => j # i + 1)
    BY <2>2, <2>3 DEF j
  <2>5. j \in k .. Len(source) + 1
    BY <2>2 DEF j
  <2>6. j \in i + 1 .. Len(source) + 1
    BY <1>0, <1>3, <2>4, <2>5
  <2>7. prefix.len = 2 => j > i + 1
    BY <1>0, <1>5, <2>5
  <2>8. prefix.mod = "OCT" => j > i + 1
    BY <1>0, <1>2, <2>4, <2>6
  <2> QED BY <1>2, <2>6, <2>7, <2>8 DEF j
<1>7. ASSUME NEW j \in i + 1 .. Len(source) + 1, prefix.mod \in {"HEX", "BIN", "OCT"} => j > i + 1,
             NEW v \in 0 .. UINT64_MAX
      PROVE  Fits(i, j, "INT", prefix.mod, v)
  <2>1. j \in i + 1 .. Len(source) + 2 /\ j # Len(source) + 2
    BY <1>0, <1>7
  <2>2. prefix.mod \in Mods /\ prefix.mod # "CHAR"
    BY <1>2 DEF Mods
  <2>3. At(i + 1) \in Digits => At(i + 1) \notin {"x", "X", "b", "B"}
    BY DEF Digits
  <2>4. /\ prefix.mod = "HEX" <=> At(i) = "0" /\ At(i + 1) \in {"x", "X"}
        /\ prefix.mod = "BIN" <=> At(i) = "0" /\ At(i + 1) \in {"b", "B"}
        /\ prefix.mod = "OCT" <=> At(i) = "0" /\ At(i + 1) \in Digits
    BY <1>2, <2>3
  <2> QED BY <1>0, <1>7, <2>1, <2>2, <2>4 DEF Fits
<1>8. last \in first .. Len(source) + 1
  BY <1>0, <1>3, SpanEnds
<1> HIDE DEF last
<1>9. first \in Nat /\ last \in Nat /\ first <= last
  BY <1>0, <1>3, <1>8
<1>10. /\ val[last] \in 0 .. UINT64_MAX \union {OVERFLOW}
       /\ val[last] = OVERFLOW => over # {}
  <2>1. /\ \A k \in first .. last : val[k] \in 0 .. UINT64_MAX \union {OVERFLOW}
        /\ val[last] = OVERFLOW =>
             \E k \in first .. last - 1 : val[k] # OVERFLOW /\ val[k + 1] = OVERFLOW
    BY <1>4, <1>9, AccumulatedRange
  <2>2. last \in first .. last
    BY <1>9
  <2> HIDE DEF val
  <2> QED BY <2>1, <2>2
<1>11. \/ over = {} /\ \E errs : Emit(i, last, "INT", prefix.mod, val[last], errs)
       \/ \E k \in over : \E errs : Emit(i, SpanEnd(k, Digits), "INT", prefix.mod, 0, errs)
  BY Zenon DEF scan_int, prefix, base, first, last, val, over
<1>12. CASE over = {} /\ \E errs : Emit(i, last, "INT", prefix.mod, val[last], errs)
  <2>1. val[last] \in 0 .. UINT64_MAX
    BY <1>10, <1>12
  <2>2. /\ last \in i + 1 .. Len(source) + 1
        /\ prefix.mod \in {"HEX", "BIN", "OCT"} => last > i + 1
    <3>1. first \in first .. Len(source) + 1
      BY <1>0, <1>3
    <3> QED BY <1>0, <1>6, <3>1 DEF last
  <2> HIDE DEF val
  <2>3. Fits(i, last, "INT", prefix.mod, val[last])
    BY <1>7, <2>1, <2>2
  <2> QED BY <1>12, <2>3, NumberScans
<1>13. CASE \E k \in over : \E errs : Emit(i, SpanEnd(k, Digits), "INT", prefix.mod, 0, errs)
  <2>1. PICK k \in over : \E errs : Emit(i, SpanEnd(k, Digits), "INT", prefix.mod, 0, errs)
    BY <1>13
  <2>2. k \in first .. Len(source) + 1
    BY <1>0, <1>8, <1>9
  <2>3. /\ SpanEnd(k, Digits) \in i + 1 .. Len(source) + 1
        /\ prefix.mod \in {"HEX", "BIN", "OCT"} => SpanEnd(k, Digits) > i + 1
    BY <1>0, <1>6, <2>2
  <2>4. 0 \in 0 .. UINT64_MAX
    BY LexAssumption
  <2>5. Fits(i, SpanEnd(k, Digits), "INT", prefix.mod, 0)
    BY <1>7, <2>3, <2>4
  <2> QED BY <2>1, <2>5, NumberScans
<1> QED BY <1>11, <1>12, <1>13
LEMMA NameScans ==
  ASSUME SourceOK, NEW i \in 1 .. Len(source) + 1, At(i) \in Letters, scan_name(i)
  PROVE  Scans(i)
<1> DEFINE C == Letters \union Digits
           j == SpanEnd(i, C)
<1>1. NUL \notin C /\ At(i) \notin {"'", "0"}
  BY DEF NUL, Letters, Lower, Upper, Digits
<1>2. j \in i .. Len(source) + 1 /\ At(j) \notin C
  <2> HIDE DEF C
  <2> QED BY <1>1, SpanEnds
<1>3. j \in i + 1 .. Len(source) + 2 /\ j # Len(source) + 2
  <2>1. j # i
    BY <1>2
  <2> HIDE DEF j
  <2> QED BY <1>2, <2>1, Ends
<1>4. \E kind \in {"KEYWORD", "NAME"} : \E val, errs : Emit(i, j, kind, "NONE", val, errs)
  BY Zenon DEF scan_name, C, j
<1> HIDE DEF j
<1>5. \A kind \in {"KEYWORD", "NAME"} : \A val : Fits(i, j, kind, "NONE", val)
  BY <1>1, <1>3 DEF Fits, Mods
<1>6. \A kind \in {"KEYWORD", "NAME"} : kind # "INT" /\ kind # "STR"
  OBVIOUS
<1> QED BY <1>4, <1>5, <1>6, OthersScan

LEMMA DotScans ==
  ASSUME SourceOK, NEW i \in 1 .. Len(source) + 1, At(i) = ".",
         Emit(i, i + 1, "DOT", "NONE", token.val, {})
  PROVE  Scans(i)
<1>1. i + 1 \in i + 1 .. Len(source) + 2 /\ i + 1 # Len(source) + 2
  <2>1. At(i) # NUL
    BY DEF NUL
  <2> QED BY <2>1, Ends
<1>2. Fits(i, i + 1, "DOT", "NONE", token.val)
  BY <1>1 DEF Fits, Mods
<1>3. OpText(i, i + 1, "DOT")
  BY Zenon DEF OpText
<1> QED BY <1>2, <1>3, OthersScan

(* The table of operators: only the null byte ends the file, and what may  *)
(* follow a character is in the text.                                      *)
RowOK(row) ==
  /\ row[1] \notin {"'", "0"} /\ row[2] # "INT" /\ row[2] # "STR"
  /\ row[1] = NUL => row[2] = "END_OF_FILE" /\ row[3] = {}
  /\ \A more \in row[3] : more[1] # NUL /\ more[2] # "INT" /\ more[2] # "STR"

LEMMA OperatorRows == \A row \in Operators : RowOK(row)
<1>1. \A row : row = <<"NUL", "END_OF_FILE", {}>> => RowOK(row)
  BY DEF RowOK, NUL
<1>2. \A row : \A a, b :
        row = <<a, b, {}>> => a = "'" \/ a = "0" \/ a = "NUL" \/ b = "INT" \/ b = "STR" \/ RowOK(row)
  BY DEF RowOK, NUL
<1>3. \A row : \A a, b, d, e :
        row = <<a, b, {<<d, e>>}>> =>
          \/ a = "'" \/ a = "0" \/ a = "NUL" \/ b = "INT" \/ b = "STR"
          \/ d = "NUL" \/ e = "INT" \/ e = "STR" \/ RowOK(row)
  BY DEF RowOK, NUL
<1>4. \A row : \A a, b, d, e, f, g :
        row = <<a, b, {<<d, e>>, <<f, g>>}>> =>
          \/ a = "'" \/ a = "0" \/ a = "NUL" \/ b = "INT" \/ b = "STR"
          \/ d = "NUL" \/ e = "INT" \/ e = "STR" \/ f = "NUL" \/ g = "INT" \/ g = "STR" \/ RowOK(row)
  BY DEF RowOK, NUL
<1> QED BY <1>1, <1>2, <1>3, <1>4, Zenon DEF Operators, NUL, LBRACE, RBRACE, COMMA, SEMICOLON

LEMMA OpScans ==
  ASSUME SourceOK, NEW i \in 1 .. Len(source) + 1, scan_op(i)
  PROVE  Scans(i)
<1>0. Len(source) \in Nat
  BY Ends
<1>1. PICK row \in Operators :
        /\ row[1] = At(i)
        /\ \/ /\ \A more \in row[3] : more[1] # At(i + 1)
              /\ Emit(i, i + 1, row[2], "NONE", token.val, {})
           \/ \E more \in row[3] :
                /\ more[1] = At(i + 1)
                /\ \/ /\ more[2] \notin Shifts \/ At(i + 2) # "="
                      /\ Emit(i, i + 2, more[2], "NONE", token.val, {})
                   \/ /\ more[2] \in Shifts /\ At(i + 2) = "="
                      /\ Emit(i, i + 3,
                              [LSHIFT |-> "LSHIFT_ASSIGN", RSHIFT |-> "RSHIFT_ASSIGN"][more[2]],
                              "NONE", token.val, {})
  BY Zenon DEF scan_op, Shifts
<1>2. At(i) \notin {"'", "0"} /\ row[2] # "INT" /\ row[2] # "STR"
      /\ (At(i) = NUL => row[2] = "END_OF_FILE" /\ row[3] = {})
  BY <1>1, OperatorRows DEF RowOK
<1>3. CASE /\ \A more \in row[3] : more[1] # At(i + 1)
           /\ Emit(i, i + 1, row[2], "NONE", token.val, {})
  <2>1. i + 1 \in i + 1 .. Len(source) + 2
    BY <1>0
  <2>2. i + 1 = Len(source) + 2 => row[2] = "END_OF_FILE" /\ i = Len(source) + 1
    <3>1. i + 1 = Len(source) + 2 => i = Len(source) + 1
      BY <1>0
    <3> QED BY <1>2, <3>1, Ends
  <2>3. Fits(i, i + 1, row[2], "NONE", token.val)
    BY <1>2, <2>1, <2>2, PlainFits
  <2>4. OpText(i, i + 1, row[2])
    BY <1>1, <1>3, Zenon DEF OpText
  <2> QED BY <1>2, <1>3, <2>3, <2>4, OthersScan
<1>4. ASSUME NEW more \in row[3], more[1] = At(i + 1)
      PROVE  /\ more[2] # "INT" /\ more[2] # "STR"
             /\ i + 2 \in i + 1 .. Len(source) + 1
             /\ At(i + 2) = "=" => i + 3 \in i + 1 .. Len(source) + 1
  <2>1. At(i + 1) # NUL /\ more[2] # "INT" /\ more[2] # "STR"
    BY <1>1, <1>4, OperatorRows DEF RowOK
  <2>2. i \in 1 .. Len(source)
    BY <1>0, <1>2, <1>4, Ends
  <2>3. i + 1 \in 1 .. Len(source)
    <3>1. i + 1 \in 1 .. Len(source) + 1
      BY <1>0, <2>2
    <3> QED BY <1>0, <2>1, <3>1, Ends
  <2>4. At(i + 2) = "=" => i + 2 \in 1 .. Len(source)
    <3>1. i + 2 \in 1 .. Len(source) + 1 /\ "=" # NUL
      BY <1>0, <2>3 DEF NUL
    <3> QED BY <1>0, <3>1, Ends
  <2> QED BY <1>0, <2>1, <2>3, <2>4
<1>5. ASSUME NEW more \in row[3], more[1] = At(i + 1), more[2] \notin Shifts \/ At(i + 2) # "=",
             Emit(i, i + 2, more[2], "NONE", token.val, {})
      PROVE  Scans(i)
  <2>1. more[2] # "INT" /\ more[2] # "STR" /\ i + 2 \in i + 1 .. Len(source) + 1
    BY <1>4, <1>5
  <2>2. i + 2 \in i + 1 .. Len(source) + 2 /\ i + 2 # Len(source) + 2
    BY <1>0, <2>1
  <2>3. Fits(i, i + 2, more[2], "NONE", token.val)
    BY <1>2, <2>1, <2>2, PlainFits
  <2>4. OpText(i, i + 2, more[2])
    BY <1>1, <1>5, Zenon DEF OpText
  <2> QED BY <1>5, <2>1, <2>3, <2>4, OthersScan
<1>6. ASSUME NEW more \in row[3], more[1] = At(i + 1), more[2] \in Shifts, At(i + 2) = "=",
             NEW kind \in {"LSHIFT_ASSIGN", "RSHIFT_ASSIGN"},
             kind = [LSHIFT |-> "LSHIFT_ASSIGN", RSHIFT |-> "RSHIFT_ASSIGN"][more[2]],
             Emit(i, i + 3, kind, "NONE", token.val, {})
      PROVE  Scans(i)
  <2>1. i + 3 \in i + 1 .. Len(source) + 1
    BY <1>4, <1>6
  <2>2. i + 3 \in i + 1 .. Len(source) + 2 /\ i + 3 # Len(source) + 2
    BY <1>0, <2>1
  <2>3. Fits(i, i + 3, kind, "NONE", token.val)
    BY <1>2, <2>2, PlainFits
  <2>4. kind # "INT" /\ kind # "STR"
    OBVIOUS
  <2>5. OpText(i, i + 3, kind)
    BY <1>1, <1>6, Zenon DEF OpText
  <2> QED BY <1>6, <2>3, <2>4, <2>5, OthersScan
<1>7. \A s \in Shifts :
        [LSHIFT |-> "LSHIFT_ASSIGN", RSHIFT |-> "RSHIFT_ASSIGN"][s]
          \in {"LSHIFT_ASSIGN", "RSHIFT_ASSIGN"}
  BY DEF Shifts
<1> QED BY <1>1, <1>3, <1>5, <1>6, <1>7

(* One call of next_token. *)
LEMMA NextScans ==
  ASSUME SourceOK, stream \in 1 .. Len(source) + 1, next_token
  PROVE  \E i \in stream .. Len(source) + 1 : Scans(i)
<1> DEFINE i == TokenStart
           c == At(i)
<1>1. i \in stream .. Len(source) + 1
  BY TokenStarts
<1>2. i \in 1 .. Len(source) + 1
  <2> HIDE DEF i
  <2> QED BY <1>1, Ends
<1>3. \/ c = "'" /\ scan_char(i)
      \/ c = DQUOTE /\ scan_str(i)
      \/ c = "." /\ scan_float(i)
      \/ c = "." /\ Emit(i, i + 1, "DOT", "NONE", token.val, {})
      \/ c \in Digits /\ At(SpanEnd(i, Digits)) \in {".", "e"} /\ scan_float(i)
      \/ c \in Digits /\ scan_int(i)
      \/ c \in Letters /\ scan_name(i)
      \/ scan_op(i)
  BY Zenon DEF next_token
<1> HIDE DEF i
<1>4. Scans(i)
  BY <1>2, <1>3, CharScans, StrScans, FloatScans, DotScans, IntScans, NameScans, OpScans
<1> QED BY <1>1, <1>4
-----------------------------------------------------------------------------
(* The characters of the token are those of the text at its start; the     *)
(* null byte is not among them.                                            *)
LEMMA Texts ==
  ASSUME SourceOK, token.start \in 1 .. Len(source) + 1,
         token.end \in token.start + 1 .. Len(source) + 2,
         token.end = Len(source) + 2 => token.start = Len(source) + 1
  PROVE  /\ Len(Text) > 1 <=> token.end > token.start + 1
         /\ Len(Text) > 1 => Text[1] = At(token.start) /\ Text[2] = At(token.start + 1)
<1> DEFINE i == token.start
           j == token.end
           n == Len(source)
<1>0. n \in Nat /\ i \in 1 .. n + 1 /\ j \in i + 1 .. n + 2
  BY Ends
<1> HIDE DEF i, j
<1>1. CASE j <= n + 1
  <2>1. {j - 1, n} \in SUBSET Int /\ j - 1 \in {j - 1, n} /\ \A y \in {j - 1, n} : j - 1 <= y
    BY <1>0, <1>1
  <2>2. Min({j - 1, n}) = j - 1
    <3> DEFINE S == {j - 1, n}
    <3> HIDE DEF S
    <3> QED BY <2>1 DEF Min, S
  <2>3. Text = SubSeq(source, i, j - 1)
    BY <2>2 DEF Text, i, j
  <2>4. /\ Len(SubSeq(source, i, j - 1)) = j - i
        /\ \A k \in 1 .. j - i : SubSeq(source, i, j - 1)[k] = source[i + k - 1]
    BY <1>0, <1>1 DEF SourceOK
  <2>5. Len(Text) > 1 <=> j > i + 1
    BY <1>0, <2>3, <2>4
  <2>6. j > i + 1 => Text[1] = source[i] /\ Text[2] = source[i + 1]
    BY <1>0, <2>3, <2>4
  <2>7. j > i + 1 => i \in 1 .. n /\ i + 1 \in 1 .. n
    BY <1>0, <1>1
  <2> QED BY <2>5, <2>6, <2>7, Ends DEF i, j
<1>2. CASE j > n + 1
  <2>1. i = n + 1 /\ j = n + 2
    BY <1>0, <1>2 DEF i, j
  <2>2. n \in {j - 1, n} /\ {j - 1, n} \in SUBSET Int /\ \A y \in {j - 1, n} : n <= y
    BY <1>0, <2>1
  <2>3. Min({j - 1, n}) = n
    <3> DEFINE S == {j - 1, n}
    <3> HIDE DEF S
    <3> QED BY <2>2 DEF Min, S
  <2>4. Text = SubSeq(source, i, n)
    BY <2>3 DEF Text, i, j
  <2>5. Len(SubSeq(source, i, n)) = 0
    BY <1>0, <2>1 DEF SourceOK
  <2> QED BY <1>0, <2>1, <2>4, <2>5 DEF i, j
<1> QED BY <1>0, <1>1, <1>2

(* What is left of the text from the token on. *)
LEMMA Rests ==
  ASSUME SourceOK, token.start \in 1 .. Len(source)
  PROVE  /\ Len(Rest) = Len(source) - token.start + 1
         /\ \A k \in 1 .. Len(source) - token.start + 1 : Rest[k] = source[token.start + k - 1]
BY Ends DEF Rest, SourceOK
-----------------------------------------------------------------------------
(* The inductive invariant: the token is a record; until the first call it *)
(* is the zero-initialised global; while the scanner runs the token fits   *)
(* the text and the stream is where the token ends; and a scanner that has *)
(* read past the null byte has met an unclosed literal.                    *)
FirstToken == [kind |-> "END_OF_FILE", mod |-> "NONE", start |-> 0, end |-> 0, val |-> 0]

TokenFits ==
  /\ token.start \in 1 .. Len(source) + 1 /\ stream = token.end
  /\ Fits(token.start, token.end, token.kind, token.mod, token.val)

LexIInv ==
  /\ source \in Sources
  /\ token = [kind |-> token.kind, mod |-> token.mod, start |-> token.start, end |-> token.end,
              val |-> token.val]
  /\ status = "run" /\ token.start = 0 => token = FirstToken /\ stream = 1
  /\ status = "run" /\ token.start # 0 => TokenFits
  /\ status = "overrun" => token.start \in 1 .. Len(source) + 1 /\ Unclosed(token.start)
  /\ LexTypeOK

LEMMA SourcesOK == source \in Sources => SourceOK
BY LexAssumption DEF SourceOK

LEMMA LexInitKeeps == LexInit => LexIInv
<1> SUFFICES ASSUME LexInit PROVE LexIInv
  OBVIOUS
<1>1. /\ source \in Sources /\ Len(source) \in Nat
      /\ token = FirstToken /\ stream = 1 /\ status = "run"
  BY SourcesOK, Ends DEF LexInit, FirstToken
<1>2. /\ token = [kind |-> token.kind, mod |-> token.mod, start |-> token.start,
                  end |-> token.end, val |-> token.val]
      /\ token.start = 0 /\ token.end = 0 /\ token.mod = "NONE" /\ token.kind = "END_OF_FILE"
  BY <1>1 DEF FirstToken
<1>3. LexTypeOK
  BY <1>1, <1>2 DEF LexTypeOK
<1> QED BY <1>1, <1>2, <1>3 DEF LexIInv

(* What was found of the text stays true of it. *)
LEMMA TextStays ==
  ASSUME source' = source, NEW CONSTANT i
  PROVE  /\ At(i)' = At(i) /\ (Unclosed(i) => Unclosed(i)')
         /\ \A j, kind, mod, val : Fits(i, j, kind, mod, val) => Fits(i, j, kind, mod, val)'
<1>1. \A k : At(k)' = At(k)
  BY DEF At
<1>2. Unclosed(i) => Unclosed(i)'
  BY <1>1 DEF Unclosed
<1>3. \A j, kind, mod, val : Fits(i, j, kind, mod, val) => Fits(i, j, kind, mod, val)'
  <2> SUFFICES ASSUME NEW CONSTANT j, NEW CONSTANT kind, NEW CONSTANT mod, NEW CONSTANT val,
                      Fits(i, j, kind, mod, val)
               PROVE  Fits(i, j, kind, mod, val)'
    OBVIOUS
  <2>1. At(i)' = At(i) /\ At(i + 1)' = At(i + 1)
    BY <1>1
  <2> QED BY <2>1 DEF Fits
<1> QED BY <1>1, <1>2, <1>3

LEMMA StreamInText ==
  ASSUME LexIInv, next_token
  PROVE  SourceOK /\ stream \in 1 .. Len(source) + 1
<1>1. SourceOK /\ Len(source) \in Nat
  BY SourcesOK, Ends DEF LexIInv
<1>2. CASE token.start = 0
  <2>1. stream = 1
    BY <1>2, Zenon DEF LexIInv, next_token
  <2> QED BY <1>1, <2>1
<1>3. CASE token.start # 0
  <2>1. TokenFits /\ token.kind # "END_OF_FILE"
    BY <1>3, Zenon DEF LexIInv, next_token, AtEnd
  <2> QED BY <1>1, <2>1 DEF TokenFits, Fits
<1> QED BY <1>2, <1>3

LEMMA LexStepKeeps ==
  ASSUME LexIInv, next_token
  PROVE  LexIInv' /\ (status' = "run" => stream' > stream)
<1>1. SourceOK /\ stream \in 1 .. Len(source) + 1 /\ Len(source) \in Nat
  BY StreamInText, Ends
<1>2. PICK i \in stream .. Len(source) + 1 : Scans(i)
  BY <1>1, NextScans
<1>3. i \in 1 .. Len(source) + 1 /\ i >= stream
  BY <1>1, <1>2
<1>4. /\ source \in Sources /\ LexTypeOK /\ status = "run"
      /\ token = [kind |-> token.kind, mod |-> token.mod, start |-> token.start,
                  end |-> token.end, val |-> token.val]
  BY DEF LexIInv, next_token
<1>5. ASSUME NEW j, NEW kind, NEW mod, NEW val, NEW errs,
             Emit(i, j, kind, mod, val, errs), Fits(i, j, kind, mod, val),
             kind = "INT" /\ mod # "CHAR" => At(i) \in Digits /\ scan_int(i)
      PROVE  LexIInv' /\ stream' > stream
  <2>1. /\ token' = [kind |-> kind, mod |-> mod, start |-> i, end |-> j, val |-> val]
        /\ stream' = j /\ source' = source /\ status' = "run"
    BY <1>4, <1>5 DEF Emit
  <2>2. /\ token'.kind = kind /\ token'.mod = mod /\ token'.start = i /\ token'.end = j
        /\ token'.val = val
    BY <2>1
  <2>3. j \in i + 1 .. Len(source) + 2 /\ mod \in Mods
        /\ (kind = "INT" /\ mod # "CHAR" => val \in 0 .. UINT64_MAX)
    BY <1>5 DEF Fits
  <2>4. stream' > stream
    BY <1>1, <1>3, <2>1, <2>3
  <2>5. Fits(i, j, kind, mod, val)'
    BY <1>5, <2>1, TextStays
  <2>6. TokenFits'
    <3>1. Fits(token.start, token.end, token.kind, token.mod, token.val)'
      BY <2>2, <2>5, Zenon
    <3> QED BY <1>3, <2>1, <2>2, <3>1 DEF TokenFits
  <2>7. LexTypeOK'
    BY <1>3, <1>1, <2>1, <2>2, <2>3 DEF LexTypeOK, Mods
  <2>8. i # 0 /\ status' # "overrun"
    BY <1>3, <2>1
  <2> QED BY <1>4, <2>1, <2>2, <2>4, <2>6, <2>7, <2>8 DEF LexIInv
<1>6. ASSUME NEW how \in {"abort", "overrun"}, NEW errs, Fails(i, how, errs),
             how = "overrun" => Unclosed(i)
      PROVE  LexIInv' /\ status' # "run"
  <2>1. /\ token' = [token EXCEPT !.start = i, !.mod = "NONE"]
        /\ stream' = stream /\ source' = source /\ status' = how
    BY <1>6 DEF Fails
  <2>2. /\ token'.kind = token.kind /\ token'.mod = "NONE" /\ token'.start = i
        /\ token'.end = token.end /\ token'.val = token.val
        /\ token' = [kind |-> token.kind, mod |-> "NONE", start |-> i, end |-> token.end,
                     val |-> token.val]
    BY <1>4, <2>1
  <2>3. LexTypeOK'
    BY <1>1, <1>3, <1>4, <2>1, <2>2 DEF LexTypeOK
  <2>4. how = "overrun" => Unclosed(token.start)'
    BY <1>6, <2>1, <2>2, TextStays
  <2> QED BY <1>3, <1>4, <2>1, <2>2, <2>3, <2>4 DEF LexIInv
<1> QED BY <1>2, <1>5, <1>6 DEF Scans, Yields

(* Every state of every scan satisfies the inductive invariant. *)
THEOREM LexInvariant == LexSpec => []LexIInv
<1>1. LexIInv /\ UNCHANGED lexVars => LexIInv'
  BY DEF LexIInv, lexVars, LexTypeOK, TokenFits, Fits, Unclosed, At, Mods, FirstToken
<1>2. LexIInv /\ [next_token]_lexVars => LexIInv'
  BY <1>1, LexStepKeeps
<1> QED BY LexInitKeeps, <1>2, PTL DEF LexSpec

(* Type correctness: the scanner's pointers never leave the text, its null *)
(* byte and the byte after that, whatever the text, and a number's value   *)
(* never leaves its word.                                                  *)
THEOREM LexTypeCorrect == LexSpec => []LexTypeOK
<1>1. LexIInv => LexTypeOK
  BY DEF LexIInv
<1> QED BY <1>1, LexInvariant, PTL

(* Progress: a call of next_token that returns has moved the stream on, so *)
(* no text keeps the scanner at one place.                                 *)
StreamAdvances == [][status' = "run" => stream' > stream]_lexVars

THEOREM LexStreamAdvances == LexSpec => StreamAdvances
<1>1. LexIInv /\ [next_token]_lexVars => [status' = "run" => stream' > stream]_lexVars
  BY LexStepKeeps
<1> QED BY <1>1, LexInvariant, PTL DEF LexSpec, StreamAdvances

(* The modifier of a token is the one its own text announces, for every    *)
(* text and after every sequence of literals.                              *)
THEOREM LexModMatchesText == LexSpec => []ModMatchesText
<1>1. LexIInv => ModMatchesText
  <2> SUFFICES ASSUME LexIInv, Scanned PROVE ModMatchesText
    BY DEF ModMatchesText
  <2>1. SourceOK /\ TokenFits
    BY SourcesOK, Zenon DEF LexIInv, Scanned
  <2>2. /\ token.start \in 1 .. Len(source) + 1
        /\ token.end \in token.start + 1 .. Len(source) + 2
        /\ token.end = Len(source) + 2 => token.start = Len(source) + 1
    BY <2>1 DEF TokenFits, Fits
  <2>3. /\ Len(Text) > 1 <=> token.end > token.start + 1
        /\ Len(Text) > 1 => Text[1] = At(token.start) /\ Text[2] = At(token.start + 1)
    BY <2>1, <2>2, Texts
  <2>4. /\ token.mod = "CHAR" <=> At(token.start) = "'"
        /\ token.mod = "HEX" <=>
             At(token.start) = "0" /\ At(token.start + 1) \in {"x", "X"} /\ token.end > token.start + 1
        /\ token.mod = "BIN" <=>
             At(token.start) = "0" /\ At(token.start + 1) \in {"b", "B"} /\ token.end > token.start + 1
        /\ token.mod = "OCT" <=>
             /\ token.kind = "INT"
             /\ At(token.start) = "0" /\ At(token.start + 1) \in Digits /\ token.end > token.start + 1
        /\ token.mod # "NONE" => token.kind = "INT"
    BY <2>1, Zenon DEF TokenFits, Fits
  <2> QED BY <2>3, <2>4, Zenon DEF ModMatchesText
<1> QED BY <1>1, LexInvariant, PTL

(* Memory safety of the scanner, for every text: it reads past the null    *)
(* byte only in a literal that the text breaks off.                        *)
THEOREM LexOverrunsOnlyUnclosed == LexSpec => []OverrunsOnlyUnclosed
<1>1. LexIInv => OverrunsOnlyUnclosed
  <2> SUFFICES ASSUME LexIInv, status = "overrun" PROVE OverrunsOnlyUnclosed
    BY DEF OverrunsOnlyUnclosed
  <2> DEFINE i == token.start
             n == Len(source)
  <2>1. SourceOK /\ n \in Nat /\ i \in 1 .. n + 1 /\ Unclosed(i)
    BY SourcesOK, Ends DEF LexIInv
  <2>2. i \in 1 .. n /\ At(i) = source[i]
    <3>1. At(i) # NUL
      <4>1. "'" # NUL
        BY DEF NUL
      <4> QED BY <2>1, <4>1, Quotes DEF Unclosed
    <3> QED BY <2>1, <3>1, Ends
  <2>3. Len(Rest) = n - i + 1 /\ \A k \in 1 .. n - i + 1 : Rest[k] = source[i + k - 1]
    BY <2>1, <2>2, Rests
  <2>4. Rest \in Seq(STRING \ {NUL})
    BY <2>1, <2>2 DEF SourceOK, Rest
  <2> HIDE DEF i, n
  <2>5. /\ Rest[1] = source[i] /\ Rest[n - i + 1] = source[n]
        /\ i + 1 = n => Rest[2] = source[i + 1]
    <3>1. 1 \in 1 .. n - i + 1 /\ n - i + 1 \in 1 .. n - i + 1 /\ (i + 1 = n => 2 \in 1 .. n - i + 1)
      BY <2>1, <2>2
    <3>2. i + 1 - 1 = i /\ i + (n - i + 1) - 1 = n /\ i + 2 - 1 = i + 1
      BY <2>1, <2>2
    <3> QED BY <2>3, <3>1, <3>2
  <2>6. CASE At(i) = "'" /\ i = n
    <3>1. Len(Rest) = 1 /\ Rest[1] = "'"
      BY <2>1, <2>2, <2>3, <2>5, <2>6
    <3>2. Rest = <<"'">>
      BY <2>4, <3>1
    <3> QED BY <3>2 DEF OverrunsOnlyUnclosed
  <2>7. CASE At(i) = "'" /\ i + 1 = n /\ At(i + 1) = "\\"
    <3>1. source[i + 1] = "\\"
      BY <2>1, <2>7, Ends DEF n
    <3>2. Len(Rest) = 2 /\ Rest[1] = "'" /\ Rest[2] = "\\"
      BY <2>1, <2>2, <2>3, <2>5, <2>7, <3>1
    <3>3. Rest = <<"'", "\\">>
      BY <2>4, <3>2
    <3> QED BY <3>3 DEF OverrunsOnlyUnclosed
  <2>8. CASE At(i) = DQUOTE /\ i < n /\ source[n] = "\\"
    <3>1. Rest[1] = DQUOTE /\ Rest[Len(Rest)] = "\\"
      BY <2>2, <2>3, <2>5, <2>8
    <3> QED BY <3>1 DEF OverrunsOnlyUnclosed
  <2> QED BY <2>1, <2>6, <2>7, <2>8 DEF Unclosed, n
<1> QED BY <1>1, LexInvariant, PTL
-----------------------------------------------------------------------------
(* What the loops and the reference make of a text stays true of it. *)
LEMMA SpanStays ==
  ASSUME source' = source, NEW CONSTANT i, NEW CONSTANT C
  PROVE  SpanEnd(i, C)' = SpanEnd(i, C)
BY SMT DEF SpanEnd, At

LEMMA PositionalStays ==
  ASSUME source' = source, NEW CONSTANT first, NEW CONSTANT last, NEW CONSTANT base
  PROVE  Positional(first, last, base)' = Positional(first, last, base)
BY SMT DEF Positional, IntDigit, At, hex_char_to_digit

LEMMA SpanOn ==
  ASSUME SourceOK, NEW C, NUL \notin C, NEW i \in 1 .. Len(source), At(i) \in C
  PROVE  SpanEnd(i, C) = SpanEnd(i + 1, C)
<1>0. Len(source) \in Nat /\ i \in 1 .. Len(source) + 1 /\ i + 1 \in 1 .. Len(source) + 1
  BY Ends
<1> DEFINE a == SpanEnd(i, C)
           b == SpanEnd(i + 1, C)
<1>1. a \in i .. Len(source) + 1 /\ At(a) \notin C /\ \A k \in i .. a - 1 : At(k) \in C
  BY <1>0, SpanEnds
<1>2. b \in i + 1 .. Len(source) + 1 /\ At(b) \notin C /\ \A k \in i + 1 .. b - 1 : At(k) \in C
  BY <1>0, SpanEnds
<1> HIDE DEF a, b
<1>3. a # i
  BY <1>1
<1>4. a \in i + 1 .. Len(source) + 1
  BY <1>0, <1>1, <1>3
<1>5. ~ (a < b)
  BY <1>0, <1>1, <1>2, <1>4
<1>6. ~ (b < a)
  BY <1>0, <1>1, <1>2, <1>4
<1> QED BY <1>0, <1>2, <1>4, <1>5, <1>6 DEF a, b

BaseOf(mod)   == [HEX |-> 16, BIN |-> 2, OCT |-> 8, NONE |-> 10][mod]
PrefixOf(mod) == [HEX |-> 2, BIN |-> 2, OCT |-> 1, NONE |-> 0][mod]

LEMMA IntExact ==
  ASSUME SourceOK, NEW CONSTANT i, i \in 1 .. Len(source) + 1, At(i) \in Digits, scan_int(i)
  PROVE  IntValueExact'
<1> DEFINE prefix == IntPrefix(i)
           first  == i + prefix.len
           last   == SpanEnd(first, HexDigits)
           val    == Accumulated(first, last, prefix.base)
           over   == {k \in first .. last - 1 : val[k] # OVERFLOW /\ val[k + 1] = OVERFLOW}
           Bad(n) == {<<"digit out of range", k>> :
                        k \in {k \in first .. n : hex_char_to_digit(At(k)) >= prefix.base}}
<1>0. /\ Len(source) \in Nat /\ NUL \notin Digits /\ NUL \notin HexDigits
      /\ Digits \subseteq HexDigits /\ "0" \in Digits /\ i \in 1 .. Len(source)
  BY Ends DEF NUL, Digits, HexDigits
<1>1. /\ source' = source /\ status' = status /\ token'.kind = "INT" /\ token'.mod = prefix.mod
      /\ token'.start = i
      /\ \/ over = {} /\ token'.val = val[last] /\ token'.end = last
            /\ errors' = Skipped(i) \union Bad(last - 1)
         \/ \E k \in over : token'.val = 0 /\ <<"integer overflow", k>> \in errors'
  <2>1. ASSUME NEW j, NEW v, NEW errs, Emit(i, j, "INT", prefix.mod, v, errs)
        PROVE  /\ source' = source /\ status' = status /\ token'.kind = "INT"
               /\ token'.mod = prefix.mod /\ token'.start = i /\ token'.val = v /\ token'.end = j
               /\ errors' = Skipped(i) \union errs
    <3>1. token' = [kind |-> "INT", mod |-> prefix.mod, start |-> i, end |-> j, val |-> v]
      BY <2>1 DEF Emit
    <3> HIDE DEF prefix
    <3> QED BY <2>1, <3>1 DEF Emit
  <2>2. \/ over = {} /\ Emit(i, last, "INT", prefix.mod, val[last], Bad(last - 1))
        \/ \E k \in over : Emit(i, SpanEnd(k, Digits), "INT", prefix.mod, 0,
                                Bad(k) \union {<<"integer overflow", k>>})
    BY Zenon DEF scan_int
  <2> HIDE DEF prefix, last, val, over, Bad
  <2>3. CASE over = {} /\ Emit(i, last, "INT", prefix.mod, val[last], Bad(last - 1))
    BY <2>1, <2>3
  <2>4. CASE \E k \in over : Emit(i, SpanEnd(k, Digits), "INT", prefix.mod, 0,
                                 Bad(k) \union {<<"integer overflow", k>>})
    <3>1. PICK k \in over : Emit(i, SpanEnd(k, Digits), "INT", prefix.mod, 0,
                                Bad(k) \union {<<"integer overflow", k>>})
      BY <2>4
    <3>2. errors' = Skipped(i) \union (Bad(k) \union {<<"integer overflow", k>>})
      BY <2>1, <3>1
    <3> QED BY <2>1, <3>1, <3>2
  <2> QED BY <2>2, <2>3, <2>4
<1>2. /\ prefix.mod \in {"HEX", "BIN", "OCT", "NONE"} /\ prefix.base = BaseOf(prefix.mod)
      /\ prefix.base \in {2, 8, 10, 16} /\ prefix.len \in {0, 1, 2}
      /\ prefix.len = 2 => At(i + 1) # NUL
      /\ \/ first = i + PrefixOf(prefix.mod)
         \/ first = i + 1 /\ PrefixOf(prefix.mod) = 0 /\ At(i) = "0"
  <2> HIDE DEF prefix
  <2>1. \/ /\ At(i) = "0" /\ At(i + 1) \in {"x", "X"}
           /\ prefix.base = 16 /\ prefix.mod = "HEX" /\ prefix.len = 2
        \/ /\ At(i) = "0" /\ At(i + 1) \in {"b", "B"}
           /\ prefix.base = 2 /\ prefix.mod = "BIN" /\ prefix.len = 2
        \/ /\ At(i) = "0" /\ At(i + 1) \in Digits
           /\ prefix.base = 8 /\ prefix.mod = "OCT" /\ prefix.len = 1
        \/ /\ At(i) = "0" /\ At(i + 1) \notin Digits \union {"x", "X", "b", "B"}
           /\ prefix.base = 10 /\ prefix.mod = "NONE" /\ prefix.len = 1
        \/ /\ At(i) # "0"
           /\ prefix.base = 10 /\ prefix.mod = "NONE" /\ prefix.len = 0
    BY IntPrefixes DEF prefix
  <2> QED BY <1>0, <2>1 DEF BaseOf, PrefixOf, NUL
<1> HIDE DEF prefix
<1>3. PICK mod \in {"HEX", "BIN", "OCT", "NONE"} : mod = prefix.mod
  BY <1>2
<1>4. PICK base \in {2, 8, 10, 16} : base = prefix.base /\ base = BaseOf(mod)
  BY <1>2, <1>3
<1>5. PICK start \in Nat : start = i + PrefixOf(mod)
  BY <1>0, <1>3 DEF PrefixOf
<1>6. PICK from \in 1 .. Len(source) + 1 : from = first
  <2>1. prefix.len = 2 => i + 1 <= Len(source)
    BY <1>0, <1>2, Ends
  <2> QED BY <1>0, <1>2, <2>1
<1>7. PICK stop \in from .. Len(source) + 1 : stop = last
  BY <1>0, <1>6, SpanEnds
<1>8. from = start \/ (from = i + 1 /\ start = i /\ At(i) = "0")
  BY <1>0, <1>2, <1>3, <1>5, <1>6
<1> HIDE DEF first
<1>9. SpanEnd(start, HexDigits) = stop
  BY <1>0, <1>6, <1>7, <1>8, SpanOn
<1> HIDE DEF last
<1> DEFINE goal == Positional(start, stop, base)
<1>10. /\ goal \in Nat
       /\ val[last] # OVERFLOW => val[last] = goal /\ goal <= UINT64_MAX
       /\ over # {} => goal > UINT64_MAX
       /\ val[last] = OVERFLOW => over # {}
  <2>1. from \in Nat /\ stop \in Nat /\ from <= stop
    BY <1>0, <1>6, <1>7
  <2>2. start = from \/ (start = from - 1 /\ IntDigit(start, base) = 0)
    <3>1. hex_char_to_digit("0") = 0
      BY DEF hex_char_to_digit
    <3>2. At(start) = "0" => IntDigit(start, base) = 0
      BY <3>1 DEF IntDigit
    <3> QED BY <1>0, <1>8, <3>2
  <2>3. TurnsExact(start, from, stop, base)
    BY <2>1, <2>2, AccumulatedExact
  <2>4. TurnsExact(start, first, last, prefix.base) /\ goal = Positional(start, last, prefix.base)
    BY <1>4, <1>6, <1>7, <2>3
  <2> HIDE DEF goal
  <2>5. /\ goal \in Nat
        /\ val[last] # OVERFLOW => val[last] = goal /\ val[last] \in 0 .. UINT64_MAX
        /\ over # {} => goal > UINT64_MAX
        /\ val[last] = OVERFLOW => over # {}
    BY <2>4, Zenon DEF TurnsExact
  <2> HIDE DEF val, over
  <2> QED BY <2>5, LexAssumption
<1>11. goal <= UINT64_MAX =>
         token'.val = goal /\ token'.end = stop /\ \A e \in errors' : e[1] # "integer overflow"
  <2>1. \A e : \A what, k : e = <<what, k>> => e[1] = what
    OBVIOUS
  <2>2. \A e \in Skipped(i) : e[1] = "invalid character"
    <3>1. \A e \in Skipped(i) : \E k : e = <<"invalid character", k>>
      BY Zenon DEF Skipped
    <3> QED BY <2>1, <3>1, Zenon
  <2>3. \A e \in Bad(last - 1) : e[1] = "digit out of range"
    <3>1. \A e \in Bad(last - 1) : \E k : e = <<"digit out of range", k>>
      BY Zenon
    <3> QED BY <2>1, <3>1, Zenon
  <2>4. goal <= UINT64_MAX => ~ (goal > UINT64_MAX)
    BY <1>10, LexAssumption
  <2> HIDE DEF Bad, val, over, goal
  <2>5. goal <= UINT64_MAX => over = {}
    BY <1>10, <2>4
  <2>6. over = {} => \A e \in errors' : e[1] # "integer overflow"
    <3> SUFFICES ASSUME over = {}, NEW e \in errors', e[1] = "integer overflow" PROVE FALSE
      BY Zenon
    <3>1. e \in Skipped(i) \/ e \in Bad(last - 1)
      BY <1>1
    <3>2. "integer overflow" # "invalid character" /\ "integer overflow" # "digit out of range"
      BY Zenon
    <3> QED BY <2>2, <2>3, <3>1, <3>2, Zenon
  <2> QED BY <1>1, <1>7, <1>10, <2>5, <2>6, Zenon
<1>12. ~ (goal <= UINT64_MAX) =>
         token'.val = 0 /\ \E e \in errors' : e[1] = "integer overflow"
  <2>1. \A k : <<"integer overflow", k>>[1] = "integer overflow"
    OBVIOUS
  <2> HIDE DEF Bad, val, over, goal
  <2>2. over # {} => token'.val = 0 /\ \E e \in errors' : e[1] = "integer overflow"
    <3> SUFFICES ASSUME over # {} PROVE token'.val = 0 /\ \E e \in errors' : e[1] = "integer overflow"
      OBVIOUS
    <3>1. PICK k \in over : token'.val = 0 /\ <<"integer overflow", k>> \in errors'
      BY <1>1
    <3> QED BY <2>1, <3>1, Zenon
  <2> QED BY <1>10, <2>2, Zenon
<1>13. /\ SpanEnd(start, HexDigits)' = stop
       /\ Positional(start, stop, base)' = goal
  BY <1>1, <1>9, SpanStays, PositionalStays
<1>14. /\ [HEX |-> 16, BIN |-> 2, OCT |-> 8, NONE |-> 10][token'.mod] = base
       /\ token'.start + [HEX |-> 2, BIN |-> 2, OCT |-> 1, NONE |-> 0][token'.mod] = start
  BY <1>1, <1>3, <1>4, <1>5 DEF BaseOf, PrefixOf
<1> HIDE DEF goal
<1> QED BY <1>11, <1>12, <1>13, <1>14, Zenon DEF IntValueExact

(* Exactness of numbers is not lost between two calls, and a token that is *)
(* no number has nothing to lose.                                          *)
LEMMA ExactStays ==
  ASSUME LexIInv, IntValueExact, UNCHANGED lexVars
  PROVE  IntValueExact'
<1>1. source' = source /\ token' = token /\ errors' = errors /\ status' = status
  BY DEF lexVars
<1>2. CASE ~ (Scanned /\ token.kind = "INT" /\ token.mod # "CHAR")
  BY <1>1, <1>2, Zenon DEF IntValueExact, Scanned
<1>3. CASE Scanned /\ token.kind = "INT" /\ token.mod # "CHAR"
  <2> DEFINE first == token.start + [HEX |-> 2, BIN |-> 2, OCT |-> 1, NONE |-> 0][token.mod]
  <2>1. PICK base : base = [HEX |-> 16, BIN |-> 2, OCT |-> 8, NONE |-> 10][token.mod]
    OBVIOUS
  <2>2. PICK start : start = first
    OBVIOUS
  <2>3. PICK stop : stop = SpanEnd(start, HexDigits)
    OBVIOUS
  <2>4. PICK value : value = Positional(start, stop, base)
    OBVIOUS
  <2>5. SpanEnd(start, HexDigits)' = stop /\ Positional(start, stop, base)' = value
    BY <1>1, <2>3, <2>4, SpanStays, PositionalStays
  <2>6. IF value <= UINT64_MAX
        THEN token.val = value /\ token.end = stop /\ \A e \in errors : e[1] # "integer overflow"
        ELSE token.val = 0 /\ \E e \in errors : e[1] = "integer overflow"
    BY <1>3, <2>1, <2>2, <2>3, <2>4, Zenon DEF IntValueExact
  <2> QED BY <1>1, <2>1, <2>2, <2>5, <2>6, Zenon DEF IntValueExact
<1> QED BY <1>2, <1>3

LEMMA ExactStep ==
  ASSUME LexIInv, next_token
  PROVE  IntValueExact'
<1>1. SourceOK /\ stream \in 1 .. Len(source) + 1 /\ Len(source) \in Nat
  BY StreamInText, Ends
<1>2. PICK i \in 1 .. Len(source) + 1 : Scans(i)
  BY <1>1, NextScans
<1>3. ASSUME NEW j, NEW kind, NEW mod, NEW val, NEW errs,
             Emit(i, j, kind, mod, val, errs),
             kind = "INT" /\ mod # "CHAR" => At(i) \in Digits /\ scan_int(i)
      PROVE  IntValueExact'
  <2>1. token'.kind = kind /\ token'.mod = mod
    <3>1. token' = [kind |-> kind, mod |-> mod, start |-> i, end |-> j, val |-> val]
      BY <1>3 DEF Emit
    <3> QED BY <3>1
  <2>2. CASE kind = "INT" /\ mod # "CHAR"
    BY <1>1, <1>3, <2>2, IntExact
  <2>3. CASE ~ (kind = "INT" /\ mod # "CHAR")
    BY <2>1, <2>3, Zenon DEF IntValueExact
  <2> QED BY <2>2, <2>3
<1>4. ASSUME NEW how \in {"abort", "overrun"}, NEW errs, Fails(i, how, errs)
      PROVE  IntValueExact'
  <2>1. status' # "run"
    BY <1>4 DEF Fails
  <2> QED BY <2>1, Zenon DEF IntValueExact, Scanned
<1> QED BY <1>2, <1>3, <1>4 DEF Scans, Yields

(* Numeric literals: for every width of the word and every text, the value *)
(* of a number is that of its digits in the base its prefix announces, or  *)
(* 0 with an overflow reported, and the overflow is reported then only.    *)
THEOREM LexIntValueExact == LexSpec => []IntValueExact
<1>1. LexInit => IntValueExact
  <2> SUFFICES ASSUME LexInit PROVE ~ Scanned
    BY Zenon DEF IntValueExact
  <2> QED BY DEF LexInit, Scanned
<1>2. LexIInv /\ IntValueExact /\ [next_token]_lexVars => IntValueExact'
  BY ExactStep, ExactStays
<1> QED BY <1>1, <1>2, LexInvariant, PTL DEF LexSpec
=============================================================================
