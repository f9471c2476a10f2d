-------------------------- MODULE LexSpellingProofs --------------------------
(***************************************************************************)
(* What Lex's tokens spell, for every set of texts: the literals that it   *)
(* accepts are spellings of their values (the loop of scan_str followed    *)
(* from the closing quote back to the opening one, and the four cases of   *)
(* scan_char), and an operator is the longest that the table of names      *)
(* allows.                                                                 *)
(***************************************************************************)
EXTENDS LexProofs

LEMMA Appended ==
  ASSUME NEW A, NEW x \in Seq(A), NEW y \in Seq(A), NEW z \in Seq(A)
  PROVE  (x \o y) \o z = x \o (y \o z)
BY ConcatAssociative

(* FlattenSeq joins the first sequence to the others joined.               *)
Joins(join, S) ==
  /\ FlattenSeq(S) = join[Len(S)]
  /\ \A k \in 1 .. Len(S) : join[k] = IF k = 1 THEN S[1] ELSE join[k - 1] \o S[k]

JoinTurn(S, f, k) == IF k = 1 THEN S[k] ELSE f[k - 1] \o S[k]

LEMMA FlattenJoins ==
  ASSUME NEW S, Len(S) \in Nat \ {0}
  PROVE  \E join : Joins(join, S)
<1>0. PICK n \in Nat \ {0} : n = Len(S)
  OBVIOUS
<1> DEFINE Upto(f, m) == f = [k \in 1 .. m |-> JoinTurn(S, f, k)]
           T == {m \in 1 .. n : ~ \E f : Upto(f, m)}
<1>1. T = {}
  <2> SUFFICES ASSUME T # {} PROVE FALSE
    OBVIOUS
  <2>1. PICK m \in T : \A k \in T : m <= k
    <3>1. T \in SUBSET Nat
      OBVIOUS
    <3> HIDE DEF T
    <3> QED BY <3>1, LeastNumber
  <2>2. CASE m = 1
    <3>1. Upto([k \in 1 .. 1 |-> S[k]], 1)
      BY DEF JoinTurn
    <3> QED BY <2>1, <2>2, <3>1
  <2>3. CASE m > 1
    <3>1. m - 1 \in 1 .. n /\ m - 1 \notin T
      BY <2>1, <2>3
    <3>2. PICK f : Upto(f, m - 1)
      BY <3>1
    <3> DEFINE g == [k \in 1 .. m |-> JoinTurn(S, f, k)]
    <3>3. \A k \in 1 .. m - 1 : g[k] = f[k]
      BY <3>2
    <3>4. ASSUME NEW k \in 1 .. m PROVE JoinTurn(S, g, k) = JoinTurn(S, f, k)
      <4> HIDE DEF g
      <4>1. k = 1 \/ k - 1 \in 1 .. m - 1
        OBVIOUS
      <4> QED BY <3>3, <4>1 DEF JoinTurn
    <3>5. Upto(g, m)
      BY <3>4
    <3> QED BY <2>1, <3>5
  <2> QED BY <2>1, <2>2, <2>3
<1>2. \E f : Upto(f, n)
  <2>1. n \in 1 .. n /\ n \notin T
    <3> HIDE DEF T
    <3> QED BY <1>1
  <2> QED BY <2>1
<1> DEFINE join == CHOOSE f : f = [k \in 1 .. Len(S) |-> IF k = 1 THEN S[k] ELSE f[k - 1] \o S[k]]
<1>3. join = [k \in 1 .. Len(S) |-> IF k = 1 THEN S[k] ELSE join[k - 1] \o S[k]]
  BY <1>0, <1>2, Zenon DEF JoinTurn
<1>4. FlattenSeq(S) = join[Len(S)]
  <2>1. Len(S) # 0
    OBVIOUS
  <2> QED BY <2>1, Zenon DEF FlattenSeq
<1> HIDE DEF join
<1>5. \A k \in 1 .. Len(S) : join[k] = IF k = 1 THEN S[1] ELSE join[k - 1] \o S[k]
  BY <1>3
<1>6. Joins(join, S)
  BY <1>4, <1>5 DEF Joins
<1> QED BY <1>6

(* The pieces of a text joined: the first one, and then the rest joined.   *)
LEMMA FlattenCons ==
  ASSUME NEW A, NEW x \in Seq(A), NEW S \in Seq(Seq(A))
  PROVE  FlattenSeq(<<x>> \o S) = x \o FlattenSeq(S) /\ FlattenSeq(S) \in Seq(A)
<1> DEFINE R == <<x>> \o S
<1>0. PICK n \in Nat : n = Len(S) /\ Len(R) = n + 1 /\ R[1] = x /\ \A k \in 1 .. n : R[k + 1] = S[k]
  <2>1. Len(S) \in Nat
    OBVIOUS
  <2>2. <<x>> \in Seq(Seq(A)) /\ Len(<<x>>) = 1 /\ <<x>>[1] = x
    OBVIOUS
  <2>3. /\ Len(R) = 1 + Len(S)
        /\ \A i \in 1 .. 1 + Len(S) : R[i] = IF i <= 1 THEN <<x>>[i] ELSE S[i - 1]
    BY <2>2, ConcatProperties
  <2> QED BY <2>1, <2>2, <2>3
<1> HIDE DEF R
<1>1. PICK g : Joins(g, R)
  BY <1>0, FlattenJoins
<1>2. CASE n = 0
  <2>1. S = << >> /\ Len(S) = 0
    BY <1>0, <1>2, EmptySeq
  <2>2. FlattenSeq(S) = S
    BY <2>1, Zenon DEF FlattenSeq
  <2>3. FlattenSeq(R) = x
    BY <1>0, <1>1, <1>2 DEF Joins
  <2>4. x \o << >> = x /\ << >> \in Seq(A)
    BY ConcatEmptySeq, EmptySeq
  <2> QED BY <2>1, <2>2, <2>3, <2>4 DEF R
<1>3. CASE n # 0
  <2>1. PICK f : Joins(f, S)
    BY <1>0, <1>3, FlattenJoins
  <2> DEFINE OK(k) == f[k] \in Seq(A) /\ g[k + 1] = x \o f[k]
             T == {k \in 1 .. n : ~ OK(k)}
  <2>2. T = {}
    <3> SUFFICES ASSUME T # {} PROVE FALSE
      OBVIOUS
    <3>1. PICK m \in T : \A k \in T : m <= k
      <4>1. T \in SUBSET Nat
        OBVIOUS
      <4> HIDE DEF T
      <4> QED BY <4>1, LeastNumber
    <3>2. m \in 1 .. n /\ ~ OK(m) /\ S[m] \in Seq(A)
      BY <1>0, <3>1
    <3>3. /\ f[m] = IF m = 1 THEN S[1] ELSE f[m - 1] \o S[m]
          /\ g[m + 1] = g[m] \o S[m] /\ g[1] = x
      <4>1. /\ m \in 1 .. Len(S) /\ m + 1 \in 1 .. Len(R) /\ 1 \in 1 .. Len(R)
            /\ m + 1 # 1 /\ (m + 1) - 1 = m
        BY <1>0, <3>2
      <4>2. f[m] = IF m = 1 THEN S[1] ELSE f[m - 1] \o S[m]
        BY <2>1, <4>1 DEF Joins
      <4>3. g[m + 1] = g[m] \o R[m + 1] /\ g[1] = R[1]
        BY <1>1, <4>1 DEF Joins
      <4> QED BY <1>0, <3>2, <4>2, <4>3
    <3>4. CASE m = 1
      BY <3>2, <3>3, <3>4
    <3>5. CASE m # 1
      <4>1. m - 1 \in 1 .. n /\ m - 1 \notin T /\ (m - 1) + 1 = m
        <5> HIDE DEF OK
        <5> QED BY <3>1, <3>2, <3>5
      <4>2. f[m - 1] \in Seq(A) /\ g[m] = x \o f[m - 1]
        BY <4>1
      <4>3. f[m] = f[m - 1] \o S[m] /\ g[m + 1] = (x \o f[m - 1]) \o S[m]
        BY <3>3, <3>5, <4>2
      <4>4. f[m] \in Seq(A)
        BY <3>2, <4>2, <4>3, ConcatProperties
      <4>5. (x \o f[m - 1]) \o S[m] = x \o (f[m - 1] \o S[m])
        <5>1. PICK y : y = f[m - 1]
          OBVIOUS
        <5>2. PICK z : z = S[m]
          OBVIOUS
        <5>3. y \in Seq(A) /\ z \in Seq(A)
          BY <3>2, <4>2, <5>1, <5>2
        <5>4. (x \o y) \o z = x \o (y \o z)
          <6> HIDE DEF OK, T
          <6> QED BY <5>3, Appended
        <5> QED BY <5>1, <5>2, <5>4
      <4> QED BY <3>2, <4>3, <4>4, <4>5
    <3> QED BY <3>4, <3>5
  <2>3. n \in 1 .. n /\ OK(n)
    BY <1>3, <2>2
  <2> QED BY <1>0, <1>1, <2>1, <2>3 DEF Joins, R
<1> QED BY <1>2, <1>3
-----------------------------------------------------------------------------
(* Spellings of characters, and of a literal put together from them. *)
(* The characters that literals are made of and that they stand for.       *)
EscapeLetters == {"n", "r", "t", "v", "b", "a", "0"}
EscapeValues == {"\n", "\r", "\t", "VT", "BS", "BEL", NUL}
Char == STRING \union {"\\"} \union EscapeLetters \union EscapeValues

LEMMA SpellingsText == \A c \in Char : Spellings(c) \in SUBSET Seq(Char)
<1>1. \A c : Spellings(c) \subseteq {<<c>>} \union {<<"\\", e>> : e \in EscapeLetters}
  BY Zenon DEF Spellings, EscapeLetters
<1>2. \A A : \A c, d \in A : <<c>> \in Seq(A) /\ <<c, d>> \in Seq(A)
  OBVIOUS
<1>3. {<<"\\", e>> : e \in EscapeLetters} \in SUBSET Seq(Char)
  <2>1. "\\" \in Char /\ \A e \in EscapeLetters : e \in Char
    BY Zenon DEF Char
  <2> QED BY <1>2, <2>1, Zenon
<1> QED BY <1>1, <1>2, <1>3, Zenon

LEMMA Preceded ==
  ASSUME NEW A, NEW x \in A, NEW s \in Seq(A), NEW n \in Nat, n = Len(s)
  PROVE  /\ <<x>> \o s \in [1 .. n + 1 -> A] /\ DOMAIN (<<x>> \o s) = 1 .. n + 1
         /\ \A k \in 1 .. n + 1 : (<<x>> \o s)[k] = IF k = 1 THEN x ELSE s[k - 1]
<1>1. <<x>> \in Seq(A) /\ Len(<<x>>) = 1 /\ <<x>>[1] = x
  OBVIOUS
<1>2. /\ <<x>> \o s \in Seq(A) /\ Len(<<x>> \o s) = 1 + n
      /\ \A k \in 1 .. 1 + n : (<<x>> \o s)[k] = IF k <= 1 THEN <<x>>[k] ELSE s[k - 1]
  BY <1>1, ConcatProperties
<1> DEFINE r == <<x>> \o s
<1> HIDE DEF r
<1>3. r \in [1 .. n + 1 -> A] /\ DOMAIN r = 1 .. n + 1
  <2>1. r \in Seq(A) /\ Len(r) = n + 1
    BY <1>2 DEF r
  <2> QED BY <2>1
<1>4. \A k \in 1 .. n + 1 : r[k] = IF k = 1 THEN x ELSE s[k - 1]
  BY <1>1, <1>2 DEF r
<1> QED BY <1>3, <1>4 DEF r

LEMMA SpellsNone == Spells(<< >>, << >>)
<1>1. FlattenSeq(<< >>) = << >>
  BY Zenon DEF FlattenSeq, EmptySeq
<1>2. DOMAIN << >> = {}
  OBVIOUS
<1> DEFINE all == UNION {Spellings((<< >>)[k]) : k \in DOMAIN << >>}
<1> HIDE DEF all
<1>3. << >> \in [DOMAIN << >> -> all]
  OBVIOUS
<1> QED BY <1>1, <1>2, <1>3, Zenon DEF Spells, all

(* A spelling of a character before a spelling of the characters after it. *)
LEMMA SpellsMore ==
  ASSUME NEW c \in Char, NEW piece \in Spellings(c),
         NEW chars \in Seq(Char), NEW text, Spells(text, chars)
  PROVE  Spells(piece \o text, <<c>> \o chars) /\ text \in Seq(Char)
<1> DEFINE more == <<c>> \o chars
<1>0. PICK n \in Nat : n = Len(chars)
  OBVIOUS
<1>1. PICK written :
        /\ written \in [DOMAIN chars -> UNION {Spellings(chars[k]) : k \in DOMAIN chars}]
        /\ \A k \in DOMAIN chars : written[k] \in Spellings(chars[k])
        /\ text = FlattenSeq(written)
  BY Zenon DEF Spells
<1>2. DOMAIN chars = 1 .. n /\ \A k \in 1 .. n : chars[k] \in Char
  BY <1>0
<1>3. written \in Seq(Seq(Char)) /\ Len(written) = n
  <2>1. \A k \in 1 .. n : written[k] \in Seq(Char)
    BY <1>1, <1>2, SpellingsText
  <2>2. written = [k \in 1 .. n |-> written[k]]
    BY <1>1, <1>2, Zenon
  <2> QED BY <1>0, <2>1, <2>2
<1>4. piece \in Seq(Char)
  BY SpellingsText
<1> DEFINE writes == <<piece>> \o written
<1>5. FlattenSeq(writes) = piece \o text /\ text \in Seq(Char)
  BY <1>1, <1>3, <1>4, FlattenCons
<1>6. /\ writes \in [1 .. n + 1 -> Seq(Char)]
      /\ \A k \in 1 .. n + 1 : writes[k] = IF k = 1 THEN piece ELSE written[k - 1]
  BY <1>3, <1>4, Preceded
<1>7. /\ DOMAIN more = 1 .. n + 1
      /\ \A k \in 1 .. n + 1 : more[k] = IF k = 1 THEN c ELSE chars[k - 1]
  BY <1>0, Preceded
<1> HIDE DEF more, writes
<1>8. \A k \in DOMAIN more : writes[k] \in Spellings(more[k])
  <2> SUFFICES ASSUME NEW k \in 1 .. n + 1 PROVE writes[k] \in Spellings(more[k])
    BY <1>7
  <2>1. CASE k = 1
    BY <1>6, <1>7, <2>1
  <2>2. CASE k # 1
    <3>1. k - 1 \in 1 .. n
      BY <2>2
    <3> QED BY <1>1, <1>2, <1>6, <1>7, <2>2, <3>1
  <2> QED BY <2>1, <2>2
<1>9. writes \in [DOMAIN more -> UNION {Spellings(more[k]) : k \in DOMAIN more}]
  <2> DEFINE all == UNION {Spellings(more[k]) : k \in DOMAIN more}
  <2>1. \A k \in DOMAIN more : writes[k] \in all
    BY <1>8, Zenon
  <2> HIDE DEF all
  <2>2. writes \in [DOMAIN more -> all]
    BY <1>6, <1>7, <2>1
  <2> QED BY <2>2 DEF all
<1>10. Spells(piece \o text, more)
  BY <1>5, <1>8, <1>9, Zenon DEF Spells
<1> QED BY <1>5, <1>10 DEF more

(* What an escape stands for is spelled by it.                             *)
LEMMA EscapeSpelled ==
  \A e : char_to_escape(e) # NUL =>
    <<"\\", e>> \in Spellings(char_to_escape(e)) /\ char_to_escape(e) \in Char
BY Zenon DEF char_to_escape, Spellings, Char, EscapeLetters, EscapeValues, NUL

LEMMA NullSpelled == <<"\\", "0">> \in Spellings(NUL) /\ char_to_escape("0") = NUL
BY Zenon DEF Spellings, NUL, char_to_escape

LEMMA PlainSpelled == \A c : c # "\\" /\ c # NUL => <<c>> \in Spellings(c)
BY Zenon DEF Spellings

(* The loop of scan_str from j on, case by case.                           *)
LEMMA StringTurnCases ==
  ASSUME NEW body, NEW j, ~ (j > Len(source) + 1 \/ At(j) \in {NUL, DQUOTE, "\n"})
  PROVE  /\ At(j) # "\\" =>
              /\ StringTurn(body, j).stop = body[j + 1].stop
              /\ StringTurn(body, j).chars = << At(j) >> \o body[j + 1].chars
              /\ StringTurn(body, j).errs = body[j + 1].errs
         /\ At(j) = "\\" =>
              /\ StringTurn(body, j).stop = body[j + 2].stop
              /\ StringTurn(body, j).chars =
                   IF char_to_escape(At(j + 1)) = NUL THEN << >>
                   ELSE << char_to_escape(At(j + 1)) >> \o body[j + 2].chars
              /\ StringTurn(body, j).errs = BadEscape(j + 1) \union body[j + 2].errs
<1>1. At(j) # NUL
  OBVIOUS
<1>2. CASE At(j) # "\\"
  <2>1. StringTurn(body, j) = [stop |-> body[j + 1].stop, chars |-> << At(j) >> \o body[j + 1].chars,
                               errs |-> {} \union body[j + 1].errs]
    BY <1>1, <1>2 DEF StringTurn
  <2> QED BY <1>2, <2>1
<1>3. CASE At(j) = "\\"
  <2> DEFINE c == char_to_escape(At(j + 1))
  <2>1. StringTurn(body, j) = [stop  |-> body[j + 2].stop,
                               chars |-> IF c = NUL THEN << >> ELSE << c >> \o body[j + 2].chars,
                               errs  |-> BadEscape(j + 1) \union body[j + 2].errs]
    BY <1>3 DEF StringTurn
  <2> HIDE DEF c
  <2>2. /\ StringTurn(body, j).stop = body[j + 2].stop
        /\ StringTurn(body, j).chars = IF c = NUL THEN << >> ELSE << c >> \o body[j + 2].chars
        /\ StringTurn(body, j).errs = BadEscape(j + 1) \union body[j + 2].errs
    BY <2>1
  <2> QED BY <1>3, <2>2 DEF c
<1> QED BY <1>2, <1>3

(* A text from a place on: a piece of one character or of two, and what    *)
(* follows it.                                                             *)
LEMMA Pieces ==
  ASSUME SourceOK
  PROVE  /\ \A m \in 1 .. Len(source) : \A cut \in m + 1 .. Len(source) :
              SubSeq(source, m, cut - 1) = << At(m) >> \o SubSeq(source, m + 1, cut - 1)
         /\ \A m \in 1 .. Len(source) : \A cut \in m + 2 .. Len(source) :
              SubSeq(source, m, cut - 1) = << At(m), At(m + 1) >> \o SubSeq(source, m + 2, cut - 1)
         /\ \A m \in 1 .. Len(source) : SubSeq(source, m, m - 1) = << >>
<1>0. source \in Seq(STRING \ {NUL}) /\ Len(source) \in Nat
  BY Ends DEF SourceOK
<1>1. ASSUME NEW m \in 1 .. Len(source), NEW cut \in m + 1 .. Len(source)
      PROVE  SubSeq(source, m, cut - 1) = << At(m) >> \o SubSeq(source, m + 1, cut - 1)
  <2>1. cut - 1 \in m .. Len(source) /\ At(m) = source[m]
    BY <1>0, Ends
  <2> QED BY <1>0, <2>1, SubSeqRecursiveFirst
<1>2. ASSUME NEW m \in 1 .. Len(source), NEW cut \in m + 2 .. Len(source)
      PROVE  SubSeq(source, m, cut - 1) = << At(m), At(m + 1) >> \o SubSeq(source, m + 2, cut - 1)
  <2>1. m + 1 \in 1 .. Len(source) /\ m \in 1 .. Len(source) + 1 /\ m + 1 \in m - 1 .. Len(source)
        /\ cut - 1 \in m + 1 .. Len(source) /\ (m + 1) + 1 = m + 2
    BY <1>0
  <2>2. SubSeq(source, m, m + 1) \o SubSeq(source, m + 2, cut - 1) = SubSeq(source, m, cut - 1)
    BY <1>0, <2>1, ConcatAdjacentSubSeq
  <2>3. SubSeq(source, m, m + 1) = << source[m], source[m + 1] >>
    <3> DEFINE two == SubSeq(source, m, m + 1)
    <3>1. /\ two \in Seq(STRING \ {NUL}) /\ Len(two) = 2
          /\ two[1] = source[m] /\ two[2] = source[m + 1]
      BY <1>0, <2>1
    <3> HIDE DEF two
    <3>2. two = << source[m], source[m + 1] >>
      BY <3>1
    <3> QED BY <3>2 DEF two
  <2>4. At(m) = source[m] /\ At(m + 1) = source[m + 1]
    BY <2>1, Ends
  <2> QED BY <2>2, <2>3, <2>4
<1>3. \A m \in 1 .. Len(source) : SubSeq(source, m, m - 1) = << >>
  BY <1>0, SubSeqEmpty
<1> QED BY <1>1, <1>2, <1>3

(* A piece of one character or of two.                                     *)
LEMMA PiecesOnly ==
  ASSUME SourceOK, NEW m \in 1 .. Len(source)
  PROVE  /\ m + 1 <= Len(source) => SubSeq(source, m, (m + 1) - 1) = << At(m) >>
         /\ m + 2 <= Len(source) => SubSeq(source, m, (m + 2) - 1) = << At(m), At(m + 1) >>
<1>0. Len(source) \in Nat /\ source \in Seq(STRING \ {NUL})
  BY Ends DEF SourceOK
<1>1. ASSUME m + 1 <= Len(source) PROVE SubSeq(source, m, (m + 1) - 1) = << At(m) >>
  <2>1. m + 1 \in m + 1 .. Len(source) /\ (m + 1) - 1 < m + 1
    BY <1>0, <1>1
  <2>2. SubSeq(source, m + 1, (m + 1) - 1) = << >>
    BY <2>1, SubSeqEmpty
  <2>3. SubSeq(source, m, (m + 1) - 1) = << At(m) >> \o << >>
    BY <2>1, <2>2, Pieces, Zenon
  <2> QED BY <2>3
<1>2. ASSUME m + 2 <= Len(source) PROVE SubSeq(source, m, (m + 2) - 1) = << At(m), At(m + 1) >>
  <2>1. m + 2 \in m + 2 .. Len(source) /\ (m + 2) - 1 < m + 2
    BY <1>0, <1>2
  <2>2. SubSeq(source, m + 2, (m + 2) - 1) = << >>
    BY <2>1, SubSeqEmpty
  <2>3. SubSeq(source, m, (m + 2) - 1) = << At(m), At(m + 1) >> \o << >>
    BY <2>1, <2>2, Pieces, Zenon
  <2> QED BY <2>3
<1> QED BY <1>1, <1>2

-----------------------------------------------------------------------------
(* A string that is closed and has no error has its characters spelled     *)
(* between its quotes, up to an escaped null: by induction from the        *)
(* closing quote back to the opening one.                                  *)
CutAt(cut, stop) == cut = stop \/ (source[cut] = "\\" /\ source[cut + 1] = "0")

ReadFrom(j, stop, chars) ==
  /\ chars \in Seq(Char)
  /\ \E cut \in j .. stop : Spells(SubSeq(source, j, cut - 1), chars) /\ CutAt(cut, stop)

LEMMA ReadsPlain ==
  ASSUME SourceOK, NEW m \in 1 .. Len(source), NEW stop \in 1 .. Len(source), NEW chars,
         At(m) # "\\", At(m) \in Char, ReadFrom(m + 1, stop, chars)
  PROVE  ReadFrom(m, stop, << At(m) >> \o chars)
<1>0. Len(source) \in Nat /\ At(m) # NUL
  BY Ends
<1>1. chars \in Seq(Char) /\ << At(m) >> \o chars \in Seq(Char)
  BY DEF ReadFrom
<1>2. PICK cut \in m + 1 .. stop :
        Spells(SubSeq(source, m + 1, cut - 1), chars) /\ CutAt(cut, stop)
  BY DEF ReadFrom
<1>3. << At(m) >> \in Spellings(At(m))
  BY <1>0, PlainSpelled
<1>4. Spells(<< At(m) >> \o SubSeq(source, m + 1, cut - 1), << At(m) >> \o chars)
  BY <1>1, <1>2, <1>3, SpellsMore, Zenon
<1>5. cut \in m + 1 .. Len(source) /\ cut \in m .. stop
  BY <1>0, <1>2
<1>6. Spells(SubSeq(source, m, cut - 1), << At(m) >> \o chars)
  BY <1>4, <1>5, Pieces, Zenon
<1> QED BY <1>1, <1>2, <1>5, <1>6, Zenon DEF ReadFrom

LEMMA ReadsEscape ==
  ASSUME SourceOK, NEW m \in 1 .. Len(source), NEW stop \in 1 .. Len(source), NEW chars,
         At(m) = "\\", char_to_escape(At(m + 1)) # NUL, ReadFrom(m + 2, stop, chars)
  PROVE  ReadFrom(m, stop, << char_to_escape(At(m + 1)) >> \o chars)
<1> DEFINE c == char_to_escape(At(m + 1))
<1>0. Len(source) \in Nat
  BY Ends
<1>1. << At(m), At(m + 1) >> \in Spellings(c) /\ c \in Char
  BY EscapeSpelled, Zenon
<1> HIDE DEF c
<1>2. chars \in Seq(Char) /\ << c >> \o chars \in Seq(Char)
  BY <1>1 DEF ReadFrom
<1>3. PICK cut \in m + 2 .. stop :
        Spells(SubSeq(source, m + 2, cut - 1), chars) /\ CutAt(cut, stop)
  BY DEF ReadFrom
<1>4. Spells(<< At(m), At(m + 1) >> \o SubSeq(source, m + 2, cut - 1), << c >> \o chars)
  BY <1>1, <1>2, <1>3, SpellsMore, Zenon
<1>5. cut \in m + 2 .. Len(source) /\ cut \in m .. stop
  BY <1>0, <1>3
<1>6. Spells(SubSeq(source, m, cut - 1), << c >> \o chars)
  BY <1>4, <1>5, Pieces, Zenon
<1> QED BY <1>2, <1>3, <1>5, <1>6, Zenon DEF ReadFrom, c

LEMMA ReadsNone ==
  ASSUME SourceOK, NEW m \in 1 .. Len(source), NEW stop \in m .. Len(source), CutAt(m, stop)
  PROVE  ReadFrom(m, stop, << >>)
<1>1. << >> \in Seq(Char) /\ m \in m .. stop
  BY Ends
<1>2. Spells(SubSeq(source, m, m - 1), << >>)
  BY Pieces, SpellsNone, Zenon
<1> QED BY <1>1, <1>2, Zenon DEF ReadFrom

LEMMA StringReads ==
  ASSUME SourceOK, NEW i \in 1 .. Len(source),
         StringBody(i)[i + 1].stop <= Len(source), StringBody(i)[i + 1].errs = {}
  PROVE  ReadFrom(i + 1, StringBody(i)[i + 1].stop, StringBody(i)[i + 1].chars)
<1>0. PICK n \in Nat : n = Len(source) /\ i \in Nat /\ 1 <= i /\ i <= n
  BY Ends
<1> DEFINE body == StringBody(i)
           OK(j) == /\ body[j].stop \in j .. n + 2
                    /\ body[j].stop <= n /\ body[j].errs = {} => ReadFrom(j, body[j].stop, body[j].chars)
           T == {j \in i + 1 .. n + 2 : ~ OK(j)}
<1>1. \A j \in i + 1 .. n + 2 : body[j] = StringTurn(body, j)
  BY <1>0, StringBodyTurn
<1>5. body[i + 1].stop <= n /\ body[i + 1].errs = {}
  BY <1>0
<1> HIDE DEF body
<1>2. T = {}
  <2> SUFFICES ASSUME T # {} PROVE FALSE
    OBVIOUS
  <2>1. PICK m \in T : \A k \in T : k <= m
    <3>1. T \in SUBSET (0 .. n + 2) /\ n + 2 \in Nat
      OBVIOUS
    <3> HIDE DEF T
    <3> QED BY <3>1, GreatestNumber
  <2>2. m \in i + 1 .. n + 2 /\ ~ OK(m) /\ body[m] = StringTurn(body, m)
    BY <1>1, <2>1
  <2>3. \A k \in m + 1 .. n + 2 : OK(k)
    BY <2>1, <2>2
  <2> HIDE DEF T
  <2>4. CASE m > n + 1 \/ At(m) \in {NUL, DQUOTE, "\n"}
    <3>1. body[m].stop = m /\ body[m].chars = << >>
      BY <1>0, <2>2, <2>4 DEF StringTurn
    <3>2. m \in m .. n + 2
      BY <2>2
    <3>3. ASSUME m <= n PROVE ReadFrom(m, m, << >>)
      <4>1. m \in 1 .. Len(source) /\ m \in m .. Len(source)
        BY <1>0, <2>2, <3>3
      <4> QED BY <4>1, ReadsNone DEF CutAt
    <3> QED BY <2>2, <3>1, <3>2, <3>3
  <2>5. CASE ~ (m > n + 1 \/ At(m) \in {NUL, DQUOTE, "\n"})
    <3>1. m \in 1 .. n /\ m + 1 \in m + 1 .. n + 2 /\ m + 2 \in m + 1 .. n + 2
      <4>1. m \in 1 .. n + 1 /\ At(m) # NUL
        BY <1>0, <2>2, <2>5
      <4>2. m <= n
        BY <1>0, <4>1, Ends
      <4> QED BY <4>1, <4>2
    <3>2. OK(m + 1) /\ OK(m + 2)
      BY <2>3, <3>1
    <3>3. PICK t : t = StringTurn(body, m)
      OBVIOUS
    <3>4. PICK p : p = body[m + 1]
      OBVIOUS
    <3>5. PICK q : q = body[m + 2]
      OBVIOUS
    <3>6. /\ At(m) # "\\" =>
               t.stop = p.stop /\ t.chars = << At(m) >> \o p.chars /\ t.errs = p.errs
          /\ At(m) = "\\" =>
               /\ t.stop = q.stop /\ t.errs = BadEscape(m + 1) \union q.errs
               /\ t.chars = IF char_to_escape(At(m + 1)) = NUL THEN << >>
                            ELSE << char_to_escape(At(m + 1)) >> \o q.chars
      BY <1>0, <2>5, <3>3, <3>4, <3>5, StringTurnCases, Zenon
    <3>7. /\ p.stop \in m + 1 .. n + 2
          /\ p.stop <= n /\ p.errs = {} => ReadFrom(m + 1, p.stop, p.chars)
          /\ q.stop \in m + 2 .. n + 2
          /\ q.stop <= n /\ q.errs = {} => ReadFrom(m + 2, q.stop, q.chars)
      BY <3>2, <3>4, <3>5
    <3>8. ~ (t.stop \in m .. n + 2 /\ (t.stop <= n /\ t.errs = {} => ReadFrom(m, t.stop, t.chars)))
      BY <2>2, <3>3
    <3> HIDE DEF OK
    <3>9. CASE At(m) # "\\"
      <4>1. t.stop \in m .. n + 2
        BY <3>1, <3>6, <3>7, <3>9
      <4>2. ASSUME t.stop <= n, t.errs = {} PROVE ReadFrom(m, t.stop, t.chars)
        <5>1. ReadFrom(m + 1, t.stop, p.chars)
          BY <3>6, <3>7, <3>9, <4>2
        <5>2. At(m) \in Char
          <6>1. At(m) \in STRING
            BY <1>0, <3>1, Ends DEF SourceOK
          <6> QED BY <6>1, Zenon DEF Char
        <5>3. m \in 1 .. Len(source) /\ t.stop \in 1 .. Len(source)
          BY <1>0, <3>1, <4>1, <4>2
        <5>4. ReadFrom(m, t.stop, << At(m) >> \o p.chars)
          BY <3>9, <5>1, <5>2, <5>3, ReadsPlain, Zenon
        <5> QED BY <3>6, <3>9, <5>4
      <4> QED BY <3>8, <4>1, <4>2
    <3>10. CASE At(m) = "\\"
      <4>1. t.stop \in m .. n + 2
        BY <3>1, <3>6, <3>7, <3>10
      <4>2. ASSUME t.stop <= n, t.errs = {} PROVE ReadFrom(m, t.stop, t.chars)
        <5>1. /\ t.stop \in m + 2 .. n /\ BadEscape(m + 1) = {}
              /\ ReadFrom(m + 2, t.stop, q.chars)
          BY <1>0, <3>1, <3>6, <3>7, <3>10, <4>2
        <5>2. /\ m \in 1 .. Len(source) /\ m + 1 \in 1 .. Len(source)
              /\ t.stop \in 1 .. Len(source) /\ t.stop \in m .. Len(source)
          BY <1>0, <3>1, <5>1
        <5>3. CASE char_to_escape(At(m + 1)) # NUL
          <6>1. ReadFrom(m, t.stop, << char_to_escape(At(m + 1)) >> \o q.chars)
            BY <3>10, <5>1, <5>2, <5>3, ReadsEscape, Zenon
          <6> QED BY <3>6, <3>10, <5>3, <6>1
        <5>4. CASE char_to_escape(At(m + 1)) = NUL
          <6>1. At(m + 1) = "0"
            BY <5>1, <5>4 DEF BadEscape
          <6>2. source[m] = "\\" /\ source[m + 1] = "0"
            BY <3>10, <5>2, <6>1, Ends
          <6>3. ReadFrom(m, t.stop, << >>)
            BY <5>2, <6>2, ReadsNone, Zenon DEF CutAt
          <6> QED BY <3>6, <3>10, <5>4, <6>3
        <5> QED BY <5>3, <5>4
      <4> QED BY <3>8, <4>1, <4>2
    <3> QED BY <3>9, <3>10
  <2> QED BY <2>4, <2>5
<1>3. OK(i + 1)
  <2>1. i + 1 \in i + 1 .. n + 2
    BY <1>0
  <2> QED BY <1>2, <2>1
<1>4. ReadFrom(i + 1, body[i + 1].stop, body[i + 1].chars)
  BY <1>3, <1>5
<1> QED BY <1>4 DEF body

-----------------------------------------------------------------------------
LEMMA SpellsOne ==
  ASSUME NEW c \in Char, NEW piece \in Spellings(c)
  PROVE  Spells(piece, << c >>)
<1>1. Spells(piece \o << >>, << c >> \o << >>)
  <2>1. << >> \in Seq(Char)
    OBVIOUS
  <2> QED BY <2>1, SpellsNone, SpellsMore, Zenon
<1>2. piece \in Seq(Char) /\ << c >> \in Seq(Char)
  BY SpellingsText
<1>3. piece \o << >> = piece /\ << c >> \o << >> = << c >>
  BY <1>2, ConcatEmptySeq
<1> QED BY <1>1, <1>3, Zenon

(* A character literal that is closed and has no error.                    *)
LEMMA CharReads ==
  ASSUME SourceOK, NEW i \in 1 .. Len(source) + 1, At(i) = "'", scan_char(i),
         status' = "run", errors' = {}
  PROVE  /\ token'.start = i /\ token'.kind = "INT"
         /\ Spells(SubSeq(source, i + 1, token'.end - 2), << token'.val >>)
<1>0. Len(source) \in Nat /\ i \in 1 .. Len(source)
  BY Ends DEF NUL
<1>1. ASSUME NEW j \in i + 1 .. i + 3, NEW val, NEW errs, CharEnds(i, j, val, errs)
      PROVE  /\ errs = {} /\ j <= Len(source)
             /\ token'.start = i /\ token'.kind = "INT" /\ token'.end = j + 1 /\ token'.val = val
  <2>1. ~ Fails(i, "overrun", errs)
    BY DEF Fails
  <2>2. ~ Emit(i, j, "INT", "CHAR", val, errs \union {<<"no closing quote", j>>})
    BY DEF Emit
  <2>3. j <= Len(source) + 1 /\ At(j) = "'" /\ Emit(i, j + 1, "INT", "CHAR", val, errs)
    BY <1>1, <2>1, <2>2, Zenon DEF CharEnds
  <2>4. j <= Len(source)
    BY <1>0, <2>3, Ends DEF NUL
  <2>5. /\ token' = [kind |-> "INT", mod |-> "CHAR", start |-> i, end |-> j + 1, val |-> val]
        /\ errors' = Skipped(i) \union errs
    BY <2>3, Zenon DEF Emit
  <2> QED BY <2>4, <2>5
<1>2. i + 1 \in i + 1 .. i + 3 /\ i + 2 \in i + 1 .. i + 3 /\ i + 3 \in i + 1 .. i + 3
  BY <1>0
<1>3. CASE At(i + 1) = "'"
  <2>1. CharEnds(i, i + 2, NUL, {<<"empty character", i + 1>>})
    BY <1>3 DEF scan_char
  <2> QED BY <1>1, <1>2, <2>1
<1>4. CASE At(i + 1) = "\n"
  <2>1. CharEnds(i, i + 1, NUL, {<<"newline in character", i + 1>>})
    BY <1>4 DEF scan_char
  <2> QED BY <1>1, <1>2, <2>1
<1>5. CASE At(i + 1) = "\\"
  <2> DEFINE c == char_to_escape(At(i + 2))
  <2>1. CharEnds(i, i + 3, c, BadEscape(i + 2))
    BY <1>5 DEF scan_char
  <2>2. << "\\", At(i + 2) >> \in Spellings(c) /\ c \in Char
    <3>1. CASE c # NUL
      BY <3>1, EscapeSpelled, Zenon
    <3>2. CASE c = NUL
      <4>1. At(i + 2) = "0"
        BY <1>1, <1>2, <2>1, <3>2 DEF BadEscape
      <4>2. NUL \in Char
        BY Zenon DEF Char, EscapeValues
      <4> QED BY <3>2, <4>1, <4>2, NullSpelled, Zenon
    <3> QED BY <3>1, <3>2
  <2> HIDE DEF c
  <2>3. /\ i + 3 <= Len(source) /\ token'.start = i /\ token'.kind = "INT"
        /\ token'.end = (i + 3) + 1 /\ token'.val = c
    BY <1>1, <1>2, <2>1, Zenon
  <2>4. SubSeq(source, i + 1, (i + 3) - 1) = << At(i + 1), At(i + 2) >>
    BY <1>0, <2>3, PiecesOnly
  <2>5. token'.end - 2 = (i + 3) - 1
    BY <1>0, <2>3
  <2>6. Spells(<< At(i + 1), At(i + 2) >>, << c >>)
    BY <1>5, <2>2, SpellsOne, Zenon
  <2> QED BY <2>3, <2>4, <2>5, <2>6, Zenon
<1>6. CASE At(i + 1) \notin {"'", "\n", "\\"}
  <2> DEFINE c == At(i + 1)
  <2>1. CharEnds(i, i + 2, c, {})
    BY <1>6 DEF scan_char
  <2> HIDE DEF c
  <2>2. /\ i + 2 <= Len(source) /\ token'.start = i /\ token'.kind = "INT"
        /\ token'.end = (i + 2) + 1 /\ token'.val = c
    BY <1>1, <1>2, <2>1, Zenon
  <2>3. i + 1 \in 1 .. Len(source)
    BY <1>0, <2>2
  <2>4. c # NUL /\ c \in STRING /\ c # "\\"
    BY <1>6, <2>3, Ends DEF SourceOK, c
  <2>5. Spells(<< c >>, << c >>)
    <3>1. c \in Char
      BY <2>4, Zenon DEF Char
    <3> QED BY <2>4, <3>1, PlainSpelled, SpellsOne, Zenon
  <2>6. SubSeq(source, i + 1, (i + 2) - 1) = << c >>
    BY <1>0, <2>2, PiecesOnly DEF c
  <2>7. token'.end - 2 = (i + 2) - 1
    BY <1>0, <2>2
  <2> QED BY <2>2, <2>5, <2>6, <2>7, Zenon
<1> QED BY <1>3, <1>4, <1>5, <1>6

(* A string literal that is closed and has no error.                       *)
LEMMA StrReads ==
  ASSUME SourceOK, NEW i \in 1 .. Len(source) + 1, At(i) = DQUOTE, scan_str(i),
         status' = "run", errors' = {}
  PROVE  /\ token'.start = i /\ token'.mod = "NONE"
         /\ token'.end \in Int /\ ReadFrom(i + 1, token'.end - 1, token'.val)
<1>0. Len(source) \in Nat /\ i \in 1 .. Len(source)
  BY Quotes, Ends
<1>1. PICK str : str = StringBody(i)[i + 1]
  OBVIOUS
<1>2. str.stop \in i + 1 .. Len(source) + 2
  BY <1>0, <1>1, StringStops
<1>3. /\ \A how, errs : ~ (how \in {"overrun", "abort"} /\ Fails(i, how, errs))
      /\ \A j, k, val, errs :
           ~ Emit(i, j, "STR", "NONE", val, errs \union {<<"end of file in string", k>>})
  BY DEF Fails, Emit
<1>4. /\ str.stop <= Len(source) + 1 /\ At(str.stop) = DQUOTE
      /\ Emit(i, str.stop + 1, "STR", "NONE", str.chars, str.errs)
  <2>1. "overrun" \in {"overrun", "abort"} /\ "abort" \in {"overrun", "abort"}
    OBVIOUS
  <2> QED BY <1>1, <1>3, <2>1, Zenon DEF scan_str
<1>5. str.stop <= Len(source)
  BY <1>0, <1>2, <1>4, Quotes, Ends
<1>6. /\ token'.start = i /\ token'.mod = "NONE" /\ token'.end = str.stop + 1
      /\ token'.val = str.chars /\ str.errs = {}
  <2>1. /\ token' = [kind |-> "STR", mod |-> "NONE", start |-> i, end |-> str.stop + 1,
                     val |-> str.chars]
        /\ errors' = Skipped(i) \union str.errs
    BY <1>4, Zenon DEF Emit
  <2> QED BY <2>1
<1>7. ReadFrom(i + 1, str.stop, str.chars)
  BY <1>0, <1>1, <1>5, <1>6, StringReads
<1>8. token'.end \in Int /\ token'.end - 1 = str.stop
  BY <1>0, <1>2, <1>6
<1> QED BY <1>6, <1>7, <1>8, Zenon

(* One call of next_token, whatever it scans.                              *)
LEMMA LiteralsStep ==
  ASSUME LexIInv, next_token
  PROVE  LiteralsRoundTrip'
<1>0. SUFFICES ASSUME Scanned', errors' = {} PROVE LiteralsRoundTrip'
  BY Zenon DEF LiteralsRoundTrip
<1>1. SourceOK /\ stream \in 1 .. Len(source) + 1 /\ Len(source) \in Nat
  BY StreamInText, Ends
<1>2. PICK i \in 1 .. Len(source) + 1 : Scans(i)
  BY <1>1, NextScans
<1>3. status' = "run"
  BY <1>0, Zenon DEF Scanned
<1>4. PICK j, kind, mod, val, errs : Yields(i, j, kind, mod, val, errs)
  <2>1. \A errs : ~ Fails(i, "abort", errs) /\ ~ Fails(i, "overrun", errs)
    BY <1>3 DEF Fails
  <2> QED BY <1>2, <2>1, Zenon DEF Scans
<1>5. token'.kind = kind /\ token'.mod = mod /\ source' = source
  <2>1. token' = [kind |-> kind, mod |-> mod, start |-> i, end |-> j, val |-> val]
        /\ source' = source
    BY <1>4, Zenon DEF Yields, Emit
  <2> QED BY <2>1
<1>6. ASSUME token'.mod = "CHAR"
      PROVE  Spells(SubSeq(source', token'.start + 1, token'.end - 2), << token'.val >>)
  <2>1. At(i) = "'" /\ scan_char(i)
    BY <1>4, <1>5, <1>6, Zenon DEF Yields
  <2>2. token'.start = i /\ Spells(SubSeq(source, i + 1, token'.end - 2), << token'.val >>)
    BY <1>0, <1>1, <1>3, <2>1, CharReads, Zenon
  <2> QED BY <1>5, <2>2, Zenon
<1>7. ASSUME token'.kind = "STR"
      PROVE  \E cut \in token'.start + 1 .. token'.end - 1 :
               /\ Spells(SubSeq(source', token'.start + 1, cut - 1), token'.val)
               /\ cut = token'.end - 1 \/ (source'[cut] = "\\" /\ source'[cut + 1] = "0")
  <2>1. At(i) = DQUOTE /\ scan_str(i)
    BY <1>4, <1>5, <1>7, Zenon DEF Yields
  <2>2. token'.start = i /\ ReadFrom(i + 1, token'.end - 1, token'.val)
    BY <1>0, <1>1, <1>3, <2>1, StrReads, Zenon
  <2> QED BY <1>5, <2>2, Zenon DEF ReadFrom, CutAt
<1> QED BY <1>6, <1>7, Zenon DEF LiteralsRoundTrip

(* Literals, for every text: one that is accepted without an error is a    *)
(* spelling of its value, up to an escaped null in a string.               *)
THEOREM LexLiteralsRoundTrip == LexSpec => []LiteralsRoundTrip
<1>1. LexInit => LiteralsRoundTrip
  <2> SUFFICES ASSUME LexInit PROVE ~ Scanned
    BY Zenon DEF LiteralsRoundTrip
  <2> QED BY DEF LexInit, Scanned
<1>2. LiteralsRoundTrip /\ UNCHANGED lexVars => LiteralsRoundTrip'
  BY Zenon DEF LiteralsRoundTrip, Scanned, lexVars
<1>3. LexIInv /\ LiteralsRoundTrip /\ [next_token]_lexVars => LiteralsRoundTrip'
  BY <1>2, LiteralsStep
<1> QED BY <1>1, <1>3, LexInvariant, PTL DEF LexSpec
-----------------------------------------------------------------------------
(* The operators.  The names that the scanner produces: one character, one *)
(* followed by "=" or by itself, or a shift followed by "=".               *)
Assigning == {":", "=", "^", "*", "/", "%", "+", "-", "&", "|", "<", ">"}
Doubling  == {"+", "-", "&", "<", ">"}
Bare      == {"(", ")", LBRACE, RBRACE, "[", "]", COMMA, "?", SEMICOLON, NUL}

LEMMA NamedApart ==
  \A c \in {LBRACE, RBRACE, COMMA, SEMICOLON, NUL} :
    /\ c \notin Assigning /\ c \notin Doubling
    /\ c \notin {".", "!", "(", ")", "[", "]", "?"}
BY Zenon DEF LBRACE, RBRACE, COMMA, SEMICOLON, NUL, Assigning, Doubling

Shape(text) ==
  \/ \E x : text = <<x>>
  \/ \E x \in Assigning : text = <<x, "=">>
  \/ \E x \in Doubling : text = <<x, x>>
  \/ \E x \in {"<", ">"} : text = <<x, x, "=">>

LEMMA NameShapes ==
  \A name \in token_kind_names :
    /\ name[1] \notin {"OR_OR", "NOTEQ"} => Shape(name[2])
    /\ name[1] \notin {"INT", "STR", "FLOAT", "NAME", "KEYWORD", "END_OF_FILE"}
    /\ name[1] = "DOT" => name[2] = <<".">>
BY SMTT(60) DEF token_kind_names, Shape, Assigning, Doubling

(* The table of operators and that of their names agree.                   *)
LEMMA NamesAgree ==
  \A op \in Operators : \A name \in token_kind_names :
    /\ name[1] = op[2] => name[2] = <<op[1]>>
    /\ \A more \in op[3] :
         /\ name[1] = more[2] => name[2] = <<op[1], more[1]>> \/ more[2] = "OR_OR"
         /\ more[2] = "LSHIFT" /\ name[1] = "LSHIFT_ASSIGN" => name[2] = <<op[1], more[1], "=">>
         /\ more[2] = "RSHIFT" /\ name[1] = "RSHIFT_ASSIGN" => name[2] = <<op[1], more[1], "=">>
BY SMTT(60) DEF Operators, token_kind_names

LEMMA OneMore == \A op \in Operators : \A m1, m2 \in op[3] : m1[1] = m2[1] => m1 = m2
BY SMTT(60) DEF Operators, NUL

(* An operator that may go on is not taken for one of one character.       *)
Follows(row) ==
  /\ row[1] \in Assigning => \E more \in row[3] : more[1] = "="
  /\ row[1] \in Doubling =>
       \E more \in row[3] : more[1] = row[1] /\ (row[1] \in {"<", ">"} => more[2] \in Shifts)

LEMMA OperatorsFollow == \A op \in Operators : Follows(op)
<1>1. ASSUME NEW row, NEW a, NEW b, row = <<a, b, {}>>, a \notin Assigning, a \notin Doubling
      PROVE  Follows(row)
  BY <1>1 DEF Follows
<1>2. ASSUME NEW row, NEW a, NEW b, NEW e, row = <<a, b, {<<"=", e>>}>>, a \notin Doubling
      PROVE  Follows(row)
  <2>1. <<"=", e>> \in row[3] /\ <<"=", e>>[1] = "=" /\ row[1] = a
    BY <1>2
  <2> QED BY <1>2, <2>1, Zenon DEF Follows
<1>3. ASSUME NEW row, NEW a, NEW b, NEW c, NEW e, NEW f, row = <<a, b, {<<"=", e>>, <<c, f>>}>>,
             a \in Doubling => c = a, a \in {"<", ">"} => f \in Shifts
      PROVE  Follows(row)
  <2>1. /\ <<"=", e>> \in row[3] /\ <<"=", e>>[1] = "=" /\ row[1] = a
        /\ <<c, f>> \in row[3] /\ <<c, f>>[1] = c /\ <<c, f>>[2] = f
    BY <1>3
  <2> QED BY <1>3, <2>1, Zenon DEF Follows
<1>4. \A row : \A a \in Bare : \A b : row = <<a, b, {}>> => Follows(row)
  <2>1. \A a \in Bare : a \notin Assigning /\ a \notin Doubling
    BY NamedApart DEF Bare, Assigning, Doubling
  <2> QED BY <1>1, <2>1, Zenon
<1>5. \A row : \A a \in {":", "=", "^", "*", "/", "%"} : \A b, e :
        row = <<a, b, {<<"=", e>>}>> => Follows(row)
  <2>1. \A a \in {":", "=", "^", "*", "/", "%"} : a \notin Doubling
    BY DEF Doubling
  <2> QED BY <1>2, <2>1, Zenon
<1>6. \A row : \A a \in {"+", "-", "&"} : \A b, e, f :
        row = <<a, b, {<<"=", e>>, <<a, f>>}>> => Follows(row)
  <2>1. \A a \in {"+", "-", "&"} : a \notin {"<", ">"}
    OBVIOUS
  <2> QED BY <1>3, <2>1, Zenon
<1>7. \A row : \A b, c, e, f : row = <<"|", b, {<<"=", e>>, <<c, f>>}>> => Follows(row)
  <2>1. "|" \notin Doubling /\ "|" \notin {"<", ">"}
    BY DEF Doubling
  <2> QED BY <1>3, <2>1, Zenon
<1>8. \A row : \A a \in {"<", ">"} : \A f \in Shifts : \A b, e :
        row = <<a, b, {<<"=", e>>, <<a, f>>}>> => Follows(row)
  BY <1>3, Zenon
<1> HIDE DEF Follows
<1> QED BY <1>4, <1>5, <1>6, <1>7, <1>8, ZenonT(60) DEF Operators, Bare, Shifts

(* A name that is a prefix of what is left of the text, character by       *)
(* character.                                                              *)
LEMMA PrefixReads ==
  ASSUME SourceOK, NEW i \in 1 .. Len(source) + 1, NEW A, NEW s \in Seq(A),
         IsPrefix(s, SubSeq(source, i, Len(source))), NEW k \in 1 .. Len(s)
  PROVE  s[k] = At(i + k - 1)
<1>0. Len(source) \in Nat /\ source \in Seq(STRING \ {NUL})
  BY Ends DEF SourceOK
<1> DEFINE rest == SubSeq(source, i, Len(source))
<1>1. /\ rest \in Seq(STRING \ {NUL}) /\ Len(rest) = Len(source) - i + 1
      /\ \A m \in 1 .. Len(rest) : rest[m] = source[i + m - 1]
  <2>1. \A m \in i .. Len(source) : source[m] \in STRING \ {NUL}
    BY <1>0
  <2> QED BY <1>0
<1> HIDE DEF rest
<1>2. Len(s) \in Nat /\ Len(s) <= Len(rest) /\ SubSeq(s, 1, Len(s)) = SubSeq(rest, 1, Len(s))
  BY Zenon, LenProperties DEF IsPrefix, rest
<1>3. s[k] = rest[k]
  <2>1. SubSeq(s, 1, Len(s))[k] = s[k] /\ SubSeq(rest, 1, Len(s))[k] = rest[k]
    BY <1>1, <1>2
  <2> QED BY <1>2, <2>1
<1>4. k \in 1 .. Len(rest) /\ i + k - 1 \in 1 .. Len(source)
  BY <1>0, <1>1, <1>2
<1> QED BY <1>0, <1>1, <1>3, <1>4, Ends

(* Of a name of one of the shapes: its first character is the one here,    *)
(* and its second and third the next ones.                                 *)
Reads(i, text) ==
  \/ \E x : text = <<x>> /\ At(i) = x
  \/ \E x \in Assigning : text = <<x, "=">> /\ At(i) = x /\ At(i + 1) = "="
  \/ \E x \in Doubling : text = <<x, x>> /\ At(i) = x /\ At(i + 1) = x
  \/ \E x \in {"<", ">"} : text = <<x, x, "=">> /\ At(i) = x /\ At(i + 1) = x /\ At(i + 2) = "="

LEMMA ShapeReads ==
  ASSUME SourceOK, NEW i \in 1 .. Len(source) + 1, NEW text, Shape(text),
         IsPrefix(text, SubSeq(source, i, Len(source)))
  PROVE  Reads(i, text)
<1>0. i \in Int
  BY Ends
<1>1. ASSUME NEW x, text = <<x>> PROVE At(i) = x
  <2>1. text \in Seq({x}) /\ 1 \in 1 .. Len(text) /\ text[1] = x
    BY <1>1
  <2>2. text[1] = At(i + 1 - 1)
    BY <2>1, PrefixReads, Zenon
  <2> QED BY <1>0, <2>1, <2>2
<1>2. ASSUME NEW x, NEW y, text = <<x, y>> PROVE At(i) = x /\ At(i + 1) = y
  <2>1. text \in Seq({x, y}) /\ 1 \in 1 .. Len(text) /\ 2 \in 1 .. Len(text)
        /\ text[1] = x /\ text[2] = y
    BY <1>2
  <2>2. text[1] = At(i + 1 - 1) /\ text[2] = At(i + 2 - 1)
    BY <2>1, PrefixReads, Zenon
  <2> QED BY <1>0, <2>1, <2>2
<1>3. ASSUME NEW x, NEW y, NEW z, text = <<x, y, z>>
      PROVE  At(i) = x /\ At(i + 1) = y /\ At(i + 2) = z
  <2>1. text \in Seq({x, y, z}) /\ 1 \in 1 .. Len(text) /\ 2 \in 1 .. Len(text)
        /\ 3 \in 1 .. Len(text) /\ text[1] = x /\ text[2] = y /\ text[3] = z
    BY <1>3
  <2>2. text[1] = At(i + 1 - 1) /\ text[2] = At(i + 2 - 1) /\ text[3] = At(i + 3 - 1)
    BY <2>1, PrefixReads, Zenon
  <2> QED BY <1>0, <2>1, <2>2
<1> QED BY <1>1, <1>2, <1>3, Zenon DEF Shape, Reads

(* The token from i to j - 1 has the kind whose name it spells, and no     *)
(* longer name fits.                                                       *)
Greedy(i, text, kind) ==
  \A row \in token_kind_names : kind = row[1] /\ kind # "OR_OR" =>
    /\ text = row[2]
    /\ \A other \in token_kind_names :
         IsPrefix(other[2], SubSeq(source, i, Len(source))) /\ other[1] \notin {"OR_OR", "NOTEQ"} =>
           Len(other[2]) <= Len(text)

Taken(i, j) == SubSeq(source, i, Min({j - 1, Len(source)}))

LEMMA Listed ==
  ASSUME NEW A, NEW s \in Seq(A)
  PROVE  /\ Len(s) = 1 => s = <<s[1]>>
         /\ Len(s) = 2 => s = <<s[1], s[2]>>
         /\ Len(s) = 3 => s = <<s[1], s[2], s[3]>>
OBVIOUS

LEMMA TakenReads ==
  ASSUME SourceOK, NEW i \in 1 .. Len(source), At(i) # NUL
  PROVE  /\ Taken(i, i + 1) = <<At(i)>>
         /\ At(i + 1) # NUL => Taken(i, i + 2) = <<At(i), At(i + 1)>>
         /\ At(i + 1) # NUL /\ At(i + 2) # NUL => Taken(i, i + 3) = <<At(i), At(i + 1), At(i + 2)>>
<1>0. Len(source) \in Nat /\ source \in Seq(STRING \ {NUL})
  BY Ends DEF SourceOK
<1> DEFINE n == Len(source)
<1>1. ASSUME NEW j \in i + 1 .. n + 1
      PROVE  /\ Taken(i, j) \in Seq(STRING) /\ Len(Taken(i, j)) = j - i
             /\ \A m \in 1 .. j - i : Taken(i, j)[m] = At(i + m - 1)
  <2>1. {j - 1, n} \in SUBSET Int /\ j - 1 \in {j - 1, n} /\ \A y \in {j - 1, n} : j - 1 <= y
    BY <1>0
  <2>2. Min({j - 1, n}) = j - 1
    <3> DEFINE S == {j - 1, n}
    <3> HIDE DEF S
    <3> QED BY <2>1 DEF Min, S
  <2>3. Taken(i, j) = SubSeq(source, i, j - 1)
    BY <2>2, Zenon DEF Taken
  <2>4. i \in Int /\ j - 1 \in Int /\ i <= j - 1 /\ \A m \in i .. j - 1 : source[m] \in STRING
    BY <1>0
  <2>5. /\ SubSeq(source, i, j - 1) \in Seq(STRING) /\ Len(SubSeq(source, i, j - 1)) = j - i
        /\ \A m \in 1 .. j - i : SubSeq(source, i, j - 1)[m] = source[i + m - 1]
    BY <2>4, SubSeqProperties
  <2>6. \A m \in 1 .. j - i : source[i + m - 1] = At(i + m - 1)
    BY <1>0, Ends
  <2> QED BY <2>3, <2>5, <2>6
<1>2. ASSUME NEW j \in i + 1 .. n + 1
      PROVE  /\ j = i + 1 => Taken(i, j) = <<At(i)>>
             /\ j = i + 2 => Taken(i, j) = <<At(i), At(i + 1)>>
             /\ j = i + 3 => Taken(i, j) = <<At(i), At(i + 1), At(i + 2)>>
  <2> DEFINE t == Taken(i, j)
  <2>1. t \in Seq(STRING) /\ Len(t) = j - i /\ \A m \in 1 .. j - i : t[m] = At(i + m - 1)
    BY <1>1
  <2> HIDE DEF t
  <2>2. j = i + 1 => Len(t) = 1 /\ t[1] = At(i)
    BY <1>0, <2>1
  <2>3. j = i + 2 => Len(t) = 2 /\ t[1] = At(i) /\ t[2] = At(i + 1)
    BY <1>0, <2>1
  <2>4. j = i + 3 => Len(t) = 3 /\ t[1] = At(i) /\ t[2] = At(i + 1) /\ t[3] = At(i + 2)
    BY <1>0, <2>1
  <2>5. /\ Len(t) = 1 => t = <<t[1]>>
        /\ Len(t) = 2 => t = <<t[1], t[2]>>
        /\ Len(t) = 3 => t = <<t[1], t[2], t[3]>>
    BY <2>1, Listed
  <2> QED BY <2>2, <2>3, <2>4, <2>5 DEF t
<1>3. i + 1 \in i + 1 .. n + 1
  BY <1>0
<1>4. At(i + 1) # NUL => i + 2 \in i + 1 .. n + 1
  BY <1>0, Ends
<1>5. At(i + 1) # NUL /\ At(i + 2) # NUL => i + 3 \in i + 1 .. n + 1
  BY <1>0, <1>4, Ends
<1> QED BY <1>2, <1>3, <1>4, <1>5, Zenon

LEMMA OpGreedy ==
  ASSUME SourceOK, NEW i \in 1 .. Len(source) + 1, NEW j, NEW kind, OpText(i, j, kind)
  PROVE  Greedy(i, Taken(i, j), kind)
<1>0. SUFFICES ASSUME NEW row \in token_kind_names, kind = row[1], kind # "OR_OR"
               PROVE  /\ Taken(i, j) = row[2]
                      /\ \A other \in token_kind_names : Reads(i, other[2]) =>
                           Len(other[2]) <= Len(Taken(i, j))
  <2>1. \A other \in token_kind_names :
          IsPrefix(other[2], SubSeq(source, i, Len(source))) /\ other[1] \notin {"OR_OR", "NOTEQ"} =>
            Reads(i, other[2])
    BY NameShapes, ShapeReads, Zenon
  <2> QED BY <2>1, Zenon DEF Greedy
<1>1. Len(source) \in Nat
  BY Ends
<1>2. \A x, y, z : Len(<<x>>) = 1 /\ Len(<<x, y>>) = 2 /\ Len(<<x, y, z>>) = 3
  OBVIOUS
<1>3. \A other : Reads(i, other[2]) => Len(other[2]) \in {1, 2, 3}
  BY <1>2 DEF Reads
<1>4. CASE At(i) = "." /\ kind = "DOT" /\ j = i + 1
  <2>1. i \in 1 .. Len(source) /\ At(i) # NUL
    BY <1>1, <1>4, Ends DEF NUL
  <2>2. Taken(i, j) = <<".">> /\ row[2] = <<".">>
    BY <1>0, <1>4, <2>1, TakenReads, NameShapes
  <2>3. \A other : Reads(i, other[2]) => Len(other[2]) = 1
    <3>1. "." \notin Assigning /\ "." \notin Doubling /\ "." \notin {"<", ">"}
      BY DEF Assigning, Doubling
    <3> QED BY <1>2, <1>4, <3>1, Zenon DEF Reads
  <2> QED BY <1>2, <2>2, <2>3
<1>5. CASE ~ (At(i) = "." /\ kind = "DOT" /\ j = i + 1)
  <2>1. PICK op \in Operators :
        /\ op[1] = At(i)
        /\ \/ (\A more \in op[3] : more[1] # At(i + 1)) /\ kind = op[2] /\ j = i + 1
           \/ \E more \in op[3] :
                /\ more[1] = At(i + 1)
                /\ \/ (more[2] \notin Shifts \/ At(i + 2) # "=") /\ kind = more[2] /\ j = i + 2
                   \/ /\ more[2] \in Shifts /\ At(i + 2) = "=" /\ j = i + 3
                      /\ kind = [LSHIFT |-> "LSHIFT_ASSIGN", RSHIFT |-> "RSHIFT_ASSIGN"][more[2]]
    BY <1>5, Zenon DEF OpText
  <2>3. CASE (\A more \in op[3] : more[1] # At(i + 1)) /\ kind = op[2] /\ j = i + 1
    <3>1. At(i) # NUL /\ i \in 1 .. Len(source)
      <4>1. op[2] # "END_OF_FILE"
        BY <1>0, <2>3, NameShapes
      <4> QED BY <1>1, <2>1, <4>1, OperatorRows, Ends DEF RowOK
    <3>2. Taken(i, j) = <<op[1]>> /\ row[2] = <<op[1]>>
      BY <1>0, <2>1, <2>3, <3>1, TakenReads, NamesAgree
    <3>3. \A other : Reads(i, other[2]) => Len(other[2]) = 1
      <4>1. /\ At(i) \in Assigning => At(i + 1) # "="
            /\ At(i) \in Doubling => At(i + 1) # At(i)
        BY <2>1, <2>3, OperatorsFollow DEF Follows
      <4>2. {"<", ">"} \subseteq Doubling
        BY DEF Doubling
      <4> QED BY <1>2, <4>1, <4>2 DEF Reads
    <3> QED BY <1>2, <3>2, <3>3
  <2>4. ASSUME NEW more \in op[3], more[1] = At(i + 1)
        PROVE  At(i) # NUL /\ i \in 1 .. Len(source) /\ At(i + 1) # NUL
    BY <1>1, <2>1, <2>4, OperatorRows, Ends DEF RowOK
  <2>5. ASSUME NEW more \in op[3], more[1] = At(i + 1), kind = more[2], j = i + 2,
               more[2] \notin Shifts \/ At(i + 2) # "="
        PROVE  /\ Taken(i, j) = row[2]
               /\ \A other \in token_kind_names : Reads(i, other[2]) =>
                    Len(other[2]) <= Len(Taken(i, j))
    <3>1. Taken(i, j) = <<op[1], more[1]>> /\ row[2] = <<op[1], more[1]>>
      BY <1>0, <2>1, <2>4, <2>5, TakenReads, NamesAgree
    <3>2. \A other : Reads(i, other[2]) => Len(other[2]) \in {1, 2}
      <4>1. At(i) \in {"<", ">"} /\ At(i + 1) = At(i) => more[2] \in Shifts
        <5>1. {"<", ">"} \subseteq Doubling
          BY DEF Doubling
        <5> QED BY <2>1, <2>5, <5>1, OperatorsFollow, OneMore DEF Follows
      <4> QED BY <1>2, <2>5, <4>1 DEF Reads
    <3>3. Len(Taken(i, j)) = 2 /\ \A len \in {1, 2} : len <= 2
      BY <1>2, <3>1
    <3> QED BY <3>1, <3>2, <3>3, Zenon
  <2>6. ASSUME NEW more \in op[3], more[1] = At(i + 1), more[2] \in Shifts, At(i + 2) = "=", j = i + 3,
               kind = [LSHIFT |-> "LSHIFT_ASSIGN", RSHIFT |-> "RSHIFT_ASSIGN"][more[2]]
        PROVE  /\ Taken(i, j) = row[2]
               /\ \A other \in token_kind_names : Reads(i, other[2]) =>
                    Len(other[2]) <= Len(Taken(i, j))
    <3>1. \/ more[2] = "LSHIFT" /\ kind = "LSHIFT_ASSIGN"
          \/ more[2] = "RSHIFT" /\ kind = "RSHIFT_ASSIGN"
      BY <2>6 DEF Shifts
    <3>2. row[2] = <<op[1], more[1], "=">>
      BY <1>0, <3>1, NamesAgree, Zenon
    <3>3. Taken(i, j) = <<op[1], more[1], "=">>
      <4>1. At(i + 2) # NUL
        BY <2>6 DEF NUL
      <4> QED BY <2>1, <2>4, <2>6, <4>1, TakenReads
    <3>4. Len(Taken(i, j)) = 3 /\ \A len \in {1, 2, 3} : len <= 3
      BY <1>2, <3>3
    <3> QED BY <1>3, <3>2, <3>3, <3>4, Zenon
  <2> QED BY <2>1, <2>3, <2>5, <2>6, Zenon
<1> QED BY <1>4, <1>5

(* One call of next_token, whatever it scans.                              *)
LEMMA OperatorsStep ==
  ASSUME LexIInv, next_token
  PROVE  OperatorsLongest'
<1>0. SUFFICES ASSUME Scanned' PROVE OperatorsLongest'
  BY Zenon DEF OperatorsLongest
<1>1. SourceOK /\ stream \in 1 .. Len(source) + 1 /\ Len(source) \in Nat
  BY StreamInText, Ends
<1>2. PICK i \in 1 .. Len(source) + 1 : Scans(i)
  BY <1>1, NextScans
<1>3. status' = "run"
  BY <1>0, Zenon DEF Scanned
<1>4. PICK j, kind, mod, val, errs : Yields(i, j, kind, mod, val, errs)
  <2>1. \A errs : ~ Fails(i, "abort", errs) /\ ~ Fails(i, "overrun", errs)
    BY <1>3 DEF Fails
  <2> QED BY <1>2, <2>1, Zenon DEF Scans
<1>5. token'.kind = kind /\ token'.start = i /\ token'.end = j /\ source' = source
  <2>1. token' = [kind |-> kind, mod |-> mod, start |-> i, end |-> j, val |-> val]
        /\ source' = source
    BY <1>4, Zenon DEF Yields, Emit
  <2> QED BY <2>1
<1>6. Greedy(i, Taken(i, j), kind)
  <2>1. CASE kind \in {"INT", "STR", "FLOAT", "NAME", "KEYWORD"}
    BY <2>1, NameShapes DEF Greedy
  <2>2. CASE OpText(i, j, kind)
    BY <1>1, <2>2, OpGreedy
  <2> QED BY <1>4, <2>1, <2>2, Zenon DEF Yields
<1>7. Text' = Taken(i, j) /\ Rest' = SubSeq(source, i, Len(source))
  BY <1>5, Zenon DEF Text, Rest, Taken
<1> QED BY <1>5, <1>6, <1>7, Zenon DEF OperatorsLongest, Greedy

(* Operators, for every text: one has the kind whose name it spells, and   *)
(* no longer name is a prefix of what was left of the text, but for the    *)
(* two names that next_token never produces.                               *)
THEOREM LexOperatorsLongest == LexSpec => []OperatorsLongest
<1>1. LexInit => OperatorsLongest
  <2> SUFFICES ASSUME LexInit PROVE ~ Scanned
    BY Zenon DEF OperatorsLongest
  <2> QED BY DEF LexInit, Scanned
<1>2. OperatorsLongest /\ UNCHANGED lexVars => OperatorsLongest'
  BY Zenon DEF OperatorsLongest, Text, Rest, Scanned, lexVars
<1>3. LexIInv /\ OperatorsLongest /\ [next_token]_lexVars => OperatorsLongest'
  BY <1>2, OperatorsStep
<1> QED BY <1>1, <1>3, LexInvariant, PTL DEF LexSpec
=============================================================================
