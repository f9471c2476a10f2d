----------------------------- MODULE ParseProofs -----------------------------
(***************************************************************************)
(* Theorems about Parse, for every set of alphabets and every bound.  An   *)
(* item of todo takes values of certain kinds from vals and leaves others; *)
(* the invariant is that what is left to do can be done with the values at *)
(* hand and leaves one tree, the declaration; that the walk over these     *)
(* values sees tokens of the text in order, and all that it must; and that *)
(* there are never more values than four for each token.  That an action   *)
(* keeps this is shown from the items it puts on todo, one by one.         *)
(***************************************************************************)
EXTENDS Parse, FiniteSetTheorems, SequenceTheorems, WellFoundedInduction, TLAPS

IsSeq(s) == \E S : s \in Seq(S)

-----------------------------------------------------------------------------
(* Sequences of values of any kind. *)
LEMMA Lengths ==
  ASSUME NEW s, IsSeq(s)
  PROVE  Len(s) \in Nat /\ DOMAIN s = 1 .. Len(s) /\ (s = << >> <=> Len(s) = 0)
<1>1. PICK S : s \in Seq(S)
  BY DEF IsSeq
<1> QED BY <1>1, LenProperties, EmptySeq

LEMMA EmptyIsSeq == IsSeq(<< >>) /\ Len(<< >>) = 0
BY EmptySeq DEF IsSeq

LEMMA SameSeq ==
  ASSUME NEW s, NEW t, IsSeq(s), IsSeq(t), Len(s) = Len(t), \A i \in 1 .. Len(s) : s[i] = t[i]
  PROVE  s = t
<1>1. PICK S : s \in Seq(S)
  BY DEF IsSeq
<1>2. PICK T : t \in Seq(T)
  BY DEF IsSeq
<1>3. s \in Seq(S \union T) /\ t \in Seq(S \union T)
  BY <1>1, <1>2
<1> QED BY <1>3, SeqEqual

LEMMA Appends ==
  ASSUME NEW s, IsSeq(s), NEW v
  PROVE  /\ IsSeq(Append(s, v)) /\ Len(Append(s, v)) = Len(s) + 1 /\ Append(s, v) # << >>
         /\ Append(s, v)[Len(s) + 1] = v
         /\ \A i \in 1 .. Len(s) : Append(s, v)[i] = s[i]
         /\ SubSeq(Append(s, v), 1, Len(s)) = s
         /\ Append(s, v) = s \o <<v>>
<1>1. PICK S : s \in Seq(S)
  BY DEF IsSeq
<1>2. s \in Seq(S \union {v}) /\ Len(s) \in Nat
  BY <1>1
<1>3. /\ Append(s, v) \in Seq(S \union {v}) /\ Len(Append(s, v)) = Len(s) + 1 /\ Append(s, v) # << >>
      /\ Append(s, v)[Len(s) + 1] = v
      /\ \A i \in 1 .. Len(s) : Append(s, v)[i] = s[i]
  BY <1>2, AppendProperties
<1>4. SubSeq(Append(s, v), 1, Len(s)) = s
  <2>1. \A i \in 1 .. Len(s) : Append(s, v)[i] \in S \union {v}
    BY <1>2, <1>3, ElementOfSeq
  <2>2. /\ SubSeq(Append(s, v), 1, Len(s)) \in Seq(S \union {v})
        /\ Len(SubSeq(Append(s, v), 1, Len(s))) = Len(s)
        /\ \A i \in 1 .. Len(s) : SubSeq(Append(s, v), 1, Len(s))[i] = Append(s, v)[i]
    BY <1>2, <2>1, SubSeqProperties
  <2> QED BY <1>2, <1>3, <2>2, SeqEqual
<1> QED BY <1>2, <1>3, <1>4, AppendIsConcat DEF IsSeq

LEMMA Concats ==
  ASSUME NEW s, NEW t, IsSeq(s), IsSeq(t)
  PROVE  /\ IsSeq(s \o t) /\ Len(s \o t) = Len(s) + Len(t)
         /\ \A i \in 1 .. Len(s) : (s \o t)[i] = s[i]
         /\ \A i \in 1 .. Len(t) : (s \o t)[Len(s) + i] = t[i]
         /\ s \o << >> = s /\ << >> \o s = s
         /\ \A v : Append(s \o t, v) = s \o Append(t, v)
<1>1. PICK S : s \in Seq(S)
  BY DEF IsSeq
<1>2. PICK T : t \in Seq(T)
  BY DEF IsSeq
<1>3. s \in Seq(S \union T) /\ t \in Seq(S \union T)
  BY <1>1, <1>2
<1>4. /\ s \o t \in Seq(S \union T) /\ Len(s \o t) = Len(s) + Len(t)
      /\ Len(s) \in Nat /\ Len(t) \in Nat
      /\ \A i \in 1 .. Len(s) + Len(t) : (s \o t)[i] = IF i <= Len(s) THEN s[i] ELSE t[i - Len(s)]
  BY <1>3, ConcatProperties
<1>5. \A i \in 1 .. Len(t) : (s \o t)[Len(s) + i] = t[i]
  BY <1>4
<1>6. s \o << >> = s /\ << >> \o s = s
  BY <1>3, ConcatEmptySeq
<1>7. ASSUME NEW v PROVE Append(s \o t, v) = s \o Append(t, v)
  <2>1. /\ s \in Seq((S \union T) \union {v}) /\ t \in Seq((S \union T) \union {v})
        /\ <<v>> \in Seq((S \union T) \union {v})
    BY <1>3
  <2>2. Append(s \o t, v) = (s \o t) \o <<v>> /\ Append(t, v) = t \o <<v>>
    BY <1>3, <1>4, Appends DEF IsSeq
  <2> QED BY <2>1, <2>2, ConcatAssociative
<1> QED BY <1>4, <1>5, <1>6, <1>7 DEF IsSeq

AreSeqs(s, t, u) == IsSeq(s) /\ IsSeq(t) /\ IsSeq(u)

LEMMA ConcatAssoc ==
  ASSUME NEW s, NEW t, NEW u, AreSeqs(s, t, u)
  PROVE  (s \o t) \o u = s \o (t \o u)
<1>1. PICK S : s \in Seq(S)
  BY DEF IsSeq, AreSeqs
<1>2. PICK T : t \in Seq(T)
  BY DEF IsSeq, AreSeqs
<1>3. PICK U : u \in Seq(U)
  BY DEF IsSeq, AreSeqs
<1>4. /\ s \in Seq((S \union T) \union U) /\ t \in Seq((S \union T) \union U)
      /\ u \in Seq((S \union T) \union U)
  BY <1>1, <1>2, <1>3
<1> QED BY <1>4, ConcatAssociative

LEMMA Tails ==
  ASSUME NEW s, IsSeq(s), s # << >>
  PROVE  /\ IsSeq(Tail(s)) /\ Len(Tail(s)) = Len(s) - 1 /\ Head(s) = s[1]
         /\ \A i \in 1 .. Len(s) - 1 : Tail(s)[i] = s[i + 1]
         /\ \A v : Tail(Append(s, v)) = Append(Tail(s), v)
<1>1. PICK S : s \in Seq(S)
  BY DEF IsSeq
<1>2. /\ Tail(s) \in Seq(S) /\ Len(Tail(s)) = Len(s) - 1 /\ Head(s) = s[1]
      /\ \A i \in 1 .. Len(s) - 1 : Tail(s)[i] = s[i + 1]
  BY <1>1, HeadTailProperties
<1>3. \A v : Tail(Append(s, v)) = Append(Tail(s), v)
  BY <1>1, HeadTailAppend
<1> QED BY <1>2, <1>3 DEF IsSeq

(* A sequence with one element in front. *)
LEMMA Fronts ==
  ASSUME NEW s, IsSeq(s), NEW v
  PROVE  /\ IsSeq(<<v>> \o s) /\ Len(<<v>> \o s) = Len(s) + 1 /\ <<v>> \o s # << >>
         /\ (<<v>> \o s)[1] = v /\ Tail(<<v>> \o s) = s /\ IsSeq(<<v>>)
         /\ \A i \in 1 .. Len(s) : (<<v>> \o s)[i + 1] = s[i]
<1>1. IsSeq(<<v>>) /\ Len(<<v>>) = 1 /\ <<v>>[1] = v
  <2>1. PICK o \in Seq({v}) : o = <<v>>
    <3> WITNESS <<v>> \in Seq({v})
    <3> QED OBVIOUS
  <2> QED BY <2>1 DEF IsSeq
<1>2. /\ IsSeq(<<v>> \o s) /\ Len(<<v>> \o s) = 1 + Len(s) /\ (<<v>> \o s)[1] = v
      /\ \A i \in 1 .. Len(s) : (<<v>> \o s)[1 + i] = s[i]
  BY <1>1, Concats
<1>3. Len(s) \in Nat /\ <<v>> \o s # << >>
  BY <1>2, Lengths
<1>4. /\ IsSeq(Tail(<<v>> \o s)) /\ Len(Tail(<<v>> \o s)) = Len(s)
      /\ \A i \in 1 .. Len(s) : Tail(<<v>> \o s)[i] = (<<v>> \o s)[i + 1]
  <2> DEFINE t == <<v>> \o s
  <2>1. IsSeq(t) /\ Len(t) = Len(s) + 1 /\ t # << >>
    BY <1>2, <1>3
  <2> HIDE DEF t
  <2>2. IsSeq(Tail(t)) /\ Len(Tail(t)) = Len(t) - 1 /\ \A i \in 1 .. Len(t) - 1 : Tail(t)[i] = t[i + 1]
    BY <2>1, Tails
  <2>3. IsSeq(Tail(t)) /\ Len(Tail(t)) = Len(s) /\ \A i \in 1 .. Len(s) : Tail(t)[i] = t[i + 1]
    BY <1>3, <2>1, <2>2
  <2> QED BY <2>3 DEF t
<1>5. \A i \in 1 .. Len(s) : (<<v>> \o s)[i + 1] = s[i]
  BY <1>2, <1>3
<1>6. Tail(<<v>> \o s) = s
  BY <1>4, <1>5, SameSeq
<1> QED BY <1>1, <1>2, <1>3, <1>5, <1>6

(* What is not empty is a sequence and a last element. *)
LEMMA Lasts ==
  ASSUME NEW s, IsSeq(s), s # << >>
  PROVE  /\ IsSeq(SubSeq(s, 1, Len(s) - 1)) /\ Len(SubSeq(s, 1, Len(s) - 1)) = Len(s) - 1
         /\ s = Append(SubSeq(s, 1, Len(s) - 1), s[Len(s)])
         /\ \A i \in 1 .. Len(s) - 1 : SubSeq(s, 1, Len(s) - 1)[i] = s[i]
<1>1. PICK S : s \in Seq(S)
  BY DEF IsSeq
<1>2. Len(s) \in Nat \ {0}
  BY Lengths
<1>3. \A i \in 1 .. Len(s) - 1 : s[i] \in S
  BY <1>1, <1>2, ElementOfSeq
<1> DEFINE r == SubSeq(s, 1, Len(s) - 1)
<1>4. r \in Seq(S) /\ Len(r) = Len(s) - 1 /\ \A i \in 1 .. Len(s) - 1 : r[i] = s[i]
  <2>1. Len(s) - 1 \in Int
    BY <1>2
  <2>2. /\ r \in Seq(S)
        /\ Len(r) = IF 1 <= Len(s) - 1 THEN (Len(s) - 1) - 1 + 1 ELSE 0
        /\ \A i \in 1 .. (Len(s) - 1) - 1 + 1 : r[i] = s[1 + i - 1]
    BY <1>3, <2>1, SubSeqProperties
  <2>3. \A n \in Nat \ {0} : /\ (IF 1 <= n - 1 THEN (n - 1) - 1 + 1 ELSE 0) = n - 1
                              /\ (n - 1) - 1 + 1 = n - 1
                              /\ \A i \in 1 .. n - 1 : 1 + i - 1 = i
    OBVIOUS
  <2> HIDE DEF r
  <2> QED BY <1>2, <2>2, <2>3
<1> HIDE DEF r
<1>5. IsSeq(r)
  BY <1>4 DEF IsSeq
<1>6. s = Append(r, s[Len(s)])
  <2>1. /\ IsSeq(Append(r, s[Len(s)])) /\ Len(Append(r, s[Len(s)])) = Len(s)
        /\ Append(r, s[Len(s)])[Len(s)] = s[Len(s)]
        /\ \A i \in 1 .. Len(s) - 1 : Append(r, s[Len(s)])[i] = s[i]
    <3>1. /\ IsSeq(Append(r, s[Len(s)])) /\ Len(Append(r, s[Len(s)])) = Len(r) + 1
          /\ Append(r, s[Len(s)])[Len(r) + 1] = s[Len(s)]
          /\ \A i \in 1 .. Len(r) : Append(r, s[Len(s)])[i] = r[i]
      BY <1>5, Appends
    <3>2. Len(r) + 1 = Len(s)
      BY <1>2, <1>4
    <3> QED BY <1>4, <3>1, <3>2
  <2>2. \A i \in 1 .. Len(s) : s[i] = Append(r, s[Len(s)])[i]
    BY <1>2, <2>1
  <2> QED BY <2>1, <2>2, SameSeq
<1> QED BY <1>4, <1>5, <1>6 DEF r

(* The last element, or the one before it, replaced. *)
LEMMA Replaced ==
  ASSUME NEW s, IsSeq(s), NEW a, NEW b
  PROVE  /\ [Append(s, a) EXCEPT ![Len(s) + 1] = b] = Append(s, b)
         /\ \A c : [Append(Append(s, a), c) EXCEPT ![Len(s) + 1] = b] = Append(Append(s, b), c)
<1>1. ASSUME NEW t, IsSeq(t), NEW n \in 1 .. Len(t)
      PROVE  /\ IsSeq([t EXCEPT ![n] = b]) /\ Len([t EXCEPT ![n] = b]) = Len(t)
             /\ \A i \in 1 .. Len(t) : [t EXCEPT ![n] = b][i] = IF i = n THEN b ELSE t[i]
  <2>1. PICK T : t \in Seq(T)
    BY <1>1 DEF IsSeq
  <2>2. t \in Seq(T \union {b})
    BY <2>1
  <2> QED BY <2>2, ExceptSeq DEF IsSeq
<1>2. Len(s) \in Nat
  BY Lengths
<1>3. ASSUME NEW v
      PROVE  /\ IsSeq(Append(s, v)) /\ Len(Append(s, v)) = Len(s) + 1
             /\ \A i \in 1 .. Len(s) + 1 : Append(s, v)[i] = IF i = Len(s) + 1 THEN v ELSE s[i]
  <2>1. /\ IsSeq(Append(s, v)) /\ Len(Append(s, v)) = Len(s) + 1
        /\ Append(s, v)[Len(s) + 1] = v
        /\ \A i \in 1 .. Len(s) : Append(s, v)[i] = s[i]
    BY Appends
  <2> QED BY <1>2, <2>1
<1>4. [Append(s, a) EXCEPT ![Len(s) + 1] = b] = Append(s, b)
  <2> DEFINE t == Append(s, a)
  <2>1. IsSeq(t) /\ Len(s) + 1 \in 1 .. Len(t)
    BY <1>2, <1>3
  <2> HIDE DEF t
  <2>2. /\ IsSeq([t EXCEPT ![Len(s) + 1] = b]) /\ Len([t EXCEPT ![Len(s) + 1] = b]) = Len(t)
        /\ \A i \in 1 .. Len(t) : [t EXCEPT ![Len(s) + 1] = b][i] = IF i = Len(s) + 1 THEN b ELSE t[i]
    BY <2>1, <1>1
  <2>3. Len(t) = Len(s) + 1 /\ \A i \in 1 .. Len(s) + 1 : t[i] = IF i = Len(s) + 1 THEN a ELSE s[i]
    BY <1>3 DEF t
  <2> DEFINE z == Append(s, b)
             y == [t EXCEPT ![Len(s) + 1] = b]
  <2>4. /\ IsSeq(z) /\ Len(z) = Len(s) + 1
        /\ \A i \in 1 .. Len(s) + 1 : z[i] = IF i = Len(s) + 1 THEN b ELSE s[i]
    BY <1>3
  <2>5. /\ IsSeq(y) /\ Len(y) = Len(s) + 1
        /\ \A i \in 1 .. Len(s) + 1 : y[i] = IF i = Len(s) + 1 THEN b ELSE s[i]
    BY <2>2, <2>3
  <2> HIDE DEF y, z
  <2>6. \A i \in 1 .. Len(y) : y[i] = z[i]
    BY <2>4, <2>5
  <2>7. y = z
    BY <2>4, <2>5, <2>6, SameSeq
  <2> QED BY <2>7 DEF t, y, z
<1>5. ASSUME NEW c
      PROVE  [Append(Append(s, a), c) EXCEPT ![Len(s) + 1] = b] = Append(Append(s, b), c)
  <2>1. \A v : /\ IsSeq(Append(Append(s, v), c)) /\ Len(Append(Append(s, v), c)) = Len(s) + 2
               /\ \A i \in 1 .. Len(s) + 2 :
                    Append(Append(s, v), c)[i] =
                      IF i = Len(s) + 2 THEN c ELSE IF i = Len(s) + 1 THEN v ELSE s[i]
    <3> TAKE v
    <3>1. /\ IsSeq(Append(Append(s, v), c)) /\ Len(Append(Append(s, v), c)) = Len(Append(s, v)) + 1
          /\ Append(Append(s, v), c)[Len(Append(s, v)) + 1] = c
          /\ \A i \in 1 .. Len(Append(s, v)) : Append(Append(s, v), c)[i] = Append(s, v)[i]
      BY <1>3, Appends
    <3> QED BY <1>2, <1>3, <3>1
  <2> DEFINE t == Append(Append(s, a), c)
  <2>2. IsSeq(t) /\ Len(t) = Len(s) + 2 /\ Len(s) + 1 \in 1 .. Len(t)
    BY <1>2, <2>1
  <2>3. \A i \in 1 .. Len(s) + 2 : t[i] = IF i = Len(s) + 2 THEN c ELSE IF i = Len(s) + 1 THEN a ELSE s[i]
    BY <2>1
  <2> HIDE DEF t
  <2>4. /\ IsSeq([t EXCEPT ![Len(s) + 1] = b]) /\ Len([t EXCEPT ![Len(s) + 1] = b]) = Len(t)
        /\ \A i \in 1 .. Len(t) : [t EXCEPT ![Len(s) + 1] = b][i] = IF i = Len(s) + 1 THEN b ELSE t[i]
    BY <2>2, <1>1
  <2> DEFINE z == Append(Append(s, b), c)
             y == [t EXCEPT ![Len(s) + 1] = b]
  <2>5. /\ IsSeq(z) /\ Len(z) = Len(s) + 2
        /\ \A i \in 1 .. Len(s) + 2 :
             z[i] = IF i = Len(s) + 2 THEN c ELSE IF i = Len(s) + 1 THEN b ELSE s[i]
    BY <2>1
  <2>6. /\ IsSeq(y) /\ Len(y) = Len(s) + 2
        /\ \A i \in 1 .. Len(s) + 2 :
             y[i] = IF i = Len(s) + 2 THEN c ELSE IF i = Len(s) + 1 THEN b ELSE s[i]
    BY <1>2, <2>2, <2>3, <2>4
  <2> HIDE DEF y, z
  <2>7. \A i \in 1 .. Len(y) : y[i] = z[i]
    BY <2>5, <2>6
  <2>8. y = z
    BY <2>5, <2>6, <2>7, SameSeq
  <2> QED BY <2>8 DEF t, y, z
<1> QED BY <1>4, <1>5

-----------------------------------------------------------------------------
(* Walks.  W(l, t, d) is a point of a walk; a run of n visits leads from   *)
(* one to another.                                                         *)
W(l, t, d) == [left |-> l, seen |-> t, vectors |-> d]

Path(r, p, q, n) == r[0] = p /\ r[n] = q /\ \A i \in 0 .. n - 1 : r[i + 1] = Visit(r[i])

Reaches(p, q, n) == n \in Nat /\ \E r : Path(r, p, q, n)

(* Whatever else is left below them, n visits take the values xs away and  *)
(* see the tokens u and e vectors.                                         *)
Clears(xs, u, e, n) ==
  /\ IsSeq(u) /\ e \in Int /\ n \in Nat
  /\ \A b, t : \A d \in Int :
       IsSeq(b) /\ IsSeq(t) => Reaches(W(b \o xs, t, d), W(b, u \o t, e + d), n)

VectorsIn(v) == IF v[1] = "list" THEN 1 ELSE 0

LEMMA VisitTok ==
  ASSUME NEW b, IsSeq(b), NEW t, NEW d, NEW v, v[1] = "tok"
  PROVE  Visit(W(Append(b, v), t, d)) = W(b, <<v[2]>> \o t, d)
<1> DEFINE l == Append(b, v)
<1>1. Len(l) = Len(b) + 1 /\ l[Len(b) + 1] = v /\ SubSeq(l, 1, Len(b)) = b /\ Len(b) \in Nat
  BY Appends, Lengths
<1>2. Len(l) # 0 /\ l[Len(l)] = v /\ SubSeq(l, 1, Len(l) - 1) = b
  <2>1. Len(l) - 1 = Len(b)
    BY <1>1
  <2> QED BY <1>1, <2>1
<1> HIDE DEF l
<1>3. Visit(W(l, t, d)) = W(b, <<v[2]>> \o t, d)
  BY <1>2 DEF Visit, W
<1> QED BY <1>3 DEF l

LEMMA VisitNode ==
  ASSUME NEW b, IsSeq(b), NEW t, NEW d \in Int, NEW v, v[1] # "tok"
  PROVE  Visit(W(Append(b, v), t, d)) = W(b \o Tail(v), t, VectorsIn(v) + d)
<1> DEFINE l == Append(b, v)
<1>1. Len(l) = Len(b) + 1 /\ l[Len(b) + 1] = v /\ SubSeq(l, 1, Len(b)) = b /\ Len(b) \in Nat
  BY Appends, Lengths
<1>2. Len(l) # 0 /\ l[Len(l)] = v /\ SubSeq(l, 1, Len(l) - 1) = b
  <2>1. Len(l) - 1 = Len(b)
    BY <1>1
  <2> QED BY <1>1, <2>1
<1> HIDE DEF l
<1>3. Visit(W(l, t, d)) = W(b \o Tail(v), t, VectorsIn(v) + d)
  <2>1. CASE v[1] = "list"
    <3>1. VectorsIn(v) + d = d + 1
      BY <2>1 DEF VectorsIn
    <3>2. Visit(W(l, t, d)) = W(b \o Tail(v), t, d + 1)
      BY <1>2, <2>1 DEF Visit, W
    <3> QED BY <3>1, <3>2
  <2>2. CASE v[1] # "list"
    <3>1. VectorsIn(v) + d = d
      BY <2>2 DEF VectorsIn
    <3>2. Visit(W(l, t, d)) = W(b \o Tail(v), t, d)
      BY <1>2, <2>2 DEF Visit, W
    <3> QED BY <3>1, <3>2
  <2> QED BY <2>1, <2>2
<1> QED BY <1>3 DEF l

LEMMA ReachesStep ==
  ASSUME NEW p, NEW q, NEW n, Reaches(Visit(p), q, n)
  PROVE  Reaches(p, q, n + 1)
<1>1. PICK r : Path(r, Visit(p), q, n)
  BY DEF Reaches
<1>2. n \in Nat
  BY DEF Reaches
<1> DEFINE z == [i \in 0 .. n + 1 |-> IF i = 0 THEN p ELSE r[i - 1]]
<1>3. z[0] = p /\ z[n + 1] = q
  BY <1>1, <1>2 DEF Path
<1>4. ASSUME NEW i \in 0 .. n PROVE z[i + 1] = Visit(z[i])
  <2>1. CASE i = 0
    BY <1>1, <1>2, <2>1 DEF Path
  <2>2. CASE i # 0
    <3>1. i - 1 \in 0 .. n - 1 /\ (i - 1) + 1 = i /\ z[i] = r[i - 1] /\ z[i + 1] = r[i]
      BY <1>2, <2>2
    <3> HIDE DEF z
    <3> QED BY <1>1, <3>1 DEF Path
  <2> QED BY <2>1, <2>2
<1>5. Path(z, p, q, n + 1) /\ n + 1 \in Nat
  <2>1. n + 1 - 1 = n
    BY <1>2
  <2> HIDE DEF z
  <2> QED BY <1>2, <1>3, <1>4, <2>1 DEF Path
<1> QED BY <1>5 DEF Reaches

LEMMA ReachesTail ==
  ASSUME NEW p, NEW q, NEW n, Reaches(p, q, n), p # q
  PROVE  n - 1 \in Nat /\ Reaches(Visit(p), q, n - 1)
<1>1. PICK r : Path(r, p, q, n)
  BY DEF Reaches
<1>2. n \in Nat /\ n # 0
  BY <1>1 DEF Reaches, Path
<1> DEFINE z == [i \in 0 .. n - 1 |-> r[i + 1]]
<1>3. z[0] = Visit(p) /\ z[n - 1] = q
  BY <1>1, <1>2 DEF Path
<1>4. ASSUME NEW i \in 0 .. (n - 1) - 1 PROVE z[i + 1] = Visit(z[i])
  <2>1. i + 1 \in 0 .. n - 1 /\ z[i] = r[i + 1] /\ z[i + 1] = r[(i + 1) + 1]
    BY <1>2
  <2> HIDE DEF z
  <2> QED BY <1>1, <2>1 DEF Path
<1>5. Path(z, Visit(p), q, n - 1)
  BY <1>3, <1>4 DEF Path
<1> QED BY <1>2, <1>5 DEF Reaches

LEMMA ReachesConcat ==
  ASSUME NEW p, NEW o, NEW q, NEW n, NEW m, Reaches(p, o, n), Reaches(o, q, m)
  PROVE  Reaches(p, q, n + m)
<1>1. PICK r : Path(r, p, o, n)
  BY DEF Reaches
<1>2. PICK s : Path(s, o, q, m)
  BY DEF Reaches
<1>3. n \in Nat /\ m \in Nat
  BY DEF Reaches
<1> DEFINE z == [i \in 0 .. n + m |-> IF i <= n THEN r[i] ELSE s[i - n]]
<1>4. z[0] = p /\ z[n + m] = q
  BY <1>1, <1>2, <1>3 DEF Path
<1>5. ASSUME NEW i \in 0 .. (n + m) - 1 PROVE z[i + 1] = Visit(z[i])
  <2>1. CASE i < n
    <3>1. i \in 0 .. n - 1 /\ z[i] = r[i] /\ z[i + 1] = r[i + 1]
      BY <1>3, <2>1
    <3> HIDE DEF z
    <3> QED BY <1>1, <3>1 DEF Path
  <2>2. CASE i >= n
    <3>1. i - n \in 0 .. m - 1 /\ z[i] = s[i - n] /\ z[i + 1] = s[(i - n) + 1]
      BY <1>1, <1>2, <1>3, <2>2 DEF Path
    <3> HIDE DEF z
    <3> QED BY <1>2, <3>1 DEF Path
  <2> QED BY <1>3, <2>1, <2>2
<1>6. Path(z, p, q, n + m)
  BY <1>4, <1>5 DEF Path
<1> QED BY <1>3, <1>6 DEF Reaches

LEMMA ClearsNothing == Clears(<< >>, << >>, 0, 0)
<1> SUFFICES ASSUME NEW b, NEW t, NEW d \in Int, IsSeq(b), IsSeq(t)
             PROVE  Reaches(W(b \o << >>, t, d), W(b, << >> \o t, 0 + d), 0)
  BY EmptyIsSeq DEF Clears
<1>1. b \o << >> = b /\ << >> \o t = t
  BY Concats
<1>2. Path([i \in 0 .. 0 |-> W(b, t, d)], W(b, t, d), W(b, t, d), 0)
  BY DEF Path
<1> QED BY <1>1, <1>2 DEF Reaches

LEMMA ClearsConcat ==
  ASSUME NEW xs, NEW ys, IsSeq(xs), IsSeq(ys), NEW u, NEW e, NEW n, NEW v, NEW f, NEW m,
         Clears(xs, u, e, n), Clears(ys, v, f, m)
  PROVE  Clears(xs \o ys, u \o v, e + f, n + m)
<1>1. IsSeq(u) /\ e \in Int /\ n \in Nat /\ IsSeq(v) /\ f \in Int /\ m \in Nat
  BY DEF Clears
<1>2. ASSUME NEW b, NEW t, NEW d \in Int, IsSeq(b), IsSeq(t)
      PROVE  Reaches(W(b \o (xs \o ys), t, d), W(b, (u \o v) \o t, (e + f) + d), n + m)
  <2>1. IsSeq(b \o xs) /\ IsSeq(v \o t) /\ f + d \in Int
    BY <1>1, <1>2, Concats
  <2>2. Reaches(W((b \o xs) \o ys, t, d), W(b \o xs, v \o t, f + d), m)
    BY <1>2, <2>1 DEF Clears
  <2>3. Reaches(W(b \o xs, v \o t, f + d), W(b, u \o (v \o t), e + (f + d)), n)
    BY <1>2, <2>1 DEF Clears
  <2>4. (b \o xs) \o ys = b \o (xs \o ys)
    <3>1. AreSeqs(b, xs, ys)
      BY <1>2 DEF AreSeqs
    <3> QED BY <3>1, ConcatAssoc
  <2>5. (u \o v) \o t = u \o (v \o t)
    <3>1. AreSeqs(u, v, t)
      BY <1>1, <1>2 DEF AreSeqs
    <3> QED BY <3>1, ConcatAssoc
  <2>6. e + (f + d) = (e + f) + d /\ m + n = n + m
    BY <1>1
  <2> QED BY <2>2, <2>3, <2>4, <2>5, <2>6, ReachesConcat
<1>3. IsSeq(u \o v) /\ e + f \in Int /\ n + m \in Nat
  BY <1>1, Concats
<1> QED BY <1>2, <1>3 DEF Clears

LEMMA ClearsTok ==
  ASSUME NEW v, v[1] = "tok"
  PROVE  Clears(<<v>>, <<v[2]>>, 0, 1)
<1>1. ASSUME NEW b, NEW t, NEW d \in Int, IsSeq(b), IsSeq(t)
      PROVE  Reaches(W(b \o <<v>>, t, d), W(b, <<v[2]>> \o t, 0 + d), 1)
  <2>0. Append(b, v) = b \o <<v>>
    BY <1>1, Appends
  <2>1. Visit(W(b \o <<v>>, t, d)) = W(b, <<v[2]>> \o t, d)
    <3>1. Visit(W(Append(b, v), t, d)) = W(b, <<v[2]>> \o t, d)
      BY <1>1, VisitTok
    <3> QED BY <2>0, <3>1
  <2>2. Reaches(W(b, <<v[2]>> \o t, d), W(b, <<v[2]>> \o t, d), 0)
    <3> DEFINE p == W(b, <<v[2]>> \o t, d)
    <3>1. Path([i \in 0 .. 0 |-> p], p, p, 0)
      BY DEF Path
    <3> QED BY <3>1 DEF Reaches
  <2>3. Reaches(W(b \o <<v>>, t, d), W(b, <<v[2]>> \o t, d), 0 + 1)
    BY <2>1, <2>2, ReachesStep
  <2> QED BY <2>3
<1>2. IsSeq(<<v[2]>>)
  BY Fronts, EmptyIsSeq
<1> QED BY <1>1, <1>2 DEF Clears

LEMMA ClearsNode ==
  ASSUME NEW v, IsSeq(v), v # << >>, v[1] # "tok", NEW u, NEW e, NEW n, Clears(Tail(v), u, e, n)
  PROVE  Clears(<<v>>, u, VectorsIn(v) + e, n + 1)
<1>1. IsSeq(u) /\ e \in Int /\ n \in Nat /\ VectorsIn(v) \in Int
  BY DEF Clears, VectorsIn
<1>2. ASSUME NEW b, NEW t, NEW d \in Int, IsSeq(b), IsSeq(t)
      PROVE  Reaches(W(b \o <<v>>, t, d), W(b, u \o t, (VectorsIn(v) + e) + d), n + 1)
  <2>0. Append(b, v) = b \o <<v>>
    BY <1>2, Appends
  <2>1. Visit(W(b \o <<v>>, t, d)) = W(b \o Tail(v), t, VectorsIn(v) + d)
    BY <1>2, <2>0, VisitNode
  <2>2. Reaches(W(b \o Tail(v), t, VectorsIn(v) + d), W(b, u \o t, e + (VectorsIn(v) + d)), n)
    BY <1>1, <1>2 DEF Clears
  <2>3. e + (VectorsIn(v) + d) = (VectorsIn(v) + e) + d
    BY <1>1
  <2> QED BY <2>1, <2>2, <2>3, ReachesStep
<1> QED BY <1>1, <1>2 DEF Clears

LEMMA ClearsParts ==
  ASSUME NEW v, IsSeq(v), v # << >>, v[1] # "tok", NEW u, NEW e, NEW n, Clears(<<v>>, u, e, n)
  PROVE  Clears(Tail(v), u, e - VectorsIn(v), n - 1)
<1>1. IsSeq(u) /\ e \in Int /\ n \in Nat /\ VectorsIn(v) \in Int
  BY DEF Clears, VectorsIn
<1>2. ASSUME NEW b, NEW t, NEW d \in Int, IsSeq(b), IsSeq(t)
      PROVE  n - 1 \in Nat /\ Reaches(W(b \o Tail(v), t, d), W(b, u \o t, (e - VectorsIn(v)) + d), n - 1)
  <2> DEFINE c == d - VectorsIn(v)
  <2>1. c \in Int /\ VectorsIn(v) + c = d /\ e + c = (e - VectorsIn(v)) + d
    BY <1>1
  <2> HIDE DEF c
  <2>2. Reaches(W(b \o <<v>>, t, c), W(b, u \o t, e + c), n)
    BY <1>2, <2>1 DEF Clears
  <2>0. Append(b, v) = b \o <<v>>
    BY <1>2, Appends
  <2>3. Visit(W(b \o <<v>>, t, c)) = W(b \o Tail(v), t, d)
    <3>1. Visit(W(Append(b, v), t, c)) = W(b \o Tail(v), t, VectorsIn(v) + c)
      BY <1>2, <2>1, VisitNode
    <3> QED BY <2>0, <2>1, <3>1
  <2>4. W(b \o <<v>>, t, c) # W(b, u \o t, e + c)
    <3>1. b \o <<v>> # b
      BY <1>2, Appends, Lengths
    <3> QED BY <3>1 DEF W
  <2> QED BY <2>1, <2>2, <2>3, <2>4, ReachesTail
<1>3. n - 1 \in Nat
  <2>1. IsSeq(<< >>) /\ 0 \in Int
    BY EmptyIsSeq
  <2> QED BY <1>2, <2>1
<1>4. e - VectorsIn(v) \in Int
  BY <1>1
<1> QED BY <1>1, <1>2, <1>3, <1>4 DEF Clears

-----------------------------------------------------------------------------
(* The values on vals.  x tells their kinds from the top down:             *)
(* Over(y, k) is a value of kind k on top of y.  A list is a vector that   *)
(* is still a local; tok is what a token carries; flag is is_default; all  *)
(* else is a tree.                                                         *)
Bottom     == << >>
Over(x, k) == <<x, k>>

(* v is of kind k; a walk over it makes m visits and sees the tokens u.    *)
Parsed(v, k, u, m) ==
  /\ IsSeq(v) /\ v # << >>
  /\ k = "list" <=> v[1] = "list"
  /\ k = "tok" => v[1] = "tok"
  /\ k = "flag" => v \in {<<"true">>, <<"false">>} /\ u = << >> /\ m = 1
  /\ v[1] = "expr_name" => Len(v) = 2 /\ IsSeq(v[2]) /\ v[2] # << >> /\ v[2][1] = "tok"
  /\ Clears(<<v>>, u, VectorsIn(v), m)

(* The kinds of the values of a stack, the tokens they keep, and how many  *)
(* values there are in them.                                               *)
Ground == [types |-> Bottom, seen |-> << >>, size |-> 0]

Adds(p, v, q) ==
  \E k, u, m : /\ Parsed(v, k, u, m)
               /\ q = [types |-> Over(p.types, k), seen |-> p.seen \o u, size |-> p.size + m]

Layers(vs, p, f) ==
  /\ f[0] = Ground /\ f[Len(vs)] = p
  /\ \A i \in 0 .. Len(vs) : IsSeq(f[i].seen) /\ f[i].size \in Nat
  /\ \A i \in 1 .. Len(vs) : Adds(f[i - 1], vs[i], f[i])

Stacked(vs, p) == IsSeq(vs) /\ \E f : Layers(vs, p, f)

LEMMA ParsedFacts ==
  ASSUME NEW v, NEW k, NEW u, NEW m, Parsed(v, k, u, m)
  PROVE  IsSeq(u) /\ m \in Nat
BY DEF Parsed, Clears

LEMMA StackedFacts ==
  ASSUME NEW vs, NEW p, Stacked(vs, p)
  PROVE  IsSeq(vs) /\ IsSeq(p.seen) /\ p.size \in Nat
<1>1. PICK f : Layers(vs, p, f)
  BY DEF Stacked
<1>2. Len(vs) \in 0 .. Len(vs)
  BY Lengths DEF Stacked
<1> QED BY <1>1, <1>2 DEF Stacked, Layers

LEMMA StackedNothing == Stacked(<< >>, Ground)
<1>1. Layers(<< >>, Ground, [i \in 0 .. 0 |-> Ground])
  BY EmptyIsSeq DEF Layers, Ground
<1> QED BY <1>1, EmptyIsSeq DEF Stacked

LEMMA StackedPush ==
  ASSUME NEW vs, NEW p, Stacked(vs, p), NEW v, NEW k, NEW u, NEW m, Parsed(v, k, u, m)
  PROVE  Stacked(Append(vs, v), [types |-> Over(p.types, k), seen |-> p.seen \o u, size |-> p.size + m])
<1> DEFINE q == [types |-> Over(p.types, k), seen |-> p.seen \o u, size |-> p.size + m]
           z == Append(vs, v)
<1>1. PICK f : Layers(vs, p, f)
  BY DEF Stacked
<1>2. IsSeq(vs) /\ Len(vs) \in Nat /\ IsSeq(p.seen) /\ p.size \in Nat /\ IsSeq(u) /\ m \in Nat
  BY StackedFacts, ParsedFacts, Lengths
<1>3. IsSeq(z) /\ Len(z) = Len(vs) + 1 /\ z[Len(vs) + 1] = v /\ \A i \in 1 .. Len(vs) : z[i] = vs[i]
  BY <1>2, Appends
<1>4. IsSeq(q.seen) /\ q.size \in Nat
  BY <1>2, Concats
<1>5. Adds(p, v, q)
  BY DEF Adds
<1> HIDE DEF q, z
<1> DEFINE g == [i \in 0 .. Len(vs) + 1 |-> IF i <= Len(vs) THEN f[i] ELSE q]
<1>6. g[0] = Ground /\ g[Len(z)] = q
  BY <1>1, <1>2, <1>3 DEF Layers
<1>7. ASSUME NEW i \in 0 .. Len(z) PROVE IsSeq(g[i].seen) /\ g[i].size \in Nat
  <2>1. CASE i <= Len(vs)
    BY <1>1, <1>2, <1>3, <2>1 DEF Layers
  <2>2. CASE i > Len(vs)
    BY <1>2, <1>3, <1>4, <2>2
  <2> QED BY <1>2, <2>1, <2>2
<1>8. ASSUME NEW i \in 1 .. Len(z) PROVE Adds(g[i - 1], z[i], g[i])
  <2>1. CASE i <= Len(vs)
    <3>1. g[i - 1] = f[i - 1] /\ g[i] = f[i] /\ z[i] = vs[i] /\ i \in 1 .. Len(vs)
      BY <1>2, <1>3, <2>1
    <3> HIDE DEF g
    <3> QED BY <1>1, <3>1 DEF Layers
  <2>2. CASE i > Len(vs)
    <3>1. g[i - 1] = p /\ g[i] = q /\ z[i] = v
      BY <1>1, <1>2, <1>3, <2>2 DEF Layers
    <3> HIDE DEF g
    <3> QED BY <1>5, <3>1
  <2> QED BY <1>2, <2>1, <2>2
<1> HIDE DEF g
<1>9. Layers(z, q, g)
  BY <1>6, <1>7, <1>8 DEF Layers
<1> QED BY <1>3, <1>9 DEF Stacked, q, z

(* v is the value on top of vs, of kind k, and w and q are what is below.  *)
Top(vs, p, k, w, v, q, u, m) ==
  /\ vs = Append(w, v) /\ Stacked(w, q) /\ p.types = Over(q.types, k)
  /\ Parsed(v, k, u, m) /\ p.seen = q.seen \o u /\ p.size = q.size + m

LEMMA StackedPop ==
  ASSUME NEW vs, NEW p, Stacked(vs, p), NEW y, NEW k, p.types = Over(y, k)
  PROVE  \E w, v, q, u, m : Top(vs, p, k, w, v, q, u, m)
<1>1. PICK f : Layers(vs, p, f)
  BY DEF Stacked
<1>2. IsSeq(vs) /\ Len(vs) \in Nat
  BY Lengths DEF Stacked
<1>3. Len(vs) # 0
  <2>1. Ground.types # Over(y, k)
    BY DEF Ground, Bottom, Over
  <2> QED BY <1>1, <2>1 DEF Layers
<1> DEFINE n == Len(vs)
           w == SubSeq(vs, 1, n - 1)
           v == vs[n]
           q == f[n - 1]
<1>4. IsSeq(w) /\ Len(w) = n - 1 /\ vs = Append(w, v) /\ \A i \in 1 .. n - 1 : w[i] = vs[i]
  <2>1. vs # << >>
    BY <1>2, <1>3, Lengths
  <2> QED BY <1>2, <2>1, Lasts
<1>5. n \in Nat \ {0} /\ f[n] = p
  BY <1>1, <1>2, <1>3 DEF Layers
<1> HIDE DEF n, w, v
<1>6. Adds(q, v, p)
  BY <1>1, <1>5 DEF Layers, v, n
<1>7. PICK l, u, m : /\ Parsed(v, l, u, m)
                     /\ p = [types |-> Over(q.types, l), seen |-> q.seen \o u, size |-> q.size + m]
  BY <1>6 DEF Adds
<1>8. Stacked(w, q)
  <2>1. \A i \in 0 .. Len(w) : IsSeq(f[i].seen) /\ f[i].size \in Nat
    BY <1>1, <1>4, <1>5 DEF Layers, n
  <2>2. \A i \in 1 .. Len(w) : Adds(f[i - 1], w[i], f[i])
    BY <1>1, <1>4, <1>5 DEF Layers, n
  <2>3. f[0] = Ground
    BY <1>1 DEF Layers
  <2>4. Layers(w, q, f)
    BY <1>4, <2>1, <2>2, <2>3 DEF Layers
  <2> QED BY <1>4, <2>4 DEF Stacked
<1>9. q.types = y /\ l = k
  BY <1>7 DEF Over
<1>10. p.seen = q.seen \o u /\ p.size = q.size + m
  BY <1>7
<1> HIDE DEF q
<1>11. Top(vs, p, k, w, v, q, u, m)
  BY <1>4, <1>7, <1>8, <1>9, <1>10 DEF Top
<1> QED BY <1>11

LEMMA StackedBottom ==
  ASSUME NEW vs, NEW p, Stacked(vs, p), p.types = Bottom
  PROVE  vs = << >> /\ p = Ground
<1>1. PICK f : Layers(vs, p, f)
  BY DEF Stacked
<1>2. IsSeq(vs) /\ Len(vs) \in Nat
  BY Lengths DEF Stacked
<1>3. Len(vs) = 0
  <2> SUFFICES ASSUME Len(vs) # 0 PROVE FALSE
    OBVIOUS
  <2>1. PICK n \in Nat \ {0} : n = Len(vs)
    BY <1>2
  <2>2. Adds(f[n - 1], vs[n], p)
    BY <1>1, <2>1 DEF Layers
  <2>3. PICK y, k : p.types = Over(y, k)
    BY <2>2 DEF Adds
  <2> QED BY <2>3 DEF Bottom, Over
<1> QED BY <1>1, <1>2, <1>3, Lengths DEF Layers

-----------------------------------------------------------------------------
(* Values of each kind. *)
LEMMA Single ==
  ASSUME NEW v
  PROVE  IsSeq(<<v>>) /\ <<v>> # << >> /\ Len(<<v>>) = 1 /\ <<v>>[1] = v /\ Tail(<<v>>) = << >>
<1>1. <<v>> \o << >> = <<v>> /\ IsSeq(<< >>) /\ IsSeq(<<v>>)
  BY EmptyIsSeq, Fronts, Concats
<1>2. /\ <<v>> \o << >> # << >> /\ Len(<<v>> \o << >>) = Len(<< >>) + 1
      /\ (<<v>> \o << >>)[1] = v /\ Tail(<<v>> \o << >>) = << >>
  BY <1>1, Fronts
<1> QED BY <1>1, <1>2, EmptyIsSeq

LEMMA Atoms ==
  ASSUME NEW t, t \notin {"tok", "expr_name"}, NEW k \in {"tree", "list", "flag"},
         k = "list" <=> t = "list", k = "flag" => t \in {"true", "false"}
  PROVE  Parsed(<<t>>, k, << >>, 1)
<1>1. PICK v : v = <<t>>
  OBVIOUS
<1>2. IsSeq(v) /\ v # << >> /\ v[1] = t /\ Tail(v) = << >>
  BY <1>1, Single
<1>3. Clears(<<v>>, << >>, VectorsIn(v) + 0, 0 + 1)
  BY <1>2, ClearsNothing, ClearsNode
<1>4. VectorsIn(v) + 0 = VectorsIn(v) /\ 0 + 1 = 1
  BY DEF VectorsIn
<1>5. k = "flag" => v \in {<<"true">>, <<"false">>}
  BY <1>1
<1> QED BY <1>1, <1>2, <1>3, <1>4, <1>5 DEF Parsed

LEMMA Toks ==
  ASSUME NEW j, NEW k \in {"tree", "tok"}
  PROVE  Parsed(<<"tok", j>>, k, <<j>>, 1)
<1>1. PICK v : v = <<"tok", j>>
  OBVIOUS
<1>2. IsSeq(v) /\ v # << >> /\ v[1] = "tok" /\ v[2] = j
  <2>1. <<"tok", j>> \in Seq({"tok", j})
    OBVIOUS
  <2> QED BY <1>1, <2>1 DEF IsSeq
<1>3. Clears(<<v>>, <<v[2]>>, 0, 1)
  BY <1>2, ClearsTok
<1>4. Clears(<<v>>, <<j>>, VectorsIn(v), 1)
  BY <1>2, <1>3 DEF VectorsIn
<1> QED BY <1>1, <1>2, <1>4 DEF Parsed

LEMMA Trees ==
  ASSUME NEW v, NEW k, NEW u, NEW m, Parsed(v, k, u, m), k # "list"
  PROVE  Parsed(v, "tree", u, m)
BY DEF Parsed

(* A copy of a vector is a tree; what is no vector is its own copy.        *)
LEMMA Copies ==
  ASSUME NEW v, NEW k, NEW u, NEW m, Parsed(v, k, u, m)
  PROVE  Parsed(Copied(v), "tree", u, m)
<1>1. CASE v[1] # "list"
  <2>1. Copied(v) = v
    BY <1>1 DEF Copied
  <2>2. k # "list"
    BY <1>1 DEF Parsed
  <2> QED BY <2>1, <2>2, Trees
<1>2. CASE v[1] = "list"
  <2>1. IsSeq(v) /\ v # << >> /\ Clears(<<v>>, u, 1, m)
    BY <1>2 DEF Parsed, VectorsIn
  <2>2. Clears(Tail(v), u, 1 - VectorsIn(v), m - 1)
    BY <1>2, <2>1, ClearsParts
  <2>3. 1 - VectorsIn(v) = 0 /\ m - 1 + 1 = m
    BY <1>2, ParsedFacts DEF VectorsIn
  <2> DEFINE c == Copied(v)
  <2>4. c = <<"array">> \o Tail(v)
    BY <1>2 DEF Copied
  <2>5. IsSeq(Tail(v))
    BY <2>1, Tails
  <2>6. IsSeq(c) /\ c # << >> /\ c[1] = "array" /\ Tail(c) = Tail(v)
    BY <2>4, <2>5, Fronts
  <2> HIDE DEF c
  <2>7. VectorsIn(c) = 0
    BY <2>6 DEF VectorsIn
  <2>8. Clears(Tail(c), u, 0, m - 1)
    BY <2>2, <2>3, <2>6
  <2>9. Clears(<<c>>, u, VectorsIn(c) + 0, m - 1 + 1)
    BY <2>6, <2>8, ClearsNode
  <2>10. Clears(<<c>>, u, VectorsIn(c), m)
    BY <2>3, <2>7, <2>9
  <2>11. Parsed(c, "tree", u, m)
    BY <2>6, <2>10 DEF Parsed
  <2> QED BY <2>11 DEF c
<1> QED BY <1>1, <1>2

(* What push_back makes of a vector. *)
LEMMA Extended ==
  ASSUME NEW l, NEW u, NEW m, Parsed(l, "list", u, m),
         NEW v, NEW t, NEW n, Parsed(v, "tree", t, n)
  PROVE  Parsed(Append(l, v), "list", u \o t, m + n)
<1>1. /\ IsSeq(l) /\ l # << >> /\ l[1] = "list" /\ Clears(<<l>>, u, 1, m)
      /\ VectorsIn(l) = 1 /\ m \in Nat /\ n \in Nat
  BY ParsedFacts DEF Parsed, VectorsIn
<1>2. Clears(<<v>>, t, 0, n)
  BY DEF Parsed, VectorsIn
<1>3. Clears(Tail(l), u, 1 - VectorsIn(l), m - 1)
  BY <1>1, ClearsParts
<1>4. Clears(Tail(l), u, 0, m - 1)
  BY <1>1, <1>3
<1>5. IsSeq(Tail(l)) /\ IsSeq(<<v>>) /\ Tail(Append(l, v)) = Append(Tail(l), v)
  BY <1>1, Tails, Single
<1>6. Clears(Tail(l) \o <<v>>, u \o t, 0 + 0, m - 1 + n)
  BY <1>2, <1>4, <1>5, ClearsConcat
<1>7. Append(Tail(l), v) = Tail(l) \o <<v>>
  BY <1>5, Appends
<1> DEFINE z == Append(l, v)
<1>8. IsSeq(z) /\ z # << >> /\ z[1] = "list"
  <2>1. Len(l) \in Nat \ {0}
    BY <1>1, Lengths
  <2>2. 1 \in 1 .. Len(l)
    BY <2>1
  <2> QED BY <1>1, <2>2, Appends
<1>9. Clears(Tail(z), u \o t, 0, m - 1 + n)
  <2>1. Tail(z) = Tail(l) \o <<v>>
    BY <1>5, <1>7
  <2>2. 0 + 0 = 0
    OBVIOUS
  <2> HIDE DEF z
  <2> QED BY <1>6, <2>1, <2>2
<1> HIDE DEF z
<1>10. Clears(<<z>>, u \o t, VectorsIn(z) + 0, m - 1 + n + 1)
  BY <1>8, <1>9, ClearsNode
<1>11. VectorsIn(z) + 0 = VectorsIn(z) /\ m - 1 + n + 1 = m + n
  BY <1>1 DEF VectorsIn
<1>12. Parsed(z, "list", u \o t, m + n)
  BY <1>8, <1>10, <1>11 DEF Parsed
<1> QED BY <1>12 DEF z

(* The name that an expr_name is of. *)
LEMMA NameOf ==
  ASSUME NEW v, NEW k, NEW u, NEW m, Parsed(v, k, u, m), v[1] = "expr_name"
  PROVE  Parsed(v[2], "tree", u, m - 1) /\ m - 1 \in Nat
<1>1. /\ IsSeq(v) /\ v # << >> /\ Len(v) = 2 /\ IsSeq(v[2]) /\ v[2] # << >> /\ v[2][1] = "tok"
      /\ Clears(<<v>>, u, 0, m) /\ VectorsIn(v) = 0 /\ VectorsIn(v[2]) = 0
  BY DEF Parsed, VectorsIn
<1>2. Clears(Tail(v), u, 0 - VectorsIn(v), m - 1)
  BY <1>1, ClearsParts
<1>3. Tail(v) = <<v[2]>>
  <2>1. IsSeq(Tail(v)) /\ Len(Tail(v)) = 1 /\ Tail(v)[1] = v[2]
    <3>1. /\ IsSeq(Tail(v)) /\ Len(Tail(v)) = Len(v) - 1
          /\ \A i \in 1 .. Len(v) - 1 : Tail(v)[i] = v[i + 1]
      BY <1>1, Tails
    <3>2. Len(v) - 1 = 1 /\ 1 \in 1 .. 1 /\ 1 + 1 = 2
      BY <1>1
    <3>3. \A i \in 1 .. 1 : Tail(v)[i] = v[i + 1]
      BY <3>1, <3>2
    <3> QED BY <3>1, <3>2, <3>3
  <2>2. IsSeq(<<v[2]>>) /\ Len(<<v[2]>>) = 1 /\ <<v[2]>>[1] = v[2]
    BY Single
  <2>3. \A i \in 1 .. 1 : Tail(v)[i] = <<v[2]>>[i]
    BY <2>1, <2>2
  <2> QED BY <2>1, <2>2, <2>3, SameSeq
<1>4. Clears(<<v[2]>>, u, VectorsIn(v[2]), m - 1)
  <2>1. 0 - VectorsIn(v) = VectorsIn(v[2])
    BY <1>1
  <2> QED BY <1>2, <1>3, <2>1
<1>5. Parsed(v[2], "tree", u, m - 1)
  BY <1>1, <1>4 DEF Parsed
<1> QED BY <1>5, ParsedFacts

-----------------------------------------------------------------------------
(* What MakeNode does to the values on top.                                *)
Below(x, n) ==
  IF n = 0 THEN x ELSE IF n = 1 THEN x[1] ELSE IF n = 2 THEN x[1][1]
  ELSE IF n = 3 THEN x[1][1][1] ELSE x[1][1][1][1]

(* A constructor may get a vector only as the argument that it copies.     *)
Passes(node, i, k) == k = "list" => node \in DOMAIN Dups /\ i = Dups[node]

Arg(node, i, v) == IF node \in DOMAIN Dups /\ i = Dups[node] THEN Copied(v) ELSE v

(* The last of the n arguments of a node, given their values. *)
Args(node, n, xs) == [i \in 1 .. Len(xs) |-> Arg(node, n - Len(xs) + i, xs[i])]

(* The j values on top of vs can be the last of n arguments of a node.     *)
Above(vs, p, node, n, j, w, q, xs, u, m) ==
  /\ IsSeq(w) /\ IsSeq(xs) /\ Len(xs) = j /\ vs = w \o xs
  /\ Stacked(w, q) /\ q.types = Below(p.types, j) /\ p.seen = q.seen \o u /\ p.size = q.size + m
  /\ Clears(Args(node, n, xs), u, 0, m)

Taken(vs, p, node, n, j) == \E w, q, xs, u, m : Above(vs, p, node, n, j, w, q, xs, u, m)

LEMMA Passed ==
  ASSUME NEW v, NEW k, NEW u, NEW m, Parsed(v, k, u, m), NEW node, NEW i, Passes(node, i, k)
  PROVE  Parsed(Arg(node, i, v), "tree", u, m)
<1>1. CASE node \in DOMAIN Dups /\ i = Dups[node]
  BY <1>1, Copies DEF Arg
<1>2. CASE ~(node \in DOMAIN Dups /\ i = Dups[node])
  <2>1. k # "list" /\ Arg(node, i, v) = v
    BY <1>2 DEF Passes, Arg
  <2> QED BY <2>1, Trees
<1> QED BY <1>1, <1>2

LEMMA ArgsSeq ==
  ASSUME NEW node, NEW n, NEW xs, IsSeq(xs)
  PROVE  /\ IsSeq(Args(node, n, xs)) /\ Len(Args(node, n, xs)) = Len(xs)
         /\ \A i \in 1 .. Len(xs) : Args(node, n, xs)[i] = Arg(node, n - Len(xs) + i, xs[i])
<1>1. PICK l \in Nat : l = Len(xs)
  BY Lengths
<1> DEFINE z == [i \in 1 .. l |-> Arg(node, n - l + i, xs[i])]
<1>2. PICK S : S = {Arg(node, n - l + i, xs[i]) : i \in 1 .. l}
  OBVIOUS
<1>3. \A i \in 1 .. l : z[i] \in S
  BY <1>2
<1>4. DOMAIN z = 1 .. l /\ z = [i \in 1 .. l |-> z[i]]
  OBVIOUS
<1>5. \A i \in 1 .. l : z[i] = Arg(node, n - l + i, xs[i])
  OBVIOUS
<1> HIDE DEF z
<1>6. z \in Seq(S) /\ Len(z) = l
  <2>1. z \in [1 .. l -> S]
    BY <1>3, <1>4
  <2>2. z \in Seq(S)
    BY <1>1, <2>1, SeqDef
  <2>3. Len(z) \in Nat /\ DOMAIN z = 1 .. Len(z)
    BY <2>2, LenProperties
  <2>4. \A a, b \in Nat : 1 .. a = 1 .. b => a = b
    OBVIOUS
  <2>5. Len(z) = l
    BY <1>4, <2>3, <2>4
  <2> QED BY <2>2, <2>5
<1>7. z = Args(node, n, xs)
  BY <1>1 DEF Args, z
<1> QED BY <1>1, <1>5, <1>6, <1>7 DEF IsSeq

LEMMA TakeNone ==
  ASSUME NEW vs, NEW p, Stacked(vs, p), NEW node, NEW n
  PROVE  Taken(vs, p, node, n, 0)
<1>1. IsSeq(vs) /\ IsSeq(p.seen) /\ p.size \in Nat
  BY StackedFacts
<1>2. IsSeq(<< >>) /\ Len(<< >>) = 0 /\ vs = vs \o << >> /\ p.seen = p.seen \o << >>
      /\ p.size = p.size + 0
  BY <1>1, EmptyIsSeq, Concats
<1>3. Args(node, n, << >>) = << >>
  BY <1>2, ArgsSeq, Lengths
<1>4. Clears(Args(node, n, << >>), << >>, 0, 0)
  BY <1>3, ClearsNothing
<1>5. p.types = Below(p.types, 0)
  BY DEF Below
<1>6. Above(vs, p, node, n, 0, vs, p, << >>, << >>, 0)
  BY <1>1, <1>2, <1>4, <1>5 DEF Above
<1> QED BY <1>6 DEF Taken

LEMMA TakeMore ==
  ASSUME NEW vs, NEW p, NEW node, NEW n \in Nat, NEW j \in Nat, Taken(vs, p, node, n, j),
         NEW k, Below(p.types, j) = Over(Below(p.types, j + 1), k), Passes(node, n - j, k)
  PROVE  Taken(vs, p, node, n, j + 1)
<1>1. PICK w, q, xs, u, m : Above(vs, p, node, n, j, w, q, xs, u, m)
  BY DEF Taken
<1>2. q.types = Over(Below(p.types, j + 1), k) /\ Stacked(w, q)
  BY <1>1 DEF Above
<1>3a. PICK w1, v, q1, u1, m1 : Top(w, q, k, w1, v, q1, u1, m1)
  BY <1>2, StackedPop
<1>3. /\ w = Append(w1, v) /\ Stacked(w1, q1) /\ q1.types = Below(p.types, j + 1)
      /\ Parsed(v, k, u1, m1) /\ q.seen = q1.seen \o u1 /\ q.size = q1.size + m1
  BY <1>2, <1>3a DEF Top, Over
<1>3b. PICK one : one = <<v>>
  OBVIOUS
<1> DEFINE bs == one \o xs
<1>4. /\ IsSeq(w1) /\ IsSeq(q1.seen) /\ q1.size \in Nat /\ IsSeq(u1) /\ m1 \in Nat
      /\ IsSeq(u) /\ m \in Nat /\ IsSeq(xs) /\ Len(xs) = j /\ IsSeq(one)
  BY <1>3b, <1>1, <1>3, StackedFacts, ParsedFacts, Single DEF Above, Clears
<1>5. IsSeq(bs) /\ Len(bs) = j + 1 /\ bs[1] = v /\ \A i \in 1 .. j : bs[i + 1] = xs[i]
  <2>1. IsSeq(xs)
    BY <1>4
  <2>2. /\ IsSeq(<<v>> \o xs) /\ Len(<<v>> \o xs) = Len(xs) + 1 /\ (<<v>> \o xs)[1] = v
        /\ \A i \in 1 .. Len(xs) : (<<v>> \o xs)[i + 1] = xs[i]
    BY <2>1, Fronts
  <2> QED BY <1>3b, <1>4, <2>2
<1>6. vs = w1 \o bs
  <2>1. vs = w \o xs /\ w = w1 \o one
    BY <1>3b, <1>1, <1>3, <1>4, Appends DEF Above
  <2>2. (w1 \o one) \o xs = w1 \o (one \o xs)
    <3>1. AreSeqs(w1, one, xs)
      BY <1>4 DEF AreSeqs
    <3> QED BY <3>1, ConcatAssoc
  <2> QED BY <2>1, <2>2
<1>7. p.seen = q1.seen \o (u1 \o u) /\ p.size = q1.size + (m1 + m)
  <2>1. p.seen = (q1.seen \o u1) \o u /\ p.size = q1.size + m1 + m
    BY <1>1, <1>3 DEF Above
  <2>2. (q1.seen \o u1) \o u = q1.seen \o (u1 \o u)
    <3>1. PICK t1 : t1 = q1.seen
      OBVIOUS
    <3>2. AreSeqs(t1, u1, u)
      BY <1>4, <3>1 DEF AreSeqs
    <3>3. (t1 \o u1) \o u = t1 \o (u1 \o u)
      BY <3>2, ConcatAssoc
    <3> QED BY <3>1, <3>3
  <2>3. q1.size + m1 + m = q1.size + (m1 + m)
    BY <1>4
  <2> QED BY <2>1, <2>2, <2>3
<1> HIDE DEF bs
<1> DEFINE a == Arg(node, n - j, v)
           cs == Args(node, n, xs)
           ds == Args(node, n, bs)
<1>8. Clears(<<a>>, u1, 0, m1)
  <2>1. Parsed(a, "tree", u1, m1)
    BY <1>3, Passed
  <2> HIDE DEF a
  <2> QED BY <2>1 DEF Parsed, VectorsIn
<1>9. IsSeq(cs) /\ Len(cs) = j /\ \A i \in 1 .. j : cs[i] = Arg(node, n - j + i, xs[i])
  <2>1. IsSeq(cs) /\ Len(cs) = Len(xs)
        /\ \A i \in 1 .. Len(xs) : cs[i] = Arg(node, n - Len(xs) + i, xs[i])
    <3>1. IsSeq(xs)
      BY <1>4
    <3> QED BY <3>1, ArgsSeq
  <2> HIDE DEF cs
  <2> QED BY <1>4, <2>1
<1>10. IsSeq(ds) /\ Len(ds) = j + 1 /\ \A i \in 1 .. j + 1 : ds[i] = Arg(node, n - (j + 1) + i, bs[i])
  <2>1. IsSeq(ds) /\ Len(ds) = Len(bs)
        /\ \A i \in 1 .. Len(bs) : ds[i] = Arg(node, n - Len(bs) + i, bs[i])
    <3>1. IsSeq(bs)
      BY <1>5
    <3> QED BY <3>1, ArgsSeq
  <2> HIDE DEF ds
  <2> QED BY <1>5, <2>1
<1>11. Clears(cs, u, 0, m)
  BY <1>1 DEF Above
<1>12. ds = <<a>> \o cs
  <2>1. ds[1] = a
    <3>1. 1 \in 1 .. j + 1 /\ n - (j + 1) + 1 = n - j
      OBVIOUS
    <3> QED BY <1>5, <1>10, <3>1
  <2>2. \A i \in 1 .. j : ds[i + 1] = cs[i]
    <3> TAKE i \in 1 .. j
    <3>1. i + 1 \in 1 .. j + 1 /\ n - (j + 1) + (i + 1) = n - j + i
      OBVIOUS
    <3> HIDE DEF cs, ds
    <3> QED BY <1>5, <1>9, <1>10, <3>1
  <2> HIDE DEF a, cs, ds
  <2>3. /\ IsSeq(<<a>> \o cs) /\ Len(<<a>> \o cs) = j + 1 /\ (<<a>> \o cs)[1] = a
        /\ \A i \in 1 .. j : (<<a>> \o cs)[i + 1] = cs[i]
    <3>1. /\ IsSeq(<<a>> \o cs) /\ Len(<<a>> \o cs) = Len(cs) + 1 /\ (<<a>> \o cs)[1] = a
          /\ \A i \in 1 .. Len(cs) : (<<a>> \o cs)[i + 1] = cs[i]
      <4>1. IsSeq(cs)
        BY <1>9
      <4> QED BY <4>1, Fronts
    <3> QED BY <1>9, <3>1
  <2>4. \A i \in 1 .. j + 1 : ds[i] = (<<a>> \o cs)[i]
    <3> TAKE i \in 1 .. j + 1
    <3>1. i = 1 \/ (i - 1 \in 1 .. j /\ (i - 1) + 1 = i)
      OBVIOUS
    <3> QED BY <2>1, <2>2, <2>3, <3>1
  <2> QED BY <1>10, <2>3, <2>4, SameSeq
<1> HIDE DEF a, cs
<1>13. Clears(ds, u1 \o u, 0, m1 + m)
  <2>1. Clears(<<a>> \o cs, u1 \o u, 0 + 0, m1 + m)
    BY <1>8, <1>9, <1>11, Single, ClearsConcat
  <2> HIDE DEF ds
  <2> QED BY <1>12, <2>1
<1>14. Above(vs, p, node, n, j + 1, w1, q1, bs, u1 \o u, m1 + m)
  BY <1>3, <1>4, <1>5, <1>6, <1>7, <1>13 DEF Above
<1> QED BY <1>14 DEF Taken

LEMMA Splits ==
  ASSUME NEW s, NEW t, IsSeq(s), IsSeq(t)
  PROVE  /\ SubSeq(s \o t, 1, Len(s)) = s
         /\ SubSeq(s \o t, Len(s) + 1, Len(s \o t)) = t
<1>1. PICK S : s \in Seq(S)
  BY DEF IsSeq
<1>2. PICK T : t \in Seq(T)
  BY DEF IsSeq
<1>3. s \in Seq(S \union T) /\ t \in Seq(S \union T)
  BY <1>1, <1>2
<1> QED BY <1>3

(* The arguments that a node is made of. *)
Kinds(x, node, n) ==
  /\ n \in 0 .. 4 /\ node \notin {"tok", "list"}
  /\ \A i \in 0 .. n - 1 :
       \E k : Below(x, i) = Over(Below(x, i + 1), k) /\ Passes(node, n - i, k)
  /\ node = "expr_name" => n = 1 /\ x = Over(x[1], "tok")

LEMMA TakeAll ==
  ASSUME NEW vs, NEW p, Stacked(vs, p), NEW node, NEW n, Kinds(p.types, node, n)
  PROVE  Taken(vs, p, node, n, n)
<1>1. n \in Nat /\ n \in 0 .. 4
  BY DEF Kinds
<1>2. \A j \in 0 .. 3 : j < n /\ Taken(vs, p, node, n, j) => Taken(vs, p, node, n, j + 1)
  <2> TAKE j \in 0 .. 3
  <2> SUFFICES ASSUME j < n, Taken(vs, p, node, n, j) PROVE Taken(vs, p, node, n, j + 1)
    OBVIOUS
  <2>1. j \in 0 .. n - 1 /\ j \in Nat
    BY <1>1
  <2>2. PICK k : Below(p.types, j) = Over(Below(p.types, j + 1), k) /\ Passes(node, n - j, k)
    BY <2>1 DEF Kinds
  <2> QED BY <1>1, <2>1, <2>2, TakeMore
<1>3. Taken(vs, p, node, n, 0)
  BY TakeNone
<1>4. n >= 1 => Taken(vs, p, node, n, 1)
  BY <1>1, <1>2, <1>3
<1>5. n >= 2 => Taken(vs, p, node, n, 2)
  BY <1>1, <1>2, <1>4
<1>6. n >= 3 => Taken(vs, p, node, n, 3)
  BY <1>1, <1>2, <1>5
<1>7. n >= 4 => Taken(vs, p, node, n, 4)
  BY <1>1, <1>2, <1>6
<1> QED BY <1>1, <1>3, <1>4, <1>5, <1>6, <1>7

LEMMA Makes ==
  ASSUME NEW p, Stacked(vals, p), NEW node, NEW n, Kinds(p.types, node, n),
         MakeNode, Head(todo)[2] = node, Head(todo)[3] = n
  PROVE  Stacked(vals', [types |-> Over(Below(p.types, n), "tree"), seen |-> p.seen, size |-> p.size + 1])
<1>1. PICK w, q, xs, u, m : Above(vals, p, node, n, n, w, q, xs, u, m)
  BY TakeAll DEF Taken
<1>2. /\ IsSeq(w) /\ IsSeq(xs) /\ Len(xs) = n /\ vals = w \o xs /\ n \in Nat /\ Len(w) \in Nat
      /\ Len(vals) = Len(w) + n /\ IsSeq(vals) /\ node \notin {"tok", "list"}
  BY <1>1, Lengths, Concats DEF Above, Kinds
<1>3. SubSeq(vals, 1, Len(w)) = w /\ SubSeq(vals, Len(w) + 1, Len(vals)) = xs
  BY <1>2, Splits
<1> DEFINE cs == Args(node, n, xs)
           v  == <<node>> \o cs
<1>4. vals' = Append(w, v)
  <2>1. Head(todo)[2] = node /\ Head(todo)[3] = n
    OBVIOUS
  <2>2. Len(vals) - n = Len(w)
    BY <1>2
  <2>3. vals' = Append(w, <<node>> \o [i \in DOMAIN xs |->
                     IF node \in DOMAIN Dups /\ i = Dups[node] THEN Copied(xs[i]) ELSE xs[i]])
    BY <1>3, <2>1, <2>2 DEF MakeNode
  <2>4. DOMAIN xs = 1 .. Len(xs) /\ \A i \in 1 .. Len(xs) : n - Len(xs) + i = i
    BY <1>2, Lengths
  <2>5. cs = [i \in DOMAIN xs |-> IF node \in DOMAIN Dups /\ i = Dups[node] THEN Copied(xs[i]) ELSE xs[i]]
    BY <2>4 DEF Args, Arg
  <2> QED BY <2>3, <2>5
<1>5. IsSeq(cs) /\ Len(cs) = n /\ \A i \in 1 .. n : cs[i] = Arg(node, n - n + i, xs[i])
  <2>1. IsSeq(cs) /\ Len(cs) = Len(xs)
        /\ \A i \in 1 .. Len(xs) : cs[i] = Arg(node, n - Len(xs) + i, xs[i])
    <3>1. IsSeq(xs)
      BY <1>2
    <3> QED BY <3>1, ArgsSeq
  <2> HIDE DEF cs
  <2> QED BY <1>2, <2>1
<1>6. Clears(cs, u, 0, m) /\ IsSeq(u) /\ m \in Nat
  BY <1>1 DEF Above, Clears
<1> HIDE DEF cs
<1>7. IsSeq(v) /\ v # << >> /\ v[1] = node /\ Tail(v) = cs /\ Len(v) = n + 1
      /\ \A i \in 1 .. n : v[i + 1] = cs[i]
  <2>1. IsSeq(v) /\ v # << >> /\ v[1] = node /\ Tail(v) = cs /\ Len(v) = Len(cs) + 1
        /\ \A i \in 1 .. Len(cs) : v[i + 1] = cs[i]
    <3>1. IsSeq(cs)
      BY <1>5
    <3> QED BY <3>1, Fronts
  <2> HIDE DEF v
  <2> QED BY <1>5, <2>1
<1> HIDE DEF v
<1>8. Clears(<<v>>, u, VectorsIn(v), m + 1)
  <2>1. Clears(<<v>>, u, VectorsIn(v) + 0, m + 1)
    BY <1>2, <1>6, <1>7, ClearsNode
  <2>2. VectorsIn(v) + 0 = VectorsIn(v)
    BY DEF VectorsIn
  <2> QED BY <2>1, <2>2
<1>9. node = "expr_name" => Len(v) = 2 /\ IsSeq(v[2]) /\ v[2] # << >> /\ v[2][1] = "tok"
  <2> SUFFICES ASSUME node = "expr_name"
                      PROVE Len(v) = 2 /\ IsSeq(v[2]) /\ v[2] # << >> /\ v[2][1] = "tok"
    OBVIOUS
  <2>1. n = 1 /\ p.types = Over(p.types[1], "tok")
    BY DEF Kinds
  <2>2. PICK w1, a, q1, u1, m1 : Top(vals, p, "tok", w1, a, q1, u1, m1)
    BY <2>1, StackedPop
  <2>3. IsSeq(a) /\ a # << >> /\ a[1] = "tok" /\ vals = Append(w1, a) /\ Stacked(w1, q1)
    BY <2>2 DEF Parsed, Top
  <2>4. vals[Len(vals)] = a
    <3>1. IsSeq(w1)
      BY <2>3, StackedFacts
    <3> QED BY <2>3, <3>1, Appends
  <2>5. vals[Len(w) + 1] = xs[1] /\ Len(w) + 1 = Len(vals)
    <3>1. \A i \in 1 .. Len(xs) : (w \o xs)[Len(w) + i] = xs[i]
      BY <1>2, Concats
    <3>2. 1 \in 1 .. Len(xs) /\ Len(w) + 1 = Len(vals)
      BY <1>2, <2>1
    <3> QED BY <1>2, <3>1, <3>2
  <2>6. v[2] = xs[1]
    <3>1. 1 \in 1 .. n /\ 1 + 1 = 2 /\ n - n + 1 = 1
      BY <2>1
    <3>2. v[2] = Arg(node, 1, xs[1])
      <4>1. v[1 + 1] = cs[1] /\ cs[1] = Arg(node, n - n + 1, xs[1])
        BY <1>5, <1>7, <3>1
      <4> QED BY <3>1, <4>1
    <3> QED BY <3>2 DEF Arg, Dups
  <2>7. v[2] = a
    BY <2>4, <2>5, <2>6
  <2>8. Len(v) = 2
    BY <1>7, <2>1
  <2> QED BY <2>3, <2>7, <2>8
<1>10. Parsed(v, "tree", u, m + 1)
  BY <1>2, <1>7, <1>8, <1>9 DEF Parsed
<1>11. Stacked(w, q) /\ q.types = Below(p.types, n) /\ p.seen = q.seen \o u /\ p.size = q.size + m
  BY <1>1 DEF Above
<1>12. Stacked(Append(w, v),
       [types |-> Over(q.types, "tree"), seen |-> q.seen \o u, size |-> q.size + (m + 1)])
  BY <1>10, <1>11, StackedPush
<1>13. q.size + (m + 1) = p.size + 1
  BY <1>6, <1>11, StackedFacts
<1> QED BY <1>4, <1>11, <1>12, <1>13

-----------------------------------------------------------------------------
(* What the other idioms do to vals. *)
Stack(x, s, n) == [types |-> x, seen |-> s, size |-> n]

LEMMA StackParts ==
  \A x, s, n : Stack(x, s, n).types = x /\ Stack(x, s, n).seen = s /\ Stack(x, s, n).size = n
BY DEF Stack

LEMMA TopFacts ==
  ASSUME NEW vs, NEW p, NEW k, NEW w, NEW v, NEW q, NEW u, NEW m, Top(vs, p, k, w, v, q, u, m)
  PROVE  /\ IsSeq(w) /\ Len(w) \in Nat /\ Len(vs) = Len(w) + 1 /\ vs[Len(vs)] = v
            /\ SubSeq(vs, 1, Len(w)) = w
         /\ q.size \in Nat /\ m \in Nat /\ p.size = q.size + m
<1>1. IsSeq(w) /\ q.size \in Nat /\ m \in Nat
  BY StackedFacts, ParsedFacts DEF Top
<1>2. vs = Append(w, v) /\ p.size = q.size + m
  BY DEF Top
<1>3. Len(w) \in Nat
  BY <1>1, Lengths
<1>4. /\ Len(Append(w, v)) = Len(w) + 1 /\ Append(w, v)[Len(w) + 1] = v
      /\ SubSeq(Append(w, v), 1, Len(w)) = w
  BY <1>1, Appends
<1> QED BY <1>1, <1>2, <1>3, <1>4

(* The value on top replaced by one that keeps the same tokens.            *)
LEMMA Swaps ==
  ASSUME NEW vs, NEW p, NEW k, NEW w, NEW v, NEW q, NEW u, NEW m, Top(vs, p, k, w, v, q, u, m),
         NEW c, NEW l, NEW n, Parsed(c, l, u, n)
  PROVE  Stacked(Append(w, c), Stack(Over(q.types, l), p.seen, q.size + n))
<1>1. Stacked(w, q) /\ p.seen = q.seen \o u
  BY DEF Top
<1>2. Stacked(Append(w, c), [types |-> Over(q.types, l), seen |-> q.seen \o u, size |-> q.size + n])
  BY <1>1, StackedPush
<1> QED BY <1>1, <1>2 DEF Stack

LEMMA PushesBack ==
  ASSUME NEW p, Stacked(vals, p), NEW r, p.types = Over(Over(r, "list"), "tree"), vals' = PushedBack
  PROVE  Stacked(vals', Stack(Over(r, "list"), p.seen, p.size))
<1>1. PICK w, v, q, u, m : Top(vals, p, "tree", w, v, q, u, m)
  BY StackedPop
<1>2. Stacked(w, q) /\ q.types = Over(r, "list") /\ Parsed(v, "tree", u, m) /\ p.seen = q.seen \o u
  BY <1>1 DEF Top, Over
<1>3. PICK w1, l, q1, u1, m1 : Top(w, q, "list", w1, l, q1, u1, m1)
  BY <1>2, StackedPop
<1>4. Stacked(w1, q1) /\ q1.types = r /\ Parsed(l, "list", u1, m1) /\ q.seen = q1.seen \o u1
  BY <1>2, <1>3 DEF Top, Over
<1>5. vals' = Append(w1, Append(l, v))
  <2>1. Len(vals) = Len(w) + 1 /\ vals[Len(vals)] = v /\ Len(w) = Len(w1) + 1 /\ w[Len(w)] = l
        /\ SubSeq(w, 1, Len(w1)) = w1 /\ Len(w1) \in Nat /\ Len(w) \in Nat /\ IsSeq(w) /\ IsSeq(w1)
        /\ vals = Append(w, v) /\ w = Append(w1, l)
    <3>1. Len(vals) = Len(w) + 1 /\ vals[Len(vals)] = v /\ Len(w) \in Nat /\ IsSeq(w)
      BY <1>1, TopFacts
    <3>2. Len(w) = Len(w1) + 1 /\ w[Len(w)] = l /\ SubSeq(w, 1, Len(w1)) = w1 /\ Len(w1) \in Nat
          /\ IsSeq(w1)
      BY <1>3, TopFacts
    <3>3. vals = Append(w, v) /\ w = Append(w1, l)
      BY <1>1, <1>3 DEF Top
    <3> QED BY <3>1, <3>2, <3>3
  <2>2. Len(vals) - 2 = Len(w1) /\ Len(vals) - 1 = Len(w) /\ Len(w) \in 1 .. Len(w)
    BY <2>1
  <2>3. vals[Len(vals) - 1] = l
    BY <2>1, <2>2, Appends
  <2>4. SubSeq(vals, 1, Len(vals) - 2) = w1
    <3>1. vals = w1 \o (<<l>> \o <<v>>)
      <4>1. PICK a, b : a = <<l>> /\ b = <<v>>
        OBVIOUS
      <4>2. AreSeqs(w1, a, b)
        BY <2>1, <4>1, Single DEF AreSeqs
      <4>3. vals = w \o b /\ w = w1 \o a
        BY <2>1, <4>1, Appends
      <4>4. (w1 \o a) \o b = w1 \o (a \o b)
        BY <4>2, ConcatAssoc
      <4> QED BY <4>1, <4>3, <4>4
    <3> DEFINE t == <<l>> \o <<v>>
    <3>2. IsSeq(t)
      BY Single, Fronts
    <3>3. vals = w1 \o t
      BY <3>1
    <3> HIDE DEF t
    <3>4. SubSeq(w1 \o t, 1, Len(w1)) = w1
      BY <2>1, <3>2, Splits
    <3> QED BY <2>2, <3>3, <3>4
  <2> QED BY <2>1, <2>3, <2>4 DEF PushedBack, top
<1>6. Parsed(Append(l, v), "list", u1 \o u, m1 + m)
  BY <1>2, <1>4, Extended
<1>7. Stacked(Append(w1, Append(l, v)),
              [types |-> Over(q1.types, "list"), seen |-> q1.seen \o (u1 \o u),
                size |-> q1.size + (m1 + m)])
  BY <1>4, <1>6, StackedPush
<1>8. p.seen = q1.seen \o (u1 \o u)
  <2>1. PICK t1 : t1 = q1.seen
    OBVIOUS
  <2>2. AreSeqs(t1, u1, u)
    BY <1>2, <1>4, <2>1, StackedFacts, ParsedFacts DEF AreSeqs
  <2>3. (t1 \o u1) \o u = t1 \o (u1 \o u)
    BY <2>2, ConcatAssoc
  <2> QED BY <1>2, <1>4, <2>1, <2>3
<1>9. p.size = q1.size + (m1 + m)
  <2>1. /\ q.size = q1.size + m1 /\ p.size = q.size + m
        /\ q1.size \in Nat /\ m1 \in Nat /\ m \in Nat
    BY <1>1, <1>3, TopFacts
  <2> QED BY <2>1
<1> QED BY <1>4, <1>5, <1>7, <1>8, <1>9 DEF Stack

(* The vector on top, or the one below the top, copied. *)
LEMMA DupsTop ==
  ASSUME NEW p, Stacked(vals, p), NEW r, p.types = Over(r, "list"),
         vals' = [vals EXCEPT ![Len(vals)] = Copied(@)]
  PROVE  Stacked(vals', Stack(Over(r, "tree"), p.seen, p.size))
<1>1. PICK w, v, q, u, m : Top(vals, p, "list", w, v, q, u, m)
  BY StackedPop
<1>2. Parsed(v, "list", u, m) /\ q.types = r /\ vals = Append(w, v)
  BY <1>1 DEF Top, Over
<1>3. IsSeq(w) /\ Len(vals) = Len(w) + 1 /\ vals[Len(vals)] = v /\ p.size = q.size + m
  BY <1>1, TopFacts
<1>4. Parsed(Copied(v), "tree", u, m)
  BY <1>2, Copies
<1>5. vals' = Append(w, Copied(v))
  <2>1. [Append(w, v) EXCEPT ![Len(w) + 1] = Copied(v)] = Append(w, Copied(v))
    BY <1>3, Replaced
  <2> QED BY <1>2, <1>3, <2>1
<1>6. Stacked(Append(w, Copied(v)), Stack(Over(q.types, "tree"), p.seen, q.size + m))
  BY <1>1, <1>4, Swaps
<1> QED BY <1>2, <1>3, <1>5, <1>6

(* The value below the top replaced by one that keeps the same tokens.     *)
LEMMA SwapsBelow ==
  ASSUME NEW p, Stacked(vals, p), NEW r, NEW j, NEW k, p.types = Over(Over(r, j), k),
         NEW c, NEW l,
         \A v, u, m : v = vals[Len(vals) - 1] /\ Parsed(v, j, u, m) => Parsed(c, l, u, m)
  PROVE  /\ Len(vals) - 1 \in 1 .. Len(vals)
         /\ Stacked([vals EXCEPT ![Len(vals) - 1] = c], Stack(Over(Over(r, l), k), p.seen, p.size))
<1>1. PICK w, v, q, u, m : Top(vals, p, k, w, v, q, u, m)
  BY StackedPop
<1>2. /\ Stacked(w, q) /\ q.types = Over(r, j) /\ Parsed(v, k, u, m) /\ p.seen = q.seen \o u
      /\ vals = Append(w, v)
  BY <1>1 DEF Top, Over
<1>3. PICK w1, b, q1, u1, m1 : Top(w, q, j, w1, b, q1, u1, m1)
  BY <1>2, StackedPop
<1>4. q1.types = r /\ Parsed(b, j, u1, m1) /\ w = Append(w1, b)
  BY <1>2, <1>3 DEF Top, Over
<1>5. /\ IsSeq(w) /\ Len(vals) = Len(w) + 1 /\ p.size = q.size + m /\ Len(w) \in Nat /\ m \in Nat
      /\ IsSeq(w1) /\ Len(w) = Len(w1) + 1 /\ w[Len(w)] = b /\ q.size = q1.size + m1 /\ Len(w1) \in Nat
  BY <1>1, <1>3, TopFacts
<1>6. Len(vals) - 1 = Len(w) /\ Len(w) \in 1 .. Len(w) /\ Len(vals) - 1 \in 1 .. Len(vals)
  BY <1>5
<1>7. vals[Len(vals) - 1] = b
  BY <1>2, <1>5, <1>6, Appends
<1>8. Parsed(c, l, u1, m1)
  BY <1>4, <1>7
<1>9. Stacked(Append(w1, c), Stack(Over(r, l), q.seen, q.size))
  <2>1. Stacked(Append(w1, c), Stack(Over(q1.types, l), q.seen, q1.size + m1))
    BY <1>3, <1>8, Swaps
  <2> QED BY <1>4, <1>5, <2>1
<1>10. Stacked(Append(Append(w1, c), v), Stack(Over(Over(r, l), k), p.seen, p.size))
  <2> DEFINE s == Stack(Over(r, l), q.seen, q.size)
  <2>1. Stacked(Append(Append(w1, c), v),
        [types |-> Over(s.types, k), seen |-> s.seen \o u, size |-> s.size + m])
    BY <1>2, <1>9, StackedPush
  <2>2. s.types = Over(r, l) /\ s.seen = q.seen /\ s.size = q.size
    BY StackParts
  <2> HIDE DEF s
  <2> QED BY <1>2, <1>5, <2>1, <2>2 DEF Stack
<1>11. [vals EXCEPT ![Len(vals) - 1] = c] = Append(Append(w1, c), v)
  <2>1. [Append(Append(w1, b), v) EXCEPT ![Len(w1) + 1] = c] = Append(Append(w1, c), v)
    BY <1>5, Replaced
  <2>2. vals = Append(Append(w1, b), v) /\ Len(vals) - 1 = Len(w1) + 1
    BY <1>2, <1>4, <1>5, <1>6
  <2> QED BY <2>1, <2>2
<1> QED BY <1>6, <1>10, <1>11

(* A name in place of the expr_name of it. *)
LEMMA NamesTop ==
  ASSUME NEW p, Stacked(vals, p), NEW r, p.types = Over(r, "tree"), top[1] = "expr_name",
         vals' = [vals EXCEPT ![Len(vals)] = top[2]]
  PROVE  p.size - 1 \in Nat /\ Stacked(vals', Stack(p.types, p.seen, p.size - 1))
<1>1. PICK w, v, q, u, m : Top(vals, p, "tree", w, v, q, u, m)
  BY StackedPop
<1>2. Parsed(v, "tree", u, m) /\ q.types = r /\ vals = Append(w, v)
  BY <1>1 DEF Top, Over
<1>3. /\ IsSeq(w) /\ Len(vals) = Len(w) + 1 /\ vals[Len(vals)] = v /\ p.size = q.size + m
      /\ q.size \in Nat
  BY <1>1, TopFacts
<1>4. Parsed(v[2], "tree", u, m - 1) /\ m - 1 \in Nat
  <2>1. v[1] = "expr_name"
    BY <1>3 DEF top
  <2> QED BY <1>2, <2>1, NameOf
<1>5. vals' = Append(w, v[2])
  <2>1. PICK c : c = v[2]
    OBVIOUS
  <2>2. [Append(w, v) EXCEPT ![Len(w) + 1] = c] = Append(w, c)
    BY <1>3, Replaced
  <2>3. top[2] = c
    BY <1>3, <2>1 DEF top
  <2> QED BY <1>2, <1>3, <2>1, <2>2, <2>3
<1>6. Stacked(Append(w, v[2]), Stack(Over(q.types, "tree"), p.seen, q.size + (m - 1)))
  BY <1>1, <1>4, Swaps
<1>7. q.size + (m - 1) = p.size - 1 /\ p.size - 1 \in Nat
  <2>1. m \in Nat
    BY <1>1, TopFacts
  <2> QED BY <1>3, <1>4, <2>1
<1> QED BY <1>2, <1>5, <1>6, <1>7

-----------------------------------------------------------------------------
(* The items of todo.  An item finds values of some kinds on top and       *)
(* leaves others in their place.  Its cost is how many values it may add,  *)
(* less four for each token it is sure to take.                            *)
Functions ==
  {"parse_type_func", "parse_type_base", "parse_type", "parse_expr_operand", "parse_expr_base",
   "parse_expr_unary", "parse_expr_mul", "parse_expr_add", "parse_expr_cmp", "parse_expr_and",
   "parse_expr_or", "parse_expr_ternary", "parse_expr", "parse_paren_expr", "parse_name",
   "parse_decl_enum_item", "parse_decl_enum", "parse_decl_aggregate_item", "parse_decl_aggregate",
   "parse_decl_var", "parse_decl_const", "parse_decl_typedef", "parse_stmt_if", "parse_stmt_while",
   "parse_stmt_do_while", "parse_simple_stmt", "parse_stmt_for", "parse_stmt_switch_case",
   "parse_stmt_switch", "parse_stmt", "parse_stmt_block", "parse_decl_func_param",
   "parse_decl_func", "parse_decl_opt", "parse_decl"}

(* The functions that no idiom calls; they find a value on top.            *)
Inner == {"parse_expr_compound", "fatal"}

(* Those an idiom may call: parse_stmt_if is called after its keyword.     *)
Plain == Functions \ {"parse_stmt_if"}

(* How many locals the rest of a call finds on vals, and their kinds.      *)
LocalsAt(f, label) ==
  IF f \in Inner THEN 1
  ELSE IF f = "parse_stmt_if" /\ label \in {"loop", "else"} THEN 3
  ELSE IF label = "labels" THEN 2
  ELSE IF label \in {"loop", "name", "question", "while", "expr", "next"} THEN 1
  ELSE 0

Before(x, f, label) ==
  CASE LocalsAt(f, label) = 0 -> x
    [] LocalsAt(f, label) = 1 -> Over(x, IF f = "parse_expr_operand" THEN "tok" ELSE "tree")
    [] LocalsAt(f, label) = 2 -> Over(Over(x, "flag"), "list")
    [] LocalsAt(f, label) = 3 -> Over(Over(Over(x, "tree"), "tree"), "list")

KindOf(v) == IF v = Empty THEN "list" ELSE IF v = <<"false">> THEN "flag" ELSE "tree"

(* What tells a token apart but is not kept. *)
Mark(kind) == kind \notin Carried \union {"EOF"}

Ready(x, it) ==
  \/ it[1] = "Expect" /\ Mark(it[2])
  \/ it[1] = "Make" /\ Kinds(x, it[2], it[3])
  \/ it[1] = "Push" /\ it[2] \in {Null, Empty, EmptyBlock, <<"false">>}
  \/ it[1] = "PushBack" /\ \E y : x = Over(Over(y, "list"), "tree")
  \/ it[1] = "ast_dup" /\ it[2] = 0 /\ \E y : x = Over(y, "list")
  \/ it[1] = "ast_dup" /\ it[2] = 1 /\ \E y, k : x = Over(Over(y, "list"), k)
  \/ it[1] = "Unless" /\ it[3] \in Plain
  \/ it[1] = "IfMatch" /\ it[3] \in Plain /\ Mark(it[2])
  \/ it[1] = "List" /\ it[2] \in Plain
  \/ it[1] = "More" /\ it[2] \in Plain /\ \E y : x = Over(Over(y, "list"), "tree")
  \/ it[1] = "Each" /\ it[2] \in Plain /\ \E y : x = Over(y, "list")
  \/ it[1] \in Functions \union Inner /\ \E y : x = Before(y, it[1], it[2])

Copying(x, n) == IF n = 0 THEN Over(x[1], "tree") ELSE Over(Over(x[1][1], "tree"), x[2])

After(x, it) ==
  IF it[1] \in {"Expect", "Each"} THEN x
  ELSE IF it[1] = "Make" THEN Over(Below(x, it[3]), "tree")
  ELSE IF it[1] = "Push" THEN Over(x, KindOf(it[2]))
  ELSE IF it[1] \in {"PushBack", "More"} THEN Below(x, 1)
  ELSE IF it[1] = "ast_dup" THEN Copying(x, it[2])
  ELSE IF it[1] \in {"Unless", "IfMatch"} THEN Over(x, "tree")
  ELSE IF it[1] = "List" THEN Over(x, "list")
  ELSE Over(Below(x, LocalsAt(it[1], it[2])), "tree")

CallCost(f) ==
  IF f \in {"parse_expr", "parse_expr_ternary", "parse_expr_or", "parse_expr_and", "parse_expr_cmp",
            "parse_expr_add", "parse_expr_mul", "parse_expr_unary", "parse_expr_base",
            "parse_expr_operand", "parse_type", "parse_type_base"} THEN -2
  ELSE IF f \in {"parse_expr_compound", "parse_name"} THEN -3
  ELSE IF f \in {"parse_decl_opt", "parse_stmt_block"} THEN -1
  ELSE IF f = "parse_stmt_if" THEN 3
  ELSE 0

RestCost(f, label) ==
  IF f = "parse_stmt_if" THEN (IF label = "loop" THEN 2 ELSE 1)
  ELSE IF label = "labels" THEN -2
  ELSE IF label = "expr" \/ (f = "parse_expr_operand" /\ label = "name") THEN 1
  ELSE 0

Cost(it) ==
  IF it[1] = "Expect" THEN -4
  ELSE IF it[1] \in {"Make", "Push", "Unless", "IfMatch", "List"} THEN 1
  ELSE IF it[1] \in {"PushBack", "More", "ast_dup", "Each"} THEN 0
  ELSE IF it[2] = "begin" THEN CallCost(it[1])
  ELSE RestCost(it[1], it[2])

LEMMA CostInt == \A it : Cost(it) \in Int
<1>1. \A f, l : CallCost(f) \in Int /\ RestCost(f, l) \in Int
  BY DEF CallCost, RestCost
<1> HIDE DEF CallCost, RestCost
<1> QED BY <1>1 DEF Cost

(* The items of s can be done one after the other, on kinds h[i] before    *)
(* the i-th, at a cost of g[i] so far.                                     *)
Course(s, x, y, n, h, g) ==
  /\ h[1] = x /\ h[Len(s) + 1] = y /\ g[1] = 0 /\ g[Len(s) + 1] <= n
  /\ \A i \in 1 .. Len(s) + 1 : g[i] \in Int
  /\ \A i \in 1 .. Len(s) :
       Ready(h[i], s[i]) /\ h[i + 1] = After(h[i], s[i]) /\ g[i + 1] = g[i] + Cost(s[i])

(* They lead from kinds x to kinds y and cost n at most. *)
Runs(s, x, y, n) == IsSeq(s) /\ n \in Int /\ \E h, g : Course(s, x, y, n, h, g)

LEMMA RunsEmpty == \A x : \A n \in Nat : Runs(<< >>, x, x, n)
<1> SUFFICES ASSUME NEW x, NEW n \in Nat PROVE Runs(<< >>, x, x, n)
  OBVIOUS
<1>1. Course(<< >>, x, x, n, [i \in 1 .. 1 |-> x], [i \in 1 .. 1 |-> 0])
  BY EmptyIsSeq DEF Course
<1> QED BY <1>1, EmptyIsSeq DEF Runs

LEMMA RunsNothing == \A x, y, n : Runs(<< >>, x, y, n) => x = y /\ n \in Nat
BY EmptyIsSeq DEF Runs, Course

LEMMA RunsMore ==
  ASSUME NEW s, NEW x, NEW y, NEW n, NEW m \in Int, Runs(s, x, y, n), n <= m
  PROVE  Runs(s, x, y, m)
<1>1. PICK h, g : Course(s, x, y, n, h, g)
  BY DEF Runs
<1>2. Len(s) + 1 \in 1 .. Len(s) + 1 /\ n \in Int
  BY Lengths DEF Runs
<1>3. Course(s, x, y, m, h, g)
  BY <1>1, <1>2 DEF Course
<1> QED BY <1>3 DEF Runs

LEMMA RunsHead ==
  ASSUME NEW s, NEW x, NEW y, NEW n, Runs(s, x, y, n), s # << >>
  PROVE  Ready(x, Head(s)) /\ Runs(Tail(s), After(x, Head(s)), y, n - Cost(Head(s)))
<1>1. PICK h, g : Course(s, x, y, n, h, g)
  BY DEF Runs
<1>2. /\ IsSeq(s) /\ n \in Int /\ IsSeq(Tail(s)) /\ Len(Tail(s)) = Len(s) - 1 /\ Head(s) = s[1]
      /\ \A i \in 1 .. Len(s) - 1 : Tail(s)[i] = s[i + 1]
  BY Tails DEF Runs
<1>3. Len(s) \in Nat \ {0}
  BY <1>2, Lengths
<1>4. /\ Ready(x, s[1]) /\ h[2] = After(x, s[1]) /\ g[2] = Cost(s[1]) /\ Cost(s[1]) \in Int
      /\ \A i \in 1 .. Len(s) + 1 : g[i] \in Int
  <2>1. 1 \in 1 .. Len(s) /\ 1 + 1 = 2
    BY <1>3
  <2>2. Ready(h[1], s[1]) /\ h[1 + 1] = After(h[1], s[1]) /\ g[1 + 1] = g[1] + Cost(s[1]) /\ h[1] = x
        /\ g[1] = 0
        /\ \A i \in 1 .. Len(s) + 1 : g[i] \in Int
    BY <1>1, <2>1 DEF Course
  <2> QED BY <2>1, <2>2, CostInt
<1> DEFINE c == Cost(s[1])
           f == [i \in 1 .. Len(s) |-> h[i + 1]]
           e == [i \in 1 .. Len(s) |-> g[i + 1] - c]
<1>5. f[1] = After(x, s[1]) /\ f[Len(s)] = y /\ e[1] = 0 /\ e[Len(s)] <= n - c
  <2>1. f[1] = h[2] /\ f[Len(s)] = h[Len(s) + 1] /\ e[1] = g[2] - c /\ e[Len(s)] = g[Len(s) + 1] - c
    BY <1>3
  <2>2. h[Len(s) + 1] = y /\ g[Len(s) + 1] <= n /\ g[Len(s) + 1] \in Int
    BY <1>1, <1>3, <1>4 DEF Course
  <2> HIDE DEF f, e
  <2> QED BY <1>2, <1>4, <2>1, <2>2
<1>6. \A i \in 1 .. Len(s) : e[i] \in Int
  BY <1>3, <1>4
<1>7. ASSUME NEW i \in 1 .. Len(s) - 1
      PROVE  /\ Ready(f[i], Tail(s)[i]) /\ f[i + 1] = After(f[i], Tail(s)[i])
             /\ e[i + 1] = e[i] + Cost(Tail(s)[i])
  <2>1. /\ i + 1 \in 1 .. Len(s) /\ (i + 1) + 1 \in 1 .. Len(s) + 1
        /\ f[i] = h[i + 1] /\ f[i + 1] = h[(i + 1) + 1]
        /\ e[i] = g[i + 1] - c /\ e[i + 1] = g[(i + 1) + 1] - c
    BY <1>3
  <2>2. /\ Ready(h[i + 1], s[i + 1]) /\ h[(i + 1) + 1] = After(h[i + 1], s[i + 1])
        /\ g[(i + 1) + 1] = g[i + 1] + Cost(s[i + 1])
    BY <1>1, <2>1 DEF Course
  <2>3. g[i + 1] \in Int /\ Cost(s[i + 1]) \in Int /\ c \in Int /\ Tail(s)[i] = s[i + 1]
    BY <1>2, <1>3, <1>4, CostInt
  <2> HIDE DEF f, e, c
  <2>4. g[(i + 1) + 1] - c = (g[i + 1] - c) + Cost(s[i + 1])
    BY <2>2, <2>3
  <2> QED BY <2>1, <2>2, <2>3, <2>4
<1> HIDE DEF f, e
<1>8. Course(Tail(s), After(x, s[1]), y, n - c, f, e)
  <2>1. Len(Tail(s)) + 1 = Len(s) /\ Len(Tail(s)) = Len(s) - 1
    BY <1>2, <1>3
  <2> QED BY <1>5, <1>6, <1>7, <2>1 DEF Course
<1> QED BY <1>2, <1>4, <1>8 DEF Runs

LEMMA RunsCons ==
  ASSUME NEW s, IsSeq(s), s # << >>, NEW x, NEW y, NEW n, NEW m \in Int,
         Ready(x, Head(s)), Runs(Tail(s), After(x, Head(s)), y, n), Cost(Head(s)) + n <= m
  PROVE  Runs(s, x, y, m)
<1>1. PICK h, g : Course(Tail(s), After(x, Head(s)), y, n, h, g)
  BY DEF Runs
<1>2. /\ n \in Int /\ Len(Tail(s)) = Len(s) - 1 /\ Head(s) = s[1]
      /\ \A i \in 1 .. Len(s) - 1 : Tail(s)[i] = s[i + 1]
  BY Tails DEF Runs
<1>3. Len(s) \in Nat \ {0} /\ Cost(s[1]) \in Int
  BY Lengths, CostInt
<1> DEFINE c == Cost(s[1])
           f == [i \in 1 .. Len(s) + 1 |-> IF i = 1 THEN x ELSE h[i - 1]]
           e == [i \in 1 .. Len(s) + 1 |-> IF i = 1 THEN 0 ELSE g[i - 1] + c]
<1>4. /\ h[1] = After(x, s[1]) /\ h[Len(s)] = y /\ g[1] = 0 /\ g[Len(s)] <= n
      /\ \A i \in 1 .. Len(s) : g[i] \in Int
      /\ \A i \in 1 .. Len(s) - 1 :
           Ready(h[i], s[i + 1]) /\ h[i + 1] = After(h[i], s[i + 1]) /\ g[i + 1] = g[i] + Cost(s[i + 1])
  <2>1. Len(Tail(s)) + 1 = Len(s) /\ Len(Tail(s)) = Len(s) - 1
    BY <1>2, <1>3
  <2> QED BY <1>1, <1>2, <2>1 DEF Course
<1>5. f[1] = x /\ f[Len(s) + 1] = y /\ e[1] = 0 /\ e[Len(s) + 1] <= m
  <2>1. f[1] = x /\ f[Len(s) + 1] = h[Len(s)] /\ e[1] = 0 /\ e[Len(s) + 1] = g[Len(s)] + c
    BY <1>3
  <2>2. g[Len(s)] \in Int /\ c \in Int /\ c + n <= m
    BY <1>2, <1>3, <1>4
  <2> HIDE DEF f, e, c
  <2> QED BY <1>2, <1>4, <2>1, <2>2
<1>6. \A i \in 1 .. Len(s) + 1 : e[i] \in Int
  <2> TAKE i \in 1 .. Len(s) + 1
  <2>1. i = 1 \/ i - 1 \in 1 .. Len(s)
    BY <1>3
  <2> QED BY <1>3, <1>4, <2>1
<1>7. ASSUME NEW i \in 1 .. Len(s)
      PROVE  Ready(f[i], s[i]) /\ f[i + 1] = After(f[i], s[i]) /\ e[i + 1] = e[i] + Cost(s[i])
  <2>1. CASE i = 1
    <3>1. f[1] = x /\ f[1 + 1] = h[1] /\ e[1] = 0 /\ e[1 + 1] = g[1] + c
      BY <1>3
    <3>2. 0 + c = 0 + Cost(s[1])
      OBVIOUS
    <3> HIDE DEF f, e
    <3> QED BY <1>2, <1>4, <2>1, <3>1, <3>2
  <2>2. CASE i # 1
    <3>1. PICK j \in 1 .. Len(s) - 1 : i = j + 1
      <4>1. i - 1 \in 1 .. Len(s) - 1 /\ i = (i - 1) + 1
        BY <1>3, <2>2
      <4> QED BY <4>1
    <3>2. f[j + 1] = h[j] /\ f[(j + 1) + 1] = h[j + 1] /\ e[j + 1] = g[j] + c
          /\ e[(j + 1) + 1] = g[j + 1] + c
      <4>1. j + 1 \in 1 .. Len(s) + 1 /\ (j + 1) + 1 \in 1 .. Len(s) + 1 /\ j + 1 # 1 /\ (j + 1) + 1 # 1
            /\ (j + 1) - 1 = j /\ ((j + 1) + 1) - 1 = j + 1
        BY <1>3
      <4> QED BY <4>1
    <3>3. /\ Ready(h[j], s[j + 1]) /\ h[j + 1] = After(h[j], s[j + 1]) /\ g[j + 1] = g[j] + Cost(s[j + 1])
          /\ g[j] \in Int /\ Cost(s[j + 1]) \in Int /\ c \in Int
      BY <1>3, <1>4, CostInt
    <3> HIDE DEF f, e, c
    <3>4. g[j + 1] + c = (g[j] + c) + Cost(s[j + 1])
      BY <3>3
    <3> QED BY <3>1, <3>2, <3>3, <3>4
  <2> QED BY <2>1, <2>2
<1> HIDE DEF f, e
<1>8. Course(s, x, y, m, f, e)
  BY <1>5, <1>6, <1>7 DEF Course
<1> QED BY <1>8 DEF Runs

LEMMA RunsConcat ==
  ASSUME NEW s, NEW t, NEW x, NEW y, NEW z, NEW n, NEW m, Runs(s, x, y, n), Runs(t, y, z, m)
  PROVE  Runs(s \o t, x, z, n + m)
<1>1. PICK h, g : Course(s, x, y, n, h, g)
  BY DEF Runs
<1>2. PICK k, l : Course(t, y, z, m, k, l)
  BY DEF Runs
<1>3. IsSeq(s) /\ IsSeq(t) /\ n \in Int /\ m \in Int /\ Len(s) \in Nat /\ Len(t) \in Nat
  BY Lengths DEF Runs
<1> DEFINE r == s \o t
           c == g[Len(s) + 1]
           f == [i \in 1 .. Len(s) + Len(t) + 1 |-> IF i <= Len(s) THEN h[i] ELSE k[i - Len(s)]]
           e == [i \in 1 .. Len(s) + Len(t) + 1 |-> IF i <= Len(s) THEN g[i] ELSE l[i - Len(s)] + c]
<1>4. /\ IsSeq(r) /\ Len(r) = Len(s) + Len(t) /\ \A i \in 1 .. Len(s) : r[i] = s[i]
      /\ \A i \in 1 .. Len(t) : r[Len(s) + i] = t[i]
  BY <1>3, Concats
<1>5. /\ h[1] = x /\ h[Len(s) + 1] = y /\ g[1] = 0 /\ c <= n /\ c \in Int
      /\ k[1] = y /\ k[Len(t) + 1] = z /\ l[1] = 0 /\ l[Len(t) + 1] <= m
      /\ \A i \in 1 .. Len(s) + 1 : g[i] \in Int
      /\ \A i \in 1 .. Len(t) + 1 : l[i] \in Int
  BY <1>1, <1>2, <1>3 DEF Course
<1> HIDE DEF r, c
<1>6. \A i \in 1 .. Len(s) : f[i] = h[i] /\ e[i] = g[i]
  BY <1>3
<1>7. \A i \in 1 .. Len(t) + 1 : f[Len(s) + i] = k[i] /\ e[Len(s) + i] = l[i] + c
  <2> TAKE i \in 1 .. Len(t) + 1
  <2>1. Len(s) + i \in 1 .. Len(s) + Len(t) + 1 /\ ~(Len(s) + i <= Len(s)) /\ (Len(s) + i) - Len(s) = i
    BY <1>3
  <2> QED BY <2>1
<1>8. \A i \in 1 .. Len(s) + Len(t) + 1 :
        i \in 1 .. Len(s) \/ \E j \in 1 .. Len(t) + 1 : i = Len(s) + j
  <2> TAKE i \in 1 .. Len(s) + Len(t) + 1
  <2>1. i \in 1 .. Len(s) \/ (i - Len(s) \in 1 .. Len(t) + 1 /\ i = Len(s) + (i - Len(s)))
    BY <1>3
  <2> QED BY <2>1
<1> HIDE DEF f, e
<1>9. f[Len(s) + 1] = y /\ e[Len(s) + 1] = c
  <2>1. 1 \in 1 .. Len(t) + 1 /\ 0 + c = c
    BY <1>3, <1>5
  <2> QED BY <1>5, <1>7, <2>1
<1>10. \A i \in 1 .. Len(s) + 1 : f[i] = h[i] /\ e[i] = g[i]
  <2> TAKE i \in 1 .. Len(s) + 1
  <2>1. i \in 1 .. Len(s) \/ i = Len(s) + 1
    BY <1>3
  <2> QED BY <1>5, <1>6, <1>9, <2>1 DEF c
<1>11. f[1] = x /\ f[Len(r) + 1] = z /\ e[1] = 0 /\ e[Len(r) + 1] <= n + m
  <2>1. 1 \in 1 .. Len(s) + 1 /\ Len(t) + 1 \in 1 .. Len(t) + 1 /\ Len(s) + (Len(t) + 1) = Len(r) + 1
    BY <1>3, <1>4
  <2>2. f[1] = x /\ e[1] = 0 /\ f[Len(r) + 1] = z /\ e[Len(r) + 1] = l[Len(t) + 1] + c
    BY <1>5, <1>7, <1>10, <2>1
  <2>3. l[Len(t) + 1] \in Int
    BY <1>5, <2>1
  <2>4. l[Len(t) + 1] + c <= n + m
    BY <1>3, <1>5, <2>3
  <2> QED BY <2>2, <2>4
<1>12. \A i \in 1 .. Len(r) + 1 : e[i] \in Int
  <2> TAKE i \in 1 .. Len(r) + 1
  <2>1. i \in 1 .. Len(s) \/ \E j \in 1 .. Len(t) + 1 : i = Len(s) + j
    BY <1>4, <1>8
  <2>2. CASE i \in 1 .. Len(s)
    <3>1. i \in 1 .. Len(s) + 1 /\ e[i] = g[i]
      BY <1>3, <1>6, <2>2
    <3> QED BY <1>5, <3>1
  <2>3. CASE \E j \in 1 .. Len(t) + 1 : i = Len(s) + j
    <3>1. PICK j \in 1 .. Len(t) + 1 : e[i] = l[j] + c
      BY <1>7, <2>3
    <3> QED BY <1>5, <3>1
  <2> QED BY <2>1, <2>2, <2>3
<1>13. ASSUME NEW i \in 1 .. Len(r)
       PROVE  Ready(f[i], r[i]) /\ f[i + 1] = After(f[i], r[i]) /\ e[i + 1] = e[i] + Cost(r[i])
  <2>1. CASE i \in 1 .. Len(s)
    <3>1. i \in 1 .. Len(s) + 1 /\ i + 1 \in 1 .. Len(s) + 1
      BY <1>3, <2>1
    <3>2. Ready(h[i], s[i]) /\ h[i + 1] = After(h[i], s[i]) /\ g[i + 1] = g[i] + Cost(s[i])
      BY <1>1, <2>1 DEF Course
    <3> QED BY <1>4, <1>10, <2>1, <3>1, <3>2
  <2>2. CASE i \notin 1 .. Len(s)
    <3>1. PICK j \in 1 .. Len(t) : i = Len(s) + j
      <4>1. i - Len(s) \in 1 .. Len(t) /\ i = Len(s) + (i - Len(s))
        BY <1>3, <1>4, <2>2
      <4> QED BY <4>1
    <3>2. j \in 1 .. Len(t) + 1 /\ j + 1 \in 1 .. Len(t) + 1 /\ i + 1 = Len(s) + (j + 1)
      BY <1>3, <3>1
    <3>3. Ready(k[j], t[j]) /\ k[j + 1] = After(k[j], t[j]) /\ l[j + 1] = l[j] + Cost(t[j])
      BY <1>2 DEF Course
    <3>4. (l[j] + Cost(t[j])) + c = (l[j] + c) + Cost(t[j])
      BY <1>5, <3>2, CostInt
    <3>5. f[i] = k[j] /\ e[i] = l[j] + c /\ f[i + 1] = k[j + 1] /\ e[i + 1] = l[j + 1] + c /\ r[i] = t[j]
      BY <1>4, <1>7, <3>1, <3>2
    <3> QED BY <3>3, <3>4, <3>5
  <2> QED BY <2>1, <2>2
<1>14. Course(r, x, z, n + m, f, e)
  BY <1>11, <1>12, <1>13 DEF Course
<1> QED BY <1>3, <1>4, <1>14 DEF Runs, r

-----------------------------------------------------------------------------
(* A lemma for each kind of item, which a step cites for the items that it *)
(* puts on todo: what the item finds on top, what it leaves and its cost.  *)
LEMMA Overs ==
  /\ \A x, k : Over(x, k)[1] = x /\ Over(x, k)[2] = k
  /\ \A x : Below(x, 0) = x
  /\ \A x, a : Below(Over(x, a), 1) = x
  /\ \A x, a, b : Below(Over(Over(x, a), b), 2) = x /\ Below(Over(Over(x, a), b), 1) = Over(x, a)
  /\ \A x, a, b, c : /\ Below(Over(Over(Over(x, a), b), c), 3) = x
                     /\ Below(Over(Over(Over(x, a), b), c), 2) = Over(x, a)
                     /\ Below(Over(Over(Over(x, a), b), c), 1) = Over(Over(x, a), b)
  /\ \A x, a, b, c, d : /\ Below(Over(Over(Over(Over(x, a), b), c), d), 4) = x
                        /\ Below(Over(Over(Over(Over(x, a), b), c), d), 3) = Over(x, a)
                        /\ Below(Over(Over(Over(Over(x, a), b), c), d), 2) = Over(Over(x, a), b)
                        /\ Below(Over(Over(Over(Over(x, a), b), c), d), 1) = Over(Over(Over(x, a), b), c)
BY DEF Over, Below

(* The kind on top of the others, and the others.                         *)
Is(x, k) == x = Over(x[1], k)
Under(x) == x[1]

LEMMA Unders == \A x, k : Is(Over(x, k), k) /\ Under(Over(x, k)) = x
BY Overs DEF Is, Under

(* The kinds of tokens that are expected or matched. *)
Marks == {"LPAREN", "RPAREN", "LBRACE", "RBRACE", "RBRACKET", "COLON", "SEMICOLON", "ASSIGN"}

LEMMA MarksCount == \A k \in Marks : Mark(k)
BY DEF Marks, Mark, Carried

LEMMA ExpectItem ==
  \A x, k : k \in Marks =>
    Ready(x, Expect(k)) /\ After(x, Expect(k)) = x /\ Cost(Expect(k)) = -4
<1> SUFFICES ASSUME NEW x, NEW k \in Marks, NEW it, it = Expect(k)
             PROVE  Ready(x, it) /\ After(x, it) = x /\ Cost(it) = -4
  OBVIOUS
<1>1. it[1] = "Expect" /\ it[2] = k
  BY DEF Expect
<1>2. Ready(x, it)
  BY <1>1, MarksCount DEF Ready
<1>3. After(x, it) = x
  BY <1>1 DEF After
<1>4. Cost(it) = -4
  BY <1>1 DEF Cost
<1> QED BY <1>2, <1>3, <1>4

LEMMA PushItem ==
  \A x, v : v \in {Null, Empty, EmptyBlock, <<"false">>} =>
    Ready(x, Push(v)) /\ After(x, Push(v)) = Over(x, KindOf(v)) /\ Cost(Push(v)) = 1
<1> SUFFICES ASSUME NEW x, NEW v \in {Null, Empty, EmptyBlock, <<"false">>}, NEW it, it = Push(v)
             PROVE  Ready(x, it) /\ After(x, it) = Over(x, KindOf(v)) /\ Cost(it) = 1
  OBVIOUS
<1>1. it[1] = "Push" /\ it[2] = v
  BY DEF Push
<1>2. Ready(x, it)
  BY <1>1 DEF Ready
<1>3. After(x, it) = Over(x, KindOf(v))
  BY <1>1 DEF After
<1>4. Cost(it) = 1
  BY <1>1 DEF Cost
<1> QED BY <1>2, <1>3, <1>4

LEMMA Kindred ==
  /\ KindOf(Null) = "tree" /\ KindOf(Empty) = "list" /\ KindOf(EmptyBlock) = "tree"
  /\ KindOf(<<"false">>) = "flag"
BY DEF KindOf, Null, Empty, EmptyBlock

LEMMA PushBackItem ==
  \A y : Is(y, "tree") /\ Is(Under(y), "list") =>
    Ready(y, PushBack) /\ After(y, PushBack) = Under(y) /\ Cost(PushBack) = 0
<1> SUFFICES ASSUME NEW y, Is(y, "tree") /\ Is(Under(y), "list"),
                    NEW it, it = PushBack
             PROVE  Ready(y, it) /\ After(y, it) = Under(y) /\ Cost(it) = 0
  OBVIOUS
<1>1. it[1] = "PushBack"
  BY DEF PushBack
<1>2. y = Over(Over(Under(Under(y)), "list"), "tree")
  BY DEF Is, Under
<1>3. Ready(y, it)
  BY <1>1, <1>2 DEF Ready
<1>4. After(y, it) = Under(y)
  BY <1>1, <1>2, Unders DEF After, Below, Under
<1>5. Cost(it) = 0
  BY <1>1 DEF Cost
<1> QED BY <1>3, <1>4, <1>5

LEMMA DupTopItem ==
  \A y : Is(y, "list") =>
    Ready(y, Dup(0)) /\ After(y, Dup(0)) = Over(Under(y), "tree") /\ Cost(Dup(0)) = 0
<1> SUFFICES ASSUME NEW y, Is(y, "list"),
                    NEW it, it = Dup(0)
             PROVE  Ready(y, it) /\ After(y, it) = Over(Under(y), "tree") /\ Cost(it) = 0
  OBVIOUS
<1>1. it[1] = "ast_dup" /\ it[2] = 0
  BY DEF Dup
<1>2. y = Over(Under(y), "list")
  BY DEF Is, Under
<1>3. Ready(y, it)
  BY <1>1, <1>2 DEF Ready
<1>4. After(y, it) = Over(Under(y), "tree")
  BY <1>1, <1>2, Unders DEF After, Copying, Under
<1>5. Cost(it) = 0
  BY <1>1 DEF Cost
<1> QED BY <1>3, <1>4, <1>5

LEMMA DupBelowItem ==
  \A y : Is(y, "tree") /\ Is(Under(y), "list") =>
    Ready(y, Dup(1)) /\ After(y, Dup(1)) = Over(Over(Under(Under(y)), "tree"), "tree") /\ Cost(Dup(1)) = 0
<1> SUFFICES ASSUME NEW y, Is(y, "tree") /\ Is(Under(y), "list"),
                    NEW it, it = Dup(1)
             PROVE  Ready(y, it) /\ After(y, it) = Over(Over(Under(Under(y)), "tree"), "tree")
                    /\ Cost(it) = 0
  OBVIOUS
<1>1. it[1] = "ast_dup" /\ it[2] = 1
  BY DEF Dup
<1>2. y = Over(Over(Under(Under(y)), "list"), "tree")
  BY DEF Is, Under
<1>3. Ready(y, it)
  BY <1>1, <1>2 DEF Ready
<1>4. After(y, it) = Over(Over(Under(Under(y)), "tree"), "tree")
  BY <1>1, <1>2, Unders DEF After, Copying, Under, Is, Over
<1>5. Cost(it) = 0
  BY <1>1 DEF Cost
<1> QED BY <1>3, <1>4, <1>5

LEMMA UnlessItem ==
  \A x, k, f : f \in Plain =>
    Ready(x, Unless(k, f)) /\ After(x, Unless(k, f)) = Over(x, "tree") /\ Cost(Unless(k, f)) = 1
<1> SUFFICES ASSUME NEW x, NEW k, NEW f \in Plain, NEW it, it = Unless(k, f)
             PROVE  Ready(x, it) /\ After(x, it) = Over(x, "tree") /\ Cost(it) = 1
  OBVIOUS
<1>1. it[1] = "Unless" /\ it[3] = f
  BY DEF Unless
<1>2. Ready(x, it)
  BY <1>1 DEF Ready
<1>3. After(x, it) = Over(x, "tree")
  BY <1>1 DEF After
<1>4. Cost(it) = 1
  BY <1>1 DEF Cost
<1> QED BY <1>2, <1>3, <1>4

LEMMA IfMatchItem ==
  \A x, k, f : k \in Marks /\ f \in Plain =>
    Ready(x, IfMatch(k, f)) /\ After(x, IfMatch(k, f)) = Over(x, "tree") /\ Cost(IfMatch(k, f)) = 1
<1> SUFFICES ASSUME NEW x, NEW k \in Marks, NEW f \in Plain, NEW it, it = IfMatch(k, f)
             PROVE  Ready(x, it) /\ After(x, it) = Over(x, "tree") /\ Cost(it) = 1
  OBVIOUS
<1>1. it[1] = "IfMatch" /\ it[2] = k /\ it[3] = f
  BY DEF IfMatch
<1>2. Ready(x, it)
  BY <1>1, MarksCount DEF Ready
<1>3. After(x, it) = Over(x, "tree")
  BY <1>1 DEF After
<1>4. Cost(it) = 1
  BY <1>1 DEF Cost
<1> QED BY <1>2, <1>3, <1>4

LEMMA ListItem ==
  \A x, k, f : f \in Plain =>
    Ready(x, List(f, k)) /\ After(x, List(f, k)) = Over(x, "list") /\ Cost(List(f, k)) = 1
<1> SUFFICES ASSUME NEW x, NEW k, NEW f \in Plain, NEW it, it = List(f, k)
             PROVE  Ready(x, it) /\ After(x, it) = Over(x, "list") /\ Cost(it) = 1
  OBVIOUS
<1>1. it[1] = "List" /\ it[2] = f
  BY DEF List
<1>2. Ready(x, it)
  BY <1>1 DEF Ready
<1>3. After(x, it) = Over(x, "list")
  BY <1>1 DEF After
<1>4. Cost(it) = 1
  BY <1>1 DEF Cost
<1> QED BY <1>2, <1>3, <1>4

LEMMA MoreItem ==
  \A y, f : f \in Plain /\ Is(y, "tree") /\ Is(Under(y), "list") =>
    Ready(y, More(f)) /\ After(y, More(f)) = Under(y) /\ Cost(More(f)) = 0
<1> SUFFICES ASSUME NEW y, NEW f \in Plain, Is(y, "tree") /\ Is(Under(y), "list"),
                    NEW it, it = More(f)
             PROVE  Ready(y, it) /\ After(y, it) = Under(y) /\ Cost(it) = 0
  OBVIOUS
<1>1. it[1] = "More" /\ it[2] = f
  BY DEF More
<1>2. y = Over(Over(Under(Under(y)), "list"), "tree")
  BY DEF Is, Under
<1>3. Ready(y, it)
  BY <1>1, <1>2 DEF Ready
<1>4. After(y, it) = Under(y)
  BY <1>1, <1>2, Unders DEF After, Below, Under
<1>5. Cost(it) = 0
  BY <1>1 DEF Cost
<1> QED BY <1>3, <1>4, <1>5

LEMMA EachItem ==
  \A y, f, S : f \in Plain /\ Is(y, "list") =>
    Ready(y, Each(f, S)) /\ After(y, Each(f, S)) = y /\ Cost(Each(f, S)) = 0
<1> SUFFICES ASSUME NEW y, NEW f \in Plain, NEW S, Is(y, "list"),
                    NEW it, it = Each(f, S)
             PROVE  Ready(y, it) /\ After(y, it) = y /\ Cost(it) = 0
  OBVIOUS
<1>1. it[1] = "Each" /\ it[2] = f
  BY DEF Each
<1>2. y = Over(Under(y), "list")
  BY DEF Is, Under
<1>3. Ready(y, it)
  BY <1>1, <1>2 DEF Ready
<1>4. After(y, it) = y
  BY <1>1, <1>2, Unders DEF After
<1>5. Cost(it) = 0
  BY <1>1 DEF Cost
<1> QED BY <1>3, <1>4, <1>5

(* Nodes. *)
Plainly(node) == node \notin {"tok", "list", "expr_name"}

LEMMA Kinds0 == \A node, x : Plainly(node) => Kinds(x, node, 0)
BY DEF Kinds, Plainly

LEMMA Kinds1 ==
  \A node, x, a : Plainly(node) /\ Passes(node, 1, a) => Kinds(Over(x, a), node, 1)
<1>1. \A i \in 0 .. 1 - 1 : i = 0 /\ i + 1 = 1 /\ 1 - i = 1
  OBVIOUS
<1> QED BY <1>1, Overs DEF Kinds, Plainly

LEMMA Kinds2 ==
  \A node, x, a, b :
    Plainly(node) /\ Passes(node, 1, a) /\ Passes(node, 2, b) => Kinds(Over(Over(x, a), b), node, 2)
<1>1. \A i \in 0 .. 2 - 1 : (i = 0 /\ i + 1 = 1 /\ 2 - i = 2) \/ (i = 1 /\ i + 1 = 2 /\ 2 - i = 1)
  OBVIOUS
<1> QED BY <1>1, Overs DEF Kinds, Plainly

LEMMA Kinds3 ==
  \A node, x, a, b, c :
    Plainly(node) /\ Passes(node, 1, a) /\ Passes(node, 2, b) /\ Passes(node, 3, c)
      => Kinds(Over(Over(Over(x, a), b), c), node, 3)
<1>1. \A i \in 0 .. 3 - 1 : (i = 0 /\ i + 1 = 1 /\ 3 - i = 3) \/ (i = 1 /\ i + 1 = 2 /\ 3 - i = 2)
                             \/ (i = 2 /\ i + 1 = 3 /\ 3 - i = 1)
  OBVIOUS
<1> QED BY <1>1, Overs DEF Kinds, Plainly

LEMMA Kinds4 ==
  \A node, x, a, b, c, d :
    Plainly(node) /\ Passes(node, 1, a) /\ Passes(node, 2, b) /\ Passes(node, 3, c) /\ Passes(node, 4, d)
      => Kinds(Over(Over(Over(Over(x, a), b), c), d), node, 4)
<1>1. \A i \in 0 .. 4 - 1 : (i = 0 /\ i + 1 = 1 /\ 4 - i = 4) \/ (i = 1 /\ i + 1 = 2 /\ 4 - i = 3)
                             \/ (i = 2 /\ i + 1 = 3 /\ 4 - i = 2) \/ (i = 3 /\ i + 1 = 4 /\ 4 - i = 1)
  OBVIOUS
<1> QED BY <1>1, Overs DEF Kinds, Plainly

LEMMA MakeItem ==
  \A x, node, n : Kinds(x, node, n) =>
    /\ Ready(x, Make(node, n)) /\ After(x, Make(node, n)) = Over(Below(x, n), "tree")
    /\ Cost(Make(node, n)) = 1
<1> SUFFICES ASSUME NEW x, NEW node, NEW n, Kinds(x, node, n), NEW it, it = Make(node, n)
             PROVE  Ready(x, it) /\ After(x, it) = Over(Below(x, n), "tree") /\ Cost(it) = 1
  OBVIOUS
<1>1. it[1] = "Make" /\ it[2] = node /\ it[3] = n
  BY DEF Make
<1>2. Ready(x, it)
  BY <1>1 DEF Ready
<1>3. After(x, it) = Over(Below(x, n), "tree")
  BY <1>1 DEF After
<1>4. Cost(it) = 1
  BY <1>1 DEF Cost
<1> QED BY <1>2, <1>3, <1>4

LEMMA TreesPass == \A node, i : Passes(node, i, "tree") /\ Passes(node, i, "flag")
  /\ Passes(node, i, "tok")
BY DEF Passes

LEMMA Make0Item ==
  \A node, x : Plainly(node) =>
    Ready(x, Make(node, 0)) /\ After(x, Make(node, 0)) = Over(x, "tree") /\ Cost(Make(node, 0)) = 1
BY Kinds0, MakeItem, Overs

LEMMA Make1Item ==
  \A node, y : Plainly(node) /\ Is(y, "tree") =>
    /\ Ready(y, Make(node, 1)) /\ After(y, Make(node, 1)) = Over(Under(y), "tree")
    /\ Cost(Make(node, 1)) = 1
<1> SUFFICES ASSUME NEW y, NEW node, Plainly(node), Is(y, "tree")
             PROVE  /\ Ready(y, Make(node, 1)) /\ After(y, Make(node, 1)) = Over(Under(y), "tree")
                    /\ Cost(Make(node, 1)) = 1
  OBVIOUS
<1>1. y = Over(Under(y), "tree")
  BY DEF Is, Under
<1>2. Kinds(y, node, 1)
  BY <1>1, Kinds1, TreesPass
<1> QED BY <1>1, <1>2, MakeItem, Overs

LEMMA Make2Item ==
  \A node, y : Plainly(node) /\ Is(y, "tree") /\ Is(Under(y), "tree") =>
    /\ Ready(y, Make(node, 2)) /\ After(y, Make(node, 2)) = Over(Under(Under(y)), "tree")
    /\ Cost(Make(node, 2)) = 1
<1> SUFFICES ASSUME NEW y, NEW node, Plainly(node), Is(y, "tree"), Is(Under(y), "tree")
             PROVE  /\ Ready(y, Make(node, 2)) /\ After(y, Make(node, 2)) = Over(Under(Under(y)), "tree")
                    /\ Cost(Make(node, 2)) = 1
  OBVIOUS
<1>1. y = Over(Over(Under(Under(y)), "tree"), "tree")
  BY DEF Is, Under
<1>2. Kinds(y, node, 2)
  BY <1>1, Kinds2, TreesPass
<1> QED BY <1>1, <1>2, MakeItem, Overs

LEMMA Make3Item ==
  \A node, y : Plainly(node) /\ Is(y, "tree") /\ Is(Under(y), "tree") /\ Is(Under(Under(y)), "tree") =>
    /\ Ready(y, Make(node, 3)) /\ After(y, Make(node, 3)) = Over(Under(Under(Under(y))), "tree")
    /\ Cost(Make(node, 3)) = 1
<1> SUFFICES ASSUME NEW y, NEW node, Plainly(node), Is(y, "tree"), Is(Under(y), "tree"),
                    Is(Under(Under(y)), "tree")
             PROVE  /\ Ready(y, Make(node, 3))
                       /\ After(y, Make(node, 3)) = Over(Under(Under(Under(y))), "tree")
                    /\ Cost(Make(node, 3)) = 1
  OBVIOUS
<1>1. y = Over(Over(Over(Under(Under(Under(y))), "tree"), "tree"), "tree")
  BY DEF Is, Under
<1>2. Kinds(y, node, 3)
  BY <1>1, Kinds3, TreesPass
<1> QED BY <1>1, <1>2, MakeItem, Overs

LEMMA Make4Item ==
  \A node, y : Plainly(node) /\ Is(y, "tree") /\ Is(Under(y), "tree") /\ Is(Under(Under(y)), "tree")
    /\ Is(Under(Under(Under(y))), "tree") =>
    /\ Ready(y, Make(node, 4)) /\ After(y, Make(node, 4)) = Over(Under(Under(Under(Under(y)))), "tree")
    /\ Cost(Make(node, 4)) = 1
<1> SUFFICES ASSUME NEW y, NEW node, Plainly(node), Is(y, "tree"), Is(Under(y), "tree"),
                    Is(Under(Under(y)), "tree"), Is(Under(Under(Under(y))), "tree")
             PROVE  /\ Ready(y, Make(node, 4))
                       /\ After(y, Make(node, 4)) = Over(Under(Under(Under(Under(y)))), "tree")
                    /\ Cost(Make(node, 4)) = 1
  OBVIOUS
<1>1. y = Over(Over(Over(Over(Under(Under(Under(Under(y)))), "tree"), "tree"), "tree"), "tree")
  BY DEF Is, Under
<1>2. Kinds(y, node, 4)
  BY <1>1, Kinds4, TreesPass
<1> QED BY <1>1, <1>2, MakeItem, Overs

(* Nodes that are given a vector, which they copy. *)
LEMMA MakeListItem ==
  \A node, y : node \in {"expr_compound", "expr_call", "stmt_switch", "decl_enum", "struct", "union"}
    /\ Is(y, "list") /\ Is(Under(y), "tree") =>
    /\ Ready(y, Make(node, 2)) /\ After(y, Make(node, 2)) = Over(Under(Under(y)), "tree")
    /\ Cost(Make(node, 2)) = 1
<1> SUFFICES ASSUME NEW y, NEW node,
                    node \in {"expr_compound", "expr_call", "stmt_switch", "decl_enum", "struct",
                      "union"}, Is(y, "list"), Is(Under(y), "tree")
             PROVE  /\ Ready(y, Make(node, 2)) /\ After(y, Make(node, 2)) = Over(Under(Under(y)), "tree")
                    /\ Cost(Make(node, 2)) = 1
  OBVIOUS
<1>1. y = Over(Over(Under(Under(y)), "tree"), "list")
  BY DEF Is, Under
<1>2. Plainly(node) /\ Passes(node, 2, "list")
  BY DEF Plainly, Passes, Dups
<1>3. Kinds(y, node, 2)
  BY <1>1, <1>2, Kinds2, TreesPass
<1> QED BY <1>1, <1>2, <1>3, MakeItem, Overs

LEMMA MakeFuncTypeItem ==
  \A y : Is(y, "tree") /\ Is(Under(y), "list") =>
    /\ Ready(y, Make("typespec_func", 2))
       /\ After(y, Make("typespec_func", 2)) = Over(Under(Under(y)), "tree")
    /\ Cost(Make("typespec_func", 2)) = 1
<1> SUFFICES ASSUME NEW y, Is(y, "tree"), Is(Under(y), "list")
             PROVE  /\ Ready(y, Make("typespec_func", 2))
                       /\ After(y, Make("typespec_func", 2)) = Over(Under(Under(y)), "tree")
                    /\ Cost(Make("typespec_func", 2)) = 1
  OBVIOUS
<1>1. y = Over(Over(Under(Under(y)), "list"), "tree")
  BY DEF Is, Under
<1>2. Plainly("typespec_func") /\ Passes("typespec_func", 1, "list")
  BY DEF Plainly, Passes, Dups
<1>3. Kinds(y, "typespec_func", 2)
  BY <1>1, <1>2, Kinds2, TreesPass
<1> QED BY <1>1, <1>2, <1>3, MakeItem, Overs

LEMMA MakeIfItem ==
  \A y : Is(y, "tree") /\ Is(Under(y), "list") /\ Is(Under(Under(y)), "tree")
    /\ Is(Under(Under(Under(y))), "tree") =>
    /\ Ready(y, Make("stmt_if", 4))
       /\ After(y, Make("stmt_if", 4)) = Over(Under(Under(Under(Under(y)))), "tree")
    /\ Cost(Make("stmt_if", 4)) = 1
<1> SUFFICES ASSUME NEW y, Is(y, "tree"), Is(Under(y), "list"), Is(Under(Under(y)), "tree"),
                    Is(Under(Under(Under(y))), "tree")
             PROVE  /\ Ready(y, Make("stmt_if", 4))
                       /\ After(y, Make("stmt_if", 4)) = Over(Under(Under(Under(Under(y)))), "tree")
                    /\ Cost(Make("stmt_if", 4)) = 1
  OBVIOUS
<1>1. y = Over(Over(Over(Over(Under(Under(Under(Under(y)))), "tree"), "tree"), "list"), "tree")
  BY DEF Is, Under
<1>2. Plainly("stmt_if") /\ Passes("stmt_if", 3, "list")
  BY DEF Plainly, Passes, Dups
<1>3. Kinds(y, "stmt_if", 4)
  BY <1>1, <1>2, Kinds4, TreesPass
<1> QED BY <1>1, <1>2, <1>3, MakeItem, Overs

LEMMA MakeFuncItem ==
  \A y : Is(y, "tree") /\ Is(Under(y), "tree") /\ Is(Under(Under(y)), "list")
    /\ Is(Under(Under(Under(y))), "tree") =>
    /\ Ready(y, Make("decl_func", 4))
       /\ After(y, Make("decl_func", 4)) = Over(Under(Under(Under(Under(y)))), "tree")
    /\ Cost(Make("decl_func", 4)) = 1
<1> SUFFICES ASSUME NEW y, Is(y, "tree"), Is(Under(y), "tree"), Is(Under(Under(y)), "list"),
                    Is(Under(Under(Under(y))), "tree")
             PROVE  /\ Ready(y, Make("decl_func", 4))
                       /\ After(y, Make("decl_func", 4)) = Over(Under(Under(Under(Under(y)))), "tree")
                    /\ Cost(Make("decl_func", 4)) = 1
  OBVIOUS
<1>1. y = Over(Over(Over(Over(Under(Under(Under(Under(y)))), "tree"), "list"), "tree"), "tree")
  BY DEF Is, Under
<1>2. Plainly("decl_func") /\ Passes("decl_func", 2, "list")
  BY DEF Plainly, Passes, Dups
<1>3. Kinds(y, "decl_func", 4)
  BY <1>1, <1>2, Kinds4, TreesPass
<1> QED BY <1>1, <1>2, <1>3, MakeItem, Overs

LEMMA MakeCaseItem ==
  \A y : Is(y, "tree") /\ Is(Under(y), "tree") /\ Is(Under(Under(y)), "flag") =>
    /\ Ready(y, Make("SwitchCase", 3))
       /\ After(y, Make("SwitchCase", 3)) = Over(Under(Under(Under(y))), "tree")
    /\ Cost(Make("SwitchCase", 3)) = 1
<1> SUFFICES ASSUME NEW y, Is(y, "tree"), Is(Under(y), "tree"), Is(Under(Under(y)), "flag")
             PROVE  /\ Ready(y, Make("SwitchCase", 3))
                       /\ After(y, Make("SwitchCase", 3)) = Over(Under(Under(Under(y))), "tree")
                    /\ Cost(Make("SwitchCase", 3)) = 1
  OBVIOUS
<1>1. y = Over(Over(Over(Under(Under(Under(y))), "flag"), "tree"), "tree")
  BY DEF Is, Under
<1>2. Plainly("SwitchCase")
  BY DEF Plainly
<1>3. Kinds(y, "SwitchCase", 3)
  BY <1>1, <1>2, Kinds3, TreesPass
<1> QED BY <1>1, <1>2, <1>3, MakeItem, Overs

(* Nodes that are given the token of an operand. *)
LEMMA MakeNameItem ==
  \A node, y : node \in {"typespec_name", "expr_name"} /\ Is(y, "tok") =>
    /\ Ready(y, Make(node, 1)) /\ After(y, Make(node, 1)) = Over(Under(y), "tree")
    /\ Cost(Make(node, 1)) = 1
<1>1. \A x : Kinds(Over(x, "tok"), "typespec_name", 1)
  <2>1. Plainly("typespec_name")
    BY DEF Plainly
  <2> QED BY <2>1, Kinds1, TreesPass
<1>2. \A x : Kinds(Over(x, "tok"), "expr_name", 1)
  <2>1. \A i \in 0 .. 1 - 1 : i = 0 /\ i + 1 = 1 /\ 1 - i = 1
    OBVIOUS
  <2> QED BY <2>1, Overs, TreesPass DEF Kinds
<1>3. \A x : \A node \in {"typespec_name", "expr_name"} : Kinds(Over(x, "tok"), node, 1)
  BY <1>1, <1>2
<1>4. \A y : Is(y, "tok") => y = Over(Under(y), "tok")
  BY DEF Is, Under
<1> QED BY <1>3, <1>4, MakeItem, Overs

(* Calls, and the rests of them. *)
Rest(f, l) == <<f, l>>

LEMMA RestReady ==
  \A f \in Functions \union Inner : \A l, x, y : x = Before(y, f, l) =>
    Ready(x, Rest(f, l)) /\ After(x, Rest(f, l)) = Over(Below(x, LocalsAt(f, l)), "tree")
<1> SUFFICES ASSUME NEW f \in Functions \union Inner, NEW l, NEW x, NEW y, x = Before(y, f, l),
                    NEW it, it = Rest(f, l)
             PROVE  Ready(x, it) /\ After(x, it) = Over(Below(x, LocalsAt(f, l)), "tree")
  OBVIOUS
<1>1. it[1] = f /\ it[2] = l
  BY DEF Rest
<1>2. Ready(x, it)
  BY <1>1 DEF Ready
<1>3. After(x, it) = Over(Below(x, LocalsAt(f, l)), "tree")
  BY <1>1 DEF After, Functions, Inner
<1> QED BY <1>2, <1>3

LEMMA CallItem ==
  \A x, f : f \in Functions =>
    Ready(x, Call(f)) /\ After(x, Call(f)) = Over(x, "tree") /\ Cost(Call(f)) = CallCost(f)
<1> SUFFICES ASSUME NEW x, NEW f \in Functions
             PROVE  Ready(x, Call(f)) /\ After(x, Call(f)) = Over(x, "tree")
                    /\ Cost(Call(f)) = CallCost(f)
  OBVIOUS
<1>1. LocalsAt(f, "begin") = 0
  BY DEF LocalsAt, Functions, Inner
<1>2. Before(x, f, "begin") = x
  BY <1>1 DEF Before
<1>3. Call(f) = Rest(f, "begin")
  BY DEF Call, Rest
<1>4. Ready(x, Call(f)) /\ After(x, Call(f)) = Over(x, "tree")
  BY <1>1, <1>2, <1>3, RestReady, Overs
<1>5. Cost(Call(f)) = CallCost(f)
  <2>1. PICK it : it = Call(f)
    OBVIOUS
  <2>2. it[1] = f /\ it[2] = "begin"
    BY <2>1 DEF Call
  <2>3. Cost(it) = CallCost(f)
    BY <2>2 DEF Cost, Functions
  <2> QED BY <2>1, <2>3
<1> QED BY <1>4, <1>5

LEMMA CallCosts ==
  /\ \A f \in {"parse_expr", "parse_expr_ternary", "parse_expr_or", "parse_expr_and", "parse_expr_cmp",
               "parse_expr_add", "parse_expr_mul", "parse_expr_unary", "parse_expr_base",
               "parse_expr_operand", "parse_type", "parse_type_base"} : CallCost(f) = -2
  /\ CallCost("parse_name") = -3 /\ CallCost("parse_expr_compound") = -3 /\ CallCost("fatal") = 0
  /\ CallCost("parse_decl_opt") = -1 /\ CallCost("parse_stmt_block") = -1 /\ CallCost("parse_stmt_if") = 3
  /\ \A f \in {"parse_type_func", "parse_paren_expr", "parse_decl_enum_item", "parse_decl_enum",
               "parse_decl_aggregate_item", "parse_decl_aggregate", "parse_decl_var", "parse_decl_const",
               "parse_decl_typedef", "parse_stmt_while", "parse_stmt_do_while", "parse_simple_stmt",
               "parse_stmt_for", "parse_stmt_switch_case", "parse_stmt_switch", "parse_stmt",
               "parse_decl_func_param", "parse_decl_func", "parse_decl"} : CallCost(f) = 0
  /\ \A f \in Plain : CallCost(f) \in -3 .. 0
BY DEF CallCost, Plain, Functions

LEMMA InnerItem ==
  \A y, f : f \in Inner /\ Is(y, "tree") =>
    Ready(y, Call(f)) /\ After(y, Call(f)) = y /\ Cost(Call(f)) = CallCost(f)
<1> SUFFICES ASSUME NEW y, NEW f \in Inner, Is(y, "tree")
             PROVE  Ready(y, Call(f)) /\ After(y, Call(f)) = y /\ Cost(Call(f)) = CallCost(f)
  OBVIOUS
<1>1. LocalsAt(f, "begin") = 1 /\ y = Over(Under(y), "tree")
  BY DEF LocalsAt, Is, Under
<1>2. Before(Under(y), f, "begin") = y
  BY <1>1 DEF Before, Inner
<1>3. Call(f) = Rest(f, "begin")
  BY DEF Call, Rest
<1>4. Ready(y, Call(f)) /\ After(y, Call(f)) = y
  BY <1>1, <1>2, <1>3, RestReady, Overs
<1>5. Cost(Call(f)) = CallCost(f)
  <2>1. PICK it : it = Call(f)
    OBVIOUS
  <2>2. it[1] = f /\ it[2] = "begin"
    BY <2>1 DEF Call
  <2>3. Cost(it) = CallCost(f)
    BY <2>2 DEF Cost, Inner
  <2> QED BY <2>1, <2>3
<1> QED BY <1>4, <1>5

(* The functions that turn in a loop with a tree at hand. *)
Loops == {"parse_type", "parse_expr_base", "parse_expr_mul", "parse_expr_add", "parse_expr_cmp",
          "parse_expr_and", "parse_expr_or"}

(* What the rest of a call finds. *)
LEMMA Befores ==
  \A x :
    /\ \A f \in Functions : Before(x, f, "begin") = x
    /\ \A f \in Inner : Before(x, f, "begin") = Over(x, "tree")
    /\ \A f \in Loops : Before(x, f, "loop") = Over(x, "tree")
    /\ Before(x, "parse_expr_operand", "name") = Over(x, "tok")
    /\ Before(x, "parse_expr_operand", "sizeof") = x
    /\ Before(x, "parse_expr_operand", "paren") = x
    /\ Before(x, "parse_expr_ternary", "question") = Over(x, "tree")
    /\ Before(x, "parse_decl_aggregate", "struct") = x
    /\ Before(x, "parse_decl_aggregate", "union") = x
    /\ Before(x, "parse_decl_var", "name") = Over(x, "tree")
    /\ Before(x, "parse_stmt_if", "loop") = Over(Over(Over(x, "tree"), "tree"), "list")
    /\ Before(x, "parse_stmt_if", "else") = Over(Over(Over(x, "tree"), "tree"), "list")
    /\ Before(x, "parse_stmt_do_while", "while") = Over(x, "tree")
    /\ Before(x, "parse_simple_stmt", "expr") = Over(x, "tree")
    /\ Before(x, "parse_stmt_for", "next") = Over(x, "tree")
    /\ Before(x, "parse_stmt_switch_case", "labels") = Over(Over(x, "flag"), "list")
<1>1. /\ \A f \in Functions : LocalsAt(f, "begin") = 0
      /\ \A f \in Inner : LocalsAt(f, "begin") = 1 /\ f # "parse_expr_operand"
      /\ \A f \in Loops : LocalsAt(f, "loop") = 1 /\ f # "parse_expr_operand"
  BY DEF LocalsAt, Functions, Inner, Loops
<1>2. /\ LocalsAt("parse_expr_operand", "name") = 1
      /\ LocalsAt("parse_expr_operand", "sizeof") = 0
      /\ LocalsAt("parse_expr_operand", "paren") = 0
      /\ LocalsAt("parse_expr_ternary", "question") = 1
      /\ LocalsAt("parse_decl_aggregate", "struct") = 0
      /\ LocalsAt("parse_decl_aggregate", "union") = 0
      /\ LocalsAt("parse_decl_var", "name") = 1
      /\ LocalsAt("parse_stmt_if", "loop") = 3
      /\ LocalsAt("parse_stmt_if", "else") = 3
      /\ LocalsAt("parse_stmt_do_while", "while") = 1
      /\ LocalsAt("parse_simple_stmt", "expr") = 1
      /\ LocalsAt("parse_stmt_for", "next") = 1
      /\ LocalsAt("parse_stmt_switch_case", "labels") = 2
  BY DEF LocalsAt, Inner
<1>3. \A x, f, l : /\ LocalsAt(f, l) = 0 => Before(x, f, l) = x
                   /\ LocalsAt(f, l) = 1 /\ f # "parse_expr_operand" => Before(x, f, l) = Over(x, "tree")
                   /\ LocalsAt(f, l) = 1 /\ f = "parse_expr_operand" => Before(x, f, l) = Over(x, "tok")
                   /\ LocalsAt(f, l) = 2 => Before(x, f, l) = Over(Over(x, "flag"), "list")
                   /\ LocalsAt(f, l) = 3 => Before(x, f, l) = Over(Over(Over(x, "tree"), "tree"), "list")
  BY DEF Before
<1> QED BY <1>1, <1>2, <1>3

(* A call leaves one tree in place of what it finds. *)
LEMMA RestItem ==
  \A x, l : \A f \in Functions \union Inner :
    /\ Ready(Before(x, f, l), Rest(f, l)) /\ After(Before(x, f, l), Rest(f, l)) = Over(x, "tree")
    /\ \A y : Ready(y, Rest(f, l)) => \E z : y = Before(z, f, l)
<1> SUFFICES ASSUME NEW x, NEW l, NEW f \in Functions \union Inner
             PROVE  /\ Ready(Before(x, f, l), Rest(f, l))
                       /\ After(Before(x, f, l), Rest(f, l)) = Over(x, "tree")
                    /\ \A y : Ready(y, Rest(f, l)) => \E z : y = Before(z, f, l)
  OBVIOUS
<1>1. Below(Before(x, f, l), LocalsAt(f, l)) = x
  <2>1. LocalsAt(f, l) \in {0, 1, 2, 3}
    BY DEF LocalsAt
  <2>2. CASE LocalsAt(f, l) = 0
    BY <2>2, Overs DEF Before
  <2>3. CASE LocalsAt(f, l) = 1
    BY <2>3, Overs DEF Before
  <2>4. CASE LocalsAt(f, l) = 2
    BY <2>4, Overs DEF Before
  <2>5. CASE LocalsAt(f, l) = 3
    BY <2>5, Overs DEF Before
  <2> QED BY <2>1, <2>2, <2>3, <2>4, <2>5
<1>2. ASSUME NEW y, Ready(y, Rest(f, l)) PROVE \E z : y = Before(z, f, l)
  <2>1. PICK it : it = Rest(f, l)
    OBVIOUS
  <2>2. it[1] = f /\ it[2] = l
    BY <2>1 DEF Rest
  <2>3. Ready(y, it) /\ it[1] \in Functions \union Inner
    BY <1>2, <2>1, <2>2
  <2>4. it[1] \notin {"Expect", "Make", "Push", "PushBack", "ast_dup", "Unless", "IfMatch", "List",
        "More", "Each"}
    BY <2>3 DEF Functions, Inner
  <2>5. \E z : y = Before(z, it[1], it[2])
    BY <2>3, <2>4 DEF Ready
  <2> QED BY <2>2, <2>5
<1> QED BY <1>1, <1>2, RestReady

LEMMA RestCosts ==
  /\ \A f \in Functions \union Inner : Cost(Rest(f, "begin")) = CallCost(f)
  /\ \A f \in Loops : Cost(Rest(f, "loop")) = 0
  /\ Cost(Rest("parse_expr_operand", "name")) = 1
  /\ Cost(Rest("parse_expr_operand", "sizeof")) = 0
  /\ Cost(Rest("parse_expr_operand", "paren")) = 0
  /\ Cost(Rest("parse_expr_ternary", "question")) = 0
  /\ Cost(Rest("parse_decl_aggregate", "struct")) = 0
  /\ Cost(Rest("parse_decl_aggregate", "union")) = 0
  /\ Cost(Rest("parse_decl_var", "name")) = 0
  /\ Cost(Rest("parse_stmt_if", "loop")) = 2
  /\ Cost(Rest("parse_stmt_if", "else")) = 1
  /\ Cost(Rest("parse_stmt_do_while", "while")) = 0
  /\ Cost(Rest("parse_simple_stmt", "expr")) = 1
  /\ Cost(Rest("parse_stmt_for", "next")) = 0
  /\ Cost(Rest("parse_stmt_switch_case", "labels")) = -2
<1>1. \A f, l : Rest(f, l)[1] = f /\ Rest(f, l)[2] = l
  BY DEF Rest
<1>2. \A f \in Functions \union Inner : \A l :
        Cost(Rest(f, l)) = IF l = "begin" THEN CallCost(f) ELSE RestCost(f, l)
  <2> SUFFICES ASSUME NEW f \in Functions \union Inner, NEW l, NEW it, it = Rest(f, l)
               PROVE  Cost(it) = IF l = "begin" THEN CallCost(f) ELSE RestCost(f, l)
    OBVIOUS
  <2>1. it[1] = f /\ it[2] = l
    BY <1>1
  <2> QED BY <2>1 DEF Cost, Functions, Inner
<1>3. /\ \A f \in Loops : f \in Functions /\ RestCost(f, "loop") = 0
      /\ RestCost("parse_expr_operand", "name") = 1
      /\ RestCost("parse_expr_operand", "sizeof") = 0
      /\ RestCost("parse_expr_operand", "paren") = 0
      /\ RestCost("parse_expr_ternary", "question") = 0
      /\ RestCost("parse_decl_aggregate", "struct") = 0
      /\ RestCost("parse_decl_aggregate", "union") = 0
      /\ RestCost("parse_decl_var", "name") = 0
      /\ RestCost("parse_stmt_if", "loop") = 2
      /\ RestCost("parse_stmt_if", "else") = 1
      /\ RestCost("parse_stmt_do_while", "while") = 0
      /\ RestCost("parse_simple_stmt", "expr") = 1
      /\ RestCost("parse_stmt_for", "next") = 0
      /\ RestCost("parse_stmt_switch_case", "labels") = -2
  BY DEF RestCost, Loops, Functions
<1>4. {"parse_expr_operand", "parse_expr_ternary", "parse_decl_aggregate", "parse_decl_var",
       "parse_stmt_if", "parse_stmt_do_while", "parse_simple_stmt", "parse_stmt_for",
       "parse_stmt_switch_case"} \subseteq Functions
  BY DEF Functions
<1> HIDE DEF RestCost, Functions, Inner
<1> QED BY <1>2, <1>3, <1>4

LEMMA RestIs == \A f, l : <<f, l>> = Rest(f, l)
BY DEF Rest

LEMMA LoopItem ==
  \A y, f : f \in Loops /\ Is(y, "tree") =>
    Ready(y, <<f, "loop">>) /\ After(y, <<f, "loop">>) = y /\ Cost(<<f, "loop">>) = 0
<1>1. Loops \subseteq Functions
  BY DEF Loops, Functions
<1>2. \A y : Is(y, "tree") => y = Over(Under(y), "tree")
  BY DEF Is, Under
<1> QED BY <1>1, <1>2, RestIs, RestItem, RestCosts, Befores

LEMMA OperandItem ==
  /\ \A y : Is(y, "tok") =>
       /\ Ready(y, <<"parse_expr_operand", "name">>)
       /\ After(y, <<"parse_expr_operand", "name">>) = Over(Under(y), "tree")
  /\ \A x : /\ Ready(x, <<"parse_expr_operand", "sizeof">>)
            /\ After(x, <<"parse_expr_operand", "sizeof">>) = Over(x, "tree")
            /\ Ready(x, <<"parse_expr_operand", "paren">>)
            /\ After(x, <<"parse_expr_operand", "paren">>) = Over(x, "tree")
  /\ Cost(<<"parse_expr_operand", "name">>) = 1
  /\ Cost(<<"parse_expr_operand", "sizeof">>) = 0
  /\ Cost(<<"parse_expr_operand", "paren">>) = 0
<1>1. "parse_expr_operand" \in Functions
  BY DEF Functions
<1>2. \A x : /\ Before(x, "parse_expr_operand", "name") = Over(x, "tok")
            /\ Before(x, "parse_expr_operand", "sizeof") = x
            /\ Before(x, "parse_expr_operand", "paren") = x
  BY Befores
<1>3. \A y : Is(y, "tok") => y = Over(Under(y), "tok")
  BY DEF Is, Under
<1>4. \A y : Is(y, "tok") =>
        /\ Ready(y, <<"parse_expr_operand", "name">>)
        /\ After(y, <<"parse_expr_operand", "name">>) = Over(Under(y), "tree")
  BY <1>1, <1>2, <1>3, RestIs, RestItem
<1>5. \A x : /\ Ready(x, <<"parse_expr_operand", "sizeof">>)
            /\ After(x, <<"parse_expr_operand", "sizeof">>) = Over(x, "tree")
            /\ Ready(x, <<"parse_expr_operand", "paren">>)
            /\ After(x, <<"parse_expr_operand", "paren">>) = Over(x, "tree")
  <2> TAKE x
  <2>1. \A l : /\ Ready(Before(x, "parse_expr_operand", l), <<"parse_expr_operand", l>>)
              /\ After(Before(x, "parse_expr_operand", l), <<"parse_expr_operand", l>>) = Over(x, "tree")
    BY <1>1, RestIs, RestItem
  <2> QED BY <1>2, <2>1
<1>6. /\ Cost(<<"parse_expr_operand", "name">>) = 1
      /\ Cost(<<"parse_expr_operand", "sizeof">>) = 0
      /\ Cost(<<"parse_expr_operand", "paren">>) = 0
  BY RestIs, RestCosts
<1> QED BY <1>4, <1>5, <1>6

LEMMA AggregateItem ==
  \A x, kind : kind \in {"struct", "union"} =>
    /\ Ready(x, <<"parse_decl_aggregate", kind>>)
    /\ After(x, <<"parse_decl_aggregate", kind>>) = Over(x, "tree")
    /\ Cost(<<"parse_decl_aggregate", kind>>) = 0
<1> TAKE x
<1>1. "parse_decl_aggregate" \in Functions
  BY DEF Functions
<1>2. /\ Before(x, "parse_decl_aggregate", "struct") = x
      /\ Before(x, "parse_decl_aggregate", "union") = x
  BY Befores
<1> QED BY <1>1, <1>2, RestIs, RestItem, RestCosts

(* The rests that find a tree. *)
LEMMA TreeItem ==
  \A y : Is(y, "tree") =>
    /\ Ready(y, <<"parse_expr_ternary", "question">>)
    /\ After(y, <<"parse_expr_ternary", "question">>) = y
    /\ Cost(<<"parse_expr_ternary", "question">>) = 0
    /\ Ready(y, <<"parse_decl_var", "name">>)
    /\ After(y, <<"parse_decl_var", "name">>) = y
    /\ Cost(<<"parse_decl_var", "name">>) = 0
    /\ Ready(y, <<"parse_stmt_do_while", "while">>)
    /\ After(y, <<"parse_stmt_do_while", "while">>) = y
    /\ Cost(<<"parse_stmt_do_while", "while">>) = 0
    /\ Ready(y, <<"parse_simple_stmt", "expr">>)
    /\ After(y, <<"parse_simple_stmt", "expr">>) = y
    /\ Cost(<<"parse_simple_stmt", "expr">>) = 1
    /\ Ready(y, <<"parse_stmt_for", "next">>)
    /\ After(y, <<"parse_stmt_for", "next">>) = y
    /\ Cost(<<"parse_stmt_for", "next">>) = 0
<1>1. {"parse_expr_ternary", "parse_decl_var", "parse_stmt_do_while", "parse_simple_stmt",
       "parse_stmt_for"} \subseteq Functions
  BY DEF Functions
<1>2. \A y : Is(y, "tree") => y = Over(Under(y), "tree")
  BY DEF Is, Under
<1> QED BY <1>1, <1>2, RestIs, RestItem, RestCosts, Befores

(* Those that find a vector below which there is more. *)
LEMMA IfItem ==
  \A y : Is(y, "list") /\ Is(Under(y), "tree") /\ Is(Under(Under(y)), "tree") =>
    /\ Ready(y, <<"parse_stmt_if", "loop">>)
    /\ After(y, <<"parse_stmt_if", "loop">>) = Under(Under(y))
    /\ Cost(<<"parse_stmt_if", "loop">>) = 2
    /\ Ready(y, <<"parse_stmt_if", "else">>)
    /\ After(y, <<"parse_stmt_if", "else">>) = Under(Under(y))
    /\ Cost(<<"parse_stmt_if", "else">>) = 1
<1> SUFFICES ASSUME NEW y, Is(y, "list"), Is(Under(y), "tree"), Is(Under(Under(y)), "tree")
             PROVE  /\ Ready(y, <<"parse_stmt_if", "loop">>)
                    /\ After(y, <<"parse_stmt_if", "loop">>) = Under(Under(y))
                    /\ Cost(<<"parse_stmt_if", "loop">>) = 2
                    /\ Ready(y, <<"parse_stmt_if", "else">>)
                    /\ After(y, <<"parse_stmt_if", "else">>) = Under(Under(y))
                    /\ Cost(<<"parse_stmt_if", "else">>) = 1
  OBVIOUS
<1>1. "parse_stmt_if" \in Functions
  BY DEF Functions
<1>2. PICK x : Under(Under(y)) = Over(x, "tree") /\ y = Over(Over(Over(x, "tree"), "tree"), "list")
  BY DEF Is, Under
<1> QED BY <1>1, <1>2, RestIs, RestItem, RestCosts, Befores

LEMMA LabelsItem ==
  \A y : Is(y, "list") /\ Is(Under(y), "flag") =>
    /\ Ready(y, <<"parse_stmt_switch_case", "labels">>)
    /\ After(y, <<"parse_stmt_switch_case", "labels">>) = Over(Under(Under(y)), "tree")
    /\ Cost(<<"parse_stmt_switch_case", "labels">>) = -2
<1> SUFFICES ASSUME NEW y, Is(y, "list"), Is(Under(y), "flag")
             PROVE  /\ Ready(y, <<"parse_stmt_switch_case", "labels">>)
                    /\ After(y, <<"parse_stmt_switch_case", "labels">>) = Over(Under(Under(y)), "tree")
                    /\ Cost(<<"parse_stmt_switch_case", "labels">>) = -2
  OBVIOUS
<1>1. "parse_stmt_switch_case" \in Functions
  BY DEF Functions
<1>2. PICK x : x = Under(Under(y)) /\ y = Over(Over(x, "flag"), "list")
  BY DEF Is, Under
<1> QED BY <1>1, <1>2, RestIs, RestItem, RestCosts, Befores

(* What the idiom at hand finds, leaves and costs. *)
LEMMA IdiomReady ==
  ASSUME NEW x, NEW it, Ready(x, it)
  PROVE  /\ it[1] = "Expect" => Mark(it[2])
         /\ it[1] = "Make" => Kinds(x, it[2], it[3])
         /\ it[1] = "Push" => it[2] \in {Null, Empty, EmptyBlock, <<"false">>}
         /\ it[1] = "PushBack" => \E y : x = Over(Over(y, "list"), "tree")
         /\ it[1] = "ast_dup" => \/ it[2] = 0 /\ \E y : x = Over(y, "list")
                                 \/ it[2] = 1 /\ \E y, k : x = Over(Over(y, "list"), k)
         /\ it[1] = "Unless" => it[3] \in Plain
         /\ it[1] = "IfMatch" => it[3] \in Plain /\ Mark(it[2])
         /\ it[1] = "List" => it[2] \in Plain
         /\ it[1] = "More" => it[2] \in Plain /\ \E y : x = Over(Over(y, "list"), "tree")
         /\ it[1] = "Each" => it[2] \in Plain /\ \E y : x = Over(y, "list")
<1>1. \A f \in Functions \union Inner :
        f \notin {"Expect", "Make", "Push", "PushBack", "ast_dup", "Unless", "IfMatch", "List", "More",
          "Each"}
  BY DEF Functions, Inner
<1> HIDE DEF Functions, Inner, Mark, Plain, Kinds, Over, Null, Empty, EmptyBlock
<1> QED BY <1>1 DEF Ready

LEMMA IdiomAfter ==
  ASSUME NEW x, NEW it
  PROVE  /\ it[1] \in {"Expect", "Each"} => After(x, it) = x
         /\ it[1] = "Make" => After(x, it) = Over(Below(x, it[3]), "tree")
         /\ it[1] = "Push" => After(x, it) = Over(x, KindOf(it[2]))
         /\ it[1] \in {"PushBack", "More"} => After(x, it) = Below(x, 1)
         /\ it[1] = "ast_dup" => After(x, it) = Copying(x, it[2])
         /\ it[1] \in {"Unless", "IfMatch"} => After(x, it) = Over(x, "tree")
         /\ it[1] = "List" => After(x, it) = Over(x, "list")
<1> HIDE DEF Over, Below, KindOf, Copying
<1> QED BY DEF After

LEMMA IdiomCost ==
  ASSUME NEW it
  PROVE  /\ it[1] = "Expect" => Cost(it) = -4
         /\ it[1] \in {"Make", "Push", "Unless", "IfMatch", "List"} => Cost(it) = 1
         /\ it[1] \in {"PushBack", "More", "ast_dup", "Each"} => Cost(it) = 0
BY DEF Cost

(* The names that the parser uses are among those the lemmas are about. *)
LEMMA MarksIn ==
  /\ "LPAREN" \in Marks /\ "RPAREN" \in Marks /\ "LBRACE" \in Marks /\ "RBRACE" \in Marks
  /\ "RBRACKET" \in Marks /\ "COLON" \in Marks /\ "SEMICOLON" \in Marks /\ "ASSIGN" \in Marks
BY DEF Marks

LEMMA FunctionsIn ==
  /\ "parse_type_func" \in Functions /\ "parse_type_base" \in Functions
  /\ "parse_type" \in Functions /\ "parse_expr_operand" \in Functions
  /\ "parse_expr_base" \in Functions /\ "parse_expr_unary" \in Functions
  /\ "parse_expr_mul" \in Functions /\ "parse_expr_add" \in Functions
  /\ "parse_expr_cmp" \in Functions /\ "parse_expr_and" \in Functions
  /\ "parse_expr_or" \in Functions /\ "parse_expr_ternary" \in Functions
  /\ "parse_expr" \in Functions /\ "parse_paren_expr" \in Functions /\ "parse_name" \in Functions
  /\ "parse_decl_enum_item" \in Functions /\ "parse_decl_enum" \in Functions
  /\ "parse_decl_aggregate_item" \in Functions /\ "parse_decl_aggregate" \in Functions
  /\ "parse_decl_var" \in Functions /\ "parse_decl_const" \in Functions
  /\ "parse_decl_typedef" \in Functions /\ "parse_stmt_if" \in Functions
  /\ "parse_stmt_while" \in Functions /\ "parse_stmt_do_while" \in Functions
  /\ "parse_simple_stmt" \in Functions /\ "parse_stmt_for" \in Functions
  /\ "parse_stmt_switch_case" \in Functions /\ "parse_stmt_switch" \in Functions
  /\ "parse_stmt" \in Functions /\ "parse_stmt_block" \in Functions
  /\ "parse_decl_func_param" \in Functions /\ "parse_decl_func" \in Functions
  /\ "parse_decl_opt" \in Functions /\ "parse_decl" \in Functions
BY DEF Functions

LEMMA PlainIn ==
  /\ "parse_type_func" \in Plain /\ "parse_type_base" \in Plain /\ "parse_type" \in Plain
  /\ "parse_expr_operand" \in Plain /\ "parse_expr_base" \in Plain
  /\ "parse_expr_unary" \in Plain /\ "parse_expr_mul" \in Plain /\ "parse_expr_add" \in Plain
  /\ "parse_expr_cmp" \in Plain /\ "parse_expr_and" \in Plain /\ "parse_expr_or" \in Plain
  /\ "parse_expr_ternary" \in Plain /\ "parse_expr" \in Plain /\ "parse_paren_expr" \in Plain
  /\ "parse_name" \in Plain /\ "parse_decl_enum_item" \in Plain /\ "parse_decl_enum" \in Plain
  /\ "parse_decl_aggregate_item" \in Plain /\ "parse_decl_aggregate" \in Plain
  /\ "parse_decl_var" \in Plain /\ "parse_decl_const" \in Plain /\ "parse_decl_typedef" \in Plain
  /\ "parse_stmt_while" \in Plain /\ "parse_stmt_do_while" \in Plain
  /\ "parse_simple_stmt" \in Plain /\ "parse_stmt_for" \in Plain
  /\ "parse_stmt_switch_case" \in Plain /\ "parse_stmt_switch" \in Plain
  /\ "parse_stmt" \in Plain /\ "parse_stmt_block" \in Plain /\ "parse_decl_func_param" \in Plain
  /\ "parse_decl_func" \in Plain /\ "parse_decl_opt" \in Plain /\ "parse_decl" \in Plain
BY DEF Functions, Plain

LEMMA LoopsIn ==
  /\ "parse_type" \in Loops /\ "parse_expr_base" \in Loops /\ "parse_expr_mul" \in Loops
  /\ "parse_expr_add" \in Loops /\ "parse_expr_cmp" \in Loops /\ "parse_expr_and" \in Loops
  /\ "parse_expr_or" \in Loops
BY DEF Loops

LEMMA PlainlyIn ==
  /\ Plainly("AggregateItem") /\ Plainly("ElseIf") /\ Plainly("EnumItem") /\ Plainly("FuncParam")
  /\ Plainly("SwitchCase") /\ Plainly("decl_const") /\ Plainly("decl_enum")
  /\ Plainly("decl_func") /\ Plainly("decl_typedef") /\ Plainly("decl_var")
  /\ Plainly("expr_binary") /\ Plainly("expr_call") /\ Plainly("expr_compound")
  /\ Plainly("expr_field") /\ Plainly("expr_float") /\ Plainly("expr_index")
  /\ Plainly("expr_int") /\ Plainly("expr_sizeof_expr") /\ Plainly("expr_sizeof_type")
  /\ Plainly("expr_str") /\ Plainly("expr_ternary") /\ Plainly("expr_unary")
  /\ Plainly("stmt_assign") /\ Plainly("stmt_block") /\ Plainly("stmt_break")
  /\ Plainly("stmt_continue") /\ Plainly("stmt_decl") /\ Plainly("stmt_do_while")
  /\ Plainly("stmt_expr") /\ Plainly("stmt_for") /\ Plainly("stmt_if") /\ Plainly("stmt_init")
  /\ Plainly("stmt_return") /\ Plainly("stmt_switch") /\ Plainly("stmt_while")
  /\ Plainly("struct") /\ Plainly("typespec_array") /\ Plainly("typespec_func")
  /\ Plainly("typespec_name") /\ Plainly("typespec_ptr") /\ Plainly("union")
BY DEF Plainly

(* One item after the other. *)
LEMMA Runs1 ==
  \A x, y : \A n \in Int : \A a :
    Ready(x, a) /\ y = After(x, a) /\ Cost(a) <= n => Runs(<<a>>, x, y, n)
<1> SUFFICES ASSUME NEW x, NEW y, NEW n \in Int, NEW a, Ready(x, a), y = After(x, a), Cost(a) <= n
             PROVE  Runs(<<a>>, x, y, n)
  OBVIOUS
<1>1. PICK s : s = <<a>>
  OBVIOUS
<1>2. IsSeq(s) /\ s # << >> /\ Head(s) = a /\ Tail(s) = << >>
  BY <1>1, Single, Tails
<1>3. Ready(x, Head(s)) /\ Runs(Tail(s), After(x, Head(s)), y, 0)
  BY <1>2, RunsEmpty
<1>5. Cost(Head(s)) + 0 <= n
  BY <1>2, CostInt
<1>4. Runs(s, x, y, n)
  BY <1>2, <1>3, <1>5, RunsCons
<1> QED BY <1>1, <1>4

LEMMA Runs2 ==
  \A x, y : \A n \in Int : \A a, b :
    LET x1 == After(x, a)
    IN  Ready(x, a) /\ Ready(x1, b) /\ y = After(x1, b)
        /\ Cost(a) + Cost(b) <= n
          => Runs(<<a, b>>, x, y, n)
<1> SUFFICES ASSUME NEW x, NEW y, NEW n \in Int,
                     NEW a, NEW b,
                     NEW x1,
                     x1 = After(x, a),
                     Ready(x, a), Ready(x1, b), y = After(x1, b),
                     Cost(a) + Cost(b) <= n
             PROVE  Runs(<<a, b>>, x, y, n)
  OBVIOUS
<1>1. PICK s \in Seq({a, b}) : s = <<a, b>>
  <2> WITNESS <<a, b>> \in Seq({a, b})
  <2> QED OBVIOUS
<1>2. IsSeq(s) /\ Head(s) = a /\ Tail(s) = <<b>> /\ s # << >>
  <2>1. IsSeq(s)
    BY DEF IsSeq
  <2> QED BY <1>1, <2>1
<1>3. Cost(a) \in Int /\ Cost(b) \in Int
  BY CostInt
<1>4. PICK m \in Int : m = Cost(b)
  BY <1>3
<1>5. Runs(<<b>>, After(x, a), y, m)
  BY <1>3, <1>4, Runs1
<1>6. Cost(Head(s)) + m <= n
  BY <1>2, <1>3, <1>4
<1>7. Runs(s, x, y, n)
  <2>1. Ready(x, Head(s)) /\ Runs(Tail(s), After(x, Head(s)), y, m)
    BY <1>2, <1>5
  <2> QED BY <1>2, <1>6, <2>1, RunsCons
<1> QED BY <1>1, <1>7

LEMMA Runs3 ==
  \A x, y : \A n \in Int : \A a, b, c :
    LET x1 == After(x, a)  x2 == After(x1, b)
    IN  Ready(x, a) /\ Ready(x1, b) /\ Ready(x2, c) /\ y = After(x2, c)
        /\ Cost(a) + (Cost(b) + Cost(c)) <= n
          => Runs(<<a, b, c>>, x, y, n)
<1> SUFFICES ASSUME NEW x, NEW y, NEW n \in Int,
                     NEW a, NEW b, NEW c,
                     NEW x1, NEW x2,
                     x1 = After(x, a), x2 = After(x1, b),
                     Ready(x, a), Ready(x1, b), Ready(x2, c), y = After(x2, c),
                     Cost(a) + (Cost(b) + Cost(c)) <= n
             PROVE  Runs(<<a, b, c>>, x, y, n)
  OBVIOUS
<1>1. PICK s \in Seq({a, b, c}) : s = <<a, b, c>>
  <2> WITNESS <<a, b, c>> \in Seq({a, b, c})
  <2> QED OBVIOUS
<1>2. IsSeq(s) /\ Head(s) = a /\ Tail(s) = <<b, c>> /\ s # << >>
  <2>1. IsSeq(s)
    BY DEF IsSeq
  <2> QED BY <1>1, <2>1
<1>3. Cost(a) \in Int /\ Cost(b) \in Int /\ Cost(c) \in Int
  BY CostInt
<1>4. PICK m \in Int : m = Cost(b) + Cost(c)
  BY <1>3
<1>5. Runs(<<b, c>>, After(x, a), y, m)
  BY <1>3, <1>4, Runs2
<1>6. Cost(Head(s)) + m <= n
  BY <1>2, <1>3, <1>4
<1>7. Runs(s, x, y, n)
  <2>1. Ready(x, Head(s)) /\ Runs(Tail(s), After(x, Head(s)), y, m)
    BY <1>2, <1>5
  <2> QED BY <1>2, <1>6, <2>1, RunsCons
<1> QED BY <1>1, <1>7

LEMMA Runs4 ==
  \A x, y : \A n \in Int : \A a, b, c, d :
    LET x1 == After(x, a)  x2 == After(x1, b)  x3 == After(x2, c)
    IN  Ready(x, a) /\ Ready(x1, b) /\ Ready(x2, c) /\ Ready(x3, d) /\ y = After(x3, d)
        /\ Cost(a) + (Cost(b) + (Cost(c) + Cost(d))) <= n
          => Runs(<<a, b, c, d>>, x, y, n)
<1> SUFFICES ASSUME NEW x, NEW y, NEW n \in Int,
                     NEW a, NEW b, NEW c, NEW d,
                     NEW x1, NEW x2, NEW x3,
                     x1 = After(x, a), x2 = After(x1, b), x3 = After(x2, c),
                     Ready(x, a), Ready(x1, b), Ready(x2, c), Ready(x3, d), y = After(x3, d),
                     Cost(a) + (Cost(b) + (Cost(c) + Cost(d))) <= n
             PROVE  Runs(<<a, b, c, d>>, x, y, n)
  OBVIOUS
<1>1. PICK s \in Seq({a, b, c, d}) : s = <<a, b, c, d>>
  <2> WITNESS <<a, b, c, d>> \in Seq({a, b, c, d})
  <2> QED OBVIOUS
<1>2. IsSeq(s) /\ Head(s) = a /\ Tail(s) = <<b, c, d>> /\ s # << >>
  <2>1. IsSeq(s)
    BY DEF IsSeq
  <2> QED BY <1>1, <2>1
<1>3. Cost(a) \in Int /\ Cost(b) \in Int /\ Cost(c) \in Int /\ Cost(d) \in Int
  BY CostInt
<1>4. PICK m \in Int : m = Cost(b) + (Cost(c) + Cost(d))
  BY <1>3
<1>5. Runs(<<b, c, d>>, After(x, a), y, m)
  BY <1>3, <1>4, Runs3
<1>6. Cost(Head(s)) + m <= n
  BY <1>2, <1>3, <1>4
<1>7. Runs(s, x, y, n)
  <2>1. Ready(x, Head(s)) /\ Runs(Tail(s), After(x, Head(s)), y, m)
    BY <1>2, <1>5
  <2> QED BY <1>2, <1>6, <2>1, RunsCons
<1> QED BY <1>1, <1>7

LEMMA Runs5 ==
  \A x, y : \A n \in Int : \A a, b, c, d, e :
    LET x1 == After(x, a)  x2 == After(x1, b)  x3 == After(x2, c)  x4 == After(x3, d)
    IN  Ready(x, a) /\ Ready(x1, b) /\ Ready(x2, c) /\ Ready(x3, d) /\ Ready(x4, e)
        /\ y = After(x4, e)
        /\ Cost(a) + (Cost(b) + (Cost(c) + (Cost(d) + Cost(e)))) <= n
          => Runs(<<a, b, c, d, e>>, x, y, n)
<1> SUFFICES ASSUME NEW x, NEW y, NEW n \in Int,
                     NEW a, NEW b, NEW c, NEW d, NEW e,
                     NEW x1, NEW x2, NEW x3, NEW x4,
                     x1 = After(x, a), x2 = After(x1, b), x3 = After(x2, c), x4 = After(x3, d),
                     Ready(x, a), Ready(x1, b), Ready(x2, c), Ready(x3, d), Ready(x4, e),
                       y = After(x4, e),
                     Cost(a) + (Cost(b) + (Cost(c) + (Cost(d) + Cost(e)))) <= n
             PROVE  Runs(<<a, b, c, d, e>>, x, y, n)
  OBVIOUS
<1>1. PICK s \in Seq({a, b, c, d, e}) : s = <<a, b, c, d, e>>
  <2> WITNESS <<a, b, c, d, e>> \in Seq({a, b, c, d, e})
  <2> QED OBVIOUS
<1>2. IsSeq(s) /\ Head(s) = a /\ Tail(s) = <<b, c, d, e>> /\ s # << >>
  <2>1. IsSeq(s)
    BY DEF IsSeq
  <2> QED BY <1>1, <2>1
<1>3. Cost(a) \in Int /\ Cost(b) \in Int /\ Cost(c) \in Int /\ Cost(d) \in Int /\ Cost(e) \in Int
  BY CostInt
<1>4. PICK m \in Int : m = Cost(b) + (Cost(c) + (Cost(d) + Cost(e)))
  BY <1>3
<1>5. Runs(<<b, c, d, e>>, After(x, a), y, m)
  BY <1>3, <1>4, Runs4
<1>6. Cost(Head(s)) + m <= n
  BY <1>2, <1>3, <1>4
<1>7. Runs(s, x, y, n)
  <2>1. Ready(x, Head(s)) /\ Runs(Tail(s), After(x, Head(s)), y, m)
    BY <1>2, <1>5
  <2> QED BY <1>2, <1>6, <2>1, RunsCons
<1> QED BY <1>1, <1>7

LEMMA Runs6 ==
  \A x, y : \A n \in Int : \A a, b, c, d, e, f :
    LET x1 == After(x, a)  x2 == After(x1, b)  x3 == After(x2, c)  x4 == After(x3, d)
        x5 == After(x4, e)
    IN  Ready(x, a) /\ Ready(x1, b) /\ Ready(x2, c) /\ Ready(x3, d) /\ Ready(x4, e)
        /\ Ready(x5, f) /\ y = After(x5, f)
        /\ Cost(a) + (Cost(b) + (Cost(c) + (Cost(d) + (Cost(e) + Cost(f))))) <= n
          => Runs(<<a, b, c, d, e, f>>, x, y, n)
<1> SUFFICES ASSUME NEW x, NEW y, NEW n \in Int,
                     NEW a, NEW b, NEW c, NEW d, NEW e, NEW f,
                     NEW x1, NEW x2, NEW x3, NEW x4, NEW x5,
                     x1 = After(x, a), x2 = After(x1, b), x3 = After(x2, c), x4 = After(x3, d)
                     , x5 = After(x4, e),
                     Ready(x, a), Ready(x1, b), Ready(x2, c), Ready(x3, d), Ready(x4, e)
                     , Ready(x5, f), y = After(x5, f),
                     Cost(a) + (Cost(b) + (Cost(c) + (Cost(d) + (Cost(e) + Cost(f))))) <= n
             PROVE  Runs(<<a, b, c, d, e, f>>, x, y, n)
  OBVIOUS
<1>1. PICK s \in Seq({a, b, c, d, e, f}) : s = <<a, b, c, d, e, f>>
  <2> WITNESS <<a, b, c, d, e, f>> \in Seq({a, b, c, d, e, f})
  <2> QED OBVIOUS
<1>2. IsSeq(s) /\ Head(s) = a /\ Tail(s) = <<b, c, d, e, f>> /\ s # << >>
  <2>1. IsSeq(s)
    BY DEF IsSeq
  <2> QED BY <1>1, <2>1
<1>3. Cost(a) \in Int /\ Cost(b) \in Int /\ Cost(c) \in Int /\ Cost(d) \in Int /\ Cost(e) \in Int
      /\ Cost(f) \in Int
  BY CostInt
<1>4. PICK m \in Int : m = Cost(b) + (Cost(c) + (Cost(d) + (Cost(e) + Cost(f))))
  BY <1>3
<1>5. Runs(<<b, c, d, e, f>>, After(x, a), y, m)
  BY <1>3, <1>4, Runs5
<1>6. Cost(Head(s)) + m <= n
  BY <1>2, <1>3, <1>4
<1>7. Runs(s, x, y, n)
  <2>1. Ready(x, Head(s)) /\ Runs(Tail(s), After(x, Head(s)), y, m)
    BY <1>2, <1>5
  <2> QED BY <1>2, <1>6, <2>1, RunsCons
<1> QED BY <1>1, <1>7

Joint(s, t, u) ==
  /\ AreSeqs(s, t, u) /\ Len(u) = Len(s) + Len(t)
  /\ \A i \in 1 .. Len(s) : u[i] = s[i]
  /\ \A i \in 1 .. Len(t) : u[Len(s) + i] = t[i]

LEMMA Joined ==
  ASSUME NEW s, NEW t, NEW u, Joint(s, t, u)
  PROVE  s \o t = u
<1>1. /\ IsSeq(s) /\ IsSeq(t) /\ IsSeq(u) /\ Len(s) \in Nat /\ Len(t) \in Nat
      /\ Len(u) = Len(s) + Len(t)
      /\ \A i \in 1 .. Len(s) : u[i] = s[i]
      /\ \A i \in 1 .. Len(t) : u[Len(s) + i] = t[i]
  BY Lengths DEF AreSeqs, Joint
<1> DEFINE z == s \o t
<1>2. /\ IsSeq(z) /\ Len(z) = Len(u)
      /\ \A i \in 1 .. Len(s) : z[i] = s[i]
      /\ \A i \in 1 .. Len(t) : z[Len(s) + i] = t[i]
  BY <1>1, Concats
<1> HIDE DEF z
<1>3. \A i \in 1 .. Len(z) : z[i] = u[i]
  <2> TAKE i \in 1 .. Len(z)
  <2>1. i \in 1 .. Len(s) \/ (i - Len(s) \in 1 .. Len(t) /\ i = Len(s) + (i - Len(s)))
    BY <1>1, <1>2
  <2>2. CASE i \in 1 .. Len(s)
    BY <1>1, <1>2, <2>2
  <2>3. CASE i - Len(s) \in 1 .. Len(t) /\ i = Len(s) + (i - Len(s))
    <3>1. PICK j \in 1 .. Len(t) : i = Len(s) + j
      BY <2>3
    <3> QED BY <1>1, <1>2, <3>1
  <2> QED BY <2>1, <2>2, <2>3
<1>4. z = u
  BY <1>1, <1>2, <1>3, SameSeq
<1> QED BY <1>4 DEF z

LEMMA Joins7 ==
  \A a, b, c, d, e, f, g :
    <<a, b, c, d>> \o <<e, f, g>> = <<a, b, c, d, e, f, g>>
<1> TAKE a, b, c, d, e, f, g
<1>1. PICK s : s = <<a, b, c, d>> /\ IsSeq(s)
  <2>1. PICK z \in Seq({a, b, c, d, e, f, g}) : z = <<a, b, c, d>>
    <3> WITNESS <<a, b, c, d>> \in Seq({a, b, c, d, e, f, g})
    <3> QED OBVIOUS
  <2> QED BY <2>1 DEF IsSeq
<1>2. PICK t : t = <<e, f, g>> /\ IsSeq(t)
  <2>1. PICK z \in Seq({a, b, c, d, e, f, g}) : z = <<e, f, g>>
    <3> WITNESS <<e, f, g>> \in Seq({a, b, c, d, e, f, g})
    <3> QED OBVIOUS
  <2> QED BY <2>1 DEF IsSeq
<1>3. PICK u : u = <<a, b, c, d, e, f, g>> /\ IsSeq(u)
  <2>1. PICK z \in Seq({a, b, c, d, e, f, g}) : z = <<a, b, c, d, e, f, g>>
    <3> WITNESS <<a, b, c, d, e, f, g>> \in Seq({a, b, c, d, e, f, g})
    <3> QED OBVIOUS
  <2> QED BY <2>1 DEF IsSeq
<1>4. AreSeqs(s, t, u)
  BY <1>1, <1>2, <1>3 DEF AreSeqs
<1>5. /\ Len(s) = 4 /\ Len(t) = 3 /\ Len(u) = 7
      /\ u[1] = s[1] /\ u[2] = s[2] /\ u[3] = s[3] /\ u[4] = s[4]
      /\ u[5] = t[1] /\ u[6] = t[2] /\ u[7] = t[3]
  BY <1>1, <1>2, <1>3
<1>6. /\ \A i \in 1 .. Len(s) : u[i] = s[i]
      /\ \A i \in 1 .. Len(t) : u[Len(s) + i] = t[i]
  BY <1>5
<1>7. Len(u) = Len(s) + Len(t)
  BY <1>5
<1>8. Joint(s, t, u)
  BY <1>4, <1>6, <1>7 DEF Joint
<1> QED BY <1>1, <1>2, <1>3, <1>8, Joined

LEMMA Joins8 ==
  \A a, b, c, d, e, f, g, h :
    <<a, b, c, d>> \o <<e, f, g, h>> = <<a, b, c, d, e, f, g, h>>
<1> TAKE a, b, c, d, e, f, g, h
<1>1. PICK s : s = <<a, b, c, d>> /\ IsSeq(s)
  <2>1. PICK z \in Seq({a, b, c, d, e, f, g, h}) : z = <<a, b, c, d>>
    <3> WITNESS <<a, b, c, d>> \in Seq({a, b, c, d, e, f, g, h})
    <3> QED OBVIOUS
  <2> QED BY <2>1 DEF IsSeq
<1>2. PICK t : t = <<e, f, g, h>> /\ IsSeq(t)
  <2>1. PICK z \in Seq({a, b, c, d, e, f, g, h}) : z = <<e, f, g, h>>
    <3> WITNESS <<e, f, g, h>> \in Seq({a, b, c, d, e, f, g, h})
    <3> QED OBVIOUS
  <2> QED BY <2>1 DEF IsSeq
<1>3. PICK u : u = <<a, b, c, d, e, f, g, h>> /\ IsSeq(u)
  <2>1. PICK z \in Seq({a, b, c, d, e, f, g, h}) : z = <<a, b, c, d, e, f, g, h>>
    <3> WITNESS <<a, b, c, d, e, f, g, h>> \in Seq({a, b, c, d, e, f, g, h})
    <3> QED OBVIOUS
  <2> QED BY <2>1 DEF IsSeq
<1>4. AreSeqs(s, t, u)
  BY <1>1, <1>2, <1>3 DEF AreSeqs
<1>5. /\ Len(s) = 4 /\ Len(t) = 4 /\ Len(u) = 8
      /\ u[1] = s[1] /\ u[2] = s[2] /\ u[3] = s[3] /\ u[4] = s[4]
      /\ u[5] = t[1] /\ u[6] = t[2] /\ u[7] = t[3] /\ u[8] = t[4]
  BY <1>1, <1>2, <1>3
<1>6. /\ \A i \in 1 .. Len(s) : u[i] = s[i]
      /\ \A i \in 1 .. Len(t) : u[Len(s) + i] = t[i]
  BY <1>5
<1>7. Len(u) = Len(s) + Len(t)
  BY <1>5
<1>8. Joint(s, t, u)
  BY <1>4, <1>6, <1>7 DEF Joint
<1> QED BY <1>1, <1>2, <1>3, <1>8, Joined

LEMMA Joins10 ==
  \A a, b, c, d, e, f, g, h, k, l :
    <<a, b, c, d, e>> \o <<f, g, h, k, l>> = <<a, b, c, d, e, f, g, h, k, l>>
<1> TAKE a, b, c, d, e, f, g, h, k, l
<1>1. PICK s : s = <<a, b, c, d, e>> /\ IsSeq(s)
  <2>1. PICK z \in Seq({a, b, c, d, e, f, g, h, k, l}) : z = <<a, b, c, d, e>>
    <3> WITNESS <<a, b, c, d, e>> \in Seq({a, b, c, d, e, f, g, h, k, l})
    <3> QED OBVIOUS
  <2> QED BY <2>1 DEF IsSeq
<1>2. PICK t : t = <<f, g, h, k, l>> /\ IsSeq(t)
  <2>1. PICK z \in Seq({a, b, c, d, e, f, g, h, k, l}) : z = <<f, g, h, k, l>>
    <3> WITNESS <<f, g, h, k, l>> \in Seq({a, b, c, d, e, f, g, h, k, l})
    <3> QED OBVIOUS
  <2> QED BY <2>1 DEF IsSeq
<1>3. PICK u : u = <<a, b, c, d, e, f, g, h, k, l>> /\ IsSeq(u)
  <2>1. PICK z \in Seq({a, b, c, d, e, f, g, h, k, l}) : z = <<a, b, c, d, e, f, g, h, k, l>>
    <3> WITNESS <<a, b, c, d, e, f, g, h, k, l>> \in Seq({a, b, c, d, e, f, g, h, k, l})
    <3> QED OBVIOUS
  <2> QED BY <2>1 DEF IsSeq
<1>4. AreSeqs(s, t, u)
  BY <1>1, <1>2, <1>3 DEF AreSeqs
<1>5. /\ Len(s) = 5 /\ Len(t) = 5 /\ Len(u) = 10
      /\ u[1] = s[1] /\ u[2] = s[2] /\ u[3] = s[3] /\ u[4] = s[4] /\ u[5] = s[5]
      /\ u[6] = t[1] /\ u[7] = t[2] /\ u[8] = t[3] /\ u[9] = t[4] /\ u[10] = t[5]
  BY <1>1, <1>2, <1>3
<1>6. /\ \A i \in 1 .. Len(s) : u[i] = s[i]
      /\ \A i \in 1 .. Len(t) : u[Len(s) + i] = t[i]
  BY <1>5
<1>7. Len(u) = Len(s) + Len(t)
  BY <1>5
<1>8. Joint(s, t, u)
  BY <1>4, <1>6, <1>7 DEF Joint
<1> QED BY <1>1, <1>2, <1>3, <1>8, Joined

-----------------------------------------------------------------------------
(* The tokens that are kept: in the order of the text, each at most once,  *)
(* and all that carry a name or a value, the one at hand left out.         *)
Covers(s, text) ==
  /\ IsSeq(s)
  /\ \A i \in 1 .. Len(s) : s[i] \in 1 .. Len(text) - 1
  /\ \A i, j \in 1 .. Len(s) : i < j => s[i] < s[j]
  /\ \A k \in 1 .. Len(text) - 1 : text[k] \in Carried => \E i \in 1 .. Len(s) : s[i] = k

LEMMA CoversSkip ==
  ASSUME NEW s, NEW text, IsSeq(text), Len(text) # 0, Covers(s, text), text[Len(text)] \notin Carried,
         NEW t
  PROVE  Covers(s, Append(text, t))
<1> DEFINE z == Append(text, t)
<1>1. Len(text) \in Nat \ {0} /\ Len(z) = Len(text) + 1 /\ \A k \in 1 .. Len(text) : z[k] = text[k]
  BY Lengths, Appends
<1> HIDE DEF z
<1>2. Len(z) - 1 = Len(text)
  BY <1>1
<1>3. \A i \in 1 .. Len(s) : s[i] \in 1 .. Len(z) - 1
  BY <1>1, <1>2 DEF Covers
<1>4. \A k \in 1 .. Len(z) - 1 : z[k] \in Carried => \E i \in 1 .. Len(s) : s[i] = k
  <2> TAKE k \in 1 .. Len(z) - 1
  <2>1. k \in 1 .. Len(text) /\ (k = Len(text) \/ k \in 1 .. Len(text) - 1)
    <3>1. PICK n \in Nat \ {0} : n = Len(text)
      BY <1>1
    <3>2. k \in 1 .. n
      BY <1>2, <3>1
    <3>3. k = n \/ k \in 1 .. n - 1
      BY <3>2
    <3> QED BY <3>1, <3>2, <3>3
  <2> QED BY <1>1, <2>1 DEF Covers
<1>5. Covers(s, z)
  BY <1>3, <1>4 DEF Covers
<1> QED BY <1>5 DEF z

LEMMA CoversKeep ==
  ASSUME NEW s, NEW text, IsSeq(text), Len(text) # 0, Covers(s, text), NEW t
  PROVE  Covers(s \o <<Len(text)>>, Append(text, t))
<1> DEFINE z == Append(text, t)
           r == s \o <<Len(text)>>
<1>1. Len(text) \in Nat \ {0} /\ Len(z) = Len(text) + 1 /\ \A k \in 1 .. Len(text) : z[k] = text[k]
  BY Lengths, Appends
<1>2. /\ IsSeq(s) /\ IsSeq(r) /\ Len(s) \in Nat /\ Len(r) = Len(s) + 1 /\ r[Len(s) + 1] = Len(text)
      /\ \A i \in 1 .. Len(s) : r[i] = s[i]
  <2>1. IsSeq(s)
    BY DEF Covers
  <2>2. Append(s, Len(text)) = r
    BY <2>1, Appends
  <2>3. /\ IsSeq(Append(s, Len(text))) /\ Len(Append(s, Len(text))) = Len(s) + 1
        /\ Append(s, Len(text))[Len(s) + 1] = Len(text)
        /\ \A i \in 1 .. Len(s) : Append(s, Len(text))[i] = s[i]
    BY <2>1, Appends
  <2> HIDE DEF r
  <2> QED BY <2>1, <2>2, <2>3, Lengths
<1> HIDE DEF z, r
<1>3. Len(z) - 1 = Len(text)
  BY <1>1
<1>4. /\ \A i \in 1 .. Len(s) : s[i] \in 1 .. Len(text) - 1
      /\ \A i, j \in 1 .. Len(s) : i < j => s[i] < s[j]
      /\ \A k \in 1 .. Len(text) - 1 : text[k] \in Carried => \E i \in 1 .. Len(s) : s[i] = k
  BY DEF Covers
<1>5. \A i \in 1 .. Len(r) : i \in 1 .. Len(s) \/ i = Len(s) + 1
  BY <1>2
<1>6. \A i \in 1 .. Len(r) : r[i] \in 1 .. Len(z) - 1
  BY <1>1, <1>2, <1>3, <1>4, <1>5
<1>7. \A i, j \in 1 .. Len(r) : i < j => r[i] < r[j]
  <2> SUFFICES ASSUME NEW i \in 1 .. Len(r), NEW j \in 1 .. Len(r), i < j PROVE r[i] < r[j]
    OBVIOUS
  <2>1. i \in 1 .. Len(s)
    BY <1>2
  <2>2. CASE j \in 1 .. Len(s)
    BY <1>2, <1>4, <2>1, <2>2
  <2>3. CASE j = Len(s) + 1
    <3>1. r[i] \in 1 .. Len(text) - 1 /\ r[j] = Len(text)
      BY <1>2, <1>4, <2>1, <2>3
    <3> QED BY <1>1, <3>1
  <2> QED BY <1>5, <2>2, <2>3
<1>8. \A k \in 1 .. Len(z) - 1 : z[k] \in Carried => \E i \in 1 .. Len(r) : r[i] = k
  <2> SUFFICES ASSUME NEW k \in 1 .. Len(z) - 1, z[k] \in Carried PROVE \E i \in 1 .. Len(r) : r[i] = k
    OBVIOUS
  <2>1. k \in 1 .. Len(text) /\ z[k] = text[k]
    BY <1>1, <1>3
  <2>2. CASE k = Len(text)
    <3>1. Len(s) + 1 \in 1 .. Len(r) /\ r[Len(s) + 1] = k
      BY <1>2, <2>2
    <3> QED BY <3>1
  <2>3. CASE k # Len(text)
    <3>1. k \in 1 .. Len(text) - 1
      BY <1>1, <2>1, <2>3
    <3>2. PICK i \in 1 .. Len(s) : s[i] = k
      BY <1>4, <2>1, <3>1
    <3>3. i \in 1 .. Len(r) /\ r[i] = k
      BY <1>2, <3>2
    <3> QED BY <3>3
  <2> QED BY <2>2, <2>3
<1>9. Covers(r, z)
  BY <1>2, <1>6, <1>7, <1>8 DEF Covers
<1> QED BY <1>9 DEF z, r

-----------------------------------------------------------------------------
(* The inductive invariant.  The items left can be done on the values at   *)
(* hand, and leave one tree; the values have kept what they must of the    *)
(* text, in order; and what is left can add no more than is still allowed. *)
TextOK ==
  /\ alphabet \in Alphabets
  /\ IsSeq(input)
  /\ Len(input) \in 1 .. alphabet.maxTokens + 1
  /\ token # "EOF" => Len(input) <= alphabet.maxTokens
  /\ \A k \in DOMAIN input : input[k] \in NextTokens(k - 1)

Fits(p) ==
  /\ Stacked(vals, p)
  /\ Covers(p.seen, input)
  /\ Runs(todo, p.types, Over(Bottom, "tree"), MaxNodes - p.size)

StackOK == \E p : Fits(p)

ErrorsOK == errors \subseteq {"init in next", "duplicate default"}

StatusOK ==
  /\ ErrorsOK
  /\ status \in {"run", "done", "exit"}
  /\ status = "done" => todo = << >>

ParseIInv == TextOK /\ StackOK /\ StatusOK

(* What is to be shown of every step. *)
Took == UNCHANGED <<alphabet, input>> \/ (token # "EOF" /\ next_token)
Kept == StackOK' /\ StatusOK' /\ Took

LEMMA FourMore == \A n \in Nat : 4 * ((n + 1) - 1) = 4 * (n - 1) + 4
OBVIOUS

(* A step that takes no token, or takes one, makes these the kinds.        *)
LEMMA Stays ==
  ASSUME StatusOK, status = "run", UNCHANGED <<alphabet, input, errors, status>>,
         NEW q, Stacked(vals', q), Covers(q.seen, input),
         NEW n, n = MaxNodes - q.size, Runs(todo', q.types, Over(Bottom, "tree"), n)
  PROVE  Kept
<1>1. MaxNodes' = MaxNodes
  BY DEF MaxNodes
<1>2. Fits(q)'
  BY <1>1 DEF Fits
<1> QED BY <1>2 DEF StackOK, StatusOK, ErrorsOK, Kept, Took

LEMMA Longer ==
  ASSUME TextOK, NEW t, input' = Append(input, t)
  PROVE  MaxNodes \in Int /\ MaxNodes' = MaxNodes + 4
<1>1. IsSeq(input) /\ Len(input) \in Nat
  BY Lengths DEF TextOK
<1>2. PICK n \in Nat : n = Len(input)
  BY <1>1
<1>3. Len(input') = n + 1
  BY <1>1, <1>2, Appends
<1>4. MaxNodes = 4 * (n - 1) /\ MaxNodes' = 4 * ((n + 1) - 1)
  BY <1>2, <1>3 DEF MaxNodes
<1>5. 4 * ((n + 1) - 1) = 4 * (n - 1) + 4 /\ 4 * (n - 1) \in Int
  BY FourMore
<1> QED BY <1>4, <1>5

LEMMA Takes ==
  ASSUME TextOK, StatusOK, status = "run", token # "EOF", next_token, UNCHANGED status,
         ErrorsOK',
         NEW q, Stacked(vals', q), \A t : Covers(q.seen, Append(input, t)),
         NEW n, n = MaxNodes + 4 - q.size, Runs(todo', q.types, Over(Bottom, "tree"), n)
  PROVE  Kept
<1>1. PICK t : input' = Append(input, t)
  BY DEF next_token
<1>2. MaxNodes \in Int /\ MaxNodes' = MaxNodes + 4
  BY <1>1, Longer
<1>3. IsSeq(vals') /\ IsSeq(q.seen) /\ q.size \in Nat
  BY StackedFacts
<1>4. n = MaxNodes' - q.size
  BY <1>2, <1>3
<1>5. Covers(q.seen, input')
  BY <1>1
<1>6. Fits(q)'
  BY <1>4, <1>5 DEF Fits
<1> QED BY <1>6 DEF StackOK, StatusOK, Kept, Took

LEMMA AtHand ==
  ASSUME TextOK, NEW p, Fits(p)
  PROVE  /\ IsSeq(p.seen) /\ p.size \in Nat /\ MaxNodes \in Int
         /\ token \notin Carried => \A t : Covers(p.seen, Append(input, t))
         /\ \A t : Covers(p.seen \o <<Len(input)>>, Append(input, t))
<1>1. IsSeq(input) /\ Len(input) \in Nat \ {0}
  BY Lengths DEF TextOK
<1>2. Covers(p.seen, input) /\ Stacked(vals, p)
  BY DEF Fits
<1> QED BY <1>1, <1>2, CoversSkip, CoversKeep, StackedFacts DEF token, MaxNodes

(* With items in place of the item at hand, and kinds x, todo can still be *)
(* done.                                                                   *)
LEMMA Instead ==
  ASSUME TextOK, NEW p, Fits(p), todo # << >>, NEW items, NEW x, NEW n, NEW m \in Int,
         Runs(items, x, After(p.types, Head(todo)), n), n <= Cost(Head(todo)) + m
  PROVE  Runs(items \o Tail(todo), x, Over(Bottom, "tree"), MaxNodes - p.size + m)
<1>1. Runs(Tail(todo), After(p.types, Head(todo)), Over(Bottom, "tree"),
      MaxNodes - p.size - Cost(Head(todo)))
  BY RunsHead DEF Fits
<1>2. Runs(items \o Tail(todo), x, Over(Bottom, "tree"), n + (MaxNodes - p.size - Cost(Head(todo))))
  BY <1>1, RunsConcat
<1>3. Cost(Head(todo)) \in Int /\ n \in Int /\ MaxNodes \in Int /\ p.size \in Int
  BY CostInt, AtHand DEF Runs
<1>4. n + (MaxNodes - p.size - Cost(Head(todo))) <= MaxNodes - p.size + m /\ MaxNodes - p.size + m \in Int
  BY <1>3
<1> QED BY <1>2, <1>4, RunsMore

(* Moves from the item at hand, whose effect is y and whose cost is c.     *)
LEMMA Moves ==
  ASSUME TextOK, StatusOK, NEW p, Fits(p), status = "run", todo # << >>,
         NEW items, NEW y, y = After(p.types, Head(todo)), NEW c, c = Cost(Head(todo))
  PROVE  /\ Goto(items) /\ Runs(items, p.types, y, c) => Kept
         /\ Eat(items) /\ Mark(token) /\ Runs(items, p.types, y, c + 4) => Kept
         /\ \A k \in {"tree", "tok"} :
              Keep(items) /\ token # "EOF" /\ Runs(items, Over(p.types, k), y, c + 3) => Kept
         /\ \A v, k : Value(v, items) /\ Parsed(v, k, << >>, 1)
            /\ Runs(items, Over(p.types, k), y, c - 1) => Kept
<1>0. /\ c \in Int /\ p.size \in Nat /\ MaxNodes \in Int /\ Stacked(vals, p) /\ IsSeq(p.seen)
      /\ Covers(p.seen, input)
  BY CostInt, AtHand DEF Fits
<1>1. ASSUME Goto(items), Runs(items, p.types, y, c) PROVE Kept
  <2>1. /\ todo' = items \o Tail(todo) /\ vals' = vals
        /\ UNCHANGED <<alphabet, input, errors, status>>
    BY <1>1 DEF Goto
  <2>2. c <= c + 0
    BY <1>0
  <2>3. Runs(todo', p.types, Over(Bottom, "tree"), MaxNodes - p.size + 0)
    <3>1. Runs(items, p.types, After(p.types, Head(todo)), c) /\ c <= Cost(Head(todo)) + 0
      BY <1>1, <2>2
    <3>2. Runs(items \o Tail(todo), p.types, Over(Bottom, "tree"), MaxNodes - p.size + 0)
      BY <3>1, Instead
    <3> QED BY <2>1, <3>2
  <2>4. MaxNodes - p.size + 0 = MaxNodes - p.size
    BY <1>0
  <2> QED BY <1>0, <2>1, <2>3, <2>4, Stays
<1>2. ASSUME Eat(items), Mark(token), Runs(items, p.types, y, c + 4) PROVE Kept
  <2>1. /\ todo' = items \o Tail(todo) /\ vals' = vals /\ next_token
        /\ UNCHANGED <<errors, status>>
    BY <1>2 DEF Eat
  <2>2. c + 4 <= c + 4
    BY <1>0
  <2>3. Runs(todo', p.types, Over(Bottom, "tree"), MaxNodes - p.size + 4)
    <3>1. Runs(items, p.types, After(p.types, Head(todo)), c + 4) /\ c + 4 <= Cost(Head(todo)) + 4
      BY <1>2, <2>2
    <3>2. Runs(items \o Tail(todo), p.types, Over(Bottom, "tree"), MaxNodes - p.size + 4)
      BY <3>1, Instead
    <3> QED BY <2>1, <3>2
  <2>4. MaxNodes - p.size + 4 = MaxNodes + 4 - p.size
    BY <1>0
  <2>5. token # "EOF" /\ \A t : Covers(p.seen, Append(input, t))
    BY <1>2, AtHand DEF Mark
  <2>6. ErrorsOK'
    BY <2>1 DEF StatusOK, ErrorsOK
  <2> QED BY <1>0, <2>1, <2>3, <2>4, <2>5, <2>6, Takes
<1>3. ASSUME NEW k \in {"tree", "tok"}, Keep(items), token # "EOF",
             Runs(items, Over(p.types, k), y, c + 3)
      PROVE  Kept
  <2> DEFINE q == Stack(Over(p.types, k), p.seen \o <<Len(input)>>, p.size + 1)
  <2>1. /\ todo' = items \o Tail(todo) /\ vals' = Append(vals, <<"tok", Len(input)>>) /\ next_token
        /\ UNCHANGED <<errors, status>>
    BY <1>3 DEF Keep
  <2>2. c + 3 <= c + 3
    BY <1>0
  <2>3. Runs(todo', Over(p.types, k), Over(Bottom, "tree"), MaxNodes - p.size + 3)
    <3>1. Runs(items, Over(p.types, k), After(p.types, Head(todo)), c + 3)
          /\ c + 3 <= Cost(Head(todo)) + 3
      BY <1>3, <2>2
    <3>2. Runs(items \o Tail(todo), Over(p.types, k), Over(Bottom, "tree"), MaxNodes - p.size + 3)
      BY <3>1, Instead
    <3> QED BY <2>1, <3>2
  <2>4. MaxNodes - p.size + 3 = MaxNodes + 4 - (p.size + 1)
    BY <1>0
  <2>5. q.types = Over(p.types, k) /\ q.seen = p.seen \o <<Len(input)>> /\ q.size = p.size + 1
    BY DEF Stack
  <2>6. Stacked(vals', q)
    <3>1. Parsed(<<"tok", Len(input)>>, k, <<Len(input)>>, 1)
      BY Toks
    <3> QED BY <1>0, <2>1, <3>1, StackedPush DEF Stack
  <2> HIDE DEF q
  <2>7. \A t : Covers(q.seen, Append(input, t))
    BY <2>5, AtHand
  <2>8. ErrorsOK'
    BY <2>1 DEF StatusOK, ErrorsOK
  <2> QED BY <1>3, <2>1, <2>3, <2>4, <2>5, <2>6, <2>7, <2>8, Takes
<1>4. ASSUME NEW v, NEW k, Value(v, items), Parsed(v, k, << >>, 1),
             Runs(items, Over(p.types, k), y, c - 1)
      PROVE  Kept
  <2> DEFINE q == Stack(Over(p.types, k), p.seen, p.size + 1)
  <2>1. /\ todo' = items \o Tail(todo) /\ vals' = Append(vals, v)
        /\ UNCHANGED <<alphabet, input, errors, status>>
    BY <1>4 DEF Value
  <2>2. c - 1 <= c + (-1) /\ -1 \in Int
    BY <1>0
  <2>3. Runs(todo', Over(p.types, k), Over(Bottom, "tree"), MaxNodes - p.size + (-1))
    BY <1>4, <2>1, <2>2, Instead
  <2>4. MaxNodes - p.size + (-1) = MaxNodes - (p.size + 1)
    BY <1>0
  <2>5. q.types = Over(p.types, k) /\ q.seen = p.seen /\ q.size = p.size + 1
    BY StackParts
  <2>6. Stacked(vals', q)
    <3>1. p.seen \o << >> = p.seen
      BY <1>0, EmptyIsSeq, Concats
    <3> QED BY <1>0, <1>4, <2>1, <3>1, StackedPush DEF Stack
  <2> HIDE DEF q
  <2>7. Covers(q.seen, input)
    BY <1>0, <2>5
  <2> QED BY <2>1, <2>3, <2>4, <2>5, <2>6, <2>7, Stays
<1> QED BY <1>1, <1>2, <1>3, <1>4

LEMMA Exits == ASSUME ParseIInv, status = "run", Exit PROVE Kept
<1>1. PICK p : Fits(p)
  BY DEF ParseIInv, StackOK
<1>2. UNCHANGED <<alphabet, input, todo, vals, errors>> /\ status' = "exit" /\ ErrorsOK
  BY DEF Exit, ParseIInv, StatusOK
<1>3. Fits(p)'
  <2>1. MaxNodes' = MaxNodes
    BY <1>2 DEF MaxNodes
  <2> QED BY <1>1, <1>2, <2>1 DEF Fits
<1>4. StatusOK'
  BY <1>2 DEF StatusOK, ErrorsOK
<1> QED BY <1>2, <1>3, <1>4 DEF Kept, Took, StackOK

(* The idioms that functions share do what the item at hand names. *)
LEMMA IdiomMoves ==
  ASSUME ParseIInv, todo # << >>
  PROVE  \E p : /\ TextOK /\ StatusOK /\ Fits(p) /\ Stacked(vals, p) /\ Covers(p.seen, input)
                /\ p.size \in Nat /\ MaxNodes \in Int
                /\ Ready(p.types, Head(todo))
                /\ Runs(Tail(todo), After(p.types, Head(todo)), Over(Bottom, "tree"),
                        MaxNodes - p.size - Cost(Head(todo)))
<1>1. PICK p : Fits(p)
  BY DEF ParseIInv, StackOK
<1>2. TextOK /\ StatusOK
  BY DEF ParseIInv
<1>3. Stacked(vals, p) /\ Covers(p.seen, input) /\ p.size \in Nat /\ MaxNodes \in Int
  BY <1>1, <1>2, AtHand DEF Fits
<1>4. /\ Ready(p.types, Head(todo))
      /\ Runs(Tail(todo), After(p.types, Head(todo)), Over(Bottom, "tree"),
         MaxNodes - p.size - Cost(Head(todo)))
  BY <1>1, RunsHead DEF Fits
<1> QED BY <1>1, <1>2, <1>3, <1>4

(* The values that a local starts with. *)
LEMMA PushParsed ==
  \A v \in {Null, Empty, EmptyBlock, <<"false">>} : Parsed(v, KindOf(v), << >>, 1)
<1>1. Null = <<"null">> /\ Empty = <<"list">> /\ EmptyBlock = <<"array">>
  BY DEF Null, Empty, EmptyBlock
<1>2. KindOf(Null) = "tree" /\ KindOf(Empty) = "list" /\ KindOf(EmptyBlock) = "tree"
      /\ KindOf(<<"false">>) = "flag"
  BY DEF KindOf, Null, Empty, EmptyBlock
<1>3. /\ Parsed(<<"null">>, "tree", << >>, 1) /\ Parsed(<<"list">>, "list", << >>, 1)
      /\ Parsed(<<"array">>, "tree", << >>, 1) /\ Parsed(<<"false">>, "flag", << >>, 1)
  BY Atoms
<1> QED BY <1>1, <1>2, <1>3

LEMMA ExpectKeeps == ASSUME ParseIInv, expect_token PROVE Kept
<1>1. Idiom("Expect") /\ ((token = Head(todo)[2] /\ Eat(<< >>)) \/ Exit)
  BY DEF expect_token
<1>2. status = "run" /\ todo # << >> /\ Head(todo)[1] = "Expect"
  BY <1>1 DEF Idiom
<1>3. PICK p : TextOK /\ StatusOK /\ Fits(p) /\ Ready(p.types, Head(todo))
  BY <1>2, IdiomMoves
<1>4. Mark(Head(todo)[2]) /\ p.types = After(p.types, Head(todo)) /\ -4 = Cost(Head(todo))
  BY <1>2, <1>3, IdiomReady, IdiomAfter, IdiomCost
<1>5. Runs(<< >>, p.types, p.types, (-4) + 4)
  BY RunsEmpty
<1>6. Eat(<< >>) /\ Mark(token) => Kept
  BY <1>2, <1>3, <1>4, <1>5, Moves
<1> QED BY <1>1, <1>2, <1>4, <1>6, Exits

LEMMA MakeKeeps == ASSUME ParseIInv, MakeNode PROVE Kept
<1>1. status = "run" /\ todo # << >> /\ Head(todo)[1] = "Make"
  BY DEF MakeNode, Idiom
<1>2. PICK p : /\ TextOK /\ StatusOK /\ Stacked(vals, p) /\ Covers(p.seen, input)
               /\ p.size \in Nat /\ MaxNodes \in Int
               /\ Ready(p.types, Head(todo))
               /\ Runs(Tail(todo), After(p.types, Head(todo)), Over(Bottom, "tree"),
                       MaxNodes - p.size - Cost(Head(todo)))
  BY <1>1, IdiomMoves
<1>3. PICK node, n : node = Head(todo)[2] /\ n = Head(todo)[3]
  OBVIOUS
<1>4. Kinds(p.types, node, n) /\ After(p.types, Head(todo)) = Over(Below(p.types, n), "tree")
      /\ Cost(Head(todo)) = 1
  BY <1>1, <1>2, <1>3, IdiomReady, IdiomAfter, IdiomCost
<1> DEFINE q == Stack(Over(Below(p.types, n), "tree"), p.seen, p.size + 1)
<1>5. Stacked(vals', q)
  BY <1>2, <1>3, <1>4, Makes DEF Stack
<1>6. q.types = After(p.types, Head(todo)) /\ q.seen = p.seen /\ q.size = p.size + 1
  BY <1>4, StackParts
<1> HIDE DEF q
<1>7. todo' = Tail(todo) /\ UNCHANGED <<alphabet, input, errors, status>>
  BY DEF MakeNode
<1>8. MaxNodes - p.size - Cost(Head(todo)) = MaxNodes - q.size
  BY <1>2, <1>4, <1>6
<1> QED BY <1>1, <1>2, <1>5, <1>6, <1>7, <1>8, Stays

LEMMA DupKeeps == ASSUME ParseIInv, ast_dup PROVE Kept
<1>1. status = "run" /\ todo # << >> /\ Head(todo)[1] = "ast_dup"
  BY DEF ast_dup, Idiom
<1>2. PICK p : /\ TextOK /\ StatusOK /\ Stacked(vals, p) /\ Covers(p.seen, input)
               /\ p.size \in Nat /\ MaxNodes \in Int
               /\ Ready(p.types, Head(todo))
               /\ Runs(Tail(todo), After(p.types, Head(todo)), Over(Bottom, "tree"),
                       MaxNodes - p.size - Cost(Head(todo)))
  BY <1>1, IdiomMoves
<1>3. PICK n : n = Head(todo)[2]
  OBVIOUS
<1>4. /\ \/ n = 0 /\ \E y : p.types = Over(y, "list")
         \/ n = 1 /\ \E y, k : p.types = Over(Over(y, "list"), k)
      /\ After(p.types, Head(todo)) = Copying(p.types, n) /\ Cost(Head(todo)) = 0
  BY <1>1, <1>2, <1>3, IdiomReady, IdiomAfter, IdiomCost
<1>5. IsSeq(vals) /\ Len(vals) \in Nat
  BY <1>2, StackedFacts, Lengths
<1>6. Stacked(vals', Stack(Copying(p.types, n), p.seen, p.size))
  <2>1. CASE n = 0 /\ \E y : p.types = Over(y, "list")
    <3>1. PICK y : p.types = Over(y, "list")
      BY <2>1
    <3>2. Copying(p.types, n) = Over(y, "tree")
      BY <2>1, <3>1, Overs DEF Copying
    <3>3. Len(vals) - Head(todo)[2] = Len(vals)
      BY <1>3, <1>5, <2>1
    <3>4. vals' = [vals EXCEPT ![Len(vals)] = Copied(@)]
      BY <3>3 DEF ast_dup
    <3> QED BY <1>2, <3>1, <3>2, <3>4, DupsTop
  <2>2. CASE n = 1 /\ \E y, k : p.types = Over(Over(y, "list"), k)
    <3>1. PICK y, k : p.types = Over(Over(y, "list"), k)
      BY <2>2
    <3>2. Copying(p.types, n) = Over(Over(y, "tree"), k)
      BY <2>2, <3>1, Overs DEF Copying
    <3>3. PICK c : c = Copied(vals[Len(vals) - 1])
      OBVIOUS
    <3>4. vals' = [vals EXCEPT ![Len(vals) - 1] = c]
      BY <1>3, <2>2, <3>3 DEF ast_dup
    <3>5. \A v, u, m : v = vals[Len(vals) - 1] /\ Parsed(v, "list", u, m) => Parsed(c, "tree", u, m)
      BY <3>3, Copies
    <3> QED BY <1>2, <3>1, <3>2, <3>4, <3>5, SwapsBelow
  <2> QED BY <1>4, <2>1, <2>2
<1> DEFINE q == Stack(Copying(p.types, n), p.seen, p.size)
<1>7. q.types = After(p.types, Head(todo)) /\ q.seen = p.seen /\ q.size = p.size
  BY <1>4, StackParts
<1>8. Stacked(vals', q)
  BY <1>6
<1> HIDE DEF q
<1>9. todo' = Tail(todo) /\ UNCHANGED <<alphabet, input, errors, status>>
  BY DEF ast_dup
<1>10. MaxNodes - p.size - Cost(Head(todo)) = MaxNodes - q.size
  BY <1>2, <1>4, <1>7
<1> QED BY <1>1, <1>2, <1>7, <1>8, <1>9, <1>10, Stays

LEMMA PushedStack ==
  ASSUME NEW p, Stacked(vals, p), vals' = PushedBack, \E y : p.types = Over(Over(y, "list"), "tree")
  PROVE  Stacked(vals', Stack(Below(p.types, 1), p.seen, p.size))
<1>1. PICK y : p.types = Over(Over(y, "list"), "tree")
  OBVIOUS
<1>2. Below(p.types, 1) = Over(y, "list")
  BY <1>1, Overs
<1> QED BY <1>1, <1>2, PushesBack

LEMMA LocalsKeep == ASSUME ParseIInv, Locals PROVE Kept
<1>1. CASE Idiom("Push") /\ Value(Head(todo)[2], << >>)
  <2>1. status = "run" /\ todo # << >> /\ Head(todo)[1] = "Push"
    BY <1>1 DEF Idiom
  <2>2. PICK p : TextOK /\ StatusOK /\ Fits(p) /\ Ready(p.types, Head(todo))
    BY <2>1, IdiomMoves
  <2>3. PICK v : v = Head(todo)[2]
    OBVIOUS
  <2>4. /\ v \in {Null, Empty, EmptyBlock, <<"false">>}
        /\ Over(p.types, KindOf(v)) = After(p.types, Head(todo)) /\ 1 = Cost(Head(todo))
    BY <2>1, <2>2, <2>3, IdiomReady, IdiomAfter, IdiomCost
  <2>5. Parsed(v, KindOf(v), << >>, 1)
    BY <2>4, PushParsed
  <2>6. Runs(<< >>, Over(p.types, KindOf(v)), Over(p.types, KindOf(v)), 1 - 1)
    BY RunsEmpty
  <2>7. Value(v, << >>)
    BY <1>1, <2>3
  <2> QED BY <2>1, <2>2, <2>4, <2>5, <2>6, <2>7, Moves
<1>2. CASE /\ Idiom("PushBack")
           /\ vals' = PushedBack
           /\ todo' = Tail(todo)
           /\ UNCHANGED <<alphabet, input, errors, status>>
  <2>1. status = "run" /\ todo # << >> /\ Head(todo)[1] = "PushBack"
    BY <1>2 DEF Idiom
  <2>2. PICK p : /\ TextOK /\ StatusOK /\ Stacked(vals, p) /\ Covers(p.seen, input)
                 /\ p.size \in Nat /\ MaxNodes \in Int
                 /\ Ready(p.types, Head(todo))
                 /\ Runs(Tail(todo), After(p.types, Head(todo)), Over(Bottom, "tree"),
                         MaxNodes - p.size - Cost(Head(todo)))
    BY <2>1, IdiomMoves
  <2>3. /\ \E y : p.types = Over(Over(y, "list"), "tree")
        /\ After(p.types, Head(todo)) = Below(p.types, 1) /\ Cost(Head(todo)) = 0
    BY <2>1, <2>2, IdiomReady, IdiomAfter, IdiomCost
  <2> DEFINE q == Stack(Below(p.types, 1), p.seen, p.size)
  <2>4. Stacked(vals', q)
    BY <1>2, <2>2, <2>3, PushedStack
  <2>5. q.types = After(p.types, Head(todo)) /\ q.seen = p.seen /\ q.size = p.size
    BY <2>3, StackParts
  <2> HIDE DEF q
  <2>6. MaxNodes - p.size - Cost(Head(todo)) = MaxNodes - q.size
    BY <2>2, <2>3, <2>5
  <2> QED BY <1>2, <2>1, <2>2, <2>4, <2>5, <2>6, Stays
<1> QED BY <1>1, <1>2 DEF Locals

LEMMA PlainCall ==
  \A x, f : f \in Plain =>
    Ready(x, Call(f)) /\ After(x, Call(f)) = Over(x, "tree") /\ Cost(Call(f)) \in -3 .. 0
<1>1. \A f \in Plain : f \in Functions
  BY DEF Plain
<1> QED BY <1>1, CallItem, CallCosts

LEMMA OptionalKeeps == ASSUME ParseIInv, Optional PROVE Kept
<1>1. status = "run" /\ todo # << >> /\ Head(todo)[1] \in {"Unless", "IfMatch"}
  BY DEF Optional, Idiom
<1>2. PICK p : TextOK /\ StatusOK /\ Fits(p) /\ Ready(p.types, Head(todo))
  BY <1>1, IdiomMoves
<1>3. PICK f : f = Head(todo)[3]
  OBVIOUS
<1>4. /\ f \in Plain /\ Over(p.types, "tree") = After(p.types, Head(todo)) /\ 1 = Cost(Head(todo))
      /\ Head(todo)[1] = "IfMatch" => Mark(Head(todo)[2])
  BY <1>1, <1>2, <1>3, IdiomReady, IdiomAfter, IdiomCost
<1>5. Runs(<<Call(f)>>, p.types, Over(p.types, "tree"), 1)
      /\ Runs(<<Call(f)>>, p.types, Over(p.types, "tree"), 1 + 4)
  BY <1>4, PlainCall, Runs1
<1>6. Runs(<< >>, Over(p.types, "tree"), Over(p.types, "tree"), 1 - 1)
  BY RunsEmpty
<1>7. Parsed(Null, "tree", << >>, 1)
  BY Atoms DEF Null
<1>8. \/ Goto(<<Call(f)>>) \/ Value(Null, << >>)
      \/ Eat(<<Call(f)>>) /\ Mark(token)
  BY <1>3, <1>4 DEF Optional, Idiom
<1> QED BY <1>1, <1>2, <1>4, <1>5, <1>6, <1>7, <1>8, Moves

LEMMA EachKeeps == ASSUME ParseIInv, EachUntil PROVE Kept
<1>1. status = "run" /\ todo # << >> /\ Head(todo)[1] = "Each"
  BY DEF EachUntil, Idiom
<1>2. PICK p : TextOK /\ StatusOK /\ Fits(p) /\ Ready(p.types, Head(todo))
  BY <1>1, IdiomMoves
<1>3. PICK it : it = Head(todo)
  OBVIOUS
<1>4. PICK f : f = it[2]
  OBVIOUS
<1>5. /\ f \in Plain /\ p.types = After(p.types, it) /\ 0 = Cost(it) /\ Ready(p.types, it)
      /\ \E y : p.types = Over(y, "list")
  BY <1>1, <1>2, <1>3, <1>4, IdiomReady, IdiomAfter, IdiomCost
<1>6. Runs(<<Call(f), PushBack, it>>, p.types, p.types, 0)
  <2>1. PICK y : y = p.types /\ Is(Over(y, "tree"), "tree") /\ Under(Over(y, "tree")) = y /\ Is(y, "list")
    BY <1>5, Unders
  <2>2. /\ Ready(y, Call(f)) /\ After(y, Call(f)) = Over(y, "tree") /\ Cost(Call(f)) <= 0
           /\ Cost(Call(f)) \in Int
        /\ Ready(Over(y, "tree"), PushBack) /\ After(Over(y, "tree"), PushBack) = y /\ Cost(PushBack) = 0
    BY <1>5, <2>1, PlainCall, PushBackItem
  <2>3. Cost(Call(f)) + (Cost(PushBack) + Cost(it)) <= 0
    BY <1>5, <2>2
  <2>4. Ready(y, it) /\ After(y, it) = y
    BY <1>5, <2>1
  <2>5. Runs(<<Call(f), PushBack, it>>, y, y, 0)
    BY <2>2, <2>3, <2>4, Runs3
  <2> QED BY <2>1, <2>5
<1>7. Runs(<< >>, p.types, p.types, 0)
  BY RunsEmpty
<1>8. Goto(<<Call(f), PushBack, it>>) \/ Goto(<< >>)
  BY <1>3, <1>4 DEF EachUntil
<1> QED BY <1>1, <1>2, <1>3, <1>5, <1>6, <1>7, <1>8, Moves

LEMMA ListKeeps == ASSUME ParseIInv, CommaList PROVE Kept
<1>1. CASE Idiom("List") /\ (\/ Value(Empty, << >>)
                             \/ Value(Empty, <<Call(Head(todo)[2]), More(Head(todo)[2])>>))
  <2>1. status = "run" /\ todo # << >> /\ Head(todo)[1] = "List"
    BY <1>1 DEF Idiom
  <2>2. PICK p : TextOK /\ StatusOK /\ Fits(p) /\ Ready(p.types, Head(todo))
    BY <2>1, IdiomMoves
  <2>3. PICK f : f = Head(todo)[2]
    OBVIOUS
  <2>4. f \in Plain /\ Over(p.types, "list") = After(p.types, Head(todo)) /\ 1 = Cost(Head(todo))
    BY <2>1, <2>2, <2>3, IdiomReady, IdiomAfter, IdiomCost
  <2>5. Runs(<<Call(f), More(f)>>, Over(p.types, "list"), Over(p.types, "list"), 1 - 1)
    BY <2>4, PlainCall, MoreItem, Unders, Runs2
  <2>6. Runs(<< >>, Over(p.types, "list"), Over(p.types, "list"), 1 - 1)
    BY RunsEmpty
  <2>7. Parsed(Empty, "list", << >>, 1)
    BY Atoms DEF Empty
  <2>8. Value(Empty, << >>) \/ Value(Empty, <<Call(f), More(f)>>)
    BY <1>1, <2>3
  <2> QED BY <2>1, <2>2, <2>4, <2>5, <2>6, <2>7, <2>8, Moves
<1>2. CASE /\ Idiom("More")
           /\ vals' = PushedBack
           /\ \/ /\ token = "COMMA"
                 /\ todo' = <<Call(Head(todo)[2])>> \o todo
                 /\ next_token
              \/ todo' = Tail(todo) /\ UNCHANGED <<alphabet, input>>
           /\ UNCHANGED <<errors, status>>
  <2>1. status = "run" /\ todo # << >> /\ Head(todo)[1] = "More"
    BY <1>2 DEF Idiom
  <2>2. PICK p : /\ TextOK /\ StatusOK /\ Fits(p) /\ Stacked(vals, p) /\ Covers(p.seen, input)
                 /\ p.size \in Nat /\ MaxNodes \in Int
                 /\ Ready(p.types, Head(todo))
                 /\ Runs(Tail(todo), After(p.types, Head(todo)), Over(Bottom, "tree"),
                         MaxNodes - p.size - Cost(Head(todo)))
    BY <2>1, IdiomMoves
  <2>3. PICK f : f = Head(todo)[2]
    OBVIOUS
  <2>4. /\ f \in Plain /\ \E y : p.types = Over(Over(y, "list"), "tree")
        /\ After(p.types, Head(todo)) = Below(p.types, 1) /\ Cost(Head(todo)) = 0
    BY <2>1, <2>2, <2>3, IdiomReady, IdiomAfter, IdiomCost
  <2> DEFINE q == Stack(Below(p.types, 1), p.seen, p.size)
  <2>5. Stacked(vals', q)
    BY <1>2, <2>2, <2>4, PushedStack
  <2>6. q.types = After(p.types, Head(todo)) /\ q.types = Below(p.types, 1) /\ q.seen = p.seen
        /\ q.size = p.size
    BY <2>4, StackParts
  <2> HIDE DEF q
  <2>7. CASE todo' = Tail(todo) /\ UNCHANGED <<alphabet, input>>
    <3>1. MaxNodes - p.size - Cost(Head(todo)) = MaxNodes - q.size
      BY <2>2, <2>4, <2>6
    <3> QED BY <1>2, <2>1, <2>2, <2>5, <2>6, <2>7, <3>1, Stays
  <2>8. CASE /\ token = "COMMA"
             /\ todo' = <<Call(Head(todo)[2])>> \o todo
             /\ next_token
    <3>1. Runs(<<Call(f)>>, q.types, p.types, 0)
      <4>1. p.types = Over(Below(p.types, 1), "tree")
        BY <2>4, Overs
      <4> QED BY <2>4, <2>6, <4>1, PlainCall, Runs1
    <3>2. Runs(<<Call(f)>> \o todo, q.types, Over(Bottom, "tree"), 0 + (MaxNodes - p.size))
      BY <2>2, <3>1, RunsConcat DEF Fits
    <3>3. Runs(<<Call(f)>> \o todo, q.types, Over(Bottom, "tree"), MaxNodes + 4 - q.size)
      <4>1. 0 + (MaxNodes - p.size) <= MaxNodes + 4 - q.size /\ MaxNodes + 4 - q.size \in Int
        BY <2>2, <2>6
      <4> QED BY <3>2, <4>1, RunsMore
    <3>4. token \notin Carried /\ token # "EOF"
      BY <2>8 DEF Carried
    <3>5. \A t : Covers(q.seen, Append(input, t))
      BY <2>2, <2>6, <3>4, AtHand
    <3>6. ErrorsOK'
      BY <1>2, <2>2 DEF StatusOK, ErrorsOK
    <3>7. Runs(todo', q.types, Over(Bottom, "tree"), MaxNodes + 4 - q.size)
      BY <2>3, <2>8, <3>3
    <3> QED BY <1>2, <2>1, <2>2, <2>5, <2>8, <3>4, <3>5, <3>6, <3>7, Takes
  <2> QED BY <1>2, <2>7, <2>8
<1> QED BY <1>1, <1>2 DEF CommaList

LEMMA IdiomsKeep ==
  ASSUME ParseIInv,
         expect_token \/ MakeNode \/ ast_dup \/ Locals \/ Optional \/ CommaList \/ EachUntil
  PROVE  Kept
BY ExpectKeeps, MakeKeeps, DupKeeps, LocalsKeep, OptionalKeeps, EachKeeps, ListKeeps

-----------------------------------------------------------------------------
(* What the items that a call goes on with do: they leave a tree; a tree   *)
(* in place of a tree, of two, or of the token of an operand; or in place  *)
(* of the locals of parse_stmt_if and of parse_stmt_switch_case.           *)
Gives(items, n)  == \A x : Runs(items, x, Over(x, "tree"), n)
Turns(items, n)  == \A x : Runs(items, Over(x, "tree"), Over(x, "tree"), n)
Merges(items, n) == \A x : Runs(items, Over(Over(x, "tree"), "tree"), Over(x, "tree"), n)
Names(items, n)  == \A x : Runs(items, Over(x, "tok"), Over(x, "tree"), n)
Elses(items, n)  == \A x : Runs(items, Over(Over(Over(x, "tree"), "tree"), "list"), Over(x, "tree"), n)
Labels(items, n) == \A x : Runs(items, Over(Over(x, "flag"), "list"), Over(x, "tree"), n)

LEMMA RestMoves ==
  ASSUME ParseIInv, NEW f \in Functions \union Inner, NEW l, At(f, l), NEW c, c = Cost(Rest(f, l))
  PROVE  \A items :
           /\ Goto(items) /\ (\A x : Runs(items, Before(x, f, l), Over(x, "tree"), c)) => Kept
           /\ Eat(items) /\ Mark(token)
              /\ (\A x : Runs(items, Before(x, f, l), Over(x, "tree"), c + 4)) => Kept
           /\ \A k \in {"tree", "tok"} :
                Keep(items) /\ token # "EOF"
                /\ (\A x : Runs(items, Over(Before(x, f, l), k), Over(x, "tree"), c + 3)) => Kept
<1>1. status = "run" /\ todo # << >> /\ Head(todo) = Rest(f, l)
  BY DEF At, Rest
<1>2. PICK p : TextOK /\ StatusOK /\ Fits(p) /\ Ready(p.types, Head(todo))
  BY <1>1, IdiomMoves
<1>3. PICK x : p.types = Before(x, f, l)
  BY <1>1, <1>2, RestItem
<1>4. Over(x, "tree") = After(p.types, Head(todo)) /\ c = Cost(Head(todo))
  BY <1>1, <1>3, RestItem
<1> TAKE items
<1>5. ASSUME Goto(items), \A z : Runs(items, Before(z, f, l), Over(z, "tree"), c) PROVE Kept
  <2>1. Runs(items, p.types, Over(x, "tree"), c)
    BY <1>3, <1>5
  <2> QED BY <1>1, <1>2, <1>4, <1>5, <2>1, Moves
<1>6. ASSUME Eat(items), Mark(token), \A z : Runs(items, Before(z, f, l), Over(z, "tree"), c + 4)
             PROVE Kept
  <2>1. Runs(items, p.types, Over(x, "tree"), c + 4)
    BY <1>3, <1>6
  <2> QED BY <1>1, <1>2, <1>4, <1>6, <2>1, Moves
<1>7. ASSUME NEW k \in {"tree", "tok"}, Keep(items), token # "EOF",
             \A z : Runs(items, Over(Before(z, f, l), k), Over(z, "tree"), c + 3)
      PROVE  Kept
  <2>1. Runs(items, Over(p.types, k), Over(x, "tree"), c + 3)
    BY <1>3, <1>7
  <2> QED BY <1>1, <1>2, <1>4, <1>7, <2>1, Moves
<1> QED BY <1>5, <1>6, <1>7

LEMMA Gone == ASSUME ParseIInv, NEW f, NEW l, At(f, l), Exit PROVE Kept
BY Exits DEF At

LEMMA BeginMoves ==
  ASSUME ParseIInv, NEW f \in Functions, At(f, "begin"), NEW c \in Int, c = CallCost(f)
  PROVE  \A items, n :
           /\ Goto(items) /\ Gives(items, n) /\ n = c => Kept
           /\ Eat(items) /\ Mark(token) /\ Gives(items, n) /\ n = c + 4 => Kept
           /\ Keep(items) /\ token # "EOF" /\ Turns(items, n) /\ n = c + 3 => Kept
           /\ Keep(items) /\ token # "EOF" /\ Names(items, n) /\ n = c + 3 => Kept
<1>1. c = Cost(Rest(f, "begin")) /\ \A x : Before(x, f, "begin") = x
  BY RestCosts, Befores
<1>2. \A items :
           /\ Goto(items) /\ (\A x : Runs(items, Before(x, f, "begin"), Over(x, "tree"), c)) => Kept
           /\ Eat(items) /\ Mark(token)
              /\ (\A x : Runs(items, Before(x, f, "begin"), Over(x, "tree"), c + 4)) => Kept
           /\ \A k \in {"tree", "tok"} :
                Keep(items) /\ token # "EOF"
                /\ (\A x : Runs(items, Over(Before(x, f, "begin"), k), Over(x, "tree"), c + 3)) => Kept
  BY <1>1, RestMoves
<1> QED BY <1>1, <1>2 DEF Gives, Turns, Names

LEMMA CompoundMoves ==
  ASSUME ParseIInv, At("parse_expr_compound", "begin")
  PROVE  \A items : Goto(items) /\ Turns(items, -3) => Kept
<1> DEFINE f == "parse_expr_compound"
<1>1. f \in Inner
  BY DEF Inner
<1>2. -3 = Cost(Rest(f, "begin")) /\ \A x : Before(x, f, "begin") = Over(x, "tree")
  BY <1>1, RestCosts, Befores, CallCosts
<1> QED BY <1>1, <1>2, RestMoves DEF Turns

LEMMA LoopMoves ==
  ASSUME ParseIInv, NEW f \in Loops, At(f, "loop")
  PROVE  \A items :
           /\ Goto(items) /\ Turns(items, 0) => Kept
           /\ Eat(items) /\ Mark(token) /\ Turns(items, 4) => Kept
           /\ Keep(items) /\ token # "EOF" /\ Merges(items, 3) => Kept
<1>1. f \in Functions
  BY DEF Loops, Functions
<1>2. 0 = Cost(Rest(f, "loop")) /\ (\A x : Before(x, f, "loop") = Over(x, "tree")) /\ 0 + 4 = 4
      /\ 0 + 3 = 3
  BY RestCosts, Befores
<1> QED BY <1>1, <1>2, RestMoves DEF Turns, Merges

LEMMA OperandMoves ==
  ASSUME ParseIInv
  PROVE  /\ At("parse_expr_operand", "name") => \A items : Goto(items) /\ Names(items, 1) => Kept
         /\ \A l \in {"sizeof", "paren"} : At("parse_expr_operand", l) =>
              \A items :
                /\ Goto(items) /\ Gives(items, 0) => Kept
                /\ Eat(items) /\ Mark(token) /\ Gives(items, 4) => Kept
<1> DEFINE f == "parse_expr_operand"
<1>1. f \in Functions
  BY FunctionsIn
<1>2. /\ 1 = Cost(Rest(f, "name")) /\ 0 + 4 = 4
      /\ \A l \in {"sizeof", "paren"} : 0 = Cost(Rest(f, l)) /\ \A x : Before(x, f, l) = x
      /\ \A x : Before(x, f, "name") = Over(x, "tok")
  BY RestCosts, Befores
<1> HIDE DEF f
<1>3. ASSUME At(f, "name"), NEW items, Goto(items), Names(items, 1) PROVE Kept
  <2>1. \A x : Runs(items, Before(x, f, "name"), Over(x, "tree"), 1)
    BY <1>2, <1>3 DEF Names
  <2> QED BY <1>1, <1>2, <1>3, <2>1, RestMoves
<1>4. ASSUME NEW l \in {"sizeof", "paren"}, At(f, l), NEW items, Goto(items), Gives(items, 0) PROVE Kept
  <2>1. \A x : Runs(items, Before(x, f, l), Over(x, "tree"), 0)
    BY <1>2, <1>4 DEF Gives
  <2> QED BY <1>1, <1>2, <1>4, <2>1, RestMoves
<1>5. ASSUME NEW l \in {"sizeof", "paren"}, At(f, l), NEW items, Eat(items), Mark(token), Gives(items, 4)
             PROVE Kept
  <2>1. \A x : Runs(items, Before(x, f, l), Over(x, "tree"), 0 + 4)
    BY <1>2, <1>5 DEF Gives
  <2> QED BY <1>1, <1>2, <1>5, <2>1, RestMoves
<1> QED BY <1>3, <1>4, <1>5 DEF f

LEMMA TreeMoves ==
  ASSUME ParseIInv, NEW f, NEW l, At(f, l),
         <<f, l>> \in {<<"parse_expr_ternary", "question">>, <<"parse_decl_var", "name">>,
                       <<"parse_stmt_do_while", "while">>}
  PROVE  \A items :
           /\ Goto(items) /\ Turns(items, 0) => Kept
           /\ Eat(items) /\ Mark(token) /\ Turns(items, 4) => Kept
<1>1. f \in Functions /\ 0 = Cost(Rest(f, l)) /\ (\A x : Before(x, f, l) = Over(x, "tree")) /\ 0 + 4 = 4
  BY RestCosts, Befores, FunctionsIn
<1> QED BY <1>1, RestMoves DEF Turns

LEMMA SimpleMoves ==
  ASSUME ParseIInv, At("parse_simple_stmt", "expr")
  PROVE  \A items :
           /\ Goto(items) /\ Turns(items, 1) => Kept
           /\ Eat(items) /\ Mark(token) /\ Turns(items, 5) => Kept
           /\ Keep(items) /\ token # "EOF" /\ Merges(items, 4) => Kept
<1> DEFINE f == "parse_simple_stmt"
<1>1. f \in Functions /\ 1 = Cost(Rest(f, "expr")) /\ (\A x : Before(x, f, "expr") = Over(x, "tree"))
      /\ 1 + 4 = 5 /\ 1 + 3 = 4
  BY RestCosts, Befores, FunctionsIn
<1> QED BY <1>1, RestMoves DEF Turns, Merges

LEMMA IfMoves ==
  ASSUME ParseIInv
  PROVE  /\ At("parse_stmt_if", "loop") =>
              \A items :
                /\ Goto(items) /\ Elses(items, 2) => Kept
                /\ Eat(items) /\ Mark(token) /\ Elses(items, 6) => Kept
         /\ At("parse_stmt_if", "else") =>
              \A items :
                /\ Goto(items) /\ Elses(items, 1) => Kept
                /\ Eat(items) /\ Mark(token) /\ Elses(items, 5) => Kept
<1> DEFINE f == "parse_stmt_if"
<1>1. f \in Functions
  BY FunctionsIn
<1>2. /\ 2 = Cost(Rest(f, "loop")) /\ 1 = Cost(Rest(f, "else")) /\ 2 + 4 = 6 /\ 1 + 4 = 5
      /\ \A x : Before(x, f, "loop") = Over(Over(Over(x, "tree"), "tree"), "list")
      /\ \A x : Before(x, f, "else") = Over(Over(Over(x, "tree"), "tree"), "list")
  BY RestCosts, Befores
<1> HIDE DEF f
<1>3. ASSUME NEW l, At(f, l), NEW c, c = Cost(Rest(f, l)),
             \A x : Before(x, f, l) = Over(Over(Over(x, "tree"), "tree"), "list"), NEW items
      PROVE  /\ Goto(items) /\ Elses(items, c) => Kept
             /\ Eat(items) /\ Mark(token) /\ Elses(items, c + 4) => Kept
  BY <1>1, <1>3, RestMoves DEF Elses
<1> QED BY <1>2, <1>3 DEF f

LEMMA LabelsMoves ==
  ASSUME ParseIInv, At("parse_stmt_switch_case", "labels")
  PROVE  \A items :
           /\ Goto(items) /\ Labels(items, -2) => Kept
           /\ Eat(items) /\ Mark(token) /\ Labels(items, 2) => Kept
<1> DEFINE f == "parse_stmt_switch_case"
<1>1. f \in Functions /\ -2 = Cost(Rest(f, "labels")) /\ (-2) + 4 = 2
      /\ \A x : Before(x, f, "labels") = Over(Over(x, "flag"), "list")
  BY RestCosts, Befores, FunctionsIn
<1> QED BY <1>1, RestMoves DEF Labels

LEMMA AggregateMoves ==
  ASSUME ParseIInv, NEW kind \in {"struct", "union"}, At("parse_decl_aggregate", kind)
  PROVE  \A items : Goto(items) /\ Gives(items, 0) => Kept
<1> DEFINE f == "parse_decl_aggregate"
<1>1. f \in Functions /\ 0 = Cost(Rest(f, kind)) /\ \A x : Before(x, f, kind) = x
  BY RestCosts, Befores, FunctionsIn
<1> QED BY <1>1, RestMoves DEF Gives

LEMMA InnerIn == "parse_expr_compound" \in Inner /\ "fatal" \in Inner
BY DEF Inner

LEMMA FatalItem ==
  \A y : Is(y, "tree") => Ready(y, fatal) /\ After(y, fatal) = y /\ Cost(fatal) = 0
BY InnerItem, InnerIn, CallCosts DEF fatal

(* Types. *)
LEMMA TypeFuncKeeps == ASSUME ParseIInv, parse_type_func PROVE Kept
<1>1. Gives(<<Expect("LPAREN"), List("parse_type", "RPAREN"), Expect("RPAREN"),
              IfMatch("COLON", "parse_type"), Make("typespec_func", 2)>>, 0)
  BY Runs5, ExpectItem, MarksIn, ListItem, PlainIn, IfMatchItem, MakeFuncTypeItem, Unders DEF Gives
<1> QED BY <1>1, BeginMoves, CallCosts, FunctionsIn
       DEF parse_type_func, Mark, Carried

LEMMA TypeBaseKeeps == ASSUME ParseIInv, parse_type_base PROVE Kept
<1>1. Names(<<Make("typespec_name", 1)>>, 1)
  BY Runs1, MakeNameItem, Unders DEF Names
<1>2. Gives(<<Call("parse_type_func")>>, 2)
  BY Runs1, CallItem, CallCosts, FunctionsIn, Unders DEF Gives
<1>3. Gives(<<Call("parse_type"), Expect("RPAREN")>>, 2)
  BY Runs2, CallItem, CallCosts, FunctionsIn, ExpectItem, MarksIn, Unders DEF Gives
<1> QED BY <1>1, <1>2, <1>3, BeginMoves, Gone, CallCosts, FunctionsIn
       DEF parse_type_base, Mark, Carried

LEMMA TypeKeeps == ASSUME ParseIInv, parse_type PROVE Kept
<1>1. Gives(<<Call("parse_type_base"), <<"parse_type", "loop">>>>, -2)
  BY Runs2, CallItem, CallCosts, FunctionsIn, LoopItem, LoopsIn, Unders DEF Gives
<1>2. Turns(<<Unless("RBRACKET", "parse_expr"), Expect("RBRACKET"), Make("typespec_array", 2),
              <<"parse_type", "loop">>>>, 4)
  <2>1. /\ "parse_expr" \in Plain
        /\ "RBRACKET" \in Marks
        /\ Plainly("typespec_array")
        /\ "parse_type" \in Loops
    BY PlainIn, MarksIn, PlainlyIn, LoopsIn
  <2> QED BY <2>1, Runs4, UnlessItem, ExpectItem, Make2Item, LoopItem, Unders DEF Turns
<1>3. Turns(<<Make("typespec_ptr", 1), <<"parse_type", "loop">>>>, 4)
  BY Runs2, Make1Item, PlainlyIn, LoopItem, LoopsIn, Unders DEF Turns
<1>4. Turns(<< >>, 0)
  BY RunsEmpty DEF Turns
<1> QED BY <1>1, <1>2, <1>3, <1>4, BeginMoves, LoopMoves, CallCosts, FunctionsIn, LoopsIn
       DEF parse_type, Mark, Carried

(* Expressions. *)
LEMMA ExprCompoundKeeps == ASSUME ParseIInv, parse_expr_compound PROVE Kept
<1>1. Turns(<<Expect("LBRACE"), List("parse_expr", "RBRACE"), Expect("RBRACE"),
              Make("expr_compound", 2)>>, -3)
  <2>1. /\ "LBRACE" \in Marks
        /\ "parse_expr" \in Plain
        /\ "RBRACE" \in Marks
    BY MarksIn, PlainIn
  <2> QED BY <2>1, Runs4, ExpectItem, ListItem, MakeListItem, Unders DEF Turns
<1> QED BY <1>1, CompoundMoves
       DEF parse_expr_compound, Mark, Carried

LEMMA ExprOperandKeeps == ASSUME ParseIInv, parse_expr_operand PROVE Kept
<1>1. Turns(<<Make("expr_int", 1)>>, 1)
  BY Runs1, Make1Item, PlainlyIn, Unders DEF Turns
<1>2. Turns(<<Make("expr_float", 1)>>, 1)
  BY Runs1, Make1Item, PlainlyIn, Unders DEF Turns
<1>3. Turns(<<Make("expr_str", 1)>>, 1)
  BY Runs1, Make1Item, PlainlyIn, Unders DEF Turns
<1>4. Names(<<<<"parse_expr_operand", "name">>>>, 1)
  BY Runs1, OperandItem, Unders DEF Names
<1>5. Gives(<<Expect("LPAREN"), <<"parse_expr_operand", "sizeof">>>>, 2)
  <2>1. /\ "LPAREN" \in Marks
    BY MarksIn
  <2> QED BY <2>1, Runs2, ExpectItem, OperandItem, Unders DEF Gives
<1>6. Gives(<<Push(Null), Call("parse_expr_compound")>>, -2)
  BY Runs2, PushItem, Kindred, InnerItem, CallCosts, InnerIn, Unders DEF Gives
<1>7. Gives(<<<<"parse_expr_operand", "paren">>>>, 2)
  BY Runs1, OperandItem, Unders DEF Gives
<1>8. Names(<<Make("typespec_name", 1), Call("parse_expr_compound")>>, 1)
  <2>1. /\ "parse_expr_compound" \in Inner
        /\ CallCost("parse_expr_compound") = -3
    BY InnerIn, CallCosts
  <2> QED BY <2>1, Runs2, MakeNameItem, InnerItem, Unders DEF Names
<1>9. Names(<<Make("expr_name", 1)>>, 1)
  BY Runs1, MakeNameItem, Unders DEF Names
<1>10. Gives(<<Call("parse_type"), Expect("RPAREN"), Make("expr_sizeof_type", 1)>>, 4)
  BY Runs3, CallItem, CallCosts, FunctionsIn, ExpectItem, MarksIn, Make1Item, PlainlyIn, Unders DEF Gives
<1>11. Gives(<<Call("parse_expr"), Expect("RPAREN"), Make("expr_sizeof_expr", 1)>>, 0)
  BY Runs3, CallItem, CallCosts, FunctionsIn, ExpectItem, MarksIn, Make1Item, PlainlyIn, Unders DEF Gives
<1>12. Gives(<<Call("parse_type"), Expect("RPAREN"), Call("parse_expr_compound")>>, 4)
  BY Runs3, CallItem, CallCosts, FunctionsIn, ExpectItem, MarksIn, InnerItem, InnerIn, Unders DEF Gives
<1>13. Gives(<<Call("parse_expr"), Expect("RPAREN")>>, 0)
  BY Runs2, CallItem, CallCosts, FunctionsIn, ExpectItem, MarksIn, Unders DEF Gives
<1> QED BY <1>1, <1>2, <1>3, <1>4, <1>5, <1>6, <1>7, <1>8, <1>9, <1>10, <1>11, <1>12, <1>13,
         BeginMoves, OperandMoves, Gone, CallCosts, FunctionsIn
       DEF parse_expr_operand, Mark, Carried

LEMMA ExprBaseKeeps == ASSUME ParseIInv, parse_expr_base PROVE Kept
<1>1. Gives(<<Call("parse_expr_operand"), <<"parse_expr_base", "loop">>>>, -2)
  BY Runs2, CallItem, CallCosts, FunctionsIn, LoopItem, LoopsIn, Unders DEF Gives
<1>2. Turns(<<List("parse_expr", "RPAREN"), Expect("RPAREN"), Make("expr_call", 2),
              <<"parse_expr_base", "loop">>>>, 4)
  BY Runs4, ListItem, PlainIn, ExpectItem, MarksIn, MakeListItem, LoopItem, LoopsIn, Unders DEF Turns
<1>3. Turns(<<Call("parse_expr"), Expect("RBRACKET"), Make("expr_index", 2),
              <<"parse_expr_base", "loop">>>>, 4)
  BY Runs4, CallItem, CallCosts, FunctionsIn, ExpectItem, MarksIn, Make2Item, PlainlyIn, LoopItem,
     LoopsIn, Unders DEF Turns
<1>4. Turns(<<Call("parse_name"), Make("expr_field", 2), <<"parse_expr_base", "loop">>>>, 4)
  BY Runs3, CallItem, CallCosts, FunctionsIn, Make2Item, PlainlyIn, LoopItem, LoopsIn, Unders DEF Turns
<1>5. Turns(<< >>, 0)
  BY RunsEmpty DEF Turns
<1> QED BY <1>1, <1>2, <1>3, <1>4, <1>5, BeginMoves, LoopMoves, CallCosts, FunctionsIn, LoopsIn
       DEF parse_expr_base, Mark, Carried

LEMMA ExprUnaryKeeps == ASSUME ParseIInv, parse_expr_unary PROVE Kept
<1>1. Turns(<<Call("parse_expr_unary"), Make("expr_unary", 2)>>, 1)
  BY Runs2, CallItem, CallCosts, FunctionsIn, Make2Item, PlainlyIn, Unders DEF Turns
<1>2. Gives(<<Call("parse_expr_base")>>, -2)
  BY Runs1, CallItem, CallCosts, FunctionsIn, Unders DEF Gives
<1> QED BY <1>1, <1>2, BeginMoves, CallCosts, FunctionsIn
       DEF parse_expr_unary, UnaryOps, Mark, Carried

LEMMA ExprTernaryKeeps == ASSUME ParseIInv, parse_expr_ternary PROVE Kept
<1>1. Gives(<<Call("parse_expr_or"), <<"parse_expr_ternary", "question">>>>, -2)
  BY Runs2, CallItem, CallCosts, FunctionsIn, TreeItem, Unders DEF Gives
<1>2. Turns(<<Call("parse_expr_ternary"), Expect("COLON"), Call("parse_expr_ternary"),
              Make("expr_ternary", 3)>>, 4)
  BY Runs4, CallItem, CallCosts, FunctionsIn, ExpectItem, MarksIn, Make3Item, PlainlyIn, Unders DEF Turns
<1>3. Turns(<< >>, 0)
  BY RunsEmpty DEF Turns
<1> QED BY <1>1, <1>2, <1>3, BeginMoves, TreeMoves, CallCosts, FunctionsIn
       DEF parse_expr_ternary, Mark, Carried

LEMMA ExprKeeps == ASSUME ParseIInv, parse_expr PROVE Kept
<1>1. Gives(<<Call("parse_expr_ternary")>>, -2)
  BY Runs1, CallItem, CallCosts, FunctionsIn, Unders DEF Gives
<1> QED BY <1>1, BeginMoves, CallCosts, FunctionsIn
       DEF parse_expr, Mark, Carried

LEMMA ParenExprKeeps == ASSUME ParseIInv, parse_paren_expr PROVE Kept
<1>1. Gives(<<Expect("LPAREN"), Call("parse_expr"), Expect("RPAREN")>>, 0)
  BY Runs3, ExpectItem, MarksIn, CallItem, CallCosts, FunctionsIn, Unders DEF Gives
<1> QED BY <1>1, BeginMoves, CallCosts, FunctionsIn
       DEF parse_paren_expr, Mark, Carried

LEMMA NameKeeps == ASSUME ParseIInv, parse_name PROVE Kept
<1>1. Turns(<< >>, 0)
  BY RunsEmpty DEF Turns
<1> QED BY <1>1, BeginMoves, Gone, CallCosts, FunctionsIn
       DEF parse_name, Mark, Carried

(* Declarations. *)
LEMMA DeclEnumItemKeeps == ASSUME ParseIInv, parse_decl_enum_item PROVE Kept
<1>1. Gives(<<Call("parse_name"), IfMatch("ASSIGN", "parse_expr"), Make("EnumItem", 2)>>, 0)
  BY Runs3, CallItem, CallCosts, FunctionsIn, IfMatchItem, MarksIn, PlainIn, Make2Item, PlainlyIn,
     Unders DEF Gives
<1> QED BY <1>1, BeginMoves, CallCosts, FunctionsIn
       DEF parse_decl_enum_item, Mark, Carried

LEMMA DeclEnumKeeps == ASSUME ParseIInv, parse_decl_enum PROVE Kept
<1>1. Gives(<<Call("parse_name"), Expect("LBRACE"), List("parse_decl_enum_item", "RBRACE"),
              Expect("RBRACE"), Make("decl_enum", 2)>>, 0)
  BY Runs5, CallItem, CallCosts, FunctionsIn, ExpectItem, MarksIn, ListItem, PlainIn, MakeListItem,
     Unders DEF Gives
<1> QED BY <1>1, BeginMoves, CallCosts, FunctionsIn
       DEF parse_decl_enum, Mark, Carried

LEMMA DeclVarKeeps == ASSUME ParseIInv, parse_decl_var PROVE Kept
<1>1. Gives(<<Call("parse_name"), <<"parse_decl_var", "name">>>>, 0)
  BY Runs2, CallItem, CallCosts, FunctionsIn, TreeItem, Unders DEF Gives
<1>2. Turns(<<Push(Null), Call("parse_expr"), Make("decl_var", 3)>>, 4)
  BY Runs3, PushItem, Kindred, CallItem, CallCosts, FunctionsIn, Make3Item, PlainlyIn, Unders DEF Turns
<1>3. Turns(<<Call("parse_type"), IfMatch("ASSIGN", "parse_expr"), Make("decl_var", 3)>>, 4)
  BY Runs3, CallItem, CallCosts, FunctionsIn, IfMatchItem, MarksIn, PlainIn, Make3Item, PlainlyIn,
     Unders DEF Turns
<1> QED BY <1>1, <1>2, <1>3, BeginMoves, TreeMoves, Gone, CallCosts, FunctionsIn
       DEF parse_decl_var, Mark, Carried

LEMMA DeclConstKeeps == ASSUME ParseIInv, parse_decl_const PROVE Kept
<1>1. Gives(<<Call("parse_name"), Expect("ASSIGN"), Call("parse_expr"), Make("decl_const", 2)>>, 0)
  <2>1. /\ \A x : /\ Ready(x, Call("parse_name")) /\ After(x, Call("parse_name")) = Over(x, "tree")
                  /\ Ready(x, Expect("ASSIGN")) /\ After(x, Expect("ASSIGN")) = x
                  /\ Ready(x, Call("parse_expr")) /\ After(x, Call("parse_expr")) = Over(x, "tree")
        /\ Cost(Call("parse_name")) = -3 /\ Cost(Expect("ASSIGN")) = -4 /\ Cost(Call("parse_expr")) = -2
    BY CallItem, CallCosts, FunctionsIn, ExpectItem, MarksIn
  <2> QED BY <2>1, Runs4, Make2Item, PlainlyIn, Unders DEF Gives
<1> QED BY <1>1, BeginMoves, CallCosts, FunctionsIn
       DEF parse_decl_const, Mark, Carried

LEMMA DeclTypedefKeeps == ASSUME ParseIInv, parse_decl_typedef PROVE Kept
<1>1. Gives(<<Call("parse_name"), Expect("ASSIGN"), Call("parse_type"), Make("decl_typedef", 2)>>, 0)
  BY Runs4, CallItem, CallCosts, FunctionsIn, ExpectItem, MarksIn, Make2Item, PlainlyIn, Unders DEF Gives
<1> QED BY <1>1, BeginMoves, CallCosts, FunctionsIn
       DEF parse_decl_typedef, Mark, Carried

LEMMA DeclFuncParamKeeps == ASSUME ParseIInv, parse_decl_func_param PROVE Kept
<1>1. Gives(<<Call("parse_name"), Expect("COLON"), Call("parse_type"), Make("FuncParam", 2)>>, 0)
  BY Runs4, CallItem, CallCosts, FunctionsIn, ExpectItem, MarksIn, Make2Item, PlainlyIn, Unders DEF Gives
<1> QED BY <1>1, BeginMoves, CallCosts, FunctionsIn
       DEF parse_decl_func_param, Mark, Carried

LEMMA DeclKeeps == ASSUME ParseIInv, parse_decl PROVE Kept
<1>1. Gives(<<Call("parse_decl_opt")>>, 0)
  BY Runs1, CallItem, CallCosts, FunctionsIn, Unders DEF Gives
<1> QED BY <1>1, BeginMoves, Gone, CallCosts, FunctionsIn
       DEF parse_decl, DeclKeywords, Mark, Carried

(* Statements. *)
LEMMA StmtIfKeeps == ASSUME ParseIInv, parse_stmt_if PROVE Kept
<1>1. Gives(<<Call("parse_paren_expr"), Call("parse_stmt_block"), Push(Empty),
              <<"parse_stmt_if", "loop">>>>, 3)
  BY Runs4, CallItem, CallCosts, FunctionsIn, PushItem, Kindred, IfItem, Unders DEF Gives
<1>2. Elses(<<<<"parse_stmt_if", "else">>>>, 6)
  BY Runs1, IfItem, Unders DEF Elses
<1>3. Elses(<<Push(EmptyBlock), Make("stmt_if", 4)>>, 2)
  BY Runs2, PushItem, Kindred, MakeIfItem, Unders DEF Elses
<1>4. Elses(<<Call("parse_paren_expr"), Call("parse_stmt_block"), Make("ElseIf", 2), PushBack,
              <<"parse_stmt_if", "loop">>>>, 5)
  BY Runs5, CallItem, CallCosts, FunctionsIn, Make2Item, PlainlyIn, PushBackItem, IfItem, Unders DEF Elses
<1>5. Elses(<<Call("parse_stmt_block"), Make("stmt_if", 4)>>, 1)
  BY Runs2, CallItem, CallCosts, FunctionsIn, MakeIfItem, Unders DEF Elses
<1> QED BY <1>1, <1>2, <1>3, <1>4, <1>5, BeginMoves, IfMoves, CallCosts, FunctionsIn
       DEF parse_stmt_if, Mark, Carried

LEMMA StmtWhileKeeps == ASSUME ParseIInv, parse_stmt_while PROVE Kept
<1>1. Gives(<<Call("parse_paren_expr"), Call("parse_stmt_block"), Make("stmt_while", 2)>>, 0)
  BY Runs3, CallItem, CallCosts, FunctionsIn, Make2Item, PlainlyIn, Unders DEF Gives
<1> QED BY <1>1, BeginMoves, CallCosts, FunctionsIn
       DEF parse_stmt_while, Mark, Carried

LEMMA StmtDoWhileKeeps == ASSUME ParseIInv, parse_stmt_do_while PROVE Kept
<1>1. Gives(<<Call("parse_stmt_block"), <<"parse_stmt_do_while", "while">>>>, 0)
  BY Runs2, CallItem, CallCosts, FunctionsIn, TreeItem, Unders DEF Gives
<1>2. Turns(<<Call("parse_paren_expr"), Make("stmt_do_while", 2), Expect("SEMICOLON")>>, 4)
  BY Runs3, CallItem, CallCosts, FunctionsIn, Make2Item, PlainlyIn, ExpectItem, MarksIn, Unders DEF Turns
<1> QED BY <1>1, <1>2, BeginMoves, TreeMoves, Gone, CallCosts, FunctionsIn
       DEF parse_stmt_do_while, Mark, Carried

LEMMA StmtSwitchKeeps == ASSUME ParseIInv, parse_stmt_switch PROVE Kept
<1>1. Gives(<<Call("parse_paren_expr"), Expect("LBRACE"), Push(Empty),
              Each("parse_stmt_switch_case", {"RBRACE"}), Expect("RBRACE"), Make("stmt_switch", 2)>>, 0)
  <2>1. /\ "parse_paren_expr" \in Functions
        /\ CallCost("parse_paren_expr") = 0
        /\ "LBRACE" \in Marks
        /\ "parse_stmt_switch_case" \in Plain
        /\ "RBRACE" \in Marks
    BY FunctionsIn, CallCosts, MarksIn, PlainIn
  <2> QED BY <2>1, Runs6, CallItem, ExpectItem, PushItem, Kindred, EachItem, MakeListItem,
             Unders DEF Gives
<1> QED BY <1>1, BeginMoves, CallCosts, FunctionsIn
       DEF parse_stmt_switch, Mark, Carried

LEMMA StmtKeeps == ASSUME ParseIInv, parse_stmt PROVE Kept
<1>1. Gives(<<Call("parse_stmt_if")>>, 4)
  BY Runs1, CallItem, CallCosts, FunctionsIn, Unders DEF Gives
<1>2. Gives(<<Call("parse_stmt_while")>>, 4)
  BY Runs1, CallItem, CallCosts, FunctionsIn, Unders DEF Gives
<1>3. Gives(<<Call("parse_stmt_do_while")>>, 4)
  BY Runs1, CallItem, CallCosts, FunctionsIn, Unders DEF Gives
<1>4. Gives(<<Call("parse_stmt_for")>>, 4)
  BY Runs1, CallItem, CallCosts, FunctionsIn, Unders DEF Gives
<1>5. Gives(<<Call("parse_stmt_switch")>>, 4)
  BY Runs1, CallItem, CallCosts, FunctionsIn, Unders DEF Gives
<1>6. Gives(<<Call("parse_stmt_block"), Make("stmt_block", 1)>>, 0)
  BY Runs2, CallItem, CallCosts, FunctionsIn, Make1Item, PlainlyIn, Unders DEF Gives
<1>7. Gives(<<Expect("SEMICOLON"), Make("stmt_break", 0)>>, 4)
  BY Runs2, ExpectItem, MarksIn, Make0Item, PlainlyIn, Unders DEF Gives
<1>8. Gives(<<Expect("SEMICOLON"), Make("stmt_continue", 0)>>, 4)
  BY Runs2, ExpectItem, MarksIn, Make0Item, PlainlyIn, Unders DEF Gives
<1>9. Gives(<<Unless("SEMICOLON", "parse_expr"), Expect("SEMICOLON"), Make("stmt_return", 1)>>, 4)
  BY Runs3, UnlessItem, PlainIn, ExpectItem, MarksIn, Make1Item, PlainlyIn, Unders DEF Gives
<1>10. Gives(<<Call("parse_decl_opt"), Make("stmt_decl", 1)>>, 0)
  BY Runs2, CallItem, CallCosts, FunctionsIn, Make1Item, PlainlyIn, Unders DEF Gives
<1>11. Gives(<<Call("parse_simple_stmt"), Expect("SEMICOLON")>>, 0)
  BY Runs2, CallItem, CallCosts, FunctionsIn, ExpectItem, MarksIn, Unders DEF Gives
<1> QED BY <1>1, <1>2, <1>3, <1>4, <1>5, <1>6, <1>7, <1>8, <1>9, <1>10, <1>11, BeginMoves,
         CallCosts, FunctionsIn
       DEF parse_stmt, DeclKeywords, Mark, Carried

LEMMA StmtBlockKeeps == ASSUME ParseIInv, parse_stmt_block PROVE Kept
<1>1. Gives(<<Expect("LBRACE"), Push(Empty), Each("parse_stmt", {"RBRACE"}), Expect("RBRACE"),
              Dup(0)>>, -1)
  BY Runs5, ExpectItem, MarksIn, PushItem, Kindred, EachItem, PlainIn, DupTopItem, Unders DEF Gives
<1> QED BY <1>1, BeginMoves, CallCosts, FunctionsIn
       DEF parse_stmt_block, Mark, Carried

(* Binary operators. *)
Operands == {"parse_expr_unary", "parse_expr_mul", "parse_expr_add", "parse_expr_cmp", "parse_expr_and"}

LEMMA LeftAssociativeKeeps ==
  ASSUME ParseIInv, NEW f \in Loops \ {"parse_type", "parse_expr_base"}, NEW sub \in Operands,
         NEW ops, "EOF" \notin ops, LeftAssociative(f, sub, ops)
  PROVE  Kept
<1>1. f \in Functions /\ sub \in Functions /\ CallCost(f) = -2 /\ CallCost(sub) = -2
  BY FunctionsIn, CallCosts DEF Operands, Loops
<1>2. /\ \A x : Ready(x, Call(sub)) /\ After(x, Call(sub)) = Over(x, "tree")
      /\ Cost(Call(sub)) = -2
      /\ \A y : Is(y, "tree") => Ready(y, <<f, "loop">>) /\ After(y, <<f, "loop">>) = y
      /\ Cost(<<f, "loop">>) = 0
  <2>1. \E y : Is(y, "tree")
    BY Unders
  <2> QED BY <1>1, <2>1, CallItem, LoopItem
<1>3. Gives(<<Call(sub), <<f, "loop">>>>, -2)
  BY <1>2, Runs2, Unders DEF Gives
<1>4. Merges(<<Call(sub), Make("expr_binary", 3), <<f, "loop">>>>, 3)
  BY <1>2, Runs3, Make3Item, PlainlyIn, Unders DEF Merges
<1>5. Turns(<< >>, 0)
  BY RunsEmpty DEF Turns
<1>6. CASE At(f, "begin") /\ Goto(<<Call(sub), <<f, "loop">>>>)
  BY <1>1, <1>3, <1>6, BeginMoves
<1>7. CASE At(f, "loop") /\ token \in ops /\ Keep(<<Call(sub), Make("expr_binary", 3), <<f, "loop">>>>)
  BY <1>4, <1>7, LoopMoves
<1>8. CASE At(f, "loop") /\ Goto(<< >>)
  BY <1>5, <1>8, LoopMoves
<1> QED BY <1>6, <1>7, <1>8 DEF LeftAssociative

LEMMA ExprBinaryKeeps ==
  ASSUME ParseIInv, parse_expr_mul \/ parse_expr_add \/ parse_expr_cmp \/ parse_expr_and \/ parse_expr_or
  PROVE  Kept
<1>1. CASE parse_expr_mul
  BY <1>1, LeftAssociativeKeeps, LoopsIn DEF parse_expr_mul, Operands, MulOps
<1>2. CASE parse_expr_add
  BY <1>2, LeftAssociativeKeeps, LoopsIn DEF parse_expr_add, Operands, AddOps
<1>3. CASE parse_expr_cmp
  BY <1>3, LeftAssociativeKeeps, LoopsIn DEF parse_expr_cmp, Operands, CmpOps
<1>4. CASE parse_expr_and
  BY <1>4, LeftAssociativeKeeps, LoopsIn DEF parse_expr_and, Operands
<1>5. CASE parse_expr_or
  BY <1>5, LeftAssociativeKeeps, LoopsIn DEF parse_expr_or, Operands
<1> QED BY <1>1, <1>2, <1>3, <1>4, <1>5

(* Declarations with longer lists. *)
LEMMA DeclAggregateItemKeeps == ASSUME ParseIInv, parse_decl_aggregate_item PROVE Kept
<1> DEFINE s == <<Push(Empty), Call("parse_name"), More("parse_name"), Expect("COLON")>>
           t == <<Call("parse_type"), Expect("SEMICOLON"), Dup(1), Make("AggregateItem", 2)>>
<1>1. \A x : Runs(s, x, Over(x, "list"), -6)
  BY Runs4, PushItem, Kindred, CallItem, CallCosts, FunctionsIn, MoreItem, PlainIn, ExpectItem, MarksIn,
     Unders
<1>2. \A x : Runs(t, Over(x, "list"), Over(x, "tree"), -5)
  <2>1. /\ \A x : /\ Ready(x, Call("parse_type")) /\ After(x, Call("parse_type")) = Over(x, "tree")
                  /\ Ready(x, Expect("SEMICOLON")) /\ After(x, Expect("SEMICOLON")) = x
        /\ Cost(Call("parse_type")) = -2 /\ Cost(Expect("SEMICOLON")) = -4
    BY CallItem, CallCosts, FunctionsIn, ExpectItem, MarksIn
  <2>2. /\ \A x : LET y == Over(Over(x, "list"), "tree")
                      z == Over(Over(x, "tree"), "tree")
                  IN  /\ Ready(y, Dup(1)) /\ After(y, Dup(1)) = z
                      /\ Ready(z, Make("AggregateItem", 2))
                         /\ After(z, Make("AggregateItem", 2)) = Over(x, "tree")
        /\ Cost(Dup(1)) = 0 /\ Cost(Make("AggregateItem", 2)) = 1
    BY PlainlyIn, DupBelowItem, Make2Item, Unders
  <2>3. PICK a, b, c, d : /\ a = Call("parse_type") /\ b = Expect("SEMICOLON") /\ c = Dup(1)
                          /\ d = Make("AggregateItem", 2)
    OBVIOUS
  <2>4. \A x : Runs(<<a, b, c, d>>, Over(x, "list"), Over(x, "tree"), -5)
    <3> TAKE x
    <3>1. LET x0 == Over(x, "list")
              x1 == After(x0, a)
              x2 == After(x1, b)
              x3 == After(x2, c)
          IN  /\ Ready(x0, a) /\ Ready(x1, b) /\ Ready(x2, c) /\ Ready(x3, d)
              /\ Over(x, "tree") = After(x3, d)
      BY <2>1, <2>2, <2>3
    <3>2. Cost(a) + (Cost(b) + (Cost(c) + Cost(d))) <= -5 /\ -5 \in Int
      BY <2>1, <2>2, <2>3
    <3> HIDE DEF Over
    <3> QED BY <3>1, <3>2, Runs4
  <2> QED BY <2>3, <2>4
<1> DEFINE u == <<Push(Empty), Call("parse_name"), More("parse_name"), Expect("COLON"),
                  Call("parse_type"), Expect("SEMICOLON"), Dup(1), Make("AggregateItem", 2)>>
<1>3. u = s \o t
  BY Joins8
<1>4. Goto(u) /\ At("parse_decl_aggregate_item", "begin")
  BY DEF parse_decl_aggregate_item
<1> HIDE DEF s, t, u
<1>5. \A x : Runs(u, x, Over(x, "tree"), (-6) + (-5))
  BY <1>1, <1>2, <1>3, RunsConcat
<1>6. Gives(u, 0)
  <2>1. (-6) + (-5) <= 0
    OBVIOUS
  <2> QED BY <1>5, <2>1, RunsMore DEF Gives
<1> QED BY <1>4, <1>6, BeginMoves, CallCosts, FunctionsIn

LEMMA DeclAggregateKeeps == ASSUME ParseIInv, parse_decl_aggregate PROVE Kept
<1>1. PICK kind \in {"struct", "union"} :
        /\ At("parse_decl_aggregate", kind)
        /\ Goto(<<Call("parse_name"), Expect("LBRACE"), Push(Empty),
                  Each("parse_decl_aggregate_item", {"RBRACE"}), Expect("RBRACE"), Make(kind, 2)>>)
  BY DEF parse_decl_aggregate
<1>2. Gives(<<Call("parse_name"), Expect("LBRACE"), Push(Empty),
              Each("parse_decl_aggregate_item", {"RBRACE"}), Expect("RBRACE"), Make(kind, 2)>>, 0)
  <2> DEFINE it == Each("parse_decl_aggregate_item", {"RBRACE"})
  <2>1. /\ \A x : /\ Ready(x, Call("parse_name")) /\ After(x, Call("parse_name")) = Over(x, "tree")
                  /\ Ready(x, Expect("LBRACE")) /\ After(x, Expect("LBRACE")) = x
                  /\ Ready(x, Expect("RBRACE")) /\ After(x, Expect("RBRACE")) = x
                  /\ Ready(x, Push(Empty)) /\ After(x, Push(Empty)) = Over(x, "list")
        /\ Cost(Call("parse_name")) = -3 /\ Cost(Expect("LBRACE")) = -4 /\ Cost(Expect("RBRACE")) = -4
        /\ Cost(Push(Empty)) = 1
    BY CallItem, CallCosts, FunctionsIn, ExpectItem, MarksIn, PushItem, Kindred
  <2>2. /\ \A x : LET y == Over(Over(x, "tree"), "list")
                  IN  /\ Ready(y, it) /\ After(y, it) = y
                      /\ Ready(y, Make(kind, 2)) /\ After(y, Make(kind, 2)) = Over(x, "tree")
        /\ Cost(it) = 0 /\ Cost(Make(kind, 2)) = 1
    BY EachItem, PlainIn, MakeListItem, Unders
  <2> HIDE DEF it
  <2>3. Gives(<<Call("parse_name"), Expect("LBRACE"), Push(Empty), it, Expect("RBRACE"), Make(kind, 2)>>,
        0)
    BY <2>1, <2>2, Runs6 DEF Gives
  <2> QED BY <2>3 DEF it
<1> QED BY <1>1, <1>2, AggregateMoves

LEMMA DeclFuncKeeps == ASSUME ParseIInv, parse_decl_func PROVE Kept
<1> DEFINE s == <<Call("parse_name"), Expect("LPAREN"), List("parse_decl_func_param", "RPAREN"),
                  Expect("RPAREN")>>
           t == <<IfMatch("COLON", "parse_type"), Call("parse_stmt_block"), Make("decl_func", 4)>>
<1>1. \A x : Runs(s, x, Over(Over(x, "tree"), "list"), -10)
  BY Runs4, CallItem, CallCosts, FunctionsIn, ExpectItem, MarksIn, ListItem, PlainIn, Unders
<1>2. \A x : Runs(t, Over(Over(x, "tree"), "list"), Over(x, "tree"), 1)
  <2>1. /\ \A x : /\ Ready(x, IfMatch("COLON", "parse_type"))
                  /\ After(x, IfMatch("COLON", "parse_type")) = Over(x, "tree")
                  /\ Ready(x, Call("parse_stmt_block"))
                     /\ After(x, Call("parse_stmt_block")) = Over(x, "tree")
        /\ Cost(IfMatch("COLON", "parse_type")) = 1 /\ Cost(Call("parse_stmt_block")) = -1
    BY IfMatchItem, CallItem, CallCosts, FunctionsIn, MarksIn, PlainIn
  <2>2. /\ \A x : LET y == Over(Over(Over(Over(x, "tree"), "list"), "tree"), "tree")
                  IN  Ready(y, Make("decl_func", 4)) /\ After(y, Make("decl_func", 4)) = Over(x, "tree")
        /\ Cost(Make("decl_func", 4)) = 1
    BY MakeFuncItem, Unders
  <2> QED BY <2>1, <2>2, Runs3
<1> DEFINE u == <<Call("parse_name"), Expect("LPAREN"), List("parse_decl_func_param", "RPAREN"),
                  Expect("RPAREN"), IfMatch("COLON", "parse_type"), Call("parse_stmt_block"),
                  Make("decl_func", 4)>>
<1>3. u = s \o t
  BY Joins7
<1>4. Goto(u) /\ At("parse_decl_func", "begin")
  BY DEF parse_decl_func
<1> HIDE DEF s, t, u
<1>5. \A x : Runs(u, x, Over(x, "tree"), (-10) + 1)
  BY <1>1, <1>2, <1>3, RunsConcat
<1>6. Gives(u, 0)
  <2>1. (-10) + 1 <= 0
    OBVIOUS
  <2> QED BY <1>5, <2>1, RunsMore DEF Gives
<1> QED BY <1>4, <1>6, BeginMoves, CallCosts, FunctionsIn

LEMMA DeclOptKeeps == ASSUME ParseIInv, parse_decl_opt PROVE Kept
<1>1. \A f \in {"parse_decl_enum", "parse_decl_var", "parse_decl_const", "parse_decl_typedef",
                "parse_decl_func"} : Gives(<<Call(f)>>, 3)
  BY Runs1, CallItem, CallCosts, FunctionsIn, Unders DEF Gives
<1>2. \A kind \in {"struct", "union"} : Gives(<<<<"parse_decl_aggregate", kind>>>>, 3)
  BY Runs1, AggregateItem, Unders DEF Gives
<1> QED BY <1>1, <1>2, BeginMoves, CallCosts, FunctionsIn DEF parse_decl_opt, Mark, Carried

(* The return of the last call. *)
LEMMA DoneKeeps == ASSUME ParseIInv, Done PROVE Kept
<1>1. PICK p : Fits(p)
  BY DEF ParseIInv, StackOK
<1>2. UNCHANGED <<alphabet, input, todo, vals, errors>> /\ status' = "done" /\ todo = << >> /\ ErrorsOK
  BY DEF Done, ParseIInv, StatusOK
<1>3. Fits(p)'
  <2>1. MaxNodes' = MaxNodes
    BY <1>2 DEF MaxNodes
  <2> QED BY <1>1, <1>2, <2>1 DEF Fits
<1>4. StatusOK'
  BY <1>2 DEF StatusOK, ErrorsOK
<1> QED BY <1>2, <1>3, <1>4 DEF Kept, Took, StackOK

(* Statements that do more than go on with items. *)
LEMMA SimpleStmtKeeps == ASSUME ParseIInv, parse_simple_stmt PROVE Kept
<1>1. Gives(<<Call("parse_expr"), <<"parse_simple_stmt", "expr">>>>, 0)
  BY Runs2, CallItem, CallCosts, FunctionsIn, TreeItem, Unders DEF Gives
<1>2. Turns(<<fatal>>, 5)
  BY Runs1, FatalItem, Unders DEF Turns
<1>3. Merges(<<Call("parse_expr"), Make("stmt_assign", 3)>>, 4)
  <2>1. "parse_expr" \in Functions /\ CallCost("parse_expr") = -2 /\ Plainly("stmt_assign")
    BY FunctionsIn, CallCosts, PlainlyIn
  <2> QED BY <2>1, Runs2, CallItem, Make3Item, Unders DEF Merges
<1>4. Merges(<<Push(Null), Make("stmt_assign", 3)>>, 4)
  BY Runs2, PushItem, Kindred, Make3Item, PlainlyIn, Unders DEF Merges
<1>5. Turns(<<Make("stmt_expr", 1)>>, 1)
  BY Runs1, Make1Item, PlainlyIn, Unders DEF Turns
<1>6. ASSUME At("parse_simple_stmt", "expr"), token = "COLON_ASSIGN", top[1] = "expr_name",
             todo' = <<Call("parse_expr"), Make("stmt_init", 2)>> \o Tail(todo), next_token,
             vals' = [vals EXCEPT ![Len(vals)] = top[2]], UNCHANGED <<errors, status>>
      PROVE  Kept
  <2>1. status = "run" /\ todo # << >> /\ Head(todo) = Rest("parse_simple_stmt", "expr")
    BY <1>6 DEF At, Rest
  <2>2. PICK p : /\ TextOK /\ StatusOK /\ Fits(p) /\ Stacked(vals, p) /\ p.size \in Nat
                    /\ MaxNodes \in Int
                 /\ Ready(p.types, Head(todo))
    BY <2>1, IdiomMoves
  <2>3. PICK r : p.types = Over(r, "tree")
    <3>1. \A x : Before(x, "parse_simple_stmt", "expr") = Over(x, "tree")
      BY Befores
    <3> QED BY <2>1, <2>2, <3>1, FunctionsIn, RestItem
  <2>4. After(p.types, Head(todo)) = p.types /\ Cost(Head(todo)) = 1
    <3>1. Is(p.types, "tree")
      BY <2>3, Unders
    <3> QED BY <2>1, <3>1, TreeItem DEF Rest
  <2> DEFINE q == Stack(p.types, p.seen, p.size - 1)
  <2>5. Stacked(vals', q) /\ p.size - 1 \in Nat
    BY <1>6, <2>2, <2>3, NamesTop
  <2>6. q.types = p.types /\ q.seen = p.seen /\ q.size = p.size - 1
    BY StackParts
  <2> HIDE DEF q
  <2> DEFINE items == <<Call("parse_expr"), Make("stmt_init", 2)>>
  <2>7. Runs(items, p.types, p.types, 0)
    BY <2>3, Runs2, CallItem, CallCosts, FunctionsIn, Make2Item, PlainlyIn, Unders
  <2>8. todo' = items \o Tail(todo)
    BY <1>6
  <2> HIDE DEF items
  <2>9. Runs(todo', p.types, Over(Bottom, "tree"), MaxNodes - p.size + 5)
    <3>1. 0 <= 1 + 5 /\ 5 \in Int
      OBVIOUS
    <3> QED BY <2>1, <2>2, <2>4, <2>7, <2>8, <3>1, Instead
  <2>10. MaxNodes - p.size + 5 = MaxNodes + 4 - q.size
    BY <2>2, <2>6
  <2>11. token \notin Carried /\ token # "EOF"
    BY <1>6 DEF Carried
  <2>12. \A t : Covers(q.seen, Append(input, t))
    BY <2>2, <2>6, <2>11, AtHand
  <2>13. ErrorsOK'
    BY <1>6, <2>2 DEF StatusOK, ErrorsOK
  <2>14. Runs(todo', q.types, Over(Bottom, "tree"), MaxNodes - p.size + 5)
    BY <2>6, <2>9
  <2> QED BY <1>6, <2>1, <2>2, <2>5, <2>10, <2>11, <2>12, <2>13, <2>14, Takes
<1> QED BY <1>1, <1>2, <1>3, <1>4, <1>5, <1>6, BeginMoves, SimpleMoves, Gone, CallCosts, FunctionsIn
       DEF parse_simple_stmt, AssignOps, Mark, Carried

LEMMA StmtForKeeps == ASSUME ParseIInv, parse_stmt_for PROVE Kept
<1> DEFINE s == <<Expect("LPAREN"), Unless("SEMICOLON", "parse_simple_stmt"), Expect("SEMICOLON"),
                  Unless("SEMICOLON", "parse_expr"), Expect("SEMICOLON")>>
           t == <<Unless("SEMICOLON", "parse_simple_stmt"), <<"parse_stmt_for", "next">>,
                  Expect("RPAREN"), Call("parse_stmt_block"), Make("stmt_for", 4)>>
           u == <<Expect("LPAREN"), Unless("SEMICOLON", "parse_simple_stmt"), Expect("SEMICOLON"),
                  Unless("SEMICOLON", "parse_expr"), Expect("SEMICOLON"),
                  Unless("SEMICOLON", "parse_simple_stmt"), <<"parse_stmt_for", "next">>,
                  Expect("RPAREN"), Call("parse_stmt_block"), Make("stmt_for", 4)>>
<1>1. \A x : Runs(s, x, Over(Over(x, "tree"), "tree"), -10)
  <2>1. \A x : /\ Ready(x, Expect("LPAREN")) /\ After(x, Expect("LPAREN")) = x
               /\ Ready(x, Expect("SEMICOLON")) /\ After(x, Expect("SEMICOLON")) = x
               /\ Ready(x, Unless("SEMICOLON", "parse_simple_stmt"))
               /\ After(x, Unless("SEMICOLON", "parse_simple_stmt")) = Over(x, "tree")
               /\ Ready(x, Unless("SEMICOLON", "parse_expr"))
               /\ After(x, Unless("SEMICOLON", "parse_expr")) = Over(x, "tree")
    BY ExpectItem, MarksIn, UnlessItem, PlainIn
  <2>2. /\ Cost(Expect("LPAREN")) = -4 /\ Cost(Expect("SEMICOLON")) = -4
        /\ Cost(Unless("SEMICOLON", "parse_simple_stmt")) = 1
           /\ Cost(Unless("SEMICOLON", "parse_expr")) = 1
    BY ExpectItem, MarksIn, UnlessItem, PlainIn
  <2> QED BY <2>1, <2>2, Runs5
<1>2. \A x : Runs(t, Over(Over(x, "tree"), "tree"), Over(x, "tree"), -3)
  <2>1. \A x : /\ Ready(x, Expect("RPAREN")) /\ After(x, Expect("RPAREN")) = x
               /\ Ready(x, Unless("SEMICOLON", "parse_simple_stmt"))
               /\ After(x, Unless("SEMICOLON", "parse_simple_stmt")) = Over(x, "tree")
               /\ Ready(x, Call("parse_stmt_block"))
                  /\ After(x, Call("parse_stmt_block")) = Over(x, "tree")
    BY ExpectItem, MarksIn, UnlessItem, PlainIn, CallItem, FunctionsIn
  <2>2. \A x : LET y == Over(Over(Over(x, "tree"), "tree"), "tree")
               IN  /\ Ready(y, <<"parse_stmt_for", "next">>) /\ After(y, <<"parse_stmt_for", "next">>) = y
                   /\ Ready(Over(y, "tree"), Make("stmt_for", 4))
                   /\ After(Over(y, "tree"), Make("stmt_for", 4)) = Over(x, "tree")
                   /\ Cost(<<"parse_stmt_for", "next">>) = 0 /\ Cost(Make("stmt_for", 4)) = 1
    BY TreeItem, Make4Item, PlainlyIn, Unders
  <2>3. /\ Cost(Unless("SEMICOLON", "parse_simple_stmt")) = 1
        /\ Cost(Expect("RPAREN")) = -4 /\ Cost(Call("parse_stmt_block")) = -1
    BY ExpectItem, MarksIn, UnlessItem, PlainIn, CallItem, CallCosts, FunctionsIn
  <2>4. PICK a, b, c, d, e : /\ a = Unless("SEMICOLON", "parse_simple_stmt")
                                /\ b = <<"parse_stmt_for", "next">>
                             /\ c = Expect("RPAREN") /\ d = Call("parse_stmt_block")
                                /\ e = Make("stmt_for", 4)
    OBVIOUS
  <2>5. \A x : Runs(<<a, b, c, d, e>>, Over(Over(x, "tree"), "tree"), Over(x, "tree"), -3)
    <3> TAKE x
    <3>1. LET x0 == Over(Over(x, "tree"), "tree")
              x1 == After(x0, a)
              x2 == After(x1, b)
              x3 == After(x2, c)
              x4 == After(x3, d)
          IN  /\ Ready(x0, a) /\ Ready(x1, b) /\ Ready(x2, c) /\ Ready(x3, d) /\ Ready(x4, e)
              /\ Over(x, "tree") = After(x4, e)
      BY <2>1, <2>2, <2>4
    <3>2. Cost(a) + (Cost(b) + (Cost(c) + (Cost(d) + Cost(e)))) <= -3 /\ -3 \in Int
      BY <2>2, <2>3, <2>4
    <3> HIDE DEF Over
    <3> QED BY <3>1, <3>2, Runs5
  <2> QED BY <2>4, <2>5
<1>3. u = s \o t
  BY Joins10
<1>4. \/ At("parse_stmt_for", "begin") /\ Goto(u)
      \/ /\ At("parse_stmt_for", "next")
         /\ errors' = errors \union (IF top[1] = "stmt_init" THEN {"init in next"} ELSE {})
         /\ todo' = Tail(todo)
         /\ UNCHANGED <<alphabet, input, vals, status>>
  BY DEF parse_stmt_for
<1> HIDE DEF s, t, u
<1>5. \A x : Runs(u, x, Over(x, "tree"), (-10) + (-3))
  BY <1>1, <1>2, <1>3, RunsConcat
<1>6. Gives(u, 0)
  <2>1. (-10) + (-3) <= 0
    OBVIOUS
  <2> QED BY <1>5, <2>1, RunsMore DEF Gives
<1>7. CASE At("parse_stmt_for", "begin") /\ Goto(u)
  BY <1>6, <1>7, BeginMoves, CallCosts, FunctionsIn
<1>8. CASE /\ At("parse_stmt_for", "next")
           /\ errors' = errors \union (IF top[1] = "stmt_init" THEN {"init in next"} ELSE {})
           /\ todo' = Tail(todo)
           /\ UNCHANGED <<alphabet, input, vals, status>>
  <2>1. status = "run" /\ todo # << >> /\ Head(todo) = Rest("parse_stmt_for", "next")
    BY <1>8 DEF At, Rest
  <2>2. PICK p : /\ TextOK /\ StatusOK /\ Fits(p) /\ p.size \in Nat /\ MaxNodes \in Int
                 /\ Ready(p.types, Head(todo))
                 /\ Runs(Tail(todo), After(p.types, Head(todo)), Over(Bottom, "tree"),
                         MaxNodes - p.size - Cost(Head(todo)))
    BY <2>1, IdiomMoves
  <2>3. After(p.types, Head(todo)) = p.types /\ Cost(Head(todo)) = 0
    <3>1. \A x : Before(x, "parse_stmt_for", "next") = Over(x, "tree")
      BY Befores
    <3>2. Is(p.types, "tree")
      BY <2>1, <2>2, <3>1, FunctionsIn, RestItem, Unders
    <3> QED BY <2>1, <3>2, TreeItem DEF Rest
  <2>4. Runs(todo', p.types, Over(Bottom, "tree"), MaxNodes - p.size)
    <3>1. MaxNodes - p.size - 0 = MaxNodes - p.size
      BY <2>2
    <3> QED BY <1>8, <2>2, <2>3, <3>1
  <2>5. Fits(p)'
    <3>1. MaxNodes' = MaxNodes
      BY <1>8 DEF MaxNodes
    <3> QED BY <1>8, <2>2, <2>4, <3>1 DEF Fits
  <2>6. ErrorsOK'
    BY <1>8, <2>2 DEF StatusOK, ErrorsOK
  <2>7. StatusOK'
    BY <1>8, <2>1, <2>6 DEF StatusOK
  <2> QED BY <1>8, <2>5, <2>7 DEF Kept, Took, StackOK
<1> QED BY <1>4, <1>7, <1>8

LEMMA StmtSwitchCaseKeeps == ASSUME ParseIInv, parse_stmt_switch_case PROVE Kept
<1> DEFINE labels == <<"parse_stmt_switch_case", "labels">>
           rest == <<Expect("COLON"), Push(Empty), Each("parse_stmt", {"RBRACE", "case", "default"}),
                     Dup(0), Dup(1), Make("SwitchCase", 3)>>
<1>1. Gives(<<Push(<<"false">>), Push(Empty), labels>>, 0)
  BY Runs3, PushItem, Kindred, LabelsItem, Unders DEF Gives
<1>2. Labels(<<Call("parse_expr"), PushBack, labels>>, 2)
  BY Runs3, CallItem, CallCosts, FunctionsIn, PushBackItem, LabelsItem, Unders DEF Labels
<1>3. Labels(rest, -2)
  <2> DEFINE it == Each("parse_stmt", {"RBRACE", "case", "default"})
  <2>1. \A x : /\ Ready(x, Expect("COLON")) /\ After(x, Expect("COLON")) = x
               /\ Ready(x, Push(Empty)) /\ After(x, Push(Empty)) = Over(x, "list")
    BY ExpectItem, MarksIn, PushItem, Kindred
  <2>2. \A x : LET y == Over(Over(Over(x, "flag"), "list"), "list")
                   z == Over(Over(Over(x, "flag"), "list"), "tree")
                   w == Over(Over(Over(x, "flag"), "tree"), "tree")
               IN  /\ Ready(y, it) /\ After(y, it) = y
                   /\ Ready(y, Dup(0)) /\ After(y, Dup(0)) = z
                   /\ Ready(z, Dup(1)) /\ After(z, Dup(1)) = w
                   /\ Ready(w, Make("SwitchCase", 3)) /\ After(w, Make("SwitchCase", 3)) = Over(x, "tree")
                   /\ Cost(it) = 0 /\ Cost(Dup(0)) = 0 /\ Cost(Dup(1)) = 0
                      /\ Cost(Make("SwitchCase", 3)) = 1
    BY EachItem, PlainIn, DupTopItem, DupBelowItem, MakeCaseItem, Unders
  <2>3. Cost(Expect("COLON")) = -4 /\ Cost(Push(Empty)) = 1
    BY ExpectItem, MarksIn, PushItem
  <2>4. PICK a, b, c, d, e : /\ a = Expect("COLON") /\ b = Push(Empty) /\ c = Dup(0) /\ d = Dup(1)
                             /\ e = Make("SwitchCase", 3)
    OBVIOUS
  <2> HIDE DEF it
  <2>5. \A x : Runs(<<a, b, it, c, d, e>>, Over(Over(x, "flag"), "list"), Over(x, "tree"), -2)
    <3> TAKE x
    <3>1. LET x0 == Over(Over(x, "flag"), "list")
              x1 == After(x0, a)
              x2 == After(x1, b)
              x3 == After(x2, it)
              x4 == After(x3, c)
              x5 == After(x4, d)
          IN  /\ Ready(x0, a) /\ Ready(x1, b) /\ Ready(x2, it) /\ Ready(x3, c) /\ Ready(x4, d)
              /\ Ready(x5, e) /\ Over(x, "tree") = After(x5, e)
      BY <2>1, <2>2, <2>4
    <3>2. Cost(a) + (Cost(b) + (Cost(it) + (Cost(c) + (Cost(d) + Cost(e))))) <= -2 /\ -2 \in Int
      BY <2>2, <2>3, <2>4
    <3> HIDE DEF Over
    <3> QED BY <3>1, <3>2, Runs6
  <2> QED BY <2>4, <2>5 DEF it, Labels
<1>4. \/ At("parse_stmt_switch_case", "begin") /\ Goto(<<Push(<<"false">>), Push(Empty), labels>>)
      \/ /\ At("parse_stmt_switch_case", "labels")
         /\ \/ token = "case" /\ Eat(<<Call("parse_expr"), PushBack, labels>>)
            \/ /\ token = "default"
               /\ todo' = todo
               /\ next_token
               /\ vals' = [vals EXCEPT ![Len(vals) - 1] = <<"true">>]
               /\ errors' = errors \union
                    (IF vals[Len(vals) - 1] = <<"true">> THEN {"duplicate default"} ELSE {})
               /\ UNCHANGED status
            \/ Goto(rest)
  BY DEF parse_stmt_switch_case, At
<1> HIDE DEF rest
<1>5. CASE At("parse_stmt_switch_case", "begin") /\ Goto(<<Push(<<"false">>), Push(Empty), labels>>)
  BY <1>1, <1>5, BeginMoves, CallCosts, FunctionsIn
<1>6. CASE /\ At("parse_stmt_switch_case", "labels")
           /\ token = "case" /\ Eat(<<Call("parse_expr"), PushBack, labels>>)
  BY <1>2, <1>6, LabelsMoves DEF Mark, Carried
<1>7. CASE At("parse_stmt_switch_case", "labels") /\ Goto(rest)
  BY <1>3, <1>7, LabelsMoves
<1>8. CASE /\ At("parse_stmt_switch_case", "labels")
           /\ token = "default"
           /\ todo' = todo
           /\ next_token
           /\ vals' = [vals EXCEPT ![Len(vals) - 1] = <<"true">>]
           /\ errors' = errors \union
                (IF vals[Len(vals) - 1] = <<"true">> THEN {"duplicate default"} ELSE {})
           /\ UNCHANGED status
  <2>1. status = "run" /\ todo # << >> /\ Head(todo) = Rest("parse_stmt_switch_case", "labels")
    BY <1>8 DEF At, Rest
  <2>2. PICK p : /\ TextOK /\ StatusOK /\ Fits(p) /\ Stacked(vals, p) /\ p.size \in Nat
                    /\ MaxNodes \in Int
                 /\ Ready(p.types, Head(todo))
    BY <2>1, IdiomMoves
  <2>3. PICK r : p.types = Over(Over(r, "flag"), "list")
    <3>1. \A x : Before(x, "parse_stmt_switch_case", "labels") = Over(Over(x, "flag"), "list")
      BY Befores
    <3> QED BY <2>1, <2>2, <3>1, FunctionsIn, RestItem
  <2> DEFINE c == <<"true">>
             q == Stack(p.types, p.seen, p.size)
  <2>4. \A v, u, m : v = vals[Len(vals) - 1] /\ Parsed(v, "flag", u, m) => Parsed(c, "flag", u, m)
    <3>1. Parsed(c, "flag", << >>, 1)
      BY Atoms
    <3> HIDE DEF c
    <3> QED BY <3>1 DEF Parsed
  <2>5. Stacked(vals', q)
    <3> HIDE DEF c
    <3>1. Stacked([vals EXCEPT ![Len(vals) - 1] = c],
          Stack(Over(Over(r, "flag"), "list"), p.seen, p.size))
      BY <2>2, <2>3, <2>4, SwapsBelow
    <3> QED BY <1>8, <2>3, <3>1 DEF c
  <2>6. q.types = p.types /\ q.seen = p.seen /\ q.size = p.size
    BY StackParts
  <2> HIDE DEF q
  <2>7. Runs(todo', q.types, Over(Bottom, "tree"), MaxNodes + 4 - q.size)
    <3>1. Runs(todo, p.types, Over(Bottom, "tree"), MaxNodes - p.size)
      BY <2>2 DEF Fits
    <3>2. MaxNodes - p.size <= MaxNodes + 4 - q.size /\ MaxNodes + 4 - q.size \in Int
      BY <2>2, <2>6
    <3>3. Runs(todo, p.types, Over(Bottom, "tree"), MaxNodes + 4 - q.size)
      BY <3>1, <3>2, RunsMore
    <3> QED BY <1>8, <2>6, <3>3
  <2>8. token \notin Carried /\ token # "EOF"
    BY <1>8 DEF Carried
  <2>9. \A t : Covers(q.seen, Append(input, t))
    BY <2>2, <2>6, <2>8, AtHand
  <2>10. ErrorsOK'
    BY <1>8, <2>2 DEF StatusOK, ErrorsOK
  <2> QED BY <1>8, <2>1, <2>2, <2>5, <2>7, <2>8, <2>9, <2>10, Takes
<1> QED BY <1>4, <1>5, <1>6, <1>7, <1>8

-----------------------------------------------------------------------------
(* What is to be shown of a step makes the text one within the bounds. *)
LEMMA TextKeeps ==
  ASSUME TextOK, Took
  PROVE  TextOK'
<1>1. CASE UNCHANGED <<alphabet, input>>
  BY <1>1 DEF TextOK, NextTokens, token
<1>2. CASE token # "EOF" /\ next_token
  <2>1. PICK t : /\ t \in NextTokens(Len(input)) /\ (t # "EOF" => Len(input) < alphabet.maxTokens)
                 /\ input' = Append(input, t) /\ alphabet' = alphabet
    BY <1>2 DEF next_token
  <2>2. alphabet \in Alphabets /\ alphabet.maxTokens \in Nat /\ IsSeq(input) /\ Len(input) \in Nat
    BY ParseAssumption, Lengths DEF TextOK
  <2>3. /\ IsSeq(input') /\ Len(input') = Len(input) + 1 /\ token' = t
        /\ \A k \in DOMAIN input' : input'[k] = IF k = Len(input) + 1 THEN t ELSE input[k]
        /\ DOMAIN input' = 1 .. Len(input) + 1 /\ DOMAIN input = 1 .. Len(input)
    <3>1. /\ IsSeq(input') /\ Len(input') = Len(input) + 1 /\ input'[Len(input) + 1] = t
          /\ \A k \in 1 .. Len(input) : input'[k] = input[k]
      BY <2>1, <2>2, Appends
    <3>2. DOMAIN input' = 1 .. Len(input) + 1 /\ DOMAIN input = 1 .. Len(input)
      BY <2>2, <3>1, Lengths
    <3> QED BY <2>2, <3>1, <3>2 DEF token
  <2>4. Len(input') \in 1 .. alphabet'.maxTokens + 1
        /\ (token' # "EOF" => Len(input') <= alphabet'.maxTokens)
    BY <1>2, <2>1, <2>2, <2>3 DEF TextOK
  <2>5. ASSUME NEW k \in DOMAIN input' PROVE input'[k] \in NextTokens(k - 1)'
    <3>1. NextTokens(k - 1)' = NextTokens(k - 1)
      BY <2>1 DEF NextTokens
    <3>2. CASE k = Len(input) + 1
      BY <2>1, <2>2, <2>3, <3>1, <3>2
    <3>3. CASE k # Len(input) + 1
      BY <2>3, <3>1, <3>3 DEF TextOK
    <3> QED BY <3>2, <3>3
  <2> QED BY <2>1, <2>2, <2>3, <2>4, <2>5 DEF TextOK
<1> QED BY <1>1, <1>2 DEF Took

LEMMA InitKeeps == ParseInit => ParseIInv
<1> SUFFICES ASSUME ParseInit PROVE ParseIInv
  OBVIOUS
<1>1. PICK t : t \in NextTokens(0) /\ input = <<t>>
  BY DEF ParseInit
<1>2. IsSeq(input) /\ Len(input) = 1 /\ input[1] = t /\ DOMAIN input = 1 .. 1
  BY <1>1, Single, Lengths
<1>3. TextOK
  <2>1. alphabet \in Alphabets /\ alphabet.maxTokens \in Nat \ {0}
    BY ParseAssumption DEF ParseInit
  <2>2. \A k \in DOMAIN input : input[k] \in NextTokens(k - 1)
    BY <1>1, <1>2
  <2> QED BY <1>2, <2>1, <2>2 DEF TextOK
<1>4. StackOK
  <2>1. Stacked(vals, Ground) /\ Ground.types = Bottom /\ Ground.seen = << >> /\ Ground.size = 0
    BY StackedNothing DEF ParseInit, Ground
  <2>2. Covers(<< >>, input)
    <3>1. PICK s : s = << >>
      OBVIOUS
    <3>2. IsSeq(s) /\ 1 .. Len(s) = {} /\ 1 .. Len(input) - 1 = {}
      <4>1. Len(s) = 0 /\ Len(input) - 1 = 0 /\ 1 .. 0 = {}
        BY <1>2, <3>1, EmptyIsSeq
      <4> QED BY <3>1, <4>1, EmptyIsSeq
    <3>3. Covers(s, input)
      BY <3>2 DEF Covers
    <3> QED BY <3>1, <3>3
  <2>3. Runs(<<Call("parse_decl")>>, Bottom, Over(Bottom, "tree"), 0)
    BY Runs1, CallItem, CallCosts, FunctionsIn
  <2>4. MaxNodes - 0 = 0
    BY <1>2 DEF MaxNodes
  <2>5. todo = <<Call("parse_decl")>>
    BY DEF ParseInit
  <2>6. Runs(todo, Ground.types, Over(Bottom, "tree"), MaxNodes - Ground.size)
    BY <2>1, <2>3, <2>4, <2>5
  <2>7. Fits(Ground)
    BY <2>1, <2>2, <2>6 DEF Fits
  <2> QED BY <2>7 DEF StackOK
<1>5. StatusOK
  BY DEF ParseInit, StatusOK, ErrorsOK
<1> QED BY <1>3, <1>4, <1>5 DEF ParseIInv

LEMMA StepKeeps ==
  ASSUME ParseIInv, [ParseNext]_parseVars
  PROVE  ParseIInv' /\ (input' # input => token # "EOF")
<1>1. Kept
  <2>1. CASE UNCHANGED parseVars
    <3>1. PICK p : Fits(p)
      BY DEF ParseIInv, StackOK
    <3>2. UNCHANGED <<alphabet, input, todo, vals, errors, status>>
      BY <2>1 DEF parseVars
    <3>3. MaxNodes' = MaxNodes
      BY <3>2 DEF MaxNodes
    <3>4. Fits(p)'
      BY <3>1, <3>2, <3>3 DEF Fits
    <3>5. StatusOK'
      BY <3>2 DEF ParseIInv, StatusOK, ErrorsOK
    <3> QED BY <3>2, <3>4, <3>5 DEF Kept, Took, StackOK
  <2>2. CASE ParseNext
    BY <2>2, IdiomsKeep, TypeFuncKeeps, TypeBaseKeeps, TypeKeeps, ExprCompoundKeeps, ExprOperandKeeps,
       ExprBaseKeeps, ExprUnaryKeeps, ExprBinaryKeeps, ExprTernaryKeeps, ExprKeeps, ParenExprKeeps,
       NameKeeps, DeclEnumItemKeeps, DeclEnumKeeps, DeclAggregateItemKeeps, DeclAggregateKeeps,
       DeclVarKeeps, DeclConstKeeps, DeclTypedefKeeps, StmtIfKeeps, StmtWhileKeeps,
       StmtDoWhileKeeps, SimpleStmtKeeps, StmtForKeeps, StmtSwitchCaseKeeps, StmtSwitchKeeps,
       StmtKeeps, StmtBlockKeeps, DeclFuncParamKeeps, DeclFuncKeeps, DeclOptKeeps, DeclKeeps,
       DoneKeeps
       DEF ParseNext
  <2> QED BY <2>1, <2>2
<1>2. TextOK'
  BY <1>1, TextKeeps DEF Kept, ParseIInv
<1> QED BY <1>1, <1>2 DEF Kept, Took, ParseIInv

-----------------------------------------------------------------------------
(* What the walk over vals sees.                                           *)
LEMMA LeastNumber ==
  ASSUME NEW T \in SUBSET Nat, T # {}
  PROVE  \E m \in T : \A n \in T : m <= n
<1> DEFINE U == {0 .. n : n \in T}
<1>1. U \subseteq FiniteSubsetsOf(Nat)
  <2>1. \A n \in T : IsFiniteSet(0 .. n) /\ 0 .. n \subseteq Nat
    BY FS_Interval
  <2> QED BY <2>1 DEF FiniteSubsetsOf
<1>2. U # {}
  OBVIOUS
<1>3. PICK x \in U : \A y \in U : ~ (<<y, x>> \in StrictSubsetOrdering(Nat))
  <2> HIDE DEF U
  <2> QED BY <1>1, <1>2, FS_StrictSubsetOrderingWellFounded, WFMin
<1>4. PICK m \in T : x = 0 .. m
  OBVIOUS
<1>5. ASSUME NEW n \in T, n < m PROVE FALSE
  <2>1. 0 .. n \in U
    OBVIOUS
  <2>2. 0 .. n \subseteq 0 .. m /\ m \in 0 .. m /\ m \notin 0 .. n
    BY <1>5
  <2>3. 0 .. n \in SUBSET Nat /\ 0 .. m \in SUBSET Nat
    OBVIOUS
  <2>4. <<0 .. n, 0 .. m>> \in StrictSubsetOrdering(Nat)
    BY <2>2, <2>3, Zenon DEF StrictSubsetOrdering
  <2> QED BY <1>3, <1>4, <2>1, <2>4
<1> QED BY <1>4, <1>5

(* g is a walk of N visits over vs. *)
Walks(g, vs, N) ==
  g = [n \in 0 .. N |-> IF n = 0 THEN [left |-> vs, seen |-> << >>, vectors |-> 0] ELSE Visit(g[n - 1])]

(* There is one walk at most. *)
LEMMA OneWalk ==
  ASSUME NEW vs, NEW N \in Nat, NEW f, NEW g, Walks(f, vs, N), Walks(g, vs, N)
  PROVE  f[N] = g[N]
<1> SUFFICES ASSUME f[N] # g[N] PROVE FALSE
  OBVIOUS
<1> DEFINE T == {n \in 0 .. N : f[n] # g[n]}
<1>1. PICK m \in T : \A n \in T : m <= n
  <2>1. T \in SUBSET Nat /\ T # {}
    OBVIOUS
  <2> HIDE DEF T
  <2> QED BY <2>1, LeastNumber
<1>2. m \in 0 .. N /\ f[m] # g[m]
  OBVIOUS
<1>3. m # 0
  BY <1>2 DEF Walks
<1>4. m - 1 \in 0 .. N /\ ~(m <= m - 1)
  BY <1>2, <1>3
<1>5. f[m - 1] = g[m - 1]
  BY <1>1, <1>4
<1>6. f[m] = Visit(f[m - 1]) /\ g[m] = Visit(g[m - 1])
  BY <1>2, <1>3 DEF Walks
<1> QED BY <1>2, <1>5, <1>6

(* A walk over vals that comes to its end in time ends there. *)
LEMMA WalkEnds ==
  ASSUME MaxNodes \in Nat, NEW q, q.left = << >>, NEW m, m <= MaxNodes,
         Reaches(W(vals, << >>, 0), q, m)
  PROVE  walked = q
<1>1. PICK r : Path(r, W(vals, << >>, 0), q, m)
  BY DEF Reaches
<1>2. m \in Nat
  BY DEF Reaches
<1>3. PICK N \in Nat : N = MaxNodes
  OBVIOUS
<1> DEFINE f == [n \in 0 .. N |-> IF n <= m THEN r[n] ELSE q]
<1>4. f[0] = [left |-> vals, seen |-> << >>, vectors |-> 0]
  BY <1>1, <1>2, <1>3 DEF Path, W
<1>5. f[N] = q
  BY <1>1, <1>2, <1>3 DEF Path
<1>6. ASSUME NEW n \in 1 .. N PROVE f[n] = Visit(f[n - 1])
  <2>1. CASE n <= m
    <3>1. n - 1 \in 0 .. m - 1 /\ (n - 1) + 1 = n /\ f[n - 1] = r[n - 1] /\ f[n] = r[n]
      BY <1>2, <2>1
    <3> HIDE DEF f
    <3> QED BY <1>1, <3>1 DEF Path
  <2>2. CASE n > m
    <3>1. f[n] = q /\ f[n - 1] = q
      BY <1>1, <1>2, <2>2 DEF Path
    <3>2. Visit(q) = q
      BY EmptyIsSeq DEF Visit
    <3> HIDE DEF f
    <3> QED BY <3>1, <3>2
  <2> QED BY <1>2, <2>1, <2>2
<1>7. Walks(f, vals, N)
  <2> DEFINE g == [n \in 0 .. N |-> IF n = 0 THEN [left |-> vals, seen |-> << >>, vectors |-> 0]
                                    ELSE Visit(f[n - 1])]
  <2>1. ASSUME NEW n \in 0 .. N PROVE f[n] = g[n]
    <3>1. g[n] = IF n = 0 THEN [left |-> vals, seen |-> << >>, vectors |-> 0] ELSE Visit(f[n - 1])
      OBVIOUS
    <3>2. n = 0 \/ n \in 1 .. N
      OBVIOUS
    <3> HIDE DEF f, g
    <3> QED BY <1>4, <1>6, <3>1, <3>2
  <2>2. f = g
    BY <2>1
  <2> QED BY <2>2 DEF Walks
<1> HIDE DEF f
<1>8. Walks(walk, vals, N)
  <2>1. walk = CHOOSE g : Walks(g, vals, N)
    BY <1>3 DEF walk, Walks
  <2> QED BY <1>7, <2>1
<1>9. walk[N] = f[N]
  BY <1>7, <1>8, OneWalk
<1> QED BY <1>3, <1>5, <1>9 DEF walked

(* When parse_decl has returned, all of its tree is walked. *)
LEMMA Ends ==
  ASSUME ParseIInv, status = "done"
  PROVE  Len(vals) = 1 /\ \E u : Covers(u, input) /\ walked = W(<< >>, u, 0)
<1>1. PICK p : Fits(p)
  BY DEF ParseIInv, StackOK
<1>2. todo = << >> /\ TextOK
  BY DEF ParseIInv, StatusOK
<1>3. p.types = Over(Bottom, "tree") /\ MaxNodes - p.size \in Nat /\ Stacked(vals, p)
      /\ Covers(p.seen, input)
  BY <1>1, <1>2, RunsNothing DEF Fits
<1>4. PICK w, v, q, u, m : Top(vals, p, "tree", w, v, q, u, m)
  BY <1>3, StackedPop
<1>5. Stacked(w, q) /\ q.types = Bottom
  BY <1>3, <1>4, Overs DEF Top
<1>6. w = << >> /\ q = Ground
  BY <1>5, StackedBottom
<1>7. /\ vals = <<v>> /\ Clears(<<v>>, u, 0, m) /\ p.seen = u /\ p.size = m /\ IsSeq(u) /\ m \in Nat
      /\ IsSeq(<<v>>) /\ Len(<<v>>) = 1
  <2>1. vals = Append(<< >>, v) /\ Parsed(v, "tree", u, m) /\ p.seen = << >> \o u /\ p.size = 0 + m
    BY <1>4, <1>6 DEF Top, Ground
  <2>2. Append(<< >>, v) = << >> \o <<v>> /\ << >> \o <<v>> = <<v>> /\ IsSeq(<<v>>) /\ Len(<<v>>) = 1
    BY EmptyIsSeq, Single, Appends, Concats
  <2>3. IsSeq(u) /\ m \in Nat /\ << >> \o u = u
    BY <2>1, ParsedFacts, Concats, EmptyIsSeq
  <2>4. Clears(<<v>>, u, 0, m)
    BY <2>1 DEF Parsed, VectorsIn
  <2> QED BY <2>1, <2>2, <2>3, <2>4
<1>8. Reaches(W(vals, << >>, 0), W(<< >>, u, 0), m)
  <2>1. Reaches(W(<< >> \o <<v>>, << >>, 0), W(<< >>, u \o << >>, 0 + 0), m)
    <3>1. IsSeq(<< >>) /\ 0 \in Int
      BY EmptyIsSeq
    <3> QED BY <1>7, <3>1 DEF Clears
  <2>2. << >> \o <<v>> = vals /\ u \o << >> = u /\ 0 + 0 = 0
    BY <1>7, EmptyIsSeq, Concats
  <2> QED BY <2>1, <2>2
<1>9. MaxNodes \in Int
  BY <1>2, Lengths DEF TextOK, MaxNodes
<1>10. MaxNodes \in Nat /\ m <= MaxNodes
  BY <1>3, <1>7, <1>9
<1>11. W(<< >>, u, 0).left = << >>
  BY DEF W
<1>12. walked = W(<< >>, u, 0)
  BY <1>8, <1>10, <1>11, WalkEnds
<1> QED BY <1>3, <1>7, <1>12

-----------------------------------------------------------------------------
(* What is left to do can be done with the values at hand, whose tokens    *)
(* are those of the text in order, and no item of it can take the end of   *)
(* the text.                                                               *)
THEOREM ParseInvariant == ParseSpec => []ParseIInv
<1>1. ParseIInv /\ [ParseNext]_parseVars => ParseIInv'
  BY StepKeeps
<1> QED BY <1>1, InitKeeps, PTL DEF ParseSpec

(* Whatever the text, it is within the bounds; and when parse_decl returns *)
(* its declaration is the one value left: no function of the parser uses a *)
(* value that was not computed or leaves one behind.                       *)
THEOREM ParseTypeCorrect == ParseSpec => []ParseTypeOK
<1>1. ParseIInv => ParseTypeOK
  <2> SUFFICES ASSUME ParseIInv PROVE ParseTypeOK
    OBVIOUS
  <2>1. status = "done" => Len(vals) = 1
    BY Ends
  <2> QED BY <2>1 DEF ParseIInv, TextOK, StatusOK, ErrorsOK, ParseTypeOK
<1> QED BY <1>1, ParseInvariant, PTL

(* Whatever the text, the tree that parse_decl returns has the tokens of   *)
(* the text in their order, none of them twice, and every name and every   *)
(* literal among them.                                                     *)
THEOREM ParseLeavesInOrder == ParseSpec => []LeavesInOrder
<1>1. ParseIInv => LeavesInOrder
  <2> SUFFICES ASSUME ParseIInv, status = "done"
               PROVE  /\ walked.left = << >>
                      /\ \A i, j \in DOMAIN walked.seen : i < j => walked.seen[i] < walked.seen[j]
                      /\ \A k \in 1 .. Len(input) - 1 :
                           input[k] \in Carried => \E i \in DOMAIN walked.seen : walked.seen[i] = k
    BY DEF LeavesInOrder
  <2>1. PICK u : Covers(u, input) /\ walked = W(<< >>, u, 0)
    BY Ends
  <2>2. walked.left = << >> /\ walked.seen = u
    BY <2>1 DEF W
  <2>3. DOMAIN u = 1 .. Len(u)
    BY <2>1, Lengths DEF Covers
  <2> QED BY <2>1, <2>2, <2>3 DEF Covers
<1> QED BY <1>1, ParseInvariant, PTL

(* Whatever the text, no vector is left in the tree that parse_decl        *)
(* returns: each was copied into ast_arena before the function that it is  *)
(* a local of returned.                                                    *)
THEOREM ParseTreeOwnsArrays == ParseSpec => []TreeOwnsArrays
<1>1. ParseIInv => TreeOwnsArrays
  <2> SUFFICES ASSUME ParseIInv, status = "done" PROVE walked.left = << >> /\ walked.vectors = 0
    BY DEF TreeOwnsArrays
  <2>1. PICK u : walked = W(<< >>, u, 0)
    BY Ends
  <2> QED BY <2>1 DEF W
<1> QED BY <1>1, ParseInvariant, PTL

(* Whatever the text, the parser asks the scanner for no token after       *)
(* END_OF_FILE.                                                            *)
THEOREM ParseNeverPastEnd == ParseSpec => NeverPastEnd
<1> DEFINE A == input' # input => token # "EOF"
<1>1. ParseIInv /\ [ParseNext]_parseVars => [A]_parseVars
  BY StepKeeps
<1> QED BY <1>1, ParseInvariant, PTL DEF ParseSpec, NeverPastEnd
=============================================================================
