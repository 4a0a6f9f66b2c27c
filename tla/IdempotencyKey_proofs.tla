------------------------ MODULE IdempotencyKey_proofs ------------------------
(***************************************************************************)
(* What holds of every key that idempotency.py makes: the lengths of texts *)
(* and of what normalisation leaves of them, the symbols of a key, and     *)
(* that parts which make the same key are normalised to the same text.     *)
(*                                                                         *)
(* Induction is done with sets: a set of numbers that has 0, and with      *)
(* every number the next one, has them all.                                *)
(***************************************************************************)
EXTENDS IdempotencyKey, SequenceTheorems, WellFoundedInduction, TLAPS

-----------------------------------------------------------------------------
(* Numbers *)

(* A set of natural numbers that is not empty has a least element.         *)
LEMMA LeastNumber ==
    ASSUME NEW T, T \subseteq Nat, T # {}
    PROVE  Min(T) \in T /\ \A y \in T : Min(T) <= y
<1>1. IsWellFoundedOn(OpToRel(<, Nat), Nat)
  BY NatLessThanWellFounded
<1>2. PICK x \in T : \A y \in T : ~(<<y, x>> \in OpToRel(<, Nat))
  BY <1>1, WFMin
<1>3. \A y \in T : x <= y
  <2>1. TAKE y \in T
  <2>2. ~(y < x)
    BY <1>2 DEF OpToRel
  <2> QED
    BY <2>2
<1> QED
  BY <1>3 DEF Min

(* A set of natural numbers that is bounded has a greatest one.            *)
LEMMA GreatestNumber ==
    ASSUME NEW n \in Nat, NEW T, T \subseteq 0 .. n, T # {}
    PROVE  Max(T) \in T /\ \A y \in T : y <= Max(T)
<1> DEFINE M == {m \in 0 .. n : n - m \in T}
           x == n - Min(M)
<1>1. M \subseteq Nat /\ M # {}
  <2>1. PICK t \in T : TRUE
    OBVIOUS
  <2>2. n - t \in 0 .. n /\ n - (n - t) = t
    OBVIOUS
  <2>3. n - t \in M
    BY <2>2
  <2> QED
    BY <2>3
<1>2. Min(M) \in M /\ \A y \in M : Min(M) <= y
  BY <1>1, LeastNumber
<1>3. x \in T
  BY <1>2
<1>4. \A y \in T : x >= y
  <2>1. TAKE y \in T
  <2>2. y \in 0 .. n /\ n - y \in 0 .. n /\ n - (n - y) = y
    OBVIOUS
  <2>3. Min(M) <= n - y
    BY <1>2, <2>2
  <2>4. Min(M) \in 0 .. n
    BY <1>2
  <2> QED
    BY <2>2, <2>3, <2>4
<1>5. Max(T) \in T /\ \A y \in T : Max(T) >= y
  BY <1>3, <1>4 DEF Max
<1> QED
  <2>1. \A y \in T : y \in Int
    OBVIOUS
  <2> QED
    BY <1>5, <2>1

(* Induction up to n. *)
LEMMA UpTo ==
    ASSUME NEW n \in Nat, NEW T, 0 \in T, \A i \in 1 .. n : i - 1 \in T => i \in T
    PROVE  0 .. n \subseteq T
<1> DEFINE Out == (0 .. n) \ T
<1>1. SUFFICES ASSUME Out # {} PROVE FALSE
  OBVIOUS
<1>2. Min(Out) \in Out /\ \A y \in Out : Min(Out) <= y
  BY <1>1, LeastNumber
<1> DEFINE m == Min(Out)
<1>3. m \in 1 .. n /\ m \notin T
  BY <1>2
<1>4. m - 1 \in 0 .. n /\ ~(m <= m - 1)
  BY <1>3
<1>5. m - 1 \in T
  BY <1>2, <1>4
<1> QED
  BY <1>3, <1>5

(* A function that is defined by recursion on the numbers up to n exists.  *)
Recursion(f, n, base, step) ==
    /\ f[0] = base
    /\ \A i \in 1 .. n : f[i] = step[i][f[i - 1]]

LEMMA RecursionExists ==
    ASSUME NEW S, NEW n \in Nat, NEW base \in S, NEW step \in [1 .. n -> [S -> S]]
    PROVE  \E f \in [0 .. n -> S] : Recursion(f, n, base, step)
<1> DEFINE T == {m \in 0 .. n : \E f \in [0 .. m -> S] : Recursion(f, m, base, step)}
<1>1. 0 \in T
  <2> DEFINE f == [i \in 0 .. 0 |-> base]
  <2>1. f \in [0 .. 0 -> S] /\ Recursion(f, 0, base, step)
    BY DEF Recursion
  <2> HIDE DEF f
  <2> QED
    BY <2>1
<1>2. \A m \in 1 .. n : m - 1 \in T => m \in T
  <2>1. TAKE m \in 1 .. n
  <2>2. HAVE m - 1 \in T
  <2>3. PICK f \in [0 .. m - 1 -> S] : Recursion(f, m - 1, base, step)
    BY <2>2
  <2> DEFINE g == [i \in 0 .. m |-> IF i = m THEN step[m][f[m - 1]] ELSE f[i]]
  <2>4. step[m][f[m - 1]] \in S
    <3>1. m - 1 \in 0 .. m - 1
      OBVIOUS
    <3> QED
      BY <3>1
  <2>5. g \in [0 .. m -> S]
    BY <2>4
  <2>6. g[0] = base
    BY <2>3 DEF Recursion
  <2>7. ASSUME NEW i \in 1 .. m PROVE g[i] = step[i][g[i - 1]]
    <3>1. i \in 0 .. m /\ i - 1 \in 0 .. m - 1 /\ i - 1 \in 0 .. m /\ i - 1 # m
      OBVIOUS
    <3>2. g[i - 1] = f[i - 1]
      BY <3>1
    <3>3. CASE i = m
      BY <3>1, <3>2, <3>3
    <3>4. CASE i # m
      <4>1. i \in 1 .. m - 1
        BY <3>4
      <4>2. g[i] = f[i]
        BY <3>1, <3>4
      <4>3. f[i] = step[i][f[i - 1]]
        BY <2>3, <4>1 DEF Recursion
      <4> QED
        BY <3>2, <4>2, <4>3
    <3> QED
      BY <3>3, <3>4
  <2>8. Recursion(g, m, base, step)
    <3> HIDE DEF g
    <3> QED
      BY <2>6, <2>7 DEF Recursion
  <2>9. m \in 0 .. n
    OBVIOUS
  <2> HIDE DEF g
  <2> QED
    BY <2>5, <2>8, <2>9
<1>3. 0 .. n \subseteq T
  <2> HIDE DEF T
  <2> QED
    BY <1>1, <1>2, UpTo
<1> QED
  BY <1>3

-----------------------------------------------------------------------------
(* Lengths *)

(* The recursion of Lengths, on every text.                                *)
LEMMA LengthsOfPrefixes ==
    ASSUME NEW s \in Text
    PROVE  /\ Lengths(s) \in [0 .. Len(s) -> Nat]
           /\ Lengths(s)[0] = 0
           /\ \A i \in 1 .. Len(s) : Lengths(s)[i] = Lengths(s)[i - 1] + Width[s[i]]
<1> DEFINE step == [i \in 1 .. Len(s) |-> [n \in Nat |-> n + Width[s[i]]]]
           Body(f) == [i \in 0 .. Len(s) |-> IF i = 0 THEN 0 ELSE f[i - 1] + Width[s[i]]]
<1>1. Len(s) \in Nat /\ \A i \in 1 .. Len(s) : s[i] \in Symbols
  BY DEF Text
<1>2. \A i \in 1 .. Len(s) : Width[s[i]] \in Nat
  BY <1>1, SymbolsAssumption
<1>3. step \in [1 .. Len(s) -> [Nat -> Nat]]
  BY <1>2
<1>4. PICK f \in [0 .. Len(s) -> Nat] : Recursion(f, Len(s), 0, step)
  <2>1. 0 \in Nat
    OBVIOUS
  <2> HIDE DEF step, Body
  <2> QED
    BY <1>1, <1>3, <2>1, RecursionExists, Zenon
<1>5. \A i \in 1 .. Len(s) : f[i] = f[i - 1] + Width[s[i]]
  <2>1. TAKE i \in 1 .. Len(s)
  <2>2. i - 1 \in 0 .. Len(s)
    BY <1>1
  <2>3. step[i][f[i - 1]] = f[i - 1] + Width[s[i]]
    BY <2>2
  <2> QED
    BY <1>4, <2>3 DEF Recursion
<1>6. f = Body(f)
  BY <1>1, <1>4, <1>5 DEF Recursion
<1>7. Lengths(s) = CHOOSE g : g = Body(g)
  BY DEF Lengths
<1>8. Lengths(s) = Body(Lengths(s))
  <2> HIDE DEF Body
  <2> QED
    BY <1>6, <1>7
<1>9. \A i \in 0 .. Len(s) :
          Lengths(s)[i] = IF i = 0 THEN 0 ELSE Lengths(s)[i - 1] + Width[s[i]]
  BY <1>8
<1>10. DOMAIN Lengths(s) = 0 .. Len(s)
  BY <1>8
<1>11. \A i \in 0 .. Len(s) : Lengths(s)[i] \in Nat
  <2> DEFINE T == {i \in 0 .. Len(s) : Lengths(s)[i] \in Nat}
  <2>1. 0 \in T
    BY <1>1, <1>9
  <2>2. ASSUME NEW i \in 1 .. Len(s), i - 1 \in T PROVE i \in T
    <3>1. i \in 0 .. Len(s) /\ i # 0
      BY <1>1
    <3>2. Lengths(s)[i] = Lengths(s)[i - 1] + Width[s[i]]
      BY <1>9, <3>1
    <3>3. Lengths(s)[i - 1] \in Nat /\ Width[s[i]] \in Nat
      BY <1>2, <2>2
    <3>4. Lengths(s)[i - 1] + Width[s[i]] \in Nat
      BY <3>3
    <3> QED
      BY <3>1, <3>2, <3>4
  <2>3. 0 .. Len(s) \subseteq T
    <3> HIDE DEF T
    <3> QED
      BY <1>1, <2>1, <2>2, UpTo
  <2> QED
    BY <2>3
<1>12. Lengths(s) = [i \in 0 .. Len(s) |-> Lengths(s)[i]]
  BY <1>8
<1>13. Lengths(s) \in [0 .. Len(s) -> Nat]
  BY <1>11, <1>12
<1>14. Lengths(s)[0] = 0
  BY <1>1, <1>9
<1>15. ASSUME NEW i \in 1 .. Len(s)
       PROVE  Lengths(s)[i] = Lengths(s)[i - 1] + Width[s[i]]
  <2>1. i \in 0 .. Len(s) /\ i # 0
    BY <1>1
  <2> QED
    BY <1>9, <2>1
<1> QED
  BY <1>13, <1>14, <1>15

(* A text has a length, the empty one 0 and any other at least 1.          *)
LEMMA LengthOfText ==
    ASSUME NEW s \in Text
    PROVE  /\ Length(s) \in Nat
           /\ s = <<>> => Length(s) = 0
           /\ s # <<>> => Length(s) > 0
<1>1. Len(s) \in Nat /\ \A i \in 1 .. Len(s) : s[i] \in Symbols
  BY DEF Text
<1>2. Len(s) \in 0 .. Len(s)
  BY <1>1
<1>3. Length(s) \in Nat
  BY <1>2, LengthsOfPrefixes DEF Length
<1>4. s = <<>> => Length(s) = 0
  BY LengthsOfPrefixes DEF Length
<1>5. ASSUME s # <<>> PROVE Length(s) > 0
  <2>1. Len(s) \in 1 .. Len(s) /\ Len(s) - 1 \in 0 .. Len(s)
    BY <1>1, <1>5 DEF Text
  <2>2. Width[s[Len(s)]] \in Nat \ {0}
    BY <1>1, <2>1, SymbolsAssumption
  <2>3. Lengths(s)[Len(s) - 1] \in Nat
    BY <2>1, LengthsOfPrefixes
  <2>4. Lengths(s)[Len(s)] = Lengths(s)[Len(s) - 1] + Width[s[Len(s)]]
    BY <2>1, LengthsOfPrefixes
  <2> QED
    BY <2>2, <2>3, <2>4 DEF Length
<1> QED
  BY <1>3, <1>4, <1>5

LEMMA LengthOfSymbol ==
    ASSUME NEW x \in Symbols
    PROVE  <<x>> \in Text /\ Length(<<x>>) = Width[x]
<1>1. <<x>> \in Text /\ Len(<<x>>) = 1 /\ <<x>>[1] = x
  BY DEF Text
<1>2. Width[x] \in Nat
  BY SymbolsAssumption
<1>3. 1 \in 1 .. Len(<<x>>)
  BY <1>1
<1>4. Lengths(<<x>>)[1] = Lengths(<<x>>)[1 - 1] + Width[<<x>>[1]]
  BY <1>1, <1>3, LengthsOfPrefixes
<1>5. Lengths(<<x>>)[0] = 0
  BY <1>1, LengthsOfPrefixes
<1> QED
  BY <1>1, <1>2, <1>4, <1>5 DEF Length

(* The length of two texts in a row is the sum of their lengths.           *)
LEMMA LengthOfConcat ==
    ASSUME NEW s \in Text, NEW t \in Text
    PROVE  s \o t \in Text /\ Length(s \o t) = Length(s) + Length(t)
<1> DEFINE c == s \o t
           m == Len(s)
           n == Len(t)
<1>1. /\ m \in Nat /\ n \in Nat
      /\ c \in Text /\ Len(c) = m + n
      /\ \A i \in 1 .. m + n : c[i] = IF i <= m THEN s[i] ELSE t[i - m]
  BY ConcatProperties DEF Text
<1>2. \A i \in 1 .. m + n : Lengths(c)[i] = Lengths(c)[i - 1] + Width[c[i]]
  BY <1>1, LengthsOfPrefixes
<1>3. Lengths(c)[0] = 0
  BY <1>1, LengthsOfPrefixes
<1>4. /\ Lengths(s)[0] = 0 /\ Lengths(s)[m] \in Nat
      /\ \A i \in 1 .. m : Lengths(s)[i] = Lengths(s)[i - 1] + Width[s[i]]
  BY <1>1, LengthsOfPrefixes
<1>5. /\ Lengths(t)[0] = 0 /\ Lengths(t) \in [0 .. n -> Nat]
      /\ \A i \in 1 .. n : Lengths(t)[i] = Lengths(t)[i - 1] + Width[t[i]]
  BY <1>1, LengthsOfPrefixes
<1>6. \A i \in 1 .. n : Width[t[i]] \in Nat
  BY SymbolsAssumption DEF Text
<1>7. Lengths(c)[m] = Lengths(s)[m]
  <2> DEFINE T == {i \in 0 .. m : Lengths(c)[i] = Lengths(s)[i]}
  <2>1. 0 \in T
    BY <1>1, <1>3, <1>4
  <2>2. ASSUME NEW i \in 1 .. m, i - 1 \in T PROVE i \in T
    <3>1. i \in 1 .. m + n /\ c[i] = s[i] /\ i \in 0 .. m
      BY <1>1
    <3> QED
      BY <1>2, <1>4, <2>2, <3>1
  <2>3. 0 .. m \subseteq T
    <3> HIDE DEF T, c, m
    <3> QED
      BY <1>1, <2>1, <2>2, UpTo
  <2> QED
    BY <1>1, <2>3
<1>8. Lengths(c)[m + n] = Lengths(s)[m] + Lengths(t)[n]
  <2> DEFINE T == {i \in 0 .. n : Lengths(c)[m + i] = Lengths(s)[m] + Lengths(t)[i]}
  <2>1. 0 \in T
    BY <1>1, <1>4, <1>5, <1>7
  <2>2. ASSUME NEW i \in 1 .. n, i - 1 \in T PROVE i \in T
    <3>1. m + i \in 1 .. m + n /\ ~(m + i <= m) /\ (m + i) - m = i /\ i \in 0 .. n
      BY <1>1
    <3>2. c[m + i] = t[i]
      BY <1>1, <3>1
    <3>3. (m + i) - 1 = m + (i - 1) /\ i - 1 \in 0 .. n
      BY <1>1
    <3>4. Lengths(c)[m + i] = Lengths(c)[m + (i - 1)] + Width[t[i]]
      BY <1>2, <3>1, <3>2, <3>3
    <3>5. Lengths(t)[i - 1] \in Nat /\ Lengths(s)[m] \in Nat /\ Width[t[i]] \in Nat
      BY <1>4, <1>5, <1>6, <3>3
    <3>6. Lengths(c)[m + (i - 1)] = Lengths(s)[m] + Lengths(t)[i - 1]
      BY <2>2
    <3>7. Lengths(t)[i] = Lengths(t)[i - 1] + Width[t[i]]
      BY <1>5
    <3>8. Lengths(c)[m + i] = Lengths(s)[m] + Lengths(t)[i]
      <4> DEFINE before == Lengths(s)[m]
                 already == Lengths(t)[i - 1]
                 more == Width[t[i]]
      <4>1. before \in Nat /\ already \in Nat /\ more \in Nat
        BY <3>5
      <4>2. (before + already) + more = before + (already + more)
        <5> HIDE DEF before, already, more
        <5> QED
          BY <4>1
      <4>3. Lengths(c)[m + i] = (before + already) + more
        BY <3>4, <3>6, Zenon
      <4>4. Lengths(t)[i] = already + more
        BY <3>7, Zenon
      <4> HIDE DEF before, already, more
      <4>5. Lengths(s)[m] = before
        BY Zenon DEF before
      <4> QED
        BY <4>2, <4>3, <4>4, <4>5, Zenon
    <3> QED
      BY <3>1, <3>8
  <2>3. 0 .. n \subseteq T
    <3> HIDE DEF T, c, m, n
    <3> QED
      BY <1>1, <2>1, <2>2, UpTo
  <2> QED
    BY <1>1, <2>3
<1> QED
  BY <1>1, <1>8 DEF Length

LEMMA LengthOfAppend ==
    ASSUME NEW s \in Text, NEW x \in Symbols
    PROVE  Append(s, x) \in Text /\ Length(Append(s, x)) = Length(s) + Width[x]
<1>1. Append(s, x) = s \o <<x>>
  BY DEF Text
<1> QED
  BY <1>1, LengthOfSymbol, LengthOfConcat

(* A piece of a text is no longer than the text. *)
LEMMA LengthOfPiece ==
    ASSUME NEW s \in Text, NEW m \in 1 .. Len(s), NEW n \in m .. Len(s)
    PROVE  SubSeq(s, m, n) \in Text /\ Length(SubSeq(s, m, n)) <= Length(s)
<1> DEFINE before == SubSeq(s, 1, m - 1)
           piece  == SubSeq(s, m, n)
           after  == SubSeq(s, n + 1, Len(s))
<1>1. Len(s) \in Nat /\ \A i \in 1 .. Len(s) : s[i] \in Symbols
  BY DEF Text
<1>2. before \in Text
  BY <1>1, SubSeqProperties DEF Text
<1>3. piece \in Text
  BY <1>1, SubSeqProperties DEF Text
<1>4. after \in Text
  BY <1>1, SubSeqProperties DEF Text
<1>5. before \o piece = SubSeq(s, 1, n)
  <2>1. 1 \in 1 .. Len(s) + 1 /\ m - 1 \in 1 - 1 .. Len(s) /\ n \in m - 1 .. Len(s)
        /\ (m - 1) + 1 = m
    BY <1>1
  <2> QED
    BY <2>1, ConcatAdjacentSubSeq DEF Text
<1>6. SubSeq(s, 1, n) \o after = s
  <2>1. 1 \in 1 .. Len(s) + 1 /\ n \in 1 - 1 .. Len(s) /\ Len(s) \in n .. Len(s)
    BY <1>1
  <2> QED
    BY <2>1, ConcatAdjacentSubSeq, SubSeqFull DEF Text
<1> HIDE DEF before, piece, after
<1>7. before \o piece \in Text /\ Length(before \o piece) = Length(before) + Length(piece)
  BY <1>2, <1>3, LengthOfConcat
<1>8. Length(s) = (Length(before) + Length(piece)) + Length(after)
  <2> DEFINE front == before \o piece
  <2>1. front \in Text /\ front \o after = s
    BY <1>5, <1>6, <1>7
  <2>2. Length(front) = Length(before) + Length(piece)
    BY <1>7
  <2> HIDE DEF front
  <2>3. Length(front \o after) = Length(front) + Length(after)
    BY <1>4, <2>1, LengthOfConcat
  <2> QED
    BY <2>1, <2>2, <2>3
<1>9. Length(before) \in Nat /\ Length(piece) \in Nat /\ Length(after) \in Nat
  BY <1>2, <1>3, <1>4, LengthOfText
<1> QED
  BY <1>3, <1>8, <1>9 DEF piece

LEMMA LengthOfLower ==
    ASSUME NEW s \in Text
    PROVE  Lower(s) \in Text /\ Len(Lower(s)) = Len(s) /\ Length(Lower(s)) <= Length(s)
<1> DEFINE l == Lower(s)
           T == {i \in 0 .. Len(s) : Lengths(l)[i] <= Lengths(s)[i]}
<1>1. Len(s) \in Nat /\ DOMAIN s = 1 .. Len(s) /\ \A i \in 1 .. Len(s) : s[i] \in Symbols
  BY DEF Text
<1>2. /\ l \in Text /\ Len(l) = Len(s)
      /\ \A i \in 1 .. Len(s) : l[i] = LowerCase[s[i]]
  BY <1>1, SymbolsAssumption DEF Lower, Text
<1> HIDE DEF l
<1>3. \A i \in 1 .. Len(s) :
         /\ Width[s[i]] \in Nat /\ Width[l[i]] \in Nat /\ Width[l[i]] <= Width[s[i]]
  BY <1>1, <1>2, SymbolsAssumption
<1>4. /\ Lengths(s) \in [0 .. Len(s) -> Nat] /\ Lengths(s)[0] = 0
      /\ \A i \in 1 .. Len(s) : Lengths(s)[i] = Lengths(s)[i - 1] + Width[s[i]]
  BY LengthsOfPrefixes
<1>5. /\ Lengths(l) \in [0 .. Len(s) -> Nat] /\ Lengths(l)[0] = 0
      /\ \A i \in 1 .. Len(s) : Lengths(l)[i] = Lengths(l)[i - 1] + Width[l[i]]
  BY <1>2, LengthsOfPrefixes
<1>6. 0 \in T
  BY <1>1, <1>4, <1>5
<1>7. ASSUME NEW i \in 1 .. Len(s), i - 1 \in T PROVE i \in T
  <2>1. i \in 0 .. Len(s) /\ i - 1 \in 0 .. Len(s)
    BY <1>1
  <2>2. Lengths(l)[i - 1] \in Nat /\ Lengths(s)[i - 1] \in Nat
    BY <1>4, <1>5, <2>1
  <2>3. Lengths(l)[i - 1] <= Lengths(s)[i - 1]
    BY <1>7
  <2>4. /\ Lengths(s)[i] = Lengths(s)[i - 1] + Width[s[i]]
        /\ Lengths(l)[i] = Lengths(l)[i - 1] + Width[l[i]]
    BY <1>4, <1>5
  <2>5. Width[s[i]] \in Nat /\ Width[l[i]] \in Nat /\ Width[l[i]] <= Width[s[i]]
    BY <1>3
  <2>6. Lengths(l)[i] <= Lengths(s)[i]
    BY <2>2, <2>3, <2>4, <2>5
  <2> QED
    BY <2>1, <2>6
<1>8. 0 .. Len(s) \subseteq T
  <2> HIDE DEF T
  <2> QED
    BY <1>1, <1>6, <1>7, UpTo
<1>9. Lengths(l)[Len(s)] <= Lengths(s)[Len(s)]
  BY <1>1, <1>8
<1> QED
  BY <1>2, <1>9 DEF Length, l

-----------------------------------------------------------------------------
(* Normalisation *)

(* strip leaves a piece of a text, with the symbols the text has.          *)
LEMMA StripOfText ==
    ASSUME NEW S, S \subseteq Symbols, NEW s \in Seq(S), NEW C
    PROVE  Strip(s, C) \in Seq(S) /\ Length(Strip(s, C)) <= Length(s)
<1> DEFINE inner == {i \in DOMAIN s : s[i] \notin C}
<1>1. s \in Text /\ Len(s) \in Nat /\ DOMAIN s = 1 .. Len(s)
  BY DEF Text
<1>2. CASE inner = {}
  <2>1. Strip(s, C) = <<>> /\ <<>> \in Text /\ <<>> \in Seq(S)
    BY <1>2 DEF Strip, Text
  <2> QED
    BY <1>1, <2>1, LengthOfText
<1>3. CASE inner # {}
  <2>1. inner \subseteq Nat /\ inner \subseteq 0 .. Len(s)
    BY <1>1
  <2>2. Min(inner) \in inner /\ \A y \in inner : Min(inner) <= y
    BY <1>3, <2>1, LeastNumber
  <2>3. Max(inner) \in inner /\ \A y \in inner : y <= Max(inner)
    BY <1>1, <1>3, <2>1, GreatestNumber
  <2>4. Min(inner) \in 1 .. Len(s) /\ Max(inner) \in 1 .. Len(s) /\ Min(inner) <= Max(inner)
    BY <1>1, <2>2, <2>3
  <2>5. Max(inner) \in Min(inner) .. Len(s)
    BY <2>4
  <2>6. Strip(s, C) = SubSeq(s, Min(inner), Max(inner))
    BY <1>3 DEF Strip
  <2> HIDE DEF inner
  <2>7. Length(Strip(s, C)) <= Length(s)
    BY <1>1, <2>4, <2>5, <2>6, LengthOfPiece
  <2>8. \A i \in Min(inner) .. Max(inner) : s[i] \in S
    BY <1>1, <2>4
  <2>9. SubSeq(s, Min(inner), Max(inner)) \in Seq(S)
    BY <2>4, <2>8, SubSeqProperties
  <2> QED
    BY <2>6, <2>7, <2>9
<1> QED
  BY <1>2, <1>3

(* The recursion of Dashes, on every text.                                 *)
LEMMA DashesOfPrefixes ==
    ASSUME NEW s \in Text
    PROVE  /\ Dashes(s) \in [0 .. Len(s) -> Seq(Safe)]
           /\ Dashes(s)[0] = <<>>
           /\ \A i \in 1 .. Len(s) :
                 Dashes(s)[i] =
                    IF s[i] \in Safe THEN Append(Dashes(s)[i - 1], s[i])
                    ELSE IF i = 1 \/ s[i - 1] \in Safe THEN Append(Dashes(s)[i - 1], "-")
                    ELSE Dashes(s)[i - 1]
<1> DEFINE Next(i, t) == IF s[i] \in Safe THEN Append(t, s[i])
                         ELSE IF i = 1 \/ s[i - 1] \in Safe THEN Append(t, "-")
                         ELSE t
           step == [i \in 1 .. Len(s) |-> [t \in Seq(Safe) |-> Next(i, t)]]
           Body(f) == [i \in 0 .. Len(s) |-> IF i = 0 THEN <<>> ELSE Next(i, f[i - 1])]
<1>1. Len(s) \in Nat /\ "-" \in Safe /\ <<>> \in Seq(Safe)
  BY SymbolsAssumption DEF Text
<1>2. \A i \in 1 .. Len(s), t \in Seq(Safe) : Next(i, t) \in Seq(Safe)
  BY <1>1
<1> HIDE DEF Next
<1>3. step \in [1 .. Len(s) -> [Seq(Safe) -> Seq(Safe)]]
  BY <1>2
<1>4. PICK f \in [0 .. Len(s) -> Seq(Safe)] : Recursion(f, Len(s), <<>>, step)
  <2> HIDE DEF step, Body
  <2> QED
    BY <1>1, <1>3, RecursionExists, Zenon
<1>5. \A i \in 1 .. Len(s) : f[i] = Next(i, f[i - 1])
  <2>1. TAKE i \in 1 .. Len(s)
  <2>2. i - 1 \in 0 .. Len(s)
    BY <1>1
  <2>3. step[i][f[i - 1]] = Next(i, f[i - 1])
    BY <2>2
  <2> QED
    BY <1>4, <2>3 DEF Recursion
<1>6. f = Body(f)
  BY <1>1, <1>4, <1>5 DEF Recursion
<1>7. Dashes(s) = CHOOSE g : g = Body(g)
  BY DEF Dashes, Next
<1>8. Dashes(s) = Body(Dashes(s))
  <2> HIDE DEF Body
  <2> QED
    BY <1>6, <1>7
<1>9. \A i \in 0 .. Len(s) :
          Dashes(s)[i] = IF i = 0 THEN <<>> ELSE Next(i, Dashes(s)[i - 1])
  BY <1>8
<1>10. Dashes(s) = [i \in 0 .. Len(s) |-> Dashes(s)[i]]
  BY <1>8
<1>11. \A i \in 1 .. Len(s) : Dashes(s)[i] = Next(i, Dashes(s)[i - 1])
  BY <1>1, <1>9
<1>12. \A i \in 0 .. Len(s) : Dashes(s)[i] \in Seq(Safe)
  <2> DEFINE T == {i \in 0 .. Len(s) : Dashes(s)[i] \in Seq(Safe)}
  <2>1. 0 \in T
    <3>1. 0 \in 0 .. Len(s)
      BY <1>1
    <3>2. Dashes(s)[0] = <<>>
      BY <1>9, <3>1
    <3> QED
      BY <1>1, <3>1, <3>2
  <2>2. \A i \in 1 .. Len(s) : i - 1 \in T => i \in T
    BY <1>1, <1>2, <1>11
  <2>3. 0 .. Len(s) \subseteq T
    <3> HIDE DEF T
    <3> QED
      BY <1>1, <2>1, <2>2, UpTo
  <2> QED
    BY <2>3
<1>13. Dashes(s) \in [0 .. Len(s) -> Seq(Safe)]
  BY <1>10, <1>12
<1>14. Dashes(s)[0] = <<>>
  BY <1>1, <1>9
<1> QED
  BY <1>11, <1>13, <1>14 DEF Next

(* Dashes for unsafe runs make a text of safe symbols, and no longer one.  *)
LEMMA DashedText ==
    ASSUME NEW s \in Text
    PROVE  Dashed(s) \in Seq(Safe) /\ Length(Dashed(s)) <= Length(s)
<1> DEFINE T == {i \in 0 .. Len(s) : Length(Dashes(s)[i]) <= Lengths(s)[i]}
<1>1. Len(s) \in Nat /\ \A i \in 1 .. Len(s) : s[i] \in Symbols
  BY DEF Text
<1>2. Seq(Safe) \subseteq Text /\ "-" \in Symbols /\ Width["-"] = 1 /\ Safe \subseteq Symbols
  BY SymbolsAssumption DEF Text
<1>3. 0 \in T
  BY <1>1, <1>2, LengthsOfPrefixes, DashesOfPrefixes, LengthOfText
<1>4. ASSUME NEW i \in 1 .. Len(s), i - 1 \in T PROVE i \in T
  <2> DEFINE d == Dashes(s)[i - 1]
             e == Dashes(s)[i]
  <2>1. i \in 0 .. Len(s) /\ i - 1 \in 0 .. Len(s)
    BY <1>1
  <2>2. d \in Text /\ Length(d) \in Nat
    BY <1>2, <2>1, DashesOfPrefixes, LengthOfText
  <2>3. Width[s[i]] \in Nat \ {0}
    BY <1>1, SymbolsAssumption
  <2>4. Length(d) <= Lengths(s)[i - 1] /\ Lengths(s)[i - 1] \in Nat
    BY <1>4, <2>1, LengthsOfPrefixes
  <2>5. Lengths(s)[i] = Lengths(s)[i - 1] + Width[s[i]]
    BY LengthsOfPrefixes
  <2>6. e = Append(d, s[i]) \/ e = Append(d, "-") \/ e = d
    BY DashesOfPrefixes
  <2> HIDE DEF d, e
  <2>7. Length(e) <= Length(d) + Width[s[i]]
    <3>1. CASE e = Append(d, s[i])
      BY <1>1, <2>2, <2>3, <3>1, LengthOfAppend
    <3>2. CASE e = Append(d, "-")
      BY <1>2, <2>2, <2>3, <3>2, LengthOfAppend
    <3>3. CASE e = d
      BY <2>2, <2>3, <3>3
    <3> QED
      BY <2>6, <3>1, <3>2, <3>3
  <2>8. Length(e) \in Nat
    <3>1. e \in Text
      BY <1>2, <2>1, DashesOfPrefixes DEF e
    <3> QED
      BY <3>1, LengthOfText
  <2>9. Length(e) <= Lengths(s)[i]
    BY <2>2, <2>3, <2>4, <2>5, <2>7, <2>8
  <2> QED
    BY <2>1, <2>9 DEF e
<1>5. 0 .. Len(s) \subseteq T
  <2> HIDE DEF T
  <2> QED
    BY <1>1, <1>3, <1>4, UpTo
<1>6. Len(s) \in 0 .. Len(s)
  BY <1>1
<1> QED
  BY <1>5, <1>6, DashesOfPrefixes DEF Dashed, Length

(* A normalised part has safe symbols only, and is no longer than the part. *)
LEMMA NormalizedPart ==
    ASSUME NEW part \in Text
    PROVE  /\ Normalized(part) \in Seq(Safe)
           /\ Normalized(part) \in Text
           /\ Length(Normalized(part)) <= Length(part)
<1> DEFINE stripped == Strip(part, Spaces)
           lowered  == Lower(stripped)
           dashed   == Dashed(lowered)
<1>1. stripped \in Text /\ Length(stripped) <= Length(part)
  BY StripOfText DEF Text
<1>2. lowered \in Text /\ Length(lowered) <= Length(stripped)
  <2> HIDE DEF stripped
  <2> QED
    BY <1>1, LengthOfLower
<1>3. dashed \in Seq(Safe) /\ Length(dashed) <= Length(lowered)
  <2> HIDE DEF lowered
  <2> QED
    BY <1>2, DashedText
<1>4. Safe \subseteq Symbols
  BY SymbolsAssumption
<1>5. Normalized(part) \in Seq(Safe) /\ Length(Normalized(part)) <= Length(dashed)
  <2>1. Normalized(part) = Strip(dashed, {"-"})
    BY DEF Normalized
  <2> HIDE DEF dashed
  <2> QED
    BY <1>3, <1>4, <2>1, StripOfText
<1>6. Normalized(part) \in Text /\ dashed \in Text
  BY <1>3, <1>4, <1>5 DEF Text
<1> HIDE DEF stripped, lowered, dashed
<1>7. /\ Length(part) \in Nat /\ Length(stripped) \in Nat /\ Length(lowered) \in Nat
      /\ Length(dashed) \in Nat /\ Length(Normalized(part)) \in Nat
  BY <1>1, <1>2, <1>6, LengthOfText
<1> QED
  BY <1>1, <1>2, <1>3, <1>5, <1>6, <1>7

(* A safe word in lower case is what it is normalised to.                  *)
LEMMA NormalizedWord ==
    ASSUME NEW word \in Safe, LowerCase[word] = word, word # "-"
    PROVE  Normalized(<<word>>) = <<word>>
<1>1. word \in Symbols /\ word \notin Spaces
  BY SymbolsAssumption
<1>2. ASSUME NEW C, word \notin C PROVE Strip(<<word>>, C) = <<word>>
  <2>1. {i \in DOMAIN <<word>> : <<word>>[i] \notin C} = {1}
    BY <1>2
  <2>2. Min({1}) = 1 /\ Max({1}) = 1
    BY DEF Min, Max
  <2>3. SubSeq(<<word>>, 1, 1) = <<word>>
    <3>1. <<word>> \in Seq(Safe) /\ Len(<<word>>) = 1
      OBVIOUS
    <3> QED
      BY <3>1, SubSeqFull
  <2> QED
    BY <2>1, <2>2, <2>3 DEF Strip
<1>3. Strip(<<word>>, Spaces) = <<word>> /\ Strip(<<word>>, {"-"}) = <<word>>
  BY <1>1, <1>2
<1>4. Lower(<<word>>) = <<word>>
  BY <1>1 DEF Lower
<1>5. Dashed(<<word>>) = <<word>>
  <2>1. <<word>> \in Text /\ Len(<<word>>) = 1 /\ <<word>>[1] = word
    BY <1>1 DEF Text
  <2>2. Dashes(<<word>>)[0] = <<>>
    BY <2>1, DashesOfPrefixes
  <2>3. 1 \in 1 .. Len(<<word>>)
    BY <2>1
  <2>4. Dashes(<<word>>)[1] = Append(Dashes(<<word>>)[1 - 1], word)
    BY <2>1, <2>3, DashesOfPrefixes
  <2>5. Append(<<>>, word) = <<word>>
    OBVIOUS
  <2> QED
    BY <2>1, <2>2, <2>4, <2>5 DEF Dashed
<1> QED
  BY <1>3, <1>4, <1>5 DEF Normalized

-----------------------------------------------------------------------------
(* Keys *)

(* Two parts in a key: safe symbols stay safe, and one dash is added.      *)
LEMMA LinkedParts ==
    ASSUME NEW a \in Seq(Safe), NEW b \in Seq(Safe)
    PROVE  /\ Linked(a, b) \in Seq(Safe)
           /\ a \in Text /\ b \in Text /\ Linked(a, b) \in Text
           /\ Length(Linked(a, b)) <= Length(a) + 1 + Length(b)
           /\ a # <<>> \/ b # <<>> => Linked(a, b) # <<>>
<1>1. Safe \subseteq Symbols /\ "-" \in Safe /\ Width["-"] = 1
  BY SymbolsAssumption
<1>2. a \in Text /\ b \in Text /\ <<"-">> \in Text /\ <<"-">> \in Seq(Safe)
  BY <1>1 DEF Text
<1>3. Length(a) \in Nat /\ Length(b) \in Nat
  BY <1>2, LengthOfText
<1>4. CASE a = <<>> \/ b = <<>>
  BY <1>2, <1>3, <1>4 DEF Linked
<1>5. CASE a # <<>> /\ b # <<>>
  <2> DEFINE head == a \o <<"-">>
  <2>1. Linked(a, b) = head \o b
    BY <1>5 DEF Linked
  <2>2. head \in Seq(Safe) /\ head \in Text
    BY <1>2, LengthOfConcat, ConcatProperties
  <2>3. Length(head) = Length(a) + 1
    BY <1>1, <1>2, LengthOfConcat, LengthOfSymbol
  <2>4. head \o b \in Seq(Safe) /\ head \o b # <<>>
    BY <1>5, <2>2, ConcatProperties, ConcatEqualIffEmpty
  <2> HIDE DEF head
  <2>5. head \o b \in Text /\ Length(head \o b) = Length(head) + Length(b)
    BY <1>2, <2>2, LengthOfConcat
  <2> QED
    BY <1>2, <1>3, <1>5, <2>1, <2>3, <2>4, <2>5
<1> QED
  BY <1>4, <1>5

(* What is linked to the same text, which is not empty, was the same.      *)
LEMMA LinkedApart ==
    ASSUME NEW a \in Seq(Safe), NEW b \in Seq(Safe), NEW c \in Seq(Safe),
           c # <<>>, Linked(a, c) = Linked(b, c)
    PROVE  a = b
<1>1. "-" \in Safe
  BY SymbolsAssumption
<1> DEFINE tail == <<"-">> \o c
<1>2. <<"-">> \in Seq(Safe) /\ tail \in Seq(Safe) /\ Len(tail) = 1 + Len(c) /\ Len(c) \in Nat
  BY <1>1, ConcatProperties
<1>3. ASSUME NEW x \in Seq(Safe), x # <<>>
      PROVE  /\ Linked(x, c) = x \o tail
             /\ Len(x \o tail) = Len(x) + Len(tail)
  <2>1. Linked(x, c) = (x \o <<"-">>) \o c
    BY <1>3 DEF Linked
  <2>2. (x \o <<"-">>) \o c = x \o tail
    BY <1>2, ConcatAssociative
  <2> HIDE DEF tail
  <2>3. Len(x \o tail) = Len(x) + Len(tail)
    BY <1>2, ConcatProperties
  <2> QED
    BY <2>1, <2>2, <2>3
<1>4. \A x \in Seq(Safe) : x = <<>> => Linked(x, c) = c
  BY DEF Linked
<1> HIDE DEF tail
<1>5. \A x \in Seq(Safe) : x # <<>> => Len(Linked(x, c)) # Len(c)
  <2>1. TAKE x \in Seq(Safe)
  <2>2. HAVE x # <<>>
  <2>3. Len(x) \in Nat
    OBVIOUS
  <2> QED
    BY <1>2, <1>3, <2>2, <2>3
<1>6. CASE a = <<>> \/ b = <<>>
  BY <1>4, <1>5, <1>6
<1>7. CASE a # <<>> /\ b # <<>>
  <2>1. a \o tail = b \o tail
    BY <1>3, <1>7
  <2> QED
    BY <1>2, <2>1, ConcatSimplifications
<1> QED
  BY <1>6, <1>7

(* The recursion of Joins, on every list of parts.                         *)
LEMMA JoinsOfParts ==
    ASSUME NEW parts \in Seq(Text)
    PROVE  /\ Joins(parts)[0] = <<>>
           /\ \A i \in 1 .. Len(parts) :
                 Joins(parts)[i] = Linked(Joins(parts)[i - 1], Normalized(parts[i]))
<1> DEFINE step == [i \in 1 .. Len(parts) |->
                       [t \in Seq(Safe) |-> Linked(t, Normalized(parts[i]))]]
           Body(f) == [i \in 0 .. Len(parts) |->
                          IF i = 0 THEN <<>> ELSE Linked(f[i - 1], Normalized(parts[i]))]
<1>1. Len(parts) \in Nat /\ <<>> \in Seq(Safe)
  OBVIOUS
<1>2. \A i \in 1 .. Len(parts) : Normalized(parts[i]) \in Seq(Safe)
  BY NormalizedPart
<1>3. step \in [1 .. Len(parts) -> [Seq(Safe) -> Seq(Safe)]]
  BY <1>2, LinkedParts
<1>4. PICK f \in [0 .. Len(parts) -> Seq(Safe)] : Recursion(f, Len(parts), <<>>, step)
  <2> HIDE DEF step, Body
  <2> QED
    BY <1>1, <1>3, RecursionExists, Zenon
<1>5. \A i \in 1 .. Len(parts) : f[i] = Linked(f[i - 1], Normalized(parts[i]))
  <2>1. TAKE i \in 1 .. Len(parts)
  <2>2. i - 1 \in 0 .. Len(parts)
    BY <1>1
  <2>3. step[i][f[i - 1]] = Linked(f[i - 1], Normalized(parts[i]))
    BY <2>2
  <2> QED
    BY <1>4, <2>3 DEF Recursion
<1>6. f = Body(f)
  BY <1>1, <1>4, <1>5 DEF Recursion
<1>7. Joins(parts) = CHOOSE g : g = Body(g)
  BY DEF Joins
<1>8. Joins(parts) = Body(Joins(parts))
  <2> HIDE DEF Body
  <2> QED
    BY <1>6, <1>7
<1>9. \A i \in 0 .. Len(parts) :
          Joins(parts)[i] = IF i = 0 THEN <<>>
                            ELSE Linked(Joins(parts)[i - 1], Normalized(parts[i]))
  BY <1>8
<1> QED
  BY <1>1, <1>9

(* Keys of three parts, and of four, as the examples make them.            *)
LEMMA JoinedThree ==
    ASSUME NEW a \in Text, NEW b \in Text, NEW c \in Text
    PROVE  Joined(<<a, b, c>>) = Linked(Linked(Normalized(a), Normalized(b)), Normalized(c))
<1>1. Linked(<<>>, Normalized(a)) = Normalized(a)
  BY DEF Linked
<1> DEFINE parts == <<a, b, c>>
<1>2. parts \in Seq(Text) /\ Len(parts) = 3
      /\ parts[1] = a /\ parts[2] = b /\ parts[3] = c
  OBVIOUS
<1> HIDE DEF parts
<1>3. \A i \in 1 .. 3 : Joins(parts)[i] = Linked(Joins(parts)[i - 1], Normalized(parts[i]))
  BY <1>2, JoinsOfParts
<1>4. /\ Joins(parts)[1] = Linked(Joins(parts)[0], Normalized(a))
      /\ Joins(parts)[2] = Linked(Joins(parts)[1], Normalized(b))
      /\ Joins(parts)[3] = Linked(Joins(parts)[2], Normalized(c))
  BY <1>2, <1>3
<1>5. Joins(parts)[0] = <<>>
  BY <1>2, JoinsOfParts
<1> QED
  BY <1>1, <1>2, <1>4, <1>5 DEF Joined, parts

LEMMA JoinedFour ==
    ASSUME NEW a \in Text, NEW b \in Text, NEW c \in Text, NEW d \in Text
    PROVE  Joined(<<a, b, c, d>>) =
              Linked(Linked(Linked(Normalized(a), Normalized(b)), Normalized(c)), Normalized(d))
<1>1. Linked(<<>>, Normalized(a)) = Normalized(a)
  BY DEF Linked
<1> DEFINE parts == <<a, b, c, d>>
<1>2. parts \in Seq(Text) /\ Len(parts) = 4
      /\ parts[1] = a /\ parts[2] = b /\ parts[3] = c /\ parts[4] = d
  OBVIOUS
<1> HIDE DEF parts
<1>3. \A i \in 1 .. 4 : Joins(parts)[i] = Linked(Joins(parts)[i - 1], Normalized(parts[i]))
  BY <1>2, JoinsOfParts
<1>4. /\ Joins(parts)[1] = Linked(Joins(parts)[0], Normalized(a))
      /\ Joins(parts)[2] = Linked(Joins(parts)[1], Normalized(b))
      /\ Joins(parts)[3] = Linked(Joins(parts)[2], Normalized(c))
      /\ Joins(parts)[4] = Linked(Joins(parts)[3], Normalized(d))
  BY <1>2, <1>3
<1>5. Joins(parts)[0] = <<>>
  BY <1>2, JoinsOfParts
<1> QED
  BY <1>1, <1>2, <1>4, <1>5 DEF Joined, parts

(* A key of safe symbols is valid if it is neither empty nor too long.     *)
LEMMA ValidIfShort ==
    ASSUME NEW key \in Seq(Safe), key # <<>>, Length(key) <= 255
    PROVE  ValidKey(key)
<1>1. Range(key) \subseteq Safe
  BY DEF Range
<1> QED
  BY <1>1 DEF ValidKey, MaxKeyLength

(* One more part makes a key longer by at most the part and a dash.        *)
LEMMA OnePartMore ==
    ASSUME NEW key \in Seq(Safe), NEW n \in Nat, Length(key) <= n,
           NEW part \in Text, NEW m \in Nat, Length(part) = m
    PROVE  /\ Linked(key, Normalized(part)) \in Seq(Safe)
           /\ Length(Linked(key, Normalized(part))) <= n + 1 + m
           /\ Normalized(part) # <<>> => Linked(key, Normalized(part)) # <<>>
<1> DEFINE named == Normalized(part)
           more  == Linked(key, named)
<1>1. named \in Seq(Safe) /\ named \in Text /\ Length(named) <= m
  BY NormalizedPart
<1> HIDE DEF named
<1>2. /\ more \in Seq(Safe) /\ more \in Text /\ key \in Text
      /\ Length(more) <= Length(key) + 1 + Length(named)
      /\ named # <<>> => more # <<>>
  BY <1>1, LinkedParts
<1> HIDE DEF more
<1>3. Length(key) \in Nat /\ Length(named) \in Nat /\ Length(more) \in Nat
  BY <1>1, <1>2, LengthOfText
<1>4. Length(more) <= n + 1 + m
  BY <1>1, <1>2, <1>3
<1> QED
  BY <1>2, <1>4 DEF more, named

(* idempotency_key accepts its own key of three parts whenever the last    *)
(* one says something and the parts and the dashes between them are        *)
(* together within the 255 characters: nothing of what it makes is unsafe  *)
(* (idempotency.py:30-32, :46).                                            *)
THEOREM ShortKeysAreValid ==
    ASSUME NEW a \in Text, NEW b \in Text, NEW c \in Text, Normalized(c) # <<>>,
           Length(a) + Length(b) + Length(c) + 2 <= 255
    PROVE  ValidKey(Joined(<<a, b, c>>))
<1> DEFINE la == Length(a)
           lb == Length(b)
           lc == Length(c)
           two   == Linked(Normalized(a), Normalized(b))
           three == Linked(two, Normalized(c))
<1>1. la \in Nat /\ lb \in Nat /\ lc \in Nat
  BY LengthOfText
<1>2. Normalized(a) \in Seq(Safe) /\ Length(Normalized(a)) <= la
  BY NormalizedPart
<1>3. two \in Seq(Safe) /\ Length(two) <= la + 1 + lb
  BY <1>1, <1>2, OnePartMore
<1> HIDE DEF two
<1>4. la + 1 + lb \in Nat /\ la + lb + lc + 2 <= 255
  BY <1>1
<1>5. three \in Seq(Safe) /\ Length(three) <= (la + 1 + lb) + 1 + lc /\ three # <<>>
  BY <1>1, <1>3, <1>4, OnePartMore
<1>6. Joined(<<a, b, c>>) = three
  BY JoinedThree DEF two
<1> HIDE DEF three
<1>7. Length(three) \in Nat
  <2>1. three \in Text
    BY <1>5, SymbolsAssumption DEF Text
  <2> QED
    BY <2>1, LengthOfText
<1> HIDE DEF la, lb, lc
<1>8. Length(three) <= 255
  BY <1>1, <1>4, <1>5, <1>7
<1> QED
  BY <1>5, <1>6, <1>8, ValidIfShort

(* The same of a key of four parts.                                        *)
THEOREM ShortFourPartKeys ==
    ASSUME NEW a \in Text, NEW b \in Text, NEW c \in Text, NEW d \in Text,
           Normalized(d) # <<>>,
           Length(a) + Length(b) + Length(c) + Length(d) + 3 <= 255
    PROVE  ValidKey(Joined(<<a, b, c, d>>))
<1> DEFINE la == Length(a)
           lb == Length(b)
           lc == Length(c)
           ld == Length(d)
           two   == Linked(Normalized(a), Normalized(b))
           three == Linked(two, Normalized(c))
           four  == Linked(three, Normalized(d))
<1>1. la \in Nat /\ lb \in Nat /\ lc \in Nat /\ ld \in Nat
  BY LengthOfText
<1>2. Normalized(a) \in Seq(Safe) /\ Length(Normalized(a)) <= la
  BY NormalizedPart
<1>3. two \in Seq(Safe) /\ Length(two) <= la + 1 + lb
  BY <1>1, <1>2, OnePartMore
<1> HIDE DEF two
<1>4. /\ la + 1 + lb \in Nat /\ (la + 1 + lb) + 1 + lc \in Nat
      /\ la + lb + lc + ld + 3 <= 255
  <2>1. la + lb + lc + ld + 3 <= 255
    OBVIOUS
  <2> HIDE DEF la, lb, lc, ld
  <2> QED
    BY <1>1, <2>1
<1>5. three \in Seq(Safe) /\ Length(three) <= (la + 1 + lb) + 1 + lc
  BY <1>1, <1>3, <1>4, OnePartMore
<1> HIDE DEF three
<1>6. four \in Seq(Safe) /\ Length(four) <= ((la + 1 + lb) + 1 + lc) + 1 + ld /\ four # <<>>
  BY <1>1, <1>4, <1>5, OnePartMore
<1>7. Joined(<<a, b, c, d>>) = four
  BY JoinedFour DEF two, three
<1> HIDE DEF four
<1>8. Length(four) \in Nat
  <2>1. four \in Text
    BY <1>6, SymbolsAssumption DEF Text
  <2> QED
    BY <2>1, LengthOfText
<1> HIDE DEF la, lb, lc, ld
<1>9. Length(four) <= 255
  BY <1>1, <1>4, <1>6, <1>8
<1> QED
  BY <1>6, <1>7, <1>9, ValidIfShort

(* Two callers' parts that make the same key, the rest of the key being    *)
(* the same words, are normalised to the same text: one may be written     *)
(* differently from the other, but they never differ in a safe symbol      *)
(* other than a dash at an end (idempotency.py:24-26, :51-53).             *)
THEOREM SameKeySamePart ==
    ASSUME NEW a \in Text, NEW b \in Text, NEW x \in Text, NEW y \in Text,
           Normalized(x) # <<>>, Normalized(y) # <<>>,
           Joined(<<a, x, y>>) = Joined(<<b, x, y>>)
    PROVE  Normalized(a) = Normalized(b)
<1> DEFINE na == Normalized(a)
           nb == Normalized(b)
           nx == Normalized(x)
           ny == Normalized(y)
<1>1. /\ na \in Seq(Safe) /\ nb \in Seq(Safe) /\ nx \in Seq(Safe) /\ ny \in Seq(Safe)
      /\ nx # <<>> /\ ny # <<>>
  BY NormalizedPart
<1>2. Linked(Linked(na, nx), ny) = Linked(Linked(nb, nx), ny)
  BY JoinedThree
<1> HIDE DEF na, nb, nx, ny
<1>3. Linked(na, nx) \in Seq(Safe) /\ Linked(nb, nx) \in Seq(Safe)
  BY <1>1, LinkedParts
<1>4. Linked(na, nx) = Linked(nb, nx)
  BY <1>1, <1>2, <1>3, LinkedApart
<1>5. na = nb
  BY <1>1, <1>4, LinkedApart
<1> QED
  BY <1>5 DEF na, nb
===============================================================================
