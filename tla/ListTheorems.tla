---------------------------- MODULE ListTheorems ----------------------------
(***************************************************************************)
(* What the proofs of several components need to know of lists: what       *)
(* push_back and erase of a std::vector leave in it.                       *)
(***************************************************************************)
EXTENDS Integers, Sequences, SequencesExt, SequenceTheorems, FiniteSetTheorems, TLAPS

(* A list of anything.                                                     *)
IsList(f) == f \in Seq({f[i] : i \in DOMAIN f})

(* ListFacts: a list has a length, and its places are 1 to the length.     *)
LEMMA ListFacts ==
  ASSUME NEW f, IsList(f)
  PROVE  Len(f) \in Nat /\ DOMAIN f = 1..Len(f)
BY DEF IsList

(* SeqIsList: a sequence over some set is a list.                          *)
LEMMA SeqIsList ==
  ASSUME NEW S, NEW f \in Seq(S)
  PROVE  IsList(f)
<1> DEFINE T == {f[i] : i \in DOMAIN f}
<1>1. Len(f) \in Nat /\ DOMAIN f = 1..Len(f) /\ f \in [1..Len(f) -> S]
  OBVIOUS
<1>2. \A i \in 1..Len(f) : f[i] \in T
  BY <1>1
<1>3. f = [i \in 1..Len(f) |-> f[i]]
  BY <1>1
<1> HIDE DEF T
<1>4. f \in [1..Len(f) -> T]
  BY <1>2, <1>3
<1>5. f \in Seq(T)
  BY <1>1, <1>4
<1> QED BY <1>5 DEF IsList, T

(* FunctionIsList: so is a function on 1 to n, and n is its length.        *)
LEMMA FunctionIsList ==
  ASSUME NEW n \in Nat, NEW f, f = [i \in 1..n |-> f[i]]
  PROVE  IsList(f) /\ Len(f) = n
<1> DEFINE T == {f[i] : i \in 1..n}
<1>1. f \in [1..n -> T]
  OBVIOUS
<1> HIDE DEF T
<1>2. f \in Seq(T) /\ Len(f) = n
  BY <1>1
<1> QED BY <1>2, SeqIsList

(* ListAppend: a list of anything with one element more.                   *)
LEMMA ListAppend ==
  ASSUME NEW s, IsList(s), NEW e, NEW t, t = Append(s, e)
  PROVE  /\ IsList(t) /\ Len(s) \in Nat /\ Len(t) = Len(s) + 1
         /\ DOMAIN s = 1..Len(s) /\ DOMAIN t = 1..(Len(s) + 1)
         /\ \A i \in 1..Len(s) : t[i] = s[i]
         /\ t[Len(s) + 1] = e
<1> DEFINE S == {s[i] : i \in DOMAIN s}
           T == S \cup {e}
<1>1. s \in Seq(S)
  BY DEF IsList
<1> HIDE DEF S
<1>2. s \in Seq(T) /\ e \in T
  BY <1>1
<1> HIDE DEF T
<1>3. /\ t \in Seq(T) /\ Len(s) \in Nat /\ Len(t) = Len(s) + 1
      /\ DOMAIN s = 1..Len(s) /\ DOMAIN t = 1..(Len(s) + 1)
      /\ \A i \in 1..Len(s) : t[i] = s[i]
      /\ t[Len(s) + 1] = e
  BY <1>2
<1>4. IsList(t)
  BY <1>3, SeqIsList
<1> QED BY <1>3, <1>4

(* ListConcat: two lists of anything, one behind the other.                *)
LEMMA ListConcat ==
  ASSUME NEW s, NEW t, IsList(s), IsList(t)
  PROVE  IsList(s \o t)
<1> DEFINE S == {s[i] : i \in DOMAIN s}
           T == {t[i] : i \in DOMAIN t}
<1>1. s \in Seq(S) /\ t \in Seq(T)
  BY DEF IsList
<1> HIDE DEF S, T
<1> DEFINE U == S \cup T
<1>2. s \in Seq(U) /\ t \in Seq(U)
  BY <1>1
<1> HIDE DEF U
<1>3. s \o t \in Seq(U)
  BY <1>2
<1> QED BY <1>3, SeqIsList

(* SetInSomeOrder: the list of a finite set names each of its elements     *)
(* once.                                                                   *)
LEMMA SetInSomeOrder ==
  ASSUME NEW S, IsFiniteSet(S)
  PROVE  /\ SetToSeq(S) \in Seq(S) /\ IsList(SetToSeq(S))
         /\ \A i, j \in DOMAIN SetToSeq(S) : SetToSeq(S)[i] = SetToSeq(S)[j] => i = j
<1> DEFINE n == Cardinality(S)
           P(f) == f \in [1..n -> S] /\ IsInjective(f)
<1>1. n \in Nat
  BY FS_CardinalityType
<1>2. ExistsBijection(1..n, S)
  BY FS_CardinalityType
<1>3. \E f : P(f)
  BY <1>2, Zenon DEF ExistsBijection, Bijection, Injection
<1> HIDE DEF n
<1>4. SetToSeq(S) = CHOOSE f : P(f)
  BY DEF SetToSeq, n
<1>5. P(SetToSeq(S))
  <2> HIDE DEF P
  <2> QED BY <1>3, <1>4, Zenon
<1>6. SetToSeq(S) \in Seq(S)
  BY <1>1, <1>5
<1>7. IsList(SetToSeq(S))
  BY <1>6, SeqIsList
<1> QED BY <1>5, <1>6, <1>7 DEF IsInjective

(* AppendRange: what a list has after Append.                              *)
LEMMA AppendRange ==
  ASSUME NEW S, NEW s \in Seq(S), NEW e
  PROVE  /\ Len(Append(s, e)) = Len(s) + 1
         /\ DOMAIN Append(s, e) = 1..(Len(s) + 1)
         /\ \A i \in 1..Len(s) : Append(s, e)[i] = s[i]
         /\ Append(s, e)[Len(s) + 1] = e
         /\ Range(Append(s, e)) = Range(s) \cup {e}
<1>1. /\ Len(Append(s, e)) = Len(s) + 1
      /\ DOMAIN Append(s, e) = 1..(Len(s) + 1)
      /\ \A i \in 1..Len(s) : Append(s, e)[i] = s[i]
      /\ Append(s, e)[Len(s) + 1] = e
  OBVIOUS
<1>2. Len(s) \in Nat /\ DOMAIN s = 1..Len(s)
  OBVIOUS
<1>3. DOMAIN Append(s, e) = DOMAIN s \cup {Len(s) + 1}
  BY <1>1, <1>2
<1>4. Range(Append(s, e)) = Range(s) \cup {e}
  BY <1>1, <1>2, <1>3 DEF Range
<1> QED BY <1>1, <1>4

(* The list t has the elements of s and behind them e.                     *)
Extends(t, s, e) ==
  /\ t = [k \in 1..(Len(s) + 1) |-> t[k]]
  /\ \A k \in 1..Len(s) : t[k] = s[k]
  /\ t[Len(s) + 1] = e

(* IsAppend: what makes a list the other one with an element behind it.    *)
LEMMA IsAppend ==
  ASSUME NEW S, NEW s \in Seq(S), NEW e \in S, NEW t, Extends(t, s, e)
  PROVE  t = Append(s, e)
<1> DEFINE a == Append(s, e)
<1>0. /\ t = [k \in 1..(Len(s) + 1) |-> t[k]]
      /\ \A k \in 1..Len(s) : t[k] = s[k]
      /\ t[Len(s) + 1] = e
  BY Zenon DEF Extends
<1>1. /\ Len(s) \in Nat /\ a \in Seq(S) /\ DOMAIN a = 1..(Len(s) + 1)
      /\ a[Len(s) + 1] = e /\ \A k \in 1..Len(s) : a[k] = s[k]
  OBVIOUS
<1> HIDE DEF a
<1>2. a = [k \in 1..(Len(s) + 1) |-> a[k]]
  <2>1. a \in [1..Len(a) -> S] /\ Len(a) = Len(s) + 1
    BY <1>1
  <2> QED BY <2>1
<1>3. \A k \in 1..(Len(s) + 1) : a[k] = t[k]
  <2>1. \A k \in 1..(Len(s) + 1) : k \in 1..Len(s) \/ k = Len(s) + 1
    BY <1>1
  <2>2. a[Len(s) + 1] = t[Len(s) + 1] /\ \A k \in 1..Len(s) : a[k] = t[k]
    BY <1>0, <1>1, Zenon
  <2> QED BY <2>1, <2>2, Zenon
<1>4. a = t
  BY <1>0, <1>2, <1>3, Zenon
<1> QED BY <1>4 DEF a

(* Concat: the elements of two lists, one behind the other.                *)
LEMMA Concat ==
  ASSUME NEW S, NEW a \in Seq(S), NEW b \in Seq(S)
  PROVE  /\ Len(a) \in Nat /\ Len(b) \in Nat
         /\ a \o b \in Seq(S) /\ Len(a \o b) = Len(a) + Len(b)
         /\ DOMAIN (a \o b) = 1..(Len(a) + Len(b))
         /\ \A k \in 1..Len(a) : (a \o b)[k] = a[k]
         /\ \A k \in 1..Len(b) : (a \o b)[Len(a) + k] = b[k]
OBVIOUS

(* SplitPlace: a place of two lists is one of the first or one of the      *)
(* second.                                                                 *)
LEMMA SplitPlace ==
  ASSUME NEW m \in Nat, NEW n \in Nat, NEW k \in 1..(m + n)
  PROVE  k \in 1..m \/ \E l \in 1..n : k = m + l
<1> SUFFICES ASSUME k \notin 1..m PROVE k - m \in 1..n /\ k = m + (k - m)
  BY Zenon
<1> QED OBVIOUS

(* The list t has the elements of a and behind them those of b.            *)
Joins(t, a, b) ==
  /\ t = [k \in 1..(Len(a) + Len(b)) |-> t[k]]
  /\ \A k \in 1..Len(a) : t[k] = a[k]
  /\ \A k \in 1..Len(b) : t[Len(a) + k] = b[k]

(* IsConcat: what makes a list two lists, one behind the other.            *)
LEMMA IsConcat ==
  ASSUME NEW S, NEW a \in Seq(S), NEW b \in Seq(S), NEW t, Joins(t, a, b)
  PROVE  t = a \o b
<1> DEFINE c == a \o b
<1>0. /\ t = [k \in 1..(Len(a) + Len(b)) |-> t[k]]
      /\ \A k \in 1..Len(a) : t[k] = a[k]
      /\ \A k \in 1..Len(b) : t[Len(a) + k] = b[k]
  BY Zenon DEF Joins
<1>1. /\ Len(a) \in Nat /\ Len(b) \in Nat /\ c \in Seq(S) /\ Len(c) = Len(a) + Len(b)
      /\ \A k \in 1..Len(a) : c[k] = a[k]
      /\ \A k \in 1..Len(b) : c[Len(a) + k] = b[k]
  BY Concat
<1> HIDE DEF c
<1>2. c = [k \in 1..(Len(a) + Len(b)) |-> c[k]]
  <2>1. c \in [1..Len(c) -> S]
    BY <1>1
  <2> QED BY <1>1, <2>1
<1>3. ASSUME NEW k \in 1..(Len(a) + Len(b)) PROVE c[k] = t[k]
  <2>1. k \in 1..Len(a) \/ \E l \in 1..Len(b) : k = Len(a) + l
    BY <1>1, SplitPlace
  <2>2. CASE k \in 1..Len(a)
    BY <1>0, <1>1, <2>2, Zenon
  <2>3. ASSUME NEW l \in 1..Len(b), k = Len(a) + l PROVE c[k] = t[k]
    BY <1>0, <1>1, <2>3, Zenon
  <2> QED BY <2>1, <2>2, <2>3, Zenon
<1>4. c = t
  BY <1>0, <1>2, <1>3, Zenon
<1> QED BY <1>4 DEF c

(* Removed: RemoveAt moves the elements behind the place by one.           *)
LEMMA Removed ==
  ASSUME NEW S, NEW s \in Seq(S), NEW i \in 1..Len(s)
  PROVE  /\ RemoveAt(s, i) \in Seq(S)
         /\ Len(RemoveAt(s, i)) = Len(s) - 1
         /\ \A k \in 1..(Len(s) - 1) : /\ k < i => RemoveAt(s, i)[k] = s[k]
                                       /\ k >= i => RemoveAt(s, i)[k] = s[k + 1]
<1>1. SubSeq(s, 1, i - 1) \in Seq(S) /\ Len(SubSeq(s, 1, i - 1)) = i - 1
      /\ \A k \in 1..(i - 1) : SubSeq(s, 1, i - 1)[k] = s[k]
  OBVIOUS
<1>2. SubSeq(s, i + 1, Len(s)) \in Seq(S) /\ Len(SubSeq(s, i + 1, Len(s))) = Len(s) - i
      /\ \A k \in 1..(Len(s) - i) : SubSeq(s, i + 1, Len(s))[k] = s[i + k]
  OBVIOUS
<1>3. Len(s) \in Nat
  OBVIOUS
<1> HIDE DEF RemoveAt
<1> DEFINE a == SubSeq(s, 1, i - 1)
           b == SubSeq(s, i + 1, Len(s))
<1>4. /\ a \o b \in Seq(S)
      /\ Len(a \o b) = Len(a) + Len(b)
      /\ \A k \in 1..(Len(a) + Len(b)) : (a \o b)[k] = IF k <= Len(a) THEN a[k] ELSE b[k - Len(a)]
  BY <1>1, <1>2, ConcatProperties
<1> HIDE DEF a, b
<1>5. RemoveAt(s, i) = a \o b
  BY DEF RemoveAt, a, b
<1>6. Len(a) = i - 1 /\ Len(b) = Len(s) - i
  BY <1>1, <1>2 DEF a, b
<1>7. ASSUME NEW k \in 1..(Len(s) - 1)
      PROVE  /\ k < i => (a \o b)[k] = s[k]
             /\ k >= i => (a \o b)[k] = s[k + 1]
  <2>1. CASE k < i
    BY <2>1, <1>1, <1>3, <1>4, <1>6 DEF a
  <2>2. CASE k >= i
    <3>1. k - Len(a) \in 1..(Len(s) - i) /\ i + (k - Len(a)) = k + 1
      BY <2>2, <1>3, <1>6
    <3>2. (a \o b)[k] = b[k - Len(a)]
      BY <2>2, <1>3, <1>4, <1>6
    <3>3. b[k - Len(a)] = s[i + (k - Len(a))]
      BY <3>1, <1>2 DEF b
    <3> QED BY <2>2, <3>1, <3>2, <3>3
  <2> QED BY <2>1, <2>2, <1>3
<1>8. a \o b \in Seq(S) /\ Len(a \o b) = Len(s) - 1
  BY <1>3, <1>4, <1>6
<1> QED BY <1>5, <1>7, <1>8, Zenon

(* RemovedFrom: what is left has its elements from distinct places of the  *)
(* list.                                                                   *)
LEMMA RemovedFrom ==
  ASSUME NEW S, NEW s \in Seq(S), NEW i \in 1..Len(s), NEW t, t = RemoveAt(s, i)
  PROVE  \E old \in [DOMAIN t -> DOMAIN s] :
           /\ \A k \in DOMAIN t : t[k] = s[old[k]]
           /\ \A k, l \in DOMAIN t : old[k] = old[l] => k = l
<1> DEFINE n == Len(s)
           old == [k \in 1..(n - 1) |-> IF k < i THEN k ELSE k + 1]
<1>1. n \in Nat /\ i \in 1..n /\ DOMAIN s = 1..n
  OBVIOUS
<1>2. /\ t \in Seq(S) /\ Len(t) = n - 1
      /\ \A k \in 1..(n - 1) : (k < i => t[k] = s[k]) /\ (k >= i => t[k] = s[k + 1])
  BY Removed
<1>3. DOMAIN t = 1..(n - 1)
  BY <1>1, <1>2
<1> HIDE DEF n
<1>4. old \in [1..(n - 1) -> 1..n] /\ \A k, l \in 1..(n - 1) : old[k] = old[l] => k = l
  BY <1>1
<1>5. ASSUME NEW k \in 1..(n - 1) PROVE t[k] = s[old[k]]
  <2>1. CASE k < i
    <3>1. old[k] = k
      BY <2>1
    <3> QED BY <1>2, <2>1, <3>1
  <2>2. CASE k >= i
    <3>1. old[k] = k + 1
      BY <1>1, <2>2
    <3> QED BY <1>2, <2>2, <3>1
  <2> QED BY <1>1, <2>1, <2>2
<1> HIDE DEF old
<1> QED BY <1>1, <1>3, <1>4, <1>5

(* NatMin: a set of naturals has a least element.  A claim about all       *)
(* naturals is proved with it from the least number that refutes the claim.*)
LEMMA NatMin ==
  ASSUME NEW T, T \subseteq Nat, T # {}
  PROVE  \E x \in T : \A y \in T : x <= y
<1> DEFINE R == OpToRel(<, Nat)
<1>1. \E x \in T : \A y \in T : ~(<<y, x>> \in R)
  BY NatLessThanWellFounded, WFMin
<1>2. \A x, y \in Nat : <<y, x>> \in R <=> y < x
  BY DEF OpToRel
<1> HIDE DEF R
<1>3. PICK x \in T : \A y \in T : ~(<<y, x>> \in R)
  BY <1>1
<1>4. \A y \in T : ~(y < x)
  BY <1>2, <1>3
<1>5. \A y \in T : x <= y
  BY <1>4
<1> QED BY <1>5

(* DistinctCount: a set has as many elements as a list of them that names  *)
(* each once.                                                              *)
LEMMA DistinctCount ==
  ASSUME NEW n \in Nat, NEW S, NEW f \in [1..n -> S],
         \A i, j \in 1..n : f[i] = f[j] => i = j,
         \A x \in S : \E i \in 1..n : f[i] = x
  PROVE  IsFiniteSet(S) /\ Cardinality(S) = n
<1>1. f \in Bijection(1..n, S)
  BY DEF Bijection, Injection, Surjection, IsInjective
<1>2. ExistsBijection(1..n, S)
  BY <1>1, Zenon DEF ExistsBijection
<1>3. Cardinality(S) = n
  BY <1>2, FS_CountingElements
<1>4. IsFiniteSet(S)
  BY <1>2, FS_NatBijection
<1> QED BY <1>3, <1>4

(* RemovedFirst: RemoveFirst takes an element out of a list that has each  *)
(* of its elements once.                                                   *)
LEMMA RemovedFirst ==
  ASSUME NEW S, NEW s \in Seq(S), \A i, j \in DOMAIN s : s[i] = s[j] => i = j,
         NEW e, NEW t, t = RemoveFirst(s, e)
  PROVE  /\ t \in Seq(S)
         /\ \A i, j \in DOMAIN t : t[i] = t[j] => i = j
         /\ Range(t) = Range(s) \ {e}
<1>1. Len(s) \in Nat /\ DOMAIN s = 1..Len(s)
  OBVIOUS
<1>2. CASE \E i \in 1..Len(s) : s[i] = e
  <2> DEFINE I == {i \in 1..Len(s) : s[i] = e}
             m == Min(I)
  <2>1. I \subseteq Nat /\ I # {}
    BY <1>2
  <2>2. m \in I
    <3> HIDE DEF I
    <3>1. \E x \in I : \A y \in I : x <= y
      BY <2>1, NatMin
    <3> QED BY <3>1, Zenon DEF Min
  <2>3. SelectInSeq(s, LAMBDA v : v = e) = m
    BY <2>1 DEF SelectInSeq
  <2>4. t = RemoveAt(s, m)
    BY <1>2, <2>3 DEF RemoveFirst
  <2> HIDE DEF m
  <2>5. m \in 1..Len(s) /\ s[m] = e
    BY <2>2
  <2>6. /\ t \in Seq(S) /\ Len(t) = Len(s) - 1
        /\ \A k \in 1..(Len(s) - 1) : (k < m => t[k] = s[k]) /\ (k >= m => t[k] = s[k + 1])
    BY ONLY <2>4, <2>5, s \in Seq(S), Removed
  <2>7. DOMAIN t = 1..(Len(s) - 1)
    BY ONLY <1>1, <2>6
  <2> DEFINE n == Len(s)
  <2> HIDE DEF n
  <2>8. n \in Nat /\ DOMAIN s = 1..n /\ DOMAIN t = 1..(n - 1) /\ m \in 1..n
    BY <1>1, <2>5, <2>7 DEF n
  <2>9. \A k \in 1..(n - 1) : (k < m => t[k] = s[k]) /\ (k >= m => t[k] = s[k + 1])
    BY <2>6 DEF n
  <2>10. ASSUME NEW x \in Range(t) PROVE x \in Range(s) /\ x # e
    <3>1. PICK k \in 1..(n - 1) : x = t[k]
      BY <2>8 DEF Range
    <3>2. CASE k < m
      <4>1. x = s[k] /\ k \in DOMAIN s /\ k # m /\ m \in DOMAIN s
        BY <2>8, <2>9, <3>1, <3>2
      <4> QED BY <2>5, <4>1 DEF Range
    <3>3. CASE k >= m
      <4>1. x = s[k + 1] /\ k + 1 \in DOMAIN s /\ k + 1 # m /\ m \in DOMAIN s
        BY <2>8, <2>9, <3>1, <3>3
      <4> QED BY <2>5, <4>1 DEF Range
    <3> QED BY <2>8, <3>1, <3>2, <3>3
  <2>11. ASSUME NEW x \in Range(s), x # e PROVE x \in Range(t)
    <3>1. PICK k \in 1..n : x = s[k]
      BY <2>8 DEF Range
    <3>2. k # m
      BY <2>5, <2>11, <3>1
    <3>3. CASE k < m
      <4>1. k \in DOMAIN t /\ x = t[k]
        BY <2>8, <2>9, <3>1, <3>3
      <4> QED BY <4>1 DEF Range
    <3>4. CASE k > m
      <4>1. k - 1 \in 1..(n - 1) /\ k - 1 >= m /\ (k - 1) + 1 = k
        BY <2>8, <3>1, <3>4
      <4>2. t[k - 1] = s[(k - 1) + 1]
        BY <2>9, <4>1
      <4>3. k - 1 \in DOMAIN t /\ x = t[k - 1]
        BY <2>8, <3>1, <4>1, <4>2
      <4> QED BY <4>3 DEF Range
    <3> QED BY <2>8, <3>1, <3>2, <3>3, <3>4
  <2>12. \A i, j \in DOMAIN t : t[i] = t[j] => i = j
    <3>1. PICK old \in [DOMAIN t -> DOMAIN s] :
            /\ \A k \in DOMAIN t : t[k] = s[old[k]]
            /\ \A k, l \in DOMAIN t : old[k] = old[l] => k = l
      BY ONLY <2>4, <2>5, s \in Seq(S), RemovedFrom
    <3> QED BY <3>1
  <2>13. Range(t) = Range(s) \ {e}
    BY <2>10, <2>11
  <2> QED BY <2>6, <2>12, <2>13
<1>3. CASE ~ \E i \in 1..Len(s) : s[i] = e
  <2>1. t = s
    BY <1>3 DEF RemoveFirst
  <2>2. e \notin Range(s)
    BY <1>1, <1>3 DEF Range
  <2> QED BY <2>1, <2>2
<1> QED BY <1>2, <1>3

(* What the recursion of FlattenSeq says of the first n lists.             *)
FlattensTo(S, ss, n, f) ==
  /\ f \in [1..n -> Seq(S)]
  /\ \A i \in 1..n : f[i] = IF i = 1 THEN ss[i] ELSE f[i - 1] \o ss[i]

(* Flattens: the recursion of FlattenSeq has a solution, by the least      *)
(* length that would have none.                                            *)
LEMMA Flattens ==
  ASSUME NEW S, NEW ss \in Seq(Seq(S)), NEW n \in 1..Len(ss)
  PROVE  \E f : FlattensTo(S, ss, n, f)
<1> DEFINE P(k) == \E f \in [1..k -> Seq(S)] : \A i \in 1..k : f[i] = IF i = 1 THEN ss[i] ELSE f[i - 1] \o ss[i]
           T == {k \in 1..Len(ss) : ~P(k)}
<1>1. Len(ss) \in Nat /\ \A k \in 1..Len(ss) : ss[k] \in Seq(S)
  OBVIOUS
<1>2. ASSUME T # {} PROVE FALSE
  <2>1. T \subseteq Nat
    BY <1>1
  <2> HIDE DEF T
  <2>2. PICK m \in T : \A k \in T : m <= k
    BY <1>2, <2>1, NatMin
  <2>3. m \in 1..Len(ss) /\ ~P(m)
    BY <2>2, Zenon DEF T
  <2>4. CASE m = 1
    <3> DEFINE g == [i \in 1..1 |-> ss[i]]
    <3>1. g \in [1..1 -> Seq(S)]
      BY <1>1, <2>3, <2>4
    <3>2. \A i \in 1..1 : g[i] = IF i = 1 THEN ss[i] ELSE g[i - 1] \o ss[i]
      OBVIOUS
    <3> HIDE DEF g
    <3>3. P(1)
      BY <3>1, <3>2, Zenon
    <3> QED BY <2>3, <2>4, <3>3
  <2>5. CASE m > 1
    <3>1. m - 1 \in 1..Len(ss) /\ m - 1 \notin T /\ m \in Nat
      BY <1>1, <2>2, <2>3, <2>5
    <3>2. P(m - 1)
      BY <3>1, Zenon DEF T
    <3>3. PICK f \in [1..(m - 1) -> Seq(S)] :
            \A i \in 1..(m - 1) : f[i] = IF i = 1 THEN ss[i] ELSE f[i - 1] \o ss[i]
      BY <3>2, Zenon
    <3> DEFINE last == f[m - 1] \o ss[m]
               g == [i \in 1..m |-> IF i < m THEN f[i] ELSE last]
    <3>4. last \in Seq(S)
      <4>1. f[m - 1] \in Seq(S) /\ ss[m] \in Seq(S)
        BY <1>1, <2>3, <2>5, <3>1
      <4> QED BY <4>1
    <3>5. last = f[m - 1] \o ss[m]
      OBVIOUS
    <3> HIDE DEF last
    <3>6. g \in [1..m -> Seq(S)]
      BY <2>5, <3>1, <3>4
    <3>7. /\ \A i \in 1..(m - 1) : g[i] = f[i]
          /\ g[m] = last
      BY <2>5, <3>1
    <3> HIDE DEF g
    <3>8. ASSUME NEW i \in 1..m PROVE g[i] = IF i = 1 THEN ss[i] ELSE g[i - 1] \o ss[i]
      <4>1. CASE i = m
        <5>1. m - 1 \in 1..(m - 1) /\ m # 1
          BY <2>5, <3>1
        <5>2. g[m - 1] = f[m - 1]
          BY <3>7, <5>1
        <5> QED BY <3>5, <3>7, <4>1, <5>1, <5>2
      <4>2. CASE i = 1
        <5>1. 1 \in 1..(m - 1)
          BY <2>5, <3>1
        <5> QED BY <3>3, <3>7, <4>2, <5>1
      <4>3. CASE i # m /\ i # 1
        <5>1. i \in 1..(m - 1) /\ i - 1 \in 1..(m - 1)
          BY <3>1, <4>3
        <5> QED BY <3>3, <3>7, <4>3, <5>1
      <4> QED BY <4>1, <4>2, <4>3
    <3>9. P(m)
      BY <3>6, <3>8, Zenon
    <3> QED BY <2>3, <3>9
  <2> QED BY <1>1, <2>3, <2>4, <2>5
<1>3. P(n)
  BY <1>2
<1> QED BY <1>3, Zenon DEF FlattensTo

(* FlattenSolution: FlattenSeq takes a solution's last value.              *)
LEMMA FlattenSolution ==
  ASSUME NEW S, NEW ss \in Seq(Seq(S)), Len(ss) # 0
  PROVE  \E f : FlattensTo(S, ss, Len(ss), f) /\ FlattenSeq(ss) = f[Len(ss)]
<1> DEFINE n == Len(ss)
           Rec(f) == [i \in 1..n |-> IF i = 1 THEN ss[i] ELSE f[i - 1] \o ss[i]]
           F == CHOOSE f : f = Rec(f)
<1>1. n \in Nat /\ \A k \in 1..n : ss[k] \in Seq(S)
  OBVIOUS
<1>2. n \in 1..Len(ss)
  BY <1>1
<1>3. FlattenSeq(ss) = F[n]
  BY DEF FlattenSeq
<1>4. PICK f : FlattensTo(S, ss, n, f)
  BY <1>2, Flattens, Zenon
<1>5. f = Rec(f)
  <2> HIDE DEF n
  <2> QED BY <1>4 DEF FlattensTo
<1> HIDE DEF Rec
<1>6. F = Rec(F)
  BY <1>5, Zenon
<1> HIDE DEF F, n
<1>7. DOMAIN F = 1..n /\ F = [i \in 1..n |-> F[i]]
  BY <1>6 DEF Rec
<1>8. \A i \in 1..n : F[i] = IF i = 1 THEN ss[i] ELSE F[i - 1] \o ss[i]
  BY <1>6, Zenon DEF Rec
<1> DEFINE T == {i \in 1..n : F[i] \notin Seq(S)}
<1>9. ASSUME T # {} PROVE FALSE
  <2>1. T \subseteq Nat
    BY <1>1
  <2> HIDE DEF T
  <2>2. PICK m \in T : \A k \in T : m <= k
    BY <1>9, <2>1, NatMin
  <2>3. m \in 1..n /\ F[m] \notin Seq(S)
    BY <2>2 DEF T
  <2>4. CASE m = 1
    BY <1>1, <1>8, <2>3, <2>4
  <2>5. CASE m # 1
    <3>1. m - 1 \in 1..n /\ m - 1 \notin T
      BY <1>1, <2>2, <2>3, <2>5
    <3>2. F[m - 1] \in Seq(S)
      BY <3>1 DEF T
    <3>3. F[m] = F[m - 1] \o ss[m] /\ ss[m] \in Seq(S)
      BY <1>1, <1>8, <2>3, <2>5
    <3>4. F[m - 1] \o ss[m] \in Seq(S)
      BY ONLY <3>2, <3>3
    <3> QED BY <2>3, <3>3, <3>4
  <2> QED BY <2>4, <2>5
<1>10. F \in [1..n -> Seq(S)]
  BY <1>7, <1>9
<1>11. FlattensTo(S, ss, n, F)
  BY <1>8, <1>10, Zenon DEF FlattensTo
<1> QED BY <1>3, <1>11, Zenon DEF n

(* FlattenType: a list of lists is flattened to a list of their elements.  *)
LEMMA FlattenType ==
  ASSUME NEW S, NEW ss \in Seq(Seq(S))
  PROVE  FlattenSeq(ss) \in Seq(S)
<1>1. CASE Len(ss) = 0
  <2>1. FlattenSeq(ss) = ss /\ ss = << >>
    BY <1>1 DEF FlattenSeq
  <2> QED BY <2>1
<1>2. CASE Len(ss) # 0
  <2>1. PICK f : FlattensTo(S, ss, Len(ss), f) /\ FlattenSeq(ss) = f[Len(ss)]
    BY <1>2, FlattenSolution
  <2>2. Len(ss) \in 1..Len(ss)
    BY <1>2
  <2>3. f \in [1..Len(ss) -> Seq(S)]
    BY <2>1 DEF FlattensTo
  <2> QED BY <2>1, <2>2, <2>3
<1> QED BY <1>1, <1>2

(* FlattenAgree: the solutions for two lists agree on a common prefix.     *)
LEMMA FlattenAgree ==
  ASSUME NEW S, NEW ss, NEW tt, NEW n \in Nat, NEW m \in Nat, n <= m,
         \A i \in 1..n : ss[i] = tt[i],
         NEW f, NEW g, FlattensTo(S, ss, n, f), FlattensTo(S, tt, m, g)
  PROVE  \A i \in 1..n : f[i] = g[i]
<1> DEFINE T == {i \in 1..n : f[i] # g[i]}
<1>1. /\ \A i \in 1..n : f[i] = IF i = 1 THEN ss[i] ELSE f[i - 1] \o ss[i]
      /\ \A i \in 1..m : g[i] = IF i = 1 THEN tt[i] ELSE g[i - 1] \o tt[i]
  BY Zenon DEF FlattensTo
<1>2. ASSUME T # {} PROVE FALSE
  <2>1. T \subseteq Nat
    OBVIOUS
  <2> HIDE DEF T
  <2>2. PICK k \in T : \A l \in T : k <= l
    BY <1>2, <2>1, NatMin
  <2>3. k \in 1..n /\ k \in 1..m /\ f[k] # g[k]
    BY <2>2 DEF T
  <2>4. CASE k = 1
    BY <1>1, <2>3, <2>4
  <2>5. CASE k # 1
    <3>1. k - 1 \in 1..n /\ k - 1 \notin T
      BY <2>2, <2>3, <2>5
    <3>2. f[k - 1] = g[k - 1]
      BY <3>1 DEF T
    <3>3. f[k] = f[k - 1] \o ss[k] /\ g[k] = g[k - 1] \o tt[k] /\ ss[k] = tt[k]
      BY <1>1, <2>3, <2>5
    <3> QED BY <2>3, <3>2, <3>3
  <2> QED BY <2>4, <2>5
<1> QED BY <1>2

(* FlattenAppend: one list more is flattened behind the others.            *)
LEMMA FlattenAppend ==
  ASSUME NEW S, NEW ss \in Seq(Seq(S)), NEW x \in Seq(S)
  PROVE  /\ FlattenSeq(<< >>) = << >>
         /\ FlattenSeq(Append(ss, x)) = FlattenSeq(ss) \o x
<1> DEFINE tt == Append(ss, x)
           n == Len(ss)
<1>1. /\ tt \in Seq(Seq(S)) /\ n \in Nat /\ Len(tt) = n + 1 /\ tt[n + 1] = x
      /\ \A i \in 1..n : ss[i] = tt[i]
  OBVIOUS
<1>2. FlattenSeq(<< >>) = << >>
  BY DEF FlattenSeq
<1> HIDE DEF tt
<1>3. PICK g : FlattensTo(S, tt, n + 1, g) /\ FlattenSeq(tt) = g[n + 1]
  <2>1. Len(tt) # 0
    BY <1>1
  <2> QED BY <1>1, <2>1, FlattenSolution
<1>4. \A i \in 1..(n + 1) : g[i] = IF i = 1 THEN tt[i] ELSE g[i - 1] \o tt[i]
  BY <1>3, Zenon DEF FlattensTo
<1>5. CASE n = 0
  <2>1. g[n + 1] = x
    BY <1>1, <1>4, <1>5
  <2>2. ss = << >> /\ << >> \o x = x
    BY <1>5
  <2> QED BY <1>2, <1>3, <2>1, <2>2 DEF tt
<1>6. CASE n # 0
  <2>1. PICK f : FlattensTo(S, ss, n, f) /\ FlattenSeq(ss) = f[n]
    BY <1>6, FlattenSolution
  <2>2. n <= n + 1 /\ n + 1 \in Nat /\ n \in 1..n
    BY <1>1, <1>6
  <2>3. \A i \in 1..n : f[i] = g[i]
    <3> HIDE DEF n
    <3>1. \A i \in 1..n : ss[i] = tt[i]
      BY <1>1
    <3>2. FlattensTo(S, ss, n, f) /\ FlattensTo(S, tt, n + 1, g)
      BY <1>3, <2>1
    <3> QED BY ONLY <1>1, <2>2, <3>1, <3>2, FlattenAgree
  <2>4. f[n] = g[n]
    BY <2>2, <2>3
  <2>5. n + 1 \in 1..(n + 1) /\ n + 1 # 1 /\ (n + 1) - 1 = n
    BY <1>1, <1>6
  <2>6. g[n + 1] = g[n] \o x
    BY <1>1, <1>4, <2>5
  <2> QED BY <1>2, <1>3, <2>1, <2>4, <2>6, Zenon DEF tt
<1> QED BY <1>2, <1>5, <1>6

(* R orders the set S strictly.                                            *)
Orders(R, S) ==
  /\ \A x \in S : <<x, x>> \notin R
  /\ \A x, y, z \in S : <<x, y>> \in R /\ <<y, z>> \in R => <<x, z>> \in R
  /\ \A x, y \in S : x = y \/ <<x, y>> \in R \/ <<y, x>> \in R

Predecessors(R, S, x) == {y \in S : <<y, x>> \in R}

(* EveryPlaceIsTaken: in a strict order of a finite set, one element has   *)
(* no other before it, one has one, and so on, each of them only one.      *)
LEMMA EveryPlaceIsTaken ==
  ASSUME NEW S, IsFiniteSet(S), NEW R, Orders(R, S)
  PROVE  /\ \A x \in S : /\ Cardinality(Predecessors(R, S, x)) \in Nat
                         /\ Cardinality(Predecessors(R, S, x)) + 1 \in 1..Cardinality(S)
         /\ \A x, y \in S :
              <<x, y>> \in R =>
                Cardinality(Predecessors(R, S, x)) < Cardinality(Predecessors(R, S, y))
         /\ \A x, y \in S :
              Cardinality(Predecessors(R, S, x)) = Cardinality(Predecessors(R, S, y)) => x = y
         /\ \A i \in 1..Cardinality(S) :
              \E x \in S : Cardinality(Predecessors(R, S, x)) = i - 1
<1> DEFINE P(x) == Predecessors(R, S, x)
           C(x) == Cardinality(P(x))
           n == Cardinality(S)
<1>1. n \in Nat
  BY FS_CardinalityType
<1>2. ASSUME NEW x \in S
      PROVE  IsFiniteSet(P(x)) /\ C(x) \in Nat /\ C(x) < n
  <2>1. P(x) \in SUBSET S /\ x \notin P(x)
    BY DEF Predecessors, Orders
  <2> HIDE DEF P
  <2>2. IsFiniteSet(P(x)) /\ Cardinality(P(x)) <= n /\ (n = Cardinality(P(x)) => S = P(x))
    BY <2>1, FS_Subset
  <2>3. Cardinality(P(x)) \in Nat
    BY <2>2, FS_CardinalityType
  <2>4. Cardinality(P(x)) # n
    BY <2>1, <2>2
  <2> HIDE DEF n
  <2> QED BY <1>1, <2>2, <2>3, <2>4
<1>3. ASSUME NEW x \in S, NEW y \in S, <<x, y>> \in R PROVE C(x) < C(y)
  <2>1. P(x) \in SUBSET P(y) /\ x \in P(y) /\ x \notin P(x)
    BY <1>3 DEF Predecessors, Orders
  <2>2. IsFiniteSet(P(y)) /\ C(x) \in Nat /\ C(y) \in Nat
    BY <1>2
  <2> HIDE DEF P
  <2>3. C(x) <= C(y) /\ (C(y) = C(x) => P(y) = P(x))
    BY <2>1, <2>2, FS_Subset
  <2> HIDE DEF C
  <2> QED BY <2>1, <2>2, <2>3
<1> HIDE DEF P, C, n
<1>4. ASSUME NEW x \in S, NEW y \in S, C(x) = C(y) PROVE x = y
  <2>1. C(x) \in Nat
    BY <1>2
  <2>2. <<x, y>> \notin R /\ <<y, x>> \notin R
    BY <1>3, <1>4, <2>1
  <2> QED BY <2>2 DEF Orders
<1>5. \A x \in S : C(x) \in Nat /\ C(x) + 1 \in 1..n
  BY <1>1, <1>2
<1>6. ASSUME NEW i \in 1..n PROVE \E x \in S : C(x) = i - 1
  <2> DEFINE f == [x \in S |-> C(x) + 1]
  <2>1. f \in [S -> 1..n] /\ \A x \in S : f[x] = C(x) + 1
    BY <1>5
  <2>2. ASSUME NEW x \in S, NEW y \in S, f[x] = f[y] PROVE x = y
    <3>1. C(x) \in Nat /\ C(y) \in Nat /\ C(x) = C(y)
      BY <1>2, <2>1, <2>2
    <3> QED BY <1>4, <3>1
  <2> HIDE DEF f
  <2>3. f \in Injection(S, 1..n)
    BY <2>1, <2>2 DEF Injection, IsInjective
  <2>4. IsFiniteSet(1..n) /\ Cardinality(1..n) = n
    BY <1>1, FS_Interval
  <2>5. f \in Surjection(S, 1..n)
    BY <2>3, <2>4, FS_Injection DEF n
  <2>6. PICK x \in S : f[x] = i
    BY <2>5 DEF Surjection
  <2>7. C(x) \in Nat /\ C(x) + 1 = i
    BY <1>2, <2>1, <2>6
  <2> QED BY <2>7
<1> QED BY <1>3, <1>4, <1>5, <1>6 DEF C, P, n

(* FlattenCount: if the lists are as long as the classes of a set are      *)
(* large, the flattened list is as long as the set is large: so is every   *)
(* prefix, by the least one that is not.                                   *)
LEMMA FlattenCount ==
  ASSUME NEW S, NEW ss \in Seq(Seq(S)), NEW D, IsFiniteSet(D), NEW class,
         \A i \in 1..Len(ss) : class[i] \subseteq D /\ Len(ss[i]) = Cardinality(class[i]),
         \A i, j \in 1..Len(ss) : i # j => class[i] \cap class[j] = {},
         \A d \in D : \E i \in 1..Len(ss) : d \in class[i]
  PROVE  Len(FlattenSeq(ss)) = Cardinality(D)
<1> DEFINE n == Len(ss)
           Upto(i) == {d \in D : \E j \in 1..i : d \in class[j]}
<1>1. n \in Nat /\ \A i \in 1..n : ss[i] \in Seq(S)
  OBVIOUS
<1>2. CASE n = 0
  <2>1. D = {}
    BY <1>2
  <2>2. FlattenSeq(ss) = ss
    BY <1>2, Zenon DEF FlattenSeq
  <2> QED BY <1>2, <2>1, <2>2, FS_EmptySet
<1>3. CASE n # 0
  <2>1. PICK f : FlattensTo(S, ss, n, f) /\ FlattenSeq(ss) = f[n]
    BY <1>3, FlattenSolution
  <2>2. /\ \A i \in 1..n : f[i] \in Seq(S)
        /\ \A i \in 1..n : f[i] = IF i = 1 THEN ss[i] ELSE f[i - 1] \o ss[i]
    BY <2>1 DEF FlattensTo
  <2>3. \A i \in 1..n : class[i] \subseteq D /\ IsFiniteSet(class[i]) /\ Len(ss[i]) = Cardinality(class[i])
    <3>1. ASSUME NEW C, C \subseteq D PROVE IsFiniteSet(C)
      BY <3>1, FS_Subset
    <3> QED BY <3>1, Zenon
  <2>4. \A i : IsFiniteSet(Upto(i))
    <3>1. \A i : Upto(i) \subseteq D
      OBVIOUS
    <3> HIDE DEF Upto
    <3> QED BY <3>1, FS_Subset
  <2> DEFINE T == {i \in 1..n : Len(f[i]) # Cardinality(Upto(i))}
  <2>5. ASSUME T # {} PROVE FALSE
    <3>1. T \subseteq Nat
      BY <1>1
    <3> HIDE DEF T
    <3>2. PICK m \in T : \A i \in T : m <= i
      BY <2>5, <3>1, NatMin
    <3>3. m \in 1..n /\ Len(f[m]) # Cardinality(Upto(m))
      BY <3>2 DEF T
    <3>4. CASE m = 1
      <4>1. Upto(1) = class[1]
        <5>1. class[1] \subseteq D
          BY <2>3, <3>3, <3>4
        <5> QED BY <5>1
      <4>2. f[1] = ss[1]
        BY <2>2, <3>3, <3>4
      <4> QED BY <2>3, <3>3, <3>4, <4>1, <4>2
    <3>5. CASE m # 1
      <4> DEFINE k == m - 1
      <4>1. k \in 1..n /\ m = k + 1 /\ ~ m <= k /\ k \in Nat
        BY <1>1, <3>3, <3>5
      <4>2. Len(f[k]) = Cardinality(Upto(k))
        <5>1. k \notin T
          BY <3>2, <4>1
        <5> QED BY <4>1, <5>1, Zenon DEF T
      <4>3. f[m] = f[k] \o ss[m]
        BY <2>2, <3>3, <3>5, Zenon
      <4>4. Len(f[m]) = Len(f[k]) + Len(ss[m])
        <5> DEFINE a == f[k]
                   b == ss[m]
        <5>1. a \in Seq(S) /\ b \in Seq(S)
          BY <1>1, <2>2, <3>3, <4>1, Zenon
        <5> HIDE DEF a, b
        <5>2. Len(a \o b) = Len(a) + Len(b)
          BY <5>1, Concat
        <5> QED BY <4>3, <5>2 DEF a, b
      <4> HIDE DEF k
      <4>5. Upto(m) = Upto(k) \cup class[m]
        <5>1. class[m] \subseteq D
          BY <2>3, <3>3
        <5>2. \A j : j \in 1..m <=> j \in 1..k \/ j = m
          BY <3>3, <4>1
        <5> QED BY <5>1, <5>2
      <4>6. Upto(k) \cap class[m] = {}
        <5>1. \A j \in 1..k : j \in 1..n /\ j # m
          BY <1>1, <3>3, <4>1
        <5>2. \A j \in 1..k : class[j] \cap class[m] = {}
          BY <3>3, <5>1
        <5> QED BY <5>2
      <4> HIDE DEF Upto
      <4>7. /\ IsFiniteSet(Upto(k)) /\ IsFiniteSet(class[m]) /\ Cardinality({}) = 0
            /\ Cardinality(Upto(k)) \in Nat /\ Cardinality(class[m]) \in Nat
        BY <2>3, <2>4, <3>3, FS_CardinalityType, FS_EmptySet
      <4>8. Cardinality(Upto(m)) = Cardinality(Upto(k)) + Cardinality(class[m])
        <5>1. Cardinality(Upto(k) \cup class[m])
                = Cardinality(Upto(k)) + Cardinality(class[m]) - Cardinality(Upto(k) \cap class[m])
          BY <4>7, FS_Union
        <5>2. Cardinality(Upto(k) \cap class[m]) = 0
          BY <4>6, <4>7, Zenon
        <5>3. Cardinality(Upto(m)) = Cardinality(Upto(k) \cup class[m])
          BY <4>5, Zenon
        <5> DEFINE u == Cardinality(Upto(k))
                   v == Cardinality(class[m])
                   w == Cardinality(Upto(k) \cap class[m])
        <5>4. Cardinality(Upto(m)) = u + v - w /\ w = 0 /\ u \in Nat /\ v \in Nat
          BY <4>7, <5>1, <5>2, <5>3, Zenon
        <5> HIDE DEF u, v, w
        <5>5. Cardinality(Upto(m)) = u + v
          BY ONLY <5>4
        <5> QED BY <5>5 DEF u, v
      <4>9. Len(ss[m]) = Cardinality(class[m])
        BY <2>3, <3>3, Zenon
      <4>10. Len(f[m]) = Cardinality(Upto(m))
        BY <4>2, <4>4, <4>8, <4>9, Zenon
      <4> QED BY <3>3, <4>10, Zenon
    <3> QED BY <3>4, <3>5
  <2>6. n \in 1..n
    BY <1>1, <1>3
  <2>7. Len(f[n]) = Cardinality(Upto(n))
    BY <2>5, <2>6
  <2>8. Upto(n) = D
    OBVIOUS
  <2> QED BY <2>1, <2>7, <2>8
<1> QED BY <1>2, <1>3
=============================================================================
