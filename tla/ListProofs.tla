----------------------------- MODULE ListProofs -----------------------------
(* Facts about sequences, list_del (Unlink), list_add_before (Append), and  *)
(* the lists and tables the modules search.  The library's sequence         *)
(* theorems are left out: a proof carries every theorem its module reaches. *)
EXTENDS Lists, WellFoundedInduction, TLAPS

\* A list is a function on its places.
LEMMA SeqLength ==
    ASSUME NEW S, NEW s \in Seq(S)
    PROVE  s \in [1..Len(s) -> S] /\ DOMAIN s = 1..Len(s) /\ Len(s) \in Nat
OBVIOUS

\* An element of a list.
LEMMA SeqElement ==
    ASSUME NEW S, NEW s \in Seq(S), NEW i \in 1..Len(s)
    PROVE  s[i] \in S
OBVIOUS

\* The empty list.
LEMMA SeqEmpty ==
    ASSUME NEW S
    PROVE  <<>> \in Seq(S) /\ Len(<<>>) = 0 /\ \A s \in Seq(S) \ {<<>>} : Len(s) \in Nat \ {0}
OBVIOUS

\* A list with one element more.
LEMMA SeqAppend ==
    ASSUME NEW S, NEW s \in Seq(S), NEW e \in S
    PROVE  /\ Append(s, e) \in Seq(S) \ {<<>>}
           /\ Len(Append(s, e)) = Len(s) + 1
           /\ \A i \in 1..Len(s) : Append(s, e)[i] = s[i]
           /\ Append(s, e)[Len(s) + 1] = e
OBVIOUS

\* A list without its first element.
LEMMA SeqHeadTail ==
    ASSUME NEW S, NEW s \in Seq(S), s # <<>>
    PROVE  /\ Head(s) \in S /\ Tail(s) \in Seq(S)
           /\ Len(Tail(s)) = Len(s) - 1
           /\ \A i \in 1..Len(Tail(s)) : Tail(s)[i] = s[i + 1]
OBVIOUS

\* Lists with the same elements in the same places are the same.
LEMMA SeqSame ==
    ASSUME NEW S, NEW s \in Seq(S), NEW t \in Seq(S), Len(t) = Len(s),
           \A i \in 1..Len(s) : t[i] = s[i]
    PROVE  s = t
OBVIOUS

\* list_del: where the remaining elements of a list go.
LEMMA RemoveAtProperties ==
    ASSUME NEW S, NEW s \in Seq(S), NEW n \in 1..Len(s)
    PROVE  /\ RemoveAt(s, n) \in Seq(S)
           /\ Len(RemoveAt(s, n)) = Len(s) - 1
           /\ \A i \in 1..(Len(s) - 1) :
                 RemoveAt(s, n)[i] = IF i < n THEN s[i] ELSE s[i + 1]
<1> DEFINE a == SubSeq(s, 1, n - 1)
           b == SubSeq(s, n + 1, Len(s))
<1>1. a \in Seq(S) /\ Len(a) = n - 1 /\ \A i \in 1..(n - 1) : a[i] = s[i]
  OBVIOUS
<1>2. b \in Seq(S) /\ Len(b) = Len(s) - n /\ \A i \in 1..(Len(s) - n) : b[i] = s[n + i]
  OBVIOUS
<1>3. RemoveAt(s, n) = a \o b
  BY DEF RemoveAt
<1> HIDE DEF a, b
<1>4. /\ a \o b \in Seq(S)
      /\ Len(a \o b) = Len(a) + Len(b)
      /\ \A i \in 1..(Len(a) + Len(b)) :
            (a \o b)[i] = IF i <= Len(a) THEN a[i] ELSE b[i - Len(a)]
  <2>1. ASSUME NEW u \in Seq(S), NEW v \in Seq(S)
        PROVE  /\ u \o v \in Seq(S)
               /\ Len(u \o v) = Len(u) + Len(v)
               /\ \A i \in 1..(Len(u) + Len(v)) :
                     (u \o v)[i] = IF i <= Len(u) THEN u[i] ELSE v[i - Len(u)]
    OBVIOUS
  <2> QED
    BY <1>1, <1>2, <2>1
<1>5. ASSUME NEW i \in 1..(Len(s) - 1)
      PROVE  (a \o b)[i] = IF i < n THEN s[i] ELSE s[i + 1]
  <2>1. i \in 1..(Len(a) + Len(b))
    BY <1>1, <1>2
  <2>2. CASE i < n
    BY <1>1, <1>4, <2>1, <2>2
  <2>3. CASE ~(i < n)
    <3>1. i - Len(a) \in 1..(Len(s) - n) /\ n + (i - Len(a)) = i + 1 /\ ~(i <= Len(a))
      BY <1>1, <2>3
    <3> QED
      BY <1>2, <1>4, <2>1, <2>3, <3>1
  <2> QED
    BY <2>2, <2>3
<1> QED
  BY <1>1, <1>2, <1>3, <1>4, <1>5

\* The place list_del finds is a place of the element.
LEMMA IndexOfProperties ==
    ASSUME NEW S, NEW s \in Seq(S), NEW e \in Range(s)
    PROVE  IndexOf(s, e) \in 1..Len(s) /\ s[IndexOf(s, e)] = e
<1>1. \E i \in DOMAIN s : s[i] = e
  BY DEF Range
<1> QED
  BY <1>1, SeqLength DEF IndexOf

\* The first element of a list is on it.
LEMMA HeadInRange ==
    ASSUME NEW S, NEW s \in Seq(S), s # <<>>
    PROVE  /\ Head(s) \in S
           /\ Head(s) \in Range(s)
           /\ Head(s) = s[1]
           /\ 1 \in 1..Len(s)
<1>1. Len(s) \in Nat \ {0}
  BY SeqEmpty
<1>2. 1 \in DOMAIN s /\ Head(s) = s[1]
  BY <1>1, SeqLength
<1> QED
  BY <1>1, <1>2, SeqHeadTail DEF Range

\* list_del takes away that element and no other, and keeps the rest apart.
LEMMA UnlinkProperties ==
    ASSUME NEW S, NEW s \in Seq(S), IsInjective(s), NEW e
    PROVE  /\ Unlink(s, e) \in Seq(S)
           /\ IsInjective(Unlink(s, e))
           /\ Range(Unlink(s, e)) = Range(s) \ {e}
           /\ e \notin Range(s) => Unlink(s, e) = s
<1>1. CASE e \notin Range(s)
  BY <1>1 DEF Unlink
<1>2. CASE e \in Range(s)
  <2> DEFINE n == IndexOf(s, e)
             t == RemoveAt(s, n)
  <2>1. n \in 1..Len(s) /\ s[n] = e
    BY <1>2, IndexOfProperties
  <2>2. Unlink(s, e) = t
    BY <1>2 DEF Unlink
  <2> HIDE DEF n
  <2>3. /\ t \in Seq(S)
        /\ Len(t) = Len(s) - 1
        /\ \A i \in 1..(Len(s) - 1) : t[i] = IF i < n THEN s[i] ELSE s[i + 1]
    BY <2>1, RemoveAtProperties
  <2> HIDE DEF t
  <2>4. Len(s) \in Nat /\ DOMAIN s = 1..Len(s) /\ DOMAIN t = 1..(Len(s) - 1)
    BY <2>3, SeqLength
  <2> DEFINE from(i) == IF i < n THEN i ELSE i + 1
  <2>5. ASSUME NEW i \in DOMAIN t
        PROVE  from(i) \in DOMAIN s /\ from(i) # n /\ t[i] = s[from(i)] /\ i \in Int
    BY <2>1, <2>3, <2>4
  <2>6. \A i, j \in Int : from(i) = from(j) => i = j
    BY <2>1, <2>4
  <2>7. n \in DOMAIN s
    BY <2>1, <2>4
  <2> HIDE DEF from
  <2>8. IsInjective(t)
    <3> SUFFICES ASSUME NEW i \in DOMAIN t, NEW j \in DOMAIN t, t[i] = t[j]
                 PROVE  i = j
      BY DEF IsInjective
    <3>1. from(i) = from(j)
      BY <2>5 DEF IsInjective
    <3> QED
      BY <2>5, <2>6, <3>1
  <2>9. ASSUME NEW i \in DOMAIN t
        PROVE  t[i] \in Range(s) \ {e}
    <3>1. s[from(i)] # s[n]
      BY <2>5, <2>7 DEF IsInjective
    <3> QED
      BY <2>1, <2>5, <3>1 DEF Range
  <2>10. ASSUME NEW i \in DOMAIN s, s[i] # e
        PROVE  \E j \in DOMAIN t : t[j] = s[i]
    <3>1. CASE i < n
      <4>1. i \in DOMAIN t /\ t[i] = s[i]
        BY <3>1, <2>1, <2>3, <2>4
      <4> QED
        BY <4>1
    <3>2. CASE n < i
      <4>1. i - 1 \in DOMAIN t /\ t[i - 1] = s[i]
        BY <3>2, <2>1, <2>3, <2>4
      <4> QED
        BY <4>1
    <3> QED
      BY <3>1, <3>2, <2>1, <2>4, <2>10
  <2> QED
    BY <1>2, <2>2, <2>3, <2>8, <2>9, <2>10 DEF Range
<1> QED
  BY <1>1, <1>2

\* list_del of the first element leaves the tail: what V does to a queue.
LEMMA UnlinkHead ==
    ASSUME NEW S, NEW s \in Seq(S), IsInjective(s), s # <<>>
    PROVE  Unlink(s, Head(s)) = Tail(s)
<1>1. Head(s) \in Range(s) /\ Head(s) = s[1] /\ 1 \in 1..Len(s)
  BY HeadInRange
<1>2. IndexOf(s, Head(s)) = 1
  BY <1>1, IndexOfProperties, SeqLength DEF IsInjective
<1>3. Unlink(s, Head(s)) = RemoveAt(s, 1)
  BY <1>1, <1>2 DEF Unlink
<1>4. /\ RemoveAt(s, 1) \in Seq(S)
      /\ Len(RemoveAt(s, 1)) = Len(s) - 1
      /\ \A i \in 1..(Len(s) - 1) :
            RemoveAt(s, 1)[i] = IF i < 1 THEN s[i] ELSE s[i + 1]
  BY <1>1, RemoveAtProperties
<1>5. /\ Tail(s) \in Seq(S)
      /\ Len(Tail(s)) = Len(s) - 1
      /\ \A i \in 1..Len(Tail(s)) : Tail(s)[i] = s[i + 1]
  BY SeqHeadTail
<1>6. \A i \in 1..Len(RemoveAt(s, 1)) : RemoveAt(s, 1)[i] = Tail(s)[i]
  BY <1>4, <1>5, SeqLength
<1> QED
  BY <1>3, <1>4, <1>5, <1>6, SeqSame

\* list_add_before of an element that is not on the list adds that one only.
LEMMA AppendRange ==
    ASSUME NEW S, NEW s \in Seq(S), IsInjective(s), NEW e \in S, e \notin Range(s)
    PROVE  /\ Append(s, e) \in Seq(S)
           /\ IsInjective(Append(s, e))
           /\ Range(Append(s, e)) = Range(s) \cup {e}
<1> DEFINE t == Append(s, e)
<1>1. /\ t \in Seq(S)
      /\ Len(t) = Len(s) + 1
      /\ \A i \in 1..Len(s) : t[i] = s[i]
      /\ t[Len(s) + 1] = e
  BY SeqAppend
<1>2. Len(s) \in Nat /\ DOMAIN s = 1..Len(s) /\ DOMAIN t = 1..(Len(s) + 1)
  BY <1>1, SeqLength
<1> HIDE DEF t
<1>3. IsInjective(t)
  <2> SUFFICES ASSUME NEW i \in DOMAIN t, NEW j \in DOMAIN t, t[i] = t[j]
               PROVE  i = j
    BY DEF IsInjective
  <2>1. \A k \in DOMAIN t : k = Len(s) + 1 \/ k \in DOMAIN s
    BY <1>2
  <2>2. \A k \in DOMAIN s : s[k] # e
    BY DEF Range
  <2> QED
    BY <1>1, <1>2, <2>1, <2>2 DEF IsInjective
<1>4. Range(t) = Range(s) \cup {e}
  BY <1>1, <1>2 DEF Range
<1> QED
  BY <1>1, <1>3, <1>4 DEF t

\* A nonempty set of positions has a first one.
LEMMA Least ==
    ASSUME NEW T \in SUBSET Nat, T # {}
    PROVE  \E x \in T : \A y \in T : x <= y
<1> DEFINE R == OpToRel(<, Nat)
<1>1. IsWellFoundedOn(R, Nat)
  BY NatLessThanWellFounded
<1>2. \A x, y \in Nat : x < y => <<x, y>> \in R
  BY DEF OpToRel
<1> HIDE DEF R
<1>3. PICK x \in T : \A y \in T : ~(<<y, x>> \in R)
  BY <1>1, WFMin
<1>4. ASSUME NEW y \in T PROVE x <= y
  <2>1. x \in Nat /\ y \in Nat /\ ~(y < x)
    BY <1>2, <1>3
  <2> QED
    BY <2>1
<1> QED
  BY <1>4

\* The elements of a list.
LEMMA RangeSeq ==
    ASSUME NEW S, NEW s \in Seq(S)
    PROVE  \A x : x \in Range(s) <=> \E k \in 1..Len(s) : x = s[k]
  BY SeqLength DEF Range

\* The elements of two lists, one behind the other.
LEMMA ConcatRange ==
    ASSUME NEW S, NEW s \in Seq(S), NEW t \in Seq(S)
    PROVE  Range(s \o t) = Range(s) \cup Range(t)
<1> DEFINE u == s \o t
<1>1. /\ u \in Seq(S)
      /\ Len(u) = Len(s) + Len(t) /\ Len(s) \in Nat /\ Len(t) \in Nat
      /\ \A k \in 1..Len(s) : u[k] = s[k]
      /\ \A k \in 1..Len(t) : u[Len(s) + k] = t[k]
  OBVIOUS
<1> HIDE DEF u
<1>2. /\ \A x : x \in Range(s) <=> \E k \in 1..Len(s) : x = s[k]
      /\ \A x : x \in Range(t) <=> \E k \in 1..Len(t) : x = t[k]
      /\ \A x : x \in Range(u) <=> \E k \in 1..Len(u) : x = u[k]
  BY <1>1, RangeSeq
<1>3. ASSUME NEW x \in Range(u) PROVE x \in Range(s) \/ x \in Range(t)
  <2>1. PICK k \in 1..Len(u) : x = u[k]
    BY <1>2
  <2>2. CASE k \in 1..Len(s)
    BY <1>1, <1>2, <2>1, <2>2
  <2>3. CASE k \notin 1..Len(s)
    <3>1. k - Len(s) \in 1..Len(t) /\ k = Len(s) + (k - Len(s))
      BY <1>1, <2>3
    <3> QED
      BY <1>1, <1>2, <2>1, <3>1
  <2> QED
    BY <2>2, <2>3
<1>4. ASSUME NEW x \in Range(s) PROVE x \in Range(u)
  <2>1. PICK k \in 1..Len(s) : x = s[k]
    BY <1>2
  <2>2. k \in 1..Len(u)
    BY <1>1
  <2> QED
    BY <1>1, <1>2, <2>1, <2>2
<1>5. ASSUME NEW x \in Range(t) PROVE x \in Range(u)
  <2>1. PICK k \in 1..Len(t) : x = t[k]
    BY <1>2
  <2>2. Len(s) + k \in 1..Len(u)
    BY <1>1
  <2> QED
    BY <1>1, <1>2, <2>1, <2>2
<1> QED
  BY <1>3, <1>4, <1>5 DEF u

\* Lists are joined in any order.
LEMMA JoinAssociative ==
    ASSUME NEW S, NEW s \in Seq(S), NEW t \in Seq(S), NEW u \in Seq(S)
    PROVE  (s \o t) \o u = s \o (t \o u)
OBVIOUS

\* The elements of a list with one more.
LEMMA AppendElements ==
    ASSUME NEW S, NEW s \in Seq(S), NEW e \in S
    PROVE  Append(s, e) \in Seq(S) /\ Range(Append(s, e)) = Range(s) \cup {e}
<1> DEFINE t == Append(s, e)
<1>1. t \in Seq(S) /\ Len(t) = Len(s) + 1 /\ Len(s) \in Nat /\ t[Len(s) + 1] = e
      /\ \A k \in 1..Len(s) : t[k] = s[k]
  OBVIOUS
<1> HIDE DEF t
<1>2. /\ \A x : x \in Range(s) <=> \E k \in 1..Len(s) : x = s[k]
      /\ \A x : x \in Range(t) <=> \E k \in 1..Len(t) : x = t[k]
  BY <1>1, RangeSeq
<1>3. 1..Len(t) = 1..Len(s) \cup {Len(s) + 1}
  BY <1>1
<1> QED
  BY <1>1, <1>2, <1>3 DEF t

\* The elements of a list without its first, and without one of its elements.
LEMMA TailElements ==
    ASSUME NEW S, NEW s \in Seq(S), s # <<>>
    PROVE  Tail(s) \in Seq(S) /\ Range(Tail(s)) \subseteq Range(s) /\ Head(s) \in Range(s)
<1>1. Tail(s) \in Seq(S) /\ Len(Tail(s)) = Len(s) - 1 /\ Len(s) \in Nat \ {0}
      /\ \A k \in 1..Len(Tail(s)) : Tail(s)[k] = s[k + 1] /\ k + 1 \in 1..Len(s)
  OBVIOUS
<1>2. /\ \A x : x \in Range(s) <=> \E k \in 1..Len(s) : x = s[k]
      /\ \A x : x \in Range(Tail(s)) <=> \E k \in 1..Len(Tail(s)) : x = Tail(s)[k]
  BY <1>1, RangeSeq
<1>3. Head(s) \in Range(s)
  BY HeadInRange
<1> QED
  BY <1>1, <1>2, <1>3

\* list_del adds no element.
LEMMA UnlinkElements ==
    ASSUME NEW S, NEW s \in Seq(S), NEW e
    PROVE  Unlink(s, e) \in Seq(S) /\ Range(Unlink(s, e)) \subseteq Range(s)
<1>1. CASE e \notin Range(s)
  BY <1>1 DEF Unlink
<1>2. CASE e \in Range(s)
  <2> DEFINE n == IndexOf(s, e)
             r == RemoveAt(s, n)
  <2>1. n \in 1..Len(s)
    BY <1>2, IndexOfProperties
  <2> HIDE DEF n
  <2>2. /\ r \in Seq(S) /\ Len(r) = Len(s) - 1 /\ Len(s) \in Nat
        /\ \A i \in 1..(Len(s) - 1) : r[i] = IF i < n THEN s[i] ELSE s[i + 1]
    BY <2>1, RemoveAtProperties
  <2> HIDE DEF r
  <2>3. /\ \A x : x \in Range(s) <=> \E k \in 1..Len(s) : x = s[k]
        /\ \A x : x \in Range(r) <=> \E k \in 1..Len(r) : x = r[k]
    BY <2>2, RangeSeq
  <2>4. ASSUME NEW k \in 1..Len(r) PROVE r[k] \in Range(s)
    <3>1. k \in 1..Len(s) /\ k + 1 \in 1..Len(s) /\ k \in 1..(Len(s) - 1)
      BY <2>2
    <3> QED
      BY <2>2, <2>3, <3>1
  <2>5. Range(r) \subseteq Range(s)
    BY <2>3, <2>4
  <2> QED
    BY <1>2, <2>2, <2>5 DEF Unlink, r, n
<1> QED
  BY <1>1, <1>2
=============================================================================
