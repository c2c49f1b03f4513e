----------------------------- MODULE TtyProofs -----------------------------
(* The terminals keep their promise for any number of consoles, any sizes   *)
(* of the buffers and any keys.                                             *)
EXTENDS Tty, ListProofs, SequenceTheorems, FiniteSetTheorems

-----------------------------------------------------------------------------
(* The ring of cooked characters                                            *)

Char == Ch \cup {NUL}
Ring == [buf : [Index -> Char], f : Index, r : Index]

\* x % CBUF_SZ, for an x at most once round.
Wrap(x) == IF x < 0 THEN x + CBUF_SZ ELSE IF x < CBUF_SZ THEN x ELSE x - CBUF_SZ

\* Most steps are set reasoning: Zenon proves them, SMT is asked by name.
USE Zenon

\* The remainders in the indices of the ring.
LEMMA Modulo == \A x \in (0 - CBUF_SZ)..(2 * CBUF_SZ - 1) : x % CBUF_SZ = Wrap(x)
<1>1. CBUF_SZ \in Nat \ {0}
  BY TtyAssumption
<1>2. ASSUME NEW x \in (0 - CBUF_SZ)..(2 * CBUF_SZ - 1)
      PROVE  x % CBUF_SZ = Wrap(x)
  <2>1. x \in Int
    BY SMT, <1>1
  <2>2. CASE x < 0
    BY SMT, <1>1, <2>1, <2>2 DEF Wrap
  <2>3. CASE x >= 0 /\ x < CBUF_SZ
    BY SMT, <1>1, <2>1, <2>3 DEF Wrap
  <2>4. CASE x >= CBUF_SZ
    BY SMT, <1>1, <2>1, <2>4 DEF Wrap
  <2> QED
    BY SMT, <2>1, <1>1, <2>2, <2>3, <2>4
<1> QED
  BY <1>2

\* How places in the ring move with its ends.
LEMMA WrapFacts ==
    ASSUME NEW f \in Index, NEW r \in Index, NEW u \in Index, u = Wrap(r - f)
    PROVE  /\ \A m \in Nat : u + m < CBUF_SZ => Wrap(Wrap(r + m) - f) = u + m
           /\ \A k \in 1..CBUF_SZ : Wrap(Wrap(f + k - 1) - r) =
                 IF k <= u THEN CBUF_SZ - u + (k - 1) ELSE k - 1 - u
           /\ \A n \in 1..u : /\ Wrap(f + n) \in Index /\ Wrap(r - Wrap(f + n)) = u - n
                              /\ \A k \in 1..(u - n) : Wrap(Wrap(f + n) + k - 1) = Wrap(f + (n + k) - 1)
<1>0. CBUF_SZ \in Nat \ {0} /\ \A x \in Index : x \in Nat /\ x < CBUF_SZ
  BY SMT, TtyAssumption DEF Index
<1>1. u = IF r < f THEN r - f + CBUF_SZ ELSE r - f
  BY SMT, <1>0 DEF Wrap
<1>2. ASSUME NEW m \in Nat, u + m < CBUF_SZ PROVE Wrap(Wrap(r + m) - f) = u + m
  <2>1. Wrap(r + m) = IF r + m < CBUF_SZ THEN r + m ELSE r + m - CBUF_SZ
    BY SMT, <1>0 DEF Wrap
  <2>2. CASE r + m < CBUF_SZ
    BY SMT, <1>0, <1>1, <1>2, <2>1, <2>2 DEF Wrap
  <2>3. CASE ~(r + m < CBUF_SZ)
    BY SMT, <1>0, <1>1, <1>2, <2>1, <2>3 DEF Wrap
  <2> QED
    BY <2>2, <2>3
<1>3. ASSUME NEW k \in 1..CBUF_SZ
      PROVE  Wrap(Wrap(f + k - 1) - r) = IF k <= u THEN CBUF_SZ - u + (k - 1) ELSE k - 1 - u
  <2>1. Wrap(f + k - 1) = IF f + k - 1 < CBUF_SZ THEN f + k - 1 ELSE f + k - 1 - CBUF_SZ
    BY SMT, <1>0 DEF Wrap
  <2>2. CASE f + k - 1 < CBUF_SZ
    BY SMT, <1>0, <1>1, <2>1, <2>2 DEF Wrap
  <2>3. CASE ~(f + k - 1 < CBUF_SZ)
    BY SMT, <1>0, <1>1, <2>1, <2>3 DEF Wrap
  <2> QED
    BY <2>2, <2>3
<1>4. ASSUME NEW n \in 1..u
      PROVE  /\ Wrap(f + n) \in Index /\ Wrap(r - Wrap(f + n)) = u - n
             /\ \A k \in 1..(u - n) : Wrap(Wrap(f + n) + k - 1) = Wrap(f + (n + k) - 1)
  <2>0. n \in Nat /\ n <= u
    BY SMT, <1>0
  <2>1. Wrap(f + n) = IF f + n < CBUF_SZ THEN f + n ELSE f + n - CBUF_SZ
    BY SMT, <1>0, <2>0 DEF Wrap
  <2>2. Wrap(f + n) \in Index
    BY SMT, <1>0, <2>0, <2>1 DEF Index
  <2>3. CASE f + n < CBUF_SZ
    BY SMT, <1>0, <1>1, <2>0, <2>1, <2>2, <2>3 DEF Wrap
  <2>4. CASE ~(f + n < CBUF_SZ)
    BY SMT, <1>0, <1>1, <2>0, <2>1, <2>2, <2>4 DEF Wrap
  <2> QED
    BY <2>3, <2>4
<1> QED
  BY <1>2, <1>3, <1>4

\* What is in the ring, as a sequence.
LEMMA CookedProperties ==
    ASSUME NEW q \in Ring
    PROVE  /\ q.f \in Index /\ q.r \in Index /\ q.buf \in [Index -> Char]
           /\ Used(q) \in Index /\ Used(q) = Wrap(q.r - q.f)
           /\ Used(q) = 0 <=> q.f = q.r
           /\ Cooked(q) \in Seq(Char)
           /\ Len(Cooked(q)) = Used(q)
           /\ \A k \in 1..Used(q) : Cooked(q)[k] = q.buf[Wrap(q.f + k - 1)]
           /\ \A k \in 1..CBUF_SZ : (q.f + k - 1) % CBUF_SZ = Wrap(q.f + k - 1)
                                    /\ Wrap(q.f + k - 1) \in Index
<1>0. CBUF_SZ \in Nat \ {0}
  BY TtyAssumption
<1>1. q.f \in Index /\ q.r \in Index /\ q.buf \in [Index -> Char]
  BY DEF Ring
<1>2. q.r - q.f \in (0 - CBUF_SZ)..(2 * CBUF_SZ - 1)
  BY SMT, <1>0, <1>1 DEF Index
<1>3. Used(q) = Wrap(q.r - q.f)
  BY <1>2, Modulo DEF Used
<1>4. Used(q) \in Index /\ (Used(q) = 0 <=> q.f = q.r)
  BY SMT, <1>0, <1>1, <1>3 DEF Index, Wrap
<1>5. ASSUME NEW k \in 1..CBUF_SZ
      PROVE  /\ (q.f + k - 1) % CBUF_SZ = Wrap(q.f + k - 1)
             /\ Wrap(q.f + k - 1) \in Index
  <2>1. q.f + k - 1 \in (0 - CBUF_SZ)..(2 * CBUF_SZ - 1) /\ q.f + k - 1 >= 0
    BY SMT, <1>0, <1>1 DEF Index
  <2>2. (q.f + k - 1) % CBUF_SZ = Wrap(q.f + k - 1)
    BY <2>1, Modulo
  <2> QED
    BY SMT, <1>0, <2>1, <2>2 DEF Wrap, Index
<1>6. Used(q) \in Nat /\ \A k \in 1..Used(q) : k \in 1..CBUF_SZ
  BY SMT, <1>0, <1>4 DEF Index
<1> DEFINE e(k) == q.buf[(q.f + k - 1) % CBUF_SZ]
<1>7. \A k \in 1..Used(q) : e(k) \in Char /\ e(k) = q.buf[Wrap(q.f + k - 1)]
  BY <1>1, <1>5, <1>6
<1>8. Cooked(q) = [k \in 1..Used(q) |-> e(k)]
  BY DEF Cooked
<1> HIDE DEF e
<1>9. Cooked(q) \in Seq(Char) /\ Len(Cooked(q)) = Used(q)
  BY SMT, <1>6, <1>7, <1>8
<1>10. \A k \in 1..Used(q) : Cooked(q)[k] = q.buf[Wrap(q.f + k - 1)]
  BY <1>7, <1>8
<1> QED
  BY <1>1, <1>3, <1>4, <1>5, <1>9, <1>10

\* cook puts the line behind what is there.
LEMMA PutCooked ==
    ASSUME NEW q \in Ring, NEW s \in Seq(Char), Fits(q, s)
    PROVE  Put(q, s) \in Ring /\ Cooked(Put(q, s)) = Cooked(q) \o s
<1> DEFINE p == Put(q, s)
           n == Used(q)
           m == Len(s)
<1>0. CBUF_SZ \in Nat \ {0}
  BY TtyAssumption
<1>1. m \in Nat /\ \A k \in 1..m : s[k] \in Char
  BY LenProperties, ElementOfSeq
<1>2. /\ q.f \in Index /\ q.r \in Index /\ q.buf \in [Index -> Char]
      /\ n \in Index /\ n = Wrap(q.r - q.f)
      /\ Cooked(q) \in Seq(Char) /\ Len(Cooked(q)) = n
      /\ \A k \in 1..n : Cooked(q)[k] = q.buf[Wrap(q.f + k - 1)]
      /\ \A k \in 1..CBUF_SZ : Wrap(q.f + k - 1) \in Index
  BY CookedProperties
<1>3. n + m < CBUF_SZ
  BY DEF Fits
<1> DEFINE b == [x \in Index |-> IF (x - q.r) % CBUF_SZ < m THEN s[((x - q.r) % CBUF_SZ) + 1] ELSE q.buf[x]]
<1>4. \A x \in Index : (x - q.r) % CBUF_SZ = Wrap(x - q.r) /\ Wrap(x - q.r) \in Index
  <2>1. \A x \in Index : x - q.r \in (0 - CBUF_SZ)..(2 * CBUF_SZ - 1)
    BY SMT, <1>0, <1>2 DEF Index
  <2>2. \A x \in Index : (x - q.r) % CBUF_SZ = Wrap(x - q.r)
    BY <2>1, Modulo
  <2>3. ASSUME NEW x \in Index
        PROVE  Wrap(x - q.r) \in Index
    <3>1. x \in Nat /\ x < CBUF_SZ /\ q.r \in Nat /\ q.r < CBUF_SZ
      BY SMT, <1>0, <1>2 DEF Index
    <3> QED
      BY SMT, <1>0, <3>1 DEF Index, Wrap
  <2> QED
    BY <2>2, <2>3
<1>5. \A x \in Index : b[x] = IF Wrap(x - q.r) < m THEN s[Wrap(x - q.r) + 1] ELSE q.buf[x]
  BY <1>4
<1>6. p = [q EXCEPT !.buf = b, !.r = (q.r + m) % CBUF_SZ]
  BY DEF Put
<1>7. (q.r + m) % CBUF_SZ = Wrap(q.r + m) /\ Wrap(q.r + m) \in Index
  <2>1. q.r + m \in (0 - CBUF_SZ)..(2 * CBUF_SZ - 1) /\ q.r + m >= 0
    BY SMTT(30), <1>0, <1>1, <1>2, <1>3 DEF Index
  <2>2. (q.r + m) % CBUF_SZ = Wrap(q.r + m)
    BY <2>1, Modulo
  <2> QED
    BY SMT, <1>0, <2>1, <2>2 DEF Wrap, Index
<1>8. b \in [Index -> Char]
  <2>1. ASSUME NEW x \in Index PROVE b[x] \in Char
    <3>1. CASE Wrap(x - q.r) < m
      <4>1. Wrap(x - q.r) + 1 \in 1..m
        BY SMTT(30), <1>0, <1>1, <1>4, <3>1 DEF Index
      <4> QED
        BY <1>1, <1>5, <3>1, <4>1
    <3>2. CASE ~(Wrap(x - q.r) < m)
      BY <1>2, <1>5, <3>2
    <3> QED
      BY <3>1, <3>2
  <2> QED
    BY <2>1
<1> HIDE DEF b
<1>9. p \in Ring /\ p.f = q.f /\ p.r = Wrap(q.r + m) /\ p.buf = b
  <2>1. q = [buf |-> q.buf, f |-> q.f, r |-> q.r]
    BY DEF Ring
  <2>2. p = [buf |-> b, f |-> q.f, r |-> Wrap(q.r + m)]
    BY <1>6, <1>7, <2>1
  <2> QED
    BY SMT, <1>2, <1>7, <1>8, <2>2 DEF Ring
<1> HIDE DEF p
<1>10. /\ Used(p) = Wrap(p.r - p.f)
       /\ Cooked(p) \in Seq(Char) /\ Len(Cooked(p)) = Used(p)
       /\ \A k \in 1..Used(p) : Cooked(p)[k] = p.buf[Wrap(p.f + k - 1)]
  BY <1>9, CookedProperties
<1>11. Used(p) = n + m
  <2>1. Wrap(Wrap(q.r + m) - q.f) = n + m
    BY SMT, <1>1, <1>2, <1>3, WrapFacts
  <2> QED
    BY <1>2, <1>9, <1>10, <2>1
<1>12. /\ Cooked(q) \o s \in Seq(Char) /\ Len(Cooked(q) \o s) = n + m
       /\ \A k \in 1..(n + m) :
             (Cooked(q) \o s)[k] = IF k <= n THEN Cooked(q)[k] ELSE s[k - n]
  <2>1. Cooked(q) \in Seq(Char) /\ Len(Cooked(q)) = n /\ s \in Seq(Char) /\ Len(s) = m
    BY <1>2
  <2> HIDE DEF n, m
  <2> QED
    BY <2>1, ConcatProperties
<1>13. ASSUME NEW k \in 1..(n + m) PROVE Cooked(p)[k] = (Cooked(q) \o s)[k]
  <2> DEFINE x == Wrap(q.f + k - 1)
  <2>1. k \in 1..CBUF_SZ /\ n \in Nat
    BY SMT, <1>0, <1>1, <1>2, <1>3 DEF Index
  <2>2. x \in Index
    BY <1>2, <2>1
  <2>3. Cooked(p)[k] = b[x]
    BY <1>9, <1>10, <1>11
  <2>4. CASE k <= n
    <3>0. Wrap(x - q.r) = CBUF_SZ - n + (k - 1)
      BY SMT, <1>2, <2>1, <2>4, WrapFacts
    <3>1. ~(Wrap(x - q.r) < m)
      BY SMT, <1>0, <1>1, <1>3, <2>1, <3>0
    <3>2. k \in 1..n
      BY SMT, <2>1, <2>4
    <3> HIDE DEF x
    <3>3. b[x] = q.buf[x]
      BY <1>5, <2>2, <3>1
    <3> QED
      BY <1>2, <1>12, <2>3, <2>4, <3>2, <3>3 DEF x
  <2>5. CASE ~(k <= n)
    <3>1. Wrap(x - q.r) = k - n - 1
      BY SMT, <1>2, <2>1, <2>5, WrapFacts
    <3>2. k - n - 1 < m /\ (k - n - 1) + 1 = k - n
      BY SMT, <1>1, <2>1, <2>5
    <3> HIDE DEF x
    <3>3. b[x] = s[k - n]
      BY <1>5, <2>2, <3>1, <3>2
    <3> QED
      BY <1>12, <2>3, <2>5, <3>3
  <2> QED
    BY <2>4, <2>5
<1> QED
  BY <1>9, <1>10, <1>11, <1>12, <1>13, SeqEqual DEF p

\* Every line in s is ended, and shorter than LBUF_SZ.
Lines(s) == \A j \in 1..Len(s) : \E n \in j..Len(s) : n < j + LBUF_SZ /\ s[n] = NUL

\* A line is entered into a ring of lines.
LEMMA LinesEntered ==
    ASSUME NEW s \in Seq(Char), Lines(s), NEW l \in Seq(Ch), Len(l) < LBUF_SZ
    PROVE  /\ Append(l, NUL) \in Seq(Char)
           /\ s \o Append(l, NUL) \in Seq(Char) /\ s \o Append(l, NUL) # <<>>
           /\ Lines(s \o Append(l, NUL))
<1> DEFINE e == Append(l, NUL)
           t == s \o e
<1>0. LBUF_SZ \in Nat \ {0}
  BY TtyAssumption
<1>1. l \in Seq(Char) /\ NUL \in Char
  BY SeqMonotonic DEF Char
<1>2. e \in Seq(Char) /\ Len(e) = Len(l) + 1 /\ e[Len(l) + 1] = NUL
  BY <1>1, AppendProperties
<1>3. Len(s) \in Nat /\ Len(l) \in Nat
  BY LenProperties
<1> HIDE DEF e
<1>4. /\ t \in Seq(Char) /\ Len(t) = Len(s) + Len(e)
      /\ \A k \in 1..(Len(s) + Len(e)) : t[k] = IF k <= Len(s) THEN s[k] ELSE e[k - Len(s)]
  BY <1>2, ConcatProperties
<1> HIDE DEF t
<1> DEFINE last == Len(s) + Len(l) + 1
<1>5. Len(t) = last /\ last \in 1..Len(t)
  BY SMT, <1>2, <1>3, <1>4
<1>6. t[last] = NUL
  <2>1. last \in 1..(Len(s) + Len(e)) /\ ~(last <= Len(s)) /\ last - Len(s) = Len(l) + 1
    BY SMT, <1>2, <1>3
  <2> HIDE DEF last
  <2> QED
    BY <1>2, <1>4, <2>1
<1>7. ASSUME NEW j \in 1..Len(t) PROVE \E n \in j..Len(t) : n < j + LBUF_SZ /\ t[n] = NUL
  <2>1. CASE j <= Len(s)
    <3>1. PICK n \in j..Len(s) : n < j + LBUF_SZ /\ s[n] = NUL
      BY SMT, <1>3, <1>5, <2>1 DEF Lines
    <3>2. n \in j..Len(t) /\ n \in 1..(Len(s) + Len(e)) /\ n <= Len(s)
      BY SMT, <1>2, <1>3, <1>5, <3>1
    <3> QED
      BY <1>4, <3>1, <3>2
  <2>2. CASE ~(j <= Len(s))
    <3>1. last \in j..Len(t) /\ last < j + LBUF_SZ
      BY SMT, <1>0, <1>3, <1>5, <2>2
    <3> QED
      BY <1>6, <3>1
  <2> QED
    BY <2>1, <2>2
<1>8. t # <<>>
  BY SMT, <1>3, <1>5
<1> QED
  BY <1>2, <1>4, <1>7, <1>8 DEF Lines, e, t

\* get_cooked takes the first line and leaves the others.
LEMMA TakeCooked ==
    ASSUME NEW q \in Ring, Lines(Cooked(q)), q.f # q.r
    PROVE  LET a == get_cooked(q, READ_SZ)
               s == Cooked(q)
           IN  /\ a.ring \in Ring /\ Lines(Cooked(a.ring)) /\ a.text \in Seq(Nat)
               /\ \E n \in DOMAIN s :
                     /\ s[n] = NUL /\ \A k \in 1..(n - 1) : s[k] # NUL
                     /\ a.text = SubSeq(s, 1, n - 1)
                     /\ Cooked(a.ring) = SubSeq(s, n + 1, Len(s))
<1> DEFINE a == get_cooked(q, READ_SZ)
           s == Cooked(q)
           u == Used(q)
<1>0. /\ CBUF_SZ \in Nat \ {0} /\ LBUF_SZ \in Nat \ {0} /\ READ_SZ \in Nat \ {0}
      /\ LBUF_SZ <= READ_SZ
  BY TtyAssumption
<1>1. /\ q.f \in Index /\ q.r \in Index /\ q.buf \in [Index -> Char]
      /\ u \in Index /\ u = Wrap(q.r - q.f) /\ u # 0
      /\ s \in Seq(Char) /\ Len(s) = u
      /\ \A k \in 1..u : s[k] = q.buf[Wrap(q.f + k - 1)]
      /\ \A k \in 1..CBUF_SZ : (q.f + k - 1) % CBUF_SZ = Wrap(q.f + k - 1)
  BY CookedProperties
<1> HIDE DEF s, u
<1>2. u \in Nat /\ u > 0 /\ u < CBUF_SZ /\ DOMAIN s = 1..u
  BY SMT, <1>0, <1>1, LenProperties DEF Index
<1>3. \A k \in 1..u : s[k] = q.buf[(q.f + k - 1) % CBUF_SZ] /\ s[k] \in Char
  <2>1. \A k \in 1..u : k \in 1..CBUF_SZ
    BY SMT, <1>0, <1>2
  <2> QED
    BY <1>1, <2>1, ElementOfSeq
<1> DEFINE Ends == {k \in 1..u : s[k] = NUL}
<1>4. PICK n \in Ends : \A k \in Ends : n <= k
  <2>1. Ends \in SUBSET Nat
    BY SMT, <1>2
  <2>2. Ends # {}
    BY SMT, <1>1, <1>2 DEF Lines, s
  <2> HIDE DEF Ends
  <2> QED
    BY <2>1, <2>2, Least
<1>5. n \in 1..u /\ s[n] = NUL /\ n <= READ_SZ /\ \A k \in 1..(n - 1) : k \in 1..u /\ s[k] # NUL
  <2>1. n \in 1..u /\ s[n] = NUL
    BY <1>4
  <2>2. ASSUME NEW k \in 1..(n - 1) PROVE k \in 1..u /\ s[k] # NUL
    <3>1. k \in 1..u /\ ~(n <= k)
      BY SMT, <1>2, <2>1
    <3> QED
      BY <1>4, <3>1
  <2>3. PICK j \in 1..u : j < 1 + LBUF_SZ /\ s[j] = NUL
    <3>1. 1 \in 1..Len(s) /\ Lines(s)
      BY SMT, <1>1, <1>2 DEF s
    <3>2. \E j \in 1..Len(s) : j < 1 + LBUF_SZ /\ s[j] = NUL
      BY <3>1 DEF Lines
    <3> QED
      BY <1>1, <3>2
  <2>4. n <= j
    BY <1>4, <2>3
  <2> QED
    BY SMT, <1>0, <1>2, <2>1, <2>2, <2>3, <2>4
<1>6. nread(q, READ_SZ) = n - 1
  <2> DEFINE S == Stops(q, READ_SZ)
  <2>1. \A k \in 0..(READ_SZ - 1) : (q.f + (k + 1) - 1) % CBUF_SZ = (q.f + k) % CBUF_SZ
    <3>1. \A k \in 0..(READ_SZ - 1) : q.f + (k + 1) - 1 = q.f + k
      BY SMT, <1>0, <1>1 DEF Index
    <3> QED
      BY <3>1
  <2>2. n - 1 \in S
    <3>1. n - 1 \in 0..(READ_SZ - 1) /\ (n - 1) + 1 = n
      BY SMT, <1>0, <1>2, <1>5
    <3>2. q.buf[(q.f + (n - 1)) % CBUF_SZ] = s[n]
      BY <1>3, <1>5, <2>1, <3>1
    <3> QED
      BY <1>5, <3>1, <3>2 DEF Stops
  <2>3. ASSUME NEW k \in S PROVE n - 1 <= k
    <3>1. k \in 0..(READ_SZ - 1) /\ q.buf[(q.f + k) % CBUF_SZ] = NUL
      BY DEF Stops
    <3>2. k \in Nat
      BY SMT, <1>0, <3>1
    <3>3. SUFFICES ASSUME k < n - 1 PROVE FALSE
      BY SMT, <1>2, <1>5, <3>2
    <3>4. k + 1 \in 1..(n - 1) /\ k + 1 \in 1..u
      BY SMT, <1>2, <1>5, <3>2, <3>3
    <3>5. s[k + 1] = q.buf[(q.f + k) % CBUF_SZ]
      BY <1>3, <2>1, <3>1, <3>4
    <3> QED
      BY <1>5, <3>1, <3>4, <3>5
  <2>4. \A x \in S : (\A y \in S : x <= y) => x = n - 1
    <3>1. \A x \in S : x \in Int
      BY SMT, <1>0 DEF Stops
    <3> HIDE DEF S
    <3>2. n - 1 \in Int
      BY <2>2, <3>1
    <3> QED
      BY SMT, <2>2, <2>3, <3>1, <3>2
  <2>5. Min(S) = n - 1
    <3> HIDE DEF S
    <3> QED
      BY <2>2, <2>3, <2>4 DEF Min
  <2> QED
    BY <2>2, <2>5 DEF nread
<1> DEFINE txt == [k \in 1..(n - 1) |-> q.buf[(q.f + k - 1) % CBUF_SZ]]
           g == Wrap(q.f + n)
           q2 == [buf |-> q.buf, f |-> g, r |-> q.r]
<1>7. a.text = txt /\ a.ring = q2
  <2>1. n - 1 < READ_SZ /\ (n - 1) + 1 = n
    BY SMT, <1>0, <1>2, <1>5
  <2>2. (q.f + n) % CBUF_SZ = g
    <3>0. q.f \in Nat /\ q.f < CBUF_SZ /\ n \in Nat /\ n < CBUF_SZ
      BY SMT, <1>0, <1>1, <1>2, <1>5 DEF Index
    <3>1. q.f + n \in (0 - CBUF_SZ)..(2 * CBUF_SZ - 1)
      BY SMT, <1>0, <3>0
    <3> QED
      BY <3>1, Modulo
  <2>3. [q EXCEPT !.f = g] = q2
    BY SMT DEF Ring
  <2> HIDE DEF g, q2
  <2>4. a = [text |-> txt, ring |-> [q EXCEPT !.f = g]]
    BY <1>6, <2>1, <2>2 DEF get_cooked
  <2> QED
    BY SMT, <2>3, <2>4
<1>8. g \in Index /\ Wrap(q.r - g) = u - n
      /\ \A k \in 1..(u - n) : Wrap(g + k - 1) = Wrap(q.f + (n + k) - 1)
  BY SMT, <1>1, <1>5, WrapFacts
<1> HIDE DEF g, a
<1>9. txt = SubSeq(s, 1, n - 1) /\ txt \in Seq(Nat)
  <2>1. \A k \in 1..(n - 1) : txt[k] = s[k] /\ s[k] \in Nat
    BY <1>3, <1>5, TtyAssumption DEF Char
  <2>2. txt \in Seq(Nat) /\ Len(txt) = n - 1
    BY SMTT(30), <1>2, <1>5, <2>1
  <2> DEFINE b == SubSeq(s, 1, n - 1)
  <2>3. /\ b \in Seq(Nat) /\ Len(b) = (IF 1 <= n - 1 THEN (n - 1) - 1 + 1 ELSE 0)
        /\ \A k \in 1..((n - 1) - 1 + 1) : b[k] = s[1 + k - 1]
    <3>1. 1 \in Int /\ n - 1 \in Int /\ \A k \in 1..(n - 1) : s[k] \in Nat
      BY SMT, <1>2, <1>5, <2>1
    <3> HIDE DEF b
    <3> QED
      BY SMT, <3>1, SubSeqProperties DEF b
  <2> HIDE DEF b, txt
  <2>4. Len(b) = n - 1 /\ \A k \in 1..(n - 1) : b[k] = s[k]
    BY SMT, <1>2, <1>5, <2>3
  <2>5. \A k \in 1..Len(txt) : txt[k] = b[k]
    BY <2>1, <2>2, <2>4
  <2>6. txt = b
    BY <2>2, <2>3, <2>4, <2>5, SeqEqual
  <2> QED
    BY <2>2, <2>6 DEF b
<1> HIDE DEF txt
<1>10. q2 \in Ring /\ q2.f = g /\ q2.r = q.r /\ q2.buf = q.buf
  BY <1>1, <1>8 DEF Ring
<1> HIDE DEF q2
<1> DEFINE w == SubSeq(s, n + 1, u)
<1>11. w \in Seq(Char) /\ Len(w) = u - n /\ \A k \in 1..(u - n) : w[k] = s[n + k]
  <2>1. n + 1 \in Int /\ u \in Int /\ \A k \in (n + 1)..u : s[k] \in Char
    BY SMT, <1>2, <1>3, <1>5
  <2> HIDE DEF w
  <2>2. /\ w \in Seq(Char) /\ Len(w) = (IF n + 1 <= u THEN u - (n + 1) + 1 ELSE 0)
        /\ \A k \in 1..(u - (n + 1) + 1) : w[k] = s[n + 1 + k - 1]
    BY SMT, <2>1, SubSeqProperties DEF w
  <2>3. u - (n + 1) + 1 = u - n /\ Len(w) = u - n
    BY SMT, <1>2, <1>5, <2>2
  <2>4. \A k \in 1..(u - n) : n + 1 + k - 1 = n + k
    BY SMT, <1>2, <1>5
  <2> QED
    BY <2>2, <2>3, <2>4
<1> HIDE DEF w
<1>12. Cooked(q2) = w
  <2>1. /\ Cooked(q2) \in Seq(Char) /\ Len(Cooked(q2)) = Used(q2)
        /\ Used(q2) = Wrap(q2.r - q2.f)
        /\ \A k \in 1..Used(q2) : Cooked(q2)[k] = q2.buf[Wrap(q2.f + k - 1)]
    BY <1>10, CookedProperties
  <2>2. Used(q2) = u - n
    BY <1>8, <1>10, <2>1
  <2>3. ASSUME NEW k \in 1..(u - n) PROVE Cooked(q2)[k] = w[k]
    <3>1. n + k \in 1..u
      BY SMT, <1>2, <1>5
    <3>2. w[k] = q.buf[Wrap(q.f + (n + k) - 1)]
      BY <1>1, <1>11, <3>1
    <3> QED
      BY <1>8, <1>10, <2>1, <2>2, <3>2
  <2> QED
    BY SMT, <1>11, <2>1, <2>2, <2>3, SeqEqual
<1>13. Lines(w)
  <2> SUFFICES ASSUME NEW j \in 1..(u - n)
               PROVE  \E m \in j..(u - n) : m < j + LBUF_SZ /\ w[m] = NUL
    BY <1>11 DEF Lines
  <2>1. n + j \in 1..u
    BY SMT, <1>2, <1>5
  <2>2. PICK m \in (n + j)..u : m < (n + j) + LBUF_SZ /\ s[m] = NUL
    BY <1>1, <2>1 DEF Lines, s
  <2>3. m - n \in j..(u - n) /\ m - n < j + LBUF_SZ /\ n + (m - n) = m /\ m - n \in 1..(u - n)
    BY SMT, <1>0, <1>2, <1>5, <2>2
  <2> QED
    BY <1>11, <2>2, <2>3
<1>14. n \in DOMAIN s
  BY <1>2, <1>5
<1>15. Cooked(a.ring) = SubSeq(s, n + 1, Len(s)) /\ a.text = SubSeq(s, 1, n - 1)
  BY <1>1, <1>7, <1>9, <1>12 DEF w
<1>16. a.ring \in Ring /\ Lines(Cooked(a.ring)) /\ a.text \in Seq(Nat)
  BY <1>7, <1>9, <1>10, <1>12, <1>13
<1> QED
  BY <1>5, <1>14, <1>15, <1>16 DEF a, s

-----------------------------------------------------------------------------
(* The invariant                                                            *)

Request == {"DEV_READ", "DEV_WRITE"}
Mail == [type : {"GETKEY", "UPDATE"} \cup Request, dev : Console]

\* The line of a console ends, and its cursor is, within the buffer.
LineInv ==
    /\ focus \in Console
    /\ lbuf \in [Console -> Seq(Ch)] /\ i \in [Console -> Nat]
    /\ \A c \in Console : i[c] <= Len(lbuf[c]) /\ Len(lbuf[c]) < LBUF_SZ

\* What the rings hold are lines.
RingInv == ring \in [Console -> Ring] /\ \A c \in Console : Lines(Cooked(ring[c]))

\* The controller's interrupt and the mailbox: OneMessagePerKey without counting.
KeyInv ==
    /\ inbox \in Seq(Mail)
    /\ kbd \in BOOLEAN
    /\ \A j, k \in 1..Len(inbox) : inbox[j].type = "GETKEY" /\ inbox[k].type = "GETKEY" => j = k
    /\ kbd <=> \E k \in 1..Len(inbox) : inbox[k].type = "GETKEY"

\* A getty has one request in the mailbox, or is on the stack of its console and no
\* other, or runs; and it is on the stack only while there is nothing to read.
RequestUnique ==
    \A j, k \in 1..Len(inbox) :
        inbox[j].type \in Request /\ inbox[k].type \in Request /\ inbox[j].dev = inbox[k].dev => j = k
RequestWaits ==
    \A k \in 1..Len(inbox) :
        /\ inbox[k].type = "DEV_READ" => gpc[inbox[k].dev] = "reading" /\ rstk[inbox[k].dev] = <<>>
        /\ inbox[k].type = "DEV_WRITE" => gpc[inbox[k].dev] \in {"writing", "newlining"}
StackWaits ==
    \A c \in Console : rstk[c] # <<>> =>
        rstk[c] = <<c>> /\ gpc[c] = "reading" /\ ring[c].f = ring[c].r
GettyTypes ==
    /\ rstk \in [Console -> Seq(Console)]
    /\ gpc \in [Console -> {"read", "reading", "write", "writing", "newline", "newlining"}]
    /\ buf \in [Console -> Seq(Nat)]
    /\ panic # "too many read request"
GettyInv == GettyTypes /\ RequestUnique /\ RequestWaits /\ StackWaits

TtyInv == LineInv /\ RingInv /\ KeyInv /\ GettyInv

\* A message is sent to ttyd.
LEMMA Enqueue ==
    ASSUME inbox \in Seq(Mail), NEW m \in Mail, inbox' = Append(inbox, m)
    PROVE  /\ inbox' \in Seq(Mail) /\ Len(inbox) + 1 \in 1..Len(inbox')
           /\ inbox'[Len(inbox) + 1] = m
           /\ \A k \in 1..Len(inbox) : k \in 1..Len(inbox') /\ inbox'[k] = inbox[k]
           /\ \A k \in 1..Len(inbox') : k = Len(inbox) + 1 \/ k \in 1..Len(inbox)
<1>1. /\ inbox' \in Seq(Mail) /\ Len(inbox') = Len(inbox) + 1 /\ Len(inbox) \in Nat
      /\ \A k \in 1..Len(inbox) : inbox'[k] = inbox[k]
      /\ inbox'[Len(inbox) + 1] = m
  BY SMT, AppendProperties, LenProperties
<1>2. /\ \A k \in 1..Len(inbox) : k \in 1..Len(inbox')
      /\ \A k \in 1..Len(inbox') : k = Len(inbox) + 1 \/ k \in 1..Len(inbox)
      /\ Len(inbox) + 1 \in 1..Len(inbox')
  BY SMT, <1>1
<1> QED
  BY <1>1, <1>2

\* ttyd takes the first message.
LEMMA Dequeue ==
    ASSUME inbox \in Seq(Mail), inbox # <<>>, inbox' = Tail(inbox)
    PROVE  /\ inbox' \in Seq(Mail) /\ 1 \in 1..Len(inbox) /\ Head(inbox) = inbox[1]
           /\ Head(inbox) \in Mail
           /\ \A k \in 1..Len(inbox') : k + 1 \in 1..Len(inbox) /\ k + 1 # 1 /\ inbox'[k] = inbox[k + 1]
           /\ \A j, k \in 1..Len(inbox') : j + 1 = k + 1 => j = k
           /\ \A k \in 1..Len(inbox) : k = 1 \/ \E j \in 1..Len(inbox') : inbox'[j] = inbox[k]
<1>1. /\ inbox' \in Seq(Mail) /\ Len(inbox') = Len(inbox) - 1
      /\ \A k \in 1..Len(inbox') : inbox'[k] = inbox[k + 1]
  BY HeadTailProperties
<1>2. Head(inbox) \in Mail /\ Head(inbox) = inbox[1] /\ 1 \in 1..Len(inbox)
  BY HeadInRange
<1>3. Len(inbox) \in Nat
  BY LenProperties
<1>4. /\ \A k \in 1..Len(inbox') : k + 1 \in 1..Len(inbox) /\ k + 1 # 1
      /\ \A j, k \in 1..Len(inbox') : j + 1 = k + 1 => j = k
  BY SMT, <1>1, <1>3
<1>5. ASSUME NEW k \in 1..Len(inbox), k # 1 PROVE \E j \in 1..Len(inbox') : inbox'[j] = inbox[k]
  <2>1. k - 1 \in 1..Len(inbox') /\ (k - 1) + 1 = k
    BY SMT, <1>1, <1>3, <1>5
  <2> QED
    BY <1>1, <2>1
<1> QED
  BY <1>1, <1>2, <1>4, <1>5

\* The first console exists.
LEMMA ZeroConsole == 0 \in Console
  BY SMT, TtyAssumption DEF Console

\* What a step does to the mailbox and the controller.
KeySent == ~kbd /\ kbd' = TRUE /\ inbox' = Append(inbox, Msg("GETKEY", 0))
OtherSent == \E m \in Mail : m.type # "GETKEY" /\ inbox' = Append(inbox, m) /\ kbd' = kbd
Taken(type) == inbox # <<>> /\ Head(inbox).type = type /\ inbox' = Tail(inbox)
KeyTaken == Taken("GETKEY") /\ kbd' = FALSE
OtherTaken == inbox # <<>> /\ Head(inbox).type # "GETKEY" /\ inbox' = Tail(inbox) /\ kbd' = kbd

\* What a step does to the driver's mailbox.
LEMMA MailSteps ==
    ASSUME Next
    PROVE  KeySent \/ OtherSent \/ KeyTaken \/ OtherTaken
<1>0. \A g \in Console : {Msg("GETKEY", 0), Msg("UPDATE", 0), Msg("DEV_READ", g), Msg("DEV_WRITE", g)} \subseteq Mail
  BY SMT, ZeroConsole DEF Mail, Msg, Request
<1>1. CASE send_keymsg
  BY <1>1 DEF send_keymsg, KeySent
<1>2. CASE send_updatemsg
  <2>1. Msg("UPDATE", 0) \in Mail /\ Msg("UPDATE", 0).type # "GETKEY"
    BY <1>0, ZeroConsole DEF Msg
  <2> QED
    BY <1>2, <2>1 DEF send_updatemsg, OtherSent
<1>3. ASSUME NEW g \in Console, getty(g) PROVE OtherSent
  <2>1. /\ Msg("DEV_READ", g) \in Mail /\ Msg("DEV_READ", g).type # "GETKEY"
        /\ Msg("DEV_WRITE", g) \in Mail /\ Msg("DEV_WRITE", g).type # "GETKEY"
    BY <1>0 DEF Msg
  <2>2. \E m \in {Msg("DEV_READ", g), Msg("DEV_WRITE", g)} : inbox' = Append(inbox, m) /\ kbd' = kbd
    BY <1>3 DEF getty, getty_read, getty_write, getty_newline, request
  <2> QED
    BY <2>1, <2>2 DEF OtherSent
<1>4. CASE update_banner \/ read_request \/ write_request
  BY <1>4 DEF update_banner, read_request, write_request, ttyd, OtherTaken
<1>5. CASE readkey
  BY <1>5 DEF readkey, KeyTaken, Taken
<1>6. CASE ttyd_thread
  BY <1>4, <1>5, <1>6 DEF ttyd_thread, consl_accept, feed_BACK, feed_DEL, feed_LEFT, feed_RIGHT,
                         feed_HOME, feed_END, feed_F, cook, reboot, no_key
<1> QED
  BY <1>1, <1>2, <1>3, <1>6 DEF Next

\* No key is announced twice.
LEMMA KeyStep == KeyInv /\ [Next]_vars => KeyInv'
<1> SUFFICES ASSUME KeyInv, [Next]_vars PROVE KeyInv'
  OBVIOUS
<1>0. inbox \in Seq(Mail) /\ Len(inbox) \in Nat
  BY LenProperties DEF KeyInv
<1>1. CASE UNCHANGED vars
  BY <1>1 DEF vars, KeyInv
<1>2. CASE KeySent
  <2>1. Msg("GETKEY", 0) \in Mail /\ Msg("GETKEY", 0).type = "GETKEY"
    BY ZeroConsole DEF Mail, Msg
  <2>2. /\ inbox' \in Seq(Mail) /\ Len(inbox) + 1 \in 1..Len(inbox')
        /\ inbox'[Len(inbox) + 1] = Msg("GETKEY", 0)
        /\ \A k \in 1..Len(inbox) : k \in 1..Len(inbox') /\ inbox'[k] = inbox[k]
        /\ \A k \in 1..Len(inbox') : k = Len(inbox) + 1 \/ k \in 1..Len(inbox)
    BY <1>0, <1>2, <2>1, Enqueue DEF KeySent
  <2> QED
    BY <1>2, <2>1, <2>2 DEF KeySent, KeyInv
<1>3. CASE OtherSent
  <2>1. PICK m \in Mail : m.type # "GETKEY" /\ inbox' = Append(inbox, m) /\ kbd' = kbd
    BY <1>3 DEF OtherSent
  <2>2. /\ inbox' \in Seq(Mail) /\ inbox'[Len(inbox) + 1] = m
        /\ \A k \in 1..Len(inbox) : k \in 1..Len(inbox') /\ inbox'[k] = inbox[k]
        /\ \A k \in 1..Len(inbox') : k = Len(inbox) + 1 \/ k \in 1..Len(inbox)
    BY <1>0, <2>1, Enqueue
  <2> QED
    BY SMT, <2>1, <2>2 DEF KeyInv
<1>4. ASSUME inbox # <<>>, inbox' = Tail(inbox)
      PROVE  /\ inbox' \in Seq(Mail) /\ 1 \in 1..Len(inbox) /\ Head(inbox) = inbox[1]
             /\ \A k \in 1..Len(inbox') : k + 1 \in 1..Len(inbox) /\ k + 1 # 1 /\ inbox'[k] = inbox[k + 1]
             /\ \A j, k \in 1..Len(inbox') : j + 1 = k + 1 => j = k
             /\ \A k \in 1..Len(inbox) : k = 1 \/ \E j \in 1..Len(inbox') : inbox'[j] = inbox[k]
  BY <1>0, <1>4, Dequeue
<1>5. CASE KeyTaken
  <2>1. \A k \in 1..Len(inbox') : inbox'[k].type # "GETKEY"
    BY SMTT(30), <1>4, <1>5 DEF KeyTaken, Taken, KeyInv
  <2> QED
    BY <1>4, <1>5, <2>1 DEF KeyTaken, Taken, KeyInv
<1>6. CASE OtherTaken
  <2>1. \A j, k \in 1..Len(inbox') :
            inbox'[j].type = "GETKEY" /\ inbox'[k].type = "GETKEY" => j + 1 = k + 1
    <3> SUFFICES ASSUME NEW j \in 1..Len(inbox'), NEW k \in 1..Len(inbox'),
                        inbox'[j].type = "GETKEY", inbox'[k].type = "GETKEY"
                 PROVE  j + 1 = k + 1
      OBVIOUS
    <3>1. /\ j + 1 \in 1..Len(inbox) /\ inbox[j + 1].type = "GETKEY"
          /\ k + 1 \in 1..Len(inbox) /\ inbox[k + 1].type = "GETKEY"
      BY <1>4, <1>6 DEF OtherTaken
    <3> QED
      BY <3>1 DEF KeyInv
  <2>2. (\E k \in 1..Len(inbox') : inbox'[k].type = "GETKEY")
           <=> \E k \in 1..Len(inbox) : inbox[k].type = "GETKEY"
    <3>1. ASSUME NEW k \in 1..Len(inbox'), inbox'[k].type = "GETKEY"
          PROVE  \E j \in 1..Len(inbox) : inbox[j].type = "GETKEY"
      BY SMT, <1>4, <1>6, <3>1 DEF OtherTaken
    <3>2. ASSUME NEW k \in 1..Len(inbox), inbox[k].type = "GETKEY"
          PROVE  \E j \in 1..Len(inbox') : inbox'[j].type = "GETKEY"
      BY ZenonT(30), <1>4, <1>6, <3>2 DEF OtherTaken
    <3> QED
      BY <3>1, <3>2
  <2> QED
    BY SMT, <1>4, <1>6, <2>1, <2>2 DEF OtherTaken, KeyInv
<1> QED
  BY <1>1, <1>2, <1>3, <1>5, <1>6, MailSteps

\* No message of getty c is in the mailbox.
Absent(c) == \A k \in 1..Len(inbox) : inbox[k].type \in Request => inbox[k].dev # c

\* A getty that asks for nothing, or is on the stack, has no request in the mailbox.
LEMMA AbsentWhen ==
    ASSUME GettyInv, NEW c \in Console,
           gpc[c] \notin {"reading", "writing", "newlining"} \/ rstk[c] # <<>>
    PROVE  Absent(c)
  BY DEF GettyInv, RequestWaits, StackWaits, Absent, Request

\* ttyd takes a message; getty c changes and has none in the mailbox afterwards.
LEMMA GettyTaken ==
    ASSUME KeyInv, GettyInv, NEW c \in Console, inbox # <<>>, inbox' = Tail(inbox),
           Head(inbox).type \in Request => Head(inbox).dev = c,
           Head(inbox).type \notin Request => Absent(c),
           \A d \in Console \ {c} : gpc'[d] = gpc[d] /\ rstk'[d] = rstk[d] /\ ring'[d] = ring[d],
           rstk'[c] # <<>> => rstk'[c] = <<c>> /\ gpc'[c] = "reading" /\ ring'[c].f = ring'[c].r,
           GettyTypes'
    PROVE  GettyInv'
<1>1. /\ inbox' \in Seq(Mail) /\ 1 \in 1..Len(inbox) /\ Head(inbox) = inbox[1]
      /\ \A k \in 1..Len(inbox') : k + 1 \in 1..Len(inbox) /\ k + 1 # 1 /\ inbox'[k] = inbox[k + 1]
      /\ \A j, k \in 1..Len(inbox') : j + 1 = k + 1 => j = k
  BY Dequeue DEF KeyInv
<1>2. ASSUME NEW k \in 1..Len(inbox'), inbox'[k].type \in Request
      PROVE  inbox'[k].dev \in Console \ {c}
  <2>0. inbox'[k] \in Mail
    BY <1>1, ElementOfSeq
  <2>1. inbox'[k].dev \in Console
    BY <2>0 DEF Mail
  <2>2. CASE Head(inbox).type \in Request
    BY SMT, <1>1, <1>2, <2>1, <2>2 DEF GettyInv, RequestUnique
  <2>3. CASE Head(inbox).type \notin Request
    BY SMT, <1>1, <1>2, <2>1, <2>3 DEF Absent
  <2> QED
    BY <2>2, <2>3
<1>3. RequestUnique'
  <2> SUFFICES ASSUME NEW j \in 1..Len(inbox'), NEW k \in 1..Len(inbox'),
                      inbox'[j].type \in Request, inbox'[k].type \in Request,
                      inbox'[j].dev = inbox'[k].dev
               PROVE  j = k
    BY DEF RequestUnique
  <2>1. j + 1 = k + 1
    BY SMT, <1>1 DEF GettyInv, RequestUnique
  <2> QED
    BY <1>1, <2>1
<1>4. RequestWaits'
  <2> SUFFICES ASSUME NEW k \in 1..Len(inbox'), inbox'[k].type \in Request
               PROVE  /\ inbox'[k].type = "DEV_READ" =>
                            gpc'[inbox'[k].dev] = "reading" /\ rstk'[inbox'[k].dev] = <<>>
                      /\ inbox'[k].type = "DEV_WRITE" => gpc'[inbox'[k].dev] \in {"writing", "newlining"}
    BY DEF RequestWaits, Request
  <2>1. /\ inbox'[k].type = "DEV_READ" => gpc[inbox'[k].dev] = "reading" /\ rstk[inbox'[k].dev] = <<>>
        /\ inbox'[k].type = "DEV_WRITE" => gpc[inbox'[k].dev] \in {"writing", "newlining"}
    BY SMT, <1>1 DEF GettyInv, RequestWaits
  <2> QED
    BY <1>2, <2>1
<1>5. StackWaits'
  BY DEF GettyInv, StackWaits
<1> QED
  BY <1>3, <1>4, <1>5 DEF GettyInv

\* A message that is no getty's comes or goes.
LEMMA MailQuiet ==
    ASSUME KeyInv, GettyInv, UNCHANGED <<rstk, gpc>>,
           \/ \E m \in Mail : m.type \notin Request /\ inbox' = Append(inbox, m)
           \/ inbox # <<>> /\ inbox' = Tail(inbox)
    PROVE  RequestUnique' /\ RequestWaits'
<1>0. inbox \in Seq(Mail)
  BY DEF KeyInv
<1>1. CASE \E m \in Mail : m.type \notin Request /\ inbox' = Append(inbox, m)
  <2>1. PICK m \in Mail : m.type \notin Request /\ inbox' = Append(inbox, m)
    BY <1>1
  <2>2. \A k \in 1..Len(inbox') : inbox'[k].type \in Request => k \in 1..Len(inbox) /\ inbox'[k] = inbox[k]
    BY <1>0, <2>1, Enqueue
  <2>3. RequestUnique'
    BY <2>2 DEF GettyInv, RequestUnique
  <2>4. RequestWaits'
    BY <2>2 DEF GettyInv, RequestWaits, Request
  <2> QED
    BY <2>3, <2>4
<1>2. CASE inbox # <<>> /\ inbox' = Tail(inbox)
  <2>1. /\ \A k \in 1..Len(inbox') : k + 1 \in 1..Len(inbox) /\ inbox'[k] = inbox[k + 1]
        /\ \A j, k \in 1..Len(inbox') : j + 1 = k + 1 => j = k
    BY <1>0, <1>2, Dequeue
  <2>2. RequestUnique'
    <3> SUFFICES ASSUME NEW j \in 1..Len(inbox'), NEW k \in 1..Len(inbox'),
                        inbox'[j].type \in Request, inbox'[k].type \in Request,
                        inbox'[j].dev = inbox'[k].dev
                 PROVE  j = k
      BY DEF RequestUnique
    <3>1. j + 1 = k + 1
      BY <2>1 DEF GettyInv, RequestUnique
    <3> QED
      BY <2>1, <3>1
  <2>3. RequestWaits'
    BY SMT, <2>1 DEF GettyInv, RequestWaits
  <2> QED
    BY <2>2, <2>3
<1> QED
  BY <1>1, <1>2

\* Messages that are no requests do not concern the gettys.
LEMMA GettyQuiet ==
    ASSUME KeyInv, GettyInv, UNCHANGED <<ring, rstk, gpc, buf>>, panic' # "too many read request",
           \/ \E m \in Mail : m.type \notin Request /\ inbox' = Append(inbox, m)
           \/ inbox # <<>> /\ inbox' = Tail(inbox)
    PROVE  GettyInv'
<1>1. GettyTypes' /\ StackWaits'
  BY DEF GettyInv, GettyTypes, StackWaits
<1> QED
  BY <1>1, MailQuiet DEF GettyInv

\* Getty g sends a request and waits.
LEMMA GettySends ==
    ASSUME KeyInv, GettyInv, NEW g \in Console, NEW type \in Request,
           gpc[g] \in {"read", "write", "newline"}, inbox' = Append(inbox, Msg(type, g)),
           type = "DEV_READ" => gpc'[g] = "reading",
           type = "DEV_WRITE" => gpc'[g] \in {"writing", "newlining"},
           \A d \in Console \ {g} : gpc'[d] = gpc[d],
           UNCHANGED <<ring, rstk>>, GettyTypes'
    PROVE  GettyInv'
<1>0. inbox \in Seq(Mail) /\ Msg(type, g) \in Mail /\ Msg(type, g).type = type /\ Msg(type, g).dev = g
  BY DEF KeyInv, Mail, Msg
<1>1. /\ inbox' \in Seq(Mail) /\ inbox'[Len(inbox) + 1] = Msg(type, g)
      /\ \A k \in 1..Len(inbox) : inbox'[k] = inbox[k]
      /\ \A k \in 1..Len(inbox') : k = Len(inbox) + 1 \/ k \in 1..Len(inbox)
  BY <1>0, Enqueue
<1>2. Absent(g) /\ rstk[g] = <<>>
  BY AbsentWhen DEF GettyInv, StackWaits
<1>3. RequestUnique'
  BY SMT, <1>0, <1>1, <1>2 DEF GettyInv, RequestUnique, Absent
<1>4. RequestWaits'
  <2> SUFFICES ASSUME NEW k \in 1..Len(inbox'), inbox'[k].type \in Request
               PROVE  /\ inbox'[k].type = "DEV_READ" =>
                            gpc'[inbox'[k].dev] = "reading" /\ rstk'[inbox'[k].dev] = <<>>
                      /\ inbox'[k].type = "DEV_WRITE" => gpc'[inbox'[k].dev] \in {"writing", "newlining"}
    BY DEF RequestWaits, Request
  <2>1. CASE k = Len(inbox) + 1
    BY <1>0, <1>1, <1>2, <2>1
  <2>2. CASE k \in 1..Len(inbox)
    <3>0. inbox'[k] = inbox[k] /\ inbox[k] \in Mail
      BY <1>0, <1>1, <2>2, ElementOfSeq
    <3>1. inbox'[k] = inbox[k] /\ inbox[k].dev \in Console \ {g}
      BY <1>2, <2>2, <3>0 DEF Absent, Mail
    <3> QED
      BY <2>2, <3>1 DEF GettyInv, RequestWaits
  <2> QED
    BY <1>1, <2>1, <2>2
<1>5. StackWaits'
  BY <1>2 DEF GettyInv, StackWaits
<1> QED
  BY <1>3, <1>4, <1>5 DEF GettyInv

-----------------------------------------------------------------------------
(* What each step is for the promise                                        *)

Refined == [Promise!TerminalNext]_(Promise!terminalVars)

\* InsertAt puts one element in.
LEMMA InsertAtProperties ==
    ASSUME NEW S, NEW s \in Seq(S), NEW n \in 0..Len(s), NEW e \in S
    PROVE  InsertAt(s, n + 1, e) \in Seq(S) /\ Len(InsertAt(s, n + 1, e)) = Len(s) + 1
<1> DEFINE a == SubSeq(s, 1, (n + 1) - 1)
           b == SubSeq(s, n + 1, Len(s))
<1>0. Len(s) \in Nat /\ \A k \in 1..Len(s) : s[k] \in S
  BY LenProperties, ElementOfSeq
<1>1. a \in Seq(S) /\ Len(a) = n
  <2>1. 1 \in Int /\ (n + 1) - 1 \in Int /\ \A k \in 1..((n + 1) - 1) : s[k] \in S
    BY SMT, <1>0
  <2> HIDE DEF a
  <2>2. a \in Seq(S) /\ Len(a) = IF 1 <= (n + 1) - 1 THEN ((n + 1) - 1) - 1 + 1 ELSE 0
    BY SMT, <2>1, SubSeqProperties DEF a
  <2> QED
    BY SMT, <1>0, <2>2
<1>2. b \in Seq(S) /\ Len(b) = Len(s) - n
  <2>1. n + 1 \in Int /\ Len(s) \in Int /\ \A k \in (n + 1)..Len(s) : s[k] \in S
    BY SMT, <1>0
  <2> HIDE DEF b
  <2>2. b \in Seq(S) /\ Len(b) = IF n + 1 <= Len(s) THEN Len(s) - (n + 1) + 1 ELSE 0
    BY SMT, <2>1, SubSeqProperties DEF b
  <2> QED
    BY SMT, <1>0, <2>2
<1> DEFINE x == <<e>>
           ax == a \o x
           axb == ax \o b
<1>3. x \in Seq(S) /\ Len(x) = 1
  BY SMT
<1>4. InsertAt(s, n + 1, e) = axb
  BY DEF InsertAt
<1> HIDE DEF a, b, x
<1>5. ax \in Seq(S) /\ Len(ax) = Len(a) + Len(x)
  BY <1>1, <1>3, ConcatProperties
<1> HIDE DEF ax
<1>6. axb \in Seq(S) /\ Len(axb) = Len(ax) + Len(b)
  BY <1>2, <1>5, ConcatProperties
<1> HIDE DEF axb
<1> QED
  BY SMT, <1>0, <1>1, <1>2, <1>3, <1>4, <1>5, <1>6

\* The promise's words for them.
LEMMA SameEdits ==
    /\ \A s, e : \A n \in Nat : Promise!Insert(s, n, e) = InsertAt(s, n + 1, e)
    /\ \A s, n : Promise!Remove(s, n) = RemoveAt(s, n)
<1>1. ASSUME NEW s, NEW e, NEW n \in Nat PROVE Promise!Insert(s, n, e) = InsertAt(s, n + 1, e)
  <2>1. (n + 1) - 1 = n
    BY SMT
  <2> QED
    BY <2>1, Zenon DEF InsertAt, Promise!Insert
<1> QED
  BY <1>1 DEF RemoveAt, Promise!Remove

\* The line in front.
LEMMA FrontLine ==
    ASSUME LineInv
    PROVE  /\ cur \in Seq(Ch) /\ Len(cur) \in Nat /\ Len(cur) < LBUF_SZ
           /\ pos \in 0..Len(cur) /\ pos \in Nat
  BY SMT, LenProperties DEF LineInv, cur, pos

\* An edited line still fits its buffer.
LEMMA EditLine ==
    ASSUME LineInv, NEW l \in Seq(Ch), NEW p \in 0..Len(l), Len(l) < LBUF_SZ, edit(l, p)
    PROVE  LineInv'
<1>1. Len(l) \in Nat
  BY LenProperties
<1> QED
  BY SMT, <1>1 DEF LineInv, edit

\* edit is the promise's Edit.
LEMMA EditMaps ==
    ASSUME NEW l, NEW p, edit(l, p)
    PROVE  Promise!Edit(l, p)
  BY DEF edit, Promise!Edit, gettyVars, Stage

\* The keys that edit the line.
LEMMA EditKeys ==
    ASSUME LineInv,
           consl_accept \/ feed_BACK \/ feed_DEL \/ feed_LEFT \/ feed_RIGHT \/ feed_HOME \/ feed_END,
           panic' = panic
    PROVE  /\ readkey /\ UNCHANGED <<ring, rstk, gpc, buf>>
           /\ LineInv' /\ Promise!TerminalNext
<1>0. /\ cur \in Seq(Ch) /\ Len(cur) \in Nat /\ Len(cur) < LBUF_SZ
      /\ pos \in 0..Len(cur) /\ pos \in Nat
  BY FrontLine
<1>1. cur = lbuf[focus] /\ pos = i[focus]
  BY DEF cur, pos
<1>2. ASSUME NEW l \in Seq(Ch), NEW p \in 0..Len(l), Len(l) < LBUF_SZ, edit(l, p)
      PROVE  LineInv' /\ UNCHANGED <<ring, rstk, gpc, buf>> /\ Promise!Edit(l, p)
  BY <1>2, EditLine, EditMaps DEF edit, gettyVars
<1>3. ASSUME NEW p \in 0..Len(cur), edit(cur, p)
      PROVE  LineInv' /\ UNCHANGED <<ring, rstk, gpc, buf>> /\ Promise!Move
  BY <1>0, <1>1, <1>2, <1>3 DEF Promise!Move
<1>4. ASSUME NEW p \in 1..Len(cur), edit(RemoveAt(cur, p), p - 1)
      PROVE  LineInv' /\ UNCHANGED <<ring, rstk, gpc, buf>> /\ Promise!Edit(RemoveAt(cur, p), p - 1)
  <2>1. RemoveAt(cur, p) \in Seq(Ch) /\ Len(RemoveAt(cur, p)) = Len(cur) - 1
    BY <1>0, RemoveAtProperties
  <2>2. p - 1 \in 0..Len(RemoveAt(cur, p)) /\ Len(RemoveAt(cur, p)) < LBUF_SZ
    BY SMT, <1>0, <2>1, TtyAssumption
  <2> QED
    BY <1>2, <1>4, <2>1, <2>2
<1>5. CASE consl_accept
  <2>1. readkey /\ \E ch \in Ch : edit(InsertAt(cur, pos + 1, ch), pos + 1) /\ Len(cur) + 1 < LBUF_SZ
    <3>1. panic' = "none"
      BY <1>5 DEF consl_accept, readkey
    <3> QED
      BY SMT, <1>0, <1>5, <3>1, TtyAssumption DEF consl_accept, stop
  <2>2. PICK ch \in Ch : edit(InsertAt(cur, pos + 1, ch), pos + 1) /\ Len(cur) + 1 < LBUF_SZ
    BY <2>1
  <2> DEFINE l == InsertAt(cur, pos + 1, ch)
  <2>3. l \in Seq(Ch) /\ Len(l) = Len(cur) + 1
    BY <1>0, InsertAtProperties
  <2>4. pos + 1 \in 0..Len(l) /\ Len(l) < LBUF_SZ
    BY SMT, <1>0, <2>2, <2>3
  <2>5. LineInv' /\ UNCHANGED <<ring, rstk, gpc, buf>> /\ Promise!Edit(l, pos + 1)
    BY <1>2, <2>2, <2>3, <2>4
  <2>6. Promise!Type
    BY <1>0, <1>1, <2>5, SameEdits DEF Promise!Type
  <2> QED
    BY <2>1, <2>5, <2>6 DEF Promise!TerminalNext
<1>6. CASE feed_LEFT \/ feed_RIGHT \/ feed_HOME \/ feed_END
  <2>1. readkey /\ \E p \in 0..Len(cur) : edit(cur, p)
    BY SMT, <1>0, <1>6 DEF feed_LEFT, feed_RIGHT, feed_HOME, feed_END, movr
  <2> QED
    BY <1>3, <2>1 DEF Promise!TerminalNext
<1>7. ASSUME backsp(pos)
      PROVE  LineInv' /\ UNCHANGED <<ring, rstk, gpc, buf>> /\ (Promise!Erase \/ Promise!Move)
  <2>1. CASE pos > 0
    <3>1. pos \in 1..Len(cur) /\ edit(RemoveAt(cur, pos), pos - 1)
      BY SMT, <1>0, <1>7, <2>1 DEF backsp
    <3>2. LineInv' /\ UNCHANGED <<ring, rstk, gpc, buf>> /\ Promise!Edit(RemoveAt(cur, pos), pos - 1)
      BY <1>4, <3>1
    <3> QED
      BY <1>1, <2>1, <3>2, SameEdits DEF Promise!Erase
  <2>2. CASE ~(pos > 0)
    BY <1>0, <1>3, <1>7, <2>2 DEF backsp
  <2> QED
    BY <2>1, <2>2
<1>8. CASE feed_BACK
  BY <1>7, <1>8 DEF feed_BACK, Promise!TerminalNext
<1>9. CASE feed_DEL
  <2>1. readkey /\ backsp(movr)
    BY <1>9 DEF feed_DEL
  <2>2. CASE pos < Len(cur)
    <3>1. pos + 1 \in 1..Len(cur) /\ (pos + 1) - 1 = pos /\ edit(RemoveAt(cur, pos + 1), (pos + 1) - 1)
      BY SMT, <1>0, <2>1, <2>2 DEF backsp, movr
    <3>2. LineInv' /\ UNCHANGED <<ring, rstk, gpc, buf>>
          /\ Promise!Edit(RemoveAt(cur, pos + 1), (pos + 1) - 1)
      BY <1>4, <3>1
    <3>3. Promise!Delete
      BY <1>1, <2>2, <3>1, <3>2, SameEdits DEF Promise!Delete
    <3> QED
      BY <2>1, <3>2, <3>3 DEF Promise!TerminalNext
  <2>3. CASE ~(pos < Len(cur))
    <3>1. backsp(pos)
      BY <2>1, <2>3 DEF movr
    <3> QED
      BY <1>7, <2>1, <3>1 DEF Promise!TerminalNext
  <2> QED
    BY <2>2, <2>3
<1> QED
  BY <1>5, <1>6, <1>8, <1>9

\* A step that touches no console and no getty.
LEMMA NothingShown ==
    ASSUME UNCHANGED <<focus, lbuf, i, ring, gpc, buf>>
    PROVE  Refined
<1>1. UNCHANGED Promise!terminalVars
  BY DEF Promise!terminalVars, Stage
<1> QED
  BY <1>1 DEF Refined

\* Everything but the mailbox, for a step that leaves the rings and the gettys alone.
Rest == LineInv /\ RingInv /\ GettyInv

\* Steps that leave rings, readers and gettys alone.
LEMMA QuietSteps ==
    ASSUME TtyInv, NEW m \in Mail, m.type \notin Request,
           inbox' = Append(inbox, m) \/ (inbox # <<>> /\ inbox' = Tail(inbox)),
           UNCHANGED <<ring, rstk, gpc, buf>>, LineInv', panic' # "too many read request"
    PROVE  Rest'
<1>1. GettyInv'
  BY GettyQuiet DEF TtyInv
<1>2. RingInv'
  BY DEF TtyInv, RingInv
<1> QED
  BY <1>1, <1>2 DEF Rest

\* Interrupts, and the keys that enter no line.
LEMMA OtherSteps ==
    ASSUME TtyInv, send_keymsg \/ send_updatemsg \/ (ttyd_thread /\ ~cook /\ ~read_request /\ ~write_request)
    PROVE  Rest' /\ Refined
<1>0. /\ Msg("GETKEY", 0) \in Mail /\ Msg("GETKEY", 0).type \notin Request
      /\ Msg("UPDATE", 0) \in Mail /\ Msg("UPDATE", 0).type \notin Request
  BY ZeroConsole DEF Mail, Msg, Request
<1>1. panic # "too many read request"
  BY DEF TtyInv, GettyInv, GettyTypes
<1>2. ASSUME UNCHANGED <<focus, lbuf, i>> PROVE LineInv'
  BY <1>2 DEF TtyInv, LineInv
<1>3. CASE send_keymsg \/ send_updatemsg
  <2>1. /\ UNCHANGED <<focus, lbuf, i, ring, rstk, gpc, buf, panic>>
        /\ inbox' = Append(inbox, Msg("GETKEY", 0)) \/ inbox' = Append(inbox, Msg("UPDATE", 0))
    BY <1>3 DEF send_keymsg, send_updatemsg, consoleVars, gettyVars
  <2> QED
    BY <1>0, <1>1, <1>2, <2>1, QuietSteps, NothingShown
<1>4. ASSUME readkey \/ ttyd("UPDATE") PROVE inbox # <<>> /\ inbox' = Tail(inbox)
  BY <1>4 DEF readkey, ttyd
<1>5. CASE reboot \/ no_key \/ update_banner
  <2>1. /\ UNCHANGED <<focus, lbuf, i, ring, rstk, gpc, buf>> /\ panic' # "too many read request"
        /\ inbox # <<>> /\ inbox' = Tail(inbox)
    BY <1>1, <1>4, <1>5 DEF reboot, no_key, update_banner, stop, consoleVars, gettyVars
  <2> QED
    BY <1>0, <1>2, <2>1, QuietSteps, NothingShown
<1>6. CASE feed_F
  <2>1. /\ UNCHANGED <<lbuf, i, ring, rstk, gpc, buf, panic>> /\ readkey
        /\ \E key \in 0..5 : focus' = IF key < NR_TTY THEN key ELSE focus
    BY <1>6 DEF feed_F, gettyVars
  <2>2. focus' \in Console
    BY SMT, <2>1, TtyAssumption DEF TtyInv, LineInv, Console
  <2>3. LineInv'
    BY <2>1, <2>2 DEF TtyInv, LineInv
  <2>4. Promise!Switch
    BY <2>1, <2>2 DEF Promise!Switch, Stage
  <2>5. Refined
    BY <2>4 DEF Refined, Promise!TerminalNext
  <2> QED
    BY <1>0, <1>1, <1>4, <2>1, <2>3, <2>5, QuietSteps
<1>7. CASE consl_accept \/ feed_BACK \/ feed_DEL \/ feed_LEFT \/ feed_RIGHT \/ feed_HOME \/ feed_END
  <2>1. CASE panic' = panic
    <3>1. /\ readkey /\ UNCHANGED <<ring, rstk, gpc, buf>>
          /\ LineInv' /\ Promise!TerminalNext
      BY <1>7, <2>1, EditKeys DEF TtyInv
    <3>2. Refined
      BY <3>1 DEF Refined
    <3> QED
      BY <1>0, <1>1, <1>4, <2>1, <3>1, <3>2, QuietSteps
  <2>2. CASE panic' # panic
    <3>1. readkey /\ stop("line buffer full")
      BY <1>7, <2>2 DEF consl_accept, feed_BACK, feed_DEL, feed_LEFT, feed_RIGHT, feed_HOME, feed_END,
                        backsp, edit
    <3>2. /\ UNCHANGED <<focus, lbuf, i, ring, rstk, gpc, buf>> /\ panic' # "too many read request"
      BY <3>1 DEF stop, consoleVars, gettyVars
    <3> QED
      BY <1>0, <1>2, <1>4, <3>1, <3>2, QuietSteps, NothingShown
  <2> QED
    BY <2>1, <2>2
<1> QED
  BY <1>3, <1>5, <1>6, <1>7 DEF ttyd_thread

\* The line in front goes into its ring.
LEMMA CookRing ==
    ASSUME LineInv, RingInv, Fits(ring[focus], Append(cur, NUL))
    PROVE  LET q == Put(ring[focus], Append(cur, NUL))
           IN  /\ q \in Ring /\ Lines(Cooked(q)) /\ q.f # q.r
               /\ Cooked(q) = Cooked(ring[focus]) \o cur \o <<NUL>>
<1> DEFINE s == Append(cur, NUL)
           o == Cooked(ring[focus])
           q == Put(ring[focus], s)
<1>1. cur \in Seq(Ch) /\ Len(cur) < LBUF_SZ /\ ring[focus] \in Ring /\ Lines(o)
  BY FrontLine DEF RingInv, LineInv
<1>2. o \in Seq(Char)
  BY <1>1, CookedProperties
<1>3. s \in Seq(Char) /\ Lines(o \o s) /\ o \o s # <<>>
  BY <1>1, <1>2, LinesEntered
<1>4. q \in Ring /\ Cooked(q) = o \o s
  BY <1>1, <1>3, PutCooked
<1>5. o \o s = o \o cur \o <<NUL>>
  <2>1. cur \in Seq(Char) /\ NUL \in Char /\ <<NUL>> \in Seq(Char)
    BY SMT, <1>1, SeqMonotonic DEF Char
  <2>2. s = cur \o <<NUL>>
    BY <2>1, AppendIsConcat
  <2> HIDE DEF s, o
  <2>3. (o \o cur) \o <<NUL>> = o \o (cur \o <<NUL>>)
    BY SMT, <1>2, <2>1, JoinAssociative
  <2> QED
    BY <2>2, <2>3
<1> HIDE DEF q
<1>6. q.f # q.r
  <2>1. /\ Used(q) = 0 <=> q.f = q.r
        /\ Len(Cooked(q)) = Used(q) /\ Cooked(q) \in Seq(Char)
    BY <1>4, CookedProperties
  <2>2. Len(Cooked(q)) # 0
    BY <1>3, <1>4, <2>1, EmptySeq
  <2> QED
    BY <2>1, <2>2
<1> QED
  BY <1>3, <1>4, <1>5, <1>6 DEF q

\* A getty that waits gets the first line of ring q.
LEMMA Delivered ==
    ASSUME TtyInv, NEW c \in Console, gpc[c] = "reading",
           NEW q \in Ring, Lines(Cooked(q)), q.f # q.r, got(c, q)
    PROVE  /\ RingInv' /\ ring' = [ring EXCEPT ![c] = ring'[c]]
           /\ buf' \in [Console -> Seq(Nat)] /\ gpc' = [gpc EXCEPT ![c] = "write"]
           /\ Promise!Take(c, Cooked(q))
<1> DEFINE a == get_cooked(q, READ_SZ)
           s == Cooked(q)
<1>1. /\ ring' = [ring EXCEPT ![c] = a.ring]
      /\ gpc' = [gpc EXCEPT ![c] = "write"] /\ buf' = [buf EXCEPT ![c] = a.text]
  BY DEF got, answer
<1>2. /\ a.ring \in Ring /\ Lines(Cooked(a.ring)) /\ a.text \in Seq(Nat)
      /\ \E n \in DOMAIN s :
            /\ s[n] = NUL /\ \A k \in 1..(n - 1) : s[k] # NUL
            /\ a.text = SubSeq(s, 1, n - 1)
            /\ Cooked(a.ring) = SubSeq(s, n + 1, Len(s))
  BY TakeCooked
<1> HIDE DEF a, s
<1>3. /\ ring \in [Console -> Ring] /\ gpc \in [Console -> {"read", "reading", "write", "writing", "newline", "newlining"}]
      /\ buf \in [Console -> Seq(Nat)]
  BY DEF TtyInv, RingInv, GettyInv, GettyTypes
<1>4. RingInv'
  BY <1>1, <1>2, <1>3 DEF TtyInv, RingInv
<1>5. ring' = [ring EXCEPT ![c] = ring'[c]] /\ buf' \in [Console -> Seq(Nat)]
  BY <1>1, <1>2, <1>3
<1>6. Promise!Take(c, s)
  <2>1. PICK n \in DOMAIN s :
            /\ s[n] = NUL /\ \A k \in 1..(n - 1) : s[k] # NUL
            /\ a.text = SubSeq(s, 1, n - 1)
            /\ Cooked(a.ring) = SubSeq(s, n + 1, Len(s))
    BY <1>2
  <2>2. [g \in Console |-> Cooked(ring[g])]' =
            [[g \in Console |-> Cooked(ring[g])] EXCEPT ![c] = SubSeq(s, n + 1, Len(s))]
    BY <1>1, <1>3, <2>1
  <2>3. /\ [g \in Console |-> Stage(g)][c] = "read"
        /\ [g \in Console |-> Stage(g)]' = [[g \in Console |-> Stage(g)] EXCEPT ![c] = "show"]
    BY <1>1, <1>3 DEF Stage
  <2>4. buf' = [buf EXCEPT ![c] = SubSeq(s, 1, n - 1)]
    BY <1>1, <2>1
  <2> QED
    BY <2>1, <2>2, <2>3, <2>4 DEF Promise!Take
<1> QED
  BY <1>1, <1>4, <1>5, <1>6 DEF s

\* Enter, with a reader or without.
LEMMA CookStep ==
    ASSUME TtyInv, cook
    PROVE  Rest' /\ Refined
<1> DEFINE s == Append(cur, NUL)
           q == Put(ring[focus], s)
<1>0. LineInv /\ RingInv /\ KeyInv /\ GettyInv /\ focus \in Console
  BY DEF TtyInv, LineInv
<1>1. /\ inbox # <<>> /\ Head(inbox).type = "GETKEY" /\ inbox' = Tail(inbox)
  BY DEF cook, readkey
<1>2. CASE ~Fits(ring[focus], s)
  <2>1. /\ UNCHANGED <<focus, lbuf, i, ring, rstk, gpc, buf>> /\ panic' # "too many read request"
    BY <1>2 DEF cook, stop, consoleVars, gettyVars
  <2>2. LineInv' /\ RingInv'
    BY <1>0, <2>1 DEF LineInv, RingInv
  <2>3. GettyInv'
    BY <1>0, <1>1, <2>1, GettyQuiet
  <2> QED
    BY <2>1, <2>2, <2>3, NothingShown DEF Rest
<1>3. CASE Fits(ring[focus], s)
  <2>1. /\ lbuf' = [lbuf EXCEPT ![focus] = <<>>] /\ i' = [i EXCEPT ![focus] = 0]
        /\ UNCHANGED <<focus, panic>>
        /\ IF HasReader(focus)
           THEN rstk' = [rstk EXCEPT ![focus] = Popped(@)] /\ got(Last(rstk[focus]), q)
           ELSE ring' = [ring EXCEPT ![focus] = q] /\ UNCHANGED <<rstk, gpc, buf>>
    BY <1>3 DEF cook, gettyVars
  <2>2. /\ q \in Ring /\ Lines(Cooked(q)) /\ q.f # q.r
        /\ Cooked(q) = Cooked(ring[focus]) \o cur \o <<NUL>>
    BY <1>0, <1>3, CookRing
  <2> HIDE DEF q
  <2>3. LineInv'
    <3>1. LBUF_SZ > 0 /\ <<>> \in Seq(Ch) /\ Len(<<>>) = 0
      BY SMT, TtyAssumption
    <3> QED
      BY SMT, <1>0, <2>1, <3>1 DEF LineInv
  <2>4. Cooked(q) = [g \in Console |-> Cooked(ring[g])][focus] \o lbuf[focus] \o <<NUL>>
    BY <1>0, <2>2 DEF cur
  <2>5. CASE HasReader(focus)
    <3>1. rstk[focus] # <<>> /\ rstk[focus] = <<focus>> /\ gpc[focus] = "reading"
      BY <1>0, <2>5 DEF HasReader, GettyInv, StackWaits
    <3>2. Last(rstk[focus]) = focus /\ Popped(rstk[focus]) = <<>>
      <4>1. Len(<<focus>>) = 1 /\ <<focus>>[1] = focus /\ Len(<<focus>>) - 1 = 0
        BY SMT
      <4>2. SubSeq(<<focus>>, 1, 0) = <<>>
        BY SMT, SubSeqEmpty
      <4> QED
        BY <3>1, <4>1, <4>2 DEF Last, Popped, Front
    <3>3. rstk' = [rstk EXCEPT ![focus] = <<>>] /\ got(focus, q)
      BY <2>1, <2>5, <3>2
    <3>4. /\ RingInv' /\ ring' = [ring EXCEPT ![focus] = ring'[focus]]
          /\ buf' \in [Console -> Seq(Nat)] /\ gpc' = [gpc EXCEPT ![focus] = "write"]
          /\ Promise!Take(focus, Cooked(q))
      BY <1>0, <2>2, <3>1, <3>3, Delivered
    <3>5. Absent(focus)
      BY <1>0, <3>1, AbsentWhen
    <3>6. GettyTypes'
      <4>1. rstk' \in [Console -> Seq(Console)]
        <5>1. <<>> \in Seq(Console)
          BY EmptySeq
        <5> QED
          BY <1>0, <3>3, <5>1 DEF GettyInv, GettyTypes
      <4>2. panic' = panic
        BY <2>1
      <4>3. gpc' \in [Console -> {"read", "reading", "write", "writing", "newline", "newlining"}]
        BY <1>0, <3>4 DEF GettyInv, GettyTypes
      <4> QED
        BY <1>0, <3>4, <4>1, <4>2, <4>3 DEF GettyInv, GettyTypes
    <3>7. /\ \A d \in Console \ {focus} : gpc'[d] = gpc[d] /\ rstk'[d] = rstk[d] /\ ring'[d] = ring[d]
          /\ rstk'[focus] = <<>>
      BY <1>0, <3>3, <3>4 DEF GettyInv, GettyTypes, RingInv
    <3>8. GettyInv'
      <4>1. Head(inbox).type \notin Request
        BY <1>1 DEF Request
      <4> QED
        BY <1>0, <1>1, <3>5, <3>6, <3>7, <4>1, GettyTaken
    <3>9. Promise!Enter
      BY <2>1, <2>4, <3>4 DEF Promise!Enter
    <3> QED
      BY <2>3, <3>4, <3>8, <3>9 DEF Rest, Refined, Promise!TerminalNext
  <2>6. CASE ~HasReader(focus)
    <3>1. /\ rstk[focus] = <<>> /\ ring' = [ring EXCEPT ![focus] = q] /\ UNCHANGED <<rstk, gpc, buf>>
      BY <2>1, <2>6 DEF HasReader
    <3>2. RingInv'
      BY <1>0, <2>2, <3>1 DEF RingInv
    <3>3. GettyTypes' /\ StackWaits'
      BY <1>0, <2>1, <3>1 DEF GettyInv, GettyTypes, StackWaits, RingInv
    <3>4. GettyInv'
      BY <1>0, <1>1, <3>1, <3>3, MailQuiet DEF GettyInv
    <3>5. [g \in Console |-> Cooked(ring[g])]' =
              [[g \in Console |-> Cooked(ring[g])] EXCEPT ![focus] = Cooked(q)]
      BY <1>0, <3>1 DEF RingInv
    <3>6. Promise!Enter
      BY <2>1, <2>4, <3>1, <3>5 DEF Promise!Enter, Stage
    <3> QED
      BY <2>3, <3>2, <3>4, <3>6 DEF Rest, Refined, Promise!TerminalNext
  <2> QED
    BY <2>5, <2>6
<1> QED
  BY <1>2, <1>3

\* A read request takes a line or waits on the stack.
LEMMA ReadStep ==
    ASSUME TtyInv, read_request
    PROVE  Rest' /\ Refined
<1> DEFINE c == Head(inbox).dev
<1>0. LineInv /\ RingInv /\ KeyInv /\ GettyInv /\ inbox \in Seq(Mail)
  BY DEF TtyInv, KeyInv
<1>1. inbox # <<>> /\ Head(inbox).type = "DEV_READ" /\ inbox' = Tail(inbox)
  BY DEF read_request, ttyd
<1>2. 1 \in 1..Len(inbox) /\ Head(inbox) = inbox[1] /\ Head(inbox) \in Mail
  BY <1>0, <1>1, Dequeue
<1>3. c \in Console /\ gpc[c] = "reading" /\ rstk[c] = <<>>
  BY <1>0, <1>1, <1>2 DEF Mail, GettyInv, RequestWaits
<1>4. Len(rstk[c]) # RSTK_SZ /\ Append(rstk[c], c) = <<c>>
  BY SMT, <1>3, TtyAssumption
<1>5. IF ring[c].f # ring[c].r
      THEN got(c, ring[c]) /\ UNCHANGED <<focus, lbuf, i, rstk, panic>>
      ELSE /\ rstk' = [rstk EXCEPT ![c] = Append(@, c)]
           /\ UNCHANGED <<focus, lbuf, i, ring, gpc, buf, panic>>
  BY <1>4 DEF read_request, gettyVars
<1>6. Head(inbox).type \in Request
  BY <1>1 DEF Request
<1> HIDE DEF c
<1>7. LineInv'
  BY <1>0, <1>5 DEF LineInv
<1>8. CASE ring[c].f # ring[c].r
  <2>1. ring[c] \in Ring /\ Lines(Cooked(ring[c]))
    BY <1>0, <1>3 DEF RingInv
  <2>2. /\ RingInv' /\ ring' = [ring EXCEPT ![c] = ring'[c]]
        /\ buf' \in [Console -> Seq(Nat)] /\ gpc' = [gpc EXCEPT ![c] = "write"]
        /\ Promise!Take(c, Cooked(ring[c]))
    BY <1>3, <1>5, <1>8, <2>1, Delivered
  <2>3. GettyTypes'
    BY <1>0, <1>5, <1>8, <2>2 DEF GettyInv, GettyTypes
  <2>4. /\ \A d \in Console \ {c} : gpc'[d] = gpc[d] /\ rstk'[d] = rstk[d] /\ ring'[d] = ring[d]
        /\ rstk'[c] = <<>>
    BY <1>0, <1>3, <1>5, <1>8, <2>2 DEF GettyInv, GettyTypes, RingInv
  <2>5. GettyInv'
    BY <1>0, <1>1, <1>3, <1>6, <2>3, <2>4, GettyTaken DEF c
  <2>6. [g \in Console |-> Cooked(ring[g])][c] = Cooked(ring[c])
    BY <1>3
  <2>7. Promise!Read
    BY <1>3, <1>5, <1>8, <2>2, <2>6 DEF Promise!Read
  <2> QED
    BY <1>7, <2>2, <2>5, <2>7 DEF Rest, Refined, Promise!TerminalNext
<1>9. CASE ring[c].f = ring[c].r
  <2>1. /\ rstk' = [rstk EXCEPT ![c] = <<c>>] /\ UNCHANGED <<focus, lbuf, i, ring, gpc, buf, panic>>
    BY <1>4, <1>5, <1>9
  <2>2. RingInv'
    BY <1>0, <2>1 DEF RingInv
  <2>3. GettyTypes'
    <3>1. <<c>> \in Seq(Console)
      BY SMT, <1>3
    <3> QED
      BY <1>0, <2>1, <3>1 DEF GettyInv, GettyTypes
  <2>4. /\ \A d \in Console \ {c} : gpc'[d] = gpc[d] /\ rstk'[d] = rstk[d] /\ ring'[d] = ring[d]
        /\ rstk'[c] = <<c>> /\ gpc'[c] = "reading" /\ ring'[c].f = ring'[c].r
    BY <1>0, <1>3, <1>9, <2>1 DEF GettyInv, GettyTypes
  <2>5. GettyInv'
    BY <1>0, <1>1, <1>3, <1>6, <2>3, <2>4, GettyTaken DEF c
  <2> QED
    BY <1>7, <2>1, <2>2, <2>5, NothingShown DEF Rest
<1> QED
  BY <1>8, <1>9

\* The promise's words for a change of one getty.
LEMMA GettyMaps ==
    ASSUME GettyInv, NEW g \in Console, NEW label, gpc' = [gpc EXCEPT ![g] = label],
           UNCHANGED <<focus, lbuf, i, ring>>
    PROVE  [h \in Console |-> Stage(h)]' =
               [[h \in Console |-> Stage(h)] EXCEPT ![g] = Stage(g)']
<1>1. \A h \in Console : gpc'[h] = IF h = g THEN label ELSE gpc[h]
  BY DEF GettyInv, GettyTypes
<1> QED
  BY <1>1 DEF Stage

\* A write request is answered.
LEMMA WriteStep ==
    ASSUME TtyInv, write_request
    PROVE  Rest' /\ Refined
<1>0. LineInv /\ RingInv /\ KeyInv /\ GettyInv /\ inbox \in Seq(Mail)
  BY DEF TtyInv, KeyInv
<1>1. inbox # <<>> /\ Head(inbox).type = "DEV_WRITE" /\ inbox' = Tail(inbox)
  BY DEF write_request, ttyd
<1>2. 1 \in 1..Len(inbox) /\ Head(inbox) = inbox[1] /\ Head(inbox) \in Mail
  BY <1>0, <1>1, Dequeue
<1>3. PICK g \in Console : g = Head(inbox).dev /\ gpc[g] \in {"writing", "newlining"}
  BY <1>0, <1>1, <1>2 DEF Mail, GettyInv, RequestWaits
<1>4. rstk[g] = <<>>
  BY <1>0, <1>3 DEF GettyInv, StackWaits
<1>5. /\ IF gpc[g] = "writing" THEN answer(g, "newline", buf[g]) ELSE answer(g, "read", <<>>)
      /\ UNCHANGED <<focus, lbuf, i, ring, rstk, panic>>
  BY <1>3 DEF write_request, consoleVars
<1>6. Head(inbox).type \in Request
  BY <1>1 DEF Request
<1>7. LineInv' /\ RingInv'
  BY <1>0, <1>5 DEF LineInv, RingInv
<1>8. PICK label \in {"newline", "read"}, text \in Seq(Nat) :
        /\ gpc' = [gpc EXCEPT ![g] = label] /\ buf' = [buf EXCEPT ![g] = text]
        /\ label = "newline" => gpc[g] = "writing" /\ text = buf[g]
        /\ label = "read" => gpc[g] = "newlining" /\ text = <<>>
  <2>1. buf[g] \in Seq(Nat) /\ <<>> \in Seq(Nat)
    <3>1. buf[g] \in Seq(Nat)
      BY <1>0, <1>3 DEF GettyInv, GettyTypes
    <3> QED
      BY <3>1, EmptySeq
  <2>2. CASE gpc[g] = "writing"
    BY <1>5, <2>1, <2>2 DEF answer
  <2>3. CASE gpc[g] = "newlining"
    BY <1>5, <2>1, <2>3 DEF answer
  <2> QED
    BY <1>3, <2>2, <2>3
<1>9. GettyTypes'
  BY <1>0, <1>5, <1>8 DEF GettyInv, GettyTypes
<1>10. \A d \in Console \ {g} : gpc'[d] = gpc[d] /\ rstk'[d] = rstk[d] /\ ring'[d] = ring[d]
  BY <1>0, <1>5, <1>8 DEF GettyInv, GettyTypes
<1>11. GettyInv'
  BY <1>0, <1>1, <1>3, <1>4, <1>5, <1>6, <1>9, <1>10, GettyTaken
<1>12. [h \in Console |-> Stage(h)]' = [[h \in Console |-> Stage(h)] EXCEPT ![g] = Stage(g)']
  BY <1>0, <1>3, <1>5, <1>8, GettyMaps
<1>13. gpc'[g] = label
  BY <1>0, <1>3, <1>8 DEF GettyInv, GettyTypes
<1>14. CASE label = "newline"
  <2>1. Stage(g)' = "shown" /\ Stage(g) = "shown"
    BY <1>8, <1>13, <1>14 DEF Stage
  <2>2. UNCHANGED <<[h \in Console |-> Stage(h)], buf>>
    <3>1. buf' = [buf EXCEPT ![g] = buf[g]]
      BY <1>8, <1>14
    <3>2. buf' = buf
      BY <1>0, <3>1 DEF GettyInv, GettyTypes
    <3>3. UNCHANGED [h \in Console |-> Stage(h)]
      BY <1>3, <1>12, <2>1
    <3> QED
      BY <3>2, <3>3
  <2>3. UNCHANGED Promise!terminalVars
    BY <1>5, <2>2 DEF Promise!terminalVars
  <2> QED
    BY <1>7, <1>11, <2>3 DEF Rest, Refined
<1>15. CASE label = "read"
  <2>1. Stage(g)' = "read" /\ Stage(g) = "shown"
    BY <1>8, <1>13, <1>15 DEF Stage
  <2>2. [h \in Console |-> Stage(h)][g] = "shown"
    BY <1>3, <2>1
  <2>3. Promise!Done
    BY <1>3, <1>5, <1>8, <1>12, <1>15, <2>1, <2>2 DEF Promise!Done
  <2> QED
    BY <1>7, <1>11, <2>3 DEF Rest, Refined, Promise!TerminalNext
<1> QED
  BY <1>14, <1>15

\* Capital letters are the promise's.
LEMMA SameCapitals == \A ch \in Nat : Capital(ch) = Promise!Upper(ch) /\ Capital(ch) \in Nat
  BY SMT DEF Capital, Promise!Upper

\* A getty asks, or takes its answer.
LEMMA GettyStep ==
    ASSUME TtyInv, NEW g \in Console, getty(g)
    PROVE  Rest' /\ Refined
<1>0. LineInv /\ RingInv /\ KeyInv /\ GettyInv
  BY DEF TtyInv
<1>1. UNCHANGED <<focus, lbuf, i, ring, rstk, panic>>
  BY DEF getty, getty_read, getty_write, getty_newline, request, consoleVars
<1>2. LineInv' /\ RingInv'
  BY <1>0, <1>1 DEF LineInv, RingInv
<1>3. ASSUME NEW type \in Request, NEW from, NEW to, request(g, from, type, to),
             <<from, type, to>> \in {<<"read", "DEV_READ", "reading">>, <<"write", "DEV_WRITE", "writing">>,
                                    <<"newline", "DEV_WRITE", "newlining">>},
             buf' \in [Console -> Seq(Nat)]
      PROVE  /\ GettyInv' /\ gpc[g] = from /\ gpc'[g] = to
             /\ [h \in Console |-> Stage(h)]' = [[h \in Console |-> Stage(h)] EXCEPT ![g] = Stage(g)']
  <2>0. \/ from = "read" /\ type = "DEV_READ" /\ to = "reading"
        \/ from = "write" /\ type = "DEV_WRITE" /\ to = "writing"
        \/ from = "newline" /\ type = "DEV_WRITE" /\ to = "newlining"
    BY <1>3
  <2>1. gpc[g] = from /\ gpc' = [gpc EXCEPT ![g] = to] /\ inbox' = Append(inbox, Msg(type, g))
    BY <1>3 DEF request
  <2>2. GettyTypes'
    BY <1>0, <1>1, <1>3, <2>0, <2>1 DEF GettyInv, GettyTypes
  <2>3. gpc'[g] = to /\ \A d \in Console \ {g} : gpc'[d] = gpc[d]
    BY <1>0, <2>1 DEF GettyInv, GettyTypes
  <2>4. GettyInv'
    BY <1>0, <1>1, <2>0, <2>1, <2>2, <2>3, GettySends
  <2>5. [h \in Console |-> Stage(h)]' = [[h \in Console |-> Stage(h)] EXCEPT ![g] = Stage(g)']
    BY <1>0, <1>1, <2>1, GettyMaps
  <2> QED
    BY <2>1, <2>3, <2>4, <2>5
<1>4. buf \in [Console -> Seq(Nat)]
  BY <1>0 DEF GettyInv, GettyTypes
<1>5. CASE getty_read(g) \/ getty_newline(g)
  <2>1. buf' = buf
    BY <1>5 DEF getty_read, getty_newline
  <2>2. /\ GettyInv' /\ Stage(g)' = Stage(g)
        /\ [h \in Console |-> Stage(h)]' = [[h \in Console |-> Stage(h)] EXCEPT ![g] = Stage(g)']
    <3>1. CASE getty_read(g)
      <4>1. request(g, "read", "DEV_READ", "reading") /\ "DEV_READ" \in Request
        BY <3>1 DEF getty_read, Request
      <4>2. /\ GettyInv' /\ gpc[g] = "read" /\ gpc'[g] = "reading"
            /\ [h \in Console |-> Stage(h)]' = [[h \in Console |-> Stage(h)] EXCEPT ![g] = Stage(g)']
        BY <1>3, <1>4, <2>1, <4>1
      <4>3. Stage(g)' = Stage(g)
        BY <4>2 DEF Stage
      <4> QED
        BY <4>2, <4>3
    <3>2. CASE getty_newline(g)
      <4>1. request(g, "newline", "DEV_WRITE", "newlining") /\ "DEV_WRITE" \in Request
        BY <3>2 DEF getty_newline, Request
      <4>2. /\ GettyInv' /\ gpc[g] = "newline" /\ gpc'[g] = "newlining"
            /\ [h \in Console |-> Stage(h)]' = [[h \in Console |-> Stage(h)] EXCEPT ![g] = Stage(g)']
        BY <1>3, <1>4, <2>1, <4>1
      <4>3. Stage(g)' = Stage(g)
        BY <4>2 DEF Stage
      <4> QED
        BY <4>2, <4>3
    <3> QED
      BY <1>5, <3>1, <3>2
  <2>3. UNCHANGED [h \in Console |-> Stage(h)]
    BY <2>2
  <2>4. UNCHANGED Promise!terminalVars
    BY <1>1, <2>1, <2>3 DEF Promise!terminalVars
  <2> QED
    BY <1>2, <2>2, <2>4 DEF Rest, Refined
<1>6. CASE getty_write(g)
  <2> DEFINE t == [k \in DOMAIN buf[g] |-> Capital(buf[g][k])]
  <2>1. /\ request(g, "write", "DEV_WRITE", "writing") /\ "DEV_WRITE" \in Request
        /\ buf' = [buf EXCEPT ![g] = t]
    BY <1>6 DEF getty_write, Request
  <2>2. DOMAIN buf[g] = 1..Len(buf[g]) /\ Len(buf[g]) \in Nat /\ \A k \in DOMAIN buf[g] : buf[g][k] \in Nat
    <3>1. buf[g] \in Seq(Nat)
      BY <1>4
    <3> QED
      BY <3>1, LenProperties, ElementOfSeq
  <2>3. t \in Seq(Nat) /\ t = [k \in DOMAIN buf[g] |-> Promise!Upper(buf[g][k])]
    <3> DEFINE e(k) == Capital(buf[g][k])
    <3>1. \A k \in DOMAIN buf[g] : e(k) \in Nat /\ e(k) = Promise!Upper(buf[g][k])
      BY <2>2, SameCapitals
    <3>2. t = [k \in 1..Len(buf[g]) |-> e(k)] /\ t = [k \in DOMAIN buf[g] |-> e(k)]
      BY <2>2
    <3> HIDE DEF e, t
    <3>3. t \in Seq(Nat)
      BY SMT, <2>2, <3>1, <3>2
    <3> QED
      BY <3>1, <3>2, <3>3
  <2> HIDE DEF t
  <2>4. buf' \in [Console -> Seq(Nat)]
    BY <1>4, <2>1, <2>3
  <2>5. /\ GettyInv' /\ gpc[g] = "write" /\ gpc'[g] = "writing"
        /\ [h \in Console |-> Stage(h)]' = [[h \in Console |-> Stage(h)] EXCEPT ![g] = Stage(g)']
    BY <1>3, <2>1, <2>4
  <2>6. Stage(g) = "show" /\ Stage(g)' = "shown" /\ [h \in Console |-> Stage(h)][g] = "show"
    BY <2>5 DEF Stage
  <2>7. buf' = [buf EXCEPT ![g] = [k \in DOMAIN @ |-> Promise!Upper(@[k])]]
    BY <2>1, <2>3
  <2>8. Promise!Capitals
    BY <1>1, <2>5, <2>6, <2>7 DEF Promise!Capitals
  <2> QED
    BY <1>2, <2>5, <2>8 DEF Rest, Refined, Promise!TerminalNext
<1> QED
  BY <1>5, <1>6 DEF getty

-----------------------------------------------------------------------------
(* The theorems                                                             *)

\* The terminals at the start are as Terminal's.
LEMMA TtyInvInit == Init => TtyInv /\ Promise!TerminalInit
<1> SUFFICES ASSUME Init PROVE TtyInv /\ Promise!TerminalInit
  OBVIOUS
<1>0. CBUF_SZ \in Nat \ {0} /\ LBUF_SZ \in Nat \ {0} /\ 0 \in Console /\ Len(inbox) = 0
  BY TtyAssumption, ZeroConsole DEF Init
<1> DEFINE q == [buf |-> [x \in Index |-> NUL], f |-> 0, r |-> 0]
<1>1. q \in Ring /\ q.f = q.r
  BY SMT, <1>0 DEF Ring, Index, Char
<1>2. ring = [c \in Console |-> q]
  BY DEF Init
<1> HIDE DEF q
<1>3. Cooked(q) = <<>> /\ Lines(Cooked(q))
  <2>1. Cooked(q) \in Seq(Char) /\ Len(Cooked(q)) = 0
    BY <1>1, CookedProperties
  <2>2. Cooked(q) = <<>>
    BY <2>1, EmptySeq
  <2> QED
    BY SMT, <2>1, <2>2 DEF Lines
<1>4. LineInv
  BY SMT, <1>0 DEF Init, LineInv
<1>5. RingInv
  BY <1>1, <1>2, <1>3 DEF RingInv
<1>6. KeyInv
  BY SMT, <1>0 DEF Init, KeyInv
<1>7. GettyInv
  BY SMT, <1>0 DEF Init, GettyInv, GettyTypes, RequestUnique, RequestWaits, StackWaits
<1>8. Promise!TerminalInit
  <2>1. [c \in Console |-> Cooked(ring[c])] = [c \in Console |-> <<>>]
    BY <1>2, <1>3
  <2> QED
    BY <1>0, <2>1 DEF Init, Promise!TerminalInit, Stage
<1> QED
  BY <1>4, <1>5, <1>6, <1>7, <1>8 DEF TtyInv

\* Every step keeps the invariant and is a step of Terminal, or none.
LEMMA TtyInvStep == TtyInv /\ [Next]_vars => TtyInv' /\ Refined
<1> SUFFICES ASSUME TtyInv, [Next]_vars PROVE TtyInv' /\ Refined
  OBVIOUS
<1>1. KeyInv'
  BY KeyStep DEF TtyInv
<1>2. CASE UNCHANGED vars
  <2>1. UNCHANGED <<focus, lbuf, i, ring, rstk, gpc, buf, inbox, panic>>
    BY <1>2 DEF vars, consoleVars, gettyVars
  <2>2. LineInv' /\ RingInv' /\ GettyInv'
    BY <2>1 DEF TtyInv, LineInv, RingInv, GettyInv, GettyTypes, RequestUnique, RequestWaits, StackWaits
  <2> QED
    BY <1>1, <2>1, <2>2, NothingShown DEF TtyInv
<1>3. CASE Next
  <2>1. Rest' /\ Refined
    BY <1>3, OtherSteps, CookStep, ReadStep, WriteStep, GettyStep DEF Next
  <2> QED
    BY <1>1, <2>1 DEF TtyInv, Rest
<1> QED
  BY <1>2, <1>3

\* One GETKEY message waits in ttyd's mailbox for each scan code the controller
\* holds, and for no other: send_keymsg and readkey keep in step.
THEOREM OneMessagePerKeyHolds == Spec => []OneMessagePerKey
<1>1. TtyInv => OneMessagePerKey
  <2> SUFFICES ASSUME TtyInv PROVE OneMessagePerKey
    OBVIOUS
  <2> DEFINE K == {k \in DOMAIN inbox : inbox[k].type = "GETKEY"}
  <2>0. DOMAIN inbox = 1..Len(inbox) /\ KeyInv
    BY LenProperties DEF TtyInv, KeyInv
  <2>1. Cardinality({}) = 0 /\ \A k : Cardinality({k}) = 1
    BY FS_EmptySet, FS_Singleton
  <2>2. CASE kbd
    <3>1. PICK k \in 1..Len(inbox) : inbox[k].type = "GETKEY"
      BY <2>0, <2>2 DEF KeyInv
    <3>2. K = {k}
      BY <2>0, <3>1 DEF KeyInv
    <3> QED
      BY <2>1, <2>2, <3>2 DEF OneMessagePerKey
  <2>3. CASE ~kbd
    <3>1. K = {}
      BY <2>0, <2>3 DEF KeyInv
    <3> QED
      BY <2>1, <2>3, <3>1 DEF OneMessagePerKey
  <2> QED
    BY <2>2, <2>3
<1> QED
  BY <1>1, TtyInvInit, TtyInvStep, PTL DEF Spec

\* A getty is on the stack of its own console only, alone, and only while the ring
\* is empty; so the stack never overflows (read_request, cook).
THEOREM ReadersWaitForInputHolds == Spec => []ReadersWaitForInput
<1>1. TtyInv => ReadersWaitForInput
  BY DEF TtyInv, GettyInv, GettyTypes, StackWaits, ReadersWaitForInput
<1> QED
  BY <1>1, TtyInvInit, TtyInvStep, PTL DEF Spec

\* ttyd, its rings, stacks and messages implement the promise: lines are edited as
\* typed and reach the getty of their console whole, in order and once each.
THEOREM TerminalsKeepPromise == Spec => TerminalSpec
  BY TtyInvInit, TtyInvStep, PTL DEF Spec, TerminalSpec, Promise!TerminalSpec, Refined
=============================================================================
