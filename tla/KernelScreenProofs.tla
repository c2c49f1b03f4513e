------------------------- MODULE KernelScreenProofs -------------------------
(***************************************************************************)
(* Proofs about two specifications that share no constant and no variable. *)
(*                                                                         *)
(* The screen (module Screen): correct for any size of the screen and of   *)
(* the line; the line that is edited in lbuf is the one on the screen, and *)
(* the cursor does not leave the window.                                   *)
(*                                                                         *)
(* The threads (module Kernel): correct for any number of processes,       *)
(* semaphores and interrupts; every process is on one list, and a          *)
(* semaphore's count says how many wait for it.                            *)
(***************************************************************************)
EXTENDS Screen, Kernel, ListProofs

\* Where the window may start: on a row, at most a window from the end.
Rows == {SCR_W * r : r \in 0..SCR_H}

\* The line is in the window, but for the cell right behind it.
LineInWindow ==
    /\ c.scr <= c.pos - i /\ c.pos - i < c.scr + wh
    /\ c.pos + cc <= c.scr + wh

\* The inductive invariant.  LineOnScreen needs the line to be inside the window,
\* since scrup() blanks the row behind it and forgets the row it leaves; and it is
\* inside because a line has fewer than LBUF_SZ characters, which leave a row free.
ScreenInv ==
    /\ c \in [vbuf : [Cell -> Ch \cup {" "}], scr : Rows, pos : Int]
    /\ lbuf \in Seq(Ch) /\ Len(lbuf) < LBUF_SZ /\ i \in 0..Len(lbuf)
    /\ upset \in BOOLEAN /\ stray \in BOOLEAN
    /\ ~upset => ~stray /\ LineInWindow /\ LineOnScreen

-----------------------------------------------------------------------------
(* Rows and columns                                                         *)

\* The sizes of a window and of a console's buffer.
LEMMA Sizes ==
    /\ SCR_W \in Nat \ {0} /\ SCR_H \in Nat \ {0} /\ LBUF_SZ \in Nat \ {0}
    /\ wh \in Nat /\ size \in Nat /\ size = wh + wh
    /\ LBUF_SZ + SCR_W <= wh
<1>1. SCR_W \in Nat \ {0} /\ SCR_H \in Nat \ {0} /\ LBUF_SZ \in Nat \ {0}
      /\ LBUF_SZ + SCR_W <= SCR_W * SCR_H
  BY ScreenAssumption
<1>2. SCR_W * SCR_H \in Nat
  BY <1>1
<1>3. wh \in Nat /\ LBUF_SZ + SCR_W <= wh
  BY <1>1, <1>2 DEF wh
<1> QED
  BY <1>1, <1>3 DEF size

\* Rows do not overlap.
LEMMA RowOrder ==
    ASSUME NEW w \in Nat, NEW a \in Int, NEW b \in Int
    PROVE  /\ a < b => w * a + w <= w * b
           /\ w * (a + 1) = w * a + w
           /\ w * a \in Int
  OBVIOUS

\* The window starts on a row, and has a row below it unless it is the last one.
LEMMA RowFacts ==
    ASSUME NEW x \in Rows
    PROVE  /\ x \in Nat /\ x <= wh
           /\ x # wh => x + SCR_W \in Rows /\ x + SCR_W <= wh
           /\ x % SCR_W = 0
<1>1. PICK r \in 0..SCR_H : x = SCR_W * r
  BY DEF Rows
<1>2. r \in Nat /\ r <= SCR_H /\ x \in Nat
  BY <1>1, Sizes
<1>3. CASE r = SCR_H
  <2>1. x = wh
    BY <1>1, <1>3 DEF wh
  <2>2. x % SCR_W = 0
    BY <1>1, <1>2, Sizes
  <2> QED
    BY <1>2, <2>1, <2>2, Sizes
<1>4. CASE r # SCR_H
  <2>1. r < SCR_H /\ r + 1 \in 0..SCR_H
    BY <1>2, <1>4, Sizes
  <2>2. SCR_W * r + SCR_W <= SCR_W * SCR_H /\ SCR_W * (r + 1) = SCR_W * r + SCR_W
    BY <1>2, <2>1, Sizes, RowOrder
  <2>3. x + SCR_W \in Rows
    BY <1>1, <2>1, <2>2 DEF Rows
  <2>4. x % SCR_W = 0
    BY <1>1, <1>2, Sizes
  <2> QED
    BY <1>1, <1>2, <2>2, <2>3, <2>4, Sizes DEF wh
<1> QED
  BY <1>3, <1>4

\* cr() stays in its row.
LEMMA ColumnFacts ==
    ASSUME NEW x \in Rows, NEW p \in Int, x <= p
    PROVE  /\ p % SCR_W \in 0..(SCR_W - 1)
           /\ x <= p - (p % SCR_W)
<1>1. PICK r \in 0..SCR_H : x = SCR_W * r
  BY DEF Rows
<1> DEFINE d == p \div SCR_W
           m == p % SCR_W
<1>2. d \in Int /\ m \in 0..(SCR_W - 1) /\ p = SCR_W * d + m
  BY Sizes
<1> HIDE DEF d, m
<1>3. ~(d < r)
  <2> SUFFICES ASSUME d < r PROVE FALSE
    OBVIOUS
  <2>1. SCR_W * d + SCR_W <= SCR_W * r
    BY <1>2, RowOrder, Sizes
  <2>2. SCR_W * d \in Int /\ SCR_W * r \in Int
    BY <1>2, RowOrder, Sizes
  <2> QED
    BY <1>1, <1>2, <2>1, <2>2, Sizes
<1>4. SCR_W * r <= SCR_W * d
  <2>1. SCR_W * r \in Int /\ SCR_W * d \in Int /\ (r < d => SCR_W * r + SCR_W <= SCR_W * d)
    BY <1>2, RowOrder, Sizes
  <2> QED
    BY <1>2, <1>3, <2>1, Sizes
<1> QED
  BY <1>1, <1>2, <1>4, RowOrder, Sizes DEF m

-----------------------------------------------------------------------------
(* The loop of consl_accept                                                 *)

\* The screen after k rounds of n.
Loop(f, n) == f = [k \in 0..n |-> IF k = 0 THEN c ELSE shift(f[k - 1], cc + 2 - k)]

\* The loop is a recursive function: for any number of rounds there is one.
LEMMA LoopExists == ASSUME NEW n \in Nat PROVE \E f : Loop(f, n)
<1> DEFINE T == {m \in Nat : ~\E f : Loop(f, m)}
<1> SUFFICES ASSUME T # {} PROVE FALSE
  OBVIOUS
<1>1. PICK m \in T : \A x \in T : m <= x
  BY Zenon, Least
<1>2. m # 0
  <2> DEFINE f == [k \in 0..0 |-> c]
  <2>1. Loop(f, 0)
    BY DEF Loop
  <2> QED
    BY <1>1, <2>1
<1>3. m - 1 \in Nat /\ ~(m <= m - 1) /\ m \in Nat
  BY <1>1, <1>2
<1>4. PICK f : Loop(f, m - 1)
  BY <1>1, <1>3
<1> DEFINE g == [k \in 0..m |-> IF k = m THEN shift(f[m - 1], cc + 2 - m) ELSE f[k]]
<1>5. ASSUME NEW k \in 0..m PROVE g[k] = IF k = 0 THEN c ELSE shift(g[k - 1], cc + 2 - k)
  <2>1. CASE k = m
    <3>1. k - 1 \in 0..m /\ k - 1 # m /\ k # 0
      BY <1>2, <1>3, <2>1
    <3>2. g[k - 1] = f[k - 1] /\ g[k] = shift(f[m - 1], cc + 2 - m)
      BY <2>1, <3>1
    <3> QED
      BY <2>1, <3>1, <3>2
  <2>2. CASE k # m
    <3>1. k \in 0..(m - 1) /\ (k # 0 => k - 1 \in 0..m /\ k - 1 # m)
      BY <1>3, <2>2
    <3>2. f[k] = IF k = 0 THEN c ELSE shift(f[k - 1], cc + 2 - k)
      BY <1>4, <3>1 DEF Loop
    <3>3. g[k] = f[k] /\ (k # 0 => g[k - 1] = f[k - 1])
      BY <2>2, <3>1
    <3> QED
      BY <3>2, <3>3
  <2> QED
    BY <2>1, <2>2
<1>6. Loop(g, m)
  <2>1. g = [k \in 0..m |-> g[k]]
    OBVIOUS
  <2> HIDE DEF g
  <2> QED
    BY Zenon, <1>5, <2>1 DEF Loop
<1> QED
  BY <1>1, <1>6

\* The recursion of Rounds is well founded.
LEMMA RoundsUnfold ==
    ASSUME cc \in Nat
    PROVE  /\ Rounds[0] = c
           /\ \A k \in 1..(cc + 1) : Rounds[k] = shift(Rounds[k - 1], cc + 2 - k)
<1>1. PICK f : Loop(f, cc + 1)
  BY LoopExists
<1>2. Loop(Rounds, cc + 1)
  BY Zenon, <1>1 DEF Rounds, Loop
<1>3. Rounds = [k \in 0..(cc + 1) |-> IF k = 0 THEN c ELSE shift(Rounds[k - 1], cc + 2 - k)]
  BY <1>2 DEF Loop
<1> QED
  BY <1>3

-----------------------------------------------------------------------------
(* The screen                                                               *)

\* A screen whose window is on rows of the buffer, and one whose cells hold what
\* they may.
Framed(s) == s = [vbuf |-> s.vbuf, scr |-> s.scr, pos |-> s.pos] /\ s.scr \in Rows /\ s.pos \in Int
Good(s) == Framed(s) /\ s.vbuf \in [Cell -> Ch \cup {" "}]

\* Line l is on the screen, with its p-th character before the cursor.
On(s, l, p) == \A k \in 1..Len(l) : s.vbuf[s.pos - p + k - 1] = l[k]

\* The type of a screen.
LEMMA GoodScreen == \A s : Good(s) <=> s \in [vbuf : [Cell -> Ch \cup {" "}], scr : Rows, pos : Int]
<1> SUFFICES ASSUME NEW s PROVE Good(s) <=> s \in [vbuf : [Cell -> Ch \cup {" "}], scr : Rows, pos : Int]
  OBVIOUS
<1>1. ASSUME Good(s) PROVE s \in [vbuf : [Cell -> Ch \cup {" "}], scr : Rows, pos : Int]
  BY Zenon, <1>1 DEF Good, Framed
<1>2. ASSUME s \in [vbuf : [Cell -> Ch \cup {" "}], scr : Rows, pos : Int] PROVE Good(s)
  <2>1. s = [vbuf |-> s.vbuf, scr |-> s.scr, pos |-> s.pos]
    BY <1>2
  <2> QED
    BY Zenon, <1>2, <2>1 DEF Good, Framed
<1> QED
  BY <1>1, <1>2

\* The fields of a screen.
LEMMA ScreenFields ==
    ASSUME NEW r, NEW v, NEW a, NEW b, r = [vbuf |-> v, scr |-> a, pos |-> b]
    PROVE  r.vbuf = v /\ r.scr = a /\ r.pos = b
  OBVIOUS

\* scrup() moves the window, or the buffer, by a row.
LEMMA ScrupFacts ==
    ASSUME NEW s, Framed(s)
    PROVE  \E d \in {0, SCR_W} :
              /\ Framed(scrup(s))
              /\ scrup(s).pos = s.pos - d /\ scrup(s).scr = s.scr + SCR_W - d
              /\ Good(s) => Good(scrup(s))
              /\ \A x \in d..(s.scr + wh - 1) : x - d \in Cell => scrup(s).vbuf[x - d] = s.vbuf[x]
<1>0. s.scr \in Nat /\ s.scr <= wh /\ s.scr \in Rows /\ s.pos \in Int
      /\ (s.scr # wh => s.scr + SCR_W \in Rows)
  BY RowFacts DEF Framed
<1> DEFINE moved == [vbuf |-> [x \in Cell |-> s.vbuf[IF x < size - SCR_W THEN x + SCR_W ELSE x]],
                     scr |-> s.scr - SCR_W, pos |-> s.pos - SCR_W]
           blank(t) == [vbuf |-> [x \in Cell |-> IF x \in (t.scr + wh)..(t.scr + wh + SCR_W - 1)
                                                 THEN " " ELSE t.vbuf[x]],
                        scr |-> t.scr + SCR_W, pos |-> t.pos]
<1>1. CASE s.scr = wh
  <2>1. s.scr + wh >= size
    BY <1>1, Sizes
  <2>2. scrup(s) = blank(moved)
    BY <2>1 DEF scrup
  <2>3. /\ moved.scr = s.scr - SCR_W /\ moved.pos = s.pos - SCR_W
        /\ \A x \in Cell : moved.vbuf[x] = s.vbuf[IF x < size - SCR_W THEN x + SCR_W ELSE x]
    OBVIOUS
  <2> HIDE DEF moved
  <2>4. /\ scrup(s).scr = s.scr - SCR_W + SCR_W /\ scrup(s).pos = s.pos - SCR_W
        /\ scrup(s).vbuf = [x \in Cell |-> IF x \in (s.scr - SCR_W + wh)..(s.scr - SCR_W + wh + SCR_W - 1)
                                           THEN " " ELSE moved.vbuf[x]]
        /\ scrup(s) = [vbuf |-> scrup(s).vbuf, scr |-> scrup(s).scr, pos |-> scrup(s).pos]
    <3> DEFINE v == [x \in Cell |-> IF x \in (s.scr - SCR_W + wh)..(s.scr - SCR_W + wh + SCR_W - 1)
                                    THEN " " ELSE moved.vbuf[x]]
    <3>1. scrup(s) = [vbuf |-> v, scr |-> s.scr - SCR_W + SCR_W, pos |-> s.pos - SCR_W]
      BY <2>2, <2>3
    <3> HIDE DEF v
    <3>2. scrup(s).vbuf = v /\ scrup(s).scr = s.scr - SCR_W + SCR_W /\ scrup(s).pos = s.pos - SCR_W
      BY <3>1, ScreenFields
    <3> QED
      BY Zenon, <3>1, <3>2 DEF v
  <2>5. /\ scrup(s).scr = s.scr + SCR_W - SCR_W /\ scrup(s).scr = s.scr /\ scrup(s).pos \in Int
    <3>1. s.scr - SCR_W + SCR_W = s.scr /\ s.scr + SCR_W - SCR_W = s.scr /\ s.pos - SCR_W \in Int
      BY <1>0, Sizes
    <3> QED
      BY Zenon, <2>4, <3>1
  <2>6. Framed(scrup(s))
    BY <1>0, <2>4, <2>5 DEF Framed
  <2>7. ASSUME NEW x \in SCR_W..(s.scr + wh - 1), x - SCR_W \in Cell
        PROVE  scrup(s).vbuf[x - SCR_W] = s.vbuf[x]
    <3>1. /\ x - SCR_W \notin (s.scr - SCR_W + wh)..(s.scr - SCR_W + wh + SCR_W - 1)
          /\ x - SCR_W < size - SCR_W /\ x - SCR_W + SCR_W = x
      BY <1>0, <1>1, Sizes
    <3> QED
      BY <2>3, <2>4, <2>7, <3>1
  <2>8. ASSUME Good(s) PROVE Good(scrup(s))
    <3>1. ASSUME NEW x \in Cell PROVE moved.vbuf[x] \in Ch \cup {" "}
      <4>1. (IF x < size - SCR_W THEN x + SCR_W ELSE x) \in Cell
        BY Sizes DEF Cell
      <4> QED
        BY <2>3, <2>8, <4>1 DEF Good
    <3> QED
      BY <2>4, <2>6, <3>1 DEF Good
  <2> QED
    BY <2>4, <2>5, <2>6, <2>7, <2>8
<1>2. CASE s.scr # wh
  <2>1. ~(s.scr + wh >= size)
    BY <1>0, <1>2, Sizes
  <2>2. scrup(s) = blank(s)
    BY <2>1 DEF scrup
  <2>4. /\ scrup(s).scr = s.scr + SCR_W /\ scrup(s).pos = s.pos
        /\ scrup(s).vbuf = [x \in Cell |-> IF x \in (s.scr + wh)..(s.scr + wh + SCR_W - 1)
                                           THEN " " ELSE s.vbuf[x]]
        /\ scrup(s) = [vbuf |-> scrup(s).vbuf, scr |-> scrup(s).scr, pos |-> scrup(s).pos]
    <3> DEFINE v == [x \in Cell |-> IF x \in (s.scr + wh)..(s.scr + wh + SCR_W - 1) THEN " " ELSE s.vbuf[x]]
    <3>1. scrup(s) = [vbuf |-> v, scr |-> s.scr + SCR_W, pos |-> s.pos]
      BY <2>2
    <3> HIDE DEF v
    <3>2. scrup(s).vbuf = v /\ scrup(s).scr = s.scr + SCR_W /\ scrup(s).pos = s.pos
      BY <3>1, ScreenFields
    <3> QED
      BY Zenon, <3>1, <3>2 DEF v
  <2>5. scrup(s).scr = s.scr + SCR_W - 0 /\ scrup(s).pos = s.pos - 0
    <3>1. s.scr + SCR_W - 0 = s.scr + SCR_W /\ s.pos - 0 = s.pos
      BY <1>0, Sizes
    <3> QED
      BY Zenon, <2>4, <3>1
  <2>6. Framed(scrup(s))
    BY <1>0, <1>2, <2>4 DEF Framed
  <2>7. ASSUME NEW x \in 0..(s.scr + wh - 1), x - 0 \in Cell
        PROVE  scrup(s).vbuf[x - 0] = s.vbuf[x]
    <3>1. x \notin (s.scr + wh)..(s.scr + wh + SCR_W - 1) /\ x - 0 = x
      BY <1>0, Sizes
    <3> QED
      BY <2>4, <2>7, <3>1
  <2>8. ASSUME Good(s) PROVE Good(scrup(s))
    BY <2>4, <2>6, <2>8 DEF Good
  <2> QED
    BY <2>5, <2>6, <2>7, <2>8
<1> QED
  BY <1>1, <1>2

\* The cells of a line that starts a row below the top of the window.
LEMMA LineCells ==
    ASSUME NEW scr \in Nat, scr <= wh, NEW pos \in Int, NEW p \in Int, NEW n \in Nat, NEW k \in 1..n,
           NEW d \in {0, SCR_W}, scr + SCR_W <= pos - p, pos - p + n <= scr + wh
    PROVE  /\ pos - p + k - 1 \in d..(scr + wh - 1) /\ (pos - p + k - 1) - d \in Cell
           /\ pos - d - p + k - 1 = (pos - p + k - 1) - d
<1>1. d \in Int /\ 0 <= d /\ d <= SCR_W
  BY Sizes
<1> QED
  BY <1>1, Sizes DEF Cell

\* A line on the screen is still on it when the window moves.
LEMMA ScrupLine ==
    ASSUME NEW s, Good(s), NEW l, Len(l) \in Nat, NEW p \in Int, On(s, l, p),
           s.scr + SCR_W <= s.pos - p, s.pos - p + Len(l) <= s.scr + wh
    PROVE  On(scrup(s), l, p)
<1>1. PICK d \in {0, SCR_W} :
          /\ scrup(s).pos = s.pos - d /\ scrup(s).scr = s.scr + SCR_W - d
          /\ \A x \in d..(s.scr + wh - 1) : x - d \in Cell => scrup(s).vbuf[x - d] = s.vbuf[x]
  BY ScrupFacts DEF Good
<1>2. ASSUME NEW k \in 1..Len(l) PROVE scrup(s).vbuf[scrup(s).pos - p + k - 1] = l[k]
  <2> DEFINE x == s.pos - p + k - 1
  <2>1. s.scr \in Nat /\ s.scr <= wh /\ s.pos \in Int
    BY RowFacts DEF Good, Framed
  <2>2. x \in d..(s.scr + wh - 1) /\ x - d \in Cell /\ s.pos - d - p + k - 1 = x - d
    BY ZenonT(30), <2>1, LineCells
  <2>3. s.vbuf[x] = l[k]
    BY DEF On
  <2> HIDE DEF x
  <2> QED
    BY <1>1, <2>2, <2>3
<1> QED
  BY <1>2 DEF On

\* Assignments to the fields of a screen.
LEMMA ScreenExcept ==
    ASSUME NEW s, s = [vbuf |-> s.vbuf, scr |-> s.scr, pos |-> s.pos], NEW v, NEW b
    PROVE  /\ [s EXCEPT !.vbuf = v] = [vbuf |-> v, scr |-> s.scr, pos |-> s.pos]
           /\ [s EXCEPT !.pos = b] = [vbuf |-> s.vbuf, scr |-> s.scr, pos |-> b]
  OBVIOUS

\* An assignment to vbuf leaves the window and the cursor.
LEMMA VbufExcept ==
    ASSUME NEW s, Framed(s), NEW v, NEW t, t = [s EXCEPT !.vbuf = v]
    PROVE  Framed(t) /\ t.vbuf = v /\ t.scr = s.scr /\ t.pos = s.pos
<1>1. t = [vbuf |-> v, scr |-> s.scr, pos |-> s.pos]
  BY Zenon, ScreenExcept DEF Framed
<1>2. t.vbuf = v /\ t.scr = s.scr /\ t.pos = s.pos
  BY <1>1, ScreenFields
<1>3. Framed(t)
  BY Zenon, <1>1, <1>2 DEF Framed
<1> QED
  BY Zenon, <1>2, <1>3

\* An assignment to pos leaves the window and the cells.
LEMMA PosExcept ==
    ASSUME NEW s, Framed(s), NEW b \in Int, NEW t, t = [s EXCEPT !.pos = b]
    PROVE  Framed(t) /\ t.vbuf = s.vbuf /\ t.scr = s.scr /\ t.pos = b
<1>1. t = [vbuf |-> s.vbuf, scr |-> s.scr, pos |-> b]
  BY Zenon, ScreenExcept DEF Framed
<1>2. t.vbuf = s.vbuf /\ t.scr = s.scr /\ t.pos = b
  BY <1>1, ScreenFields
<1>3. Framed(t)
  BY Zenon, <1>1, <1>2 DEF Framed
<1> QED
  BY Zenon, <1>2, <1>3

\* putc() writes the cell at the cursor and moves nothing.
LEMMA PutcFacts ==
    ASSUME NEW s, Framed(s), NEW ch
    PROVE  LET t == putc(s, ch)
           IN  Framed(t) /\ t.vbuf = [s.vbuf EXCEPT ![s.pos] = ch] /\ t.scr = s.scr /\ t.pos = s.pos
<1>1. putc(s, ch) = [s EXCEPT !.vbuf = [s.vbuf EXCEPT ![s.pos] = ch]]
  BY Zenon DEF putc
<1> QED
  BY <1>1, VbufExcept

\* The window is on rows of the buffer.
LEMMA WindowFacts ==
    ASSUME NEW s, Framed(s)
    PROVE  s.scr \in Nat /\ s.scr <= wh /\ s.pos \in Int
  BY RowFacts DEF Framed

\* next() scrolls at the last cell of the window.
LEMMA NextFacts ==
    ASSUME NEW s, Framed(s)
    PROVE  /\ Framed(next(s)) /\ (Good(s) => Good(next(s)))
           /\ InWindow(s) => InWindow(next(s))
           /\ s.pos # s.scr + wh - 1 => next(s).scr = s.scr /\ next(s).pos = s.pos + 1 /\ next(s).vbuf = s.vbuf
           /\ s.pos = s.scr + wh - 1 => /\ next(s).scr = scrup(s).scr /\ next(s).pos = scrup(s).pos + 1
                                        /\ next(s).vbuf = scrup(s).vbuf
<1>1. s.scr \in Nat /\ s.scr <= wh /\ s.pos \in Int
  BY WindowFacts
<1>2. CASE s.pos = s.scr + wh - 1
  <2>1. PICK d \in {0, SCR_W} :
            /\ Framed(scrup(s)) /\ (Good(s) => Good(scrup(s)))
            /\ scrup(s).pos = s.pos - d /\ scrup(s).scr = s.scr + SCR_W - d
    BY ScrupFacts
  <2>2. next(s) = [scrup(s) EXCEPT !.pos = scrup(s).pos + 1]
    BY Zenon, <1>2 DEF next
  <2>3. scrup(s).pos \in Int
    BY Zenon, <2>1 DEF Framed
  <2>4. scrup(s).pos + 1 \in Int
    BY <2>3
  <2>5. Framed(next(s)) /\ next(s).vbuf = scrup(s).vbuf /\ next(s).scr = scrup(s).scr
        /\ next(s).pos = scrup(s).pos + 1
    BY <2>1, <2>2, <2>4, PosExcept
  <2>6. Good(s) => Good(next(s))
    BY Zenon, <2>1, <2>5 DEF Good
  <2>7. ASSUME NEW a \in Nat, NEW b \in Int, NEW e \in Int, b = a + wh - 1, e \in {0, SCR_W}
        PROVE  b - e + 1 \in (a + SCR_W - e)..(a + SCR_W - e + wh - 1)
    <3>1. e \in Int /\ 0 <= e /\ e <= SCR_W
      BY <2>7, Sizes
    <3> QED
      BY <2>7, <3>1, Sizes
  <2>8. d \in Int
    BY Sizes
  <2>9. InWindow(next(s))
    BY Zenon, <1>1, <1>2, <2>1, <2>5, <2>7, <2>8 DEF InWindow
  <2> QED
    BY Zenon, <1>2, <2>5, <2>6, <2>9
<1>3. CASE s.pos # s.scr + wh - 1
  <2>1. next(s) = [s EXCEPT !.pos = s.pos + 1]
    BY Zenon, <1>3 DEF next
  <2>2. s.pos + 1 \in Int
    BY <1>1
  <2>3. Framed(next(s)) /\ next(s).vbuf = s.vbuf /\ next(s).scr = s.scr /\ next(s).pos = s.pos + 1
    BY <2>1, <2>2, PosExcept
  <2>4. Good(s) => Good(next(s))
    BY Zenon, <2>3 DEF Good
  <2>5. ASSUME NEW a \in Nat, NEW b \in Int, b # a + wh - 1, b \in a..(a + wh - 1)
        PROVE  b + 1 \in a..(a + wh - 1)
    BY <2>5, Sizes
  <2>6. InWindow(s) => InWindow(next(s))
    BY Zenon, <1>1, <1>3, <2>3, <2>5 DEF InWindow
  <2> QED
    BY Zenon, <1>3, <2>3, <2>4, <2>6
<1> QED
  BY Zenon, <1>2, <1>3

\* cr() stays in the window.
LEMMA CrFacts ==
    ASSUME NEW s, Framed(s)
    PROVE  /\ Framed(cr(s)) /\ cr(s).scr = s.scr /\ cr(s).vbuf = s.vbuf
           /\ InWindow(s) => InWindow(cr(s))
<1>1. s.scr \in Nat /\ s.scr \in Rows /\ s.pos \in Int
  BY WindowFacts DEF Framed
<1>2. ASSUME NEW b \in Int PROVE (IF b >= 0 THEN b % SCR_W ELSE -((-b) % SCR_W)) \in Int
  BY Sizes
<1>3. column(s) \in Int
  BY Zenon, <1>1, <1>2 DEF column
<1>4. s.pos - column(s) \in Int
  BY <1>1, <1>3
<1>5. cr(s) = [s EXCEPT !.pos = s.pos - column(s)]
  BY Zenon DEF cr
<1>6. Framed(cr(s)) /\ cr(s).vbuf = s.vbuf /\ cr(s).scr = s.scr /\ cr(s).pos = s.pos - column(s)
  BY <1>4, <1>5, PosExcept
<1>7. ASSUME NEW a \in Nat, a \in Rows, NEW b \in Int, b \in a..(a + wh - 1)
      PROVE  b >= 0 /\ b - (b % SCR_W) \in a..(a + wh - 1)
  <2>1. b % SCR_W \in 0..(SCR_W - 1) /\ a <= b - (b % SCR_W)
    BY <1>7, ColumnFacts
  <2> QED
    BY <1>7, <2>1, Sizes
<1>8. InWindow(s) => InWindow(cr(s))
  BY Zenon, <1>1, <1>6, <1>7 DEF InWindow, column
<1> QED
  BY Zenon, <1>6, <1>8

\* lf() stays in the window.
LEMMA LfFacts ==
    ASSUME NEW s, Framed(s)
    PROVE  Framed(lf(s)) /\ (InWindow(s) => InWindow(lf(s)))
<1>1. s.scr \in Nat /\ s.pos \in Int
  BY WindowFacts
<1> DEFINE t == [s EXCEPT !.pos = s.pos + SCR_W]
<1>2. s.pos + SCR_W \in Int
  BY <1>1, Sizes
<1>3. Framed(t) /\ t.scr = s.scr /\ t.pos = s.pos + SCR_W
  BY <1>2, PosExcept
<1>4. lf(s) = IF t.pos >= t.scr + wh THEN scrup(t) ELSE t
  BY Zenon DEF lf
<1> HIDE DEF t
<1>5. CASE t.pos >= t.scr + wh
  <2>1. PICK d \in {0, SCR_W} :
            Framed(scrup(t)) /\ scrup(t).pos = t.pos - d /\ scrup(t).scr = t.scr + SCR_W - d
    BY <1>3, ScrupFacts
  <2>2. ASSUME NEW a \in Nat, NEW b \in Int, NEW e \in {0, SCR_W}, b \in a..(a + wh - 1)
        PROVE  (b + SCR_W) - e \in (a + SCR_W - e)..(a + SCR_W - e + wh - 1)
    <3>1. e \in Int
      BY <2>2, Sizes
    <3> QED
      BY <2>2, <3>1, Sizes
  <2>3. InWindow(s) => InWindow(scrup(t))
    <3>1. scrup(t).pos = (s.pos + SCR_W) - d /\ scrup(t).scr = s.scr + SCR_W - d
      BY Zenon, <1>3, <2>1
    <3>2. s.pos \in s.scr..(s.scr + wh - 1)
          => (s.pos + SCR_W) - d \in (s.scr + SCR_W - d)..(s.scr + SCR_W - d + wh - 1)
      BY Zenon, <1>1, <2>2
    <3> QED
      BY Zenon, <3>1, <3>2 DEF InWindow
  <2> QED
    BY Zenon, <1>4, <1>5, <2>1, <2>3
<1>6. CASE ~(t.pos >= t.scr + wh)
  <2>1. ASSUME NEW a \in Nat, NEW b \in Int, b \in a..(a + wh - 1), ~(b + SCR_W >= a + wh)
        PROVE  b + SCR_W \in a..(a + wh - 1)
    BY <2>1, Sizes
  <2>2. InWindow(s) => InWindow(t)
    BY Zenon, <1>1, <1>3, <1>6, <2>1 DEF InWindow
  <2> QED
    BY Zenon, <1>3, <1>4, <1>6, <2>2
<1> QED
  BY Zenon, <1>5, <1>6

\* consl_writec() stays in the window.
LEMMA WritecFacts ==
    ASSUME NEW s, Framed(s), NEW ch \in {" ", "\n", "\r"}
    PROVE  Framed(consl_writec(s, ch)) /\ (InWindow(s) => InWindow(consl_writec(s, ch)))
<1>1. CASE ch = "\r"
  BY Zenon, <1>1, CrFacts DEF consl_writec
<1>2. CASE ch = "\n"
  <2>1. consl_writec(s, ch) = lf(cr(s))
    BY <1>2 DEF consl_writec
  <2> QED
    BY Zenon, <2>1, CrFacts, LfFacts
<1>3. CASE ch = " "
  <2>1. consl_writec(s, ch) = next(putc(s, ch))
    BY <1>3 DEF consl_writec
  <2>2. Framed(putc(s, ch)) /\ putc(s, ch).scr = s.scr /\ putc(s, ch).pos = s.pos
    BY Zenon, PutcFacts
  <2>3. InWindow(s) => InWindow(putc(s, ch))
    BY Zenon, <2>2 DEF InWindow
  <2> QED
    BY Zenon, <2>1, <2>2, <2>3, NextFacts
<1> QED
  BY Zenon, <1>1, <1>2, <1>3

\* One round of the loop writes one cell.
LEMMA ShiftFacts ==
    ASSUME NEW s, Framed(s), NEW k
    PROVE  LET t == IF s.pos + k = s.scr + wh + 1 THEN scrup(s) ELSE s
           IN  /\ Framed(shift(s, k)) /\ shift(s, k).pos = t.pos /\ shift(s, k).scr = t.scr
               /\ shift(s, k).vbuf = [t.vbuf EXCEPT ![t.pos + k] = t.vbuf[t.pos + k - 1]]
<1> DEFINE t == IF s.pos + k = s.scr + wh + 1 THEN scrup(s) ELSE s
<1>1. Framed(t)
  BY Zenon, ScrupFacts
<1>2. shift(s, k) = [t EXCEPT !.vbuf = [t.vbuf EXCEPT ![t.pos + k] = t.vbuf[t.pos + k - 1]]]
  BY Zenon DEF shift
<1> HIDE DEF t
<1>3. Framed(shift(s, k)) /\ shift(s, k).pos = t.pos /\ shift(s, k).scr = t.scr
      /\ shift(s, k).vbuf = [t.vbuf EXCEPT ![t.pos + k] = t.vbuf[t.pos + k - 1]]
  BY <1>1, <1>2, VbufExcept
<1> QED
  BY Zenon, <1>3 DEF t

\* A round leaves the window on rows of the buffer.
LEMMA ShiftFramed == ASSUME NEW s, Framed(s), NEW k PROVE Framed(shift(s, k))
  BY Zenon, ShiftFacts

\* Whatever the cursor, the loop leaves the window on rows of the buffer.
LEMMA RoundsFramed ==
    ASSUME cc \in Nat, Framed(c)
    PROVE  \A k \in 0..(cc + 1) : Framed(Rounds[k])
<1> DEFINE T == {k \in 0..(cc + 1) : ~Framed(Rounds[k])}
<1> SUFFICES ASSUME T # {} PROVE FALSE
  OBVIOUS
<1>1. T \in SUBSET Nat
  OBVIOUS
<1>2. PICK k \in T : \A x \in T : k <= x
  BY Zenon, <1>1, Least
<1>3. k # 0
  BY Zenon, <1>2, RoundsUnfold
<1>4. k \in 1..(cc + 1) /\ k - 1 \in 0..(cc + 1) /\ ~(k <= k - 1)
  BY <1>2, <1>3
<1>5. Framed(Rounds[k - 1])
  BY Zenon, <1>2, <1>4
<1>6. Rounds[k] = shift(Rounds[k - 1], cc + 2 - k)
  BY Zenon, <1>4, RoundsUnfold
<1>7. Framed(Rounds[k])
  BY Zenon, <1>5, <1>6, ShiftFramed
<1> QED
  BY Zenon, <1>2, <1>7

\* The line is edited: what ScreenInv says of a cursor that is not upset.
Editing == ScreenInv /\ ~upset /\ Len(lbuf) + 1 < LBUF_SZ

\* The screen the loop of consl_accept shifts: it scrolls in the first round or never.
Base == IF c.pos + cc = c.scr + wh THEN scrup(c) ELSE c

\* What the invariant says of the types.
LEMMA InvFacts ==
    ASSUME ScreenInv
    PROVE  /\ Good(c) /\ c.scr \in Nat /\ c.scr <= wh /\ c.pos \in Int
           /\ Len(lbuf) \in Nat /\ i \in Nat /\ i <= Len(lbuf) /\ cc \in Nat /\ i + cc = Len(lbuf)
           /\ lbuf \in Seq(Ch)
<1>1. Good(c)
  BY Zenon, GoodScreen DEF ScreenInv
<1>2. c.scr \in Nat /\ c.scr <= wh /\ c.pos \in Int
  BY Zenon, <1>1, WindowFacts DEF Good
<1>3. lbuf \in Seq(Ch) /\ i \in 0..Len(lbuf)
  BY Zenon DEF ScreenInv
<1>4. Len(lbuf) \in Nat
  BY <1>3
<1>5. i \in Nat /\ i <= Len(lbuf) /\ cc \in Nat /\ i + cc = Len(lbuf)
  BY <1>3, <1>4 DEF cc
<1> QED
  BY Zenon, <1>1, <1>2, <1>3, <1>4, <1>5

\* When the loop has scrolled, the line and one more character are in the window.
LEMMA BaseFacts ==
    ASSUME Editing
    PROVE  /\ Good(Base) /\ Base.pos \in Nat /\ Base.scr \in Nat /\ Base.scr <= wh
           /\ Base.scr <= Base.pos - i /\ Base.pos - i < Base.scr + wh
           /\ Base.pos + cc + 1 <= Base.scr + wh
           /\ On(Base, lbuf, i)
<1>1. /\ Good(c) /\ c.scr \in Nat /\ c.scr <= wh /\ c.pos \in Int
      /\ Len(lbuf) \in Nat /\ i \in Nat /\ i <= Len(lbuf) /\ cc \in Nat /\ i + cc = Len(lbuf)
      /\ Len(lbuf) + 1 < LBUF_SZ
  BY Zenon, InvFacts DEF Editing
<1>2. c.scr <= c.pos - i /\ c.pos - i < c.scr + wh /\ c.pos + cc <= c.scr + wh
  BY Zenon DEF Editing, ScreenInv, LineInWindow
<1>3. On(c, lbuf, i)
  BY Zenon DEF Editing, ScreenInv, LineOnScreen, On
<1>4. CASE c.pos + cc = c.scr + wh
  <2>1. PICK d \in {0, SCR_W} :
            Good(scrup(c)) /\ scrup(c).pos = c.pos - d /\ scrup(c).scr = c.scr + (SCR_W - d)
    BY Zenon, <1>1, ScrupFacts DEF Good
  <2>2. ASSUME NEW a \in Nat, NEW b \in Int, NEW p \in Nat, NEW n \in Nat, NEW e \in {0, SCR_W},
               a <= b - p, b + n = a + wh, p + n + 1 < LBUF_SZ
        PROVE  /\ b - e \in Nat /\ a + (SCR_W - e) <= (b - e) - p /\ (b - e) - p < (a + (SCR_W - e)) + wh
               /\ (b - e) + n + 1 <= (a + (SCR_W - e)) + wh
               /\ a + SCR_W <= b - p /\ b - p + (p + n) <= a + wh
    <3>1. e \in Int /\ 0 <= e /\ e <= SCR_W
      BY <2>2, Sizes
    <3> QED
      BY <2>2, <3>1, Sizes
  <2>3. /\ scrup(c).pos \in Nat /\ scrup(c).scr <= scrup(c).pos - i
        /\ scrup(c).pos - i < scrup(c).scr + wh /\ scrup(c).pos + cc + 1 <= scrup(c).scr + wh
        /\ c.scr + SCR_W <= c.pos - i /\ c.pos - i + Len(lbuf) <= c.scr + wh
    <3>1. i + cc + 1 < LBUF_SZ
      BY Zenon, <1>1
    <3>2. /\ c.pos - d \in Nat /\ c.scr + (SCR_W - d) <= (c.pos - d) - i
          /\ (c.pos - d) - i < (c.scr + (SCR_W - d)) + wh
          /\ (c.pos - d) + cc + 1 <= (c.scr + (SCR_W - d)) + wh
          /\ c.scr + SCR_W <= c.pos - i /\ c.pos - i + (i + cc) <= c.scr + wh
      BY Zenon, <1>1, <1>2, <1>4, <2>2, <3>1
    <3> QED
      BY Zenon, <1>1, <2>1, <3>2
  <2>4. On(scrup(c), lbuf, i)
    <3>1. i \in Int
      BY <1>1
    <3> QED
      BY Zenon, <1>1, <1>3, <2>3, <3>1, ScrupLine
  <2>5. scrup(c).scr \in Nat /\ scrup(c).scr <= wh
    BY Zenon, <2>1, WindowFacts DEF Good
  <2> QED
    BY Zenon, <1>4, <2>1, <2>3, <2>4, <2>5 DEF Base
<1>5. CASE c.pos + cc # c.scr + wh
  <2>1. ASSUME NEW a \in Nat, NEW b \in Int, NEW p \in Nat, NEW n \in Nat,
               a <= b - p, b + n <= a + wh, b + n # a + wh
        PROVE  b \in Nat /\ b + n + 1 <= a + wh
    BY <2>1, Sizes
  <2>2. c.pos \in Nat /\ c.pos + cc + 1 <= c.scr + wh
    BY Zenon, <1>1, <1>2, <1>5, <2>1
  <2> QED
    BY Zenon, <1>1, <1>2, <1>3, <1>5, <2>2 DEF Base
<1> QED
  BY Zenon, <1>4, <1>5

\* The cells from lo to hi take what was in the cell before them.
Moved(v, lo, hi) == [x \in Cell |-> IF x \in lo..hi THEN v[x - 1] ELSE v[x]]

\* One more cell is shifted.
LEMMA MovedOne ==
    ASSUME NEW v, NEW lo \in Cell, NEW hi \in Cell, lo <= hi, lo # 0
    PROVE  [Moved(v, lo + 1, hi) EXCEPT ![lo] = Moved(v, lo + 1, hi)[lo - 1]] = Moved(v, lo, hi)
<1>1. lo \in Nat /\ hi \in Nat /\ lo - 1 \in Cell
  BY Sizes DEF Cell
<1>2. Moved(v, lo + 1, hi)[lo - 1] = v[lo - 1]
  <2>1. lo - 1 \notin (lo + 1)..hi
    BY <1>1
  <2> QED
    BY Zenon, <1>1, <2>1 DEF Moved
<1>3. ASSUME NEW x \in Cell
      PROVE  [Moved(v, lo + 1, hi) EXCEPT ![lo] = v[lo - 1]][x] = Moved(v, lo, hi)[x]
  <2>1. CASE x = lo
    <3>1. x \in lo..hi
      BY <1>1, <2>1
    <3>2. Moved(v, lo, hi)[x] = v[lo - 1]
      BY Zenon, <2>1, <3>1 DEF Moved
    <3>3. DOMAIN Moved(v, lo + 1, hi) = Cell
      BY Zenon DEF Moved
    <3> QED
      BY Zenon, <2>1, <3>2, <3>3
  <2>2. CASE x # lo
    <3>1. x \in lo..hi <=> x \in (lo + 1)..hi
      BY <1>1, <2>2 DEF Cell
    <3>2. Moved(v, lo, hi)[x] = Moved(v, lo + 1, hi)[x]
      BY Zenon, <3>1 DEF Moved
    <3>3. DOMAIN Moved(v, lo + 1, hi) = Cell
      BY Zenon DEF Moved
    <3> QED
      BY Zenon, <2>2, <3>2, <3>3
  <2> QED
    BY Zenon, <2>1, <2>2
<1>4. /\ [Moved(v, lo + 1, hi) EXCEPT ![lo] = v[lo - 1]]
         = [x \in Cell |-> [Moved(v, lo + 1, hi) EXCEPT ![lo] = v[lo - 1]][x]]
      /\ Moved(v, lo, hi) = [x \in Cell |-> Moved(v, lo, hi)[x]]
  BY Zenon DEF Moved
<1>5. [Moved(v, lo + 1, hi) EXCEPT ![lo] = v[lo - 1]] = Moved(v, lo, hi)
  BY Zenon, <1>3, <1>4
<1> QED
  BY Zenon, <1>2, <1>5

\* No cell is shifted.
LEMMA MovedNone ==
    ASSUME NEW D, NEW v \in [Cell -> D], NEW hi \in Int
    PROVE  Moved(v, hi + 1, hi) = v
<1>1. \A x \in Cell : x \notin (hi + 1)..hi
  BY DEF Cell
<1> QED
  BY Zenon, <1>1 DEF Moved

\* After k rounds the last k cells are shifted.
RoundIs(k) ==
    /\ Rounds[k].pos = Base.pos /\ Rounds[k].scr = Base.scr
    /\ Rounds[k].vbuf = Moved(Base.vbuf, Base.pos + (cc + 2 - k), Base.pos + cc + 1)

\* The loop shifts the rest of the line by one cell, round after round.
LEMMA RoundsMoved == ASSUME Editing PROVE \A k \in 1..(cc + 1) : RoundIs(k)
<1>1. cc \in Nat /\ Good(c) /\ Framed(c) /\ c.pos \in Int /\ c.scr \in Nat /\ cc + 1 \in 1..(cc + 1)
  <2>1. cc \in Nat /\ Good(c) /\ Framed(c) /\ c.pos \in Int /\ c.scr \in Nat
    BY Zenon, InvFacts DEF Editing, Good
  <2> QED
    BY <2>1
<1>2. Good(Base) /\ Base.pos \in Nat /\ Base.scr \in Nat /\ Base.scr <= wh /\ Base.pos + cc + 1 <= Base.scr + wh
  BY Zenon, BaseFacts
<1>3. Base.pos + cc + 1 \in Cell /\ \A k \in 1..(cc + 1) : /\ Base.pos + (cc + 2 - k) \in Cell
                                                          /\ Base.pos + (cc + 2 - k) <= Base.pos + cc + 1
                                                          /\ Base.pos + (cc + 2 - k) # 0
  <2>1. ASSUME NEW b \in Nat, NEW a \in Nat, a <= wh, b + cc + 1 <= a + wh
        PROVE  b + cc + 1 \in Cell /\ \A k \in 1..(cc + 1) : /\ b + (cc + 2 - k) \in Cell
                                                            /\ b + (cc + 2 - k) <= b + cc + 1
                                                            /\ b + (cc + 2 - k) # 0
    BY <1>1, <2>1, Sizes DEF Cell
  <2> QED
    BY Zenon, <1>2, <2>1
<1>4. Base.vbuf \in [Cell -> Ch \cup {" "}]
  BY Zenon, <1>2 DEF Good
<1> DEFINE T == {k \in 1..(cc + 1) : ~RoundIs(k)}
<1> SUFFICES ASSUME T # {} PROVE FALSE
  OBVIOUS
<1>5. T \in SUBSET Nat
  BY <1>1
<1>6. PICK k \in T : \A x \in T : k <= x
  BY Zenon, <1>5, Least
<1>7. k \in 1..(cc + 1) /\ ~RoundIs(k)
  BY <1>6
<1>8. Rounds[k] = shift(Rounds[k - 1], cc + 2 - k)
  BY Zenon, <1>1, <1>7, RoundsUnfold
<1> DEFINE j == cc + 2 - k
           r == Rounds[k - 1]
           u == IF r.pos + j = r.scr + wh + 1 THEN scrup(r) ELSE r
           lo == Base.pos + j
           hi == Base.pos + cc + 1
<1>9. u.pos = Base.pos /\ u.scr = Base.scr /\ u.vbuf = Moved(Base.vbuf, lo + 1, hi) /\ Framed(r)
  <2>1. CASE k = 1
    <3>1. k - 1 = 0 /\ j = cc + 1 /\ (c.pos + j = c.scr + wh + 1 <=> c.pos + cc = c.scr + wh)
      BY <1>1, <2>1, Sizes
    <3>2. r = c
      BY Zenon, <1>1, <3>1, RoundsUnfold
    <3>3. u = Base
      BY Zenon, <3>1, <3>2 DEF Base
    <3>4. lo = hi /\ hi \in Int
      BY <1>1, <1>2, <3>1
    <3> HIDE DEF u, lo, hi, j, r
    <3>5. Moved(Base.vbuf, lo + 1, hi) = Base.vbuf
      BY <1>4, <3>4, MovedNone
    <3> QED
      BY Zenon, <1>1, <3>2, <3>3, <3>5
  <2>2. CASE k # 1
    <3>1. k - 1 \in 1..(cc + 1) /\ ~(k <= k - 1) /\ k - 1 \in 0..(cc + 1) /\ j \in Nat /\ j <= cc
          /\ cc + 2 - (k - 1) = j + 1
      BY <1>1, <1>7, <2>2
    <3>2. RoundIs(k - 1)
      BY Zenon, <1>6, <3>1
    <3>3. Base.pos + (j + 1) = lo + 1
      BY <1>1, <1>2, <3>1
    <3>4. r.pos = Base.pos /\ r.scr = Base.scr /\ r.vbuf = Moved(Base.vbuf, lo + 1, hi)
      BY Zenon, <3>1, <3>2, <3>3 DEF RoundIs
    <3>5. Framed(r)
      BY Zenon, <1>1, <3>1, RoundsFramed
    <3>6. ASSUME NEW b \in Nat, NEW a \in Nat, b + cc + 1 <= a + wh PROVE b + j # a + wh + 1
      BY <1>1, <3>1, <3>6, Sizes
    <3>7. r.pos + j # r.scr + wh + 1
      BY Zenon, <1>2, <3>4, <3>6
    <3> QED
      BY Zenon, <3>4, <3>5, <3>7
  <2> QED
    BY Zenon, <2>1, <2>2
<1>10. /\ Rounds[k].pos = u.pos /\ Rounds[k].scr = u.scr
       /\ Rounds[k].vbuf = [u.vbuf EXCEPT ![u.pos + j] = u.vbuf[u.pos + j - 1]]
  <2>1. Rounds[k] = shift(r, j)
    BY Zenon, <1>8
  <2>2. Framed(r)
    BY Zenon, <1>9
  <2> HIDE DEF r, j
  <2>3. /\ shift(r, j).pos = u.pos /\ shift(r, j).scr = u.scr
        /\ shift(r, j).vbuf = [u.vbuf EXCEPT ![u.pos + j] = u.vbuf[u.pos + j - 1]]
    BY ZenonT(60), <2>2, ShiftFacts
  <2> QED
    BY Zenon, <2>1, <2>3
<1>11. lo \in Cell /\ hi \in Cell /\ lo <= hi /\ lo # 0 /\ Base.pos + j - 1 = lo - 1
  <2>1. j \in Nat /\ Base.pos + j - 1 = lo - 1
    BY <1>1, <1>2, <1>7
  <2> QED
    BY Zenon, <1>3, <1>7, <2>1
<1> HIDE DEF u, r
<1>12. Rounds[k].vbuf = Moved(Base.vbuf, lo, hi)
  <2> HIDE DEF lo, hi, j
  <2>1. [Moved(Base.vbuf, lo + 1, hi) EXCEPT ![lo] = Moved(Base.vbuf, lo + 1, hi)[lo - 1]] = Moved(Base.vbuf, lo, hi)
    BY Zenon, <1>11, MovedOne
  <2>2. u.pos + j = lo /\ u.pos + j - 1 = lo - 1
    BY Zenon, <1>9, <1>11 DEF lo
  <2> QED
    BY Zenon, <1>9, <1>10, <2>1, <2>2
<1>13. RoundIs(k)
  BY Zenon, <1>9, <1>10, <1>12 DEF RoundIs
<1> QED
  BY Zenon, <1>7, <1>13

-----------------------------------------------------------------------------
(* What a step leaves                                                       *)

\* The line l is on screen s and in its window, with p characters before the cursor.
Placed(s, l, p) ==
    /\ Good(s) /\ On(s, l, p)
    /\ s.scr <= s.pos - p /\ s.pos - p < s.scr + wh
    /\ s.pos - p + Len(l) <= s.scr + wh

\* The invariant, as a line in its place.
LEMMA InvPlaced == ASSUME ScreenInv, ~upset PROVE Placed(c, lbuf, i)
<1>1. /\ Good(c) /\ c.scr \in Nat /\ c.pos \in Int /\ cc \in Nat
      /\ Len(lbuf) \in Nat /\ i \in Nat /\ i + cc = Len(lbuf)
  BY Zenon, InvFacts
<1>2. /\ c.scr <= c.pos - i /\ c.pos - i < c.scr + wh /\ c.pos + cc <= c.scr + wh /\ LineOnScreen
  BY Zenon DEF ScreenInv, LineInWindow
<1>3. ASSUME NEW b \in Int, NEW a \in Nat, b + cc <= a + wh PROVE b - i + Len(lbuf) <= a + wh
  BY <1>1, <1>3, Sizes
<1>4. On(c, lbuf, i)
  BY Zenon, <1>2 DEF LineOnScreen, On
<1> QED
  BY Zenon, <1>1, <1>2, <1>3, <1>4 DEF Placed

\* A screen that is cleared keeps its window and its cursor.
LEMMA BlankFacts ==
    \A s : Framed(s) => LET t == [s EXCEPT !.vbuf = Blank]
                        IN  Framed(t) /\ t.vbuf = Blank /\ t.scr = s.scr /\ t.pos = s.pos
<1> TAKE s
<1> HAVE Framed(s)
<1> DEFINE t == [s EXCEPT !.vbuf = Blank]
<1>1. t = [s EXCEPT !.vbuf = Blank]
  OBVIOUS
<1> HIDE DEF t
<1>2. Framed(t) /\ t.vbuf = Blank /\ t.scr = s.scr /\ t.pos = s.pos
  BY <1>1, VbufExcept
<1> QED
  BY Zenon, <1>2 DEF t

\* become() keeps the invariant if it is given a line in its place, or none.
LEMMA BecomeKeeps ==
    ASSUME ScreenInv, ~stray, NEW s, Framed(s), NEW l \in Seq(Ch), Len(l) < LBUF_SZ,
           NEW p \in 0..Len(l), NEW u \in BOOLEAN, NEW lo, NEW hi,
           ~upset => lo >= 0 /\ hi <= size,
           ~upset /\ ~u => Placed(s, l, p) \/ (l = <<>> /\ InWindow(s)),
           become(s, l, p, lo, hi, u)
    PROVE  ScreenInv'
<1>1. CASE ~(lo >= 0 /\ hi <= size)
  <2>1. stray' = TRUE /\ c' = c /\ lbuf' = lbuf /\ i' = i /\ upset' = upset /\ upset
    BY Zenon, <1>1 DEF become
  <2>2. /\ c' \in [vbuf : [Cell -> Ch \cup {" "}], scr : Rows, pos : Int]
        /\ lbuf' \in Seq(Ch) /\ Len(lbuf') < LBUF_SZ /\ i' \in 0..Len(lbuf')
        /\ upset' \in BOOLEAN
    BY Zenon, <2>1 DEF ScreenInv
  <2> QED
    BY Zenon, <2>1, <2>2 DEF ScreenInv, Cell
<1>2. CASE lo >= 0 /\ hi <= size
  <2>1. /\ lbuf' = l /\ i' = p /\ stray' = stray
        /\ upset' = ((upset \/ u) /\ ~(l = <<>> /\ InWindow(s)))
        /\ c' = IF upset' \/ l = <<>> THEN [s EXCEPT !.vbuf = Blank] ELSE s
    BY Zenon, <1>2 DEF become
  <2>2. upset \in BOOLEAN /\ upset' \in BOOLEAN /\ stray' = FALSE
    BY Zenon, <2>1 DEF ScreenInv
  <2>3. Len(l) \in Nat /\ p \in Nat /\ s.pos \in Int /\ s.scr \in Nat
    <3>1. s.pos \in Int /\ s.scr \in Nat
      BY Zenon, WindowFacts
    <3> QED
      BY <3>1
  <2>4. ~upset' => Placed(s, l, p) \/ (l = <<>> /\ InWindow(s))
    BY Zenon, <2>1, <2>2
  <2>5. Good(c') /\ c'.scr = s.scr /\ c'.pos = s.pos
    <3>1. CASE upset' \/ l = <<>>
      <4>1. c' = [s EXCEPT !.vbuf = Blank]
        BY Zenon, <2>1, <3>1
      <4>2. Framed(c') /\ c'.vbuf = Blank /\ c'.scr = s.scr /\ c'.pos = s.pos
        BY Zenon, <4>1, BlankFacts
      <4>3. Blank \in [Cell -> Ch \cup {" "}]
        BY Zenon DEF Blank
      <4> QED
        BY Zenon, <4>2, <4>3 DEF Good
    <3>2. CASE ~(upset' \/ l = <<>>)
      BY Zenon, <2>1, <2>4, <3>2 DEF Placed
    <3> QED
      BY Zenon, <3>1, <3>2
  <2>6. c' \in [vbuf : [Cell -> Ch \cup {" "}], scr : Rows, pos : Int]
    BY Zenon, <2>5, GoodScreen
  <2>7. ASSUME ~upset'
        PROVE  /\ s.scr <= s.pos - p /\ s.pos - p < s.scr + wh
               /\ s.pos + (Len(l) - p) <= s.scr + wh
    <3>1. CASE Placed(s, l, p)
      <4>1. ASSUME NEW b \in Int, NEW a \in Nat, b - p + Len(l) <= a + wh PROVE b + (Len(l) - p) <= a + wh
        BY <2>3, <4>1, Sizes
      <4>2. s.scr <= s.pos - p /\ s.pos - p < s.scr + wh /\ s.pos - p + Len(l) <= s.scr + wh
        BY Zenon, <3>1 DEF Placed
      <4> QED
        BY Zenon, <2>3, <4>1, <4>2
    <3>2. CASE l = <<>> /\ InWindow(s)
      <4>1. Len(l) = 0 /\ p = 0
        BY <3>2
      <4>2. ASSUME NEW b \in Int, NEW a \in Nat, b \in a..(a + wh - 1)
            PROVE  a <= b - 0 /\ b - 0 < a + wh /\ b + (0 - 0) <= a + wh
        BY <4>2, Sizes
      <4> QED
        BY Zenon, <2>3, <3>2, <4>1, <4>2 DEF InWindow
    <3> QED
      BY Zenon, <2>4, <2>7, <3>1, <3>2
  <2>8. ASSUME ~upset' PROVE LineOnScreen'
    <3>1. CASE l = <<>>
      <4>1. 1..Len(lbuf') = {}
        BY <2>1, <3>1
      <4> QED
        BY Zenon, <4>1 DEF LineOnScreen
    <3>2. CASE l # <<>>
      <4>1. c' = s /\ On(s, l, p)
        BY Zenon, <2>1, <2>4, <2>8, <3>2 DEF Placed
      <4> QED
        BY Zenon, <2>1, <4>1 DEF On, LineOnScreen
    <3> QED
      BY Zenon, <3>1, <3>2
  <2>9. ASSUME ~upset' PROVE LineInWindow'
    BY Zenon, <2>1, <2>5, <2>7, <2>9 DEF LineInWindow, cc
  <2>10. lbuf' \in Seq(Ch) /\ Len(lbuf') < LBUF_SZ /\ i' \in 0..Len(lbuf')
    BY Zenon, <2>1
  <2> QED
    BY Zenon, <2>2, <2>6, <2>8, <2>9, <2>10 DEF ScreenInv, Cell
<1> QED
  BY Zenon, <1>1, <1>2

\* memmove(lbuf + i + 1, lbuf + i, ...) and lbuf[i] = ch: where the characters go.
LEMMA InsertFacts ==
    ASSUME NEW s \in Seq(Ch), NEW n \in 1..(Len(s) + 1), NEW e \in Ch
    PROVE  /\ InsertAt(s, n, e) \in Seq(Ch)
           /\ Len(InsertAt(s, n, e)) = Len(s) + 1
           /\ \A k \in 1..(Len(s) + 1) :
                 /\ k < n => InsertAt(s, n, e)[k] = s[k]
                 /\ k = n => InsertAt(s, n, e)[k] = e
                 /\ ~(k < n) /\ k # n => InsertAt(s, n, e)[k] = s[k - 1]
<1> DEFINE a == SubSeq(s, 1, n - 1)
           b == SubSeq(s, n, Len(s))
<1>1. /\ a \in Seq(Ch) /\ b \in Seq(Ch)
      /\ Len(a) = n - 1 /\ Len(b) = (Len(s) - n) + 1
      /\ \A k \in 1..Len(a) : a[k] = s[k]
      /\ \A k \in 1..Len(b) : b[k] = s[n - 1 + k]
  OBVIOUS
<1> DEFINE d == a \o <<e>>
<1>2. InsertAt(s, n, e) = d \o b
  BY Zenon DEF InsertAt
<1> HIDE DEF a, b
<1>3. ASSUME NEW u \in Seq(Ch), NEW v \in Seq(Ch)
      PROVE  /\ u \o v \in Seq(Ch)
             /\ Len(u \o v) = Len(u) + Len(v)
             /\ \A k \in 1..(Len(u) + Len(v)) :
                   (u \o v)[k] = IF k <= Len(u) THEN u[k] ELSE v[k - Len(u)]
  OBVIOUS
<1>4. <<e>> \in Seq(Ch) /\ Len(<<e>>) = 1 /\ <<e>>[1] = e
  OBVIOUS
<1>5. /\ d \in Seq(Ch) /\ Len(d) = Len(a) + 1
      /\ \A k \in 1..(Len(a) + 1) : d[k] = IF k <= Len(a) THEN a[k] ELSE <<e>>[k - Len(a)]
  BY <1>1, <1>3, <1>4
<1> HIDE DEF d
<1>6. /\ d \in Seq(Ch) /\ Len(d) = n
      /\ \A k \in 1..n : d[k] = IF k < n THEN s[k] ELSE e
  BY <1>1, <1>4, <1>5
<1>7. /\ d \o b \in Seq(Ch) /\ Len(d \o b) = Len(d) + Len(b)
      /\ \A k \in 1..(Len(d) + Len(b)) : (d \o b)[k] = IF k <= Len(d) THEN d[k] ELSE b[k - Len(d)]
  BY Zenon, <1>1, <1>3, <1>6
<1>8. Len(s) \in Nat /\ Len(d) + Len(b) = Len(s) + 1
  BY <1>1, <1>6
<1>9. ASSUME NEW k \in 1..(Len(s) + 1)
      PROVE  /\ k < n => (d \o b)[k] = s[k]
             /\ k = n => (d \o b)[k] = e
             /\ ~(k < n) /\ k # n => (d \o b)[k] = s[k - 1]
  <2>1. k \in 1..(Len(d) + Len(b))
    BY <1>8
  <2>2. CASE k <= n
    BY <1>6, <1>7, <2>1, <2>2
  <2>3. CASE k > n
    <3>1. k - n \in 1..Len(b) /\ n - 1 + (k - n) = k - 1 /\ ~(k < n) /\ k # n /\ ~(k <= n)
      BY <1>1, <2>3
    <3>2. (d \o b)[k] = b[k - n]
      BY Zenon, <1>6, <1>7, <2>1, <3>1
    <3>3. b[k - n] = s[k - 1]
      BY Zenon, <1>1, <3>1
    <3> QED
      BY Zenon, <3>1, <3>2, <3>3
  <2>4. k <= n \/ k > n
    BY <1>8
  <2> QED
    BY Zenon, <2>2, <2>3, <2>4
<1> QED
  BY Zenon, <1>2, <1>7, <1>8, <1>9

\* next() on a line that has a character at the cursor.
LEMMA NextPlaced ==
    ASSUME NEW t, NEW l, NEW p \in Nat, Placed(t, l, p), Len(l) \in Nat, Len(l) < LBUF_SZ, p < Len(l)
    PROVE  Placed(next(t), l, p + 1)
<1>1. /\ Good(t) /\ Framed(t) /\ On(t, l, p) /\ t.pos \in Int /\ t.scr \in Nat /\ t.scr <= wh
      /\ t.scr <= t.pos - p /\ t.pos - p < t.scr + wh /\ t.pos - p + Len(l) <= t.scr + wh
  BY Zenon, WindowFacts DEF Placed, Good
<1>2. Good(next(t)) /\ Framed(next(t))
  BY Zenon, <1>1, NextFacts
<1>3. CASE t.pos # t.scr + wh - 1
  <2>1. next(t).scr = t.scr /\ next(t).pos = t.pos + 1 /\ next(t).vbuf = t.vbuf
    BY Zenon, <1>1, <1>3, NextFacts
  <2>2. ASSUME NEW b \in Int PROVE (b + 1) - (p + 1) = b - p
    OBVIOUS
  <2>3. next(t).pos - (p + 1) = t.pos - p
    BY Zenon, <1>1, <2>1, <2>2
  <2>4. On(next(t), l, p + 1)
    BY Zenon, <1>1, <2>1, <2>3 DEF On
  <2> QED
    BY Zenon, <1>1, <1>2, <2>1, <2>3, <2>4 DEF Placed
<1>4. CASE t.pos = t.scr + wh - 1
  <2>1. next(t).scr = scrup(t).scr /\ next(t).pos = scrup(t).pos + 1 /\ next(t).vbuf = scrup(t).vbuf
    BY Zenon, <1>1, <1>4, NextFacts
  <2>2. PICK d \in {0, SCR_W} : scrup(t).pos = t.pos - d /\ scrup(t).scr = t.scr + SCR_W - d
    BY Zenon, <1>1, ScrupFacts
  <2>3. ASSUME NEW b \in Int, NEW a \in Nat, b = a + wh - 1, b - p + Len(l) <= a + wh
        PROVE  /\ a + SCR_W <= b - p
               /\ ((b - d) + 1) - (p + 1) = (b - d) - p
               /\ a + SCR_W - d <= (b - d) - p /\ (b - d) - p < (a + SCR_W - d) + wh
               /\ (b - d) - p + Len(l) <= (a + SCR_W - d) + wh
    BY <2>2, <2>3, Sizes
  <2>4. /\ t.scr + SCR_W <= t.pos - p
        /\ ((t.pos - d) + 1) - (p + 1) = (t.pos - d) - p
        /\ t.scr + SCR_W - d <= (t.pos - d) - p /\ (t.pos - d) - p < (t.scr + SCR_W - d) + wh
        /\ (t.pos - d) - p + Len(l) <= (t.scr + SCR_W - d) + wh
    BY Zenon, <1>1, <1>4, <2>3
  <2>5. On(scrup(t), l, p)
    <3>1. p \in Int
      OBVIOUS
    <3> QED
      BY Zenon, <1>1, <2>4, <3>1, ScrupLine
  <2>6. next(t).pos - (p + 1) = scrup(t).pos - p
    BY Zenon, <2>1, <2>2, <2>4
  <2>7. On(next(t), l, p + 1)
    BY Zenon, <2>1, <2>5, <2>6 DEF On
  <2> QED
    BY Zenon, <1>2, <2>1, <2>2, <2>4, <2>6, <2>7 DEF Placed
<1> QED
  BY Zenon, <1>3, <1>4

\* After the loop and putc() the line with the new character is on the screen.
LEMMA TypedPlaced ==
    ASSUME Editing, NEW ch \in Ch
    PROVE  Placed(putc(Shifted, ch), InsertAt(lbuf, i + 1, ch), i)
<1> DEFINE t == putc(Shifted, ch)
           l == InsertAt(lbuf, i + 1, ch)
           b == Base.pos
           v == Base.vbuf
           hi == b + cc + 1
<1>1. /\ Good(c) /\ Framed(c) /\ Len(lbuf) \in Nat /\ i \in Nat /\ i <= Len(lbuf) /\ cc \in Nat
      /\ i + cc = Len(lbuf) /\ lbuf \in Seq(Ch)
  BY Zenon, InvFacts DEF Editing, Good
<1>2. /\ Good(Base) /\ Base.pos \in Nat /\ Base.scr \in Nat /\ Base.scr <= wh
      /\ Base.scr <= Base.pos - i /\ Base.pos - i < Base.scr + wh
      /\ Base.pos + cc + 1 <= Base.scr + wh
      /\ On(Base, lbuf, i)
  BY Zenon, BaseFacts
<1>3. cc + 1 \in 1..(cc + 1) /\ cc + 1 \in 0..(cc + 1) /\ cc + 2 - (cc + 1) = 1 /\ i + 1 \in 1..(Len(lbuf) + 1)
  BY <1>1
<1>4. RoundIs(cc + 1) /\ Framed(Shifted)
  BY Zenon, <1>1, <1>3, RoundsMoved, RoundsFramed DEF Shifted
<1>5. Shifted.pos = b /\ Shifted.scr = Base.scr /\ Shifted.vbuf = Moved(v, b + 1, hi)
  BY Zenon, <1>3, <1>4 DEF RoundIs, Shifted
<1>6. Framed(t) /\ t.pos = b /\ t.scr = Base.scr /\ t.vbuf = [Moved(v, b + 1, hi) EXCEPT ![b] = ch]
  <2>1. /\ Framed(t) /\ t.vbuf = [Shifted.vbuf EXCEPT ![Shifted.pos] = ch]
        /\ t.scr = Shifted.scr /\ t.pos = Shifted.pos
    BY Zenon, <1>4, PutcFacts
  <2> HIDE DEF t, b, v, hi
  <2> QED
    BY Zenon, <1>5, <2>1
<1>7. /\ l \in Seq(Ch) /\ Len(l) = Len(lbuf) + 1
      /\ \A k \in 1..(Len(lbuf) + 1) :
            /\ k < i + 1 => l[k] = lbuf[k]
            /\ k = i + 1 => l[k] = ch
            /\ ~(k < i + 1) /\ k # i + 1 => l[k] = lbuf[k - 1]
  BY Zenon, <1>1, <1>3, InsertFacts
<1>8. v \in [Cell -> Ch \cup {" "}] /\ b \in Cell /\ hi \in Int
  <2>1. ASSUME NEW x \in Nat, NEW a \in Nat, a <= wh, x + cc + 1 <= a + wh PROVE x \in Cell /\ x + cc + 1 \in Int
    BY <1>1, <2>1, Sizes DEF Cell
  <2> QED
    BY Zenon, <1>2, <2>1 DEF Good
<1> HIDE DEF t, l, b, v, hi
<1>9. Moved(v, b + 1, hi) \in [Cell -> Ch \cup {" "}]
  <2>1. ASSUME NEW x \in Cell, x \in (b + 1)..hi PROVE x - 1 \in Cell
    <3>1. x \in Nat /\ x <= size /\ b \in Nat /\ hi \in Int
      <4>1. b \in Cell /\ hi \in Int
        BY Zenon, <1>8
      <4> QED
        BY <4>1, Sizes DEF Cell
    <3>2. x - 1 \in Nat /\ x - 1 <= size
      BY <2>1, <3>1, Sizes
    <3> QED
      BY <3>2, Sizes DEF Cell
  <2> QED
    BY <1>8, <2>1 DEF Moved
<1>10. Good(t)
  <2>1. t.vbuf \in [Cell -> Ch \cup {" "}]
    BY Zenon, <1>6, <1>8, <1>9
  <2> QED
    BY Zenon, <1>6, <2>1 DEF Good
<1>11. ASSUME NEW k \in 1..Len(l) PROVE t.vbuf[t.pos - i + k - 1] = l[k]
  <2> DEFINE x == b - i + k - 1
  <2>1. b \in Nat /\ k \in Int /\ k \in 1..(Len(lbuf) + 1)
    BY <1>1, <1>2, <1>7 DEF b
  <2>2. x \in Cell
    <3>1. ASSUME NEW a \in Nat, a <= wh, a <= b - i, b + cc + 1 <= a + wh PROVE x \in Cell
      BY <1>1, <2>1, <3>1, Sizes DEF Cell
    <3> QED
      BY Zenon, <1>2, <3>1 DEF b
  <2>3. t.vbuf[x] = IF x = b THEN ch ELSE IF x \in (b + 1)..hi THEN v[x - 1] ELSE v[x]
    <3> HIDE DEF x
    <3>1. [Moved(v, b + 1, hi) EXCEPT ![b] = ch][x] = IF x = b THEN ch ELSE Moved(v, b + 1, hi)[x]
      BY Zenon, <1>8, <1>9, <2>2
    <3> QED
      BY Zenon, <1>6, <2>2, <3>1 DEF Moved
  <2>4. CASE k < i + 1
    <3>1. x # b /\ x \notin (b + 1)..hi /\ k \in 1..Len(lbuf)
      BY <1>1, <2>1, <2>4 DEF hi
    <3>2. v[x] = lbuf[k]
      BY Zenon, <1>2, <3>1 DEF On, v, b
    <3>3. l[k] = lbuf[k]
      BY Zenon, <1>7, <2>1, <2>4
    <3> QED
      BY Zenon, <1>6, <2>3, <3>1, <3>2, <3>3
  <2>5. CASE k = i + 1
    <3>1. x = b /\ ~(k < i + 1)
      BY <1>1, <2>1, <2>5
    <3> QED
      BY Zenon, <1>6, <1>7, <2>1, <2>3, <2>5, <3>1
  <2>6. CASE k > i + 1
    <3>1. x # b /\ x \in (b + 1)..hi /\ k - 1 \in 1..Len(lbuf) /\ ~(k < i + 1) /\ k # i + 1
          /\ x - 1 = b - i + (k - 1) - 1
      BY <1>1, <2>1, <2>6 DEF hi
    <3>2. v[x - 1] = lbuf[k - 1]
      BY Zenon, <1>2, <3>1 DEF On, v, b
    <3>3. l[k] = lbuf[k - 1]
      BY Zenon, <1>7, <2>1, <3>1
    <3> QED
      BY Zenon, <1>6, <2>3, <3>1, <3>2, <3>3
  <2>7. k < i + 1 \/ k = i + 1 \/ k > i + 1
    BY <1>1, <2>1
  <2> QED
    BY Zenon, <2>4, <2>5, <2>6, <2>7
<1>12. On(t, l, i)
  BY Zenon, <1>11 DEF On
<1>13. t.pos - i + Len(l) <= t.scr + wh
  <2>1. ASSUME NEW a \in Nat, b + cc + 1 <= a + wh PROVE b - i + (Len(lbuf) + 1) <= a + wh
    <3>1. b \in Nat
      BY Zenon, <1>2 DEF b
    <3> QED
      BY <1>1, <2>1, <3>1, Sizes
  <2> QED
    BY Zenon, <1>2, <1>6, <1>7, <2>1 DEF b
<1>14. t.scr <= t.pos - i /\ t.pos - i < t.scr + wh
  BY Zenon, <1>2, <1>6 DEF b
<1>15. Placed(t, l, i)
  BY Zenon, <1>10, <1>12, <1>13, <1>14 DEF Placed
<1> QED
  BY Zenon, <1>15 DEF t, l

-----------------------------------------------------------------------------
(* The steps                                                                *)

\* Where the cursor is while the line and the screen agree.
LEMMA CursorFacts ==
    ASSUME ScreenInv, ~upset
    PROVE  /\ c.pos \in c.scr..(c.scr + wh) /\ c.pos >= 0 /\ c.pos <= size
           /\ c.pos # c.scr + wh => InWindow(c)
           /\ lbuf = <<>> => InWindow(c)
<1>1. /\ c.scr \in Nat /\ c.scr <= wh /\ c.pos \in Int
      /\ Len(lbuf) \in Nat /\ i \in Nat /\ i <= Len(lbuf) /\ cc \in Nat
  BY Zenon, InvFacts
<1>2. c.scr <= c.pos - i /\ c.pos - i < c.scr + wh /\ c.pos + cc <= c.scr + wh
  BY Zenon DEF ScreenInv, LineInWindow
<1>3. ASSUME NEW a \in Nat, NEW b \in Int, a <= wh, a <= b - i, b - i < a + wh, b + cc <= a + wh
      PROVE  /\ b \in a..(a + wh) /\ b >= 0 /\ b <= size
             /\ b # a + wh => b \in a..(a + wh - 1)
             /\ i = 0 => b \in a..(a + wh - 1)
  BY <1>1, <1>3, Sizes
<1>4. lbuf = <<>> => i = 0
  BY <1>1
<1> QED
  BY Zenon, <1>1, <1>2, <1>3, <1>4 DEF InWindow

\* consl_accept() keeps the line on the screen, whether it scrolls or not.
LEMMA AcceptStep == ASSUME ScreenInv, NEW ch \in Ch, consl_accept(ch) PROVE ScreenInv'
<1> DEFINE t == putc(Shifted, ch)
           l == InsertAt(lbuf, i + 1, ch)
<1>1. ~stray /\ Len(lbuf) + 1 < LBUF_SZ /\ become(next(t), l, i + 1, c.pos, Highest, FALSE)
  BY Zenon DEF consl_accept
<1>2. /\ Framed(c) /\ Len(lbuf) \in Nat /\ i \in Nat /\ i <= Len(lbuf) /\ cc \in Nat /\ lbuf \in Seq(Ch)
  BY Zenon, InvFacts DEF Good
<1>3. cc + 1 \in 0..(cc + 1) /\ i + 1 \in 1..(Len(lbuf) + 1) /\ i + 1 \in 0..(Len(lbuf) + 1) /\ i < Len(lbuf) + 1
      /\ Len(lbuf) + 1 \in Nat
  BY <1>2
<1>4. Framed(Shifted)
  BY Zenon, <1>2, <1>3, RoundsFramed DEF Shifted
<1>5. Framed(next(t))
  BY Zenon, <1>4, PutcFacts, NextFacts
<1>6. l \in Seq(Ch) /\ Len(l) = Len(lbuf) + 1
  BY Zenon, <1>2, <1>3, InsertFacts
<1>7. ASSUME ~upset PROVE c.pos >= 0 /\ Highest <= size /\ Placed(next(t), l, i + 1)
  <2>1. Editing
    BY Zenon, <1>1, <1>7 DEF Editing
  <2>2. Placed(t, l, i)
    BY Zenon, <2>1, TypedPlaced
  <2> HIDE DEF t, l
  <2>3. Placed(next(t), l, i + 1)
    BY Zenon, <1>1, <1>2, <1>3, <1>6, <2>2, NextPlaced
  <2>4. Highest = Base.pos + cc + 1
    BY Zenon DEF Highest, Base
  <2>5. /\ Base.pos \in Nat /\ Base.scr \in Nat /\ Base.scr <= wh
        /\ Base.pos + cc + 1 <= Base.scr + wh
    BY Zenon, <2>1, BaseFacts
  <2>6. ASSUME NEW a \in Nat, NEW b \in Nat, a <= wh, b + cc + 1 <= a + wh PROVE b + cc + 1 <= size
    BY <1>2, <2>6, Sizes
  <2>7. c.pos >= 0
    BY Zenon, <1>7, CursorFacts
  <2> QED
    BY Zenon, <2>3, <2>4, <2>5, <2>6, <2>7
<1> HIDE DEF t, l
<1> QED
  BY Zenon, <1>1, <1>3, <1>5, <1>6, <1>7, BecomeKeeps

\* The cursor moves in the line and on the screen alike.
LEMMA MovetoKeeps ==
    ASSUME ScreenInv, ~stray, NEW p \in 0..Len(lbuf), moveto(p)
    PROVE  ScreenInv'
<1> DEFINE s == [c EXCEPT !.pos = @ + p - i]
<1>1. become(s, lbuf, p, 0, 0, FALSE)
  BY Zenon DEF moveto
<1>2. /\ Framed(c) /\ Good(c) /\ c.pos \in Int /\ Len(lbuf) \in Nat /\ i \in Nat /\ lbuf \in Seq(Ch)
  BY Zenon, InvFacts DEF Good
<1>3. s = [c EXCEPT !.pos = c.pos + p - i]
  BY Zenon
<1> HIDE DEF s
<1>4. c.pos + p - i \in Int /\ (c.pos + p - i) - p = c.pos - i
  BY <1>2
<1>5. Framed(s) /\ s.vbuf = c.vbuf /\ s.scr = c.scr /\ s.pos = c.pos + p - i
  <2>1. ASSUME NEW b \in Int PROVE \A t : t = [c EXCEPT !.pos = b] =>
                                     Framed(t) /\ t.vbuf = c.vbuf /\ t.scr = c.scr /\ t.pos = b
    BY <1>2, PosExcept
  <2> QED
    BY Zenon, <1>3, <1>4, <2>1
<1>6. ASSUME ~upset PROVE Placed(s, lbuf, p)
  <2>1. Placed(c, lbuf, i)
    BY Zenon, <1>6, InvPlaced
  <2>2. s.pos - p = c.pos - i
    BY Zenon, <1>4, <1>5
  <2> QED
    BY Zenon, <1>5, <2>1, <2>2 DEF Placed, Good, On
<1>7. 0 >= 0 /\ 0 <= size /\ Len(lbuf) < LBUF_SZ
  <2>1. 0 >= 0 /\ 0 <= size
    BY Sizes
  <2> QED
    BY Zenon, <2>1 DEF ScreenInv
<1> QED
  BY Zenon, <1>1, <1>2, <1>5, <1>6, <1>7, BecomeKeeps

\* The arrow keys, Home and End.
LEMMA MoveSteps ==
    ASSUME ScreenInv, movl \/ movr \/ feed_HOME \/ feed_END
    PROVE  ScreenInv'
<1>1. Len(lbuf) \in Nat /\ i \in Nat /\ i <= Len(lbuf)
  BY Zenon, InvFacts
<1>2. 0 \in 0..Len(lbuf) /\ Len(lbuf) \in 0..Len(lbuf) /\ (i # 0 => i - 1 \in 0..Len(lbuf))
      /\ (i < Len(lbuf) => i + 1 \in 0..Len(lbuf))
  BY <1>1
<1> QED
  BY Zenon, <1>2, MovetoKeeps DEF movl, movr, feed_HOME, feed_END

\* The cells of a screen after removec(): those from b to b + n move to the left.
Pulled(v, b, n) == [x \in Cell |-> IF x \in b..(b + n) THEN v[x + 1] ELSE v[x]]

\* removec() pulls the rest of the line over the cell before the cursor.
LEMMA RemovecFacts ==
    ASSUME Framed(c), NEW p, NEW q, q - 1 \in Int,
           q - 1 + Len(lbuf) - p = (q - 1) + (Len(lbuf) - p)
    PROVE  LET t == removec(p, q)
           IN  /\ Framed(t) /\ t.vbuf = Pulled(c.vbuf, q - 1, Len(lbuf) - p)
               /\ t.scr = c.scr /\ t.pos = q - 1
<1> DEFINE t == removec(p, q)
           v == Pulled(c.vbuf, q - 1, Len(lbuf) - p)
           r == [c EXCEPT !.vbuf = v]
<1>1. t = [c EXCEPT !.vbuf = v, !.pos = q - 1]
  BY Zenon DEF removec, Pulled
<1> HIDE DEF t, v
<1>2. r = [c EXCEPT !.vbuf = v] /\ t = [r EXCEPT !.pos = q - 1]
  BY <1>1
<1> HIDE DEF r
<1>3. Framed(r) /\ r.vbuf = v /\ r.scr = c.scr
  BY <1>2, VbufExcept
<1>4. Framed(t) /\ t.vbuf = r.vbuf /\ t.scr = r.scr /\ t.pos = q - 1
  <2>1. \A u : u = [r EXCEPT !.pos = q - 1] => Framed(u) /\ u.vbuf = r.vbuf /\ u.scr = r.scr /\ u.pos = q - 1
    BY <1>3, PosExcept
  <2> QED
    BY Zenon, <1>2, <2>1
<1> QED
  BY Zenon, <1>3, <1>4 DEF t, v

\* What a cell may hold.
Shown == Ch \cup {" "}

\* Without its p-th character the line is still on the screen, in lbuf and in vbuf.
LEMMA BackspPlaced ==
    ASSUME NEW l \in Seq(Ch), NEW j \in Int, Placed(c, l, j), NEW p \in 1..Len(l), NEW q \in Int,
           q - p = c.pos - j, NEW e \in Shown,
           NEW s, Framed(s), s.scr = c.scr, s.pos = q - 1,
           \/ s.vbuf = Pulled(c.vbuf, q - 1, Len(l) - p)
           \/ p = Len(l) /\ s.vbuf = [Pulled(c.vbuf, q - 1, Len(l) - p) EXCEPT ![q - 1] = e]
    PROVE  Placed(s, RemoveAt(l, p), p - 1) /\ q - 1 >= 0 /\ q + Len(l) - p <= size
<1> DEFINE m == RemoveAt(l, p)
           n == Len(l)
           w == Pulled(c.vbuf, q - 1, n - p)
<1>1. /\ Good(c) /\ On(c, l, j) /\ c.scr \in Nat /\ c.scr <= wh /\ c.pos \in Int
      /\ c.scr <= c.pos - j /\ c.pos - j < c.scr + wh /\ c.pos - j + n <= c.scr + wh
  BY Zenon, WindowFacts DEF Placed, Good
<1>2. n \in Nat /\ p \in Nat /\ 1 <= p /\ p <= n
  OBVIOUS
<1>3. /\ m \in Seq(Ch) /\ Len(m) = n - 1
      /\ \A k \in 1..(n - 1) : m[k] = IF k < p THEN l[k] ELSE l[k + 1]
  BY RemoveAtProperties
<1> HIDE DEF m, n
<1>4. ASSUME NEW a \in Nat, NEW b \in Int, a <= wh, a <= b - j, b - j < a + wh, b - j + n <= a + wh, q - p = b - j
      PROVE  /\ q - 1 >= 0 /\ q + n - p <= size /\ q - 1 \in Cell
             /\ (q - 1) - (p - 1) = b - j
             /\ (q - 1) - (p - 1) + (n - 1) <= a + wh
             /\ \A x \in Cell : x \in (q - 1)..(q - 1 + (n - p)) => x + 1 \in Cell
             /\ \A k \in 1..(n - 1) :
                   LET x == (q - 1) - (p - 1) + k - 1
                   IN  /\ x \in Cell /\ x = b - j + k - 1
                       /\ k < p => x # q - 1 /\ x \notin (q - 1)..(q - 1 + (n - p)) /\ k \in 1..n
                       /\ ~(k < p) => /\ p # n /\ x \in (q - 1)..(q - 1 + (n - p))
                                      /\ x + 1 = b - j + (k + 1) - 1 /\ k + 1 \in 1..n
  BY <1>2, <1>4, Sizes DEF Cell
<1>5. /\ q - 1 >= 0 /\ q + n - p <= size /\ q - 1 \in Cell
      /\ (q - 1) - (p - 1) = c.pos - j
      /\ (q - 1) - (p - 1) + (n - 1) <= c.scr + wh
      /\ \A x \in Cell : x \in (q - 1)..(q - 1 + (n - p)) => x + 1 \in Cell
      /\ \A k \in 1..(n - 1) :
            LET x == (q - 1) - (p - 1) + k - 1
            IN  /\ x \in Cell /\ x = c.pos - j + k - 1
                /\ k < p => x # q - 1 /\ x \notin (q - 1)..(q - 1 + (n - p)) /\ k \in 1..n
                /\ ~(k < p) => /\ p # n /\ x \in (q - 1)..(q - 1 + (n - p))
                               /\ x + 1 = c.pos - j + (k + 1) - 1 /\ k + 1 \in 1..n
  BY Zenon, <1>1, <1>4 DEF n
<1>6. w \in [Cell -> Ch \cup {" "}]
  <2>1. c.vbuf \in [Cell -> Ch \cup {" "}]
    BY Zenon, <1>1 DEF Good
  <2> QED
    BY Zenon, <1>5, <2>1 DEF Pulled
<1>7. s.vbuf = w \/ (p = n /\ s.vbuf = [w EXCEPT ![q - 1] = e])
  BY Zenon DEF n
<1>8. s.vbuf \in [Cell -> Ch \cup {" "}]
  <2> HIDE DEF w
  <2> QED
    BY Zenon, <1>6, <1>7 DEF Shown
<1>9. ASSUME NEW k \in 1..(n - 1) PROVE s.vbuf[s.pos - (p - 1) + k - 1] = m[k]
  <2> DEFINE x == (q - 1) - (p - 1) + k - 1
  <2>1. /\ x \in Cell /\ x = c.pos - j + k - 1
        /\ k < p => x # q - 1 /\ x \notin (q - 1)..(q - 1 + (n - p)) /\ k \in 1..n
        /\ ~(k < p) => /\ p # n /\ x \in (q - 1)..(q - 1 + (n - p))
                       /\ x + 1 = c.pos - j + (k + 1) - 1 /\ k + 1 \in 1..n
    BY Zenon, <1>5
  <2> HIDE DEF x
  <2>2. w[x] = IF k < p THEN c.vbuf[x] ELSE c.vbuf[x + 1]
    BY Zenon, <2>1 DEF Pulled
  <2>3. s.vbuf[x] = w[x]
    <3> HIDE DEF w
    <3>1. DOMAIN w = Cell
      BY Zenon, <1>6
    <3> QED
      BY Zenon, <1>7, <2>1, <3>1
  <2>4. CASE k < p
    BY Zenon, <1>1, <1>3, <2>1, <2>2, <2>3, <2>4 DEF On, n, x
  <2>5. CASE ~(k < p)
    BY Zenon, <1>1, <1>3, <2>1, <2>2, <2>3, <2>5 DEF On, n, x
  <2> QED
    BY Zenon, <2>4, <2>5
<1>10. On(s, m, p - 1)
  BY Zenon, <1>3, <1>9 DEF On
<1> QED
  BY Zenon, <1>1, <1>3, <1>5, <1>8, <1>10 DEF Placed, Good, m, n

\* A backspace with p characters before it, at cell q.
LEMMA BackspKeeps ==
    ASSUME ScreenInv, ~stray, NEW p \in 1..Len(lbuf), NEW q \in Int, q - p = c.pos - i, backsp(p, q)
    PROVE  ScreenInv'
<1> DEFINE v == Pulled(c.vbuf, q - 1, Len(lbuf) - p)
           r == removec(p, q)
           s == IF p = Len(lbuf) THEN putc(r, " ") ELSE r
           l == RemoveAt(lbuf, p)
<1>1. become(s, l, p - 1, q - 1, q + Len(lbuf) - p, FALSE)
  BY Zenon DEF backsp
<1>2. Framed(c) /\ c.pos \in Int /\ Len(lbuf) \in Nat /\ i \in Nat /\ lbuf \in Seq(Ch) /\ Len(lbuf) < LBUF_SZ
  BY Zenon, InvFacts DEF Good, ScreenInv
<1>3. q - 1 \in Int /\ p \in Nat /\ i \in Int
  BY <1>2
<1>4. Framed(r) /\ r.vbuf = v /\ r.scr = c.scr /\ r.pos = q - 1
  <2>1. q - 1 + Len(lbuf) - p = (q - 1) + (Len(lbuf) - p)
    BY <1>2, <1>3
  <2> QED
    BY Zenon, <1>2, <1>3, <2>1, RemovecFacts
<1>5. Framed(s) /\ s.scr = c.scr /\ s.pos = q - 1
      /\ (s.vbuf = v \/ (p = Len(lbuf) /\ s.vbuf = [v EXCEPT ![q - 1] = " "]))
  <2> HIDE DEF r, v
  <2>1. /\ Framed(putc(r, " ")) /\ putc(r, " ").vbuf = [r.vbuf EXCEPT ![r.pos] = " "]
        /\ putc(r, " ").scr = r.scr /\ putc(r, " ").pos = r.pos
    BY Zenon, <1>4, PutcFacts
  <2>2. CASE p = Len(lbuf)
    BY Zenon, <1>4, <2>1, <2>2
  <2>3. CASE p # Len(lbuf)
    BY Zenon, <1>4, <2>3
  <2> QED
    BY Zenon, <2>2, <2>3
<1>6. l \in Seq(Ch) /\ Len(l) = Len(lbuf) - 1
  BY <1>2, RemoveAtProperties
<1>7. Len(lbuf) - 1 < LBUF_SZ /\ p - 1 \in 0..(Len(lbuf) - 1)
  BY <1>2, Sizes
<1> HIDE DEF s
<1>8. ASSUME ~upset PROVE Placed(s, l, p - 1) /\ q - 1 >= 0 /\ q + Len(lbuf) - p <= size
  <2>1. Placed(c, lbuf, i) /\ " " \in Shown
    BY Zenon, <1>8, InvPlaced DEF Shown
  <2> QED
    BY Zenon, <1>2, <1>3, <1>5, <2>1, BackspPlaced
<1> HIDE DEF l
<1> QED
  BY Zenon, <1>1, <1>5, <1>6, <1>7, <1>8, BecomeKeeps

\* Backspace and Delete.
LEMMA BackspSteps == ASSUME ScreenInv, feed_BACK \/ feed_DEL PROVE ScreenInv'
<1>1. Len(lbuf) \in Nat /\ i \in Nat /\ i <= Len(lbuf) /\ c.pos \in Int
  BY Zenon, InvFacts
<1>2. /\ i > 0 => i \in 1..Len(lbuf)
      /\ i < Len(lbuf) => i + 1 \in 1..Len(lbuf)
      /\ c.pos + 1 \in Int /\ (c.pos + 1) - (i + 1) = c.pos - i
  BY <1>1
<1>3. CASE feed_BACK
  BY Zenon, <1>1, <1>2, <1>3, BackspKeeps DEF feed_BACK
<1>4. CASE feed_DEL
  BY Zenon, <1>1, <1>2, <1>4, BackspKeeps DEF feed_DEL
<1> QED
  BY Zenon, <1>3, <1>4

\* Enter ends the line; it leaves the window only from right behind it.
LEMMA CookStep == ASSUME ScreenInv, cook PROVE ScreenInv'
<1> DEFINE s == lf(cr(c))
           u == c.pos = c.scr + wh
<1>1. ~stray /\ become(s, <<>>, 0, 0, 0, u)
  BY Zenon DEF cook
<1>2. Framed(c)
  BY Zenon, InvFacts DEF Good
<1>3. Framed(s) /\ (InWindow(c) => InWindow(s))
  BY Zenon, <1>2, CrFacts, LfFacts
<1>4. ~upset /\ ~u => InWindow(s)
  BY Zenon, <1>3, CursorFacts
<1>5. <<>> \in Seq(Ch) /\ Len(<<>>) = 0 /\ 0 < LBUF_SZ /\ 0 \in 0..0 /\ 0 >= 0 /\ 0 <= size /\ u \in BOOLEAN
  BY Sizes
<1> HIDE DEF s, u
<1> QED
  BY Zenon, <1>1, <1>3, <1>4, <1>5, BecomeKeeps

\* The first cell is in the buffer.
LEMMA ZeroCell == 0 >= 0 /\ 0 <= size
  BY Sizes

\* Output moves the cursor; with a line on the screen it upsets it.
LEMMA WriteStep == ASSUME ScreenInv, NEW ch \in {" ", "\n", "\r"}, write(ch) PROVE ScreenInv'
<1> DEFINE s == consl_writec(c, ch)
           at == IF ch = " " THEN c.pos ELSE 0
           u == lbuf # <<>>
<1>1. ~stray /\ become(s, lbuf, i, at, at, u)
  BY Zenon DEF write
<1>2. Framed(c) /\ lbuf \in Seq(Ch)
  BY Zenon, InvFacts DEF Good
<1>3. Framed(s) /\ (InWindow(c) => InWindow(s))
  BY Zenon, <1>2, WritecFacts
<1>4. ~upset /\ ~u => lbuf = <<>> /\ InWindow(s)
  BY Zenon, <1>3, CursorFacts
<1>5. ~upset => at >= 0 /\ at <= size
  BY Zenon, ZeroCell, CursorFacts
<1>6. Len(lbuf) < LBUF_SZ /\ i \in 0..Len(lbuf) /\ u \in BOOLEAN
  BY Zenon DEF ScreenInv
<1> HIDE DEF s, u, at
<1> QED
  BY Zenon, <1>1, <1>2, <1>3, <1>4, <1>5, <1>6, BecomeKeeps

-----------------------------------------------------------------------------
(* The theorems                                                             *)

\* init_consl() starts with the cursor in the window and no line.
LEMMA ScreenStarts == ASSUME ScreenInit PROVE ScreenInv
<1>1. lbuf = <<>> /\ i = 0 /\ upset = FALSE /\ stray = FALSE /\ c = [vbuf |-> Blank, scr |-> 0, pos |-> 0]
  BY Zenon DEF ScreenInit
<1>2. c.vbuf = Blank /\ c.scr = 0 /\ c.pos = 0
  BY <1>1
<1>3. 0 \in Rows
  <2>1. SCR_W * 0 = 0 /\ 0 \in 0..SCR_H
    BY Sizes
  <2> QED
    BY Zenon, <2>1 DEF Rows
<1>4. c \in [vbuf : [Cell -> Ch \cup {" "}], scr : Rows, pos : Int]
  <2>1. Blank \in [Cell -> Ch \cup {" "}]
    BY Zenon DEF Blank
  <2>2. Framed(c)
    <3>1. 0 \in Int
      OBVIOUS
    <3> QED
      BY Zenon, <1>1, <1>2, <1>3, <3>1 DEF Framed
  <2> QED
    BY Zenon, <1>2, <2>1, <2>2, GoodScreen DEF Good
<1>5. lbuf \in Seq(Ch) /\ Len(lbuf) < LBUF_SZ /\ i \in 0..Len(lbuf) /\ Len(lbuf) = 0 /\ 1..Len(lbuf) = {} /\ cc = 0
  BY <1>1, Sizes DEF cc
<1>6. LineInWindow
  <2>1. 0 <= 0 - 0 /\ 0 - 0 < 0 + wh /\ 0 + 0 <= 0 + wh
    BY Sizes
  <2> QED
    BY Zenon, <1>1, <1>2, <1>5, <2>1 DEF LineInWindow
<1>7. LineOnScreen
  BY Zenon, <1>5 DEF LineOnScreen
<1> QED
  BY Zenon, <1>1, <1>4, <1>5, <1>6, <1>7 DEF ScreenInv

\* Every key and every character of output keeps the invariant.
LEMMA ScreenSteps == ASSUME ScreenInv, [ScreenNext]_screenVars PROVE ScreenInv'
<1>1. CASE \E ch \in Ch : consl_accept(ch)
  BY Zenon, <1>1, AcceptStep
<1>2. CASE movl \/ movr \/ feed_HOME \/ feed_END
  BY Zenon, <1>2, MoveSteps
<1>3. CASE feed_BACK \/ feed_DEL
  BY Zenon, <1>3, BackspSteps
<1>4. CASE cook
  BY Zenon, <1>4, CookStep
<1>5. CASE \E ch \in {" ", "\n", "\r"} : write(ch)
  BY Zenon, <1>5, WriteStep
<1>6. CASE UNCHANGED screenVars
  <2>1. c' = c /\ lbuf' = lbuf /\ i' = i /\ upset' = upset /\ stray' = stray
    BY Zenon, <1>6 DEF screenVars
  <2> QED
    BY Zenon, <2>1 DEF ScreenInv, LineInWindow, LineOnScreen, cc, Cell
<1> QED
  BY Zenon, <1>1, <1>2, <1>3, <1>4, <1>5, <1>6 DEF ScreenNext

\* Whatever is typed and written, in any order, and for any size of the screen that
\* holds a line and a row, the invariant holds in every reachable state.
THEOREM ScreenInvariant == ScreenSpec => []ScreenInv
<1>1. ScreenInit => ScreenInv
  BY Zenon, ScreenStarts
<1>2. ScreenInv /\ [ScreenNext]_screenVars => ScreenInv'
  BY Zenon, ScreenSteps
<1> QED
  BY <1>1, <1>2, PTL DEF ScreenSpec

\* The line in lbuf is the line on the screen, although consl_accept() and removec()
\* edit the two separately and scrup() moves one of them, for any sizes.
THEOREM LineStaysOnScreen == ScreenSpec => []LineOnScreen
<1>1. ScreenInv => LineOnScreen
  BY Zenon DEF ScreenInv, LineOnScreen
<1> QED
  BY <1>1, ScreenInvariant, PTL

\* scrup(), next(), lf() and the loop of consl_accept() keep the cursor in the window
\* or right behind it, and write no further than one cell behind the buffer.
THEOREM CursorStaysInWindow == ScreenSpec => []CursorInWindow
<1>1. ScreenInv => CursorInWindow
  BY Zenon, CursorFacts DEF ScreenInv, CursorInWindow
<1> QED
  BY <1>1, ScreenInvariant, PTL

\* The window is always on whole rows inside the buffer, and the line ends before
\* LBUF_SZ, also while output has upset the cursor.
THEOREM ScreenTyped == ScreenSpec => []ScreenTypeOK
<1>1. ASSUME ScreenInv PROVE ScreenTypeOK
  <2>1. Good(c) /\ Framed(c) /\ c.scr \in Rows /\ c.pos \in Int
    BY Zenon, <1>1, InvFacts DEF Good, Framed
  <2>2. c.scr \in 0..(size - wh) /\ c.scr % SCR_W = 0
    <3>1. ASSUME NEW x \in Rows PROVE x \in 0..(size - wh) /\ x % SCR_W = 0
      BY RowFacts, Sizes
    <3> QED
      BY Zenon, <2>1, <3>1
  <2>3. /\ lbuf \in Seq(Ch) /\ Len(lbuf) < LBUF_SZ
        /\ i \in 0..Len(lbuf) /\ {upset, stray} \subseteq BOOLEAN
    BY Zenon, <1>1 DEF ScreenInv
  <2> QED
    BY Zenon, <2>1, <2>2, <2>3 DEF ScreenTypeOK, Good
<1> QED
  BY <1>1, ScreenInvariant, PTL

-----------------------------------------------------------------------------
(* Kernel: the lists of processes                                          *)

USE KernelAssumption DEF Idle, Proc

\* Most steps are set reasoning: Zenon proves them, SMT is asked by name.
USE Zenon

\* A process moved from one list to another (list_del, list_add_before) is on
\* the new list and on no other, and no other process is touched.
LEMMA MoveEffect ==
    ASSUME list \in [ListName -> Seq(Proc)], NoSharing,
           NEW p \in Proc, NEW l \in ListName, Move(p, l)
    PROVE  /\ list' \in [ListName -> Seq(Proc)]
           /\ NoSharing'
           /\ Range(list'[l]) = Range(list[l]) \cup {p}
           /\ \A k \in ListName : k # l => Range(list'[k]) = Range(list[k]) \ {p}
           /\ \A k \in ListName : k # l /\ p \notin Range(list[k]) => list'[k] = list[k]
           /\ p \notin Range(list[l]) => list'[l] = Append(list[l], p)
           /\ \A k \in ListName : k # l /\ list[k] # <<>> /\ p = Head(list[k]) =>
                 list'[k] = Tail(list[k])
<1>1. ASSUME NEW k \in ListName
      PROVE  /\ Unlink(list[k], p) \in Seq(Proc)
             /\ IsInjective(Unlink(list[k], p))
             /\ Range(Unlink(list[k], p)) = Range(list[k]) \ {p}
             /\ p \notin Range(list[k]) => Unlink(list[k], p) = list[k]
  <2>1. list[k] \in Seq(Proc) /\ IsInjective(list[k])
    BY DEF NoSharing
  <2> QED
    BY <2>1, UnlinkProperties
<1>2. /\ Append(Unlink(list[l], p), p) \in Seq(Proc)
      /\ IsInjective(Append(Unlink(list[l], p), p))
      /\ Range(Append(Unlink(list[l], p), p)) = Range(list[l]) \cup {p}
  <2>1. p \notin Range(Unlink(list[l], p))
    BY <1>1
  <2>2. /\ Append(Unlink(list[l], p), p) \in Seq(Proc)
        /\ IsInjective(Append(Unlink(list[l], p), p))
        /\ Range(Append(Unlink(list[l], p), p)) = Range(Unlink(list[l], p)) \cup {p}
    BY SMT, <1>1, <2>1, AppendRange
  <2> QED
    BY <2>2, <1>1
<1>3. /\ list'[l] = Append(Unlink(list[l], p), p)
      /\ \A k \in ListName : k # l => list'[k] = Unlink(list[k], p)
      /\ DOMAIN list' = ListName
      /\ list' = [k \in ListName |-> list'[k]]
  BY DEF Move
<1>4. ASSUME NEW k \in ListName
      PROVE  list'[k] \in Seq(Proc) /\ IsInjective(list'[k])
  <2>1. CASE k = l
    BY <1>2, <1>3, <2>1
  <2>2. CASE k # l
    <3>1. list'[k] = Unlink(list[k], p)
      BY <1>3, <2>2
    <3> QED
      BY <1>1, <3>1
  <2> QED
    BY <2>1, <2>2
<1>5. list' \in [ListName -> Seq(Proc)]
  BY <1>3, <1>4
<1>6. \A k \in ListName : k # l => Range(list'[k]) = Range(list[k]) \ {p}
  BY <1>1, <1>3
<1>7. Range(list'[l]) = Range(list[l]) \cup {p}
  BY <1>2, <1>3
<1>8. NoSharing'
  <2>1. \A k \in ListName : IsInjective(list'[k])
    BY <1>4
  <2>2. ASSUME NEW k \in ListName, NEW m \in ListName, k # m
        PROVE  Range(list'[k]) \cap Range(list'[m]) = {}
    <3>1. Range(list[k]) \cap Range(list[m]) = {}
      BY <2>2 DEF NoSharing
    <3>2. CASE k = l
      BY <1>6, <1>7, <2>2, <3>1, <3>2
    <3>3. CASE m = l
      BY <1>6, <1>7, <2>2, <3>1, <3>3
    <3>4. CASE k # l /\ m # l
      BY <1>6, <3>1, <3>4
    <3> QED
      BY <3>2, <3>3, <3>4
  <2> QED
    BY <2>1, <2>2 DEF NoSharing
<1>9. \A k \in ListName : k # l /\ list[k] # <<>> /\ p = Head(list[k]) =>
         list'[k] = Tail(list[k])
  BY <1>3, UnlinkHead DEF NoSharing
<1> QED
  BY <1>1, <1>3, <1>5, <1>6, <1>7, <1>8, <1>9

\* The invariant tells where a process is: the lists are disjoint, so stat
\* decides, and the current process is on ready unless it is going to sleep.
LEMMA Whereabouts ==
    ASSUME IInv
    PROVE  /\ \A p \in Range(list["ready"]) : p \in Proc /\ stat[p] = "READY"
           /\ \A l \in Sem \cup {"block"} : \A p \in Range(list[l]) :
                 p \in Proc /\ stat[p] = "SLEEPING"
           /\ current \in Proc /\ stat[current] = "READY" => current \in Range(list["ready"])
           /\ \A l \in ListName : list[l] # <<>> =>
                 Head(list[l]) \in Proc /\ Head(list[l]) \in Range(list[l])
           /\ \A l \in ListName : Range(list[l]) \subseteq Proc
<1>1. \A l \in ListName : Range(list[l]) \subseteq Proc
  <2> SUFFICES ASSUME NEW l \in ListName PROVE Range(list[l]) \subseteq Proc
    OBVIOUS
  <2>1. list[l] \in Seq(Proc)
    BY DEF IInv, TypeOK
  <2> QED
    BY SMT, <2>1, SeqLength, SeqElement DEF Range
<1>2. \A l \in ListName : list[l] # <<>> =>
         Head(list[l]) \in Proc /\ Head(list[l]) \in Range(list[l])
  BY HeadInRange DEF IInv, TypeOK
<1>3. \A p \in Range(list["ready"]) : stat[p] = "READY"
  <2> SUFFICES ASSUME NEW p \in Range(list["ready"]), stat[p] # "READY" PROVE FALSE
    OBVIOUS
  <2>1. PICK l \in Sem \cup {"block"} : p \in Range(list[l])
    BY <1>1 DEF IInv, ListIntegrity, StatMatchesList, ListName
  <2> QED
    BY <2>1 DEF IInv, ListIntegrity, NoSharing, ListName
<1>4. ASSUME NEW l \in Sem \cup {"block"}, NEW p \in Range(list[l])
      PROVE  stat[p] = "SLEEPING"
  <2> SUFFICES ASSUME stat[p] = "READY" PROVE FALSE
    BY <1>1 DEF IInv, TypeOK, ListName
  <2>1. p \in Range(list["ready"]) \cup Range(list["free"])
    BY <1>1 DEF IInv, ListIntegrity, StatMatchesList, ListName
  <2>2. l \in ListName /\ l # "ready" /\ l # "free"
    BY DEF ListName
  <2> QED
    BY <2>1, <2>2 DEF IInv, ListIntegrity, NoSharing, ListName
<1>5. current \in Proc /\ stat[current] = "READY" => current \in Range(list["ready"])
  BY DEF IInv, ListIntegrity, StatMatchesList, FreeFresh
<1> QED
  BY <1>1, <1>2, <1>3, <1>4, <1>5 DEF ListName

\* The steps that leave every list alone keep the invariant: the calls that find
\* a token or need none, and the steps inside an operation.
LEMMA QuietStep ==
    ASSUME IInv,
           \/ \E s \in Sem : P_take(s) \/ V_empty(s) \/ V_raw(s)
           \/ OpStep
           \/ boot_sti
    PROVE  IInv'
<1> USE DEF IInv, TypeOK, Label, ListIntegrity, NoSharing, StatMatchesList,
            NoLostUnit, WaitersStop, LockBalance, Depth, PreemptionPoints,
            WakeupAssertHolds, FreeFresh, ChildWaits, IntrDiscipline,
            At, Goto, InIrq, listVars, irqVars
<1>1. ASSUME NEW s \in Sem, P_take(s) PROVE IInv'
  BY SMT, <1>1 DEF P_take, Lock
<1>2. ASSUME NEW s \in Sem, V_empty(s) PROVE IInv'
  BY SMT, <1>2 DEF V_empty, Lock
<1>3. ASSUME NEW s \in Sem, V_raw(s) PROVE IInv'
  BY SMT, <1>3 DEF V_raw, Lock
<1>4. CASE P_unlock
  BY SMT, <1>4 DEF P_unlock, UnlockAt, Unlock
<1>5. CASE S_unlock
  BY SMT, <1>5 DEF S_unlock, UnlockAt, Unlock
<1>6. CASE S_int
  BY SMTT(30), <1>6, SeqEmpty DEF S_int, Int0x80, EnterIrq
<1>7. CASE P_cli
  <2>1. current \in Proc => \A s \in Sem : current \notin Range(list[s])
    BY <1>7, Whereabouts DEF P_cli
  <2> QED
    BY SMT, <1>7, <2>1 DEF P_cli
<1>8. CASE V_unlock
  BY SMT, <1>8 DEF V_unlock, UnlockAt, Unlock
<1>9. CASE W_unlock
  BY SMT, <1>9 DEF W_unlock, UnlockAt, Unlock
<1>10. CASE Z_unlock
  BY SMTT(30), <1>10 DEF Z_unlock, UnlockAt, Unlock
<1>11. CASE Z_int
  BY SMTT(30), <1>11, SeqEmpty DEF Z_int, Int0x80, EnterIrq
<1>12. CASE K_unlock
  BY SMTT(30), <1>12 DEF K_unlock, UnlockAt, Unlock
<1>13. CASE K_tail
  BY SMTT(30), <1>13 DEF K_tail
<1>14. CASE C_unlock
  BY SMTT(30), <1>14 DEF C_unlock, UnlockAt, Unlock
<1>15. CASE boot_sti
  BY SMT, <1>15 DEF boot_sti
<1> QED
  BY <1>1, <1>2, <1>3, <1>4, <1>5, <1>6, <1>7, <1>8, <1>9, <1>10, <1>11, <1>12,
     <1>13, <1>14, <1>15 DEF OpStep

\* So do the interrupts that wake nobody, and the switch to the process that
\* schedule() chooses.
LEMMA QuietIrq ==
    ASSUME IInv, IrqEnter \/ IrqV_empty \/ IrqV_raw \/ IrqExit
    PROVE  IInv'
<1> USE DEF InIrq, listVars, lockVars
<1>1. CASE IrqEnter
  <2>1. PICK work \in IrqWork : EnterIrq(work)
    BY <1>1 DEF IrqEnter
  <2>2. work \in Seq(Sem)
    OBVIOUS
  <2> QED
    BY SMT, <1>1, <2>1, <2>2
    DEF IrqEnter, EnterIrq, IInv, TypeOK, ListIntegrity, NoSharing,
        StatMatchesList, NoLostUnit, WaitersStop, LockBalance, PreemptionPoints,
        WakeupAssertHolds, FreeFresh, ChildWaits, IntrDiscipline, Label
<1>2. todo # <<>> => Head(todo) \in Sem /\ Tail(todo) \in Seq(Sem)
  BY SeqHeadTail DEF IInv, TypeOK
<1>3. CASE IrqV_empty
  <2>1. TypeOK'
    <3>1. PICK s \in Sem : token' = [token EXCEPT ![s] = token[s] + 1]
      BY <1>2, <1>3 DEF IrqV_empty
    <3>2. token' \in [Sem -> Nat]
      BY SMT, <3>1 DEF IInv, TypeOK
    <3>3. todo' \in Seq(Sem)
      BY <1>2, <1>3 DEF IrqV_empty
    <3> QED
      BY <1>3, <3>2, <3>3 DEF IrqV_empty, IInv, TypeOK
  <2>2. NoLostUnit'
    BY <1>2, <1>3 DEF IrqV_empty, IInv, TypeOK, NoLostUnit
  <2>3. UNCHANGED <<list, stat, current, lock_count, locked, lock_flag, IFlag,
                    tf, pc, child, panic>>
    BY <1>3 DEF IrqV_empty
  <2>4. (ListIntegrity /\ WaitersStop /\ LockBalance /\ PreemptionPoints)'
    BY <2>3 DEF IInv, ListIntegrity, NoSharing, StatMatchesList, WaitersStop,
                LockBalance, PreemptionPoints
  <2>5. (WakeupAssertHolds /\ FreeFresh /\ ChildWaits /\ IntrDiscipline)'
    BY <2>3 DEF IInv, WakeupAssertHolds, FreeFresh, ChildWaits, IntrDiscipline
  <2> QED
    BY <2>1, <2>2, <2>4, <2>5 DEF IInv
<1>4. CASE IrqV_raw
  BY SMT, <1>2, <1>4
  DEF IrqV_raw, IInv, TypeOK, ListIntegrity, NoSharing, StatMatchesList,
      NoLostUnit, WaitersStop, LockBalance, PreemptionPoints, WakeupAssertHolds,
      FreeFresh, ChildWaits, IntrDiscipline
<1>5. CASE IrqExit
  <2>1. schedule = Idle \/ schedule \in Range(list["ready"])
    <3>1. CASE list["ready"] = <<>>
      BY <3>1 DEF schedule
    <3>2. CASE list["ready"] # <<>> /\ (current = Idle \/ stat[current] = "SLEEPING")
      BY <3>2, Whereabouts DEF schedule, ListName
    <3>3. CASE list["ready"] # <<>> /\ current # Idle /\ stat[current] = "READY"
      <4> DEFINE r == list["ready"]
                 at == IndexOf(r, current)
      <4>1. r \in Seq(Proc) /\ current \in Range(r)
        BY <3>3, Whereabouts DEF ListName, IInv, TypeOK
      <4>2. at \in 1..Len(r) /\ Len(r) \in Nat /\ DOMAIN r = 1..Len(r)
        BY <4>1, IndexOfProperties, SeqLength
      <4> HIDE DEF at
      <4>3. Head(r) \in Range(r)
        BY <3>3, Whereabouts DEF ListName
      <4>4. schedule = IF at = Len(r) THEN Head(r) ELSE r[at + 1]
        BY <3>3 DEF schedule, ListNext, at
      <4>5. at # Len(r) => at + 1 \in DOMAIN r
        BY SMT, <4>2
      <4> QED
        BY <4>3, <4>4, <4>5 DEF Range
    <3> QED
      BY <3>1, <3>2, <3>3 DEF IInv, TypeOK
  <2>2. schedule # Idle => schedule \in Proc /\ stat[schedule] = "READY"
                           /\ schedule \notin Range(list["free"])
    BY <2>1, Whereabouts DEF ListName, IInv, ListIntegrity, NoSharing
  <2>3. schedule \in Pid
    BY SMT, <2>1, <2>2 DEF Pid
  <2>4. \A p \in Pid : child[p] # 0 => child[p] # schedule
    BY <2>2, Whereabouts DEF IInv, ChildWaits
  <2>5. Range(list["free"]) \subseteq Pid /\ 0 \notin Range(list["free"])
    BY Whereabouts DEF ListName
  <2> HIDE DEF schedule
  <2> USE <1>5 DEF IrqExit, IInv
  <2>6. TypeOK'
    BY <2>3 DEF TypeOK
  <2>7. LockBalance'
    BY <2>3 DEF TypeOK, LockBalance
  <2>8. PreemptionPoints'
    BY <2>2, <2>3 DEF TypeOK, PreemptionPoints, IntrDiscipline
  <2>9. IntrDiscipline'
    BY <2>2, <2>3 DEF TypeOK, PreemptionPoints, IntrDiscipline
  <2>10. (ListIntegrity /\ NoLostUnit /\ WakeupAssertHolds)'
    BY DEF ListIntegrity, NoSharing, StatMatchesList, NoLostUnit, WakeupAssertHolds
  <2>11. WaitersStop'
    BY <2>2 DEF TypeOK, WaitersStop
  <2>12. FreeFresh'
    BY SMT, <2>2, <2>5 DEF TypeOK, FreeFresh
  <2>13. ChildWaits'
    BY <2>4 DEF ChildWaits
  <2> QED
    BY <2>6, <2>7, <2>8, <2>9, <2>10, <2>11, <2>12, <2>13
<1> QED
  BY <1>1, <1>3, <1>4, <1>5
\* What every step that moves a PCB has in common: the lists stay sound when the
\* new stat is the one that goes with the new list.
LEMMA MoveKeepsLists ==
    ASSUME IInv, NEW q \in Proc, NEW l \in {"ready", "block"} \cup Sem, Move(q, l),
           NEW st \in {"READY", "SLEEPING"}, st = "READY" <=> l = "ready",
           stat' = [stat EXCEPT ![q] = st]
    PROVE  /\ list' \in [ListName -> Seq(Proc)]
           /\ stat' \in [Pid -> {"READY", "SLEEPING"}]
           /\ ListIntegrity'
           /\ Range(list'[l]) = Range(list[l]) \cup {q}
           /\ \A k \in ListName : k # l => Range(list'[k]) = Range(list[k]) \ {q}
           /\ \A s \in Sem : s # l /\ list[s] = <<>> => list'[s] = <<>>
<1>1. l \in ListName /\ list \in [ListName -> Seq(Proc)] /\ NoSharing
  BY DEF ListName, IInv, TypeOK, ListIntegrity
<1>2. /\ list' \in [ListName -> Seq(Proc)]
      /\ NoSharing'
      /\ Range(list'[l]) = Range(list[l]) \cup {q}
      /\ \A k \in ListName : k # l => Range(list'[k]) = Range(list[k]) \ {q}
      /\ \A k \in ListName : k # l /\ q \notin Range(list[k]) => list'[k] = list[k]
  BY <1>1, MoveEffect
<1>3. stat' \in [Pid -> {"READY", "SLEEPING"}]
  BY DEF IInv, TypeOK
<1>4. StatMatchesList'
  <2> SUFFICES ASSUME NEW p \in Proc
               PROVE  IF stat'[p] = "READY"
                      THEN p \in Range(list'["ready"]) \cup Range(list'["free"])
                      ELSE \E k \in Sem \cup {"block"} : p \in Range(list'[k])
    BY DEF StatMatchesList
  <2>1. CASE p = q
    BY <1>2, <2>1 DEF IInv, TypeOK, ListName
  <2>2. CASE p # q
    <3>1. stat'[p] = stat[p]
      BY <2>2 DEF IInv, TypeOK
    <3>2. \A k \in ListName : p \in Range(list[k]) => p \in Range(list'[k])
      BY <1>2, <2>2
    <3>3. IF stat[p] = "READY"
          THEN p \in Range(list["ready"]) \cup Range(list["free"])
          ELSE \E k \in Sem \cup {"block"} : p \in Range(list[k])
      BY DEF IInv, ListIntegrity, StatMatchesList
    <3> QED
      BY <3>1, <3>2, <3>3 DEF ListName
  <2> QED
    BY <2>1, <2>2
<1>5. \A s \in Sem : s # l /\ list[s] = <<>> => list'[s] = <<>>
  <2>1. Range(<<>>) = {}
    BY SMT DEF Range
  <2> QED
    BY <1>2, <2>1 DEF ListName
<1> QED
  BY <1>2, <1>3, <1>4, <1>5 DEF ListIntegrity

\* A process that puts itself to sleep: what P and sleep() share.
LEMMA SleepLists ==
    ASSUME IInv, At("run"), current # Idle, NEW l \in {"block"} \cup Sem,
           Move(current, l), stat' = [stat EXCEPT ![current] = "SLEEPING"]
    PROVE  /\ current \in Proc
           /\ list' \in [ListName -> Seq(Proc)]
           /\ stat' \in [Pid -> {"READY", "SLEEPING"}]
           /\ ListIntegrity'
           /\ Range(list'["free"]) = Range(list["free"])
           /\ \A s \in Sem : s # l => current \notin Range(list'[s])
           /\ \A s \in Sem : s # l /\ list[s] = <<>> => list'[s] = <<>>
           /\ \A k \in ListName : \A p \in Proc \ {current} :
                 p \in Range(list'[k]) <=> p \in Range(list[k])
<1>1. current \in Proc
  BY DEF IInv, TypeOK
<1>2. l \in {"ready", "block"} \cup Sem /\ l # "ready" /\ l # "free"
  OBVIOUS
<1>3. /\ list' \in [ListName -> Seq(Proc)]
      /\ stat' \in [Pid -> {"READY", "SLEEPING"}]
      /\ ListIntegrity'
      /\ Range(list'[l]) = Range(list[l]) \cup {current}
      /\ \A k \in ListName : k # l => Range(list'[k]) = Range(list[k]) \ {current}
      /\ \A s \in Sem : s # l /\ list[s] = <<>> => list'[s] = <<>>
  BY <1>1, <1>2, MoveKeepsLists
<1>4. Range(list'["free"]) = Range(list["free"])
  <2>1. current \notin Range(list["free"])
    BY DEF IInv, FreeFresh
  <2>2. Range(list'["free"]) = Range(list["free"]) \ {current}
    BY <1>2, <1>3 DEF ListName
  <2> QED
    BY <2>1, <2>2
<1>5. \A s \in Sem : s # l => current \notin Range(list'[s])
  BY <1>3 DEF ListName
<1>6. \A k \in ListName : \A p \in Proc \ {current} :
         p \in Range(list'[k]) <=> p \in Range(list[k])
  BY <1>3
<1> QED
  BY <1>1, <1>3, <1>4, <1>5, <1>6

\* P of a semaphore without a unit: the caller queues itself.
LEMMA P_sleepStep ==
    ASSUME IInv, NEW s \in Sem, P_sleep(s)
    PROVE  IInv'
<1> USE DEF P_sleep, At, Goto, Lock, InIrq, irqVars
<1>1. /\ current \in Proc
      /\ list' \in [ListName -> Seq(Proc)]
      /\ stat' \in [Pid -> {"READY", "SLEEPING"}]
      /\ ListIntegrity'
      /\ Range(list'["free"]) = Range(list["free"])
      /\ \A t \in Sem : t # s => current \notin Range(list'[t])
      /\ \A t \in Sem : t # s /\ list[t] = <<>> => list'[t] = <<>>
      /\ \A k \in ListName : \A p \in Proc \ {current} :
            p \in Range(list'[k]) <=> p \in Range(list[k])
  BY SleepLists
<1> USE DEF IInv
<1>2. TypeOK'
  BY SMT, <1>1 DEF TypeOK, Label
<1>3. NoLostUnit'
  BY SMT, <1>1 DEF TypeOK, NoLostUnit
<1>4. WaitersStop'
  BY <1>1 DEF TypeOK, WaitersStop, ListName
<1>5. LockBalance'
  BY SMT DEF TypeOK, LockBalance, Depth
<1>6. PreemptionPoints'
  BY SMT, <1>1 DEF TypeOK, PreemptionPoints
<1>7. FreeFresh'
  BY SMT, <1>1 DEF TypeOK, FreeFresh
<1>8. ChildWaits'
  BY <1>1 DEF TypeOK, ChildWaits, ListName
<1>9. IntrDiscipline' /\ WakeupAssertHolds'
  BY DEF TypeOK, IntrDiscipline, WakeupAssertHolds
<1> QED
  BY <1>1, <1>2, <1>3, <1>4, <1>5, <1>6, <1>7, <1>8, <1>9

\* sleep(): the caller goes to the block list.
LEMMA sleepStep ==
    ASSUME IInv, sleep
    PROVE  IInv'
<1> USE DEF sleep, At, Goto, Lock, InIrq, irqVars
<1>1. "block" \notin Sem
  OBVIOUS
<1>2. /\ current \in Proc
      /\ list' \in [ListName -> Seq(Proc)]
      /\ stat' \in [Pid -> {"READY", "SLEEPING"}]
      /\ ListIntegrity'
      /\ Range(list'["free"]) = Range(list["free"])
      /\ \A t \in Sem : t # "block" => current \notin Range(list'[t])
      /\ \A t \in Sem : t # "block" /\ list[t] = <<>> => list'[t] = <<>>
      /\ \A k \in ListName : \A p \in Proc \ {current} :
            p \in Range(list'[k]) <=> p \in Range(list[k])
  BY SleepLists
<1> USE DEF IInv
<1>3. TypeOK'
  BY SMT, <1>2 DEF TypeOK, Label
<1>4. NoLostUnit'
  BY <1>1, <1>2 DEF TypeOK, NoLostUnit
<1>5. WaitersStop'
  <2>1. \A t \in Sem : current \notin Range(list'[t])
    BY <1>1, <1>2
  <2>2. \A t \in Sem : \A p \in Proc \ {current} :
           p \in Range(list'[t]) <=> p \in Range(list[t])
    BY <1>2 DEF ListName
  <2> QED
    BY SMT, <1>2, <2>1, <2>2 DEF TypeOK, WaitersStop
<1>6. LockBalance'
  BY SMT DEF TypeOK, LockBalance, Depth
<1>7. PreemptionPoints'
  BY SMT, <1>2 DEF TypeOK, PreemptionPoints
<1>8. FreeFresh'
  BY SMT, <1>2 DEF TypeOK, FreeFresh
<1>9. ChildWaits'
  BY <1>2 DEF TypeOK, ChildWaits, ListName
<1>10. IntrDiscipline' /\ WakeupAssertHolds'
  BY DEF TypeOK, IntrDiscipline, WakeupAssertHolds
<1> QED
  BY <1>2, <1>3, <1>4, <1>5, <1>6, <1>7, <1>8, <1>9, <1>10

\* A process that is woken: what the V of a process, the V of a handler and the
\* wakeup of a created thread share.
LEMMA WakeLists ==
    ASSUME IInv, NEW l \in {"block"} \cup Sem, NEW q \in Range(list[l]), Wake(q)
    PROVE  /\ q \in Proc
           /\ list' \in [ListName -> Seq(Proc)]
           /\ stat' \in [Pid -> {"READY", "SLEEPING"}]
           /\ stat' = [stat EXCEPT ![q] = "READY"]
           /\ ListIntegrity'
           /\ Range(list'["free"]) = Range(list["free"])
           /\ \A s \in Sem : Range(list'[s]) = Range(list[s]) \ {q}
           /\ Range(list'["block"]) = Range(list["block"]) \ {q}
           /\ \A s \in Sem : list[s] = <<>> => list'[s] = <<>>
           /\ UNCHANGED panic
<1>1. q \in Proc
  BY Whereabouts
<1>6. UNCHANGED panic
  <2>1. stat[q] = "SLEEPING"
    BY Whereabouts
  <2> QED
    BY <2>1 DEF Wake
<1>2. stat' = [stat EXCEPT ![q] = "READY"]
  BY DEF Wake
<1>3. Move(q, "ready")
  BY DEF Wake
<1>4. /\ list' \in [ListName -> Seq(Proc)]
      /\ stat' \in [Pid -> {"READY", "SLEEPING"}]
      /\ ListIntegrity'
      /\ \A k \in ListName : k # "ready" => Range(list'[k]) = Range(list[k]) \ {q}
      /\ \A s \in Sem : s # "ready" /\ list[s] = <<>> => list'[s] = <<>>
  BY <1>1, <1>2, <1>3, MoveKeepsLists
<1>5. Range(list'["free"]) = Range(list["free"])
  <2>1. q \notin Range(list["free"])
    <3>1. l \in ListName /\ "free" \in ListName /\ l # "free"
      BY DEF ListName
    <3> QED
      BY <3>1 DEF IInv, ListIntegrity, NoSharing
  <2>2. Range(list'["free"]) = Range(list["free"]) \ {q}
    BY <1>4 DEF ListName
  <2> QED
    BY <2>1, <2>2
<1> QED
  BY <1>1, <1>2, <1>4, <1>5, <1>6 DEF ListName

\* V by a process: the first waiter goes to the ready list.
LEMMA V_wakeStep ==
    ASSUME IInv, NEW s \in Sem, V_wake(s)
    PROVE  IInv'
<1> DEFINE q == Head(list[s])
<1>1. q \in Range(list[s]) /\ Wake(q)
  BY Whereabouts DEF V_wake, ListName
<1> HIDE DEF q
<1>2. /\ q \in Proc
      /\ list' \in [ListName -> Seq(Proc)]
      /\ stat' \in [Pid -> {"READY", "SLEEPING"}]
      /\ stat' = [stat EXCEPT ![q] = "READY"]
      /\ ListIntegrity'
      /\ Range(list'["free"]) = Range(list["free"])
      /\ \A t \in Sem : Range(list'[t]) = Range(list[t]) \ {q}
      /\ Range(list'["block"]) = Range(list["block"]) \ {q}
      /\ \A t \in Sem : list[t] = <<>> => list'[t] = <<>>
      /\ UNCHANGED panic
  BY <1>1, WakeLists
<1>3. q \notin Range(list["block"])
  BY <1>1 DEF IInv, ListIntegrity, NoSharing, ListName
<1> USE DEF V_wake, At, Goto, Lock, InIrq, irqVars, IInv
<1>4. TypeOK'
  <2>1. lock_count' \in Nat /\ IFlag' \in {0, 1}
    BY SMT DEF TypeOK
  <2>2. pc' \in [Pid -> Label]
    BY DEF TypeOK, Label
  <2>3. UNCHANGED <<token, current, locked, tf, todo, lock_flag, intr_flag, child>>
    OBVIOUS
  <2> QED
    BY SMT, <1>2, <2>1, <2>2, <2>3 DEF TypeOK
<1>5. NoLostUnit'
  BY <1>2 DEF TypeOK, NoLostUnit
<1>6. WaitersStop'
  <2>1. current \in Proc => /\ stat[current] = "READY"
                            /\ \A t \in Sem : current \notin Range(list[t])
    BY DEF TypeOK, WaitersStop
  <2>2. current \in Proc => /\ stat'[current] = "READY"
                            /\ \A t \in Sem : current \notin Range(list'[t])
    BY ZenonT(30), <1>2, <2>1 DEF TypeOK
  <2>3. \A p \in Proc, t \in Sem : p \in Range(list'[t]) => p \in Range(list[t])
    BY <1>2
  <2> QED
    BY <2>2, <2>3 DEF TypeOK, WaitersStop
<1>7. LockBalance'
  BY SMT DEF TypeOK, LockBalance, Depth
<1>8. PreemptionPoints'
  BY SMT, <1>2 DEF TypeOK, PreemptionPoints
<1>9. FreeFresh'
  BY SMT, <1>2 DEF TypeOK, FreeFresh
<1>10. ChildWaits'
  BY <1>2, <1>3 DEF TypeOK, ChildWaits
<1>11. IntrDiscipline' /\ WakeupAssertHolds'
  BY <1>2 DEF TypeOK, IntrDiscipline, WakeupAssertHolds
<1> QED
  BY <1>2, <1>4, <1>5, <1>6, <1>7, <1>8, <1>9, <1>10, <1>11

\* V by an interrupt handler: the same, with the CPU's state untouched.
LEMMA IrqV_wakeStep ==
    ASSUME IInv, IrqV_wake
    PROVE  IInv'
<1> DEFINE s == Head(todo)
           q == Head(list[s])
<1>1. s \in Sem /\ Tail(todo) \in Seq(Sem)
  BY SeqHeadTail DEF IrqV_wake, IInv, TypeOK
<1>2. q \in Range(list[s]) /\ Wake(q)
  BY <1>1, Whereabouts DEF IrqV_wake, ListName
<1>3. todo' \in Seq(Sem)
  BY <1>1 DEF IrqV_wake
<1> HIDE DEF s, q
<1>4. /\ q \in Proc
      /\ list' \in [ListName -> Seq(Proc)]
      /\ stat' \in [Pid -> {"READY", "SLEEPING"}]
      /\ stat' = [stat EXCEPT ![q] = "READY"]
      /\ ListIntegrity'
      /\ Range(list'["free"]) = Range(list["free"])
      /\ \A t \in Sem : Range(list'[t]) = Range(list[t]) \ {q}
      /\ Range(list'["block"]) = Range(list["block"]) \ {q}
      /\ \A t \in Sem : list[t] = <<>> => list'[t] = <<>>
      /\ UNCHANGED panic
  BY <1>1, <1>2, WakeLists
<1>5. q \notin Range(list["block"])
  BY <1>1, <1>2 DEF IInv, ListIntegrity, NoSharing, ListName
<1>6. /\ UNCHANGED <<lock_count, lock_flag, IFlag, token, current, locked, tf, pc,
                     intr_flag, child, panic>>
      /\ InIrq
  BY <1>4 DEF IrqV_wake, lockVars
<1> USE DEF IInv, InIrq
<1>7. TypeOK'
  BY <1>3, <1>4, <1>6 DEF TypeOK
<1>8. NoLostUnit'
  BY <1>4, <1>6 DEF NoLostUnit
<1>9. WaitersStop'
  BY <1>4, <1>6 DEF WaitersStop
<1>10. LockBalance'
  BY <1>6 DEF LockBalance
<1>11. PreemptionPoints'
  BY <1>4, <1>6 DEF PreemptionPoints
<1>12. FreeFresh'
  BY <1>4, <1>6 DEF FreeFresh
<1>13. ChildWaits'
  BY <1>4, <1>5, <1>6 DEF ChildWaits
<1>14. IntrDiscipline' /\ WakeupAssertHolds'
  BY <1>6 DEF IntrDiscipline, WakeupAssertHolds
<1> QED
  BY <1>4, <1>7, <1>8, <1>9, <1>10, <1>11, <1>12, <1>13, <1>14

\* The creator wakes its thread.
LEMMA wakeupStep ==
    ASSUME IInv, wakeup
    PROVE  IInv'
<1> DEFINE q == child[current]
<1>1. /\ q \in Range(list["block"])
      /\ q # current
      /\ \A p \in Pid : child[p] = q => p = current
  BY DEF wakeup, IInv, TypeOK, ChildWaits
<1>2. Wake(q)
  BY DEF wakeup
<1> HIDE DEF q
<1>3. /\ q \in Proc
      /\ list' \in [ListName -> Seq(Proc)]
      /\ stat' \in [Pid -> {"READY", "SLEEPING"}]
      /\ stat' = [stat EXCEPT ![q] = "READY"]
      /\ ListIntegrity'
      /\ Range(list'["free"]) = Range(list["free"])
      /\ \A t \in Sem : Range(list'[t]) = Range(list[t]) \ {q}
      /\ Range(list'["block"]) = Range(list["block"]) \ {q}
      /\ \A t \in Sem : list[t] = <<>> => list'[t] = <<>>
      /\ UNCHANGED panic
  BY <1>1, <1>2, WakeLists
<1> USE DEF wakeup, At, Goto, Lock, InIrq, irqVars, IInv
<1>4. TypeOK'
  <2>1. 0 \in Pid
    BY SMT DEF Pid
  <2>2. child' \in [Pid -> Pid]
    BY <2>1 DEF TypeOK
  <2> QED
    BY SMT, <1>3, <2>2 DEF TypeOK, Label
<1>5. NoLostUnit'
  BY <1>3 DEF TypeOK, NoLostUnit
<1>6. WaitersStop'
  <2>1. current \in Proc => /\ stat[current] = "READY"
                            /\ \A t \in Sem : current \notin Range(list[t])
    BY DEF TypeOK, WaitersStop
  <2>2. current \in Proc => /\ stat'[current] = "READY"
                            /\ \A t \in Sem : current \notin Range(list'[t])
    BY ZenonT(30), <1>3, <2>1 DEF TypeOK
  <2>3. \A p \in Proc, t \in Sem : p \in Range(list'[t]) => p \in Range(list[t])
    BY <1>3
  <2> QED
    BY <2>2, <2>3 DEF TypeOK, WaitersStop
<1>7. LockBalance'
  BY SMT DEF TypeOK, LockBalance, Depth
<1>8. PreemptionPoints'
  BY SMT, <1>3 DEF TypeOK, PreemptionPoints
<1>9. FreeFresh'
  BY SMT, <1>3 DEF TypeOK, FreeFresh
<1>10. ChildWaits'
  BY SMT, <1>1, <1>3 DEF TypeOK, ChildWaits
<1>11. IntrDiscipline' /\ WakeupAssertHolds'
  BY <1>3 DEF TypeOK, IntrDiscipline, WakeupAssertHolds
<1> QED
  BY <1>3, <1>4, <1>5, <1>6, <1>7, <1>8, <1>9, <1>10, <1>11
\* create_kthread takes the first free PCB.
LEMMA create_kthreadStep ==
    ASSUME IInv, create_kthread
    PROVE  IInv'
<1> DEFINE q == Head(list["free"])
<1>1. /\ q \in Range(list["free"]) /\ q \in Proc
      /\ q # current /\ pc[q] = "run" /\ locked[q] = 0
  BY Whereabouts DEF create_kthread, ListName, IInv, FreeFresh
<1>2. /\ Move(q, "block")
      /\ stat' = [stat EXCEPT ![q] = "SLEEPING"]
      /\ locked' = [locked EXCEPT ![q] = 0]
      /\ tf' = [tf EXCEPT ![q] = 1]
      /\ child' = [child EXCEPT ![current] = q]
  BY DEF create_kthread
<1> HIDE DEF q
<1>3. /\ list' \in [ListName -> Seq(Proc)]
      /\ stat' \in [Pid -> {"READY", "SLEEPING"}]
      /\ ListIntegrity'
      /\ Range(list'["block"]) = Range(list["block"]) \cup {q}
      /\ \A k \in ListName : k # "block" => Range(list'[k]) = Range(list[k]) \ {q}
      /\ \A s \in Sem : s # "block" /\ list[s] = <<>> => list'[s] = <<>>
  <2> DEFINE l == "block"
             st == "SLEEPING"
  <2>1. /\ l \in {"ready", "block"} \cup Sem
        /\ st \in {"READY", "SLEEPING"}
        /\ st = "READY" <=> l = "ready"
    OBVIOUS
  <2>2. Move(q, l) /\ stat' = [stat EXCEPT ![q] = st]
    BY <1>2
  <2> HIDE DEF l, st
  <2>3. /\ list' \in [ListName -> Seq(Proc)]
        /\ stat' \in [Pid -> {"READY", "SLEEPING"}]
        /\ ListIntegrity'
        /\ Range(list'[l]) = Range(list[l]) \cup {q}
        /\ \A k \in ListName : k # l => Range(list'[k]) = Range(list[k]) \ {q}
        /\ \A s \in Sem : s # l /\ list[s] = <<>> => list'[s] = <<>>
    BY <1>1, <2>1, <2>2, MoveKeepsLists
  <2> QED
    BY <2>3 DEF l
<1>4. /\ \A s \in Sem : s # "block" /\ Range(list'[s]) = Range(list[s]) \ {q}
      /\ Range(list'["free"]) = Range(list["free"]) \ {q}
      /\ q \notin Range(list["block"])
  BY <1>1, <1>3 DEF ListName, IInv, ListIntegrity, NoSharing
<1>5. /\ At("run") /\ child[current] = 0 /\ Lock(1) /\ Goto("K_unlock")
      /\ intr_flag' = [intr_flag EXCEPT ![current] = IFlag]
      /\ UNCHANGED <<token, current, lock_flag, todo, panic>>
  BY DEF create_kthread
<1> USE DEF At, Goto, Lock, InIrq, IInv
<1>6. TypeOK'
  BY SMTT(30), <1>1, <1>2, <1>3, <1>5 DEF TypeOK, Label
<1>7. NoLostUnit'
  BY <1>3, <1>4, <1>5 DEF TypeOK, NoLostUnit
<1>8. WaitersStop'
  <2>1. current \in Proc => /\ stat[current] = "READY"
                            /\ \A t \in Sem : current \notin Range(list[t])
    BY <1>5 DEF TypeOK, WaitersStop
  <2>2. current \in Proc => /\ stat'[current] = "READY"
                            /\ \A t \in Sem : current \notin Range(list'[t])
    BY <1>1, <1>2, <1>4, <2>1 DEF TypeOK
  <2>3. \A p \in Proc, t \in Sem : p \in Range(list'[t]) => p \in Range(list[t])
    BY <1>4
  <2> QED
    BY <1>5, <2>2, <2>3 DEF TypeOK, WaitersStop
<1>9. LockBalance'
  BY SMT, <1>1, <1>2, <1>5 DEF TypeOK, LockBalance, Depth
<1>10. PreemptionPoints'
  BY <1>1, <1>2, <1>4, <1>5 DEF TypeOK, PreemptionPoints
<1>11. FreeFresh'
  BY SMTT(30), <1>2, <1>4, <1>5 DEF TypeOK, FreeFresh
<1>12. ChildWaits'
  BY SMT, <1>1, <1>2, <1>3, <1>4, <1>5 DEF TypeOK, ChildWaits
<1>13. IntrDiscipline' /\ WakeupAssertHolds'
  BY <1>1, <1>2, <1>5 DEF TypeOK, IntrDiscipline, WakeupAssertHolds
<1> QED
  BY <1>3, <1>6, <1>7, <1>8, <1>9, <1>10, <1>11, <1>12, <1>13

\* create_kthread's assertion can fail, when the pool is used up, and then
\* nothing moves.
LEMMA PanicStep ==
    ASSUME IInv, create_kthread_assert
    PROVE  IInv'
BY SMT DEF create_kthread_assert, Panic, IInv, TypeOK, ListIntegrity, NoSharing,
       StatMatchesList, NoLostUnit, WaitersStop, LockBalance, PreemptionPoints,
       WakeupAssertHolds, FreeFresh, ChildWaits, IntrDiscipline, InIrq

\* The state init_proc leaves satisfies the invariant.
LEMMA InitIInv == Init => IInv
<1> SUFFICES ASSUME Init PROVE IInv
  OBVIOUS
<1> USE DEF Init, InIrq
<1>1. [n \in 1..(PCB_POOL_SIZE - 1) |-> n] \in Seq(Proc)
  BY SMT DEF Pid
<1>2. <<>> \in Seq(Proc) /\ <<>> \in Seq(Sem) /\ 0 \in Pid
  BY SMT, SeqEmpty DEF Pid
<1>3. TypeOK
  BY <1>1, <1>2 DEF TypeOK, Label
<1>4. /\ list["free"] = [n \in 1..(PCB_POOL_SIZE - 1) |-> n]
      /\ \A l \in ListName : l # "free" => list[l] = <<>>
  BY DEF ListName
<1>5. Range(<<>>) = {} /\ IsInjective(<<>>)
  BY SMT DEF Range, IsInjective
<1>6. Range(list["free"]) = Proc /\ IsInjective(list["free"])
  <2>1. Proc = 1..(PCB_POOL_SIZE - 1)
    BY SMT DEF Pid
  <2> DEFINE f == list["free"]
  <2>2. DOMAIN f = Proc /\ \A n \in Proc : f[n] = n
    BY <1>4, <2>1
  <2> HIDE DEF f, Init
  <2>3. Range(f) = Proc /\ IsInjective(f)
    BY SMT, <2>2 DEF Range, IsInjective
  <2> QED
    BY <2>3 DEF f
<1>7. \A l \in ListName : l # "free" => Range(list[l]) = {}
  BY <1>4, <1>5
<1>8. NoSharing
  BY <1>4, <1>5, <1>6, <1>7 DEF NoSharing
<1>9. StatMatchesList
  BY <1>6 DEF StatMatchesList
<1>10. NoLostUnit /\ LockBalance /\ WakeupAssertHolds /\ IntrDiscipline
  BY <1>2, <1>4 DEF NoLostUnit, LockBalance, Depth, WakeupAssertHolds, IntrDiscipline, ListName
<1>11. WaitersStop /\ PreemptionPoints /\ FreeFresh /\ ChildWaits
  BY <1>6, <1>7 DEF WaitersStop, PreemptionPoints, FreeFresh, ChildWaits, ListName
<1> QED
  BY <1>3, <1>8, <1>9, <1>10, <1>11 DEF IInv, ListIntegrity

\* Every step of every process, interrupt handler and of the scheduler keeps
\* the invariant.
LEMMA NextIInv == IInv /\ [Next]_vars => IInv'
<1> SUFFICES ASSUME IInv, [Next]_vars PROVE IInv'
  OBVIOUS
<1>1. CASE Call
  BY <1>1, QuietStep, P_sleepStep, sleepStep, V_wakeStep, wakeupStep,
     create_kthreadStep, PanicStep DEF Call, P, V
<1>2. CASE OpStep \/ boot_sti
  BY <1>2, QuietStep
<1>3. CASE IrqEnter
  BY <1>3, QuietIrq
<1>4. CASE IrqStep
  BY ZenonT(30), <1>4, QuietIrq, IrqV_wakeStep DEF IrqStep
<1>5. CASE Panicked \/ UNCHANGED vars
  <2>1. UNCHANGED vars
    BY <1>5 DEF Panicked
  <2> QED
    BY SMTT(30), <2>1
    DEF vars, IInv, TypeOK, ListIntegrity, NoSharing, StatMatchesList, NoLostUnit,
        WaitersStop, LockBalance, PreemptionPoints, WakeupAssertHolds, FreeFresh,
        ChildWaits, IntrDiscipline, InIrq
<1> QED
  BY <1>1, <1>2, <1>3, <1>4, <1>5 DEF Next

\* The whole invariant holds in every reachable state of the core, for any
\* number of PCBs, any set of semaphores and any interrupt handlers.
THEOREM KernelInvariant == Spec => []IInv
<1>1. Init => IInv
  BY InitIInv
<1>2. IInv /\ [Next]_vars => IInv'
  BY NextIInv
<1> QED
  BY <1>1, <1>2, PTL DEF Spec
\* The types of the core's state.
THEOREM KernelTypes == Spec => []TypeOK
BY KernelInvariant, PTL DEF IInv

\* No PCB is lost, shared or on a list its stat denies.
THEOREM KernelLists == Spec => []ListIntegrity
BY KernelInvariant, PTL DEF IInv

\* No V is lost: a unit is never banked while a process waits for it.
THEOREM KernelNoLostUnit == Spec => []NoLostUnit
BY KernelInvariant, PTL DEF IInv

\* P returns only to a process that was given its unit.
THEOREM KernelWaitersStop == Spec => []WaitersStop
BY KernelInvariant, PTL DEF IInv

\* lock_count is each process's own nesting depth.
THEOREM KernelLockBalance == Spec => []LockBalance
BY KernelInvariant, PTL DEF IInv

\* Lists and tokens change only while the process cannot lose the CPU.
THEOREM KernelPreemption == Spec => []PreemptionPoints
BY KernelInvariant, PTL DEF IInv

\* wakeup's assertion never fails.
THEOREM KernelWakeupAssert == Spec => []WakeupAssertHolds
BY KernelInvariant, PTL DEF IInv

-----------------------------------------------------------------------------
(* Refinement: the core implements atomic FIFO semaphores.                  *)

\* V, by a process or a handler, is one step of the abstract semaphore: the
\* first waiter leaves its queue and no other queue changes.
LEMMA WakeIsHandOff ==
    ASSUME IInv, NEW s \in Sem, list[s] # <<>>, Wake(Head(list[s])), UNCHANGED token
    PROVE  S!HandOff(s)
<1> DEFINE q == Head(list[s])
<1>1. q \in Proc /\ q \in Range(list[s])
  BY Whereabouts DEF ListName
<1>2. \A t \in Sem : t # s => q \notin Range(list[t])
  BY <1>1 DEF IInv, ListIntegrity, NoSharing, ListName
<1>3. Move(q, "ready")
  BY DEF Wake
<1>4. list \in [ListName -> Seq(Proc)] /\ NoSharing /\ "ready" \in ListName
  BY DEF IInv, TypeOK, ListIntegrity, ListName
<1>5. /\ \A k \in ListName : k # "ready" /\ q \notin Range(list[k]) => list'[k] = list[k]
      /\ \A k \in ListName : k # "ready" /\ list[k] # <<>> /\ q = Head(list[k]) =>
            list'[k] = Tail(list[k])
  BY <1>1, <1>3, <1>4, MoveEffect
<1>6. list'[s] = Tail(list[s]) /\ \A t \in Sem : t # s => list'[t] = list[t]
  BY <1>2, <1>5 DEF ListName
<1>7. [t \in Sem |-> list'[t]]
        = [[t \in Sem |-> list[t]] EXCEPT ![s] = Tail([t \in Sem |-> list[t]][s])]
  BY <1>6
<1>8. token[s] = 0
  BY SMT DEF IInv, TypeOK, NoLostUnit
<1> QED
  BY <1>7, <1>8 DEF S!HandOff

\* A PCB that moves between ready, block and free is invisible to the clients
\* of the semaphores.
LEMMA MoveIsStutter ==
    ASSUME IInv, NEW q \in Proc, \A s \in Sem : q \notin Range(list[s]),
           NEW l \in {"ready", "block"}, Move(q, l), UNCHANGED token
    PROVE  UNCHANGED S!semVars
<1>1. list \in [ListName -> Seq(Proc)] /\ NoSharing /\ l \in ListName
  BY DEF IInv, TypeOK, ListIntegrity, ListName
<1>2. \A k \in ListName : k # l /\ q \notin Range(list[k]) => list'[k] = list[k]
  BY <1>1, MoveEffect
<1>3. \A s \in Sem : list'[s] = list[s]
  BY <1>2 DEF ListName
<1>4. [s \in Sem |-> list'[s]] = [s \in Sem |-> list[s]]
  BY <1>3
<1> QED
  BY <1>4 DEF S!semVars

\* P of a semaphore without units is the abstract Wait.
LEMMA P_sleepIsWait ==
    ASSUME IInv, NEW s \in Sem, P_sleep(s)
    PROVE  S!Wait(current, s) /\ current \in Proc
<1>1. current \in Proc /\ pc[current] = "run"
  BY DEF P_sleep, At, IInv, TypeOK
<1>2. \A t \in Sem : current \notin Range(list[t])
  BY <1>1 DEF IInv, WaitersStop
<1>3. list \in [ListName -> Seq(Proc)] /\ NoSharing /\ s \in ListName
  BY DEF IInv, TypeOK, ListIntegrity, ListName
<1>4. Move(current, s)
  BY DEF P_sleep
<1>5. /\ \A k \in ListName : k # s /\ current \notin Range(list[k]) => list'[k] = list[k]
      /\ current \notin Range(list[s]) => list'[s] = Append(list[s], current)
  BY <1>1, <1>3, <1>4, MoveEffect
<1>6. /\ list'[s] = Append(list[s], current)
      /\ \A t \in Sem : t # s => list'[t] = list[t]
  BY <1>2, <1>5 DEF ListName
<1>7. [t \in Sem |-> list'[t]]
        = [[t \in Sem |-> list[t]] EXCEPT ![s] = Append([t \in Sem |-> list[t]][s], current)]
  BY <1>6
<1>8. token[s] = 0 /\ UNCHANGED token
  BY SMT DEF P_sleep, IInv, TypeOK
<1>9. ~S!Waiting(current)
  BY <1>2 DEF S!Waiting, Range, S!Range
<1> QED
  BY <1>1, <1>7, <1>8, <1>9 DEF S!Wait
\* Every step of the core is a step of the abstract semaphores, or invisible.
LEMMA StepRefines == IInv /\ [Next]_vars => [S!SemNext]_(S!semVars)
<1> SUFFICES ASSUME IInv, [Next]_vars PROVE [S!SemNext]_(S!semVars)
  OBVIOUS
<1>1. ASSUME UNCHANGED <<list, token>> PROVE UNCHANGED S!semVars
  BY <1>1 DEF S!semVars
<1>2. ASSUME NEW s \in Sem, P_take(s) PROVE S!SemNext
  <2>1. token[s] > 0 /\ list[s] = <<>>
    BY <1>2 DEF P_take, IInv, NoLostUnit
  <2>2. S!Take(s)
    BY <1>2, <2>1 DEF P_take, listVars, S!Take
  <2> QED
    BY <2>2 DEF S!SemNext
<1>3. ASSUME NEW s \in Sem, P_sleep(s) PROVE S!SemNext
  BY <1>3, P_sleepIsWait DEF S!SemNext
<1>4. ASSUME NEW s \in Sem, V(s) PROVE [S!SemNext]_(S!semVars)
  <2>1. CASE V_empty(s)
    <3>1. S!Release(s)
      BY <2>1 DEF V_empty, listVars, S!Release
    <3> QED
      BY <3>1 DEF S!SemNext
  <2>2. CASE V_wake(s)
    <3>1. S!HandOff(s)
      BY <2>2, WakeIsHandOff DEF V_wake
    <3> QED
      BY <3>1 DEF S!SemNext
  <2>3. CASE V_raw(s)
    BY <2>3, <1>1 DEF V_raw, listVars
  <2> QED
    BY <1>4, <2>1, <2>2, <2>3 DEF V
<1>5. CASE sleep
  <2>1. current \in Proc /\ pc[current] = "run" /\ Move(current, "block") /\ UNCHANGED token
    BY <1>5 DEF sleep, At, IInv, TypeOK
  <2>2. \A s \in Sem : current \notin Range(list[s])
    BY <2>1 DEF IInv, WaitersStop
  <2> QED
    BY <2>1, <2>2, MoveIsStutter
<1>6. CASE create_kthread
  <2> DEFINE q == Head(list["free"])
  <2>1. q \in Proc /\ q \in Range(list["free"]) /\ Move(q, "block") /\ UNCHANGED token
    BY <1>6, Whereabouts DEF create_kthread, ListName
  <2>2. \A s \in Sem : q \notin Range(list[s])
    BY <2>1 DEF IInv, ListIntegrity, NoSharing, ListName
  <2> HIDE DEF q
  <2> QED
    BY <2>1, <2>2, MoveIsStutter
<1>7. CASE wakeup
  <2> DEFINE q == child[current]
  <2>1. q \in Range(list["block"]) /\ Move(q, "ready") /\ UNCHANGED token
    BY <1>7 DEF wakeup, Wake, IInv, TypeOK, ChildWaits
  <2>2. q \in Proc /\ \A s \in Sem : q \notin Range(list[s])
    BY <2>1, Whereabouts DEF IInv, ListIntegrity, NoSharing, ListName
  <2> HIDE DEF q
  <2> QED
    BY <2>1, <2>2, MoveIsStutter
<1>8. CASE create_kthread_assert \/ boot_sti
  BY <1>8, <1>1 DEF create_kthread_assert, Panic, boot_sti, listVars
<1>9. CASE OpStep
  BY <1>9, <1>1
  DEF OpStep, P_unlock, S_unlock, S_int, P_cli, V_unlock, W_unlock, Z_unlock, Z_int,
      K_unlock, K_tail, C_unlock, UnlockAt, Int0x80, listVars
<1>10. CASE IrqEnter
  BY <1>10, <1>1 DEF IrqEnter, listVars
<1>11. CASE IrqStep
  <2> DEFINE h == Head(todo)
  <2>1. todo # <<>> => h \in Sem
    BY SeqHeadTail DEF IInv, TypeOK
  <2>2. CASE IrqV_empty
    <3>1. /\ h \in Sem /\ list[h] = <<>> /\ UNCHANGED list
          /\ token' = [token EXCEPT ![h] = token[h] + 1]
      BY <2>1, <2>2 DEF IrqV_empty, listVars
    <3> HIDE DEF h
    <3>2. S!Release(h)
      BY <3>1 DEF S!Release
    <3> QED
      BY <3>1, <3>2 DEF S!SemNext
  <2>3. CASE IrqV_wake
    <3>1. PICK s \in Sem : list[s] # <<>> /\ Wake(Head(list[s])) /\ UNCHANGED token
      BY <2>1, <2>3 DEF IrqV_wake
    <3> HIDE DEF h
    <3>2. S!HandOff(s)
      BY <3>1, WakeIsHandOff
    <3> QED
      BY <3>1, <3>2 DEF S!SemNext
  <2>4. CASE IrqV_raw \/ IrqExit
    BY <2>4, <1>1 DEF IrqV_raw, IrqExit, listVars
  <2> QED
    BY <1>11, <2>2, <2>3, <2>4 DEF IrqStep
<1>12. CASE Panicked \/ UNCHANGED vars
  BY <1>12, <1>1 DEF Panicked, vars
<1> QED
  BY <1>2, <1>3, <1>4, <1>5, <1>6, <1>7, <1>8, <1>9, <1>10, <1>11, <1>12
  DEF Next, Call, P

\* P and V of lock.c, with sleep_sem, wakeup, the interrupts and the scheduler
\* under them, implement atomic FIFO semaphores with direct hand-off.
THEOREM KernelImplementsSemaphore == Spec => SemaphoreSpec
<1>1. Init => S!SemInit
  BY SMT DEF Init, S!SemInit, ListName
<1>2. IInv /\ [Next]_vars => [S!SemNext]_(S!semVars)
  BY StepRefines
<1> QED
  BY <1>1, <1>2, KernelInvariant, PTL DEF Spec, SemaphoreSpec, S!SemSpec
=============================================================================
