------------------------------- MODULE Screen -------------------------------
(***************************************************************************)
(* The screen of a console (src/src/kernel/drivers/tty/console.c): a       *)
(* window of SCR_H rows into a buffer of twice as many, a cursor in it,    *)
(* and the line being typed, which is edited in lbuf and on the screen at  *)
(* the same time.  Output of programs goes to the same cursor.             *)
(***************************************************************************)
EXTENDS Integers, Sequences, Lists

CONSTANTS SCR_W, SCR_H, LBUF_SZ,
          Ch  \* the characters that are typed

ASSUME ScreenAssumption ==
    /\ {SCR_W, SCR_H, LBUF_SZ} \subseteq Nat \ {0}
    /\ LBUF_SZ + SCR_W <= SCR_W * SCR_H
    /\ Ch \cap {" ", "\n", "\r"} = {}

wh == SCR_W * SCR_H
size == wh * 2

\* The buffer, and the cell after it: the next console's first one.  A cell holds
\* a character of the line being typed, or " ", which is anything else: finished
\* lines, output, and everything once upset is set.
Cell == 0..size
Blank == [x \in Cell |-> " "]

VARIABLES c,       \* vbuf, scr (from the start of vbuf) and pos
          lbuf, i, \* the line up to its NUL, and the cursor in it
          upset,   \* the cursor and the line may have come apart (see write and cook), and
                   \* no line has begun in the window since
          stray    \* something outside Cell was touched

screenVars == <<c, lbuf, i, upset, stray>>

-----------------------------------------------------------------------------
(* The cursor                                                               *)

\* A row up; at its end the buffer moves instead of the window.
scrup(s) ==
    LET t == IF s.scr + wh >= size
             THEN [vbuf |-> [x \in Cell |-> s.vbuf[IF x < size - SCR_W THEN x + SCR_W ELSE x]],
                   scr |-> s.scr - SCR_W, pos |-> s.pos - SCR_W]
             ELSE s
        row == (t.scr + wh)..(t.scr + wh + SCR_W - 1)
    IN  [vbuf |-> [x \in Cell |-> IF x \in row THEN " " ELSE t.vbuf[x]],
         scr |-> t.scr + SCR_W, pos |-> t.pos]

\* Mutant: the screen does not scroll after its last cell.
next_off(s) == [s EXCEPT !.pos = @ + 1]

next(s) ==
    LET t == IF s.pos = s.scr + wh - 1 THEN scrup(s) ELSE s
    IN  [t EXCEPT !.pos = @ + 1]

putc(s, ch) == [s EXCEPT !.vbuf[s.pos] = ch]

\* C's remainder of the cursor by the width.
column(s) == IF s.pos >= 0 THEN s.pos % SCR_W ELSE -((-s.pos) % SCR_W)
cr(s) == [s EXCEPT !.pos = s.pos - column(s)]

lf(s) ==
    LET t == [s EXCEPT !.pos = @ + SCR_W]
    IN  IF t.pos >= t.scr + wh THEN scrup(t) ELSE t

consl_writec(s, ch) ==
    CASE ch = "\r" -> cr(s)
      [] ch = "\n" -> lf(cr(s))
      [] OTHER -> next(putc(s, ch))

-----------------------------------------------------------------------------
(* The line                                                                 *)

\* The characters from the cursor on.
cc == Len(lbuf) - i

\* One round of the loop in consl_accept.
shift(s, k) ==
    LET t == IF s.pos + k = s.scr + wh + 1 THEN scrup(s) ELSE s
    IN  [t EXCEPT !.vbuf[t.pos + k] = t.vbuf[t.pos + k - 1]]

\* The loop runs from cc + 1 down to 1; the screen after k rounds.
Rounds[k \in 0..(cc + 1)] == IF k = 0 THEN c ELSE shift(Rounds[k - 1], cc + 2 - k)

Shifted == Rounds[cc + 1]

InWindow(s) == s.pos \in s.scr..(s.scr + wh - 1)

\* The new state is s, l, p if the cells that were touched, lo to hi, are there; u
\* says if the step upsets the cursor.
become(s, l, p, lo, hi, u) ==
    IF lo >= 0 /\ hi <= size
    THEN /\ lbuf' = l /\ i' = p
         /\ upset' = ((upset \/ u) /\ ~(l = <<>> /\ InWindow(s)))
         /\ c' = IF upset' \/ l = <<>> THEN [s EXCEPT !.vbuf = Blank] ELSE s
         /\ UNCHANGED stray
    ELSE stray' = TRUE /\ UNCHANGED <<c, lbuf, i, upset>>

\* The highest cell the loop in consl_accept writes.
Highest ==
    LET t == IF c.pos + cc = c.scr + wh THEN scrup(c) ELSE c
    IN  t.pos + cc + 1

consl_accept(ch) ==
    /\ ~stray
    /\ Len(lbuf) + 1 < LBUF_SZ
    /\ become(next(putc(Shifted, ch)), InsertAt(lbuf, i + 1, ch), i + 1, c.pos, Highest, FALSE)

moveto(p) == become([c EXCEPT !.pos = @ + p - i], lbuf, p, 0, 0, FALSE)
movl == ~stray /\ i # 0 /\ moveto(i - 1)
movr == ~stray /\ i < Len(lbuf) /\ moveto(i + 1)
feed_HOME == ~stray /\ i # 0 /\ moveto(0)
feed_END == ~stray /\ i < Len(lbuf) /\ moveto(Len(lbuf))

\* Mutant: the screen is shifted one cell less than the line.
removec_short(p, q) ==
    [c EXCEPT !.vbuf = [x \in Cell |-> IF x \in (q - 1)..(q - 2 + Len(lbuf) - p - 1)
                                       THEN c.vbuf[x + 1] ELSE c.vbuf[x]],
              !.pos = q - 1]

\* removec with the cursor of the line at p, of the screen at q.
removec(p, q) ==
    [c EXCEPT !.vbuf = [x \in Cell |-> IF x \in (q - 1)..(q - 1 + Len(lbuf) - p)
                                       THEN c.vbuf[x + 1] ELSE c.vbuf[x]],
              !.pos = q - 1]

backsp(p, q) ==
    LET s == removec(p, q)
    IN  become(IF p = Len(lbuf) THEN putc(s, " ") ELSE s, RemoveAt(lbuf, p), p - 1,
               q - 1, q + Len(lbuf) - p, FALSE)

feed_BACK == ~stray /\ i > 0 /\ backsp(i, c.pos)

\* Delete is a step to the right and a backspace, at the end only a backspace.
feed_DEL ==
    /\ ~stray
    /\ IF i < Len(lbuf) THEN backsp(i + 1, c.pos + 1) ELSE i > 0 /\ backsp(i, c.pos)

\* Enter.  Right behind the window it leaves the cursor a row below it.
cook ==
    /\ ~stray
    /\ become(lf(cr(c)), <<>>, 0, 0, 0, c.pos = c.scr + wh)

-----------------------------------------------------------------------------
\* A character of a DEV_WRITE request.  In the middle of a line it moves the cursor
\* away from the line.
write(ch) ==
    /\ ~stray
    /\ LET at == IF ch = " " THEN c.pos ELSE 0
       IN  become(consl_writec(c, ch), lbuf, i, at, at, lbuf # <<>>)

ScreenInit ==
    /\ c = [vbuf |-> Blank, scr |-> 0, pos |-> 0]
    /\ lbuf = <<>> /\ i = 0
    /\ upset = FALSE /\ stray = FALSE

ScreenNext ==
    \/ \E ch \in Ch : consl_accept(ch)
    \/ movl \/ movr \/ feed_HOME \/ feed_END \/ feed_BACK \/ feed_DEL \/ cook
    \/ \E ch \in {" ", "\n", "\r"} : write(ch)

ScreenSpec == ScreenInit /\ [][ScreenNext]_screenVars

-----------------------------------------------------------------------------
(* Correctness                                                              *)

\* Every variable keeps its type, and the window is on whole rows of the buffer.
ScreenTypeOK ==
    /\ c.vbuf \in [Cell -> Ch \cup {" "}]
    /\ c.scr \in 0..(size - wh) /\ c.scr % SCR_W = 0
    /\ c.pos \in Int
    /\ lbuf \in Seq(Ch) /\ Len(lbuf) < LBUF_SZ
    /\ i \in 0..Len(lbuf)
    /\ {upset, stray} \subseteq BOOLEAN

\* The line on the screen is the line in lbuf, although consl_accept and removec
\* edit the two separately and the screen may scroll in the middle of it.
LineOnScreen ==
    ~upset => \A k \in 1..Len(lbuf) : c.vbuf[c.pos - i + k - 1] = lbuf[k]

\* The cursor is in the window or right behind it, and nothing is written further
\* than one cell behind the buffer (scrup, next, lf, consl_accept): only output in
\* the middle of a line, or Enter right behind the window, takes it elsewhere.
CursorInWindow == ~upset => ~stray /\ c.pos \in c.scr..(c.scr + wh)
=============================================================================
