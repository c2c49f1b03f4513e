------------------------------- MODULE Lists -------------------------------
(***************************************************************************)
(* The circular doubly linked lists of src/include/adt/list.h as           *)
(* sequences: the element after the list head is the first, and            *)
(* list_add_before(head, e) is Append.  An element is on at most one list, *)
(* so list_del needs only the element.                                     *)
(***************************************************************************)
EXTENDS Integers, Sequences, Functions

\* The operators of SequencesExt the modules use, with the meaning they have
\* there.  SequencesExt extends Bags, whose theorems would be in the context
\* of every proof obligation.
RemoveAt(s, n) == SubSeq(s, 1, n - 1) \o SubSeq(s, n + 1, Len(s))
InsertAt(s, n, e) == SubSeq(s, 1, n - 1) \o <<e>> \o SubSeq(s, n, Len(s))
Front(s) == SubSeq(s, 1, Len(s) - 1)
Last(s) == s[Len(s)]

\* The first and the last place of s where Test holds, 0 if there is none.
SelectInSeq(s, Test(_)) ==
    LET first == {n \in 1..Len(s) : Test(s[n]) /\ \A k \in 1..(n - 1) : ~Test(s[k])}
    IN  IF first = {} THEN 0 ELSE CHOOSE n \in first : TRUE
SelectLastInSeq(s, Test(_)) ==
    LET last == {n \in 1..Len(s) : Test(s[n]) /\ \A k \in (n + 1)..Len(s) : ~Test(s[k])}
    IN  IF last = {} THEN 0 ELSE CHOOSE n \in last : TRUE

\* The place of e in l.
IndexOf(l, e) == CHOOSE i \in DOMAIN l : l[i] = e

\* list l after list_del(e); the list itself if e is on another one.
Unlink(l, e) == IF e \in Range(l) THEN RemoveAt(l, IndexOf(l, e)) ELSE l
=============================================================================
