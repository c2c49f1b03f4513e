----------------------------- MODULE Terminal ------------------------------
(***************************************************************************)
(* What the terminals promise (src/src/kernel/drivers/tty): keys edit the  *)
(* line of the console in front; Enter hands the line over; the getty of   *)
(* that console gets the lines whole, in order, once each, and shows them  *)
(* in capitals.  The ring of cooked characters, the stack of readers, the  *)
(* messages and the keyboard do not show.                                  *)
(***************************************************************************)
EXTENDS Integers, Sequences

CONSTANTS Console, Ch, NUL

VARIABLES focus, \* the console in front
          line,  \* the line being typed on each console
          at,    \* the place of its cursor
          queue, \* the entered characters nobody has read, each line ended by NUL
          stage, \* what each getty does
          text   \* the line it holds

terminalVars == <<focus, line, at, queue, stage, text>>

TerminalInit ==
    /\ focus \in Console
    /\ line = [c \in Console |-> <<>>]
    /\ at = [c \in Console |-> 0]
    /\ queue = [c \in Console |-> <<>>]
    /\ stage = [c \in Console |-> "read"]
    /\ text = [c \in Console |-> <<>>]

\* Line s with ch behind its first n characters; without its n-th.
Insert(s, n, ch) == SubSeq(s, 1, n) \o <<ch>> \o SubSeq(s, n + 1, Len(s))
Remove(s, n) == SubSeq(s, 1, n - 1) \o SubSeq(s, n + 1, Len(s))

Upper(ch) == IF ch \in 97..122 THEN ch - 32 ELSE ch

\* The edited line and cursor l, p of the console in front.
Edit(l, p) ==
    /\ line' = [line EXCEPT ![focus] = l]
    /\ at' = [at EXCEPT ![focus] = p]
    /\ UNCHANGED <<focus, queue, stage, text>>

Type == \E ch \in Ch : Edit(Insert(line[focus], at[focus], ch), at[focus] + 1)
Erase == at[focus] > 0 /\ Edit(Remove(line[focus], at[focus]), at[focus] - 1)
Delete == at[focus] < Len(line[focus]) /\ Edit(Remove(line[focus], at[focus] + 1), at[focus])
Move == \E p \in 0..Len(line[focus]) : Edit(line[focus], p)
Switch == focus' \in Console /\ UNCHANGED <<line, at, queue, stage, text>>

\* The getty of c takes the first line of q.
Take(c, q) ==
    \E n \in DOMAIN q :
       /\ q[n] = NUL /\ \A k \in 1..(n - 1) : q[k] # NUL
       /\ stage[c] = "read"
       /\ stage' = [stage EXCEPT ![c] = "show"]
       /\ text' = [text EXCEPT ![c] = SubSeq(q, 1, n - 1)]
       /\ queue' = [queue EXCEPT ![c] = SubSeq(q, n + 1, Len(q))]

\* Enter: a getty that waits for the line gets it at once.
Enter ==
    LET q == queue[focus] \o line[focus] \o <<NUL>>
    IN  /\ \/ queue' = [queue EXCEPT ![focus] = q] /\ UNCHANGED <<stage, text>>
           \/ Take(focus, q)
        /\ line' = [line EXCEPT ![focus] = <<>>]
        /\ at' = [at EXCEPT ![focus] = 0]
        /\ UNCHANGED focus

Read == \E c \in Console : Take(c, queue[c]) /\ UNCHANGED <<focus, line, at>>

Capitals == \E c \in Console :
    /\ stage[c] = "show"
    /\ stage' = [stage EXCEPT ![c] = "shown"]
    /\ text' = [text EXCEPT ![c] = [k \in DOMAIN @ |-> Upper(@[k])]]
    /\ UNCHANGED <<focus, line, at, queue>>

Done == \E c \in Console :
    /\ stage[c] = "shown"
    /\ stage' = [stage EXCEPT ![c] = "read"]
    /\ text' = [text EXCEPT ![c] = <<>>]
    /\ UNCHANGED <<focus, line, at, queue>>

TerminalNext ==
    Type \/ Erase \/ Delete \/ Move \/ Switch \/ Enter \/ Read \/ Capitals \/ Done

TerminalSpec == TerminalInit /\ [][TerminalNext]_terminalVars
=============================================================================
