------------------------------ MODULE MsgRing ------------------------------
(***************************************************************************)
(* The message test of src/src/kernel/process/util.c over module Message:  *)
(* A sends to E, E answers B, and so round to D and A again, while the     *)
(* timer's interrupt handler sends to the timer driver.                     *)
(***************************************************************************)
EXTENDS Message

CONSTANTS A, B, C, D, E,  \* the test threads
          TIMER           \* the timer driver

VARIABLES turn,   \* what each thread does at label "run"
          answer, \* E: m2.dest
          failed  \* E's assert(0)

ringVars == <<vars, turn, answer, failed>>

Ring == {A, B, C, D}

\* Who E answers when m1.src is p.
NextInRing(p) == CASE p = A -> B [] p = B -> C [] p = C -> D [] p = D -> A

RingInit ==
    /\ Init
    /\ turn = [p \in Proc |-> IF p = A THEN "send" ELSE "receive"]
    /\ answer = E
    /\ failed = FALSE

\* A, B, C and D: send(pidE, &m1); receive(pidE, &m2); for ever
member(p) ==
    /\ UNCHANGED <<answer, failed>>
    /\ \/ turn[p] = "send" /\ send(p, E) /\ turn' = [turn EXCEPT ![p] = "receive"]
       \/ turn[p] = "receive" /\ receive(p, E) /\ turn' = [turn EXCEPT ![p] = "send"]
       \/ MsgStep(p) /\ UNCHANGED turn

\* E: receive(ANY, &m1), the branches on m1.src, send(m2.dest, &m2); for ever
E_receive ==
    /\ turn[E] = "receive"
    /\ receive(E, ANY)
    /\ turn' = [turn EXCEPT ![E] = "branch"]
    /\ UNCHANGED <<answer, failed>>

E_branch ==
    /\ receive_read(E)
    /\ failed' = (Received(E) \notin Ring)
    /\ answer' = IF Received(E) \in Ring THEN NextInRing(Received(E)) ELSE answer
    /\ turn' = [turn EXCEPT ![E] = "send"]

E_send ==
    /\ turn[E] = "send"
    /\ send(E, answer)
    /\ turn' = [turn EXCEPT ![E] = "receive"]
    /\ UNCHANGED <<answer, failed>>

E_loop ==
    \/ E_receive \/ E_branch \/ E_send
    \/ MsgStep(E) /\ pc[E] # "read" /\ UNCHANGED <<turn, answer, failed>>

\* The timer driver receives what its interrupt handler sends.
timer ==
    /\ receive(TIMER, ANY) \/ MsgStep(TIMER) \/ irq_send(TIMER)
    /\ UNCHANGED <<turn, answer, failed>>

RingNext == ~failed /\ ((\E p \in Ring : member(p)) \/ E_loop \/ timer)

RingSpec == RingInit /\ [][RingNext]_ringVars

\* The "else assert(0)" of E: a message E receives is from a thread of the ring.
\* It fails when an interrupt handler sends between the copy of a message into
\* msg_pool[p_free] and the lock() before the link.
RingAssertHolds == ~failed
=============================================================================
