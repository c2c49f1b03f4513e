------------------------------ MODULE Message ------------------------------
(***************************************************************************)
(* send and receive (src/src/kernel/process/message.c) over the semaphores *)
(* of module Semaphore: a ring of message slots that all senders share,    *)
(* one list of slots and one semaphore per process.  Processes lose the    *)
(* CPU between any two steps; interrupt handlers send too, in one step,    *)
(* because nothing interrupts them.                                        *)
(***************************************************************************)
EXTENDS Integers, Sequences, FiniteSets, Lists

CONSTANTS Proc,          \* the processes, by pid
          Driver,        \* those that interrupt handlers send to
          MSG_POOL_SIZE, \* number of slots in msg_pool
          ANY,           \* receive from anyone
          HARD_INTR,     \* the source of the messages of interrupt handlers
          NoMsg,         \* the contents of a slot that was never written
          MaxQueue       \* bound: no call of send to a process with this many messages

ASSUME MessageAssumption ==
    /\ MSG_POOL_SIZE \in Nat \ {0}
    /\ ANY \notin Proc /\ HARD_INTR \notin Proc /\ NoMsg \notin Proc
    /\ NoMsg # HARD_INTR /\ ANY # HARD_INTR
    /\ Driver \subseteq Proc /\ IsFiniteSet(Proc)
    /\ MaxQueue \in Nat

Slot == 0..(MSG_POOL_SIZE - 1)

\* What the properties tell apart in a message: who sent it.
Src == Proc \cup {HARD_INTR}

VARIABLES
    token, waiters, \* msg_sem of each process
    msg_pool,       \* the contents of each slot
    p_free,         \* the slot the next send uses
    msg_list,       \* the slots linked to each process's list, in order
    pc,             \* where each process is
    dest,           \* send: the destination
    slot,           \* send: &msg_pool[p_free] as the copy uses it; receive: msg_to_rcv
    want,           \* receive: the argument src
    sent,           \* history: what the senders put on each list, in order
    due,            \* history: what the message being received should be
    raced,          \* history: a send ran between the copy and the link of another
    since,          \* history: the sends since each slot was linked, that one included
    lapped,         \* history: MSG_POOL_SIZE sends later the slot was still in use
    corrupt         \* a copy overwrote the links of a slot that is on a list

INSTANCE Semaphore WITH Sem <- Proc, Value <- [p \in Proc |-> 0]

sendVars == <<msg_pool, p_free, dest, sent>>
recvVars == <<want, due>>
histVars == <<raced, since, lapped, corrupt>>
vars == <<token, waiters, msg_list, pc, slot, sendVars, recvVars, histVars>>

Label == {"run", "copy", "link", "V", "P", "take", "scan", "unlink", "read", "again", "hlt"}

-----------------------------------------------------------------------------
\* Process p executes the code at label from, unless it is blocked in P.
Step(p, from, to) ==
    /\ pc[p] = from
    /\ ~Waiting(p)
    /\ ~corrupt
    /\ pc' = [pc EXCEPT ![p] = to]

V(s) == Release(s) \/ HandOff(s)

Linked(i) == \E p \in Proc : i \in Range(msg_list[p])
BeingRead(i) == \E p \in Proc : pc[p] = "read" /\ slot[p] = i

\* Writing slot i now overwrites a message as old as the pool is large.
Laps(i) == since[i] = MSG_POOL_SIZE /\ (Linked(i) \/ BeingRead(i))

\* One more send, with slot i.
Count(i) == since' = [j \in Slot |-> IF j = i THEN 1
                                    ELSE IF since[j] = MSG_POOL_SIZE THEN since[j]
                                    ELSE since[j] + 1]

\* The processes other than p that have chosen a slot and not linked it yet.
OthersSending(p) == \E q \in Proc \ {p} : pc[q] \in {"copy", "link"}

Wrap(i) == IF i >= MSG_POOL_SIZE THEN 0 ELSE i

-----------------------------------------------------------------------------
(* send                                                                     *)

\* The call, up to the evaluation of msg_pool[p_free].
send(p, d) ==
    /\ Step(p, "run", "copy")
    /\ Len(msg_list[d]) < MaxQueue
    /\ dest' = [dest EXCEPT ![p] = d]
    /\ slot' = [slot EXCEPT ![p] = p_free]
    /\ UNCHANGED <<token, waiters, msg_list, msg_pool, p_free, sent, recvVars, histVars>>

\* msg_pool[p_free] = *m: contents and links.
send_copy(p) ==
    /\ Step(p, "copy", "link")
    /\ msg_pool' = [msg_pool EXCEPT ![slot[p]] = p]
    /\ corrupt' = Linked(slot[p])
    /\ lapped' = (lapped \/ Laps(slot[p]))
    /\ UNCHANGED <<token, waiters, msg_list, slot, p_free, dest, sent, recvVars, raced, since>>

\* Mutant: the link uses ++ p_free.
LinkSlot_pre == Wrap(p_free + 1)

LinkSlot == p_free

\* lock(), list_add_before(.. &msg_pool[p_free++].list), the wrap, unlock()
send_link(p) ==
    /\ Step(p, "link", "V")
    /\ msg_list' = [msg_list EXCEPT ![dest[p]] = Append(@, LinkSlot)]
    /\ p_free' = Wrap(p_free + 1)
    /\ sent' = [sent EXCEPT ![dest[p]] = Append(@, p)]
    /\ raced' = (raced \/ OthersSending(p))
    /\ corrupt' = Linked(LinkSlot)
    /\ Count(LinkSlot)
    /\ slot' = [slot EXCEPT ![p] = 0]
    /\ UNCHANGED <<token, waiters, msg_pool, dest, recvVars, lapped>>

send_V(p) ==
    /\ Step(p, "V", "run")
    /\ V(dest[p])
    /\ dest' = [dest EXCEPT ![p] = p]
    /\ UNCHANGED <<msg_list, slot, msg_pool, p_free, sent, recvVars, histVars>>

\* send by an interrupt handler, from the copy to V.
irq_send(d) ==
    /\ ~corrupt
    /\ Len(msg_list[d]) < MaxQueue
    /\ msg_pool' = [msg_pool EXCEPT ![p_free] = HARD_INTR]
    /\ msg_list' = [msg_list EXCEPT ![d] = Append(@, p_free)]
    /\ p_free' = Wrap(p_free + 1)
    /\ sent' = [sent EXCEPT ![d] = Append(@, HARD_INTR)]
    /\ raced' = (raced \/ \E q \in Proc : pc[q] \in {"copy", "link"})
    /\ lapped' = (lapped \/ Laps(p_free))
    /\ Count(p_free)
    /\ corrupt' = Linked(p_free)
    /\ V(d)
    /\ UNCHANGED <<pc, dest, slot, recvVars>>

-----------------------------------------------------------------------------
(* receive                                                                  *)

\* The call, and P(&current->msg_sem) each time round the loop.
receive(p, src) ==
    /\ Step(p, "run", "P")
    /\ want' = [want EXCEPT ![p] = src]
    /\ UNCHANGED <<token, waiters, msg_list, slot, sendVars, due, histVars>>

receive_P(p) ==
    /\ Step(p, "P", IF want[p] = ANY THEN "take" ELSE "scan")
    /\ Take(p) \/ Wait(p, p)
    /\ UNCHANGED <<msg_list, slot, sendVars, recvVars, histVars>>

\* lock(), list_del(msg_to_rcv), unlock() for the message at place i
Unlinks(p, i) ==
    /\ slot' = [slot EXCEPT ![p] = msg_list[p][i]]
    /\ msg_list' = [msg_list EXCEPT ![p] = RemoveAt(@, i)]
    /\ due' = [due EXCEPT ![p] = sent[p][i]]
    /\ sent' = [sent EXCEPT ![p] = RemoveAt(@, i)]
    /\ UNCHANGED <<token, waiters, msg_pool, p_free, dest, want, histVars>>

\* receive(ANY): the first message.
receive_take(p) ==
    /\ Step(p, "take", "read")
    /\ msg_list[p] # <<>>
    /\ Unlinks(p, 1)

\* receive(src): list_foreach finds the first message of src ...
From(p) == {i \in DOMAIN msg_list[p] : msg_pool[msg_list[p][i]] = want[p]}

receive_found(p) ==
    /\ Step(p, "scan", "read")
    /\ \E i \in From(p) : (\A j \in From(p) : i <= j) /\ Unlinks(p, i)

\* ... or none: V(&current->msg_sem), wait_intr(), and again.
receive_none(p) ==
    /\ Step(p, "scan", "again")
    /\ From(p) = {}
    /\ UNCHANGED <<token, waiters, msg_list, slot, sendVars, recvVars, histVars>>

\* Mutant: the unit is not given back.
receive_keep(p) ==
    /\ Step(p, "again", "hlt")
    /\ UNCHANGED <<token, waiters, msg_list, slot, sendVars, recvVars, histVars>>

receive_again(p) ==
    /\ Step(p, "again", "hlt")
    /\ V(p)
    /\ UNCHANGED <<msg_list, slot, sendVars, recvVars, histVars>>

\* Mutant: hlt does not return.
wait_for_ever(p) ==
    /\ Step(p, "hlt", "hlt")
    /\ UNCHANGED <<token, waiters, msg_list, slot, sendVars, recvVars, histVars>>

wait_intr(p) ==
    /\ Step(p, "hlt", "P")
    /\ UNCHANGED <<token, waiters, msg_list, slot, sendVars, recvVars, histVars>>

\* *m = *msg_to_rcv, after unlock(): the caller gets Received(p).
Received(p) == msg_pool[slot[p]]

receive_read(p) ==
    /\ Step(p, "read", "run")
    /\ slot' = [slot EXCEPT ![p] = 0]
    /\ want' = [want EXCEPT ![p] = ANY]
    /\ due' = [due EXCEPT ![p] = NoMsg]
    /\ UNCHANGED <<token, waiters, msg_list, sendVars, histVars>>

-----------------------------------------------------------------------------
(* The specification, with clients that send and receive as they like       *)

Init ==
    /\ SemInit
    /\ msg_pool = [i \in Slot |-> NoMsg]
    /\ p_free = 0
    /\ msg_list = [p \in Proc |-> <<>>]
    /\ pc = [p \in Proc |-> "run"]
    /\ dest = [p \in Proc |-> p]
    /\ slot = [p \in Proc |-> 0]
    /\ want = [p \in Proc |-> ANY]
    /\ sent = [p \in Proc |-> <<>>]
    /\ due = [p \in Proc |-> NoMsg]
    /\ since = [i \in Slot |-> MSG_POOL_SIZE]
    /\ raced = FALSE /\ lapped = FALSE /\ corrupt = FALSE

\* What a process does once it has called send or receive.
MsgStep(p) ==
    \/ send_copy(p) \/ send_link(p) \/ send_V(p)
    \/ receive_P(p) \/ receive_take(p) \/ receive_found(p) \/ receive_none(p)
    \/ receive_again(p) \/ wait_intr(p) \/ receive_read(p)

MsgCall(p) ==
    \/ \E d \in Proc : send(p, d)
    \/ \E src \in Src \cup {ANY} : receive(p, src)

Corrupted == corrupt /\ UNCHANGED vars

Next ==
    \/ \E p \in Proc : MsgCall(p) \/ MsgStep(p)
    \/ \E d \in Driver : irq_send(d)
    \/ Corrupted

Spec == Init /\ [][Next]_vars

\* A process with something to do gets the CPU (Kernel's NoStarvation), and hlt
\* returns at the next timer interrupt.
FairSpec == Spec /\ \A p \in Proc : WF_vars(MsgStep(p))

-----------------------------------------------------------------------------
(* Correctness                                                              *)

\* Every variable keeps its type.
TypeOK ==
    /\ token \in [Proc -> Nat] /\ waiters \in [Proc -> Seq(Proc)]
    /\ msg_pool \in [Slot -> Src \cup {NoMsg}] /\ p_free \in Slot
    /\ msg_list \in [Proc -> Seq(Slot)] /\ sent \in [Proc -> Seq(Src)]
    /\ pc \in [Proc -> Label] /\ dest \in [Proc -> Proc] /\ slot \in [Proc -> Slot]
    /\ want \in [Proc -> Src \cup {ANY}]
    /\ due \in [Proc -> Src \cup {NoMsg}]
    /\ since \in [Slot -> 1..MSG_POOL_SIZE]
    /\ {raced, lapped, corrupt} \subseteq BOOLEAN

\* Process p has passed P(&current->msg_sem) and not used its unit.
HasUnit(p) == pc[p] \in {"take", "scan", "again"} /\ ~Waiting(p)

\* The semaphore counts the list: every linked message has its unit in the
\* semaphore, with the receiver, or in a sender about to call V.  So receive
\* never takes a message from an empty list, and none is left behind unseen.
UnitsMatchMessages ==
    ~corrupt => \A p \in Proc :
        Len(msg_list[p]) = token[p] + (IF HasUnit(p) THEN 1 ELSE 0)
                           + Cardinality({q \in Proc : pc[q] = "V" /\ dest[q] = p})

\* Unless one of two things has happened (a send between another's copy and its
\* link, a lap of the ring round a slot in use), the lists are not torn, each holds
\* what the senders sent, in order, and receive gets what it should, from whom it asked.
DeliveredAsSent ==
    ~raced /\ ~lapped =>
      /\ ~corrupt
      /\ \A p \in Proc :
           /\ \A i \in DOMAIN msg_list[p] : msg_pool[msg_list[p][i]] = sent[p][i]
           /\ pc[p] = "read" => /\ Received(p) = due[p]
                                /\ want[p] \in {ANY, due[p]}

\* A message of the process asked for reaches its receiver, although receive
\* gives its unit back and halts whenever it finds only messages of others.
AskedForArrives ==
    \A p \in Proc :
        (pc[p] \in {"P", "take", "scan", "again", "hlt"} /\ want[p] # ANY /\ From(p) # {})
           ~> (pc[p] = "read" \/ corrupt)
=============================================================================
