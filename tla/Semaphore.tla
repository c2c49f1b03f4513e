----------------------------- MODULE Semaphore -----------------------------
(***************************************************************************)
(* What P and V (src/src/kernel/process/lock.c) promise: counting          *)
(* semaphores with direct hand-off in FIFO order.  Each operation is one   *)
(* step here; lock(), sleep_sem(), wakeup() and the interrupts between     *)
(* their instructions are in module Kernel, which implements this one.     *)
(***************************************************************************)
EXTENDS Integers, Sequences, Functions

CONSTANTS Proc,  \* the processes that may wait
          Sem,   \* the semaphores
          Value  \* the value each semaphore starts with

VARIABLES token,   \* units nobody has taken
          waiters  \* the processes blocked in P, in order of arrival

semVars == <<token, waiters>>

Waiting(p) == \E s \in Sem : p \in Range(waiters[s])

SemInit ==
    /\ token = [s \in Sem |-> Value[s]]
    /\ waiters = [s \in Sem |-> <<>>]

\* P finds a unit.  Nobody can be waiting for it.
Take(s) ==
    /\ token[s] > 0
    /\ waiters[s] = <<>>
    /\ token' = [token EXCEPT ![s] = @ - 1]
    /\ UNCHANGED waiters

\* P finds none: the caller, which waits nowhere else, goes to the end.
Wait(p, s) ==
    /\ token[s] = 0
    /\ ~Waiting(p)
    /\ waiters' = [waiters EXCEPT ![s] = Append(@, p)]
    /\ UNCHANGED token

\* V with nobody waiting.
Release(s) ==
    /\ waiters[s] = <<>>
    /\ token' = [token EXCEPT ![s] = @ + 1]
    /\ UNCHANGED waiters

\* V hands its unit to the process that has waited longest.
HandOff(s) ==
    /\ waiters[s] # <<>>
    /\ token[s] = 0
    /\ waiters' = [waiters EXCEPT ![s] = Tail(@)]
    /\ UNCHANGED token

SemNext ==
    \E s \in Sem : \/ Take(s)
                   \/ \E p \in Proc : Wait(p, s)
                   \/ Release(s)
                   \/ HandOff(s)

SemSpec == SemInit /\ [][SemNext]_semVars
=============================================================================
