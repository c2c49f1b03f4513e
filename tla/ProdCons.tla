------------------------------ MODULE ProdCons ------------------------------
(***************************************************************************)
(* The producer and consumer threads of src/src/kernel/process/util.c      *)
(* (test_setup) over the semaphores of module Semaphore: what the core is  *)
(* for.  A thread loses the CPU between any two statements.                *)
(***************************************************************************)
EXTENDS Integers, Sequences, Functions, FiniteSets

CONSTANTS Producer, Consumer, \* the threads test_setup creates
          NBUF,               \* size of buf
          GMAX                \* bound: g is kept modulo GMAX

ASSUME ProdConsAssumption ==
    /\ Producer \cap Consumer = {} /\ IsFiniteSet(Producer \cup Consumer)
    /\ NBUF \in Nat \ {0}
    /\ GMAX \in Nat \ {0, 1}

Thread == Producer \cup Consumer
Sem == {"empty", "full", "mutex"}
Value == [s \in Sem |-> CASE s = "empty" -> NBUF [] s = "full" -> 0 [] s = "mutex" -> 1]

VARIABLES token, waiters,
          pc,           \* the statement each thread is about to execute
          buf, f, r, g, \* the ring, its two ends, the next product
          get,          \* each consumer's local variable
          last,         \* the product consumed last
          failed        \* the consumers' assertion has failed

INSTANCE Semaphore WITH Proc <- Thread

dataVars == <<buf, f, r, g, get, last, failed>>
vars == <<token, waiters, pc, dataVars>>

Label == {"P_empty", "P_full", "P_mutex", "put", "p_wrap", "get", "check", "c_wrap",
          "V_mutex", "V_full", "V_empty"}

-----------------------------------------------------------------------------
\* Thread p runs the statement at label from.  A thread blocked in P does not.
Step(p, from, to) ==
    /\ pc[p] = from
    /\ ~Waiting(p)
    /\ ~failed
    /\ pc' = [pc EXCEPT ![p] = to]

\* Mutant: the last to wait is the first to be woken.
P_lifo(p, s) ==
    \/ Take(s)
    \/ /\ token[s] = 0
       /\ waiters' = [waiters EXCEPT ![s] = <<p>> \o @]
       /\ UNCHANGED token

P(p, s) == Take(s) \/ Wait(p, s)

\* Mutant: V wakes a waiter and banks the unit as well.
V_twice(s) ==
    /\ token' = [token EXCEPT ![s] = @ + 1]
    /\ waiters' = [waiters EXCEPT ![s] = IF @ = <<>> THEN @ ELSE Tail(@)]

V(s) == Release(s) \/ HandOff(s)

\* buf[f ++] = g ++
put(p) ==
    /\ Step(p, "put", "p_wrap")
    /\ buf' = [buf EXCEPT ![f] = g]
    /\ f' = f + 1
    /\ g' = (g + 1) % GMAX
    /\ UNCHANGED <<token, waiters, r, get, last, failed>>

\* f %= NBUF
p_wrap(p) ==
    /\ Step(p, "p_wrap", "V_mutex")
    /\ f' = f % NBUF
    /\ UNCHANGED <<token, waiters, buf, r, g, get, last, failed>>

test_producer(p) ==
    \/ Step(p, "P_empty", "P_mutex") /\ P(p, "empty") /\ UNCHANGED dataVars
    \/ Step(p, "P_mutex", "put") /\ P(p, "mutex") /\ UNCHANGED dataVars
    \/ put(p)
    \/ p_wrap(p)
    \/ Step(p, "V_mutex", "V_full") /\ V("mutex") /\ UNCHANGED dataVars
    \/ Step(p, "V_full", "P_empty") /\ V("full") /\ UNCHANGED dataVars

\* Mutant: get = buf[++ r]
Oldest_next == (r + 1) % NBUF

Oldest == r

\* get = buf[r ++]
take(p) ==
    /\ Step(p, "get", "check")
    /\ get' = [get EXCEPT ![p] = buf[Oldest]]
    /\ r' = r + 1
    /\ UNCHANGED <<token, waiters, buf, f, g, last, failed>>

\* assert(last == get - 1); last = get
check(p) ==
    /\ Step(p, "check", "c_wrap")
    /\ failed' = (get[p] # (last + 1) % GMAX)
    /\ last' = get[p]
    /\ UNCHANGED <<token, waiters, buf, f, r, g, get>>

\* r %= NBUF
c_wrap(p) ==
    /\ Step(p, "c_wrap", "V_mutex")
    /\ r' = r % NBUF
    /\ UNCHANGED <<token, waiters, buf, f, g, get, last, failed>>

\* Mutant: the slot is never given back.
keep_slot(p) == Step(p, "V_empty", "P_full") /\ UNCHANGED <<token, waiters, dataVars>>

\* V(&empty)
free_slot(p) == Step(p, "V_empty", "P_full") /\ V("empty") /\ UNCHANGED dataVars

test_consumer(p) ==
    \/ Step(p, "P_full", "P_mutex") /\ P(p, "full") /\ UNCHANGED dataVars
    \/ Step(p, "P_mutex", "get") /\ P(p, "mutex") /\ UNCHANGED dataVars
    \/ take(p)
    \/ check(p)
    \/ c_wrap(p)
    \/ Step(p, "V_mutex", "V_empty") /\ V("mutex") /\ UNCHANGED dataVars
    \/ free_slot(p)

ThreadStep(p) == (p \in Producer /\ test_producer(p)) \/ (p \in Consumer /\ test_consumer(p))

\* test_setup and the initial values of the globals.
Init ==
    /\ SemInit
    /\ pc = [p \in Thread |-> IF p \in Producer THEN "P_empty" ELSE "P_full"]
    /\ buf = [i \in 0..(NBUF - 1) |-> 0]
    /\ f = 0 /\ r = 0
    /\ g = 1 % GMAX
    /\ get = [p \in Consumer |-> 0]
    /\ last = 0
    /\ failed = FALSE

Next == \E p \in Thread : ThreadStep(p)

Spec == Init /\ [][Next]_vars

\* The core gives every ready thread the CPU (Kernel's NoStarvation), so a
\* thread that is not waiting takes its next step.
FairSpec == Spec /\ \A p \in Thread : WF_vars(ThreadStep(p))

-----------------------------------------------------------------------------
(* Correctness                                                              *)

\* Every variable keeps its type; f and r leave the ring only inside the
\* critical section.
TypeOK ==
    /\ token \in [Sem -> Nat]
    /\ waiters \in [Sem -> Seq(Thread)]
    /\ pc \in [Thread -> Label]
    /\ buf \in [0..(NBUF - 1) -> 0..(GMAX - 1)]
    /\ f \in 0..NBUF /\ r \in 0..NBUF
    /\ g \in 0..(GMAX - 1) /\ last \in 0..(GMAX - 1)
    /\ get \in [Consumer -> 0..(GMAX - 1)]
    /\ failed \in BOOLEAN

\* Thread p is between P(&mutex) and V(&mutex).
Holds(p) ==
    /\ pc[p] \in {"put", "p_wrap", "get", "check", "c_wrap", "V_mutex"}
    /\ ~Waiting(p)

\* P(&mutex) and V(&mutex) keep two threads out of the ring at once, even though
\* V hands the mutex to a waiter that has not run yet.
MutualExclusion == \A p, q \in Thread : Holds(p) /\ Holds(q) => p = q

\* assert(last == get - 1): the products come out in the order they went in,
\* none lost and none twice.
ProductsInOrder == ~failed

\* A slot is counted once: free, full, or held by the thread that fills or
\* empties it.  So the ring never overflows or underflows.
SlotsConserved ==
    LET Holding == {p \in Thread : /\ pc[p] \notin {"P_empty", "P_full"}
                                   /\ p \notin Range(waiters["empty"]) \cup Range(waiters["full"])}
    IN  token["empty"] + token["full"] + Cardinality(Holding) = NBUF

\* No thread is starved by the others at the semaphores: every consumer gets
\* products for ever, and every producer delivers them.
EveryThreadProceeds ==
    /\ \A p \in Producer : []<>(pc[p] = "V_full")
    /\ \A c \in Consumer : []<>(pc[c] = "V_empty")
=============================================================================
