------------------------ MODULE ProdConsTimerProofs -------------------------
(***************************************************************************)
(* Proofs about two specifications that share no constant and no variable. *)
(*                                                                         *)
(* The self test (module ProdCons): correct for any number of producers    *)
(* and consumers and any size of the buffer; the consumers' assertion      *)
(* never fails.                                                            *)
(*                                                                         *)
(* The alarms of the timer driver (module Timer): correct for any number   *)
(* of alarms, clients and ticks.                                           *)
(***************************************************************************)
EXTENDS ProdCons, Timer, ListProofs, FiniteSetTheorems

-----------------------------------------------------------------------------
(* P and V, by the sets of threads that wait                                *)

SemTypes ==
    /\ token \in [Sem -> Nat]
    /\ waiters \in [Sem -> Seq(Thread)]
    /\ \A s \in Sem : IsInjective(waiters[s])

\* Most steps are set reasoning: Zenon proves them, SMT is asked by name.
USE Zenon

\* P takes a unit, or puts the caller among those that wait.
LEMMA PEffect ==
    ASSUME SemTypes, NEW p \in Thread, NEW s \in Sem, P(p, s), ~Waiting(p)
    PROVE  /\ SemTypes'
           /\ \A x \in Sem \ {s} : token'[x] = token[x] /\ Range(waiters'[x]) = Range(waiters[x])
           /\ \/ /\ token[s] > 0 /\ token'[s] = token[s] - 1
                 /\ Range(waiters'[s]) = Range(waiters[s])
              \/ /\ token[s] = 0 /\ token'[s] = 0
                 /\ Range(waiters'[s]) = Range(waiters[s]) \cup {p}
<1>1. CASE Take(s)
  BY SMT, <1>1 DEF Take, SemTypes
<1>2. CASE Wait(p, s)
  <2>1. token[s] = 0 /\ token' = token /\ waiters' = [waiters EXCEPT ![s] = Append(@, p)]
    BY <1>2 DEF Wait
  <2>2. waiters[s] \in Seq(Thread) /\ IsInjective(waiters[s]) /\ p \notin Range(waiters[s])
    BY DEF SemTypes, Waiting
  <2>3. /\ Append(waiters[s], p) \in Seq(Thread) /\ IsInjective(Append(waiters[s], p))
        /\ Range(Append(waiters[s], p)) = Range(waiters[s]) \cup {p}
    BY SMT, <2>2, AppendRange
  <2>4. waiters'[s] = Append(waiters[s], p) /\ \A x \in Sem \ {s} : waiters'[x] = waiters[x]
    BY <2>1 DEF SemTypes
  <2>5. SemTypes'
    BY <2>1, <2>3, <2>4 DEF SemTypes
  <2> QED
    BY <2>1, <2>3, <2>4, <2>5
<1> QED
  BY <1>1, <1>2 DEF P

\* V adds a unit, or one of those that wait goes on.
LEMMA VEffect ==
    ASSUME SemTypes, NEW s \in Sem, V(s)
    PROVE  /\ SemTypes'
           /\ \A x \in Sem \ {s} : token'[x] = token[x] /\ Range(waiters'[x]) = Range(waiters[x])
           /\ \/ /\ token'[s] = token[s] + 1 /\ Range(waiters[s]) = {}
                 /\ Range(waiters'[s]) = {}
              \/ /\ token[s] = 0 /\ token'[s] = 0
                 /\ \E q \in Range(waiters[s]) : Range(waiters'[s]) = Range(waiters[s]) \ {q}
<1>1. CASE Release(s)
  <2>1. Range(waiters[s]) = {}
    BY SMT, <1>1 DEF Release, Range
  <2> QED
    BY SMT, <1>1, <2>1 DEF Release, SemTypes
<1>2. CASE HandOff(s)
  <2>1. token[s] = 0 /\ token' = token /\ waiters' = [waiters EXCEPT ![s] = Tail(@)]
    BY <1>2 DEF HandOff
  <2>2. waiters[s] \in Seq(Thread) /\ IsInjective(waiters[s]) /\ waiters[s] # <<>>
    BY <1>2 DEF HandOff, SemTypes
  <2>3. Head(waiters[s]) \in Range(waiters[s])
    BY <2>2, HeadInRange
  <2>4. /\ Tail(waiters[s]) \in Seq(Thread) /\ IsInjective(Tail(waiters[s]))
        /\ Range(Tail(waiters[s])) = Range(waiters[s]) \ {Head(waiters[s])}
    <3>1. Unlink(waiters[s], Head(waiters[s])) = Tail(waiters[s])
      BY <2>2, UnlinkHead
    <3>2. /\ Unlink(waiters[s], Head(waiters[s])) \in Seq(Thread)
          /\ IsInjective(Unlink(waiters[s], Head(waiters[s])))
          /\ Range(Unlink(waiters[s], Head(waiters[s]))) = Range(waiters[s]) \ {Head(waiters[s])}
      BY <2>2, UnlinkProperties
    <3> QED
      BY <3>1, <3>2
  <2>5. waiters'[s] = Tail(waiters[s]) /\ \A x \in Sem \ {s} : waiters'[x] = waiters[x]
    BY <2>1 DEF SemTypes
  <2>6. SemTypes'
    BY <2>1, <2>4, <2>5 DEF SemTypes
  <2> QED
    BY <2>1, <2>3, <2>4, <2>5, <2>6
<1> QED
  BY <1>1, <1>2 DEF V

-----------------------------------------------------------------------------
(* Where the threads wait, and the mutex                                    *)

ProducerLabel == {"P_empty", "P_mutex", "put", "p_wrap", "V_mutex", "V_full"}
ConsumerLabel == {"P_full", "P_mutex", "get", "check", "c_wrap", "V_mutex", "V_empty"}

\* A thread that waits has already moved to the statement after its P.
WaitInv ==
    /\ SemTypes
    /\ pc \in [Thread -> ProducerLabel \cup ConsumerLabel]
    /\ \A p \in Producer : pc[p] \in ProducerLabel
    /\ \A p \in Consumer : pc[p] \in ConsumerLabel
    /\ \A p \in Range(waiters["empty"]) : p \in Producer /\ pc[p] = "P_mutex"
    /\ \A p \in Range(waiters["full"]) : p \in Consumer /\ pc[p] = "P_mutex"
    /\ \A p \in Range(waiters["mutex"]) : p \in Thread /\ pc[p] \in {"put", "get"}

InSection(p) ==
    pc[p] \in {"put", "p_wrap", "get", "check", "c_wrap", "V_mutex"} /\ p \notin Range(waiters["mutex"])

\* The mutex is free and nobody is in the section, or taken and one thread is.
MutexInv ==
    \/ token["mutex"] = 1 /\ \A p \in Thread : ~InSection(p)
    \/ token["mutex"] = 0 /\ \E p \in Thread : \A q \in Thread : InSection(q) <=> q = p

\* The thread that has the mutex is in its critical section.
LEMMA HoldsIsInSection ==
    ASSUME WaitInv, NEW p \in Thread
    PROVE  Holds(p) <=> InSection(p)
<1>1. Waiting(p) <=> \/ p \in Range(waiters["empty"]) \/ p \in Range(waiters["full"])
                     \/ p \in Range(waiters["mutex"])
  BY DEF Waiting, Sem
<1> QED
  BY <1>1 DEF Holds, InSection, WaitInv

\* The steps, by what they do to the semaphores.
PStep(p, from, to, s) == Step(p, from, to) /\ P(p, s) /\ UNCHANGED dataVars
VStep(p, from, to, s) == Step(p, from, to) /\ V(s) /\ UNCHANGED dataVars
DataStep(p, from, to) == Step(p, from, to) /\ UNCHANGED <<token, waiters>>

\* The steps of the test: a P, a V, or a step on the ring.
LEMMA StepKinds ==
    ASSUME Next
    PROVE  \/ \E p \in Producer :
                 \/ PStep(p, "P_empty", "P_mutex", "empty") \/ PStep(p, "P_mutex", "put", "mutex")
                 \/ put(p) \/ p_wrap(p)
                 \/ VStep(p, "V_mutex", "V_full", "mutex") \/ VStep(p, "V_full", "P_empty", "full")
           \/ \E p \in Consumer :
                 \/ PStep(p, "P_full", "P_mutex", "full") \/ PStep(p, "P_mutex", "get", "mutex")
                 \/ take(p) \/ check(p) \/ c_wrap(p)
                 \/ VStep(p, "V_mutex", "V_empty", "mutex") \/ VStep(p, "V_empty", "P_full", "empty")
  BY DEF Next, ThreadStep, test_producer, test_consumer, free_slot, PStep, VStep

\* A statement that moves a thread inside its section.
LEMMA DataKinds ==
    ASSUME NEW p
    PROVE  /\ put(p) => DataStep(p, "put", "p_wrap")
           /\ p_wrap(p) => DataStep(p, "p_wrap", "V_mutex")
           /\ take(p) => DataStep(p, "get", "check")
           /\ check(p) => DataStep(p, "check", "c_wrap")
           /\ c_wrap(p) => DataStep(p, "c_wrap", "V_mutex")
  BY DEF put, p_wrap, take, check, c_wrap, DataStep

\* Nobody waits and the mutex is free at the start.
LEMMA WaitInit == Init => WaitInv /\ MutexInv
<1> SUFFICES ASSUME Init PROVE WaitInv /\ MutexInv
  OBVIOUS
<1>1. token = [s \in Sem |-> Value[s]] /\ waiters = [s \in Sem |-> <<>>]
  BY DEF Init, SemInit
<1>2. Range(<<>>) = {} /\ IsInjective(<<>>)
  BY SMT DEF Range, IsInjective
<1>3. /\ token["mutex"] = 1 /\ token["empty"] = NBUF /\ token["full"] = 0
      /\ token \in [Sem -> Nat]
  BY <1>1, ProdConsAssumption DEF Sem, Value
<1>4. SemTypes /\ \A s \in Sem : Range(waiters[s]) = {}
  BY SMT, <1>1, <1>2, <1>3 DEF SemTypes
<1>5. pc = [p \in Thread |-> IF p \in Producer THEN "P_empty" ELSE "P_full"]
  BY DEF Init
<1>6. WaitInv
  BY <1>4, <1>5, ProdConsAssumption DEF WaitInv, Thread, Sem, ProducerLabel, ConsumerLabel
<1>7. MutexInv
  BY <1>3, <1>5 DEF MutexInv, InSection
<1> QED
  BY <1>6, <1>7

\* What a step of p does to the statements, and that p waits nowhere.
LEMMA StepFacts ==
    ASSUME WaitInv, NEW p \in Thread, NEW from, NEW to \in ProducerLabel \cup ConsumerLabel,
           Step(p, from, to)
    PROVE  /\ pc[p] = from /\ pc'[p] = to
           /\ \A q \in Thread \ {p} : pc'[q] = pc[q]
           /\ pc' \in [Thread -> ProducerLabel \cup ConsumerLabel]
           /\ p \notin Range(waiters["empty"]) /\ p \notin Range(waiters["full"])
           /\ p \notin Range(waiters["mutex"])
           /\ ~Waiting(p)
<1>1. pc[p] = from /\ ~Waiting(p) /\ pc' = [pc EXCEPT ![p] = to]
  BY DEF Step
<1>2. pc \in [Thread -> ProducerLabel \cup ConsumerLabel]
  BY DEF WaitInv
<1>3. \A s \in Sem : p \notin Range(waiters[s])
  BY <1>1 DEF Waiting
<1> QED
  BY <1>1, <1>2, <1>3 DEF Sem

\* P(&empty) of a producer, P(&full) of a consumer
LEMMA CountPPreserves ==
    ASSUME WaitInv, MutexInv, NEW p \in Thread,
           \/ p \in Producer /\ PStep(p, "P_empty", "P_mutex", "empty")
           \/ p \in Consumer /\ PStep(p, "P_full", "P_mutex", "full")
    PROVE  WaitInv' /\ MutexInv'
<1> USE DEF ProducerLabel, ConsumerLabel
<1> DEFINE from == IF p \in Producer THEN "P_empty" ELSE "P_full"
           s == IF p \in Producer THEN "empty" ELSE "full"
<1>1. Step(p, from, "P_mutex") /\ P(p, s) /\ s \in Sem
  BY ProdConsAssumption DEF PStep, Sem
<1>2. /\ pc[p] = from /\ pc'[p] = "P_mutex"
      /\ \A q \in Thread \ {p} : pc'[q] = pc[q]
      /\ pc' \in [Thread -> ProducerLabel \cup ConsumerLabel]
      /\ ~Waiting(p)
  BY <1>1, StepFacts
<1>3. /\ SemTypes'
      /\ \A x \in Sem \ {s} : token'[x] = token[x] /\ Range(waiters'[x]) = Range(waiters[x])
      /\ \/ Range(waiters'[s]) = Range(waiters[s])
         \/ Range(waiters'[s]) = Range(waiters[s]) \cup {p}
  BY SMT, <1>1, <1>2, PEffect DEF WaitInv
<1>4. WaitInv'
  <2>1. CASE p \in Producer
    BY SMT, <1>2, <1>3, <2>1, ProdConsAssumption DEF WaitInv, Sem, Thread
  <2>2. CASE p \in Consumer
    BY SMT, <1>2, <1>3, <2>2, ProdConsAssumption DEF WaitInv, Sem, Thread
  <2> QED
    BY <2>1, <2>2 DEF Thread
<1>5. token'["mutex"] = token["mutex"] /\ Range(waiters'["mutex"]) = Range(waiters["mutex"])
  BY <1>3 DEF Sem
<1>6. \A q \in Thread : InSection(q)' <=> InSection(q)
  BY <1>2, <1>5 DEF InSection
<1> QED
  BY <1>4, <1>5, <1>6 DEF MutexInv

\* P(&mutex)
LEMMA MutexPPreserves ==
    ASSUME WaitInv, MutexInv, NEW p \in Thread,
           \/ p \in Producer /\ PStep(p, "P_mutex", "put", "mutex")
           \/ p \in Consumer /\ PStep(p, "P_mutex", "get", "mutex")
    PROVE  WaitInv' /\ MutexInv'
<1> USE DEF ProducerLabel, ConsumerLabel
<1> DEFINE to == IF p \in Producer THEN "put" ELSE "get"
<1>1. Step(p, "P_mutex", to) /\ P(p, "mutex") /\ "mutex" \in Sem
  BY ProdConsAssumption DEF PStep, Sem
<1>2. /\ pc[p] = "P_mutex" /\ pc'[p] = to
      /\ \A q \in Thread \ {p} : pc'[q] = pc[q]
      /\ pc' \in [Thread -> ProducerLabel \cup ConsumerLabel]
      /\ p \notin Range(waiters["empty"]) /\ p \notin Range(waiters["full"])
      /\ p \notin Range(waiters["mutex"]) /\ ~Waiting(p)
  BY <1>1, StepFacts
<1>3. /\ SemTypes'
      /\ \A x \in Sem \ {"mutex"} : token'[x] = token[x] /\ Range(waiters'[x]) = Range(waiters[x])
      /\ \/ /\ token["mutex"] > 0 /\ token'["mutex"] = token["mutex"] - 1
            /\ Range(waiters'["mutex"]) = Range(waiters["mutex"])
         \/ /\ token["mutex"] = 0 /\ token'["mutex"] = 0
            /\ Range(waiters'["mutex"]) = Range(waiters["mutex"]) \cup {p}
  BY <1>1, <1>2, PEffect DEF WaitInv
<1>4. WaitInv'
  <2>1. CASE p \in Producer
    BY SMT, <1>2, <1>3, <2>1, ProdConsAssumption DEF WaitInv, Sem, Thread
  <2>2. CASE p \in Consumer
    BY SMT, <1>2, <1>3, <2>2, ProdConsAssumption DEF WaitInv, Sem, Thread
  <2> QED
    BY <2>1, <2>2 DEF Thread
<1>5. \A q \in Thread \ {p} : InSection(q)' <=> InSection(q)
  BY <1>2, <1>3 DEF InSection
<1>6. ~InSection(p)
  BY <1>2 DEF InSection
<1>7. CASE token["mutex"] = 1
  <2>1. token'["mutex"] = 0 /\ InSection(p)'
    BY SMT, <1>2, <1>3, <1>7 DEF InSection
  <2>2. \A q \in Thread \ {p} : ~InSection(q)'
    BY SMT, <1>5, <1>7 DEF MutexInv
  <2> QED
    BY <1>4, <2>1, <2>2 DEF MutexInv
<1>8. CASE token["mutex"] = 0
  <2>1. token'["mutex"] = 0 /\ ~InSection(p)'
    BY SMT, <1>3, <1>8 DEF InSection
  <2>2. PICK o \in Thread : \A q \in Thread : InSection(q) <=> q = o
    BY SMT, <1>8 DEF MutexInv
  <2>3. \A q \in Thread : InSection(q)' <=> q = o
    BY <1>5, <1>6, <2>1, <2>2
  <2> QED
    BY <1>4, <2>1, <2>3 DEF MutexInv
<1> QED
  BY <1>7, <1>8 DEF MutexInv

\* V(&mutex): the section becomes empty, or the next thread is in it at once.
LEMMA MutexVPreserves ==
    ASSUME WaitInv, MutexInv, NEW p \in Thread,
           \/ p \in Producer /\ VStep(p, "V_mutex", "V_full", "mutex")
           \/ p \in Consumer /\ VStep(p, "V_mutex", "V_empty", "mutex")
    PROVE  WaitInv' /\ MutexInv'
<1> USE DEF ProducerLabel, ConsumerLabel
<1> DEFINE to == IF p \in Producer THEN "V_full" ELSE "V_empty"
<1>1. Step(p, "V_mutex", to) /\ V("mutex") /\ "mutex" \in Sem
  BY ProdConsAssumption DEF VStep, Sem
<1>2. /\ pc[p] = "V_mutex" /\ pc'[p] = to
      /\ \A q \in Thread \ {p} : pc'[q] = pc[q]
      /\ pc' \in [Thread -> ProducerLabel \cup ConsumerLabel]
      /\ p \notin Range(waiters["mutex"])
  BY <1>1, StepFacts
<1>3. /\ SemTypes'
      /\ \A x \in Sem \ {"mutex"} : token'[x] = token[x] /\ Range(waiters'[x]) = Range(waiters[x])
      /\ \/ /\ token'["mutex"] = token["mutex"] + 1 /\ Range(waiters["mutex"]) = {}
            /\ Range(waiters'["mutex"]) = {}
         \/ /\ token["mutex"] = 0 /\ token'["mutex"] = 0
            /\ \E q \in Range(waiters["mutex"]) :
                  Range(waiters'["mutex"]) = Range(waiters["mutex"]) \ {q}
  BY <1>1, VEffect DEF WaitInv
<1>4. WaitInv'
  <2>1. CASE p \in Producer
    BY SMT, <1>2, <1>3, <2>1, ProdConsAssumption DEF WaitInv, Sem, Thread
  <2>2. CASE p \in Consumer
    BY SMT, <1>2, <1>3, <2>2, ProdConsAssumption DEF WaitInv, Sem, Thread
  <2> QED
    BY <2>1, <2>2 DEF Thread
<1>5. InSection(p) /\ ~InSection(p)'
  BY <1>2 DEF InSection
<1>6. token["mutex"] = 0 /\ \A q \in Thread \ {p} : ~InSection(q)
  BY <1>5 DEF MutexInv
<1>7. CASE token'["mutex"] = token["mutex"] + 1 /\ Range(waiters["mutex"]) = {} /\ Range(waiters'["mutex"]) = {}
  <2>1. \A q \in Thread : ~InSection(q)'
    BY <1>2, <1>5, <1>6, <1>7 DEF InSection
  <2> QED
    BY SMT, <1>4, <1>6, <1>7, <2>1 DEF MutexInv
<1>8. ASSUME NEW o \in Range(waiters["mutex"]), token'["mutex"] = 0,
             Range(waiters'["mutex"]) = Range(waiters["mutex"]) \ {o}
      PROVE  MutexInv'
  <2>1. o \in Thread \ {p} /\ pc[o] \in {"put", "get"}
    BY <1>2 DEF WaitInv
  <2>2. InSection(o)'
    BY <1>2, <1>8, <2>1 DEF InSection
  <2>3. \A q \in Thread \ {o} : ~InSection(q)'
    BY <1>2, <1>5, <1>6, <1>8 DEF InSection
  <2> QED
    BY SMT, <1>8, <2>1, <2>2, <2>3 DEF MutexInv
<1> QED
  BY <1>3, <1>4, <1>7, <1>8

\* V(&full) of a producer, V(&empty) of a consumer
LEMMA CountVPreserves ==
    ASSUME WaitInv, MutexInv, NEW p \in Thread,
           \/ p \in Producer /\ VStep(p, "V_full", "P_empty", "full")
           \/ p \in Consumer /\ VStep(p, "V_empty", "P_full", "empty")
    PROVE  WaitInv' /\ MutexInv'
<1> USE DEF ProducerLabel, ConsumerLabel
<1> DEFINE from == IF p \in Producer THEN "V_full" ELSE "V_empty"
           to == IF p \in Producer THEN "P_empty" ELSE "P_full"
           s == IF p \in Producer THEN "full" ELSE "empty"
<1>1. Step(p, from, to) /\ V(s) /\ s \in Sem
  BY ProdConsAssumption DEF VStep, Sem
<1>2. /\ pc[p] = from /\ pc'[p] = to
      /\ \A q \in Thread \ {p} : pc'[q] = pc[q]
      /\ pc' \in [Thread -> ProducerLabel \cup ConsumerLabel]
  BY <1>1, StepFacts
<1>3. /\ SemTypes'
      /\ \A x \in Sem \ {s} : token'[x] = token[x] /\ Range(waiters'[x]) = Range(waiters[x])
      /\ Range(waiters'[s]) \subseteq Range(waiters[s])
  BY <1>1, VEffect DEF WaitInv
<1>4. WaitInv'
  <2>1. CASE p \in Producer
    BY SMT, <1>2, <1>3, <2>1, ProdConsAssumption DEF WaitInv, Sem, Thread
  <2>2. CASE p \in Consumer
    BY SMT, <1>2, <1>3, <2>2, ProdConsAssumption DEF WaitInv, Sem, Thread
  <2> QED
    BY <2>1, <2>2 DEF Thread
<1>5. token'["mutex"] = token["mutex"] /\ Range(waiters'["mutex"]) = Range(waiters["mutex"])
  BY <1>3 DEF Sem
<1>6. \A q \in Thread : InSection(q)' <=> InSection(q)
  BY <1>2, <1>5 DEF InSection
<1> QED
  BY <1>4, <1>5, <1>6 DEF MutexInv

\* The statements inside the section
LEMMA DataPreserves ==
    ASSUME WaitInv, MutexInv, NEW p \in Thread,
           \/ p \in Producer /\ (DataStep(p, "put", "p_wrap") \/ DataStep(p, "p_wrap", "V_mutex"))
           \/ p \in Consumer /\ \/ DataStep(p, "get", "check") \/ DataStep(p, "check", "c_wrap")
                                 \/ DataStep(p, "c_wrap", "V_mutex")
    PROVE  WaitInv' /\ MutexInv'
<1> USE DEF ProducerLabel, ConsumerLabel
<1>1. PICK from \in {"put", "p_wrap", "get", "check", "c_wrap"}, to \in {"p_wrap", "V_mutex", "check", "c_wrap"} :
        /\ DataStep(p, from, to)
        /\ p \in Producer => from \in {"put", "p_wrap"} /\ to \in {"p_wrap", "V_mutex"}
        /\ p \in Consumer => from \in {"get", "check", "c_wrap"} /\ to \in {"check", "c_wrap", "V_mutex"}
  BY ProdConsAssumption
<1>2. /\ pc[p] = from /\ pc'[p] = to
      /\ \A q \in Thread \ {p} : pc'[q] = pc[q]
      /\ pc' \in [Thread -> ProducerLabel \cup ConsumerLabel]
      /\ p \notin Range(waiters["empty"]) /\ p \notin Range(waiters["full"])
      /\ p \notin Range(waiters["mutex"])
  BY <1>1, StepFacts DEF DataStep
<1>3. token' = token /\ waiters' = waiters
  BY <1>1 DEF DataStep
<1>4. WaitInv'
  BY <1>1, <1>2, <1>3 DEF WaitInv, SemTypes, Thread
<1>5. \A q \in Thread : InSection(q)' <=> InSection(q)
  BY <1>1, <1>2, <1>3 DEF InSection
<1> QED
  BY <1>3, <1>4, <1>5 DEF MutexInv

\* Every step keeps the waiters in place and the mutex with one thread.
LEMMA WaitStep == WaitInv /\ MutexInv /\ [Next]_vars => WaitInv' /\ MutexInv'
<1> SUFFICES ASSUME WaitInv, MutexInv, [Next]_vars PROVE WaitInv' /\ MutexInv'
  OBVIOUS
<1>1. CASE UNCHANGED vars
  BY <1>1 DEF vars, WaitInv, MutexInv, SemTypes, InSection
<1>2. CASE Next
  BY <1>2, StepKinds, DataKinds, CountPPreserves, MutexPPreserves, MutexVPreserves,
     CountVPreserves, DataPreserves DEF Thread
<1> QED
  BY <1>1, <1>2

\* Two threads are never inside the section at once, whoever V(&mutex) hands it to.
THEOREM MutualExclusionHolds == Spec => []MutualExclusion
<1>1. WaitInv /\ MutexInv => MutualExclusion
  BY HoldsIsInSection DEF MutexInv, MutualExclusion
<1> QED
  BY <1>1, WaitInit, WaitStep, PTL DEF Spec

-----------------------------------------------------------------------------
(* The slots                                                                *)

\* The threads whose slot holds a product, and those whose slot does not.
Filling ==
    {p \in Thread :
        \/ p \in Producer /\ pc[p] \in {"p_wrap", "V_mutex", "V_full"}
        \/ p \in Consumer /\ (pc[p] = "get" \/ (pc[p] = "P_mutex" /\ p \notin Range(waiters["full"])))}
Emptying ==
    {p \in Thread :
        \/ p \in Consumer /\ pc[p] \in {"check", "c_wrap", "V_mutex", "V_empty"}
        \/ p \in Producer /\ (pc[p] = "put" \/ (pc[p] = "P_mutex" /\ p \notin Range(waiters["empty"])))}

\* Products in the ring, and free slots.
Items == token["full"] + Cardinality(Filling)
Slots == token["empty"] + Cardinality(Emptying)

\* Counting sets of threads
LEMMA CountThreads ==
    ASSUME NEW S \in SUBSET Thread
    PROVE  /\ Cardinality(S) \in Nat
           /\ \A p \in S : Cardinality(S \ {p}) = Cardinality(S) - 1 /\ Cardinality(S) >= 1
           /\ \A p : p \notin S => Cardinality(S \cup {p}) = Cardinality(S) + 1
<1>1. IsFiniteSet(S) /\ Cardinality(S) \in Nat
  BY ProdConsAssumption, FS_Subset, FS_CardinalityType DEF Thread
<1>2. ASSUME NEW p \in S PROVE Cardinality(S \ {p}) = Cardinality(S) - 1 /\ Cardinality(S) >= 1
  <2>1. IsFiniteSet(S \ {p}) /\ Cardinality(S \ {p}) = Cardinality(S) - 1
    BY <1>1, FS_RemoveElement
  <2>2. Cardinality(S \ {p}) \in Nat
    BY <2>1, FS_CardinalityType
  <2> QED
    BY SMT, <1>1, <2>1, <2>2
<1>3. \A p : p \notin S => Cardinality(S \cup {p}) = Cardinality(S) + 1
  BY <1>1, FS_AddElement
<1> QED
  BY <1>1, <1>2, <1>3

\* The items and the free slots are numbers.
LEMMA CountTypes ==
    ASSUME WaitInv
    PROVE  /\ Filling \in SUBSET Thread /\ Emptying \in SUBSET Thread
           /\ Cardinality(Filling) \in Nat /\ Cardinality(Emptying) \in Nat
           /\ token["full"] \in Nat /\ token["empty"] \in Nat
           /\ Items \in Nat /\ Slots \in Nat
<1>1. Filling \in SUBSET Thread /\ Emptying \in SUBSET Thread
  BY DEF Filling, Emptying
<1>2. Cardinality(Filling) \in Nat /\ Cardinality(Emptying) \in Nat
  BY <1>1, CountThreads
<1>3. token["full"] \in Nat /\ token["empty"] \in Nat
  BY DEF WaitInv, SemTypes, Sem
<1> QED
  BY SMT, <1>1, <1>2, <1>3 DEF Items, Slots

\* At the start all slots are free.
LEMMA CountInit == Init => Items = 0 /\ Slots = NBUF
<1> SUFFICES ASSUME Init PROVE Items = 0 /\ Slots = NBUF
  OBVIOUS
<1>1. token["empty"] = NBUF /\ token["full"] = 0
  BY DEF Init, SemInit, Sem, Value
<1>2. \A p \in Thread : pc[p] \in {"P_empty", "P_full"}
  BY DEF Init
<1>3. Filling = {} /\ Emptying = {}
  BY <1>2 DEF Filling, Emptying
<1>4. Cardinality({}) = 0
  BY FS_EmptySet
<1> QED
  BY SMT, <1>1, <1>3, <1>4, ProdConsAssumption DEF Items, Slots

\* P(&empty) and P(&full): a unit of the semaphore becomes the thread's.
LEMMA CountPCounts ==
    ASSUME WaitInv, NEW p \in Thread,
           \/ p \in Producer /\ PStep(p, "P_empty", "P_mutex", "empty")
           \/ p \in Consumer /\ PStep(p, "P_full", "P_mutex", "full")
    PROVE  Items' = Items /\ Slots' = Slots
<1> USE DEF ProducerLabel, ConsumerLabel
<1>0. p \in Producer <=> p \notin Consumer
  BY ProdConsAssumption DEF Thread
<1>1. CASE p \in Producer
  <2>1. Step(p, "P_empty", "P_mutex") /\ P(p, "empty") /\ "empty" \in Sem
    BY <1>0, <1>1 DEF PStep, Sem
  <2>2. /\ pc[p] = "P_empty" /\ pc'[p] = "P_mutex" /\ \A q \in Thread \ {p} : pc'[q] = pc[q]
        /\ p \notin Range(waiters["empty"]) /\ ~Waiting(p)
    BY <2>1, StepFacts
  <2>3. /\ \A x \in Sem \ {"empty"} : token'[x] = token[x] /\ Range(waiters'[x]) = Range(waiters[x])
        /\ \/ /\ token["empty"] > 0 /\ token'["empty"] = token["empty"] - 1
              /\ Range(waiters'["empty"]) = Range(waiters["empty"])
           \/ /\ token["empty"] = 0 /\ token'["empty"] = 0
              /\ Range(waiters'["empty"]) = Range(waiters["empty"]) \cup {p}
    BY <2>1, <2>2, PEffect DEF WaitInv
  <2>4. token'["full"] = token["full"] /\ Range(waiters'["full"]) = Range(waiters["full"])
    BY <2>3 DEF Sem
  <2>5. Filling' = Filling
    BY <1>0, <1>1, <2>2, <2>4 DEF Filling
  <2>6. p \notin Emptying
    BY <1>0, <1>1, <2>2 DEF Emptying
  <2>7. CASE token'["empty"] = token["empty"] - 1 /\ Range(waiters'["empty"]) = Range(waiters["empty"])
    <3>1. Emptying' = Emptying \cup {p}
      BY <1>0, <1>1, <2>2, <2>7 DEF Emptying
    <3>2. Cardinality(Emptying') = Cardinality(Emptying) + 1
      BY <2>6, <3>1, CountThreads, CountTypes
    <3> QED
      BY SMT, <2>4, <2>5, <2>7, <3>2, CountTypes DEF Items, Slots
  <2>8. CASE token'["empty"] = token["empty"] /\ Range(waiters'["empty"]) = Range(waiters["empty"]) \cup {p}
    <3>1. Emptying' = Emptying
      BY <1>0, <1>1, <2>2, <2>8 DEF Emptying
    <3> QED
      BY <2>4, <2>5, <2>8, <3>1 DEF Items, Slots
  <2> QED
    BY <2>3, <2>7, <2>8
<1>2. CASE p \in Consumer
  <2>1. Step(p, "P_full", "P_mutex") /\ P(p, "full") /\ "full" \in Sem
    BY <1>0, <1>2 DEF PStep, Sem
  <2>2. /\ pc[p] = "P_full" /\ pc'[p] = "P_mutex" /\ \A q \in Thread \ {p} : pc'[q] = pc[q]
        /\ p \notin Range(waiters["full"]) /\ ~Waiting(p)
    BY <2>1, StepFacts
  <2>3. /\ \A x \in Sem \ {"full"} : token'[x] = token[x] /\ Range(waiters'[x]) = Range(waiters[x])
        /\ \/ /\ token["full"] > 0 /\ token'["full"] = token["full"] - 1
              /\ Range(waiters'["full"]) = Range(waiters["full"])
           \/ /\ token["full"] = 0 /\ token'["full"] = 0
              /\ Range(waiters'["full"]) = Range(waiters["full"]) \cup {p}
    BY <2>1, <2>2, PEffect DEF WaitInv
  <2>4. token'["empty"] = token["empty"] /\ Range(waiters'["empty"]) = Range(waiters["empty"])
    BY <2>3 DEF Sem
  <2>5. Emptying' = Emptying
    BY <1>0, <1>2, <2>2, <2>4 DEF Emptying
  <2>6. p \notin Filling
    BY <1>0, <1>2, <2>2 DEF Filling
  <2>7. CASE token'["full"] = token["full"] - 1 /\ Range(waiters'["full"]) = Range(waiters["full"])
    <3>1. Filling' = Filling \cup {p}
      BY <1>0, <1>2, <2>2, <2>7 DEF Filling
    <3>2. Cardinality(Filling') = Cardinality(Filling) + 1
      BY <2>6, <3>1, CountThreads, CountTypes
    <3> QED
      BY SMT, <2>4, <2>5, <2>7, <3>2, CountTypes DEF Items, Slots
  <2>8. CASE token'["full"] = token["full"] /\ Range(waiters'["full"]) = Range(waiters["full"]) \cup {p}
    <3>1. Filling' = Filling
      BY <1>0, <1>2, <2>2, <2>8 DEF Filling
    <3> QED
      BY <2>4, <2>5, <2>8, <3>1 DEF Items, Slots
  <2> QED
    BY <2>3, <2>7, <2>8
<1> QED
  BY <1>1, <1>2 DEF Thread

\* V(&full) and V(&empty): the thread's unit goes to the semaphore, or to the thread
\* that is woken.
LEMMA CountVCounts ==
    ASSUME WaitInv, NEW p \in Thread,
           \/ p \in Producer /\ VStep(p, "V_full", "P_empty", "full")
           \/ p \in Consumer /\ VStep(p, "V_empty", "P_full", "empty")
    PROVE  Items' = Items /\ Slots' = Slots
<1> USE DEF ProducerLabel, ConsumerLabel
<1>0. p \in Producer <=> p \notin Consumer
  BY ProdConsAssumption DEF Thread
<1>1. CASE p \in Producer
  <2>1. Step(p, "V_full", "P_empty") /\ V("full") /\ "full" \in Sem
    BY <1>0, <1>1 DEF VStep, Sem
  <2>2. pc[p] = "V_full" /\ pc'[p] = "P_empty" /\ \A q \in Thread \ {p} : pc'[q] = pc[q]
    BY <2>1, StepFacts
  <2>3. /\ \A x \in Sem \ {"full"} : token'[x] = token[x] /\ Range(waiters'[x]) = Range(waiters[x])
        /\ \/ /\ token'["full"] = token["full"] + 1 /\ Range(waiters["full"]) = {}
              /\ Range(waiters'["full"]) = {}
           \/ /\ token["full"] = 0 /\ token'["full"] = 0
              /\ \E q \in Range(waiters["full"]) :
                    Range(waiters'["full"]) = Range(waiters["full"]) \ {q}
    BY <2>1, VEffect DEF WaitInv
  <2>4. token'["empty"] = token["empty"] /\ Range(waiters'["empty"]) = Range(waiters["empty"])
    BY <2>3 DEF Sem
  <2>5. Emptying' = Emptying /\ p \in Filling
    BY <1>0, <1>1, <2>2, <2>4 DEF Filling, Emptying
  <2>6. Cardinality(Filling \ {p}) = Cardinality(Filling) - 1
    BY <2>5, CountThreads, CountTypes
  <2>7. CASE /\ token'["full"] = token["full"] + 1
             /\ Range(waiters["full"]) = {} /\ Range(waiters'["full"]) = {}
    <3>1. Filling' = Filling \ {p}
      BY <1>0, <1>1, <2>2, <2>7 DEF Filling
    <3>2. Cardinality(Filling') = Cardinality(Filling) - 1
      BY <2>6, <3>1
    <3> QED
      BY SMT, <2>4, <2>5, <2>7, <3>2, CountTypes DEF Items, Slots
  <2>8. ASSUME NEW o \in Range(waiters["full"]), token'["full"] = token["full"],
               Range(waiters'["full"]) = Range(waiters["full"]) \ {o}
        PROVE  Items' = Items /\ Slots' = Slots
    <3>1. o \in Consumer /\ pc[o] = "P_mutex"
      BY DEF WaitInv
    <3>2. o \in Thread /\ o # p /\ o \notin Filling \ {p}
      BY <1>0, <1>1, <3>1, ProdConsAssumption DEF Filling, Thread
    <3>3. Filling' = (Filling \ {p}) \cup {o}
      BY <1>0, <1>1, <2>2, <2>8, <3>1, <3>2 DEF Filling
    <3>4. Cardinality((Filling \ {p}) \cup {o}) = Cardinality(Filling \ {p}) + 1
      <4>1. Filling \ {p} \in SUBSET Thread
        BY CountTypes
      <4> QED
        BY <3>2, <4>1, CountThreads
    <3>5. Cardinality(Filling') = Cardinality(Filling)
      BY SMT, <2>6, <3>3, <3>4, CountTypes
    <3> QED
      BY <2>4, <2>5, <2>8, <3>5 DEF Items, Slots
  <2> QED
    BY <2>3, <2>7, <2>8
<1>2. CASE p \in Consumer
  <2>1. Step(p, "V_empty", "P_full") /\ V("empty") /\ "empty" \in Sem
    BY <1>0, <1>2 DEF VStep, Sem
  <2>2. pc[p] = "V_empty" /\ pc'[p] = "P_full" /\ \A q \in Thread \ {p} : pc'[q] = pc[q]
    BY <2>1, StepFacts
  <2>3. /\ \A x \in Sem \ {"empty"} : token'[x] = token[x] /\ Range(waiters'[x]) = Range(waiters[x])
        /\ \/ /\ token'["empty"] = token["empty"] + 1 /\ Range(waiters["empty"]) = {}
              /\ Range(waiters'["empty"]) = {}
           \/ /\ token["empty"] = 0 /\ token'["empty"] = 0
              /\ \E q \in Range(waiters["empty"]) :
                    Range(waiters'["empty"]) = Range(waiters["empty"]) \ {q}
    BY <2>1, VEffect DEF WaitInv
  <2>4. token'["full"] = token["full"] /\ Range(waiters'["full"]) = Range(waiters["full"])
    BY <2>3 DEF Sem
  <2>5. Filling' = Filling /\ p \in Emptying
    BY <1>0, <1>2, <2>2, <2>4 DEF Filling, Emptying
  <2>6. Cardinality(Emptying \ {p}) = Cardinality(Emptying) - 1
    BY <2>5, CountThreads, CountTypes
  <2>7. CASE /\ token'["empty"] = token["empty"] + 1
             /\ Range(waiters["empty"]) = {} /\ Range(waiters'["empty"]) = {}
    <3>1. Emptying' = Emptying \ {p}
      BY <1>0, <1>2, <2>2, <2>7 DEF Emptying
    <3>2. Cardinality(Emptying') = Cardinality(Emptying) - 1
      BY <2>6, <3>1
    <3> QED
      BY SMT, <2>4, <2>5, <2>7, <3>2, CountTypes DEF Items, Slots
  <2>8. ASSUME NEW o \in Range(waiters["empty"]), token'["empty"] = token["empty"],
               Range(waiters'["empty"]) = Range(waiters["empty"]) \ {o}
        PROVE  Items' = Items /\ Slots' = Slots
    <3>1. o \in Producer /\ pc[o] = "P_mutex"
      BY DEF WaitInv
    <3>2. o \in Thread /\ o # p /\ o \notin Emptying \ {p}
      BY <1>0, <1>2, <3>1, ProdConsAssumption DEF Emptying, Thread
    <3>3. Emptying' = (Emptying \ {p}) \cup {o}
      BY <1>0, <1>2, <2>2, <2>8, <3>1, <3>2 DEF Emptying
    <3>4. Cardinality((Emptying \ {p}) \cup {o}) = Cardinality(Emptying \ {p}) + 1
      <4>1. Emptying \ {p} \in SUBSET Thread
        BY CountTypes
      <4> QED
        BY <3>2, <4>1, CountThreads
    <3>5. Cardinality(Emptying') = Cardinality(Emptying)
      BY SMT, <2>6, <3>3, <3>4, CountTypes
    <3> QED
      BY <2>4, <2>5, <2>8, <3>5 DEF Items, Slots
  <2> QED
    BY <2>3, <2>7, <2>8
<1> QED
  BY <1>1, <1>2 DEF Thread

\* The mutex, and the statements that neither fill nor empty a slot
LEMMA OthersCount ==
    ASSUME WaitInv, NEW p \in Thread,
           \/ p \in Producer /\ \/ PStep(p, "P_mutex", "put", "mutex")
                                 \/ VStep(p, "V_mutex", "V_full", "mutex")
                                 \/ DataStep(p, "p_wrap", "V_mutex")
           \/ p \in Consumer /\ \/ PStep(p, "P_mutex", "get", "mutex")
                                 \/ VStep(p, "V_mutex", "V_empty", "mutex")
                                 \/ DataStep(p, "check", "c_wrap")
                                 \/ DataStep(p, "c_wrap", "V_mutex")
    PROVE  Items' = Items /\ Slots' = Slots
<1> USE DEF ProducerLabel, ConsumerLabel
<1>0. p \in Producer <=> p \notin Consumer
  BY ProdConsAssumption DEF Thread
<1>1. ASSUME NEW from, NEW to \in ProducerLabel \cup ConsumerLabel, Step(p, from, to),
             P(p, "mutex") \/ V("mutex") \/ UNCHANGED <<token, waiters>>
      PROVE  /\ pc[p] = from /\ pc'[p] = to /\ \A q \in Thread \ {p} : pc'[q] = pc[q]
             /\ p \notin Range(waiters["empty"]) /\ p \notin Range(waiters["full"])
             /\ token'["empty"] = token["empty"] /\ token'["full"] = token["full"]
             /\ Range(waiters'["empty"]) = Range(waiters["empty"])
             /\ Range(waiters'["full"]) = Range(waiters["full"])
  <2>1. /\ pc[p] = from /\ pc'[p] = to /\ \A q \in Thread \ {p} : pc'[q] = pc[q]
        /\ p \notin Range(waiters["empty"]) /\ p \notin Range(waiters["full"]) /\ ~Waiting(p)
    BY <1>1, StepFacts
  <2>2. \A x \in Sem \ {"mutex"} : token'[x] = token[x] /\ Range(waiters'[x]) = Range(waiters[x])
    BY <1>1, <2>1, PEffect, VEffect DEF WaitInv, Sem
  <2> QED
    BY <2>1, <2>2 DEF Sem
<1>2. PICK from \in {"P_mutex", "V_mutex", "p_wrap", "check", "c_wrap"},
           to \in {"put", "get", "V_full", "V_empty", "V_mutex", "c_wrap"} :
        /\ Step(p, from, to)
        /\ P(p, "mutex") \/ V("mutex") \/ UNCHANGED <<token, waiters>>
        /\ p \in Producer => <<from, to>> \in {<<"P_mutex", "put">>, <<"V_mutex", "V_full">>, <<"p_wrap", "V_mutex">>}
        /\ p \in Consumer => <<from, to>> \in {<<"P_mutex", "get">>, <<"V_mutex", "V_empty">>,
                                               <<"check", "c_wrap">>, <<"c_wrap", "V_mutex">>}
  <2>1. CASE p \in Producer
    BY <1>0, <2>1 DEF PStep, VStep, DataStep
  <2>2. CASE p \in Consumer
    BY <1>0, <2>2 DEF PStep, VStep, DataStep
  <2> QED
    BY <2>1, <2>2 DEF Thread
<1>3. /\ pc[p] = from /\ pc'[p] = to /\ \A q \in Thread \ {p} : pc'[q] = pc[q]
      /\ p \notin Range(waiters["empty"]) /\ p \notin Range(waiters["full"])
      /\ token'["empty"] = token["empty"] /\ token'["full"] = token["full"]
      /\ Range(waiters'["empty"]) = Range(waiters["empty"])
      /\ Range(waiters'["full"]) = Range(waiters["full"])
  BY <1>1, <1>2
<1>4. Filling' = Filling
  BY <1>0, <1>2, <1>3 DEF Filling
<1>5. Emptying' = Emptying
  BY <1>0, <1>2, <1>3 DEF Emptying
<1> QED
  BY <1>3, <1>4, <1>5 DEF Items, Slots

\* A producer fills its slot.
LEMMA PutCounts ==
    ASSUME WaitInv, NEW p \in Producer, DataStep(p, "put", "p_wrap")
    PROVE  Items' = Items + 1 /\ Slots' = Slots - 1 /\ Slots >= 1
<1> USE DEF ProducerLabel, ConsumerLabel
<1>0. p \in Thread /\ p \notin Consumer
  BY ProdConsAssumption DEF Thread
<1>1. /\ pc[p] = "put" /\ pc'[p] = "p_wrap" /\ \A q \in Thread \ {p} : pc'[q] = pc[q]
      /\ token' = token /\ waiters' = waiters
  BY <1>0, StepFacts DEF DataStep
<1>2. Filling' = Filling \cup {p} /\ p \notin Filling
  BY <1>0, <1>1 DEF Filling
<1>3. Emptying' = Emptying \ {p} /\ p \in Emptying
  BY <1>0, <1>1 DEF Emptying
<1>4. Cardinality(Filling') = Cardinality(Filling) + 1
  BY <1>2, CountThreads, CountTypes
<1>5. Cardinality(Emptying') = Cardinality(Emptying) - 1 /\ Cardinality(Emptying) >= 1
  BY <1>3, CountThreads, CountTypes
<1> QED
  BY SMT, <1>1, <1>4, <1>5, CountTypes DEF Items, Slots

\* A consumer empties its slot.
LEMMA TakeCounts ==
    ASSUME WaitInv, NEW p \in Consumer, DataStep(p, "get", "check")
    PROVE  Items' = Items - 1 /\ Slots' = Slots + 1 /\ Items >= 1
<1> USE DEF ProducerLabel, ConsumerLabel
<1>0. p \in Thread /\ p \notin Producer
  BY ProdConsAssumption DEF Thread
<1>1. /\ pc[p] = "get" /\ pc'[p] = "check" /\ \A q \in Thread \ {p} : pc'[q] = pc[q]
      /\ token' = token /\ waiters' = waiters
  BY <1>0, StepFacts DEF DataStep
<1>2. Filling' = Filling \ {p} /\ p \in Filling
  BY <1>0, <1>1 DEF Filling
<1>3. Emptying' = Emptying \cup {p} /\ p \notin Emptying
  BY <1>0, <1>1 DEF Emptying
<1>4. Cardinality(Filling') = Cardinality(Filling) - 1 /\ Cardinality(Filling) >= 1
  BY <1>2, CountThreads, CountTypes
<1>5. Cardinality(Emptying') = Cardinality(Emptying) + 1
  BY <1>3, CountThreads, CountTypes
<1> QED
  BY SMT, <1>1, <1>4, <1>5, CountTypes DEF Items, Slots

\* The slots are conserved.
SlotInv == WaitInv /\ MutexInv /\ Items + Slots = NBUF

\* The slots add up at the start.
LEMMA SlotInit == Init => SlotInv
  BY SMT, WaitInit, CountInit, ProdConsAssumption DEF SlotInv

\* Every step keeps the number of items and free slots.
LEMMA SlotStep == SlotInv /\ [Next]_vars => SlotInv'
<1> SUFFICES ASSUME SlotInv, [Next]_vars PROVE SlotInv'
  OBVIOUS
<1>1. WaitInv /\ MutexInv /\ WaitInv' /\ MutexInv'
  BY WaitStep DEF SlotInv
<1>2. Items \in Nat /\ Slots \in Nat /\ Items + Slots = NBUF
  BY <1>1, CountTypes DEF SlotInv
<1>3. CASE UNCHANGED vars
  BY <1>1, <1>2, <1>3 DEF vars, SlotInv, Items, Slots, Filling, Emptying
<1>4. ASSUME NEW p \in Producer, put(p) PROVE Items' + Slots' = NBUF
  BY SMT, <1>1, <1>2, <1>4, DataKinds, PutCounts
<1>5. ASSUME NEW p \in Consumer, take(p) PROVE Items' + Slots' = NBUF
  BY SMT, <1>1, <1>2, <1>5, DataKinds, TakeCounts
<1>6. CASE Next
  BY <1>1, <1>2, <1>4, <1>5, <1>6, StepKinds, DataKinds, CountPCounts, CountVCounts, OthersCount
  DEF Thread, SlotInv
<1> QED
  BY <1>3, <1>6

\* However many threads wait at the three semaphores, every slot is counted once.
THEOREM SlotsConservedHolds == Spec => []SlotsConserved
<1>1. SlotInv => SlotsConserved
  <2> SUFFICES ASSUME SlotInv PROVE SlotsConserved
    OBVIOUS
  <2> DEFINE H == {p \in Thread : /\ pc[p] \notin {"P_empty", "P_full"}
                                  /\ p \notin Range(waiters["empty"]) \cup Range(waiters["full"])}
  <2>0. WaitInv /\ Items + Slots = NBUF
    BY DEF SlotInv
  <2>1. H = Filling \cup Emptying
    <3>1. \A p \in Thread : p \in H <=> p \in Filling \cup Emptying
      BY <2>0, ProdConsAssumption
      DEF WaitInv, Filling, Emptying, Thread, ProducerLabel, ConsumerLabel
    <3> QED
      BY <3>1 DEF Filling, Emptying
  <2>2. Filling \cap Emptying = {}
    BY ProdConsAssumption DEF Filling, Emptying
  <2>3. IsFiniteSet(Filling) /\ IsFiniteSet(Emptying)
    BY <2>0, CountTypes, ProdConsAssumption, FS_Subset DEF Thread
  <2> HIDE DEF H
  <2>4. Cardinality(H) = Cardinality(Filling) + Cardinality(Emptying)
    <3>1. Cardinality(Filling \cup Emptying) =
            Cardinality(Filling) + Cardinality(Emptying) - Cardinality(Filling \cap Emptying)
      BY <2>3, FS_Union
    <3>2. Cardinality(Filling \cap Emptying) = 0
      BY <2>2, FS_EmptySet
    <3> QED
      BY SMT, <2>0, <2>1, <3>1, <3>2, CountTypes
  <2> QED
    BY SMT, <2>0, <2>4, CountTypes DEF SlotsConserved, Items, Slots, H
<1> QED
  BY <1>1, SlotInit, SlotStep, PTL DEF Spec

-----------------------------------------------------------------------------
(* The ring                                                                 *)

Succ(x) == (x + 1) % GMAX

\* The place i after o, and an end of the ring before its %= NBUF.
Place(o, i) == IF o + i >= NBUF THEN o + i - NBUF ELSE o + i
Wrapped(x) == IF x = NBUF THEN 0 ELSE x

\* The product consumed last, the n products in ring b from place o on, and the next
\* one to be made: each is the successor of the one before.
Product(b, o, n, first, next, i) ==
    IF i = 0 THEN first ELSE IF i = n + 1 THEN next ELSE b[Place(o, i - 1)]
Chain(b, o, n, first, next) ==
    \A i \in 0..n : Product(b, o, n, first, next, i + 1) = Succ(Product(b, o, n, first, next, i))

\* The remainders in the indices and the product counter.
LEMMA Modulo ==
    /\ \A x \in 0..NBUF : x % NBUF = Wrapped(x)
    /\ \A x \in Nat : Succ(x) \in Nat
    /\ 1 % GMAX = Succ(0)
<1>1. \A x \in Nat, n \in Nat \ {0} :
          x % n \in 0..(n - 1) /\ x \div n \in Nat /\ x = n * (x \div n) + (x % n)
  BY SMT
<1>2. \A x \in Nat, n \in Nat \ {0} : x < n => x % n = x
  BY SMT
<1>3. \A n \in Nat \ {0} : n % n = 0
  BY SMT
<1>4. \A x \in 0..NBUF : x % NBUF = Wrapped(x)
  BY SMT, <1>2, <1>3, ProdConsAssumption DEF Wrapped
<1>5. \A x \in Nat : Succ(x) \in Nat
  BY SMT, <1>1, ProdConsAssumption DEF Succ
<1>6. 1 % GMAX = Succ(0)
  BY SMT DEF Succ
<1> QED
  BY <1>4, <1>5, <1>6

\* buf[f ++] = g ++ makes the chain longer.
LEMMA ChainPut ==
    ASSUME NEW b \in [0..(NBUF - 1) -> Nat], NEW o \in 0..(NBUF - 1), NEW n \in 0..(NBUF - 1),
           NEW first \in Nat, NEW next \in Nat, Chain(b, o, n, first, next)
    PROVE  Chain([b EXCEPT ![Place(o, n)] = next], o, n + 1, first, Succ(next))
<1> DEFINE c == [b EXCEPT ![Place(o, n)] = next]
<1>1. Place(o, n) \in 0..(NBUF - 1) /\ NBUF \in Nat
  BY SMT, ProdConsAssumption DEF Place
<1>2. ASSUME NEW i \in 1..n PROVE c[Place(o, i - 1)] = b[Place(o, i - 1)]
  <2>1. Place(o, i - 1) \in 0..(NBUF - 1) /\ Place(o, i - 1) # Place(o, n)
    BY SMT, <1>1 DEF Place
  <2> QED
    BY <1>1, <2>1
<1>3. c[Place(o, n)] = next
  BY <1>1
<1> HIDE DEF c
<1>4. ASSUME NEW i \in 0..(n + 1)
      PROVE  Product(c, o, n + 1, first, Succ(next), i) = Product(b, o, n, first, next, i)
  <2>1. CASE i = 0
    BY <2>1 DEF Product
  <2>2. CASE i = n + 1
    <3>1. i - 1 = n /\ i # 0 /\ i # (n + 1) + 1
      BY SMT, <2>2
    <3> QED
      BY <1>3, <2>2, <3>1 DEF Product
  <2>3. CASE i \in 1..n
    <3>1. i # 0 /\ i # n + 1 /\ i # (n + 1) + 1
      BY SMT, <2>3
    <3> QED
      BY <1>2, <2>3, <3>1 DEF Product
  <2> QED
    BY SMT, <2>1, <2>2, <2>3
<1>5. ASSUME NEW i \in 0..(n + 1)
      PROVE  Product(c, o, n + 1, first, Succ(next), i + 1)
                = Succ(Product(c, o, n + 1, first, Succ(next), i))
  <2>1. CASE i \in 0..n
    <3>1. i + 1 \in 0..(n + 1)
      BY SMT, <2>1
    <3> QED
      BY <1>4, <2>1, <3>1 DEF Chain
  <2>2. CASE i = n + 1
    <3>1. i + 1 # 0 /\ i # 0
      BY SMT, <2>2
    <3>2. Product(b, o, n, first, next, i) = next
      BY <2>2, <3>1 DEF Product
    <3>3. Product(c, o, n + 1, first, Succ(next), i + 1) = Succ(next)
      BY <2>2, <3>1 DEF Product
    <3> QED
      BY <1>4, <3>2, <3>3
  <2> QED
    BY SMT, <2>1, <2>2
<1> QED
  BY <1>5 DEF Chain, c

\* get = buf[r ++] takes the successor of what was taken before.
LEMMA ChainTake ==
    ASSUME NEW b \in [0..(NBUF - 1) -> Nat], NEW o \in 0..(NBUF - 1), NEW n \in 1..NBUF,
           NEW first \in Nat, NEW next \in Nat, Chain(b, o, n, first, next)
    PROVE  b[o] = Succ(first) /\ Chain(b, Wrapped(o + 1), n - 1, b[o], next)
<1>0. NBUF \in Nat /\ Place(o, 0) = o
  BY SMT, ProdConsAssumption DEF Place
<1>1. Product(b, o, n, first, next, 1) = b[o]
  <2>1. 1 # 0 /\ 1 # n + 1 /\ 1 - 1 = 0
    BY SMT
  <2> QED
    BY <1>0, <2>1 DEF Product
<1>2. Product(b, o, n, first, next, 0) = first
  BY DEF Product
<1>3. b[o] = Succ(first)
  <2>1. 0 \in 0..n /\ 0 + 1 = 1
    BY SMT
  <2> QED
    BY <1>1, <1>2, <2>1 DEF Chain
<1>4. ASSUME NEW i \in 0..n
      PROVE  Product(b, Wrapped(o + 1), n - 1, b[o], next, i) = Product(b, o, n, first, next, i + 1)
  <2>1. CASE i = 0
    BY SMT, <1>1, <2>1 DEF Product
  <2>2. CASE i = n
    <3>1. i # 0 /\ i = (n - 1) + 1 /\ i + 1 # 0
      BY SMT, <2>2
    <3> QED
      BY <2>2, <3>1 DEF Product
  <2>3. CASE i \in 1..(n - 1)
    <3>1. i # 0 /\ i # (n - 1) + 1 /\ i + 1 # 0 /\ i + 1 # n + 1 /\ (i + 1) - 1 = i
      BY SMT, <2>3
    <3>2. Place(Wrapped(o + 1), i - 1) = Place(o, i)
      BY SMT, <1>0, <2>3 DEF Place, Wrapped
    <3> QED
      BY <3>1, <3>2 DEF Product
  <2> QED
    BY SMT, <2>1, <2>2, <2>3
<1>5. ASSUME NEW i \in 0..(n - 1)
      PROVE  Product(b, Wrapped(o + 1), n - 1, b[o], next, i + 1)
                = Succ(Product(b, Wrapped(o + 1), n - 1, b[o], next, i))
  <2>1. i \in 0..n /\ i + 1 \in 0..n
    BY SMT
  <2> QED
    BY <1>4, <2>1 DEF Chain
<1> QED
  BY <1>3, <1>5 DEF Chain

\* The product taken last, although the thread that took it may not have stored it.
Latest == IF \E p \in Consumer : pc[p] = "check" THEN Succ(last) ELSE last

RingTypes ==
    /\ buf \in [0..(NBUF - 1) -> Nat] /\ f \in 0..NBUF /\ r \in 0..NBUF
    /\ g \in Nat /\ last \in Nat /\ get \in [Consumer -> Nat]

\* The ends leave the ring only inside the section.
EndsInside ==
    /\ f = NBUF => \E p \in Producer : pc[p] = "p_wrap"
    /\ r = NBUF => \E p \in Consumer : pc[p] \in {"check", "c_wrap"}

\* The inductive invariant of the ring
RingInv ==
    /\ SlotInv /\ RingTypes /\ EndsInside
    /\ \A p \in Consumer : pc[p] = "check" => get[p] = Succ(last)
    /\ Wrapped(f) = Place(Wrapped(r), Items)
    /\ Chain(buf, Wrapped(r), Items, Latest, g)
    /\ ~failed

\* The empty ring.
LEMMA RingInit == Init => RingInv
<1> SUFFICES ASSUME Init PROVE RingInv
  OBVIOUS
<1>1. SlotInv /\ Items = 0
  BY SlotInit, CountInit
<1>2. /\ buf = [i \in 0..(NBUF - 1) |-> 0] /\ f = 0 /\ r = 0 /\ g = Succ(0)
      /\ get = [p \in Consumer |-> 0] /\ last = 0 /\ failed = FALSE
      /\ \A p \in Thread : pc[p] \in {"P_empty", "P_full"}
  BY Modulo DEF Init
<1>3. RingTypes /\ NBUF \in Nat \ {0}
  BY SMT, <1>2, Modulo, ProdConsAssumption DEF RingTypes
<1>4. EndsInside /\ Latest = 0 /\ \A p \in Consumer : pc[p] # "check"
  BY <1>2, <1>3 DEF EndsInside, Latest, Thread
<1>5. Wrapped(0) = 0 /\ Place(0, 0) = 0
  BY SMT, <1>3 DEF Wrapped, Place
<1>6. Chain(buf, 0, 0, 0, Succ(0))
  <2>1. \A i \in 0..0 : i = 0
    BY SMT
  <2>2. Product(buf, 0, 0, 0, Succ(0), 0) = 0 /\ Product(buf, 0, 0, 0, Succ(0), 0 + 1) = Succ(0)
    BY SMT DEF Product
  <2> QED
    BY <2>1, <2>2 DEF Chain
<1> QED
  BY <1>1, <1>2, <1>3, <1>4, <1>5, <1>6 DEF RingInv

\* A thread inside the section is there alone.
LEMMA Alone ==
    ASSUME SlotInv, NEW p \in Thread, NEW q \in Thread,
           pc[p] \in {"put", "get", "p_wrap", "check", "c_wrap"}, p \notin Range(waiters["mutex"]),
           pc[q] \in {"p_wrap", "check", "c_wrap"}
    PROVE  p = q
<1>1. q \notin Range(waiters["mutex"])
  BY DEF SlotInv, WaitInv
<1>2. InSection(p) /\ InSection(q)
  BY <1>1 DEF InSection
<1> QED
  BY <1>2 DEF SlotInv, MutexInv

\* A statement of the section, of the thread that is there.
LEMMA SectionFacts ==
    ASSUME SlotInv, NEW p \in Thread, NEW from \in {"put", "get", "p_wrap", "check", "c_wrap"},
           NEW to \in {"p_wrap", "check", "c_wrap", "V_mutex"}, DataStep(p, from, to)
    PROVE  /\ pc[p] = from /\ pc'[p] = to
           /\ \A q \in Thread \ {p} : pc'[q] = pc[q] /\ pc[q] \notin {"p_wrap", "check", "c_wrap"}
<1>1. to \in ProducerLabel \cup ConsumerLabel
  BY DEF ProducerLabel, ConsumerLabel
<1>2. /\ pc[p] = from /\ pc'[p] = to /\ \A q \in Thread \ {p} : pc'[q] = pc[q]
      /\ p \notin Range(waiters["mutex"])
  BY <1>1, StepFacts DEF DataStep, SlotInv
<1>3. \A q \in Thread \ {p} : pc[q] \notin {"p_wrap", "check", "c_wrap"}
  BY <1>2, Alone
<1> QED
  BY <1>2, <1>3

\* A producer adds the next product behind the latest.
LEMMA PutPreserves ==
    ASSUME RingInv, SlotInv', NEW p \in Producer, put(p)
    PROVE  RingInv'
<1>0. p \in Thread /\ p \notin Consumer /\ Producer \subseteq Thread /\ Consumer \subseteq Thread
  BY ProdConsAssumption DEF Thread
<1>1. DataStep(p, "put", "p_wrap") /\ SlotInv /\ WaitInv
  BY DataKinds DEF RingInv, SlotInv
<1>2. /\ pc[p] = "put" /\ pc'[p] = "p_wrap"
      /\ \A q \in Thread \ {p} : pc'[q] = pc[q] /\ pc[q] \notin {"p_wrap", "check", "c_wrap"}
  BY <1>0, <1>1, SectionFacts
<1>3. /\ buf' = [buf EXCEPT ![f] = g] /\ f' = f + 1 /\ g' = Succ(g)
      /\ UNCHANGED <<r, get, last, failed>>
  BY DEF put, Succ
<1>4. Items' = Items + 1 /\ Items \in 0..(NBUF - 1) /\ NBUF \in Nat
  <2>1. Items' = Items + 1 /\ Slots >= 1
    BY <1>1, PutCounts
  <2>2. Items \in Nat /\ Slots \in Nat /\ Items + Slots = NBUF
    BY <1>1, CountTypes DEF SlotInv
  <2> QED
    BY SMT, <2>1, <2>2, ProdConsAssumption
<1>5. f \in 0..(NBUF - 1) /\ r \in 0..(NBUF - 1)
  <2>1. f # NBUF /\ r # NBUF
    BY <1>0, <1>2 DEF RingInv, EndsInside
  <2> QED
    BY SMT, <1>4, <2>1 DEF RingInv, RingTypes
<1>6. f = Place(r, Items) /\ Wrapped(r) = r
  BY SMT, <1>5 DEF RingInv, Wrapped
<1>7. Latest = last /\ Latest' = last
  BY <1>0, <1>2, <1>3 DEF Latest
<1>8. Chain(buf', r, Items', last, g')
  <2>1. buf \in [0..(NBUF - 1) -> Nat] /\ g \in Nat /\ last \in Nat /\ Chain(buf, r, Items, last, g)
    BY <1>6, <1>7 DEF RingInv, RingTypes
  <2>2. Chain([buf EXCEPT ![Place(r, Items)] = g], r, Items + 1, last, Succ(g))
    BY <1>4, <1>5, <2>1, ChainPut
  <2> QED
    BY <1>3, <1>4, <1>6, <2>2
<1>9. Wrapped(f') = Place(r, Items')
  BY SMT, <1>3, <1>4, <1>5, <1>6 DEF Wrapped, Place
<1>10. RingTypes' /\ EndsInside'
  <2>0. g \in Nat /\ Succ(g) \in Nat
    BY Modulo DEF RingInv, RingTypes
  <2>1. RingTypes'
    BY SMT, <1>3, <1>4, <1>5, <2>0 DEF RingInv, RingTypes
  <2>2. EndsInside'
    BY SMT, <1>2, <1>3, <1>5 DEF EndsInside
  <2> QED
    BY <2>1, <2>2
<1>11. \A q \in Consumer : pc'[q] # "check"
  BY <1>0, <1>2
<1> QED
  BY <1>3, <1>6, <1>7, <1>8, <1>9, <1>10, <1>11 DEF RingInv

\* A consumer takes the product after the last one consumed.
LEMMA TakePreserves ==
    ASSUME RingInv, SlotInv', NEW p \in Consumer, take(p)
    PROVE  RingInv'
<1>0. p \in Thread /\ Producer \subseteq Thread /\ Consumer \subseteq Thread /\ p \notin Producer
  BY ProdConsAssumption DEF Thread
<1>1. DataStep(p, "get", "check") /\ SlotInv /\ WaitInv
  BY DataKinds DEF RingInv, SlotInv
<1>2. /\ pc[p] = "get" /\ pc'[p] = "check"
      /\ \A q \in Thread \ {p} : pc'[q] = pc[q] /\ pc[q] \notin {"p_wrap", "check", "c_wrap"}
  BY <1>0, <1>1, SectionFacts
<1>3. /\ get' = [get EXCEPT ![p] = buf[r]] /\ r' = r + 1
      /\ UNCHANGED <<buf, f, g, last, failed>>
  BY DEF take, Oldest
<1>4. Items' = Items - 1 /\ Items \in 1..NBUF /\ NBUF \in Nat
  <2>1. Items' = Items - 1 /\ Items >= 1
    BY <1>1, TakeCounts
  <2>2. Items \in Nat /\ Slots \in Nat /\ Items + Slots = NBUF
    BY <1>1, CountTypes DEF SlotInv
  <2> QED
    BY SMT, <2>1, <2>2, ProdConsAssumption
<1>5. f \in 0..(NBUF - 1) /\ r \in 0..(NBUF - 1)
  <2>1. f # NBUF /\ r # NBUF
    BY <1>0, <1>2 DEF RingInv, EndsInside
  <2> QED
    BY SMT, <1>4, <2>1 DEF RingInv, RingTypes
<1>6. Wrapped(f) = Place(r, Items) /\ Wrapped(r) = r
  BY SMT, <1>5 DEF RingInv, Wrapped
<1>7. Latest = last /\ Latest' = Succ(last)
  BY <1>0, <1>2, <1>3 DEF Latest
<1>8. buf[r] = Succ(last) /\ Chain(buf, Wrapped(r'), Items', Succ(last), g)
  <2>1. buf \in [0..(NBUF - 1) -> Nat] /\ g \in Nat /\ last \in Nat /\ Chain(buf, r, Items, last, g)
    BY <1>6, <1>7 DEF RingInv, RingTypes
  <2>2. buf[r] = Succ(last) /\ Chain(buf, Wrapped(r + 1), Items - 1, buf[r], g)
    BY <1>4, <1>5, <2>1, ChainTake
  <2> QED
    BY <1>3, <1>4, <2>2
<1>9. Wrapped(f) = Place(Wrapped(r'), Items')
  BY SMT, <1>3, <1>4, <1>5, <1>6 DEF Wrapped, Place
<1>10. RingTypes' /\ EndsInside'
  <2>1. buf[r] \in Nat
    BY <1>5 DEF RingInv, RingTypes
  <2>2. RingTypes'
    BY SMT, <1>3, <1>4, <1>5, <2>1 DEF RingInv, RingTypes
  <2>3. EndsInside'
    BY SMT, <1>2, <1>3, <1>5 DEF EndsInside
  <2> QED
    BY <2>2, <2>3
<1>11. \A q \in Consumer : pc'[q] = "check" => get'[q] = Succ(last)
  BY <1>0, <1>2, <1>3, <1>8 DEF RingInv, RingTypes
<1> QED
  BY <1>3, <1>7, <1>8, <1>9, <1>10, <1>11 DEF RingInv

\* The assertion holds: the thread has taken the successor of last.
LEMMA CheckPreserves ==
    ASSUME RingInv, SlotInv', NEW p \in Consumer, check(p)
    PROVE  RingInv'
<1>0. p \in Thread /\ Producer \subseteq Thread /\ Consumer \subseteq Thread /\ p \notin Producer
  BY ProdConsAssumption DEF Thread
<1>1. DataStep(p, "check", "c_wrap") /\ SlotInv /\ WaitInv
  BY DataKinds DEF RingInv, SlotInv
<1>2. /\ pc[p] = "check" /\ pc'[p] = "c_wrap"
      /\ \A q \in Thread \ {p} : pc'[q] = pc[q] /\ pc[q] \notin {"p_wrap", "check", "c_wrap"}
  BY <1>0, <1>1, SectionFacts
<1>3. get[p] = Succ(last)
  BY <1>2 DEF RingInv
<1>4. failed' = FALSE /\ last' = Succ(last) /\ UNCHANGED <<buf, f, r, g, get>>
  BY <1>3 DEF check, Succ
<1>5. Latest = Succ(last) /\ Latest' = Succ(last)
  BY <1>0, <1>2, <1>4 DEF Latest
<1>6. Items' = Items
  BY <1>0, <1>1, OthersCount
<1>7. RingTypes' /\ EndsInside'
  <2>1. RingTypes'
    BY <1>4, Modulo DEF RingInv, RingTypes
  <2>2. EndsInside'
    BY <1>0, <1>2, <1>4 DEF RingInv, EndsInside
  <2> QED
    BY <2>1, <2>2
<1>8. \A q \in Consumer : pc'[q] # "check"
  BY <1>0, <1>2
<1> QED
  BY <1>4, <1>5, <1>6, <1>7, <1>8 DEF RingInv

\* f %= NBUF and r %= NBUF
LEMMA WrapPreserves ==
    ASSUME RingInv, SlotInv', NEW p \in Thread,
           (p \in Producer /\ p_wrap(p)) \/ (p \in Consumer /\ c_wrap(p))
    PROVE  RingInv'
<1>0. Producer \subseteq Thread /\ Consumer \subseteq Thread /\ (p \in Producer <=> p \notin Consumer)
  BY ProdConsAssumption DEF Thread
<1>1. SlotInv /\ WaitInv /\ RingTypes /\ NBUF \in Nat \ {0}
  BY ProdConsAssumption DEF RingInv, SlotInv
<1>2. PICK from \in {"p_wrap", "c_wrap"} :
        /\ DataStep(p, from, "V_mutex") /\ (from = "p_wrap" <=> p \in Producer)
        /\ f' = (IF from = "p_wrap" THEN Wrapped(f) ELSE f)
        /\ r' = (IF from = "c_wrap" THEN Wrapped(r) ELSE r)
        /\ UNCHANGED <<buf, g, get, last, failed>>
  <2>1. f % NBUF = Wrapped(f) /\ r % NBUF = Wrapped(r)
    BY <1>1, Modulo DEF RingTypes
  <2>2. CASE p \in Producer /\ p_wrap(p)
    BY <2>1, <2>2, DataKinds DEF p_wrap
  <2>3. CASE p \in Consumer /\ c_wrap(p)
    BY <1>0, <2>1, <2>3, DataKinds DEF c_wrap
  <2> QED
    BY <2>2, <2>3
<1>3. /\ pc[p] = from /\ pc'[p] = "V_mutex"
      /\ \A q \in Thread \ {p} : pc'[q] = pc[q] /\ pc[q] \notin {"p_wrap", "check", "c_wrap"}
  BY <1>1, <1>2, SectionFacts
<1>4. Items' = Items
  BY <1>0, <1>1, <1>2, OthersCount
<1>5. /\ Wrapped(f) \in 0..(NBUF - 1) /\ Wrapped(r) \in 0..(NBUF - 1)
      /\ Wrapped(f') = Wrapped(f) /\ Wrapped(r') = Wrapped(r)
  BY SMT, <1>1, <1>2 DEF Wrapped, RingTypes
<1>6. RingTypes'
  BY SMT, <1>1, <1>2, <1>5 DEF RingTypes
<1>7. EndsInside'
  <2>1. f' # NBUF
    BY SMT, <1>0, <1>1, <1>2, <1>3, <1>5 DEF RingInv, EndsInside
  <2>2. r' # NBUF
    BY SMT, <1>0, <1>1, <1>2, <1>3, <1>5 DEF RingInv, EndsInside
  <2> QED
    BY <2>1, <2>2 DEF EndsInside
<1>8. Latest = last /\ Latest' = last /\ \A q \in Consumer : pc'[q] # "check"
  BY <1>0, <1>2, <1>3 DEF Latest
<1> QED
  BY <1>2, <1>4, <1>5, <1>6, <1>7, <1>8 DEF RingInv

\* The semaphores' operations do not touch the ring.
LEMMA SemPreserves ==
    ASSUME RingInv, SlotInv', NEW p \in Thread, NEW from, NEW to, Step(p, from, to), UNCHANGED dataVars,
           {from, to} \cap {"p_wrap", "check", "c_wrap"} = {}, Items' = Items
    PROVE  RingInv'
<1>0. Producer \subseteq Thread /\ Consumer \subseteq Thread
  BY DEF Thread
<1>1. UNCHANGED <<buf, f, r, g, get, last, failed>>
  BY DEF dataVars
<1>2. pc[p] = from /\ pc'[p] = to /\ \A q \in Thread \ {p} : pc'[q] = pc[q]
  BY DEF Step, RingInv, SlotInv, WaitInv
<1>3. \A q \in Thread : pc'[q] \in {"p_wrap", "check", "c_wrap"} \/ pc[q] \in {"p_wrap", "check", "c_wrap"}
                        => pc'[q] = pc[q]
  BY <1>2
<1>4. Latest' = Latest
  BY <1>0, <1>1, <1>3 DEF Latest
<1>5. RingTypes' /\ EndsInside'
  BY <1>0, <1>1, <1>3 DEF RingInv, RingTypes, EndsInside
<1>6. \A q \in Consumer : pc'[q] = "check" => get[q] = Succ(last)
  BY <1>0, <1>3 DEF RingInv
<1> QED
  BY <1>1, <1>4, <1>5, <1>6 DEF RingInv

\* Every step keeps the ring in order.
LEMMA RingStep == RingInv /\ [Next]_vars => RingInv'
<1> SUFFICES ASSUME RingInv, [Next]_vars PROVE RingInv'
  OBVIOUS
<1>0. SlotInv /\ WaitInv /\ SlotInv'
  BY SlotStep DEF RingInv, SlotInv
<1>1. CASE UNCHANGED vars
  <2>1. UNCHANGED <<token, waiters, pc, buf, f, r, g, get, last, failed>>
    BY <1>1 DEF vars, dataVars
  <2>2. Items' = Items /\ Latest' = Latest /\ RingTypes' /\ EndsInside'
    BY <2>1 DEF Items, Filling, Latest, RingInv, RingTypes, EndsInside
  <2> QED
    BY <1>0, <2>1, <2>2 DEF RingInv
<1>2. ASSUME NEW p \in Producer,
             \/ PStep(p, "P_empty", "P_mutex", "empty") \/ PStep(p, "P_mutex", "put", "mutex")
             \/ VStep(p, "V_mutex", "V_full", "mutex") \/ VStep(p, "V_full", "P_empty", "full")
      PROVE  RingInv'
  <2>1. p \in Thread /\ Items' = Items
    BY <1>0, <1>2, CountPCounts, CountVCounts, OthersCount DEF Thread
  <2>2. PICK from \in ProducerLabel \cup ConsumerLabel, to \in ProducerLabel \cup ConsumerLabel :
          /\ Step(p, from, to) /\ UNCHANGED dataVars
          /\ {from, to} \cap {"p_wrap", "check", "c_wrap"} = {}
    BY SMT, <1>2 DEF PStep, VStep, ProducerLabel, ConsumerLabel
  <2> QED
    BY <1>0, <2>1, <2>2, SemPreserves
<1>3. ASSUME NEW p \in Consumer,
             \/ PStep(p, "P_full", "P_mutex", "full") \/ PStep(p, "P_mutex", "get", "mutex")
             \/ VStep(p, "V_mutex", "V_empty", "mutex") \/ VStep(p, "V_empty", "P_full", "empty")
      PROVE  RingInv'
  <2>1. p \in Thread /\ Items' = Items
    BY <1>0, <1>3, CountPCounts, CountVCounts, OthersCount DEF Thread
  <2>2. PICK from \in ProducerLabel \cup ConsumerLabel, to \in ProducerLabel \cup ConsumerLabel :
          /\ Step(p, from, to) /\ UNCHANGED dataVars
          /\ {from, to} \cap {"p_wrap", "check", "c_wrap"} = {}
    BY SMT, <1>3 DEF PStep, VStep, ProducerLabel, ConsumerLabel
  <2> QED
    BY <1>0, <2>1, <2>2, SemPreserves
<1>4. CASE Next
  BY <1>0, <1>2, <1>3, <1>4, StepKinds, PutPreserves, TakePreserves, CheckPreserves, WrapPreserves
  DEF Thread
<1> QED
  BY <1>1, <1>4

\* assert(last == get - 1) never fails, for any number of producers and consumers,
\* any size of buf and any schedule.
THEOREM ProductsInOrderHolds == Spec => []ProductsInOrder
<1>1. RingInv => ProductsInOrder
  BY DEF RingInv, ProductsInOrder
<1> QED
  BY <1>1, RingInit, RingStep, PTL DEF Spec

-----------------------------------------------------------------------------
(* Timer: the alarms                                                        *)

Msg == Client \cup {"UPDATE_TIMER"}

Types ==
    /\ timer_active \subseteq TimerId
    /\ expire \in [TimerId -> Nat]
    /\ pid \in [TimerId -> Client \cup {Nobody}]
    /\ inbox \in Seq(Msg)
    /\ sec \in [Client -> Nat]
    /\ state \in [Client -> {"idle", "waiting", "rung"}]
    /\ owed \in [Client -> Nat]
    /\ t \in Nat

\* A client has one request in the mailbox, and one alarm in the table.
MailboxUnique == \A i, j \in 1..Len(inbox) : inbox[i] \in Client /\ inbox[i] = inbox[j] => i = j
TableUnique == \A k, l \in timer_active : pid[k] = pid[l] => k = l

\* Who has one waits, and has not both; who waits has one of them.
MailboxWaits ==
    \A i \in 1..Len(inbox) : inbox[i] \in Client =>
        state[inbox[i]] = "waiting" /\ \A k \in timer_active : pid[k] # inbox[i]
TableWaits == \A k \in timer_active : pid[k] \in Client /\ state[pid[k]] = "waiting"
Placed ==
    \A c \in Client : state[c] = "waiting" =>
        (\E i \in 1..Len(inbox) : inbox[i] = c) \/ (\E k \in timer_active : pid[k] = c)

\* No alarm is due, or will be set, before the answer is.
MailboxOwed ==
    \A i \in 1..Len(inbox) : inbox[i] \in Client => owed[inbox[i]] <= Ticks(sec[inbox[i]])
TableOwed == \A k \in timer_active : owed[pid[k]] <= expire[k]

\* The inductive invariant: what OneAlarmEach says without counting, and why an
\* alarm is never early.
TimerInv ==
    /\ Types
    /\ MailboxUnique /\ TableUnique
    /\ MailboxWaits /\ TableWaits /\ Placed
    /\ MailboxOwed /\ TableOwed /\ NeverEarly

\* set_timer finds an alarm that is not in use, if there is one.
LEMMA UsableTimer ==
    ASSUME Free # {}
    PROVE  usable_timer \in TimerId /\ usable_timer \notin timer_active
<1>1. Free \in SUBSET Nat
  BY SMT, TimerAssumption DEF Free, TimerId
<1>2. \E x \in Free : \A y \in Free : x <= y
  BY <1>1, Least
<1>3. usable_timer \in Free
  BY <1>2 DEF usable_timer, Min
<1> QED
  BY <1>3 DEF Free

\* Seconds in ticks.
LEMMA TicksNat == \A s \in Nat : Ticks(s) \in Nat
  BY SMT, TimerAssumption DEF Ticks

\* No alarm is set at the start.
LEMMA TimerInvInit == TimerInit => TimerInv
<1> SUFFICES ASSUME TimerInit PROVE TimerInv
  OBVIOUS
<1>1. Len(inbox) = 0
  BY DEF TimerInit
<1>2. Types
  BY SMT DEF TimerInit, Types
<1> QED
  BY SMT, <1>1, <1>2 DEF TimerInit, TimerInv, MailboxUnique, TableUnique, MailboxWaits, TableWaits, Placed,
                    MailboxOwed, TableOwed, NeverEarly

\* A client's request goes to the end of the mailbox.
LEMMA AskPreserves ==
    ASSUME TimerInv, NEW c \in Client, ask(c)
    PROVE  TimerInv'
<1>1. PICK s \in 0..MaxSec : sec' = [sec EXCEPT ![c] = s] /\ owed' = [owed EXCEPT ![c] = Ticks(s)]
  BY DEF ask, Ticks
<1>2. s \in Nat /\ Ticks(s) \in Nat
  BY SMT, <1>1, TicksNat, TimerAssumption
<1>3. /\ state[c] = "idle" /\ state' = [state EXCEPT ![c] = "waiting"]
      /\ inbox' = Append(inbox, c)
      /\ UNCHANGED <<timer_active, expire, pid, t>>
  BY DEF ask, tableVars
<1>4. /\ inbox' \in Seq(Msg) /\ Len(inbox') = Len(inbox) + 1 /\ Len(inbox) \in Nat
      /\ \A i \in 1..Len(inbox) : inbox'[i] = inbox[i]
      /\ inbox'[Len(inbox) + 1] = c
  BY SMT, <1>3, SeqAppend, SeqLength DEF TimerInv, Types, Msg
<1>5. /\ \A i \in 1..Len(inbox) : inbox[i] # c
      /\ \A k \in timer_active : pid[k] # c
  BY <1>3 DEF TimerInv, MailboxWaits, TableWaits
<1>6. /\ sec' \in [Client -> Nat] /\ owed' \in [Client -> Nat]
      /\ state' \in [Client -> {"idle", "waiting", "rung"}]
      /\ sec'[c] = s /\ owed'[c] = Ticks(s) /\ state'[c] = "waiting"
      /\ \A d \in Client \ {c} : sec'[d] = sec[d] /\ owed'[d] = owed[d] /\ state'[d] = state[d]
  BY <1>1, <1>2, <1>3 DEF TimerInv, Types
<1>7. \A i \in 1..Len(inbox') :
          \/ i = Len(inbox) + 1
          \/ i \in 1..Len(inbox) /\ inbox'[i] = inbox[i] /\ inbox'[i] # c
  <2>1. \A i \in 1..Len(inbox') : i = Len(inbox) + 1 \/ i \in 1..Len(inbox)
    BY SMT, <1>4
  <2>2. \A i \in 1..Len(inbox) : inbox'[i] = inbox[i] /\ inbox'[i] # c
    BY <1>4, <1>5
  <2> QED
    BY <2>1, <2>2
<1>8. Types'
  BY <1>3, <1>4, <1>6 DEF TimerInv, Types
<1>9. MailboxUnique' /\ TableUnique'
  BY SMT, <1>3, <1>4, <1>7 DEF TimerInv, MailboxUnique, TableUnique
<1>10. MailboxWaits'
  BY SMT, <1>3, <1>4, <1>5, <1>6, <1>7 DEF TimerInv, MailboxWaits
<1>11. TableWaits' /\ TableOwed'
  BY <1>3, <1>5, <1>6 DEF TimerInv, TableWaits, TableOwed
<1>12. MailboxOwed'
  <2> SUFFICES ASSUME NEW i \in 1..Len(inbox'), inbox'[i] \in Client
               PROVE  owed'[inbox'[i]] <= Ticks(sec'[inbox'[i]])
    BY DEF MailboxOwed
  <2>1. CASE i = Len(inbox) + 1
    BY SMT, <1>2, <1>4, <1>6, <2>1
  <2>2. CASE i \in 1..Len(inbox) /\ inbox'[i] = inbox[i] /\ inbox'[i] # c
    BY <1>6, <2>2 DEF TimerInv, MailboxOwed
  <2> QED
    BY <1>7, <2>1, <2>2
<1>13. Placed'
  <2> SUFFICES ASSUME NEW d \in Client, state'[d] = "waiting"
               PROVE  (\E i \in 1..Len(inbox') : inbox'[i] = d) \/ (\E k \in timer_active : pid[k] = d)
    BY <1>3 DEF Placed
  <2>1. CASE d = c
    BY SMT, <2>1, <1>4
  <2>2. CASE d # c
    <3>1. \A i \in 1..Len(inbox) : i \in 1..Len(inbox')
      BY SMT, <1>4
    <3>2. state[d] = "waiting"
      BY <2>2, <1>6
    <3>3. (\E i \in 1..Len(inbox) : inbox[i] = d) \/ (\E k \in timer_active : pid[k] = d)
      BY <3>2 DEF TimerInv, Placed
    <3> QED
      BY <3>1, <3>3, <1>4
  <2> QED
    BY <2>1, <2>2
<1>14. NeverEarly'
  BY <1>6 DEF TimerInv, NeverEarly
<1> QED
  BY <1>8, <1>9, <1>10, <1>11, <1>12, <1>13, <1>14 DEF TimerInv

\* A client takes its TIME_UP.
LEMMA ReceivePreserves ==
    ASSUME TimerInv, NEW c \in Client, receive_time_up(c)
    PROVE  TimerInv'
<1>1. /\ state[c] = "rung" /\ state' = [state EXCEPT ![c] = "idle"] /\ sec' = [sec EXCEPT ![c] = 0]
      /\ UNCHANGED <<timer_active, expire, pid, inbox, owed, t>>
  BY DEF receive_time_up, tableVars
<1>2. /\ sec' \in [Client -> Nat] /\ state' \in [Client -> {"idle", "waiting", "rung"}]
      /\ state'[c] = "idle"
      /\ \A d \in Client \ {c} : sec'[d] = sec[d] /\ state'[d] = state[d]
  BY <1>1 DEF TimerInv, Types
<1>3. /\ \A i \in 1..Len(inbox) : inbox[i] # c
      /\ \A k \in timer_active : pid[k] # c
  BY <1>1 DEF TimerInv, MailboxWaits, TableWaits
<1>4. Types' /\ MailboxUnique' /\ TableUnique'
  BY SMTT(30), <1>1, <1>2 DEF TimerInv, Types, MailboxUnique, TableUnique
<1>5. MailboxWaits' /\ TableWaits'
  BY SMT, <1>1, <1>2, <1>3 DEF TimerInv, MailboxWaits, TableWaits
<1>6. MailboxOwed' /\ TableOwed'
  BY <1>1, <1>2, <1>3 DEF TimerInv, MailboxOwed, TableOwed
<1>7. Placed' /\ NeverEarly'
  BY SMT, <1>1, <1>2 DEF TimerInv, Placed, NeverEarly
<1> QED
  BY <1>4, <1>5, <1>6, <1>7 DEF TimerInv

\* A tick shortens what is owed and what is missing alike.
LEMMA TickPreserves ==
    ASSUME TimerInv, update_jiffy
    PROVE  TimerInv'
<1>1. /\ expire' = [k \in TimerId |-> Less(expire[k])]
      /\ owed' = [c \in Client |-> Less(owed[c])]
      /\ inbox' = Append(inbox, "UPDATE_TIMER")
      /\ UNCHANGED <<timer_active, pid, sec, state, t>>
  BY DEF update_jiffy
<1>2. /\ \A n \in Nat : Less(n) \in Nat /\ Less(n) <= n /\ (n = 0 => Less(n) = 0)
      /\ \A m, n \in Nat : m <= n => Less(m) <= Less(n)
  BY SMT DEF Less
<1>3. /\ inbox' \in Seq(Msg) /\ Len(inbox') = Len(inbox) + 1 /\ Len(inbox) \in Nat
      /\ \A i \in 1..Len(inbox) : inbox'[i] = inbox[i]
      /\ inbox'[Len(inbox) + 1] = "UPDATE_TIMER"
  BY SMT, <1>1, SeqAppend, SeqLength DEF TimerInv, Types, Msg
<1>4. \A i \in 1..Len(inbox') : inbox'[i] \in Client => i \in 1..Len(inbox) /\ inbox'[i] = inbox[i]
  BY SMT, <1>3, TimerAssumption
<1>5. expire' \in [TimerId -> Nat] /\ owed' \in [Client -> Nat]
  BY <1>1, <1>2 DEF TimerInv, Types
<1>6. \A c \in Client : owed[c] \in Nat /\ owed'[c] = Less(owed[c])
  BY <1>1 DEF TimerInv, Types
<1>7. Types'
  BY <1>1, <1>3, <1>5 DEF TimerInv, Types
<1>8. MailboxUnique' /\ TableUnique'
  BY SMT, <1>1, <1>4 DEF TimerInv, MailboxUnique, TableUnique
<1>9. MailboxWaits' /\ TableWaits'
  BY SMT, <1>1, <1>4 DEF TimerInv, MailboxWaits, TableWaits
<1>10. MailboxOwed'
  <2> SUFFICES ASSUME NEW i \in 1..Len(inbox'), inbox'[i] \in Client
               PROVE  owed'[inbox'[i]] <= Ticks(sec[inbox'[i]])
    BY <1>1 DEF MailboxOwed
  <2>1. owed[inbox'[i]] <= Ticks(sec[inbox'[i]])
    BY <1>4 DEF TimerInv, MailboxOwed
  <2>2. Ticks(sec[inbox'[i]]) \in Nat
    BY TicksNat DEF TimerInv, Types
  <2>3. owed'[inbox'[i]] \in Nat /\ owed[inbox'[i]] \in Nat /\ owed'[inbox'[i]] <= owed[inbox'[i]]
    BY <1>2, <1>6
  <2> QED
    BY SMT, <2>1, <2>2, <2>3
<1>11. TableOwed'
  <2> SUFFICES ASSUME NEW k \in timer_active PROVE owed'[pid[k]] <= expire'[k]
    BY <1>1 DEF TableOwed
  <2>1. k \in TimerId /\ pid[k] \in Client /\ owed[pid[k]] <= expire[k] /\ expire[k] \in Nat
    BY DEF TimerInv, TableOwed, TableWaits, Types
  <2> QED
    BY <1>1, <1>2, <1>6, <2>1
<1>12. Placed'
  <2>1. \A i \in 1..Len(inbox) : i \in 1..Len(inbox')
    BY SMT, <1>3
  <2> QED
    BY <1>1, <1>3, <2>1 DEF TimerInv, Placed
<1>13. NeverEarly'
  BY <1>1, <1>2, <1>6 DEF TimerInv, NeverEarly
<1> QED
  BY <1>7, <1>8, <1>9, <1>10, <1>11, <1>12, <1>13 DEF TimerInv

\* The driver takes a message: what the rest of the mailbox is.
LEMMA Dequeue ==
    ASSUME TimerInv, inbox # <<>>, inbox' = Tail(inbox)
    PROVE  /\ inbox' \in Seq(Msg) /\ Head(inbox) = inbox[1] /\ 1 \in 1..Len(inbox)
           /\ \A i \in 1..Len(inbox') : i + 1 \in 2..Len(inbox) /\ inbox'[i] = inbox[i + 1]
           /\ \A i \in 2..Len(inbox) : \E j \in 1..Len(inbox') : inbox'[j] = inbox[i]
           /\ MailboxUnique'
<1>1. inbox \in Seq(Msg)
  BY DEF TimerInv, Types
<1>2. Len(inbox) \in Nat \ {0}
  BY <1>1, SeqLength, SeqEmpty
<1>3. /\ inbox' \in Seq(Msg) /\ Len(inbox') = Len(inbox) - 1
      /\ \A i \in 1..Len(inbox') : inbox'[i] = inbox[i + 1]
  BY <1>1, SeqHeadTail
<1>4. Head(inbox) = inbox[1]
  BY SMT, <1>1
<1>5. \A i \in 1..Len(inbox') : i + 1 \in 2..Len(inbox)
  BY SMT, <1>2, <1>3
<1>6. ASSUME NEW i \in 2..Len(inbox) PROVE \E j \in 1..Len(inbox') : inbox'[j] = inbox[i]
  <2>1. i - 1 \in 1..Len(inbox') /\ (i - 1) + 1 = i
    BY SMT, <1>2, <1>3
  <2>2. inbox'[i - 1] = inbox[(i - 1) + 1]
    BY <1>3, <2>1
  <2> QED
    BY <2>1, <2>2
<1>7. MailboxUnique'
  <2> SUFFICES ASSUME NEW i \in 1..Len(inbox'), NEW j \in 1..Len(inbox'),
                      inbox'[i] \in Client, inbox'[i] = inbox'[j]
               PROVE  i = j
    BY DEF MailboxUnique
  <2>1. /\ i + 1 \in 1..Len(inbox) /\ inbox'[i] = inbox[i + 1]
        /\ j + 1 \in 1..Len(inbox) /\ inbox'[j] = inbox[j + 1]
    BY SMT, <1>2, <1>3
  <2>2. i + 1 = j + 1
    BY <2>1 DEF TimerInv, MailboxUnique
  <2> QED
    BY SMT, <2>2, <1>2, <1>3
<1> QED
  BY SMT, <1>2, <1>3, <1>4, <1>5, <1>6, <1>7

\* A request moves from the mailbox to the table.
LEMMA SetTimerPreserves ==
    ASSUME TimerInv, set_timer
    PROVE  TimerInv'
<1> DEFINE u == usable_timer
           c == Head(inbox)
<1>1. u \in TimerId /\ u \notin timer_active
  BY UsableTimer DEF set_timer
<1>2. /\ inbox # <<>> /\ inbox' = Tail(inbox) /\ c \in Client
      /\ expire' = [expire EXCEPT ![u] = Ticks(sec[c])]
      /\ pid' = [pid EXCEPT ![u] = c]
      /\ timer_active' = timer_active \cup {u}
      /\ UNCHANGED <<sec, state, owed, t>>
  BY DEF set_timer
<1>3. /\ inbox' \in Seq(Msg) /\ c = inbox[1] /\ 1 \in 1..Len(inbox)
      /\ \A i \in 1..Len(inbox') : i + 1 \in 2..Len(inbox) /\ inbox'[i] = inbox[i + 1]
      /\ \A i \in 2..Len(inbox) : \E j \in 1..Len(inbox') : inbox'[j] = inbox[i]
      /\ MailboxUnique'
  BY <1>2, Dequeue
<1> HIDE DEF u, c
<1>4. /\ state[c] = "waiting" /\ owed[c] <= Ticks(sec[c])
      /\ \A k \in timer_active : pid[k] # c
  BY <1>2, <1>3 DEF TimerInv, MailboxWaits, MailboxOwed
<1>5. \A i \in 2..Len(inbox) : i \in 1..Len(inbox) /\ inbox[i] # c
  BY SMT, <1>2, <1>3 DEF TimerInv, MailboxUnique
<1>6. Ticks(sec[c]) \in Nat
  BY <1>2, TicksNat DEF TimerInv, Types
<1>7. /\ expire' \in [TimerId -> Nat] /\ pid' \in [TimerId -> Client \cup {Nobody}]
      /\ expire'[u] = Ticks(sec[c]) /\ pid'[u] = c
      /\ \A k \in timer_active : expire'[k] = expire[k] /\ pid'[k] = pid[k]
  BY <1>1, <1>2, <1>6 DEF TimerInv, Types
<1>8. Types'
  BY <1>1, <1>2, <1>3, <1>7 DEF TimerInv, Types
<1>9. TableUnique' /\ TableWaits' /\ TableOwed'
  BY SMTT(30), <1>2, <1>4, <1>7 DEF TimerInv, TableUnique, TableWaits, TableOwed
<1>10. MailboxWaits' /\ MailboxOwed'
  <2> SUFFICES ASSUME NEW i \in 1..Len(inbox'), inbox'[i] \in Client
               PROVE  /\ state[inbox'[i]] = "waiting" /\ owed[inbox'[i]] <= Ticks(sec[inbox'[i]])
                      /\ \A k \in timer_active' : pid'[k] # inbox'[i]
    BY <1>2 DEF MailboxWaits, MailboxOwed
  <2>1. PICK j \in 1..Len(inbox) : inbox'[i] = inbox[j] /\ inbox[j] # c
    BY <1>3, <1>5
  <2> QED
    BY SMT, <1>2, <1>7, <2>1 DEF TimerInv, MailboxWaits, MailboxOwed
<1>11. Placed'
  <2> SUFFICES ASSUME NEW d \in Client, state[d] = "waiting"
               PROVE  (\E i \in 1..Len(inbox') : inbox'[i] = d) \/ (\E k \in timer_active' : pid'[k] = d)
    BY <1>2 DEF Placed
  <2>1. CASE d = c
    BY <2>1, <1>2, <1>7
  <2>2. CASE d # c /\ \E i \in 1..Len(inbox) : inbox[i] = d
    <3>1. PICK i \in 1..Len(inbox) : inbox[i] = d
      BY <2>2
    <3>2. i \in 2..Len(inbox)
      BY SMT, <2>2, <3>1, <1>3
    <3> QED
      BY <3>1, <3>2, <1>3
  <2>3. CASE \E k \in timer_active : pid[k] = d
    BY <2>3, <1>2, <1>7
  <2> QED
    BY <2>1, <2>2, <2>3 DEF TimerInv, Placed
<1>12. NeverEarly'
  BY <1>2 DEF TimerInv, NeverEarly
<1> QED
  BY <1>3, <1>8, <1>9, <1>10, <1>11, <1>12 DEF TimerInv

\* A tick brings every alarm nearer and rings those that are due.
LEMMA UpdateTimerPreserves ==
    ASSUME TimerInv, update_timer
    PROVE  TimerInv'
<1>1. /\ inbox # <<>> /\ inbox' = Tail(inbox) /\ Head(inbox) \notin Client /\ t' = 0
      /\ UNCHANGED <<timer_active, expire, pid, sec, state, owed>>
  BY TimerAssumption DEF update_timer, tableVars
<1>2. /\ inbox' \in Seq(Msg) /\ Head(inbox) = inbox[1] /\ 1 \in 1..Len(inbox)
      /\ \A i \in 1..Len(inbox') : i + 1 \in 2..Len(inbox) /\ inbox'[i] = inbox[i + 1]
      /\ \A i \in 2..Len(inbox) : \E j \in 1..Len(inbox') : inbox'[j] = inbox[i]
      /\ MailboxUnique'
  BY <1>1, Dequeue
<1>3. \A i \in 1..Len(inbox') : \E j \in 1..Len(inbox) : inbox'[i] = inbox[j]
  <2>1. \A j \in 2..Len(inbox) : j \in 1..Len(inbox)
    BY SMT, <1>2
  <2> QED
    BY <1>2, <2>1
<1>4. Types' /\ TableUnique' /\ TableWaits' /\ TableOwed' /\ NeverEarly'
  BY <1>1, <1>2 DEF TimerInv, Types, TableUnique, TableWaits, TableOwed, NeverEarly
<1>5. MailboxWaits' /\ MailboxOwed'
  BY SMT, <1>1, <1>3 DEF TimerInv, MailboxWaits, MailboxOwed
<1>6. Placed'
  <2> SUFFICES ASSUME NEW d \in Client, state[d] = "waiting"
               PROVE  (\E i \in 1..Len(inbox') : inbox'[i] = d) \/ (\E k \in timer_active : pid[k] = d)
    BY <1>1 DEF Placed
  <2>1. CASE \E i \in 1..Len(inbox) : inbox[i] = d
    <3>1. PICK i \in 1..Len(inbox) : inbox[i] = d
      BY <2>1
    <3>2. i \in 2..Len(inbox)
      BY SMT, <3>1, <1>1, <1>2
    <3> QED
      BY <3>1, <3>2, <1>2
  <2> QED
    BY <2>1 DEF TimerInv, Placed
<1> QED
  BY <1>2, <1>4, <1>5, <1>6 DEF TimerInv

\* TIME_UP is sent: the alarm was due, so nothing is owed.
LEMMA ExpiredPreserves ==
    ASSUME TimerInv, run_expired
    PROVE  TimerInv'
<1> DEFINE c == pid[t]
<1>1. /\ t \in timer_active /\ expire[t] <= 0
      /\ timer_active' = timer_active \ {t}
      /\ state' = [state EXCEPT ![c] = "rung"]
      /\ t' = t + 1
      /\ UNCHANGED <<expire, pid, inbox, sec, owed>>
  BY DEF run_expired
<1>2. c \in Client /\ state[c] = "waiting" /\ owed[c] = 0
  BY SMT, <1>1 DEF TimerInv, Types, TableWaits, TableOwed
<1>3. /\ state' \in [Client -> {"idle", "waiting", "rung"}]
      /\ state'[c] = "rung"
      /\ \A d \in Client \ {c} : state'[d] = state[d]
  BY <1>1, <1>2 DEF TimerInv, Types
<1>4. /\ \A i \in 1..Len(inbox) : inbox[i] # c
      /\ \A k \in timer_active' : k \in timer_active /\ pid[k] # c
  BY <1>1, <1>2 DEF TimerInv, MailboxWaits, TableUnique
<1>5. \A k \in timer_active : pid[k] # c => k \in timer_active'
  BY <1>1
<1> HIDE DEF c
<1>6. Types'
  BY SMT, <1>1, <1>3 DEF TimerInv, Types
<1>7. MailboxUnique' /\ TableUnique' /\ MailboxOwed' /\ TableOwed'
  BY <1>1, <1>4 DEF TimerInv, MailboxUnique, TableUnique, MailboxOwed, TableOwed
<1>8. MailboxWaits' /\ TableWaits'
  BY SMT, <1>1, <1>3, <1>4 DEF TimerInv, MailboxWaits, TableWaits
<1>9. Placed'
  BY <1>1, <1>3, <1>5 DEF TimerInv, Placed
<1>10. NeverEarly'
  BY <1>1, <1>2, <1>3 DEF TimerInv, NeverEarly
<1> QED
  BY <1>6, <1>7, <1>8, <1>9, <1>10 DEF TimerInv

\* Every step keeps the alarms in order.
LEMMA TimerInvStep == TimerInv /\ [TimerNext]_timerVars => TimerInv'
<1> SUFFICES ASSUME TimerInv, [TimerNext]_timerVars PROVE TimerInv'
  OBVIOUS
<1>1. ASSUME UNCHANGED <<timer_active, expire, pid, inbox, sec, state, owed>>, t' \in Nat
      PROVE  TimerInv'
  BY <1>1 DEF TimerInv, Types, MailboxUnique, TableUnique, MailboxWaits, TableWaits, Placed,
              MailboxOwed, TableOwed, NeverEarly
<1>2. CASE set_timer_assert \/ run_break \/ run_continue \/ UNCHANGED timerVars
  <2>1. t \in Nat
    BY DEF TimerInv, Types
  <2> QED
    BY SMT, <1>1, <1>2, <2>1 DEF set_timer_assert, run_break, run_continue, timerVars, tableVars
<1>3. ASSUME NEW c \in Client, ask(c) \/ receive_time_up(c) PROVE TimerInv'
  BY <1>3, AskPreserves, ReceivePreserves
<1> QED
  BY <1>2, <1>3, TickPreserves, SetTimerPreserves, UpdateTimerPreserves, ExpiredPreserves
  DEF TimerNext, timer_driver_thread, Panicked

\* However requests, ticks and expiries interleave, a request is in the mailbox or in
\* the table, once, until its client is told.
THEOREM OneAlarmEachHolds == TimerSpec => []OneAlarmEach
<1>1. TimerInv => OneAlarmEach
  <2> SUFFICES ASSUME TimerInv, NEW c \in Client
               PROVE  Cardinality(Queued(c)) + Cardinality(Alarms(c)) =
                         IF state[c] = "waiting" THEN 1 ELSE 0
    BY DEF OneAlarmEach
  <2>0. DOMAIN inbox = 1..Len(inbox)
    BY SeqLength DEF TimerInv, Types
  <2>1. Cardinality({}) = 0 /\ \A k : Cardinality({k}) = 1
    BY FS_EmptySet, FS_Singleton
  <2>2. CASE state[c] # "waiting"
    <3>1. Queued(c) = {} /\ Alarms(c) = {}
      BY SMT, <2>0, <2>2 DEF TimerInv, MailboxWaits, TableWaits, Queued, Alarms
    <3> QED
      BY SMT, <3>1, <2>1, <2>2
  <2>3. CASE state[c] = "waiting" /\ \E i \in 1..Len(inbox) : inbox[i] = c
    <3>1. PICK i \in 1..Len(inbox) : inbox[i] = c
      BY <2>3
    <3>2. Queued(c) = {i}
      BY <2>0, <3>1 DEF TimerInv, MailboxUnique, Queued
    <3>3. Alarms(c) = {}
      BY <3>1 DEF TimerInv, MailboxWaits, Alarms
    <3>4. Cardinality(Queued(c)) = 1 /\ Cardinality(Alarms(c)) = 0
      BY <2>1, <3>2, <3>3
    <3> QED
      BY SMT, <2>3, <3>4
  <2>4. CASE state[c] = "waiting" /\ \E k \in timer_active : pid[k] = c
    <3>1. PICK k \in timer_active : pid[k] = c
      BY <2>4
    <3>2. Alarms(c) = {k}
      BY <3>1 DEF TimerInv, TableUnique, Alarms
    <3>3. Queued(c) = {}
      BY <2>0, <3>1 DEF TimerInv, MailboxWaits, Queued
    <3>4. Cardinality(Queued(c)) = 0 /\ Cardinality(Alarms(c)) = 1
      BY <2>1, <3>2, <3>3
    <3> QED
      BY SMT, <2>4, <3>4
  <2> QED
    BY <2>2, <2>3, <2>4 DEF TimerInv, Placed
<1> QED
  BY <1>1, TimerInvInit, TimerInvStep, PTL DEF TimerSpec

\* No client is told before the ticks it asked for have passed.
THEOREM NeverEarlyHolds == TimerSpec => []NeverEarly
<1>1. TimerInv => NeverEarly
  BY DEF TimerInv
<1> QED
  BY <1>1, TimerInvInit, TimerInvStep, PTL DEF TimerSpec
=============================================================================
