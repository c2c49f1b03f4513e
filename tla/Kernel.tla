------------------------------- MODULE Kernel -------------------------------
(***************************************************************************)
(* The process core of NanoOS: src/src/kernel/process/{lock,schedule,      *)
(* util}.c and src/src/kernel/irq/{irq_handle.c,do_irq.S}.                 *)
(*                                                                         *)
(* One CPU runs one process at a time, and only an interrupt takes the CPU *)
(* from it.  A step is the longest piece of code between two points where  *)
(* EFLAGS.IF or the saved state of the interrupted process can matter: a   *)
(* call of lock() with the list and token updates under it is one step,    *)
(* each unlock() is a step of its own because it may execute sti, and      *)
(* "int $0x80" is another.  The clients of the core (drivers, servers,     *)
(* test threads) are left open: at label "run" the current process may     *)
(* call any operation of the core, with any semaphore.                     *)
(***************************************************************************)
EXTENDS Integers, Sequences, Lists

CONSTANTS PCB_POOL_SIZE, \* number of PCBs; pid 0 is the idle process
          Sem,           \* the semaphores of the system
          RawSem,        \* those never passed to create_sem (pcb_pool[0].msg_sem)
          InitToken,     \* the value each semaphore is created with
          IrqWork,       \* what one interrupt may do: sequences of V operations
          MaxToken       \* bound: no client calls V on a token this large

Pid == 0..(PCB_POOL_SIZE - 1)
Idle == 0
Proc == Pid \ {Idle}
ListName == {"ready", "block", "free"} \cup Sem

ASSUME KernelAssumption ==
    /\ PCB_POOL_SIZE \in Nat \ {0}
    /\ Sem \cap {"ready", "block", "free"} = {}
    /\ RawSem \subseteq Sem
    /\ InitToken \in [Sem -> Nat]
    /\ IrqWork \subseteq Seq(Sem)
    /\ MaxToken \in Nat

VARIABLES
    list,       \* the lists of PCBs: ready, block, free, and one per semaphore
    stat,       \* PCB.stat
    token,      \* Sem.token
    current,    \* the pid of the current process
    lock_count, \* nesting depth of lock()
    locked,     \* PCB.locked: lock_count while the process is switched out
    lock_flag,  \* bit 0x1 as "irq", bit 0x2 as "sleep"
    IFlag,      \* EFLAGS.IF, 0 or 1
    tf,         \* the IF bit of the trap frame PCB.tf points to
    pc,         \* where each process is
    intr_flag,  \* create_kthread's local variable
    child,      \* the PCB create_kthread gave this process, 0 once it is woken
    todo,       \* the V operations the running interrupt handlers still have to do
    panic       \* "none", or the assertion that stopped the machine

lockVars == <<lock_count, lock_flag, IFlag>>
listVars == <<list, stat>>
irqVars == <<current, locked, tf, todo>>
vars == <<list, stat, token, current, lock_count, locked, lock_flag, IFlag,
          tf, pc, intr_flag, child, todo, panic>>

Label == {"run", "P_unlock", "S_unlock", "S_int", "P_cli", "V_unlock",
          "W_unlock", "Z_unlock", "Z_int", "K_unlock", "K_tail", "C_unlock"}

-----------------------------------------------------------------------------
(* The lists of PCBs.                                                       *)

\* Mutant: the list_del is missing.
Move_no_del(p, l) ==
    list' = [list EXCEPT ![l] = Append(@, p)]

\* list_del(&p->list), from whatever list p is on, then list_add_before(&l, ..)
Move(p, l) ==
    list' = [k \in ListName |-> IF k = l THEN Append(Unlink(list[k], p), p)
                                         ELSE Unlink(list[k], p)]

-----------------------------------------------------------------------------
(* The CPU.                                                                 *)

InIrq == "irq" \in lock_flag

\* The current process is about to execute the code at label l.
At(l) == panic = "none" /\ ~InIrq /\ pc[current] = l

Goto(l) == pc' = [pc EXCEPT ![current] = l]

\* Mutant: no cli().
Lock_no_cli(n) ==
    /\ lock_count' = lock_count + n
    /\ UNCHANGED IFlag

\* n nested calls of lock()
Lock(n) ==
    /\ IFlag' = 0
    /\ lock_count' = lock_count + n

Unlock ==
    /\ lock_count' = lock_count - 1
    /\ IFlag' = IF ~InIrq /\ ("sleep" \in lock_flag \/ lock_count = 1)
                THEN 1 ELSE IFlag
    /\ UNCHANGED lock_flag

\* Nothing executes after the panic message: interrupts are off.
Panic(why) ==
    /\ panic' = why
    /\ IFlag' = 0
    /\ UNCHANGED <<list, stat, token, current, lock_count, locked, lock_flag,
                   tf, pc, intr_flag, child, todo>>

\* The trap: hardware pushes EFLAGS and clears IF, irq_handle sets the flag.
EnterIrq(work) ==
    /\ tf' = [tf EXCEPT ![current] = IFlag]
    /\ IFlag' = 0
    /\ lock_flag' = lock_flag \cup {"irq"}
    /\ todo' = work

-----------------------------------------------------------------------------
(* P                                                                        *)

P_take(s) ==
    /\ At("run")
    /\ s \notin RawSem
    /\ token[s] > 0
    /\ Lock(1)
    /\ token' = [token EXCEPT ![s] = @ - 1]
    /\ Goto("P_unlock")
    /\ UNCHANGED <<listVars, irqVars, lock_flag, intr_flag, child, panic>>

\* Mutant: the caller sleeps on a unit that is there (token > 1 for > 0).
P_sleep_off_by_one(s) ==
    /\ At("run")
    /\ s \notin RawSem
    /\ current # Idle
    /\ token[s] <= 1
    /\ Lock(2)
    /\ lock_flag' = lock_flag \cup {"sleep"}
    /\ Move(current, s)
    /\ stat' = [stat EXCEPT ![current] = "SLEEPING"]
    /\ Goto("S_unlock")
    /\ UNCHANGED <<token, irqVars, intr_flag, child, panic>>

\* P up to the unlock() of sleep_sem.  Idle is on no list and never waits.
P_sleep(s) ==
    /\ At("run")
    /\ s \notin RawSem
    /\ current # Idle
    /\ token[s] <= 0
    /\ Lock(2)
    /\ lock_flag' = lock_flag \cup {"sleep"}
    /\ Move(current, s)
    /\ stat' = [stat EXCEPT ![current] = "SLEEPING"]
    /\ Goto("S_unlock")
    /\ UNCHANGED <<token, irqVars, intr_flag, child, panic>>

P(s) == P_take(s) \/ P_sleep(s)

\* The tail of P after sleep_sem returns: cli, and clear "going to sleep".
P_cli ==
    /\ At("P_cli")
    /\ IFlag' = 0
    /\ lock_flag' = lock_flag \ {"sleep"}
    /\ Goto("P_unlock")
    /\ UNCHANGED <<listVars, irqVars, token, lock_count, intr_flag, child, panic>>

-----------------------------------------------------------------------------
(* V and wakeup                                                             *)

\* The assertion, list and stat updates of wakeup(p).  After a failed assertion
\* nothing happens any more.
Wake(p) ==
    /\ panic' = IF stat[p] = "SLEEPING" THEN panic ELSE "wakeup"
    /\ Move(p, "ready")
    /\ stat' = [stat EXCEPT ![p] = "READY"]

\* No process waits: the token is incremented.
V_empty(s) ==
    /\ At("run")
    /\ s \notin RawSem
    /\ list[s] = <<>>
    /\ token[s] < MaxToken
    /\ Lock(1)
    /\ token' = [token EXCEPT ![s] = @ + 1]
    /\ Goto("V_unlock")
    /\ UNCHANGED <<listVars, irqVars, lock_flag, intr_flag, child, panic>>

\* Mutant: the last waiter (block.prev) gets the unit.
V_wake_last(s) ==
    /\ At("run")
    /\ s \notin RawSem
    /\ list[s] # <<>>
    /\ Wake(Last(list[s]))
    /\ Lock(2)
    /\ Goto("W_unlock")
    /\ UNCHANGED <<token, irqVars, lock_flag, intr_flag, child>>

\* The first waiter gets the unit directly, the token does not change.
V_wake(s) ==
    /\ At("run")
    /\ s \notin RawSem
    /\ list[s] # <<>>
    /\ Wake(Head(list[s]))
    /\ Lock(2)
    /\ Goto("W_unlock")
    /\ UNCHANGED <<token, irqVars, lock_flag, intr_flag, child>>

\* block.next of a semaphore that was never created is NULL: not empty, and
\* wakeup(NULL) returns at its range check.
V_raw(s) ==
    /\ At("run")
    /\ s \in RawSem
    /\ Lock(1)
    /\ Goto("V_unlock")
    /\ UNCHANGED <<token, listVars, irqVars, lock_flag, intr_flag, child, panic>>

V(s) == V_empty(s) \/ V_wake(s) \/ V_raw(s)

-----------------------------------------------------------------------------
(* sleep, create_kthread, wakeup of the created thread                      *)

sleep ==
    /\ At("run")
    /\ current # Idle
    /\ Lock(1)
    /\ Move(current, "block")
    /\ stat' = [stat EXCEPT ![current] = "SLEEPING"]
    /\ Goto("Z_unlock")
    /\ UNCHANGED <<token, irqVars, lock_flag, intr_flag, child, panic>>

\* Mutant: the new thread is made ready at once.
create_kthread_ready ==
    /\ At("run")
    /\ child[current] = 0
    /\ list["free"] # <<>>
    /\ Move(Head(list["free"]), "ready")
    /\ locked' = [locked EXCEPT ![Head(list["free"])] = 0]
    /\ tf' = [tf EXCEPT ![Head(list["free"])] = 1]
    /\ child' = [child EXCEPT ![current] = Head(list["free"])]
    /\ intr_flag' = [intr_flag EXCEPT ![current] = IFlag]
    /\ Lock(1)
    /\ Goto("K_unlock")
    /\ UNCHANGED <<stat, token, current, lock_flag, todo, panic>>

\* Up to the unlock() of create_sem(&selected_free->msg_sem, 0).
create_kthread ==
    /\ At("run")
    /\ child[current] = 0
    /\ list["free"] # <<>>
    /\ LET selected_free == Head(list["free"])
       IN /\ Move(selected_free, "block")
          /\ stat' = [stat EXCEPT ![selected_free] = "SLEEPING"]
          /\ locked' = [locked EXCEPT ![selected_free] = 0]
          /\ tf' = [tf EXCEPT ![selected_free] = 1]
          /\ child' = [child EXCEPT ![current] = selected_free]
    /\ intr_flag' = [intr_flag EXCEPT ![current] = IFlag]
    /\ Lock(1)
    /\ Goto("K_unlock")
    /\ UNCHANGED <<token, current, lock_flag, todo, panic>>

create_kthread_assert ==
    /\ At("run")
    /\ child[current] = 0
    /\ list["free"] = <<>>
    /\ Panic("create_kthread")

\* pid, cr3, and "if (intr_flag) sti()"; the local variable is gone.
K_tail ==
    /\ At("K_tail")
    /\ IFlag' = IF intr_flag[current] = 1 THEN 1 ELSE IFlag
    /\ intr_flag' = [intr_flag EXCEPT ![current] = 0]
    /\ Goto("run")
    /\ UNCHANGED <<listVars, irqVars, token, lock_count, lock_flag, child, panic>>

\* wakeup(create_kthread(...))
wakeup ==
    /\ At("run")
    /\ child[current] # 0
    /\ Wake(child[current])
    /\ Lock(1)
    /\ child' = [child EXCEPT ![current] = 0]
    /\ Goto("C_unlock")
    /\ UNCHANGED <<token, irqVars, lock_flag, intr_flag>>

\* os_init_cont, after init_driver
boot_sti ==
    /\ At("run")
    /\ current = Idle
    /\ IFlag' = 1
    /\ UNCHANGED <<listVars, irqVars, token, lock_count, lock_flag, pc,
                   intr_flag, child, panic>>

-----------------------------------------------------------------------------
(* Steps inside an operation                                                *)

UnlockAt(l, next) ==
    /\ At(l)
    /\ Unlock
    /\ Goto(next)
    /\ UNCHANGED <<listVars, irqVars, token, intr_flag, child, panic>>

P_unlock == UnlockAt("P_unlock", "run")
\* Mutant: sleep_sem returns without its int $0x80.
S_unlock_no_int == UnlockAt("S_unlock", "P_cli")

S_unlock == UnlockAt("S_unlock", "S_int")
V_unlock == UnlockAt("V_unlock", "run")
W_unlock == UnlockAt("W_unlock", "V_unlock")
Z_unlock == UnlockAt("Z_unlock", "Z_int")
K_unlock == UnlockAt("K_unlock", "K_tail")
C_unlock == UnlockAt("C_unlock", "run")

\* int $0x80: irq_handle runs no handler and goes to PROC.
Int0x80(l, next) ==
    /\ At(l)
    /\ EnterIrq(<<>>)
    /\ Goto(next)
    /\ UNCHANGED <<listVars, token, current, lock_count, locked, intr_flag,
                   child, panic>>

S_int == Int0x80("S_int", "P_cli")
Z_int == Int0x80("Z_int", "run")

-----------------------------------------------------------------------------
(* Hardware interrupts and the scheduler                                    *)

\* The handlers that will run do the V operations of work, in that order.
IrqEnter ==
    /\ panic = "none"
    /\ ~InIrq
    /\ IFlag = 1
    /\ \E work \in IrqWork :
          /\ \A i \in DOMAIN work : token[work[i]] < MaxToken
          /\ EnterIrq(work)
    /\ UNCHANGED <<listVars, token, current, lock_count, locked, pc, intr_flag,
                   child, panic>>

\* V called by a handler: unlock() returns at once, IF and lock_count are back
\* where they were.
IrqV_empty ==
    /\ panic = "none" /\ InIrq /\ todo # <<>>
    /\ Head(todo) \notin RawSem
    /\ list[Head(todo)] = <<>>
    /\ token' = [token EXCEPT ![Head(todo)] = @ + 1]
    /\ todo' = Tail(todo)
    /\ UNCHANGED <<lockVars, listVars, current, locked, tf, pc, intr_flag,
                   child, panic>>

IrqV_wake ==
    /\ panic = "none" /\ InIrq /\ todo # <<>>
    /\ Head(todo) \notin RawSem
    /\ list[Head(todo)] # <<>>
    /\ Wake(Head(list[Head(todo)]))
    /\ todo' = Tail(todo)
    /\ UNCHANGED <<lockVars, token, current, locked, tf, pc, intr_flag, child>>

IrqV_raw ==
    /\ panic = "none" /\ InIrq /\ todo # <<>>
    /\ Head(todo) \in RawSem
    /\ todo' = Tail(todo)
    /\ UNCHANGED <<lockVars, listVars, token, current, locked, tf, pc,
                   intr_flag, child, panic>>

\* The process after p on the ready list, past the list head if need be.
ListNext(p) ==
    LET r == list["ready"]
        i == IndexOf(r, p)
    IN  IF i = Len(r) THEN Head(r) ELSE r[i + 1]

\* Mutant: always the head of the list.
schedule_head == IF list["ready"] = <<>> THEN Idle ELSE Head(list["ready"])

schedule ==
    IF list["ready"] = <<>> THEN Idle
    ELSE IF current = Idle \/ stat[current] = "SLEEPING" THEN Head(list["ready"])
    ELSE ListNext(current)

\* Mutant: lock_count is not restored for the process that goes on.
IrqExit_no_restore ==
    /\ panic = "none" /\ InIrq /\ todo = <<>>
    /\ locked' = [locked EXCEPT ![current] = lock_count]
    /\ current' = schedule
    /\ lock_flag' = lock_flag \ {"irq"}
    /\ IFlag' = tf[current']
    /\ UNCHANGED <<listVars, token, lock_count, tf, pc, intr_flag, child, todo, panic>>

\* From PROC to iret.
IrqExit ==
    /\ panic = "none" /\ InIrq /\ todo = <<>>
    /\ locked' = [locked EXCEPT ![current] = lock_count]
    /\ current' = schedule
    /\ lock_count' = locked'[current']
    /\ lock_flag' = lock_flag \ {"irq"}
    /\ IFlag' = tf[current']
    /\ UNCHANGED <<listVars, token, tf, pc, intr_flag, child, todo, panic>>

Panicked == panic # "none" /\ UNCHANGED vars

-----------------------------------------------------------------------------
(* The specification                                                        *)

\* The state init_proc leaves: interrupts off, every PCB but idle's free.
Init ==
    /\ list = [l \in ListName |->
                  IF l = "free" THEN [i \in 1..(PCB_POOL_SIZE - 1) |-> i] ELSE <<>>]
    /\ stat = [p \in Pid |-> "READY"]
    /\ token = [s \in Sem |-> IF s \in RawSem THEN 0 ELSE InitToken[s]]
    /\ current = Idle
    /\ lock_count = 0
    /\ locked = [p \in Pid |-> 0]
    /\ lock_flag = {}
    /\ IFlag = 0
    /\ tf = [p \in Pid |-> 0]
    /\ pc = [p \in Pid |-> "run"]
    /\ intr_flag = [p \in Pid |-> 0]
    /\ child = [p \in Pid |-> 0]
    /\ todo = <<>>
    /\ panic = "none"

\* What a process decides to do.
Call ==
    \/ \E s \in Sem : P(s) \/ V(s)
    \/ sleep
    \/ create_kthread \/ create_kthread_assert
    \/ wakeup

\* What it must go on with once an operation has begun.
OpStep ==
    \/ P_unlock \/ S_unlock \/ S_int \/ P_cli
    \/ V_unlock \/ W_unlock
    \/ Z_unlock \/ Z_int
    \/ K_unlock \/ K_tail \/ C_unlock

IrqStep == IrqV_empty \/ IrqV_wake \/ IrqV_raw \/ IrqExit

Next == Call \/ OpStep \/ boot_sti \/ IrqEnter \/ IrqStep \/ Panicked

Spec == Init /\ [][Next]_vars

\* A process inside an operation executes its next instruction, a handler runs
\* to its iret, the boot code reaches its sti.  The timer's request stays
\* latched in the 8259 until IF is 1, however briefly: strong fairness.
Fairness ==
    /\ WF_vars(OpStep)
    /\ WF_vars(boot_sti)
    /\ WF_vars(IrqStep)
    /\ SF_vars(IrqEnter)

FairSpec == Spec /\ Fairness
-----------------------------------------------------------------------------
(* Correctness                                                              *)

\* Every variable keeps its type.
TypeOK ==
    /\ list \in [ListName -> Seq(Proc)]
    /\ stat \in [Pid -> {"READY", "SLEEPING"}]
    /\ token \in [Sem -> Nat]
    /\ current \in Pid
    /\ lock_count \in Nat
    /\ locked \in [Pid -> Nat]
    /\ lock_flag \subseteq {"irq", "sleep"}
    /\ IFlag \in {0, 1}
    /\ tf \in [Pid -> {0, 1}]
    /\ pc \in [Pid -> Label]
    /\ intr_flag \in [Pid -> {0, 1}]
    /\ child \in [Pid -> Pid]
    /\ todo \in Seq(Sem)
    /\ panic \in {"none", "wakeup", "create_kthread"}

\* No PCB is ever on two lists, or twice on one: list_del in one process and
\* an interrupt's wakeup never tear a list (sleep_sem, wakeup, create_kthread).
NoSharing ==
    /\ \A l \in ListName : IsInjective(list[l])
    /\ \A k, l \in ListName : k # l => Range(list[k]) \cap Range(list[l]) = {}

\* No PCB is ever off all lists, and its stat says which kind of list it is on:
\* READY on ready (and in a fresh PCB on free), SLEEPING on block and on the
\* queues of the semaphores.
StatMatchesList ==
    \A p \in Proc :
        IF stat[p] = "READY" THEN p \in Range(list["ready"]) \cup Range(list["free"])
        ELSE \E l \in Sem \cup {"block"} : p \in Range(list[l])

\* The lists of PCBs are sound after every step of every process and handler.
ListIntegrity == NoSharing /\ StatMatchesList

\* P never sleeps on a unit that is there, and V never banks a unit while a
\* process waits for it: no wakeup is lost.
NoLostUnit == \A s \in Sem : token[s] > 0 => list[s] = <<>>

\* A process that waits executes nothing beyond its int $0x80: if V has not
\* handed it a unit, P does not return, whatever interrupts hit sleep_sem
\* between its unlock() and its int $0x80.
WaitersStop ==
    \A p \in Proc :
        /\ (\E s \in Sem : p \in Range(list[s])) =>
              pc[p] \in {"S_unlock", "S_int", "P_cli"}
        /\ current = p /\ ~InIrq /\ stat[p] = "SLEEPING" =>
              pc[p] \in {"S_unlock", "S_int", "Z_unlock", "Z_int"}

\* How many lock() calls a process has not matched at each label.
Depth(l) ==
    CASE l \in {"S_unlock", "W_unlock"} -> 2
      [] l \in {"P_unlock", "S_int", "P_cli", "V_unlock", "Z_unlock", "K_unlock",
                "C_unlock"} -> 1
      [] OTHER -> 0

\* lock_count is the current process's own nesting depth, although it is one
\* global counter that every process and handler changes: irq_handle saves and
\* restores it with the process.
LockBalance ==
    /\ lock_count = Depth(pc[current])
    /\ \A p \in Pid \ {current} : locked[p] = Depth(pc[p])

\* A process loses the CPU only between two operations, in sleep_sem and sleep
\* after their unlock(), after wakeup in V and before the end of create_kthread:
\* never while it changes a list or a token.  It gets the CPU back with
\* interrupts enabled.
PreemptionPoints ==
    \A p \in Proc :
        /\ p # current /\ p \notin Range(list["free"]) =>
              /\ pc[p] \in {"run", "S_int", "P_cli", "V_unlock", "Z_int", "K_tail"}
              /\ tf[p] = 1
        /\ p = current /\ ~InIrq /\ panic = "none" /\ pc[p] = "run" => IFlag = 1

\* assert(p->stat == STAT_SLEEPING) in wakeup never fails, whether V is called
\* by a process or by an interrupt handler.
WakeupAssertHolds == panic # "wakeup"

(* The strengthening that makes these invariants inductive.                 *)

\* A PCB on the free list has not run: its fields are as init_proc left them.
FreeFresh ==
    \A p \in Range(list["free"]) :
        p # current /\ pc[p] = "run" /\ locked[p] = 0

\* The thread a process has created and not woken yet waits on block, ready to
\* start at its first instruction, and belongs to that process alone.
ChildWaits ==
    \A p \in Pid :
        child[p] # 0 =>
          /\ child[p] \in Range(list["block"])
          /\ child[p] # current
          /\ \A q \in Pid : child[q] = child[p] => q = p

\* Where IF is 0 and where it is 1, by the label of the current process; on the
\* way to sleep the flag that makes unlock() execute sti is set.
IntrDiscipline ==
    current # Idle /\ panic = "none" =>
      /\ InIrq => /\ pc[current] \in {"run", "S_int", "P_cli", "V_unlock", "Z_int", "K_tail"}
                  /\ tf[current] = 1
      /\ ~InIrq /\ pc[current] \in {"P_unlock", "S_unlock", "W_unlock", "Z_unlock",
                                    "K_unlock", "C_unlock"} => IFlag = 0
      /\ ~InIrq /\ pc[current] \in {"run", "S_int", "Z_int", "K_tail"} => IFlag = 1
      /\ ~InIrq /\ pc[current] = "S_unlock" => "sleep" \in lock_flag

IInv ==
    /\ TypeOK
    /\ ListIntegrity
    /\ NoLostUnit
    /\ WaitersStop
    /\ LockBalance
    /\ PreemptionPoints
    /\ WakeupAssertHolds
    /\ FreeFresh
    /\ ChildWaits
    /\ IntrDiscipline

\* Round robin starves nobody: a process on the ready list gets the CPU, even
\* though schedule() goes back to the head of the list, past the processes
\* whose turn was next, whenever the current process sleeps.
NoStarvation ==
    \A p \in Proc :
        p \in Range(list["ready"]) ~> (current = p \/ panic # "none")

\* What the comment "It is going to sleep" in unlock says of the flag: it makes
\* unlock execute sti inside a nested lock() only for a process on its way to
\* sleep.  But the flag stays set while the sleeper is switched out.
NestedUnlockKeepsCli ==
    [][\A l \in Label : UnlockAt(l, pc'[current]) /\ lock_count' > 0 /\ IFlag' = 1
          => stat[current] = "SLEEPING"]_vars

\* The semaphores the clients see: P and V are atomic and FIFO.
S == INSTANCE Semaphore
        WITH Value <- [s \in Sem |-> IF s \in RawSem THEN 0 ELSE InitToken[s]],
             waiters <- [s \in Sem |-> list[s]]

\* P and V, with sleep_sem, wakeup and the scheduler under them, implement
\* atomic FIFO semaphores.
SemaphoreSpec == S!SemSpec
=============================================================================
