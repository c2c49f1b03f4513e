-------------------------------- MODULE Boot --------------------------------
(***************************************************************************)
(* init_driver() and the end of os_init_cont (drivers/drivers.c, main.c)   *)
(* with interrupts: the first create_kthread() enables them (unlock() of   *)
(* lock.c executes sti), so the boot context is interrupted and preempted  *)
(* by the threads it has woken while it still builds what they use.  The   *)
(* init functions are sequences of instructions; an interrupt may come     *)
(* between any two.  The calendar is module Clock.                         *)
(***************************************************************************)
EXTENDS Clock, Lists

CONSTANTS NR_TTY,  \* 4
          HZ,      \* ticks a second
          BANNER,  \* HZ / 10
          MaxIrq   \* bound: interrupts

Idle == "idle" \* the boot context, pid 0

ASSUME BootAssumption ==
    /\ NR_TTY \in 1..4
    /\ {HZ, BANNER} \subseteq Nat \ {0} /\ MaxIrq \in Nat
    /\ {Idle, "ttyd"} \subseteq Reader

Getty == [i \in 1..NR_TTY |-> <<"getty1", "getty2", "getty3", "getty4">>[i]]
Ttys == [i \in 1..NR_TTY |-> <<"tty1", "tty2", "tty3", "tty4">>[i]]
Server == {"timer", "ttyd", "ide", "mem", "kmem", "null", "zero", "random", "ram", "fm", "mm", "pm"}
Thread == Server \cup Range(Getty)

VARIABLES
    bpc,           \* the instruction the boot context executes next
    IFlag,         \* IF
    current, ready, \* as in the scheduler
    waiting,       \* threads blocked in receive()
    inbox,         \* msg_list of every thread, and of pid 0
    pid,           \* TIMER, TTY, IDE, ...: the thread, or Idle while it is still 0
    handles,       \* the handlers of each interrupt, in the order they are called
    devices,       \* the device list of hal.c
    current_consl, \* whether it points to a console
    tty_idx, tty,  \* getty.c: the counter, and which name each getty has made
    jiffy, counter, \* modulo HZ: of timer.c, and time_intr's of ide.c
    irqs,          \* interrupts so far
    null_consl,    \* history: the messages ttyd handled while current_consl was NULL
    unknown        \* history: gettys whose device was not found: assert(dev != NULL)

sysVars == <<current, ready, waiting, inbox>>
ttyVars == <<tty_idx, tty, null_consl, unknown>>
tickVars == <<jiffy, counter, irqs>>
bootVars == <<bpc, IFlag, pid, handles, devices, current_consl>>
machineVars == <<sysVars, ttyVars, tickVars, bootVars, clockVars>>

-----------------------------------------------------------------------------
(* What the boot context executes                                           *)

create(th) == <<<<"create", th>>>>
publish(th) == <<<<"pid", th>>>>
wakeup(th) == <<<<"wakeup", th>>>>
hal_register(dev, th) == <<<<"register", dev, th>>>>
add_irq_handle(irq, f) == <<<<"irq", irq, f>>>>

\* From the second init_rt on: the first has set rt (ClockInit).
init_timer ==
    add_irq_handle(0, "update_jiffy") \o create("timer") \o publish("timer") \o wakeup("timer")
    \o hal_register("timer", "timer") \o <<<<"init_rt">>>>

Consoles == [i \in 1..NR_TTY |-> <<"register", Ttys[i], "ttyd">>]

\* Mutant: the handler is installed before the console is chosen.
init_console_irq_first ==
    Consoles \o add_irq_handle(0, "send_updatemsg") \o <<<<"current_consl">>>>

init_console == Consoles \o <<<<"current_consl">>>> \o add_irq_handle(0, "send_updatemsg")

\* wakeup(create_kthread(getty)), NR_TTY times
init_getty == [k \in 1..(2 * NR_TTY) |-> IF k % 2 = 1 THEN <<"create", Getty[(k + 1) \div 2]>>
                                         ELSE <<"wakeup", Getty[k \div 2]>>]

ttyd == add_irq_handle(1, "send_keymsg") \o create("ttyd") \o publish("ttyd") \o wakeup("ttyd")

\* Mutant: the gettys are started before there are consoles.
init_tty_getty_first == ttyd \o init_getty \o init_console

init_tty == ttyd \o init_console \o init_getty

\* Mutant: the device is registered before the driver's pid is stored.
init_device_early(dev) == create(dev) \o hal_register(dev, dev) \o publish(dev) \o wakeup(dev)

\* init_mem, init_kmem, init_null, init_zero, init_ramdisk
init_device(dev) == create(dev) \o publish(dev) \o hal_register(dev, dev) \o wakeup(dev)

init_ide == add_irq_handle(0, "time_intr") \o init_device("ide")

init_random ==
    create("random") \o publish("random") \o hal_register("random", "random")
    \o <<<<"srand">>>> \o wakeup("random")

\* init_fm, init_mm, init_pm
init_service(th) == create(th) \o publish(th) \o wakeup(th)

\* create_process(1) follows sti(), which changes nothing by then.
Program ==
    init_timer \o init_tty \o init_ide
    \o init_device("mem") \o init_device("kmem") \o init_device("null") \o init_device("zero")
    \o init_random \o init_device("ram")
    \o init_service("fm") \o init_service("mm") \o init_service("pm")
    \o <<<<"create_process">>>>

-----------------------------------------------------------------------------
(* Messages and the scheduler                                               *)

\* send(): s holds the mailboxes, the ready list and the blocked threads.
Send(s, dest, m) ==
    [inbox |-> [s.inbox EXCEPT ![dest] = Append(@, m)],
     ready |-> IF dest \in s.waiting THEN Append(s.ready, dest) ELSE s.ready,
     waiting |-> s.waiting \ {dest}]

System == [inbox |-> inbox, ready |-> ready, waiting |-> waiting]
Becomes(s) == inbox' = s.inbox /\ ready' = s.ready /\ waiting' = s.waiting

schedule(cur, list) ==
    IF list = <<>> THEN Idle
    ELSE IF cur \notin Range(list) THEN Head(list)
    ELSE list[((CHOOSE k \in DOMAIN list : list[k] = cur) % Len(list)) + 1]

-----------------------------------------------------------------------------
(* The boot context                                                         *)

Instr == Program[bpc]
At(op) == current = Idle /\ bpc <= Len(Program) /\ Instr[1] = op

do_create ==
    /\ At("create")
    /\ IFlag' = 1
    /\ bpc' = bpc + 1
    /\ UNCHANGED <<sysVars, ttyVars, tickVars, pid, handles, devices, current_consl, clockVars>>

do_publish ==
    /\ At("pid")
    /\ pid' = [pid EXCEPT ![Instr[2]] = Instr[2]]
    /\ bpc' = bpc + 1
    /\ UNCHANGED <<sysVars, ttyVars, tickVars, IFlag, handles, devices, current_consl, clockVars>>

do_wakeup ==
    /\ At("wakeup")
    /\ ready' = Append(ready, Instr[2])
    /\ bpc' = bpc + 1
    /\ UNCHANGED <<current, waiting, inbox, ttyVars, tickVars, IFlag, pid, handles, devices,
                   current_consl, clockVars>>

\* The list has room for all devices, and their names differ.
do_hal_register ==
    /\ At("register")
    /\ devices' = Append(devices, [name |-> Instr[2], pid |-> pid[Instr[3]]])
    /\ bpc' = bpc + 1
    /\ UNCHANGED <<sysVars, ttyVars, tickVars, IFlag, pid, handles, current_consl, clockVars>>

\* The new handler is called first.  The pool has room for all.
do_add_irq_handle ==
    /\ At("irq")
    /\ handles' = [handles EXCEPT ![Instr[2]] = <<Instr[3]>> \o @]
    /\ bpc' = bpc + 1
    /\ UNCHANGED <<sysVars, ttyVars, tickVars, IFlag, pid, devices, current_consl, clockVars>>

do_current_consl ==
    /\ At("current_consl")
    /\ current_consl' = TRUE
    /\ bpc' = bpc + 1
    /\ UNCHANGED <<sysVars, ttyVars, tickVars, IFlag, pid, handles, devices, clockVars>>

\* init_rt and its twelve steps
do_init_rt ==
    /\ At("init_rt")
    /\ init_rt \/ init_rt_field
    /\ bpc' = IF setting' = 0 THEN bpc + 1 ELSE bpc
    /\ UNCHANGED <<sysVars, ttyVars, tickVars, IFlag, pid, handles, devices, current_consl>>

\* srand() calls get_time()
do_srand ==
    /\ At("srand")
    /\ get_time(Idle)
    /\ bpc' = IF copied'[Idle] = SECOND THEN bpc + 1 ELSE bpc
    /\ UNCHANGED <<sysVars, ttyVars, tickVars, IFlag, pid, handles, devices, current_consl>>

do_create_process ==
    /\ At("create_process")
    /\ Becomes(Send(System, pid["pm"], "PM_NEW_PROC"))
    /\ bpc' = bpc + 1
    /\ UNCHANGED <<current, ttyVars, tickVars, IFlag, pid, handles, devices, current_consl, clockVars>>

boot ==
    \/ do_create \/ do_publish \/ do_wakeup \/ do_hal_register \/ do_add_irq_handle
    \/ do_current_consl \/ do_init_rt \/ do_srand \/ do_create_process

-----------------------------------------------------------------------------
(* The threads, as far as they matter here                                  *)

\* receive(ANY) with an empty mailbox: the thread sleeps, another one runs.
Blocks(th) ==
    /\ ready' = Unlink(ready, th)
    /\ waiting' = waiting \cup {th}
    /\ current' = schedule(th, ready')
    /\ UNCHANGED <<inbox, ttyVars, tickVars, bootVars, clockVars>>

\* A driver or service handles a message.  ttyd uses current_consl for a key and
\* for the banner, which calls get_time() first.
Handles(th) ==
    LET banner == th = "ttyd" /\ Head(inbox[th]) = "MSG_TTY_UPDATE"
    IN  /\ IF banner THEN get_time("ttyd") ELSE UNCHANGED clockVars
        /\ IF banner /\ copied'["ttyd"] # SECOND THEN UNCHANGED <<inbox, null_consl>>
           ELSE /\ inbox' = [inbox EXCEPT ![th] = Tail(@)]
                /\ null_consl' = IF Head(inbox[th]) \in {"MSG_TTY_UPDATE", "MSG_TTY_GETKEY"} /\ ~current_consl
                                 THEN null_consl \cup {Head(inbox[th])} ELSE null_consl
        /\ UNCHANGED <<current, ready, waiting, tty_idx, tty, unknown, tickVars, bootVars>>

serve(th) ==
    /\ current = th /\ th \in Server
    /\ IF inbox[th] = <<>> THEN Blocks(th) ELSE Handles(th)

\* name[3] += (tty_idx ++), between lock() and unlock()
NextTty == tty_idx + 1

\* The getty makes its device's name, then dev_read() looks it up and asks.
getty(g) ==
    /\ current = g /\ g \in Range(Getty)
    /\ \/ /\ tty[g] = 0
          /\ tty' = [tty EXCEPT ![g] = tty_idx]
          /\ tty_idx' = NextTty
          /\ UNCHANGED <<sysVars, null_consl, unknown, tickVars, bootVars, clockVars>>
       \/ /\ tty[g] # 0
          /\ LET found == SelectInSeq(devices, LAMBDA d : d.name = Ttys[tty[g]])
                 s == [System EXCEPT !.ready = Unlink(@, g), !.waiting = @ \cup {g}]
             IN  IF found = 0 THEN Becomes(s) /\ unknown' = unknown \cup {g}
                 ELSE Becomes(Send(s, devices[found].pid, "DEV_READ")) /\ UNCHANGED unknown
          /\ current' = schedule(g, ready')
          /\ UNCHANGED <<tty_idx, tty, null_consl, tickVars, bootVars, clockVars>>

-----------------------------------------------------------------------------
(* Interrupts                                                               *)

\* What a handler sends, if anything; n is jiffy as the handler finds it.
Sends(f, n) ==
    CASE f = "update_jiffy" -> {<<"timer", "UPDATE_TIMER">>}
      [] f = "send_updatemsg" -> IF n % BANNER = 0 THEN {<<"ttyd", "MSG_TTY_UPDATE">>} ELSE {}
      [] f = "time_intr" -> IF (counter + 1) % HZ = 0 THEN {<<"ide", "IDE_WRITEBACK">>} ELSE {}
      [] f = "send_keymsg" -> {<<"ttyd", "MSG_TTY_GETKEY">>}

\* irq_handle() calls the handlers one by one, of which there are at most three.
\* update_jiffy was the first to be added and is the last to be called, so the
\* others find the old jiffy.
irq_handle(irq) ==
    LET Out(k) == IF k \in DOMAIN handles[irq] THEN Sends(handles[irq][k], jiffy) ELSE {}
        Call(s, k) == IF Out(k) = {} THEN s
                      ELSE LET m == CHOOSE m \in Out(k) : TRUE IN Send(s, pid[m[1]], m[2])
        after == Call(Call(Call(System, 1), 2), 3)
    IN  /\ Becomes(after)
        /\ current' = schedule(current, after.ready)

\* The timer's interrupt
tick ==
    /\ IFlag = 1 /\ irqs < MaxIrq
    /\ irq_handle(0)
    /\ irqs' = irqs + 1
    /\ jiffy' = (jiffy + 1) % HZ
    /\ counter' = IF "time_intr" \in Range(handles[0]) THEN (counter + 1) % HZ ELSE counter
    /\ IF jiffy' = 0 THEN update_rt ELSE UNCHANGED clockVars
    /\ UNCHANGED <<ttyVars, bootVars>>

\* The keyboard's interrupt
key ==
    /\ IFlag = 1 /\ irqs < MaxIrq
    /\ irq_handle(1)
    /\ irqs' = irqs + 1
    /\ UNCHANGED <<ttyVars, jiffy, counter, bootVars, clockVars>>

-----------------------------------------------------------------------------
BootInit ==
    /\ ClockInit
    /\ bpc = 1 /\ IFlag = 0
    /\ current = Idle /\ ready = <<>> /\ waiting = {}
    /\ inbox = [th \in Thread \cup {Idle} |-> <<>>]
    /\ pid = [th \in Server |-> Idle]
    /\ handles = [irq \in {0, 1} |-> <<>>]
    /\ devices = <<>> /\ current_consl = FALSE
    /\ tty_idx = 1 /\ tty = [g \in Range(Getty) |-> 0]
    /\ jiffy = 0 /\ counter = 0 /\ irqs = 0
    /\ null_consl = {} /\ unknown = {}

\* The idle loop, when the interrupts of the bound are used up.
idle_loop == current = Idle /\ bpc > Len(Program) /\ UNCHANGED machineVars

BootNext ==
    \/ boot \/ tick \/ key \/ idle_loop
    \/ \E th \in Thread : serve(th) \/ getty(th)

BootSpec == BootInit /\ [][BootNext]_machineVars

-----------------------------------------------------------------------------
(* Correctness                                                              *)

\* Every getty opens a console of its own, and finds it: assert(dev != NULL) of
\* dev_rw holds however early the gettys run.
GettysOwnTheirConsoles ==
    /\ unknown = {}
    /\ \A g, h \in Range(Getty) : tty[g] # 0 /\ tty[g] = tty[h] => g = h

\* The banner is drawn only when there is a console to draw it on: the handler that
\* asks for it is installed last.  A key may come earlier: ttyd already runs, and
\* readkey() then uses a null current_consl.
OnlyKeysComeEarly == null_consl \subseteq {"MSG_TTY_GETKEY"}

Accepts ==
    [th \in Server |-> CASE th = "timer" -> {"UPDATE_TIMER"}
                         [] th = "ttyd" -> {"MSG_TTY_UPDATE", "MSG_TTY_GETKEY", "DEV_READ"}
                         [] th = "ide" -> {"IDE_WRITEBACK"} [] th = "pm" -> {"PM_NEW_PROC"}
                         [] OTHER -> {}]

\* Whatever is registered is served by the thread that was created for it, and no
\* thread gets a message its switch would assert on; what handlers send before their
\* driver has a pid goes to pid 0, and nothing else does.
MessagesReachTheirServers ==
    /\ \A k \in DOMAIN devices :
          devices[k].pid = IF devices[k].name \in Range(Ttys) THEN "ttyd" ELSE devices[k].name
    /\ \A th \in Server : Range(inbox[th]) \subseteq Accepts[th]
    /\ Range(inbox[Idle]) \subseteq {"UPDATE_TIMER", "MSG_TTY_GETKEY", "IDE_WRITEBACK"}

\* The calendar of a booting machine is the one of module Clock.
CalendarSpec == ClockSpec
=============================================================================
