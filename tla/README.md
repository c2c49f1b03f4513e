# A TLA+ model of NanoOS

NanoOS is a small teaching kernel for one x86 CPU: kernel threads, semaphores, message
passing, and drivers and servers that are threads talking by messages. What is hard to
test in it is what interrupts do: they arrive between almost any two instructions, call
the same `send` and `V` as threads do, and are the only way a thread loses the CPU.
This directory models that core, the message layer over it, the drivers, the terminals, the
services with the page tables they build, and the start of the system. TLC checks all of it
on small machines. TLAPS proves every safety property of the passing runs for every machine;
what remains for TLC alone is liveness.

## The system

| Part (under `src/src/kernel`) | State | Operations | Interacts with |
|---|---|---|---|
| lists, `include/adt/list.h` | rings of `ListHead` | add, del, foreach | every part with a list |
| locks, `process/lock.c` | `lock_count`, `lock_flag`, `EFLAGS.IF`, semaphores | lock, unlock, P, V, create_sem | interrupts, scheduler |
| processes, `process/util.c`, `schedule.c` | PCB pool; lists ready, block, free, one per semaphore; `current` | create_kthread, sleep, sleep_sem, wakeup, schedule | locks, interrupts |
| interrupts, `irq/` | trap frame, handler chains | entry, handlers, switch at exit | all |
| messages, `process/message.c` | `msg_pool`, `p_free`, a list and a semaphore per process | send, receive | P and V; handlers send |
| self tests, `process/util.c`, `main.c` | the ring buffer, the message ring | producers, consumers, A to E, test_timer | semaphores, messages |
| disk driver, `drivers/ide` | sector cache, the disk's command | read, write, write-back, interrupts | messages, timer |
| timer driver, `drivers/timer` | alarms, jiffy, calendar | set_timer, run_timers, update_jiffy | messages |
| device registry, `drivers/hal.c` | device list | register, get, dev_rw | messages |
| terminals, `drivers/tty` | line, cooked ring, stack of readers | keys, reads, writes | messages, keyboard |
| services, `service/` | files, address spaces | new process, new file, new pages | messages, RAM disk, page tables |
| RAM and character devices, `drivers/ram`, `drivers/others` | the RAM disk, memory | read, write | messages |
| paging, `memory/` | page directories and tables | init_page, the tables of a process | services |
| start, `main.c`, `drivers/drivers.c` | pids, handlers, devices | init_driver, os_init_cont | interrupts, every driver |
| trap setup, boot loader, library | hardware tables | once, at boot | none |

What can go wrong is listed as `hazards` in `PROJECT.json`, each at its line: unlocked
copies in `send` and `receive`, global lock state across switches, the window between
`unlock` and `int $0x80` in `sleep_sem`, a ring of message slots that laps, messages
dropped while a driver waits, tables without a bound, a line edited in two places, a boot
context that is interrupted while it builds what the handlers use.

## Modules

    Lists  <-  ListProofs                      list operators and lemmas
    Semaphore                                  what P and V promise
    Kernel  <-  MCKernel, MCKernelLive         the core; implements Semaphore
    ProdCons                                   the semaphore test
    Message  <-  MsgRing                       messages; the message test
    ByteStore                                  what the disk driver promises
    Ide  <-  IdeProofs                         the disk driver; implements ByteStore
    Timer                                      the alarms
    Clock  <-  Boot  <-  MCBoot                the calendar; the start of the system
    Paging  <-  Services  <-  MCServices       page tables; services, devices, processes
    Services  <-  ServicesServers  <-  ServicesProofs
    Terminal                                   what the terminals promise
    Tty  <-  TtyProofs                         the terminals; implements Terminal
    Screen                                     the screen of a console
    Boot, Message  <-  BootMessageProofs
    ProdCons, Timer  <-  ProdConsTimerProofs
    Screen, Kernel  <-  KernelScreenProofs

The last three hold the proofs about two specifications each, which share no constant and no
variable; nothing is composed there. Where one of the two would clash with the other it has
a longer name: `TimerInit`, `BootSpec`, `screenVars`.

`Lists` defines the few operators of SequencesExt the models need with the meaning they have
there: SequencesExt extends Bags, and the theorems of Bags would be in the context of every
proof.

Each layer is checked against the promise of the one below: Kernel implements Semaphore
(proved), so ProdCons and Message use P and V as atomic steps; the drivers and services use
mailboxes that deliver in order, which Message proves of `send` and `receive` except for the
two accidents described below.

**Kernel.** A step is the longest piece of code in which neither an `sti` nor a trap
happens: `lock()` with the updates under it, each `unlock()`, each `int $0x80`, trap
entry, each handler's `V`, and the way from the end of the handlers to `iret`. `list`
holds every list of PCBs, `pc` the label of each process, `tf` and `locked` what is saved
of it. Clients are open: a process at `run` may call any operation. `RawSem` is the
message semaphore of pid 0, which nobody creates: `V` on it follows a null pointer, which
`wakeup`'s range check stops. Interrupt handlers are sequences of `V`s (`IrqWork`).
A PCB's registers, stack and page directory are left out.

**Message.** `send` is copy, link, `V`; `receive` is `P`, then take or scan, then the
copy out. Handlers send in one step because nothing interrupts them. A message is its
sender. The history variables `sent`, `due`, `since`, `raced`, `lapped` say what should
be received and which of the two known accidents has happened.

**Ide.** One thread; `pc` says whether it is in its main loop (`receive`), between two
bytes of a request, in one of the two waits of `cache_fetch`, or in `cache_writeback`.
The disk holds one command and answers it with `IDE_READY`.

**Timer.** `expire` counts the ticks still missing, so `jiffy` is not bounded.
`run_timers` goes through the table one entry a step, so that ticks and requests come
in the middle of it.

**Clock.** A time is the tuple of its fields. `update_rt` is the carry in `update_jiffy`, in
the code's order; `init_rt` and `get_time` take a step per field, so that the interrupt hits
them half done. `init_rt` takes the hour from the day's register, and the day is carried
when it reaches the length of the month, so the last day of a month is never shown; both are
modelled as they are.

**Boot.** `create_kthread` calls `unlock`, which executes `sti`; so from the first thread on
`init_driver` runs with interrupts and is preempted by the threads it wakes. The boot context
is a sequence of instructions (create, publish the pid, wake, register, install a handler)
and an interrupt may come between any two. Messages to a pid that is still 0 go to the
idle process. The threads run from one `receive` to the next; what ttyd does with a null
`current_consl` is recorded, not followed. `hal_get` is the first device of that name.

**Paging.** Directories and tables as functions. An address is its directory and table
index; the offset in a page passes through unchanged and is left out. A physical page is its
4 MB region and its index there.

**Services.** Each thread runs from one `receive` to the next in a step, because in between
it touches nothing another thread uses. PM's `do_new_proc` waits for FM or MM at five places
(`pm.pc`), two of them once per segment; others are served in between. Memory is kept page by page,
with its content one of `elf`, `zero`, `data` and so on. A user process writes to its own bss
through its own page tables (`testproc`). The machine may stop: `illegal elf` in PM, a
file FM does not find, and the end of FM's table, which has no check.

**Tty.** Nobody but `ttyd` touches a console, so it handles a message in one step; what
interleaves are keys, the timer, the gettys and their messages. The keyboard controller
gives its next scan code when the last one has been read. Which key it is shows only in
`readkey`, so each key is an action; shift, caps and the table of characters are a choice
from `Ch`. A line is the string up to its NUL, the ring keeps `cbuf`, `f` and `r`.

**Screen.** One console: `vbuf`, `scr` and `pos`, with the line that is edited in `lbuf` and
in `vbuf`. A cell holds a character of that line or anything else. `upset` is a history
variable: output came in the middle of a line, or Enter right behind the window, and no
line has begun in the window since. Consoles lie one behind the other in memory, so the
cell after the buffer is the next console's first one; `consl_accept` may write it.

## Runs

| Run | Machine | Shows |
|---|---|---|
| `kernel` | idle and 3 PCBs, 2 semaphores and a raw one, handlers with 0 to 2 `V`s, fair | sound lists, no lost unit, waiters stop, lock depth, preemption points, no failed assertion in `wakeup`; implements `Semaphore`; no ready process starves |
| `sleep_flag` | the same with 1 semaphore | *violation*: a nested `unlock` enables interrupts for a process that is not going to sleep |
| `prodcons` | 2 producers, 2 consumers, ring of 2 | exclusion, order of products, slots conserved, nobody starves |
| `message` | 2 processes and a handler, 2 slots | units match messages; delivery as sent but for the race and the lap; `receive(src)` finds its message |
| `message_ring` | A to E and the timer, 8 slots | *violation*: `assert(0)` in E is reached |
| `services` | 2 calls of `create_process`, a tester of FM and one of any device, 3 PCBs, 3 files | programs are where their process looks for them; address spaces are disjoint and share the kernel; tables are not overrun; tests get their data; every request starts a process |
| `boot` | 2 consoles, 3 interrupts anywhere, two CMOS times | every getty finds its own console; only keys come before there is a console; messages reach their servers; dates are valid, copies never ahead |
| `ide` | 2 clients, 1 cache slot, 2 sectors of 1 byte, fair | bytes are never lost or mixed up (implements `ByteStore`); no interrupt leaks; every request is answered |
| `ide_writeback` | 2 clients, 2 slots, 3 sectors | *violation*: a dirty sector may never be written back |
| `timer` | 3 clients, 2 alarms | each alarm rings once, not early, and always; the table's limit |
| `tty` | 2 consoles, lines of 2, ring of 4, 5 keys | one message per key; no reader waits while there is a line; every line is read, whole and in order: implements `Terminal` |
| `screen` | 3 by 3 cells, buffer of 6 rows, lines of 4 | the line shown is the line edited; where the cursor can be |

Every property of a passing run is broken by a mutant (a definition marked `Mutant` that
changes the code the way a slip would), so none holds by the shape of the model.

**Bounds.** Three processes beside idle are enough for a sleeper, its waker and a
bystander, with a free PCB left to be created. `MaxToken` and `MaxQueue` stop clients
from calling `V` or `send` without end. Two message slots make laps happen at once; the
ring test has eight so that none does. One cache slot for two sectors makes every change
of sector an eviction, and requests of two bytes cross sectors; that larger sectors, written
in part, keep their bytes is proved. Two alarms for three clients reach the limit. `MaxPending` bounds unread ticks.
`Val`, `MaxLen`, `MaxSec` bound what clients ask for. `MaxKeys` bounds what is typed: five
keys on a ring of four wrap it and fill it. A screen of nine cells is the least that holds
a row and a line (`ScreenAssumption`, true of 80 by 24 and 256), so lines scroll it.
In `services` two requests (`MaxAsked`) and three files let FM's table be outrun by a test;
the program has a segment from the file, one of bss only and an empty one; the page tables
have 12 and 2 entries and keep the order of the real ones (`PagingAssumption`). In `boot`
`MaxIrq` is 3, so that one interrupt can hit the other's work; a tick is a second, and the
CMOS times, 2015-12-30 23:59:59 and 2016-02-28 23:59:58, carry into a year and a leap day.

**Fairness.** A process inside an operation takes its next step, a handler reaches its
`iret`, boot reaches its `sti`; the timer's interrupt stays latched in the 8259 until IF
is 1, however briefly, hence strong fairness for `IrqEnter`. That gives `NoStarvation`,
which in turn justifies weak fairness per thread in the modules above it. The disk
finishes its command, and the timer ticks. In Services only the threads a new process needs
(PM, FM, MM, the RAM disk) are assumed to run. No client is ever obliged to make a call, and
no key to be pressed. `services`, `message_ring`, `tty` and `screen` do not check for deadlock: there the
machine may have nothing left to do, or have stopped.

## What the violations say

* `send` copies into `msg_pool[p_free]` before it takes the lock (`message.c:15`). A
  handler's `send` in between uses the same slot and moves `p_free` on; the interrupted
  `send` then links the next slot with whatever is in it. In the ring test E then sees a
  sender that is none of A to D and fails `else assert(0);` (`util.c:146`).
* Bit 1 of `lock_flag`, "It is going to sleep" (`lock.c:17`), is global and stays set while
  the sleeper is switched out. Another process's inner `unlock` then executes `sti` with
  its outer lock still held. `PreemptionPoints` lists the places where a process can
  therefore lose the CPU; with the core's own operations none is in the middle of an update.
* `disk_do_read` and `disk_do_write` drop each `IDE_WRITEBACK` that comes during a
  transfer (`disk.c:45`, `disk.c:65`), against "writeback cache for every 1 second" (`ide.c:6`).

## Proofs

Each proof module proves, for every value of the constants its module's `ASSUME` allows, what
its run checks on a small machine, except liveness. Most leaves are set reasoning, so most
proof modules make Zenon the default (`USE Zenon`), and a leaf that needs arithmetic names SMT.

**Kernel** (`KernelScreenProofs`). Proved, for any number of PCBs, any semaphores and any
handlers: every invariant of the run `kernel`, and that `Kernel` implements `Semaphore`. The
assumptions are those of `KernelAssumption`.

The invariants are not inductive one by one: that a waiter is SLEEPING rests on the lists
being disjoint, this on nobody being interrupted in the middle of an update, and this on
the lock depth. `IInv` is their conjunction with three more facts: PCBs on the free list
are as `init_proc` left them (`FreeFresh`); a created thread waits on `block` and belongs to
its creator (`ChildWaits`); IF is known at each label (`IntrDiscipline`). One lemma per
action shows that it preserves `IInv`. `ListProofs` has the lemmas on lists: what
`Unlink` and `Append` do to the elements and to injectivity.

For the refinement a step that moves a process between `ready`, `block` and `free` leaves
every semaphore's queue as it was, because the process was on none; `P_sleep` appends to
one queue and `V_wake` takes the head of one.

**Ide** (`IdeProofs`). Proved: every invariant of the run `ide`, and that `Ide` implements
`ByteStore`, for any disk, cache, period and number of clients (`IdeAssumption`). Its `IInv` adds
what the waits rest on. The disk has a command, or its `IDE_READY` is in the mailbox,
exactly while the driver waits (`Handshake`), and no message but `IDE_WRITEBACK` is there
twice (`Mailbox`), so a wait ends with its own interrupt. What is being written is the
cached sector, and what is fetched into a slot replaces a sector already on the disk
(`Transfers`). For the refinement the bytes of the store are the cached ones, or the disk's
where nothing is cached: only `write_byte` changes them, and only at its offset, because
an offset is its sector and its place in it (`Geometry`).

**Message** (`BootMessageProofs`). Proved: `UnitsMatchMessages` and `DeliveredAsSent` for any
processes, pool and handlers. A process waits only for its own semaphore, and only while it has no units
(`WaitInv`), so units and messages agree. For delivery the ring must be known: a slot linked
`n` sends ago, `n` less than the pool, is `n` places before `p_free` (`AgeInv`), so `p_free` is
the oldest slot; until two sends race a sender copies to the slot it will link (`PickInv`);
a slot that is copied to and not linked is in no list (`FreshInv`). So only the race and the
lap can change a message that is on a list.

**ProdCons** (`ProdConsTimerProofs`). Proved: the three invariants of `prodcons` for any number
of threads, size of the ring and of the counter. Waiters stand at the label after their `P` (`WaitInv`); the mutex
is free or one thread has it (`MutexInv`); items and free slots, those held by threads
included, add up to `NBUF` (`SlotInv`); the ring holds consecutive products from the last one
consumed to the latest one made (`RingInv`). Hence the assertion of the test.

**Timer** (`ProdConsTimerProofs`). Proved: `OneAlarmEach` and `NeverEarly` for any table, clients
and `HZ`. A request is in the mailbox or in the table, once, while its client waits; the ticks an entry still
lacks are at least those its client is owed (`TimerInv`).

**Clock and Boot** (`BootMessageProofs`). Every step of `Boot` is a step of the calendar or
leaves it alone (`BootCalendar`), and from that `DateValid`, `NeverAhead` and that the time
goes back only in `init_rt` (`BootAdvances`), for any CMOS time with a valid month, day, minute
and second. `ClockInv` adds the ranges of the fields while `init_rt` has set only some of
them, that nobody copies meanwhile, and that a copied prefix is never ahead of the time.

The order of the start is proved for one to four consoles and any number of interrupts. The
heart is a fact about the program alone: every instruction of `init_driver` comes after those
it needs (`ProgramOrdered`): a device is registered after its thread has a pid, the banner's
handler installed after `current_consl` is set, a getty woken after every console is
registered. `BootInv` carries it through the interrupts: what has been executed is still there
(`ProgramInv`), only threads that were woken are ready, waiting or running, mailboxes hold
what their owner accepts (`SystemInv`), and the gettys have taken the names from 1 to
`tty_idx` - 1 (`GettyInv`). `GettysOwnTheirConsoles`, `OnlyKeysComeEarly` and
`MessagesReachTheirServers` follow.

**Services and Paging** (`ServicesServers`, `ServicesProofs`). Proved: every invariant of the
run `services`, for any number of processes, files, testers and tests, any program and any
memory laid out as `PagingAssumption` says. Assumed besides: MM's table and the PCBs have at
least as many entries as FM's table (`ServicesAssumption`; the code's have 16, 2048 and
8), the variables of the kernel are on pages of their own below the frames of the
processes (`PageOfAssumption`), the segments of the program are below the kernel and no two share
an index in the page table (`SegmentsAssumption`), and no test writes over the program on the RAM disk
(`TestsAssumption`), as those of `main.c` do not. `ServicesInv` is large because the threads
know little of each other. Every request is in one place, in the mailbox of its server, being
served by FM, or answered, and what a server finds in its mailbox is what its client asked
(`MailInv`); so the frame that is cleared or copied to is the one meant. The k-th address space
maps the k-th frames, belongs to at most one process that runs, and there are no more address
spaces than files (`SpaceInv`): hence `vmem_free` stays within MM's table, and the frames it
selects are those of the process being made and of no other. The hash lists are in
the order of creation (`FileInv`), so readers find the oldest file of a name. `ProgramInv` and
`TestInv` say what has been copied so far. Counting PCBs against address spaces also shows that
a PCB is free whenever PM makes a process (`PcbIsLeft`), which `create_kthread` asserts and
`pm_new_pcb` has as a guard.

**Tty** (`TtyProofs`). Proved: `OneMessagePerKey`, `ReadersWaitForInput` and that `Tty` implements
`Terminal`, for any consoles, line, ring and stack sizes. The cursor is within the line and
the line within its buffer (`LineInv`); every ring holds whole lines (`RingInv`), which is why
a read takes a line; a getty has one request, in the mailbox or on the stack of its own
console, and is on the stack only while the ring is empty (`GettyInv`). The constant
`READ_SZ` is assumed to hold a line, as getty's buffer does.

**Screen** (`KernelScreenProofs`). Proved: `LineOnScreen`, `CursorInWindow` and `ScreenTypeOK`,
for any width, height and length of a line such that the window holds a line and a row
(`ScreenAssumption`). The line on the screen is only safe while it lies inside the window, where
`scrup` neither blanks nor forgets it: `ScreenInv` adds that (`LineInWindow`), and that the
window starts on a row. The loop of `consl_accept` is the recursive function `Rounds`. That it
exists and what it computes, the rest of the line moved by one cell, scrolled at most in its
first round (`RoundsMoved`), is shown by looking at the least round that goes wrong (`Least`
in `ListProofs`). The step of the cursor behind it may scroll once more, and only with
the cursor on the last character of the line (`NextPlaced`).

**Only model-checked.** Liveness: `NoStarvation`, `EveryThreadProceeds`, `AskedForArrives`,
`RequestsAnswered`, `EveryAlarmRings`, `LinesAreRead` and `EveryRequestStarts`, since fairness
and ENABLED are out of the prover's reach.

## Not modelled

* The boot loader, the segments and the TSS, the gates and the interrupt controller:
  straight-line code that writes device registers and descriptors once.
* The library: `printk`, `string.c`, the serial port: formatting and byte loops. The text of
  the banner, and the numbers the random device gives.
* Which character a key gives: shift is counted and its lowest bit used, so two shift keys
  cancel out. It is a table of constants; any character of `Ch` may come.
* `jiffy` as a 32-bit counter: it wraps after months; Timer keeps the ticks still missing.
* What FM does after its table has been overrun: it writes memory it does not own. The run
  stops there. Its mutex is left out, since only FM's thread takes it.
* `read_mbr` and `hal_list`: one prints a sector it read as any client does, the other prints.
