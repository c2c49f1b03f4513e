------------------------------ MODULE Services ------------------------------
(***************************************************************************)
(* The system services (service/pm.c, fm.c, mm.c), the RAM disk and the    *)
(* memory-like devices (drivers/ram, drivers/others) as threads that serve *)
(* messages, the test threads of main.c that use them, and the user        *)
(* processes they start.  A step of a thread runs from one receive() to    *)
(* the next: in between it touches nothing that another thread uses.       *)
(* Mailboxes are what module Message promises while its pool is not        *)
(* lapped.  Memory is kept page by page; the segments of the embedded      *)
(* program fit a page each, so sizes are 0 or 1.                           *)
(***************************************************************************)
EXTENDS Paging, Lists, FiniteSets

CONSTANTS PM, FM, MM,    \* the services
          RAMDISK, DEV_NULL, DEV_ZERO, RANDOM, DEV_MEM, DEV_KMEM, \* the devices
          Tester, Tests, \* test threads, and the tests each may run
          Proc,          \* the PCBs of user processes
          Idle, ANY,
          Segments,      \* the program headers of the embedded program
          NR_MAX_FILE,   \* 8
          HASH_SIZE,     \* HASH_TABLE_SIZE = 4
          PageOf,        \* the page of PM's buf, of test_data and of each tester's buffer
          MaxAsked       \* bound: calls of create_process

Device == {RAMDISK, DEV_NULL, DEV_ZERO, RANDOM, DEV_MEM, DEV_KMEM}
Thread == Device \cup {PM, FM, MM} \cup Tester \cup Proc

ASSUME ServicesAssumption ==
    /\ NR_MAX_FILE \in Nat /\ HASH_SIZE \in Nat \ {0} /\ MaxAsked \in Nat
    /\ IsFiniteSet(Proc)
    /\ NR_MAX_FILE <= N_KERNEL_PTE /\ NR_MAX_FILE <= Cardinality(Proc)

\* The threads differ from each other and from what is not a thread.
ASSUME ThreadAssumption ==
    LET names == <<PM, FM, MM, RAMDISK, DEV_NULL, DEV_ZERO, RANDOM, DEV_MEM, DEV_KMEM,
                   Idle, ANY, "start", "done", "test_data">>
    IN  /\ \A j, k \in 1..14 : names[j] = names[k] => j = k
        /\ \A k \in 1..14 : names[k] \notin Tester \cup Proc
        /\ Tester \cap Proc = {}

\* The kernel's own data is below the frames of the processes.
ASSUME PageOfAssumption ==
    /\ PageOf \in [{PM, "test_data"} \cup Tester -> (0..(FRAME - 1)) \X Idx]
    /\ \A v, w \in DOMAIN PageOf : PageOf[v] = PageOf[w] => v = w

\* The program is linked below the kernel, and its segments share no page: a
\* process has one page table, whatever the directory entry.
ASSUME SegmentsAssumption ==
    /\ Segments \in Seq([vaddr : Dir \X Idx, filesz : {0, 1}, memsz : {0, 1}]) \ {<<>>}
    /\ \A k \in DOMAIN Segments :
          /\ Segments[k].filesz <= Segments[k].memsz
          /\ Segments[k].vaddr[1] - KOFFSET \notin 0..(KERNEL_PD - 1)
          /\ \A l \in DOMAIN Segments :
                Segments[k].memsz = 1 /\ Segments[l].memsz = 1 /\ Segments[k].vaddr[2] = Segments[l].vaddr[2]
                    => k = l

Job == [dev : Device \cup {FM}, op : {"new", "read", "DEV_READ", "DEV_WRITE"}, i : Nat]

\* The tests of main.c; none writes to the place of the program.
ASSUME TestsAssumption ==
    /\ Tests \in [Tester -> SUBSET Job]
    /\ \A t \in Tester : \A j \in Tests[t] :
          /\ (j.dev = FM) = (j.op \in {"new", "read"})
          /\ j.dev = RAMDISK => j.i \in 0..(NR_MAX_FILE - 1) /\ (j.op = "DEV_WRITE" => j.i # 0)

VARIABLES
    inbox,            \* msg_list of every thread
    mem,              \* physical memory
    disk,             \* file[][] of the RAM disk
    file, hash_table, \* FM: the names of file[0 .. empty - 1], and the hash lists of places
    pdir, ptable,     \* MM: the directories of vmem_table[0 .. vmem_free - 1]; all page tables
    cr3, stat,        \* of every PCB: 0 is the kernel's directory, k that of vmem_table[k - 1]
    pm, fm,           \* where PM and FM are, and their locals
    test,             \* where each tester is, and the test it runs
    asked,            \* history: calls of create_process
    stop              \* why the machine stopped

svcVars == <<file, hash_table, pdir, ptable, cr3, stat>>
vars == <<inbox, mem, disk, svcVars, pm, fm, test, asked, stop>>

vmem_free == Len(pdir)
Running == stop = "no"

-----------------------------------------------------------------------------
(* Messages                                                                 *)

Req(src, op, i, buf, len) == [src |-> src, op |-> op, i |-> i, buf |-> buf, len |-> len]
Ret(src, val) == [src |-> src, op |-> "ret", ret |-> val]

\* receive(src) takes the first message from src.
First(th, src) == SelectInSeq(inbox[th], LAMBDA m : src \in {ANY, m.src})
Has(th, src) == Running /\ First(th, src) # 0
Mail(th, src) == inbox[th][First(th, src)]
Gets(th, op) == Has(th, ANY) /\ Mail(th, ANY).op = op

\* th receives from src, and sends m to dest.
Pass(th, src, dest, m) ==
    inbox' = [inbox EXCEPT ![th] = RemoveAt(@, First(th, src)), ![dest] = Append(@, m)]

-----------------------------------------------------------------------------
(* Memory as the kernel's threads see it                                    *)

KPage(va) == Walk(kpdir, ptable, va)
Store(va, x) == [mem EXCEPT ![KPage(va)] = x]
buf(who) == pa_to_va(PageOf[who])

-----------------------------------------------------------------------------
(* The devices                                                              *)

\* receive(ANY), leave in memory what a read or a write does, and answer: with the
\* length of a read if nr = 1 and with 0 if nr = 0; likewise nw of a write.
serve(d, reads, writes, nr, nw) ==
    LET m == Mail(d, ANY)
    IN  /\ \/ Gets(d, "DEV_READ") /\ mem' = reads /\ Pass(d, ANY, m.src, Ret(d, nr * m.len))
           \/ Gets(d, "DEV_WRITE") /\ mem' = writes /\ Pass(d, ANY, m.src, Ret(d, nw * m.len))
        /\ UNCHANGED <<svcVars, pm, fm, test, asked, stop>>

null_driver_thread == serve(DEV_NULL, mem, mem, 0, 0) /\ UNCHANGED disk

zero_driver_thread ==
    /\ serve(DEV_ZERO, Store(Mail(DEV_ZERO, ANY).buf, "zero"), mem, 1, 0)
    /\ UNCHANGED disk

random_driver_thread ==
    /\ serve(RANDOM, Store(Mail(RANDOM, ANY).buf, "random"), mem, 1, 0)
    /\ UNCHANGED disk

\* The page at address from is copied to address to.
memcpy(to, from) == Store(to, mem[KPage(from)])

mem_driver_thread ==
    LET m == Mail(DEV_MEM, ANY)
    IN  serve(DEV_MEM, memcpy(m.buf, m.i), memcpy(m.i, m.buf), 1, 1) /\ UNCHANGED disk

\* (void*)m.offset + KOFFSET
kmem_driver_thread ==
    LET m == Mail(DEV_KMEM, ANY)
    IN  /\ serve(DEV_KMEM, memcpy(m.buf, pa_to_va(m.i)), memcpy(pa_to_va(m.i), m.buf), 1, 1)
        /\ UNCHANGED disk

\* An offset into the RAM disk is kept as the number of its 128 KB place: all
\* reads that copy anything are of the first page of a place.
ram_driver_thread ==
    LET m == Mail(RAMDISK, ANY)
    IN  /\ serve(RAMDISK, IF m.len = 0 THEN mem ELSE Store(m.buf, disk[m.i]), mem, 1, 1)
        /\ disk' = IF m.op = "DEV_READ" THEN disk ELSE [disk EXCEPT ![m.i] = mem[KPage(m.buf)]]

-----------------------------------------------------------------------------
(* FM: files by name                                                        *)

hash_file_name(name) == name % HASH_SIZE

\* Mutant: the node is put at the head of the list.
do_new_file_head(name) ==
    /\ file' = Append(file, name)
    /\ hash_table' = [hash_table EXCEPT ![hash_file_name(name)] = <<Len(file)>> \o @]

do_new_file(name) ==
    /\ file' = Append(file, name)
    /\ hash_table' = [hash_table EXCEPT ![hash_file_name(name)] = Append(@, Len(file))]

new_file ==
    /\ fm.pc = "ANY" /\ Gets(FM, "FM_NEW_FILE")
    /\ Len(file) < NR_MAX_FILE
    /\ do_new_file(Mail(FM, ANY).i)
    /\ Pass(FM, ANY, Mail(FM, ANY).src, Ret(FM, 0))
    /\ UNCHANGED <<mem, disk, pdir, ptable, cr3, stat, pm, fm, test, asked, stop>>

\* file[empty] is outside the table: what it overwrites is not modelled.
new_file_overrun ==
    /\ fm.pc = "ANY" /\ Gets(FM, "FM_NEW_FILE")
    /\ Len(file) = NR_MAX_FILE
    /\ stop' = "overrun"
    /\ UNCHANGED <<inbox, mem, disk, svcVars, pm, fm, test, asked>>

\* Mutant: the newest file of that name.
Lookup_newest(name) ==
    SelectLastInSeq(hash_table[hash_file_name(name)], LAMBDA k : file[k + 1] = name)

\* list_foreach: the place in the hash list of the first file of that name, or 0.
Lookup(name) == SelectInSeq(hash_table[hash_file_name(name)], LAMBDA k : file[k + 1] = name)

do_read ==
    /\ fm.pc = "ANY" /\ Gets(FM, "FM_READ")
    /\ LET m == Mail(FM, ANY)
       IN  /\ Lookup(m.i) # 0
           /\ fm' = [pc |-> "ram", m |-> m]
           /\ Pass(FM, ANY, RAMDISK,
                   Req(FM, "DEV_READ", hash_table[hash_file_name(m.i)][Lookup(m.i)], m.buf, m.len))
    /\ UNCHANGED <<mem, disk, svcVars, pm, test, asked, stop>>

\* panic("There is no file named ...")
do_read_panic ==
    /\ fm.pc = "ANY" /\ Gets(FM, "FM_READ")
    /\ Lookup(Mail(FM, ANY).i) = 0
    /\ stop' = "no_file"
    /\ UNCHANGED <<inbox, mem, disk, svcVars, pm, fm, test, asked>>

read_done ==
    /\ fm.pc = "ram" /\ Has(FM, RAMDISK)
    /\ Pass(FM, RAMDISK, fm.m.src, Ret(FM, fm.m.len))
    /\ fm' = [pc |-> "ANY"]
    /\ UNCHANGED <<mem, disk, svcVars, pm, test, asked, stop>>

ramdisk_thread == new_file \/ new_file_overrun \/ do_read \/ do_read_panic \/ read_done

-----------------------------------------------------------------------------
(* MM: address spaces                                                       *)

IsKernelEntry(d) == d - KOFFSET \in 0..(KERNEL_PD - 1)

\* Mutant: the last of the kernel's entries is forgotten.
new_pdir_short(k) ==
    [d \in Dir |-> IF d - KOFFSET \in 0..(KERNEL_PD - 2) THEN kpdir[d] ELSE PHY_PD + k]

\* Every entry the process's one table, then the kernel's entries from kpdir.
new_pdir(k) == [d \in Dir |-> IF IsKernelEntry(d) THEN kpdir[d] ELSE PHY_PD + k]

do_new_proc_vmem ==
    /\ Gets(MM, "MM_NEW_PROC")
    /\ pdir' = Append(pdir, new_pdir(vmem_free))
    /\ Pass(MM, ANY, PM, Ret(MM, vmem_free + 1))
    /\ UNCHANGED <<mem, disk, file, hash_table, ptable, cr3, stat, pm, fm, test, asked, stop>>

DirOf(c) == IF c = 0 THEN kpdir ELSE pdir[c]

\* Mutant: every process gets the same frames.
Frames_shared == [i \in Idx |-> <<FRAME + 1, i>>]

\* (32 + vmem_free * 4) << 20, for all entries of the table
Frames == [i \in Idx |-> <<FRAME + vmem_free, i>>]

\* Mutant: the answer goes to the process in whose name PM asked.
mm_dest_src(m) == m.src

\* m.dest = PM
mm_dest(m) == PM

do_allocate_new_pages ==
    /\ Gets(MM, "MM_NEW_PAGE")
    /\ LET m == Mail(MM, ANY)
       IN  /\ ptable' = [ptable EXCEPT ![DirOf(cr3[m.src])[m.i[1]]] = Frames]
           /\ Pass(MM, ANY, mm_dest(m), Ret(MM, Frames[m.i[2]]))
    /\ UNCHANGED <<mem, disk, file, hash_table, pdir, cr3, stat, pm, fm, test, asked, stop>>

mm_thread == do_new_proc_vmem \/ do_allocate_new_pages

-----------------------------------------------------------------------------
(* PM: starting a process                                                   *)

\* send(PM, PM_NEW_PROC).  PM looks at the type only, so it is of no matter that
\* the callers share one static Msg.
create_process ==
    /\ Running /\ asked < MaxAsked
    /\ asked' = asked + 1
    /\ inbox' = [inbox EXCEPT ![PM] = Append(@, Req(Idle, "PM_NEW_PROC", 1, 0, 0))]
    /\ UNCHANGED <<mem, disk, svcVars, pm, fm, test, stop>>

At(pc, src) == pm.pc = pc /\ Has(PM, src)

\* Mutant: the file of the program is created only once.
pm_receive_once ==
    /\ pm.pc = "ANY" /\ Gets(PM, "PM_NEW_PROC")
    /\ IF 1 \in Range(file)
       THEN /\ Pass(PM, ANY, FM, Req(PM, "FM_READ", 1, buf(PM), 1))
            /\ pm' = [pm EXCEPT !.pc = "elf"]
       ELSE /\ Pass(PM, ANY, FM, Req(PM, "FM_NEW_FILE", 1, 0, 0))
            /\ pm' = [pm EXCEPT !.pc = "created"]
    /\ UNCHANGED <<mem, disk, svcVars, fm, test, asked, stop>>

pm_receive ==
    /\ pm.pc = "ANY" /\ Gets(PM, "PM_NEW_PROC")
    /\ Pass(PM, ANY, FM, Req(PM, "FM_NEW_FILE", 1, 0, 0))
    /\ pm' = [pm EXCEPT !.pc = "created"]
    /\ UNCHANGED <<mem, disk, svcVars, fm, test, asked, stop>>

pm_read_elf ==
    /\ At("created", FM)
    /\ Pass(PM, FM, FM, Req(PM, "FM_READ", 1, buf(PM), 1))
    /\ pm' = [pm EXCEPT !.pc = "elf"]
    /\ UNCHANGED <<mem, disk, svcVars, fm, test, asked, stop>>

IsElf == mem[KPage(buf(PM))] = "elf"

pm_illegal ==
    /\ At("elf", FM) /\ ~IsElf
    /\ stop' = "illegal_elf"
    /\ UNCHANGED <<inbox, mem, disk, svcVars, pm, fm, test, asked>>

\* create_kthread, and MM_NEW_PROC
pm_new_pcb ==
    /\ At("elf", FM) /\ IsElf
    /\ \E p \in Proc : stat[p] = "free"    \* assert(free.next != &free)
    /\ LET p == CHOOSE p \in Proc : stat[p] = "free"
       IN  /\ stat' = [stat EXCEPT ![p] = "sleeping"]
           /\ pm' = [pm EXCEPT !.pc = "cr3", !.pcb = p]
    /\ Pass(PM, FM, MM, Req(PM, "MM_NEW_PROC", 0, 0, 0))
    /\ UNCHANGED <<mem, disk, file, hash_table, pdir, ptable, cr3, fm, test, asked, stop>>

\* MM_NEW_PAGE in the name of the new process.
NewPage(entry) == Req(pm.pcb, "MM_NEW_PAGE", Segments[entry].vaddr, 0, Segments[entry].memsz)

pm_set_cr3 ==
    /\ At("cr3", MM)
    /\ cr3' = [cr3 EXCEPT ![pm.pcb] = Mail(PM, MM).ret]
    /\ Pass(PM, MM, MM, NewPage(1))
    /\ pm' = [pm EXCEPT !.pc = "page", !.entry = 1]
    /\ UNCHANGED <<mem, disk, file, hash_table, pdir, ptable, stat, fm, test, asked, stop>>

\* The answer is a physical address, used as it is.
pm_load ==
    /\ At("page", MM)
    /\ Pass(PM, MM, FM, Req(PM, "FM_READ", 1, Mail(PM, MM).ret, Segments[pm.entry].filesz))
    /\ pm' = [pm EXCEPT !.pc = "load", !.pa = Mail(PM, MM).ret]
    /\ UNCHANGED <<mem, disk, svcVars, fm, test, asked, stop>>

\* Mutant: what the file does not fill is left as it was.
ZeroFill_none(s) == mem

\* for (i = pa + filesz; i < pa + memsz; *i ++ = 0)
ZeroFill(s) == IF s.filesz < s.memsz THEN Store(pm.pa, "zero") ELSE mem

pm_next ==
    /\ At("load", FM) /\ pm.entry < Len(Segments)
    /\ mem' = ZeroFill(Segments[pm.entry])
    /\ Pass(PM, FM, MM, NewPage(pm.entry + 1))
    /\ pm' = [pm EXCEPT !.pc = "page", !.entry = @ + 1]
    /\ UNCHANGED <<disk, svcVars, fm, test, asked, stop>>

\* wakeup(pcb), and back to receive(ANY)
pm_wakeup ==
    /\ At("load", FM) /\ pm.entry = Len(Segments)
    /\ mem' = ZeroFill(Segments[pm.entry])
    /\ stat' = [stat EXCEPT ![pm.pcb] = "ready"]
    /\ inbox' = [inbox EXCEPT ![PM] = RemoveAt(@, First(PM, FM))]
    /\ pm' = [pm EXCEPT !.pc = "ANY"]
    /\ UNCHANGED <<disk, file, hash_table, pdir, ptable, cr3, fm, test, asked, stop>>

do_new_proc ==
    \/ pm_read_elf \/ pm_illegal \/ pm_new_pcb \/ pm_set_cr3 \/ pm_load \/ pm_next \/ pm_wakeup

pm_thread == pm_receive \/ do_new_proc

\* The user program (userproc/testproc.c): x ++, in its own address space.
Bss == {Segments[k].vaddr : k \in {k \in DOMAIN Segments : Segments[k].filesz < Segments[k].memsz}}

testproc(p) ==
    /\ Running /\ stat[p] = "ready"
    /\ \E va \in Bss : mem' = [mem EXCEPT ![Walk(DirOf(cr3[p]), ptable, va)] = "x"]
    /\ UNCHANGED <<inbox, disk, svcVars, pm, fm, test, asked, stop>>

-----------------------------------------------------------------------------
(* The tests of main.c                                                      *)

Starts(t, j, dest, m) ==
    /\ Running /\ test[t].pc = "start"
    /\ test' = [test EXCEPT ![t] = [pc |-> dest, job |-> j]]
    /\ inbox' = [inbox EXCEPT ![dest] = Append(@, m)]
    /\ UNCHANGED <<mem, disk, svcVars, pm, fm, asked, stop>>

ReadFile(t, no) == Req(t, "FM_READ", no, buf(t), 1)

\* test_fm(no, new_file), up to the first answer
test_fm(t) ==
    \E j \in Tests[t] :
        /\ j.dev = FM
        /\ Starts(t, j, FM, IF j.op = "new" THEN Req(t, "FM_NEW_FILE", j.i, 0, 0) ELSE ReadFile(t, j.i))

test_fm_created(t) ==
    /\ test[t].pc = FM /\ test[t].job.op = "new" /\ Has(t, FM)
    /\ Pass(t, FM, FM, ReadFile(t, test[t].job.i))
    /\ test' = [test EXCEPT ![t].job.op = "read"]
    /\ UNCHANGED <<mem, disk, svcVars, pm, fm, asked, stop>>

\* Where a device test looks: mem takes an address, kmem an address less KOFFSET.
Offset(j, page) == CASE j.dev = DEV_MEM -> pa_to_va(page) [] j.dev = DEV_KMEM -> page [] OTHER -> j.i

\* test_null, test_zero, test_random, test_mem, test_kmem: dev_read of test_data
\* into the tester's buffer; and a dev_write, which no test has, the other way.
test_dev(t) ==
    \E j \in Tests[t] :
        /\ j.dev \in Device
        /\ \/ /\ j.op = "DEV_READ"
              /\ Starts(t, j, j.dev, Req(t, j.op, Offset(j, PageOf["test_data"]), buf(t), 1))
           \/ /\ j.op = "DEV_WRITE"
              /\ Starts(t, j, j.dev, Req(t, j.op, Offset(j, PageOf[t]), buf("test_data"), 1))

\* The last answer; then sleep().
test_end(t) ==
    LET j == test[t].job
    IN  /\ test[t].pc \notin {"start", "done"} /\ j.op # "new" /\ Has(t, test[t].pc)
        /\ inbox' = [inbox EXCEPT ![t] = RemoveAt(@, First(t, test[t].pc))]
        /\ test' = [test EXCEPT ![t] = [pc |-> "done", job |-> j, ret |-> Mail(t, @.pc).ret]]
        /\ UNCHANGED <<mem, disk, svcVars, pm, fm, asked, stop>>

-----------------------------------------------------------------------------
\* file[][] as it is compiled in: the program and three texts.
ramdisk_file == [k \in 0..(NR_MAX_FILE - 1) |->
                    CASE k = 0 -> "elf" [] k = 1 -> "text1" [] k = 2 -> "text2" [] k = 3 -> "text3"
                      [] OTHER -> "zero"]

\* After init_page and init_driver: all threads wait for a message.
Init ==
    /\ inbox = [th \in Thread |-> <<>>]
    /\ mem = [pg \in Region \X Idx |-> IF pg = PageOf["test_data"] THEN "data" ELSE "old"]
    /\ disk = ramdisk_file
    /\ file = <<>> /\ hash_table = [h \in 0..(HASH_SIZE - 1) |-> <<>>]
    /\ pdir = <<>> /\ ptable = init_page
    /\ cr3 = [p \in Proc |-> 0] /\ stat = [p \in Proc |-> "free"]
    /\ pm = [pc |-> "ANY", pcb |-> Idle, entry |-> 0, pa |-> NoPage]
    /\ fm = [pc |-> "ANY"]
    /\ test = [t \in Tester |-> [pc |-> "start"]]
    /\ asked = 0 /\ stop = "no"

Server ==
    \/ null_driver_thread \/ zero_driver_thread \/ random_driver_thread
    \/ mem_driver_thread \/ kmem_driver_thread \/ ram_driver_thread
    \/ ramdisk_thread \/ mm_thread \/ pm_thread

Client(t) == test_fm(t) \/ test_fm_created(t) \/ test_dev(t) \/ test_end(t)

Next ==
    \/ Server
    \/ create_process
    \/ \E t \in Tester : Client(t)
    \/ \E p \in Proc : testproc(p)

Spec == Init /\ [][Next]_vars

\* Every ready thread gets the CPU (Kernel's NoStarvation).
FairSpec ==
    /\ Spec
    /\ WF_vars(ram_driver_thread) /\ WF_vars(ramdisk_thread)
    /\ WF_vars(mm_thread) /\ WF_vars(pm_thread)

-----------------------------------------------------------------------------
(* Correctness                                                              *)

\* The pages process p reaches at addresses that are not the kernel's.
UserPages(p) ==
    {Walk(DirOf(cr3[p]), ptable, <<d, i>>) : d \in {d \in Dir : ~IsKernelEntry(d)}, i \in Idx} \ {NoPage}

Started == {p \in Proc : stat[p] = "ready"}

\* A process runs with its program in its own memory: each segment was read from
\* the file or zeroed before wakeup(), and no later process, test or device
\* overwrites it (do_new_proc, do_allocate_new_pages).
ProgramInPlace ==
    \A p \in Started, k \in DOMAIN Segments :
        LET s == Segments[k]
            x == mem[Walk(DirOf(cr3[p]), ptable, s.vaddr)]
        IN  /\ s.filesz = 1 => x = "elf"
            /\ s.filesz < s.memsz => x \in {"zero", "x"}

\* Two processes share no page outside the kernel's entries, and reach none of
\* the kernel's: the frames of do_allocate_new_pages are new ones each time,
\* although they are computed from a counter that belongs to no process.
AddressSpacesApart ==
    \A p \in Started :
        /\ \A pg \in UserPages(p) : pg[1] >= FRAME
        /\ \A q \in Started \ {p} : UserPages(p) \cap UserPages(q) = {}

\* Kernel addresses mean the same in every address space, so the kernel keeps
\* running when schedule() loads another cr3.
KernelEverywhere ==
    \A p \in Started, r \in 0..(KERNEL_PD - 1), i \in Idx :
        Walk(DirOf(cr3[p]), ptable, pa_to_va(<<r, i>>)) = <<r, i>>

\* vmem_table has no check for its end; it is not overrun, because each process
\* has first taken a file and there are not more of those.
VmemWithinTable == vmem_free <= Len(file) /\ vmem_free <= N_KERNEL_PTE

\* PM rejects the program only if another file was created first: the places of
\* the RAM disk are given to names in the order of creation.
IllegalOnlyIfOutrun == stop = "illegal_elf" => file[1] # 1

\* The place on the RAM disk of the oldest file of that name.
Oldest(name) ==
    (CHOOSE k \in DOMAIN file : file[k] = name /\ \A j \in DOMAIN file : file[j] = name => k <= j) - 1

\* A test ends with what it asked for, however the threads' requests mix: a file's
\* reader with the place of the oldest file of that name, mem and kmem with the
\* same page, null with nothing.
TestsSeeTheirData ==
    \A t \in Tester : test[t].pc = "done" =>
        LET j == test[t].job
            x == mem[PageOf[t]]
        IN  CASE j.dev = FM -> x \in {ramdisk_file[Oldest(j.i)], "data"}
              [] j.dev \in {DEV_MEM, DEV_KMEM} -> x = "data"
              [] j.dev = DEV_NULL -> x = "old" /\ test[t].ret = 0
              [] j.dev = DEV_ZERO -> x = IF j.op = "DEV_READ" THEN "zero" ELSE "old"
              [] OTHER -> TRUE

\* Every call of create_process starts a process of its own, unless the machine stops.
EveryRequestStarts ==
    \A n \in 1..MaxAsked : (asked = n) ~> (Cardinality(Started) >= n \/ ~Running)
=============================================================================
