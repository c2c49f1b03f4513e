-------------------------- MODULE ServicesServers ---------------------------
(* Lemmas about the services: their mail, the memory and the files; the     *)
(* steps of the devices, of FM and of MM keep the invariant.                *)
EXTENDS Services, ListProofs

-----------------------------------------------------------------------------
(* The messages on their way                                                *)

Page == Region \X Idx
Value == {"elf", "text1", "text2", "text3", "zero", "random", "data", "old", "x"}
Arg == Nat \cup (Int \X Int)
Operation == {"FM_NEW_FILE", "FM_READ", "DEV_READ", "DEV_WRITE", "MM_NEW_PROC", "MM_NEW_PAGE", "PM_NEW_PROC"}
Msg == [src : Thread \cup {Idle}, op : Operation, i : Arg, buf : Arg, len : {0, 1}]
       \cup [src : Thread, op : {"ret"}, ret : Arg]

\* The messages that wait for x.
Box(x) == Range(inbox[x])

Servers == Device \cup {FM, MM}

\* The threads that wait for an answer, whom they asked, and what.
Asker == Tester \cup {PM}

Dest(c) ==
    IF c # PM THEN test[c].pc
    ELSE IF pm.pc \in {"created", "elf", "load"} THEN FM
    ELSE IF pm.pc \in {"cr3", "page"} THEN MM ELSE Idle

PmAsk ==
    CASE pm.pc = "created" -> Req(PM, "FM_NEW_FILE", 1, 0, 0)
      [] pm.pc = "elf" -> Req(PM, "FM_READ", 1, buf(PM), 1)
      [] pm.pc = "cr3" -> Req(PM, "MM_NEW_PROC", 0, 0, 0)
      [] pm.pc = "page" -> NewPage(pm.entry)
      [] OTHER -> Req(PM, "FM_READ", 1, pm.pa, Segments[pm.entry].filesz)

TestAsk(t) ==
    LET j == test[t].job
    IN  CASE j.op = "new" -> Req(t, "FM_NEW_FILE", j.i, 0, 0)
          [] j.op = "read" -> ReadFile(t, j.i)
          [] j.op = "DEV_READ" -> Req(t, j.op, Offset(j, PageOf["test_data"]), buf(t), 1)
          [] OTHER -> Req(t, j.op, Offset(j, PageOf[t]), buf("test_data"), 1)

Ask(c) == IF c = PM THEN PmAsk ELSE TestAsk(c)

\* What FM asked the RAM disk, for the request it serves.
IsOldest(k, name) == file[k] = name /\ \A j \in DOMAIN file : file[j] = name => k <= j
HasFile(name) == \E k \in DOMAIN file : IsOldest(k, name)
RamAsk == Req(FM, "DEV_READ", Oldest(fm.m.i), fm.m.buf, fm.m.len)

\* Where the request of c is.
Posted(c) == Dest(c) \in Servers /\ Ask(c) \in Box(Dest(c))
Served(c) == fm.pc = "ram" /\ fm.m.src = c
Answered(c) == \E m \in Box(c) : m.op = "ret"
RamDone == \E m \in Box(FM) : m.src = RAMDISK
AtMostOne(A, B, C) == ~(A /\ B) /\ ~(A /\ C) /\ ~(B /\ C)

\* Nobody has two messages in a mailbox, but for the callers of create_process.
Unique(s) == \A j, k \in 1..Len(s) : s[j].src = s[k].src /\ s[j].src # Idle => j = k
SrcUnique == \A x \in Thread : Unique(inbox[x])

NewProc == Req(Idle, "PM_NEW_PROC", 1, 0, 0)

\* What waits for a server is the request of a thread, or FM's and the RAM disk's.
ServerMail ==
    \A x \in Servers : \A m \in Box(x) :
        \/ \E c \in Asker : Dest(c) = x /\ m = Ask(c)
        \/ fm.pc = "ram" /\ x = RAMDISK /\ m = RamAsk
        \/ fm.pc = "ram" /\ x = FM /\ m.src = RAMDISK /\ m.op = "ret"

\* What waits for a client is the answer of the server it asked.
ClientMail ==
    /\ \A c \in Asker : \A m \in Box(c) :
          \/ c = PM /\ m = NewProc
          \/ m.src = Dest(c) /\ m.op = "ret"
    /\ \A p \in Proc : Box(p) = {}

FmServes ==
    fm.pc = "ram" =>
        \E c \in Asker : Dest(c) = FM /\ fm.m = Ask(c) /\ fm.m.op = "FM_READ" /\ HasFile(fm.m.i)

\* A request is in one place.
OnePlace ==
    /\ \A c \in Asker : AtMostOne(Posted(c), Served(c), Answered(c))
    /\ fm.pc = "ram" => ~(RamAsk \in Box(RAMDISK) /\ RamDone)

\* The mail: requests and answers match, each in one place.
MailInv == ServerMail /\ ClientMail /\ FmServes /\ OnePlace

\* A test of main.c.
JobOK(j) ==
    /\ (j.dev = FM) = (j.op \in {"new", "read"})
    /\ j.dev = RAMDISK => j.i \in 0..(NR_MAX_FILE - 1) /\ (j.op = "DEV_WRITE" => j.i # 0)

\* The types, and what the program counters say of the locals.
Types ==
    /\ inbox \in [Thread -> Seq(Msg)]
    /\ mem \in [Page -> Value]
    /\ disk \in [0..(NR_MAX_FILE - 1) -> Value]
    /\ file \in Seq(Nat) /\ Len(file) <= NR_MAX_FILE
    /\ hash_table \in [0..(HASH_SIZE - 1) -> Seq(Nat)]
    /\ pdir \in Seq([Dir -> Table])
    /\ ptable \in [Table -> [Idx -> Page \cup {NoPage}]]
    /\ cr3 \in [Proc -> Nat]
    /\ stat \in [Proc -> {"free", "sleeping", "ready"}]
    /\ pm \in [pc : {"ANY", "created", "elf", "cr3", "page", "load"}, pcb : Proc \cup {Idle},
               entry : Nat, pa : Page \cup {NoPage}]
    /\ fm \in [pc : {"ANY"}] \cup [pc : {"ram"}, m : Msg]
    /\ test \in [Tester -> [pc : {"start"}] \cup [pc : Device \cup {FM}, job : Job]
                           \cup [pc : {"done"}, job : Job, ret : Arg]]
    /\ \A t \in Tester : test[t].pc \in Device \cup {FM} =>
          test[t].pc = test[t].job.dev /\ JobOK(test[t].job)
    /\ pm.pc \in {"cr3", "page", "load"} => pm.pcb \in Proc
    /\ pm.pc \in {"page", "load"} => pm.entry \in 1..Len(Segments)

-----------------------------------------------------------------------------
(* The stores                                                               *)

\* The RAM disk holds its files, but for what a test wrote; never the program's.
StoreInv ==
    /\ \A k \in 0..(NR_MAX_FILE - 1) : disk[k] = ramdisk_file[k] \/ (k # 0 /\ disk[k] = "data")
    /\ mem[PageOf["test_data"]] = "data"

\* A hash list has the places of its files in the order of their creation.
HashInv ==
    \A h \in 0..(HASH_SIZE - 1) :
        /\ \A a, b \in DOMAIN hash_table[h] : a < b => hash_table[h][a] < hash_table[h][b]
        /\ Range(hash_table[h]) = {k \in 0..(Len(file) - 1) : hash_file_name(file[k + 1]) = h}
FileInv == HashInv /\ \A k \in DOMAIN file : HasFile(file[k])

\* The frames and the page table of the k-th address space.
Frame(k) == [i \in Idx |-> <<FRAME + k, i>>]
TableOf(k) == ptable[PHY_PD + k - 1]

\* The new process has its address space.
Made == pm.pc \in {"page", "load"} \/ (pm.pc = "cr3" /\ Answered(PM))
OldSpaces == IF Made THEN vmem_free - 1 ELSE vmem_free
\* Its file has been created, its address space not yet.
Filed == pm.pc = "elf" \/ (pm.pc = "created" /\ Answered(PM)) \/ (pm.pc = "cr3" /\ ~Answered(PM))

\* Where the segment PM loads belongs.
Home == <<FRAME + vmem_free, Segments[pm.entry].vaddr[2]>>

\* The address spaces: MM's k-th maps the k-th frames, each process that runs has one
\* of its own, and there are never more of them than files.
SpaceInv ==
    /\ \A k \in 1..Len(pdir) : pdir[k] = new_pdir(k - 1)
    /\ \A r \in Region : ptable[r] = [i \in Idx |-> <<r, i>>]
    /\ \A k \in 1..N_KERNEL_PTE, i \in Idx : TableOf(k)[i] \in {NoPage, <<FRAME + k, i>>}
    /\ vmem_free + (IF Filed THEN 1 ELSE 0) <= Len(file)
    /\ Made => vmem_free > 0
    /\ \A p \in Started : cr3[p] \in 1..OldSpaces /\ TableOf(cr3[p]) = Frame(cr3[p])
    /\ \A p, q \in Started : cr3[p] = cr3[q] => p = q
    /\ \A p \in Proc : stat[p] = "sleeping" <=> pm.pc \in {"cr3", "page", "load"} /\ pm.pcb = p
    /\ pm.pc \in {"page", "load"} => cr3[pm.pcb] = vmem_free
    /\ pm.pc = "cr3" => \A m \in Box(PM) : m.op = "ret" => m.ret = vmem_free
    /\ pm.pc = "page" => \A m \in Box(PM) : m.op = "ret" => m.ret = Home /\ TableOf(vmem_free) = Frame(vmem_free)
    /\ pm.pc = "load" => pm.pa = Home /\ TableOf(vmem_free) = Frame(vmem_free)

\* Segment k is in address space v.
InPlace(k, v) ==
    LET s == Segments[k]
        x == mem[<<FRAME + v, s.vaddr[2]>>]
    IN  /\ s.filesz = 1 => x = "elf"
        /\ s.filesz < s.memsz => x \in {"zero", "x"}

\* The RAM disk has copied what c reads.
ReadDone(c) == Answered(c) \/ (Served(c) /\ RamDone)

\* The programs that run, the one being loaded up to its present segment, and what
\* PM has found in the file.
ProgramInv ==
    /\ \A p \in Started : \A k \in DOMAIN Segments : InPlace(k, cr3[p])
    /\ pm.pc \in {"page", "load"} => \A k \in 1..(pm.entry - 1) : InPlace(k, vmem_free)
    /\ pm.pc = "elf" /\ ReadDone(PM) => HasFile(1) /\ (mem[PageOf[PM]] = "elf" <=> Oldest(1) = 0)
    /\ pm.pc \in {"cr3", "page", "load"} => HasFile(1) /\ Oldest(1) = 0
    /\ pm.pc = "load" /\ ReadDone(PM) /\ Segments[pm.entry].filesz = 1 => mem[pm.pa] = "elf"
    /\ stop = "illegal_elf" => file # <<>> /\ file[1] # 1

\* What a test finds in its buffer at its end.
Seen(t) ==
    LET j == test[t].job
        x == mem[PageOf[t]]
    IN  /\ j.dev = FM => HasFile(j.i) /\ x \in {ramdisk_file[Oldest(j.i)], "data"}
        /\ j.dev \in {DEV_MEM, DEV_KMEM} => x = "data"
        /\ j.dev = DEV_NULL => x = "old"
        /\ j.dev = DEV_ZERO => x = IF j.op = "DEV_READ" THEN "zero" ELSE "old"

\* What a test has in its buffer while it runs.
TestOne(t) ==
    /\ test[t].pc = "start" => mem[PageOf[t]] = "old"
    /\ test[t].pc \in Device /\ ~Answered(t) => mem[PageOf[t]] = "old"
    /\ test[t].pc \in Device /\ Answered(t) => Seen(t)
    /\ test[t].pc = FM /\ test[t].job.op = "read" /\ ReadDone(t) => Seen(t)
    /\ test[t].pc = DEV_NULL => \A m \in Box(t) : m.ret = 0
    /\ test[t].pc = "done" => Seen(t) /\ (test[t].job.dev = DEV_NULL => test[t].ret = 0)

TestInv == \A t \in Tester : TestOne(t)

\* The inductive invariant.
ServicesInv == Types /\ SrcUnique /\ MailInv /\ StoreInv /\ FileInv /\ SpaceInv /\ ProgramInv /\ TestInv

-----------------------------------------------------------------------------
(* The threads                                                              *)

\* Most steps are set reasoning: Zenon proves them, SMT is asked by name.
USE Zenon

\* The threads differ from each other.
LEMMA Names ==
    /\ PM # FM /\ PM # MM /\ FM # MM
    /\ {PM, FM, MM, Idle, ANY} \cap Device = {}
    /\ {PM, FM, MM} \cap {Idle, ANY} = {}
    /\ Idle # ANY
    /\ {"start", "done", "test_data"} \cap (Device \cup {PM, FM, MM, Idle, ANY}) = {}
    /\ RAMDISK \notin {DEV_NULL, DEV_ZERO, RANDOM, DEV_MEM, DEV_KMEM}
    /\ DEV_NULL \notin {DEV_ZERO, RANDOM, DEV_MEM, DEV_KMEM}
    /\ DEV_ZERO \notin {RANDOM, DEV_MEM, DEV_KMEM}
    /\ RANDOM \notin {DEV_MEM, DEV_KMEM}
    /\ DEV_MEM # DEV_KMEM
    /\ (Device \cup {PM, FM, MM, Idle, ANY, "start", "done", "test_data"}) \cap (Tester \cup Proc) = {}
    /\ Tester \cap Proc = {}
<1> DEFINE names == <<PM, FM, MM, RAMDISK, DEV_NULL, DEV_ZERO, RANDOM, DEV_MEM, DEV_KMEM,
                      Idle, ANY, "start", "done", "test_data">>
<1>1. /\ \A j, k \in 1..14 : names[j] = names[k] => j = k
      /\ \A k \in 1..14 : names[k] \notin Tester \cup Proc
      /\ Tester \cap Proc = {}
  BY ThreadAssumption
<1>2. /\ names[1] = PM /\ names[2] = FM /\ names[3] = MM /\ names[4] = RAMDISK /\ names[5] = DEV_NULL
      /\ names[6] = DEV_ZERO /\ names[7] = RANDOM /\ names[8] = DEV_MEM /\ names[9] = DEV_KMEM
      /\ names[10] = Idle /\ names[11] = ANY /\ names[12] = "start" /\ names[13] = "done"
      /\ names[14] = "test_data"
  OBVIOUS
<1> HIDE DEF names
<1> QED
  BY SMT, <1>1, <1>2 DEF Device

\* Who is a thread, and who asks.
LEMMA ThreadFacts ==
    /\ Device \subseteq Thread /\ {PM, FM, MM} \subseteq Thread
    /\ Tester \subseteq Thread /\ Proc \subseteq Thread
    /\ Asker \subseteq Thread
    /\ ANY \notin Thread /\ Idle \notin Thread /\ "start" \notin Thread /\ "done" \notin Thread
    /\ Asker \cap (Device \cup {FM, MM, Idle}) = {} /\ Asker \cap Proc = {} /\ PM \notin Tester
    /\ {Idle, FM, RAMDISK} \cap ({PM} \cup Tester \cup Proc) = {}
  BY Names DEF Thread, Asker, Device

-----------------------------------------------------------------------------
(* Mailboxes                                                                *)

\* A mailbox without the message that was received.
LEMMA Taken ==
    ASSUME NEW s \in Seq(Msg), Unique(s), NEW n \in 1..Len(s)
    PROVE  /\ RemoveAt(s, n) \in Seq(Msg)
           /\ Unique(RemoveAt(s, n))
           /\ Range(RemoveAt(s, n)) \subseteq Range(s)
           /\ \A m \in Range(s) : m # s[n] => m \in Range(RemoveAt(s, n))
           /\ s[n].src # Idle => s[n] \notin Range(RemoveAt(s, n))
<1> DEFINE r == RemoveAt(s, n)
<1>1. /\ r \in Seq(Msg) /\ Len(r) = Len(s) - 1
      /\ \A i \in 1..(Len(s) - 1) : r[i] = IF i < n THEN s[i] ELSE s[i + 1]
  BY RemoveAtProperties
<1>2. DOMAIN r = 1..(Len(s) - 1) /\ DOMAIN s = 1..Len(s) /\ Len(s) \in Nat
  BY <1>1, SeqLength
<1> HIDE DEF r
<1>3. Unique(r)
  <2> DEFINE g(i) == IF i < n THEN i ELSE i + 1
  <2>1. \A i \in 1..Len(r) : g(i) \in 1..Len(s) /\ r[i] = s[g(i)]
    BY SMT, <1>1, <1>2
  <2>2. \A i, j \in 1..Len(r) : g(i) = g(j) => i = j
    BY SMT, <1>1, <1>2
  <2> HIDE DEF g
  <2>3. ASSUME NEW i \in 1..Len(r), NEW j \in 1..Len(r), r[i].src = r[j].src, r[i].src # Idle
        PROVE  i = j
    <3>1. g(i) = g(j)
      BY ZenonT(30), <2>1, <2>3 DEF Unique
    <3> QED
      BY <2>2, <3>1
  <2> QED
    BY <2>3 DEF Unique
<1>4. Range(r) \subseteq Range(s)
  BY SMT, <1>1, <1>2 DEF Range
<1>5. ASSUME NEW m \in Range(s), m # s[n] PROVE m \in Range(r)
  <2>1. PICK j \in 1..Len(s) : s[j] = m
    BY <1>2 DEF Range
  <2>2. CASE j < n
    BY SMT, <1>1, <1>2, <2>1, <2>2 DEF Range
  <2>3. CASE j > n
    <3>1. j - 1 \in 1..(Len(s) - 1) /\ ~(j - 1 < n) /\ (j - 1) + 1 = j
      BY SMT, <1>2, <2>3
    <3>2. r[j - 1] = s[j]
      BY <1>1, <3>1
    <3> QED
      BY <1>2, <2>1, <3>1, <3>2 DEF Range
  <2> QED
    BY SMT, <1>5, <2>1, <2>2, <2>3
<1>6. ASSUME s[n].src # Idle, s[n] \in Range(r) PROVE FALSE
  <2>1. PICK j \in 1..(Len(s) - 1) : r[j] = s[n]
    BY <1>2, <1>6 DEF Range
  <2>2. PICK k \in 1..Len(s) : s[k] = s[n] /\ k # n
    BY SMT, <1>1, <1>2, <2>1
  <2> QED
    BY <1>6, <2>2 DEF Unique
<1> QED
  BY <1>1, <1>3, <1>4, <1>5, <1>6 DEF r

\* A mailbox with one message more.
LEMMA Put ==
    ASSUME NEW s \in Seq(Msg), Unique(s), NEW m \in Msg,
           m.src = Idle \/ \A n \in Range(s) : n.src # m.src
    PROVE  /\ Append(s, m) \in Seq(Msg)
           /\ Unique(Append(s, m))
           /\ Range(Append(s, m)) = Range(s) \cup {m}
<1> DEFINE a == Append(s, m)
<1>1. /\ a \in Seq(Msg) /\ Len(a) = Len(s) + 1 /\ Len(s) \in Nat
      /\ \A k \in 1..Len(s) : a[k] = s[k]
      /\ a[Len(s) + 1] = m
      /\ DOMAIN a = 1..(Len(s) + 1) /\ DOMAIN s = 1..Len(s)
  BY SMT, SeqAppend, SeqLength
<1> HIDE DEF a
<1>2. \A k \in 1..Len(s) : s[k] \in Range(s)
  BY <1>1 DEF Range
<1>3. Unique(a)
  <2> SUFFICES ASSUME NEW j \in 1..Len(a), NEW k \in 1..Len(a), a[j].src = a[k].src, a[j].src # Idle
               PROVE  j = k
    BY DEF Unique
  <2>1. CASE j \in 1..Len(s) /\ k \in 1..Len(s)
    BY <1>1, <2>1 DEF Unique
  <2>2. CASE j = Len(s) + 1 /\ k \in 1..Len(s)
    BY <1>1, <1>2, <2>2
  <2>3. CASE j \in 1..Len(s) /\ k = Len(s) + 1
    BY <1>1, <1>2, <2>3
  <2> QED
    BY SMT, <1>1, <2>1, <2>2, <2>3
<1>4. Range(a) = Range(s) \cup {m}
  <2>1. ASSUME NEW x \in Range(a) PROVE x \in Range(s) \cup {m}
    BY SMT, <1>1, <1>2, <2>1 DEF Range
  <2>2. m \in Range(a)
    BY SMT, <1>1 DEF Range
  <2>3. ASSUME NEW x \in Range(s) PROVE x \in Range(a)
    <3>1. PICK k \in 1..Len(s) : x = s[k]
      BY <1>1 DEF Range
    <3> QED
      BY SMT, <1>1, <3>1 DEF Range
  <2> QED
    BY <2>1, <2>2, <2>3
<1> QED
  BY <1>1, <1>3, <1>4 DEF a

\* receive(src) takes a message of that thread.
LEMMA FirstMail ==
    ASSUME inbox \in [Thread -> Seq(Msg)], NEW th \in Thread, NEW src, Has(th, src)
    PROVE  /\ First(th, src) \in 1..Len(inbox[th])
           /\ Mail(th, src) \in Box(th)
           /\ Mail(th, src) \in Msg
           /\ Mail(th, src).src = src \/ src = ANY
<1>5. First(th, src) \in {k \in 1..Len(inbox[th]) : src \in {ANY, inbox[th][k].src}}
  BY DEF Has, First, SelectInSeq
<1>6. First(th, src) \in 1..Len(inbox[th]) /\ src \in {ANY, Mail(th, src).src}
  BY <1>5 DEF Mail
<1>7. inbox[th] \in Seq(Msg) /\ DOMAIN inbox[th] = 1..Len(inbox[th])
  BY SeqLength
<1> QED
  BY <1>6, <1>7, SeqElement DEF Mail, Box, Range

\* The mailboxes after a thread has received a message and sent one.
LEMMA PassBox ==
    ASSUME inbox \in [Thread -> Seq(Msg)], SrcUnique, NEW th \in Thread, NEW src, Has(th, src),
           NEW dest \in Thread, dest # th, NEW m \in Msg,
           m.src = Idle \/ \A n \in Box(dest) : n.src # m.src,
           Pass(th, src, dest, m)
    PROVE  /\ inbox' \in [Thread -> Seq(Msg)]
           /\ SrcUnique'
           /\ \A x \in Thread \ {th, dest} : Box(x)' = Box(x)
           /\ Box(dest)' = Box(dest) \cup {m}
           /\ Box(th)' \subseteq Box(th)
           /\ \A n \in Box(th) : n # Mail(th, src) => n \in Box(th)'
           /\ Mail(th, src).src # Idle => Mail(th, src) \notin Box(th)'
<1>1. First(th, src) \in 1..Len(inbox[th]) /\ Mail(th, src) = inbox[th][First(th, src)]
  BY FirstMail DEF Mail
<1> DEFINE r == RemoveAt(inbox[th], First(th, src))
           a == Append(inbox[dest], m)
<1>2. inbox[th] \in Seq(Msg) /\ Unique(inbox[th]) /\ inbox[dest] \in Seq(Msg) /\ Unique(inbox[dest])
  BY DEF SrcUnique
<1>3. /\ r \in Seq(Msg) /\ Unique(r)
      /\ Range(r) \subseteq Range(inbox[th])
      /\ \A n \in Range(inbox[th]) : n # Mail(th, src) => n \in Range(r)
      /\ Mail(th, src).src # Idle => Mail(th, src) \notin Range(r)
  BY <1>1, <1>2, Taken
<1>4. a \in Seq(Msg) /\ Unique(a) /\ Range(a) = Range(inbox[dest]) \cup {m}
  BY <1>2, Put DEF Box
<1>5. /\ inbox' \in [Thread -> Seq(Msg)]
      /\ inbox'[th] = r /\ inbox'[dest] = a
      /\ \A x \in Thread \ {th, dest} : inbox'[x] = inbox[x]
  <2> HIDE DEF r, a
  <2>1. inbox' = [inbox EXCEPT ![th] = r, ![dest] = a]
    BY DEF Pass, r, a
  <2> QED
    BY <1>3, <1>4, <2>1
<1> HIDE DEF r, a
<1>6. SrcUnique'
  BY <1>3, <1>4, <1>5 DEF SrcUnique
<1> QED
  BY <1>3, <1>4, <1>5, <1>6 DEF Box

\* A thread sends without having received.
LEMMA PostBox ==
    ASSUME inbox \in [Thread -> Seq(Msg)], SrcUnique, NEW dest \in Thread, NEW m \in Msg,
           m.src = Idle \/ \A n \in Box(dest) : n.src # m.src,
           inbox' = [inbox EXCEPT ![dest] = Append(@, m)]
    PROVE  /\ inbox' \in [Thread -> Seq(Msg)]
           /\ SrcUnique'
           /\ \A x \in Thread \ {dest} : Box(x)' = Box(x)
           /\ Box(dest)' = Box(dest) \cup {m}
<1> DEFINE a == Append(inbox[dest], m)
<1>1. inbox[dest] \in Seq(Msg) /\ Unique(inbox[dest])
  BY DEF SrcUnique
<1>2. a \in Seq(Msg) /\ Unique(a) /\ Range(a) = Range(inbox[dest]) \cup {m}
  BY <1>1, Put DEF Box
<1>3. inbox' = [inbox EXCEPT ![dest] = a]
  OBVIOUS
<1> HIDE DEF a
<1>4. /\ inbox' \in [Thread -> Seq(Msg)]
      /\ inbox'[dest] = a /\ \A x \in Thread \ {dest} : inbox'[x] = inbox[x]
  BY <1>2, <1>3
<1>5. SrcUnique'
  BY <1>2, <1>4 DEF SrcUnique
<1> QED
  BY <1>2, <1>4, <1>5 DEF Box

\* A thread receives without sending.
LEMMA TakeBox ==
    ASSUME inbox \in [Thread -> Seq(Msg)], SrcUnique, NEW th \in Thread, NEW src, Has(th, src),
           inbox' = [inbox EXCEPT ![th] = RemoveAt(@, First(th, src))]
    PROVE  /\ inbox' \in [Thread -> Seq(Msg)]
           /\ SrcUnique'
           /\ \A x \in Thread \ {th} : Box(x)' = Box(x)
           /\ Box(th)' \subseteq Box(th)
           /\ \A n \in Box(th) : n # Mail(th, src) => n \in Box(th)'
           /\ Mail(th, src).src # Idle => Mail(th, src) \notin Box(th)'
<1>1. First(th, src) \in 1..Len(inbox[th]) /\ Mail(th, src) = inbox[th][First(th, src)]
  BY FirstMail DEF Mail
<1> DEFINE r == RemoveAt(inbox[th], First(th, src))
<1>2. inbox[th] \in Seq(Msg) /\ Unique(inbox[th])
  BY DEF SrcUnique
<1>3. /\ r \in Seq(Msg) /\ Unique(r)
      /\ Range(r) \subseteq Range(inbox[th])
      /\ \A n \in Range(inbox[th]) : n # Mail(th, src) => n \in Range(r)
      /\ Mail(th, src).src # Idle => Mail(th, src) \notin Range(r)
  BY <1>1, <1>2, Taken
<1>4. inbox' = [inbox EXCEPT ![th] = r]
  OBVIOUS
<1> HIDE DEF r
<1>5. /\ inbox' \in [Thread -> Seq(Msg)]
      /\ inbox'[th] = r /\ \A x \in Thread \ {th} : inbox'[x] = inbox[x]
  BY <1>3, <1>4
<1>6. SrcUnique'
  BY <1>3, <1>5 DEF SrcUnique
<1> QED
  BY <1>3, <1>5, <1>6 DEF Box

-----------------------------------------------------------------------------
(* Who asks what                                                            *)

\* Pages are pairs of numbers.
LEMMA PageFacts ==
    /\ Page \subseteq Int \X Int /\ NoPage \in Int \X Int
    /\ \A v \in DOMAIN PageOf : PageOf[v] \in Page /\ buf(v) \in Int \X Int
    /\ DOMAIN PageOf = {PM, "test_data"} \cup Tester
    /\ \A va \in Dir \X Idx : va \in Int \X Int
<1>1. /\ NR_PTE \in Nat /\ FRAME \in Nat /\ PHY_PD \in Nat /\ KOFFSET \in Nat
      /\ FRAME - 1 < PHY_PD /\ NR_PDE \in Nat
  BY SMT, PagingAssumption
<1>2. Page \subseteq Int \X Int
  BY SMT, <1>1 DEF Page, Region, Idx
<1>3. NoPage \in Int \X Int
  BY SMT DEF NoPage
<1>4. ASSUME NEW v \in DOMAIN PageOf PROVE PageOf[v] \in Page /\ buf(v) \in Int \X Int
  <2>1. PageOf[v] \in (0..(FRAME - 1)) \X Idx
    BY PageOfAssumption
  <2> QED
    BY SMT, <1>1, <2>1 DEF buf, pa_to_va, Page, Region, Idx
<1>5. \A va \in Dir \X Idx : va \in Int \X Int
  BY SMT, <1>1 DEF Dir, Idx
<1> QED
  BY <1>2, <1>3, <1>4, <1>5, PageOfAssumption

\* What is assumed of a segment.
LEMMA SegmentFacts ==
    ASSUME NEW k \in 1..Len(Segments)
    PROVE  /\ Segments[k].vaddr \in Dir \X Idx /\ Segments[k].filesz \in {0, 1}
           /\ Segments[k].memsz \in {0, 1}
           /\ Segments[k].filesz <= Segments[k].memsz
           /\ ~IsKernelEntry(Segments[k].vaddr[1])
<1>1. DOMAIN Segments = 1..Len(Segments)
  BY SegmentsAssumption, SeqLength
<1>2. Segments[k] \in [vaddr : Dir \X Idx, filesz : {0, 1}, memsz : {0, 1}]
  BY SegmentsAssumption, SeqElement
<1> QED
  BY <1>1, <1>2, SegmentsAssumption DEF IsKernelEntry

\* Whom each thread waits for.
LEMMA DestOf ==
    ASSUME Types
    PROVE  /\ \A t \in Tester : Dest(t) = test[t].pc /\ Dest(t) \in {"start", "done", FM} \cup Device
           /\ Dest(PM) \in {FM, MM, Idle}
           /\ \A c \in Asker : Dest(c) \notin Asker \cup Proc
           /\ pm.pc = "ANY" <=> Dest(PM) = Idle
           /\ pm.pc \in {"created", "elf", "load"} <=> Dest(PM) = FM
           /\ pm.pc \in {"cr3", "page"} <=> Dest(PM) = MM
<1>1. ASSUME NEW t \in Tester
      PROVE  Dest(t) = test[t].pc /\ Dest(t) \in {"start", "done", FM} \cup Device
  <2>1. t # PM
    BY ThreadFacts
  <2>2. test[t] \in [pc : {"start"}] \cup [pc : Device \cup {FM}, job : Job]
                           \cup [pc : {"done"}, job : Job, ret : Arg]
    BY DEF Types
  <2> QED
    BY <2>1, <2>2 DEF Dest
<1>2. pm.pc \in {"ANY", "created", "elf", "cr3", "page", "load"}
  BY DEF Types
<1>3. /\ Dest(PM) \in {FM, MM, Idle}
      /\ pm.pc = "ANY" <=> Dest(PM) = Idle
      /\ pm.pc \in {"created", "elf", "load"} <=> Dest(PM) = FM
      /\ pm.pc \in {"cr3", "page"} <=> Dest(PM) = MM
  BY <1>2, Names DEF Dest
<1>4. \A c \in Asker : Dest(c) \notin Asker \cup Proc
  BY <1>1, <1>3, Names DEF Asker
<1> QED
  BY <1>1, <1>3, <1>4

\* What a test asks for.
LEMMA TestAskFacts ==
    ASSUME Types, NEW t \in Tester, Dest(t) \in Servers
    PROVE  /\ Ask(t) = TestAsk(t) /\ Dest(t) \in Device \cup {FM}
           /\ Ask(t) \in [src : {t}, op : {"FM_NEW_FILE", "FM_READ", "DEV_READ", "DEV_WRITE"},
                          i : Arg, buf : Arg, len : {0, 1}]
           /\ Dest(t) = FM <=> Ask(t).op \in {"FM_NEW_FILE", "FM_READ"}
           /\ test[t].job \in Job /\ test[t].job.dev = Dest(t) /\ JobOK(test[t].job)
           /\ Dest(t) = FM => Ask(t).i = test[t].job.i
<1>1. t # PM /\ Dest(t) = test[t].pc /\ Dest(t) \in Device \cup {FM}
  BY DestOf, ThreadFacts, Names DEF Servers
<1>2. /\ test[t].job \in Job /\ test[t].job.dev = Dest(t) /\ JobOK(test[t].job)
  <2>1. test[t] \in [pc : {"start"}] \cup [pc : Device \cup {FM}, job : Job]
                           \cup [pc : {"done"}, job : Job, ret : Arg]
    BY DEF Types
  <2>2. test[t].pc \notin {"start", "done"}
    BY <1>1, Names
  <2>3. test[t] \in [pc : Device \cup {FM}, job : Job]
    BY <2>1, <2>2
  <2> QED
    BY <1>1, <2>3 DEF Types
<1> DEFINE j == test[t].job
<1>3. j.i \in Nat /\ j.op \in {"new", "read", "DEV_READ", "DEV_WRITE"} /\ (Dest(t) = FM <=> j.op \in {"new", "read"})
  BY <1>2 DEF Job, JobOK
<1>4. /\ PageOf[t] \in Int \X Int /\ PageOf["test_data"] \in Int \X Int
      /\ buf(t) \in Int \X Int /\ buf("test_data") \in Int \X Int
  BY PageFacts
<1>5. KOFFSET \in Int
  BY SMT, PagingAssumption
<1>6. Offset(j, PageOf[t]) \in Arg /\ Offset(j, PageOf["test_data"]) \in Arg
  <2>1. pa_to_va(PageOf[t]) \in Int \X Int /\ pa_to_va(PageOf["test_data"]) \in Int \X Int
    BY SMT, <1>4, <1>5 DEF pa_to_va
  <2> HIDE DEF j
  <2> QED
    BY <1>3, <1>4, <2>1 DEF Offset, Arg
<1>7. Ask(t) = TestAsk(t)
  BY <1>1 DEF Ask
<1>8. TestAsk(t) \in [src : {t}, op : {"FM_NEW_FILE", "FM_READ", "DEV_READ", "DEV_WRITE"},
                          i : Arg, buf : Arg, len : {0, 1}]
  <2>1. 0 \in Arg /\ buf(t) \in Arg /\ buf("test_data") \in Arg /\ j.i \in Arg
    BY <1>3, <1>4 DEF Arg
  <2> HIDE DEF j
  <2>2. TestAsk(t) = CASE j.op = "new" -> Req(t, "FM_NEW_FILE", j.i, 0, 0)
          [] j.op = "read" -> ReadFile(t, j.i)
          [] j.op = "DEV_READ" -> Req(t, j.op, Offset(j, PageOf["test_data"]), buf(t), 1)
          [] OTHER -> Req(t, j.op, Offset(j, PageOf[t]), buf("test_data"), 1)
    BY DEF TestAsk, j
  <2> QED
    BY SMT, <1>3, <1>6, <2>1, <2>2 DEF Req, ReadFile
<1>9. /\ Dest(t) = FM <=> TestAsk(t).op \in {"FM_NEW_FILE", "FM_READ"}
      /\ Dest(t) = FM => TestAsk(t).i = j.i
  BY <1>3 DEF Req, ReadFile, TestAsk
<1> QED
  BY <1>1, <1>2, <1>7, <1>8, <1>9

\* What PM asks for.
LEMMA PmAskFacts ==
    ASSUME Types, Dest(PM) \in Servers
    PROVE  /\ Ask(PM) = PmAsk /\ Dest(PM) \in {FM, MM}
           /\ Ask(PM) \in Msg
           /\ Ask(PM).op \in {"FM_NEW_FILE", "FM_READ", "MM_NEW_PROC", "MM_NEW_PAGE"}
           /\ Dest(PM) = FM <=> Ask(PM).op \in {"FM_NEW_FILE", "FM_READ"}
           /\ Dest(PM) = FM => Ask(PM).src = PM /\ Ask(PM).i = 1
           /\ Ask(PM).src \in {PM} \cup Proc
           /\ Ask(PM).op = "FM_NEW_FILE" <=> pm.pc = "created"
           /\ Ask(PM).op = "FM_READ" <=> pm.pc \in {"elf", "load"}
           /\ Ask(PM).op = "MM_NEW_PROC" <=> pm.pc = "cr3"
           /\ Ask(PM).op = "MM_NEW_PAGE" <=> pm.pc = "page"
<1>1. Ask(PM) = PmAsk /\ Dest(PM) \in {FM, MM}
  BY DestOf, Names DEF Ask, Servers
<1>2. pm.pc \in {"created", "elf", "cr3", "page", "load"}
  BY <1>1, DestOf, Names
<1>3. /\ 0 \in Arg /\ 1 \in Arg /\ buf(PM) \in Arg /\ pm.pa \in Arg
      /\ PM \in Thread
      /\ pm.pc \in {"cr3", "page", "load"} => pm.pcb \in Proc /\ pm.pcb \in Thread
  BY PageFacts, ThreadFacts DEF Arg, Types
<1>4. pm.pc \in {"page", "load"} => /\ Segments[pm.entry].vaddr \in Arg
                                    /\ Segments[pm.entry].filesz \in {0, 1}
                                    /\ Segments[pm.entry].memsz \in {0, 1}
  BY SegmentFacts, PageFacts DEF Types, Arg
<1>5. /\ PmAsk \in [src : Thread \cup {Idle}, op : Operation, i : Arg, buf : Arg, len : {0, 1}]
      /\ PmAsk.op \in {"FM_NEW_FILE", "FM_READ", "MM_NEW_PROC", "MM_NEW_PAGE"}
      /\ pm.pc \in {"created", "elf", "load"} <=> PmAsk.op \in {"FM_NEW_FILE", "FM_READ"}
      /\ pm.pc \in {"created", "elf", "load"} => PmAsk.src = PM /\ PmAsk.i = 1
      /\ PmAsk.src \in {PM} \cup Proc
      /\ PmAsk.op = "FM_NEW_FILE" <=> pm.pc = "created"
      /\ PmAsk.op = "FM_READ" <=> pm.pc \in {"elf", "load"}
      /\ PmAsk.op = "MM_NEW_PROC" <=> pm.pc = "cr3"
      /\ PmAsk.op = "MM_NEW_PAGE" <=> pm.pc = "page"
  <2>1. CASE pm.pc = "created"
    BY <1>3, <2>1 DEF PmAsk, Req, Operation
  <2>2. CASE pm.pc = "elf"
    BY <1>3, <2>2 DEF PmAsk, Req, Operation
  <2>3. CASE pm.pc = "cr3"
    BY <1>3, <2>3 DEF PmAsk, Req, Operation
  <2>4. CASE pm.pc = "page"
    BY <1>3, <1>4, <2>4 DEF PmAsk, Req, Operation, NewPage
  <2>5. CASE pm.pc = "load"
    BY <1>3, <1>4, <2>5 DEF PmAsk, Req, Operation
  <2> QED
    BY <1>2, <2>1, <2>2, <2>3, <2>4, <2>5
<1> QED
  BY <1>1, <1>5, DestOf DEF Msg

AskOK(c) ==
    /\ Ask(c) \in Msg /\ Ask(c).op # "ret" /\ Ask(c).src # Idle
    /\ Ask(c).src # FM /\ Ask(c).src # RAMDISK
    /\ Dest(c) # MM => Ask(c).src = c
    /\ Dest(c) = MM => c = PM /\ Ask(c).op \in {"MM_NEW_PROC", "MM_NEW_PAGE"}
    /\ Dest(c) = FM <=> Ask(c).op \in {"FM_NEW_FILE", "FM_READ"}
    /\ Dest(c) \in Device => c \in Tester /\ Ask(c).op \in {"DEV_READ", "DEV_WRITE"}

\* A request c may send to s.
Request(c, s, q) ==
    /\ q \in Msg /\ q.op # "ret" /\ q.src \notin {Idle, FM, RAMDISK}
    /\ s # MM => q.src = c
    /\ s = MM => c = PM

\* A request is a message of the thread it is from; PM asks MM in two names.
LEMMA AskFacts ==
    Types => \A c \in Asker : Dest(c) \in Servers => AskOK(c)
<1> SUFFICES ASSUME Types, NEW c \in Asker, Dest(c) \in Servers PROVE AskOK(c)
  OBVIOUS
<1> USE DEF AskOK
<1>1. CASE c = PM
  <2>1. {Idle, FM, RAMDISK} \cap ({PM} \cup Proc) = {}
    BY Names DEF Device
  <2>2. {FM, MM} \cap Device = {} /\ FM # MM
    BY Names
  <2> QED
    BY <1>1, <2>1, <2>2, PmAskFacts
<1>2. CASE c \in Tester
  <2>1. c \in Thread /\ c \notin {Idle, FM, RAMDISK, MM} /\ Dest(c) # MM
    <3>1. RAMDISK \in Device /\ MM \notin Device /\ MM # FM
      BY Names DEF Device
    <3>2. Dest(c) \in {"start", "done", FM} \cup Device
      BY <1>2, DestOf
    <3> QED
      BY <1>2, <3>1, <3>2, ThreadFacts, Names
  <2>2. /\ Ask(c) \in [src : {c}, op : {"FM_NEW_FILE", "FM_READ", "DEV_READ", "DEV_WRITE"},
                        i : Arg, buf : Arg, len : {0, 1}]
        /\ Dest(c) \in Device \cup {FM}
        /\ Dest(c) = FM <=> Ask(c).op \in {"FM_NEW_FILE", "FM_READ"}
    BY <1>2, TestAskFacts
  <2>3. Ask(c) \in Msg
    BY <2>1, <2>2 DEF Msg, Operation
  <2>4. FM \notin Device
    BY Names
  <2>5. Ask(c).src = c /\ Ask(c).op \in {"FM_NEW_FILE", "FM_READ", "DEV_READ", "DEV_WRITE"}
    BY <2>2
  <2> QED
    BY <1>2, <2>1, <2>2, <2>3, <2>4, <2>5
<1> QED
  BY <1>1, <1>2 DEF Asker

\* A request depends on the locals of its thread only.
LEMMA AskFrame ==
    /\ pm' = pm => Dest(PM)' = Dest(PM) /\ Ask(PM)' = Ask(PM)
    /\ \A t \in Tester : test'[t] = test[t] => Dest(t)' = Dest(t) /\ Ask(t)' = Ask(t)
  BY ThreadFacts DEF Dest, Ask, PmAsk, TestAsk, NewPage

-----------------------------------------------------------------------------
(* A request on its way                                                     *)

\* A thread whose request is not posted has no message with a server.
LEMMA NotPosted ==
    ASSUME Types, MailInv, NEW c \in Asker, ~Posted(c)
    PROVE  /\ \A x \in Device \cup {FM} : \A m \in Box(x) : m.src # c
           /\ c = PM => Box(MM) = {}
<1>1. ASSUME NEW x \in Servers, NEW m \in Box(x), (x # MM /\ m.src = c) \/ (x = MM /\ c = PM)
      PROVE  FALSE
  <2>1. c \notin {FM, RAMDISK}
    BY Names DEF Asker, Device
  <2>2. RamAsk.src = FM /\ MM # FM /\ MM # RAMDISK
    BY Names DEF RamAsk, Req, Device
  <2>3. PICK d \in Asker : Dest(d) = x /\ m = Ask(d)
    BY <1>1, <2>1, <2>2 DEF MailInv, ServerMail
  <2>4. d = c
    BY <1>1, <2>3, AskFacts DEF AskOK
  <2> QED
    BY <1>1, <2>3, <2>4 DEF Posted
<1> QED
  BY <1>1, Names DEF Servers

\* The request FM serves is from the thread it names.
LEMMA ServedOne ==
    ASSUME Types, MailInv, fm.pc = "ram"
    PROVE  /\ fm.m.src \in Asker /\ Dest(fm.m.src) = FM /\ fm.m = Ask(fm.m.src)
           /\ fm.m.op = "FM_READ" /\ HasFile(fm.m.i) /\ Served(fm.m.src)
           /\ fm.m \in Msg
<1>1. PICK c \in Asker : Dest(c) = FM /\ fm.m = Ask(c) /\ fm.m.op = "FM_READ" /\ HasFile(fm.m.i)
  BY DEF MailInv, FmServes
<1>2. FM \in Servers /\ FM # MM
  BY Names DEF Servers
<1> QED
  BY <1>1, <1>2, AskFacts DEF Served, AskOK

\* The files keep their places.
FilesKept == \A name : HasFile(name) => HasFile(name)' /\ Oldest(name)' = Oldest(name)

\* The files stay as they are.
LEMMA FilesSame == file' = file => FilesKept
  BY DEF FilesKept, HasFile, IsOldest, Oldest

OthersKeep(c) == \A d \in Asker \ {c} : Dest(d)' = Dest(d) /\ Ask(d)' = Ask(d)

\* A client asks: its request is posted, and no answer waits for it.
LEMMA MailPost ==
    ASSUME Types, MailInv, NEW c \in Asker, NEW s \in Servers,
           Dest(c)' = s, ~Posted(c), ~Served(c),
           \A m \in Box(c)' : m \in Box(c) /\ m.op # "ret",
           NEW q, Ask(c)' = q, Request(c, s, q), Box(s)' = Box(s) \cup {q},
           \A x \in Thread \ {c, s} : Box(x)' = Box(x),
           OthersKeep(c), UNCHANGED <<fm, file>>
    PROVE  /\ MailInv'
           /\ ~Answered(c)' /\ ~Served(c)'
           /\ \A d \in Asker \ {c} : Answered(d)' = Answered(d) /\ Box(d)' = Box(d)
           /\ \A d \in Asker : Served(d)' = Served(d)
           /\ RamDone' = RamDone
<1>1. /\ q \in Msg /\ q.op # "ret" /\ q.src \notin {Idle, FM, RAMDISK}
      /\ s # MM => q.src = c
      /\ s = MM => c = PM
  BY DEF Request
<1>2. /\ fm' = fm /\ (fm.pc = "ram" => RamAsk' = RamAsk) /\ \A d \in Asker : Served(d)' = Served(d)
      /\ \A name : HasFile(name)' = HasFile(name)
  BY DEF RamAsk, Oldest, Served, HasFile, IsOldest
<1>3. c \notin Servers \cup Proc /\ s \notin Asker \cup Proc /\ Servers \subseteq Thread
      /\ Asker \subseteq Thread /\ Proc \subseteq Thread /\ c \in Thread /\ s \in Thread
      /\ FM \in Servers /\ RAMDISK \in Servers /\ FM # RAMDISK
  BY ThreadFacts, Names DEF Servers, Device
<1>4. ServerMail'
  <2> SUFFICES ASSUME NEW x \in Servers, NEW m \in Box(x)'
               PROVE  \/ \E d \in Asker : Dest(d)' = x /\ m = Ask(d)'
                      \/ fm.pc = "ram" /\ x = RAMDISK /\ m = RamAsk
                      \/ fm.pc = "ram" /\ x = FM /\ m.src = RAMDISK /\ m.op = "ret"
    BY <1>2 DEF ServerMail
  <2>1. CASE x = s /\ m = q
    BY <2>1
  <2>2. CASE m \in Box(x)
    <3>1. CASE \E d \in Asker : Dest(d) = x /\ m = Ask(d)
      <4>1. PICK d \in Asker : Dest(d) = x /\ m = Ask(d)
        BY <3>1
      <4>2. d # c
        BY <2>2, <4>1 DEF Posted
      <4> QED
        BY <4>1, <4>2 DEF OthersKeep
    <3> QED
      BY <2>2, <3>1 DEF MailInv, ServerMail
  <2> QED
    BY <1>3, <2>1, <2>2
<1>5. ClientMail'
  <2>1. ASSUME NEW d \in Asker, NEW m \in Box(d)'
        PROVE  (d = PM /\ m = NewProc) \/ (m.src = Dest(d)' /\ m.op = "ret")
    <3>1. CASE d = c
      BY <2>1, <3>1 DEF MailInv, ClientMail
    <3>2. CASE d # c
      <4>1. Dest(d)' = Dest(d) /\ m \in Box(d)
        BY <1>3, <2>1, <3>2 DEF OthersKeep
      <4> QED
        BY <4>1 DEF MailInv, ClientMail
    <3> QED
      BY <3>1, <3>2
  <2>2. \A p \in Proc : Box(p)' = {}
    BY <1>3 DEF MailInv, ClientMail
  <2> QED
    BY <2>1, <2>2 DEF ClientMail, NewProc, Req
<1>6. FmServes'
  <2> SUFFICES ASSUME fm.pc = "ram"
               PROVE  \E d \in Asker : Dest(d)' = FM /\ fm.m = Ask(d)' /\ fm.m.op = "FM_READ" /\ HasFile(fm.m.i)
    BY <1>2 DEF FmServes
  <2> DEFINE d == fm.m.src
  <2>1. d \in Asker /\ Dest(d) = FM /\ fm.m = Ask(d) /\ fm.m.op = "FM_READ" /\ HasFile(fm.m.i) /\ Served(d)
    BY ServedOne
  <2>2. PICK e \in Asker : Dest(e) = FM /\ fm.m = Ask(e) /\ e # c
    BY <2>1
  <2> QED
    BY <2>1, <2>2 DEF OthersKeep
<1>7. /\ ~Answered(c)'
      /\ \A d \in Asker \ {c} : Answered(d)' = Answered(d) /\ Box(d)' = Box(d)
      /\ RamDone' = RamDone
  <2>1. ~Answered(c)'
    BY DEF Answered
  <2>2. \A d \in Asker \ {c} : Box(d)' = Box(d)
    BY <1>3
  <2>3. \A m : m.src = RAMDISK => (m \in Box(FM)' <=> m \in Box(FM))
    BY <1>1, <1>3
  <2> QED
    BY <2>1, <2>2, <2>3 DEF Answered, RamDone, Box
<1>8. OnePlace'
  <2>1. ASSUME NEW d \in Asker PROVE AtMostOne(Posted(d), Served(d), Answered(d))'
    <3>1. CASE d = c
      BY <1>2, <1>7, <3>1 DEF AtMostOne
    <3>2. CASE d # c
      <4>1. Posted(d)' => Posted(d)
        <5> SUFFICES ASSUME NEW x \in Servers, Dest(d) = x, Ask(d) \in Box(x)'
                     PROVE  Ask(d) \in Box(x)
          BY <3>2 DEF Posted, OthersKeep, Box
        <5>1. Ask(d) # q \/ x # s
          BY <1>1, <3>2, AskFacts DEF AskOK
        <5>2. x # c /\ x \in Thread
          BY <1>3
        <5> QED
          BY <5>1, <5>2
      <4> QED
        BY <1>2, <1>7, <3>2, <4>1 DEF MailInv, OnePlace, AtMostOne
    <3> QED
      BY <3>1, <3>2
  <2>2. ASSUME fm.pc = "ram", RamAsk \in Box(RAMDISK)', RamDone' PROVE FALSE
    <3>1. RamAsk.src = FM
      BY DEF RamAsk, Req
    <3>2. RamAsk \in Box(RAMDISK)
      BY <1>1, <1>3, <2>2, <3>1
    <3> QED
      BY <1>7, <2>2, <3>2 DEF MailInv, OnePlace
  <2> QED
    BY <1>2, <2>1, <2>2 DEF OnePlace, Box
<1> QED
  BY <1>2, <1>4, <1>5, <1>6, <1>7, <1>8 DEF MailInv

\* A server answers a client.
LEMMA MailAnswer ==
    ASSUME Types, MailInv, NEW c \in Asker, NEW s \in Servers, NEW v,
           Dest(c) = s, Ask(c) \in Box(s), Box(c)' = Box(c) \cup {Ret(s, v)},
           Box(s)' \subseteq Box(s), Ask(c) \notin Box(s)',
           \A n \in Box(s) : n # Ask(c) => n \in Box(s)',
           \A x \in Thread \ {c, s} : Box(x)' = Box(x),
           UNCHANGED <<pm, test, fm>>, FilesKept
    PROVE  /\ MailInv'
           /\ Answered(c)' /\ ~Answered(c) /\ ~Served(c)
           /\ \A d \in Asker \ {c} : Answered(d)' = Answered(d) /\ Box(d)' = Box(d)
           /\ \A d \in Asker : Served(d)' = Served(d)
           /\ RamDone' = RamDone
<1>1. AskOK(c)
  BY AskFacts
<1>2. /\ \A d \in Asker : Dest(d)' = Dest(d) /\ Ask(d)' = Ask(d) /\ Served(d)' = Served(d)
      /\ fm' = fm
  BY AskFrame DEF Asker, Served
<1>3. c \notin Servers \cup Proc /\ s \notin Asker \cup Proc /\ Servers \subseteq Thread
      /\ Asker \subseteq Thread /\ Proc \subseteq Thread /\ c \in Thread /\ s \in Thread
      /\ FM \in Servers /\ RAMDISK \in Servers /\ FM # RAMDISK
  BY ThreadFacts, Names DEF Servers, Device
<1>4. Posted(c) /\ ~Answered(c) /\ ~Served(c)
  BY DEF Posted, MailInv, OnePlace, AtMostOne
<1>5. fm.pc = "ram" => HasFile(fm.m.i)' /\ RamAsk' = RamAsk /\ HasFile(fm.m.i)
  BY <1>2, ServedOne DEF FilesKept, RamAsk
<1>6. \A x \in Servers : Box(x)' \subseteq Box(x)
  BY <1>3
<1>7. ServerMail'
  <2> SUFFICES ASSUME NEW x \in Servers, NEW m \in Box(x)'
               PROVE  \/ \E d \in Asker : Dest(d) = x /\ m = Ask(d)
                      \/ fm.pc = "ram" /\ x = RAMDISK /\ m = RamAsk
                      \/ fm.pc = "ram" /\ x = FM /\ m.src = RAMDISK /\ m.op = "ret"
    BY SMT, <1>2, <1>5 DEF ServerMail
  <2>1. m \in Box(x)
    BY <1>6
  <2> QED
    BY <2>1 DEF MailInv, ServerMail
<1>8. ClientMail'
  <2>1. ASSUME NEW d \in Asker, NEW m \in Box(d)'
        PROVE  (d = PM /\ m = NewProc) \/ (m.src = Dest(d) /\ m.op = "ret")
    <3>1. CASE d = c /\ m = Ret(s, v)
      BY <3>1 DEF Ret
    <3>2. CASE m \in Box(d)
      BY <3>2 DEF MailInv, ClientMail
    <3> QED
      BY <1>3, <2>1, <3>1, <3>2
  <2>2. \A p \in Proc : Box(p)' = {}
    BY <1>3 DEF MailInv, ClientMail
  <2> QED
    BY <1>2, <2>1, <2>2 DEF ClientMail, NewProc, Req
<1>9. FmServes'
  <2> SUFFICES ASSUME fm.pc = "ram"
               PROVE  \E d \in Asker : Dest(d) = FM /\ fm.m = Ask(d) /\ fm.m.op = "FM_READ" /\ HasFile(fm.m.i)'
    BY <1>2 DEF FmServes
  <2> QED
    BY <1>5, ServedOne
<1>10. /\ Answered(c)'
       /\ \A d \in Asker \ {c} : Answered(d)' = Answered(d) /\ Box(d)' = Box(d)
       /\ RamDone' = RamDone
  <2>1. Answered(c)'
    <3>1. Ret(s, v) \in Box(c)' /\ Ret(s, v).op = "ret"
      BY DEF Ret
    <3> QED
      BY <3>1 DEF Answered
  <2>2. \A d \in Asker \ {c} : Box(d)' = Box(d)
    BY <1>3
  <2>3. \A m : m.src = RAMDISK => (m \in Box(FM)' <=> m \in Box(FM))
    BY <1>1, <1>3 DEF AskOK
  <2> QED
    BY <2>1, <2>2, <2>3 DEF Answered, RamDone, Box
<1>11. OnePlace'
  <2>1. ASSUME NEW d \in Asker PROVE AtMostOne(Posted(d), Served(d), Answered(d))'
    <3>1. Posted(d)' => Posted(d)
      <4> SUFFICES ASSUME NEW x \in Servers, Dest(d) = x, Ask(d) \in Box(x)'
                   PROVE  Ask(d) \in Box(x)
        BY <1>2 DEF Posted, Box
      <4> QED
        BY <1>6
    <3>2. CASE d = c
      <4>1. ~Posted(c)'
        BY <1>2 DEF Posted, Box
      <4> QED
        BY <1>2, <1>4, <3>2, <4>1 DEF AtMostOne
    <3>3. CASE d # c
      BY <1>2, <1>10, <3>1, <3>3 DEF MailInv, OnePlace, AtMostOne
    <3> QED
      BY <3>2, <3>3
  <2>2. ASSUME fm.pc = "ram", RamAsk \in Box(RAMDISK)', RamDone' PROVE FALSE
    BY <1>3, <1>6, <1>10, <2>2 DEF MailInv, OnePlace
  <2> QED
    BY <1>2, <1>5, <2>1, <2>2 DEF OnePlace, Box
<1> QED
  BY <1>2, <1>4, <1>7, <1>8, <1>9, <1>10, <1>11 DEF MailInv

\* FM serves a read, and asks the RAM disk.
LEMMA MailRead ==
    ASSUME Types, MailInv, NEW c \in Asker,
           Dest(c) = FM, Ask(c) \in Box(FM), Ask(c).op = "FM_READ", HasFile(Ask(c).i),
           fm.pc = "ANY", fm' = [pc |-> "ram", m |-> Ask(c)],
           Box(FM)' \subseteq Box(FM), Ask(c) \notin Box(FM)',
           Box(RAMDISK)' = Box(RAMDISK)
                \cup {Req(FM, "DEV_READ", Oldest(Ask(c).i), Ask(c).buf, Ask(c).len)},
           \A x \in Thread \ {FM, RAMDISK} : Box(x)' = Box(x),
           UNCHANGED <<pm, test, file>>
    PROVE  /\ MailInv'
           /\ Served(c)' /\ ~RamDone' /\ ~Answered(c)
           /\ \A d \in Asker : Answered(d)' = Answered(d) /\ Box(d)' = Box(d)
           /\ \A d \in Asker : ~Served(d) /\ (Served(d)' => d = c)
<1> DEFINE a == Ask(c)
           r == Req(FM, "DEV_READ", Oldest(a.i), a.buf, a.len)
<1>1. \A d \in Asker : Dest(d)' = Dest(d) /\ Ask(d)' = Ask(d)
  BY AskFrame DEF Asker
<1>2. Servers \cap (Asker \cup Proc) = {} /\ Servers \subseteq Thread
      /\ Asker \subseteq Thread /\ Proc \subseteq Thread
      /\ FM \in Servers /\ RAMDISK \in Servers /\ FM # RAMDISK /\ FM # MM
  BY ThreadFacts, Names DEF Servers, Device
<1>3. AskOK(c) /\ a.src = c
  BY <1>2, AskFacts DEF AskOK
<1>4. Posted(c) /\ ~Answered(c)
  BY <1>2 DEF Posted, MailInv, OnePlace, AtMostOne
<1>5. fm'.pc = "ram" /\ fm'.m = a /\ RamAsk' = r
  BY DEF RamAsk, Oldest
<1> HIDE DEF a, r
<1>6. ServerMail'
  <2> SUFFICES ASSUME NEW x \in Servers, NEW m \in Box(x)'
               PROVE  \/ \E d \in Asker : Dest(d) = x /\ m = Ask(d)
                      \/ x = RAMDISK /\ m = r
                      \/ x = FM /\ m.src = RAMDISK /\ m.op = "ret"
    BY SMT, <1>1, <1>5 DEF ServerMail
  <2>1. CASE x = RAMDISK /\ m = r
    BY <2>1
  <2>2. CASE m \in Box(x)
    BY <2>2 DEF MailInv, ServerMail
  <2> QED
    BY <1>2, <2>1, <2>2 DEF a, r
<1>7. ClientMail'
  <2>1. ASSUME NEW d \in Asker, NEW m \in Box(d)'
        PROVE  (d = PM /\ m = NewProc) \/ (m.src = Dest(d) /\ m.op = "ret")
    BY SMT, <1>2, <2>1 DEF MailInv, ClientMail
  <2>2. \A p \in Proc : Box(p)' = {}
    BY <1>2 DEF MailInv, ClientMail
  <2> QED
    BY <1>1, <2>1, <2>2 DEF ClientMail, NewProc, Req
<1>8. FmServes'
  <2>1. \E k \in DOMAIN file' : file'[k] = a.i
    BY DEF HasFile, IsOldest, a
  <2>2. Dest(c)' = FM /\ Ask(c)' = a /\ a.op = "FM_READ"
    BY <1>1 DEF a
  <2> QED
    BY <1>5, <2>1, <2>2 DEF FmServes, HasFile, IsOldest
<1>9. /\ Served(c)'
      /\ \A d \in Asker : ~Served(d) /\ (Served(d)' => d = c)
  BY <1>3, <1>5 DEF Served
<1>10. ~RamDone'
  <2>1. \A m \in Box(FM) : m.src # RAMDISK
    <3> SUFFICES ASSUME NEW m \in Box(FM), m.src = RAMDISK PROVE FALSE
      OBVIOUS
    <3>1. PICK d \in Asker : Dest(d) = FM /\ m = Ask(d)
      BY SMT, <1>2 DEF MailInv, ServerMail
    <3> QED
      BY <1>2, <3>1, AskFacts DEF AskOK
  <2> QED
    BY <2>1 DEF RamDone, Box
<1>11. \A d \in Asker : Answered(d)' = Answered(d) /\ Box(d)' = Box(d)
  <2>1. \A d \in Asker : Box(d)' = Box(d)
    BY <1>2
  <2> QED
    BY <2>1 DEF Answered, Box
<1>12. OnePlace'
  <2>1. ASSUME NEW d \in Asker PROVE AtMostOne(Posted(d), Served(d), Answered(d))'
    <3>1. Posted(d)' => Posted(d)
      <4> SUFFICES ASSUME NEW x \in Servers, Dest(d) = x, Ask(d) \in Box(x)'
                   PROVE  Ask(d) \in Box(x)
        BY <1>1 DEF Posted, Box
      <4>1. Ask(d).src # FM /\ r.src = FM
        BY AskFacts DEF AskOK, r, Req
      <4> QED
        BY <1>2, <4>1 DEF r, a
    <3>2. CASE d = c
      <4>1. ~Posted(c)'
        BY <1>1 DEF Posted, Box
      <4> QED
        BY <1>4, <1>11, <3>2, <4>1 DEF AtMostOne
    <3>3. CASE d # c
      BY <1>9, <1>11, <3>1, <3>3 DEF MailInv, OnePlace, AtMostOne
    <3> QED
      BY <3>2, <3>3
  <2> QED
    BY <1>10, <2>1 DEF OnePlace
<1> QED
  BY <1>4, <1>6, <1>7, <1>8, <1>9, <1>10, <1>11, <1>12 DEF MailInv

\* The RAM disk answers FM.
LEMMA MailRam ==
    ASSUME Types, MailInv, NEW v,
           fm.pc = "ram", RamAsk \in Box(RAMDISK), RamAsk \notin Box(RAMDISK)',
           Box(RAMDISK)' \subseteq Box(RAMDISK),
           Box(FM)' = Box(FM) \cup {Ret(RAMDISK, v)},
           \A x \in Thread \ {FM, RAMDISK} : Box(x)' = Box(x),
           UNCHANGED <<pm, test, fm, file>>
    PROVE  /\ MailInv'
           /\ RamDone' /\ ~RamDone
           /\ \A d \in Asker : Answered(d)' = Answered(d) /\ Box(d)' = Box(d)
           /\ \A d \in Asker : Served(d)' = Served(d)
<1>1. \A d \in Asker : Dest(d)' = Dest(d) /\ Ask(d)' = Ask(d) /\ Served(d)' = Served(d)
  BY AskFrame DEF Asker, Served
<1>2. Servers \cap (Asker \cup Proc) = {} /\ Servers \subseteq Thread
      /\ Asker \subseteq Thread /\ Proc \subseteq Thread
      /\ FM \in Servers /\ RAMDISK \in Servers /\ FM # RAMDISK
  BY ThreadFacts, Names DEF Servers, Device
<1>3. fm' = fm /\ RamAsk' = RamAsk /\ \A name : HasFile(name)' = HasFile(name)
  BY DEF RamAsk, Oldest, HasFile, IsOldest
<1>4. ServerMail'
  <2> SUFFICES ASSUME NEW x \in Servers, NEW m \in Box(x)'
               PROVE  \/ \E d \in Asker : Dest(d) = x /\ m = Ask(d)
                      \/ x = RAMDISK /\ m = RamAsk
                      \/ x = FM /\ m.src = RAMDISK /\ m.op = "ret"
    BY <1>1, <1>3 DEF ServerMail
  <2>1. CASE x = FM /\ m = Ret(RAMDISK, v)
    BY <2>1 DEF Ret
  <2>2. CASE m \in Box(x)
    BY <2>2 DEF MailInv, ServerMail
  <2> QED
    BY <1>2, <2>1, <2>2
<1>5. ClientMail'
  <2>1. ASSUME NEW d \in Asker, NEW m \in Box(d)'
        PROVE  (d = PM /\ m = NewProc) \/ (m.src = Dest(d) /\ m.op = "ret")
    BY <1>2, <2>1 DEF MailInv, ClientMail
  <2>2. \A p \in Proc : Box(p)' = {}
    BY <1>2 DEF MailInv, ClientMail
  <2> QED
    BY <1>1, <2>1, <2>2 DEF ClientMail, NewProc, Req
<1>6. FmServes'
  BY <1>1, <1>3 DEF MailInv, FmServes
<1>7. RamDone' /\ ~RamDone
  <2>1. Ret(RAMDISK, v) \in Box(FM)' /\ Ret(RAMDISK, v).src = RAMDISK
    BY DEF Ret
  <2>2. RamDone'
    BY <2>1 DEF RamDone
  <2> QED
    BY <2>2 DEF MailInv, OnePlace
<1>8. \A d \in Asker : Answered(d)' = Answered(d) /\ Box(d)' = Box(d)
  <2>1. \A d \in Asker : Box(d)' = Box(d)
    BY <1>2
  <2> QED
    BY <2>1 DEF Answered, Box
<1>9. OnePlace'
  <2>1. ASSUME NEW d \in Asker PROVE AtMostOne(Posted(d), Served(d), Answered(d))'
    <3>1. Posted(d)' => Posted(d)
      <4> SUFFICES ASSUME NEW x \in Servers, Dest(d) = x, Ask(d) \in Box(x)'
                   PROVE  Ask(d) \in Box(x)
        BY <1>1 DEF Posted, Box
      <4>1. Ask(d).src # RAMDISK /\ Ret(RAMDISK, v).src = RAMDISK
        BY AskFacts DEF AskOK, Ret
      <4> QED
        BY <1>2, <4>1
    <3> QED
      BY <1>1, <1>8, <3>1 DEF MailInv, OnePlace, AtMostOne
  <2> QED
    BY <1>3, <2>1 DEF OnePlace, Box
<1> QED
  BY <1>1, <1>4, <1>5, <1>6, <1>7, <1>8, <1>9 DEF MailInv

\* A mailbox has at most one message of a thread.
LEMMA OneOfEach ==
    ASSUME Types, SrcUnique, NEW x \in Thread, NEW m \in Box(x), NEW n \in Box(x),
           m.src = n.src, m.src # Idle
    PROVE  m = n
<1>1. inbox[x] \in Seq(Msg) /\ DOMAIN inbox[x] = 1..Len(inbox[x])
  BY SeqLength DEF Types
<1>2. PICK j \in 1..Len(inbox[x]), k \in 1..Len(inbox[x]) : m = inbox[x][j] /\ n = inbox[x][k]
  BY <1>1 DEF Box, Range
<1>3. Unique(inbox[x])
  BY DEF SrcUnique
<1> QED
  BY <1>2, <1>3 DEF Unique

\* FM answers the reader.
LEMMA MailReadDone ==
    ASSUME Types, MailInv, NEW c \in Asker, NEW v,
           fm.pc = "ram", c = fm.m.src, RamDone, fm' = [pc |-> "ANY"],
           \A n \in Box(FM)' : n \in Box(FM) /\ n.src # RAMDISK,
           Box(c)' = Box(c) \cup {Ret(FM, v)},
           \A x \in Thread \ {FM, c} : Box(x)' = Box(x),
           UNCHANGED <<pm, test, file>>
    PROVE  /\ MailInv'
           /\ Answered(c)' /\ ~Answered(c) /\ Served(c)
           /\ \A d \in Asker \ {c} : Answered(d)' = Answered(d) /\ Box(d)' = Box(d)
           /\ \A d \in Asker : ~Served(d)' /\ (Served(d) => d = c)
<1>1. \A d \in Asker : Dest(d)' = Dest(d) /\ Ask(d)' = Ask(d)
  BY AskFrame DEF Asker
<1>2. Servers \cap (Asker \cup Proc) = {} /\ Servers \subseteq Thread
      /\ Asker \subseteq Thread /\ Proc \subseteq Thread
      /\ FM \in Servers /\ RAMDISK \in Servers /\ FM # RAMDISK
  BY ThreadFacts, Names DEF Servers, Device
<1>3. fm'.pc # "ram" /\ \A d \in Asker : ~Served(d)' /\ (Served(d) => d = c)
  BY DEF Served
<1>4. Dest(c) = FM /\ Served(c) /\ ~Answered(c) /\ ~Posted(c)
  BY ServedOne DEF MailInv, OnePlace, AtMostOne
<1>5. ServerMail'
  <2> SUFFICES ASSUME NEW x \in Servers, NEW m \in Box(x)'
               PROVE  \E d \in Asker : Dest(d) = x /\ m = Ask(d)
    BY SMT, <1>1 DEF ServerMail
  <2>1. m \in Box(x) /\ (x = FM => m.src # RAMDISK)
    BY <1>2
  <2>2. x = RAMDISK => m # RamAsk
    BY <2>1 DEF MailInv, OnePlace
  <2> QED
    BY <2>1, <2>2 DEF MailInv, ServerMail
<1>6. ClientMail'
  <2>1. ASSUME NEW d \in Asker, NEW m \in Box(d)'
        PROVE  (d = PM /\ m = NewProc) \/ (m.src = Dest(d) /\ m.op = "ret")
    <3>1. CASE d = c /\ m = Ret(FM, v)
      BY <1>4, <3>1 DEF Ret
    <3>2. CASE m \in Box(d)
      BY <3>2 DEF MailInv, ClientMail
    <3> QED
      BY <1>2, <2>1, <3>1, <3>2
  <2>2. \A p \in Proc : Box(p)' = {}
    BY <1>2, ThreadFacts DEF MailInv, ClientMail
  <2> QED
    BY <1>1, <2>1, <2>2 DEF ClientMail, NewProc, Req
<1>7. FmServes'
  BY <1>3 DEF FmServes
<1>8. /\ Answered(c)'
      /\ \A d \in Asker \ {c} : Answered(d)' = Answered(d) /\ Box(d)' = Box(d)
  <2>1. Answered(c)'
    <3>1. Ret(FM, v) \in Box(c)' /\ Ret(FM, v).op = "ret"
      BY DEF Ret
    <3> QED
      BY <3>1 DEF Answered
  <2>2. \A d \in Asker \ {c} : Box(d)' = Box(d)
    BY <1>2
  <2> QED
    BY <2>1, <2>2 DEF Answered, Box
<1>9. OnePlace'
  <2>1. ASSUME NEW d \in Asker PROVE AtMostOne(Posted(d), Served(d), Answered(d))'
    <3>1. Posted(d)' => Posted(d)
      <4> SUFFICES ASSUME NEW x \in Servers, Dest(d) = x, Ask(d) \in Box(x)'
                   PROVE  Ask(d) \in Box(x)
        BY <1>1 DEF Posted, Box
      <4> QED
        BY <1>2
    <3>2. CASE d = c
      BY <1>3, <1>4, <3>1, <3>2 DEF AtMostOne
    <3>3. CASE d # c
      BY <1>3, <1>8, <3>1, <3>3 DEF MailInv, OnePlace, AtMostOne
    <3> QED
      BY <3>2, <3>3
  <2> QED
    BY <1>3, <2>1 DEF OnePlace
<1> QED
  BY <1>3, <1>4, <1>5, <1>6, <1>7, <1>8, <1>9 DEF MailInv

\* A client takes its last answer.
LEMMA MailEnd ==
    ASSUME Types, MailInv, NEW c \in Asker, Dest(c)' \notin Servers,
           ~Posted(c), ~Served(c),
           \A m \in Box(c)' : m \in Box(c) /\ m.op # "ret",
           \A x \in Thread \ {c} : Box(x)' = Box(x),
           OthersKeep(c), UNCHANGED <<fm, file>>
    PROVE  /\ MailInv'
           /\ ~Answered(c)' /\ ~Served(c)'
           /\ \A d \in Asker \ {c} : Answered(d)' = Answered(d) /\ Box(d)' = Box(d)
           /\ \A d \in Asker : Served(d)' = Served(d)
           /\ RamDone' = RamDone
<1>1. Servers \cap (Asker \cup Proc) = {} /\ Servers \subseteq Thread
      /\ Asker \subseteq Thread /\ Proc \subseteq Thread /\ Asker \cap Proc = {}
      /\ FM \in Servers /\ RAMDISK \in Servers
  BY ThreadFacts, Names DEF Servers, Device
<1>2. /\ fm' = fm /\ (fm.pc = "ram" => RamAsk' = RamAsk) /\ \A d \in Asker : Served(d)' = Served(d)
      /\ \A name : HasFile(name)' = HasFile(name)
  BY DEF RamAsk, Oldest, Served, HasFile, IsOldest
<1>3. ServerMail'
  <2> SUFFICES ASSUME NEW x \in Servers, NEW m \in Box(x)
               PROVE  \/ \E d \in Asker : Dest(d)' = x /\ m = Ask(d)'
                      \/ fm.pc = "ram" /\ x = RAMDISK /\ m = RamAsk
                      \/ fm.pc = "ram" /\ x = FM /\ m.src = RAMDISK /\ m.op = "ret"
    BY SMT, <1>1, <1>2 DEF ServerMail
  <2>1. CASE \E d \in Asker : Dest(d) = x /\ m = Ask(d)
    <3>1. PICK d \in Asker : Dest(d) = x /\ m = Ask(d)
      BY <2>1
    <3>2. d # c
      BY <3>1 DEF Posted
    <3> QED
      BY <3>1, <3>2 DEF OthersKeep
  <2> QED
    BY <2>1 DEF MailInv, ServerMail
<1>4. ClientMail'
  <2>1. ASSUME NEW d \in Asker, NEW m \in Box(d)'
        PROVE  (d = PM /\ m = NewProc) \/ (m.src = Dest(d)' /\ m.op = "ret")
    <3>1. CASE d = c
      BY <2>1, <3>1 DEF MailInv, ClientMail
    <3>2. CASE d # c
      <4>1. Dest(d)' = Dest(d) /\ m \in Box(d)
        BY <1>1, <2>1, <3>2 DEF OthersKeep
      <4> QED
        BY <4>1 DEF MailInv, ClientMail
    <3> QED
      BY <3>1, <3>2
  <2>2. \A p \in Proc : Box(p)' = {}
    BY <1>1 DEF MailInv, ClientMail
  <2> QED
    BY <2>1, <2>2 DEF ClientMail, NewProc, Req
<1>5. FmServes'
  <2> SUFFICES ASSUME fm.pc = "ram"
               PROVE  \E d \in Asker : Dest(d)' = FM /\ fm.m = Ask(d)' /\ fm.m.op = "FM_READ" /\ HasFile(fm.m.i)
    BY <1>2 DEF FmServes
  <2>1. PICK e \in Asker : Dest(e) = FM /\ fm.m = Ask(e) /\ fm.m.op = "FM_READ" /\ HasFile(fm.m.i) /\ e # c
    BY ServedOne
  <2> QED
    BY <2>1 DEF OthersKeep
<1>6. /\ ~Answered(c)'
      /\ \A d \in Asker \ {c} : Answered(d)' = Answered(d) /\ Box(d)' = Box(d)
      /\ RamDone' = RamDone
  <2>1. ~Answered(c)'
    BY DEF Answered
  <2>2. (\A d \in Asker \ {c} : Box(d)' = Box(d)) /\ Box(FM)' = Box(FM)
    BY <1>1
  <2> QED
    BY <2>1, <2>2 DEF Answered, RamDone, Box
<1>7. OnePlace'
  <2>1. ASSUME NEW d \in Asker PROVE AtMostOne(Posted(d), Served(d), Answered(d))'
    <3>1. CASE d = c
      BY <1>2, <1>6, <3>1 DEF AtMostOne
    <3>2. CASE d # c
      <4>1. Posted(d)' => Posted(d)
        <5> SUFFICES ASSUME NEW x \in Servers, Dest(d) = x, Ask(d) \in Box(x)'
                     PROVE  Ask(d) \in Box(x)
          BY <3>2 DEF Posted, OthersKeep, Box
        <5> QED
          BY <1>1
      <4> QED
        BY <1>2, <1>6, <3>2, <4>1 DEF MailInv, OnePlace, AtMostOne
    <3> QED
      BY <3>1, <3>2
  <2>2. Box(RAMDISK)' = Box(RAMDISK)
    BY <1>1
  <2> QED
    BY <1>2, <1>6, <2>1, <2>2 DEF MailInv, OnePlace, Box
<1> QED
  BY <1>2, <1>3, <1>4, <1>5, <1>6, <1>7 DEF MailInv

\* A step that leaves the mail alone, but for a call of create_process.
LEMMA MailSame ==
    ASSUME MailInv, Box(PM)' \subseteq Box(PM) \cup {NewProc}, Box(PM) \subseteq Box(PM)',
           \A x \in Thread \ {PM} : Box(x)' = Box(x),
           UNCHANGED <<fm, file, pm, test>>
    PROVE  /\ MailInv'
           /\ \A d \in Asker : Answered(d)' = Answered(d) /\ Served(d)' = Served(d)
           /\ RamDone' = RamDone
<1>1. Servers \cap (Asker \cup Proc) = {} /\ Servers \subseteq Thread
      /\ Asker \subseteq Thread /\ Proc \subseteq Thread /\ Asker \cap Proc = {}
      /\ FM \in Servers /\ RAMDISK \in Servers /\ PM \in Asker
  BY ThreadFacts, Names DEF Servers, Device, Asker
<1>2. \A d \in Asker : Dest(d)' = Dest(d) /\ Ask(d)' = Ask(d)
  BY AskFrame DEF Asker
<1>3. /\ fm' = fm /\ (fm.pc = "ram" => RamAsk' = RamAsk) /\ \A d \in Asker : Served(d)' = Served(d)
      /\ \A name : HasFile(name)' = HasFile(name)
  BY DEF RamAsk, Oldest, Served, HasFile, IsOldest
<1>4. \A x \in Servers : Box(x)' = Box(x)
  BY <1>1
<1>5. ServerMail'
  BY SMT, <1>2, <1>3, <1>4 DEF MailInv, ServerMail
<1>6. ClientMail'
  <2>1. ASSUME NEW d \in Asker, NEW m \in Box(d)'
        PROVE  (d = PM /\ m = NewProc) \/ (m.src = Dest(d) /\ m.op = "ret")
    <3>1. CASE d = PM /\ m = NewProc
      BY <3>1
    <3>2. CASE m \in Box(d)
      BY <3>2 DEF MailInv, ClientMail
    <3> QED
      BY <1>1, <2>1, <3>1, <3>2
  <2>2. \A p \in Proc : Box(p)' = {}
    BY <1>1 DEF MailInv, ClientMail
  <2> QED
    BY <1>2, <2>1, <2>2 DEF ClientMail, NewProc, Req
<1>7. FmServes'
  BY <1>2, <1>3 DEF MailInv, FmServes
<1>8. \A d \in Asker : Answered(d)' = Answered(d)
  <2>1. NewProc.op # "ret"
    BY DEF NewProc, Req
  <2>2. ASSUME NEW d \in Asker, NEW m, m.op = "ret" PROVE m \in Box(d)' <=> m \in Box(d)
    BY <1>1, <2>1, <2>2
  <2> QED
    BY <2>2 DEF Answered
<1>9. RamDone' = RamDone
  BY <1>1, <1>4 DEF RamDone, Box
<1>10. OnePlace'
  <2>1. ASSUME NEW d \in Asker PROVE AtMostOne(Posted(d), Served(d), Answered(d))'
    <3>1. Posted(d)' => Posted(d)
      <4> SUFFICES ASSUME NEW x \in Servers, Dest(d) = x, Ask(d) \in Box(x)'
                   PROVE  Ask(d) \in Box(x)
        BY <1>2 DEF Posted, Box
      <4> QED
        BY <1>4
    <3> QED
      BY <1>3, <1>8, <3>1 DEF MailInv, OnePlace, AtMostOne
  <2>2. Box(RAMDISK)' = Box(RAMDISK)
    BY <1>1, <1>4
  <2> QED
    BY <1>3, <1>9, <2>1, <2>2 DEF MailInv, OnePlace, Box
<1> QED
  BY <1>3, <1>5, <1>6, <1>7, <1>8, <1>9, <1>10 DEF MailInv

-----------------------------------------------------------------------------
(* Memory                                                                   *)

\* The kernel reaches every page at its physical address and at KOFFSET above.
LEMMA KernelPage ==
    ASSUME SpaceInv, NEW pg \in Page
    PROVE  KPage(pg) = pg /\ KPage(pa_to_va(pg)) = pg
<1>1. /\ NR_PDE \in Nat /\ PHY_PD \in Nat /\ KOFFSET \in Nat /\ NR_PTE \in Nat
      /\ PHY_PD <= KOFFSET /\ KOFFSET + PHY_PD <= NR_PDE
  BY PagingAssumption
<1>2. pg[1] \in Region /\ pg[2] \in Idx /\ pg = <<pg[1], pg[2]>>
  BY SMT DEF Page
<1>3. ptable[pg[1]] = [i \in Idx |-> <<pg[1], i>>]
  BY <1>2 DEF SpaceInv
<1>4. pg[1] \in Dir /\ pg[1] + KOFFSET \in Dir /\ kpdir[pg[1]] = pg[1] /\ kpdir[pg[1] + KOFFSET] = pg[1]
      /\ pg[1] # Invalid
  BY SMT, <1>1, <1>2 DEF kpdir, Region, Dir, Invalid
<1> QED
  BY <1>2, <1>3, <1>4 DEF KPage, Walk, pa_to_va

\* A step writes at most page w.
MemKept(w) == mem' \in [Page -> Value] /\ \A pg \in Page : pg # w => mem'[pg] = mem[pg]

\* A write changes one page.
LEMMA StoreOne ==
    ASSUME Types, NEW w \in Page, NEW va, KPage(va) = w, NEW x \in Value, mem' = Store(va, x)
    PROVE  MemKept(w) /\ mem'[w] = x
<1>1. mem \in [Page -> Value]
  BY DEF Types
<1>2. mem' = [mem EXCEPT ![w] = x]
  BY DEF Store
<1> QED
  BY <1>1, <1>2 DEF MemKept

\* No write changes none.
LEMMA StoreNone ==
    ASSUME Types, mem' = mem, NEW w PROVE MemKept(w)
  BY DEF Types, MemKept

\* The frames of the address spaces.
LEMMA FramePage ==
    ASSUME NEW v \in 1..N_KERNEL_PTE, NEW i \in Idx
    PROVE  <<FRAME + v, i>> \in Page /\ \A u \in DOMAIN PageOf : PageOf[u] # <<FRAME + v, i>>
<1>1. /\ FRAME \in Nat /\ PHY_PD \in Nat /\ N_KERNEL_PTE \in Nat /\ FRAME + N_KERNEL_PTE < PHY_PD
  BY PagingAssumption
<1>2. FRAME + v \in Region
  BY SMT, <1>1 DEF Region
<1>3. \A u \in DOMAIN PageOf : PageOf[u][1] <= FRAME - 1
  BY SMT, <1>1, PageOfAssumption
<1>4. \A u \in DOMAIN PageOf : PageOf[u] # <<FRAME + v, i>>
  BY SMT, <1>1, <1>3
<1> QED
  BY <1>2, <1>4 DEF Page

\* Writing one of the kernel's pages leaves the other ones and the programs alone.
LEMMA KernelWrite ==
    ASSUME NEW v \in DOMAIN PageOf, MemKept(PageOf[v])
    PROVE  /\ \A u \in DOMAIN PageOf : u # v => mem'[PageOf[u]] = mem[PageOf[u]]
           /\ \A n \in 1..N_KERNEL_PTE, i \in Idx : mem'[<<FRAME + n, i>>] = mem[<<FRAME + n, i>>]
<1>1. \A u \in DOMAIN PageOf : PageOf[u] \in Page /\ (u # v => PageOf[u] # PageOf[v])
  BY PageFacts, PageOfAssumption
<1>2. \A n \in 1..N_KERNEL_PTE, i \in Idx : <<FRAME + n, i>> \in Page /\ <<FRAME + n, i>> # PageOf[v]
  BY FramePage
<1> QED
  BY <1>1, <1>2 DEF MemKept

\* The sizes of MM's and FM's tables.
LEMMA SizeFacts ==
    ASSUME Types, SpaceInv
    PROVE  /\ vmem_free \in Nat /\ Len(file) \in Nat
           /\ vmem_free <= Len(file) /\ vmem_free <= N_KERNEL_PTE /\ N_KERNEL_PTE \in Nat
           /\ Filed => vmem_free < Len(file)
           /\ Len(file) <= NR_MAX_FILE /\ NR_MAX_FILE \in Nat /\ NR_MAX_FILE <= N_KERNEL_PTE
           /\ OldSpaces \in Nat /\ OldSpaces <= vmem_free
           /\ Made => vmem_free > 0 /\ OldSpaces = vmem_free - 1
<1>1. vmem_free \in Nat /\ Len(file) \in Nat
  BY SeqLength DEF Types, vmem_free
<1>2. NR_MAX_FILE \in Nat /\ N_KERNEL_PTE \in Nat /\ NR_MAX_FILE <= N_KERNEL_PTE /\ Len(file) <= NR_MAX_FILE
  BY ServicesAssumption, PagingAssumption DEF Types
<1>3. vmem_free + (IF Filed THEN 1 ELSE 0) <= Len(file) /\ (Made => vmem_free > 0)
  BY DEF SpaceInv
<1>4. OldSpaces = IF Made THEN vmem_free - 1 ELSE vmem_free
  BY DEF OldSpaces
<1> QED
  BY SMT, <1>1, <1>2, <1>3, <1>4

-----------------------------------------------------------------------------
(* What a step leaves alone                                                 *)

\* What the tests see.
LEMMA TestFrame ==
    ASSUME NEW t \in Tester, TestOne(t), test'[t] = test[t], FilesKept,
           mem'[PageOf[t]] = mem[PageOf[t]], Box(t)' = Box(t),
           ReadDone(t)' => ReadDone(t)
    PROVE  TestOne(t)'
<1>1. Answered(t)' = Answered(t)
  BY DEF Answered, Box
<1>2. Seen(t) => Seen(t)'
  BY DEF Seen, FilesKept
<1> QED
  BY <1>1, <1>2 DEF TestOne, Box

\* The address spaces.
LEMMA SpaceFrame ==
    ASSUME Types, SpaceInv, UNCHANGED <<pdir, ptable, cr3, stat, pm>>,
           Len(file)' \in Nat, Len(file)' >= Len(file),
           pm.pc \in {"created", "cr3", "page"} =>
              (\A m \in Box(PM)' : m.op = "ret" => m \in Box(PM)) /\ Answered(PM)' = Answered(PM)
    PROVE  SpaceInv'
<1>1. /\ Made' = Made /\ Filed' = Filed /\ vmem_free' = vmem_free /\ OldSpaces' = OldSpaces
      /\ Home' = Home /\ Started' = Started
      /\ \A k : TableOf(k)' = TableOf(k)
  BY DEF Made, Filed, vmem_free, OldSpaces, Home, Started, TableOf
<1>2. vmem_free + (IF Filed THEN 1 ELSE 0) <= Len(file) /\ vmem_free \in Nat /\ Len(file) \in Nat
  BY SizeFacts DEF SpaceInv
<1>3. vmem_free' + (IF Filed' THEN 1 ELSE 0) <= Len(file)'
  BY SMT, <1>1, <1>2
<1> QED
  BY <1>1, <1>3 DEF SpaceInv

\* The page PM loads a segment to.
LEMMA LoadPage ==
    ASSUME Types, SpaceInv, pm.pc = "load"
    PROVE  pm.pa = Home /\ vmem_free \in 1..N_KERNEL_PTE /\ Segments[pm.entry].vaddr[2] \in Idx
<1>1. pm.pa = Home
  BY DEF SpaceInv
<1>2. Made /\ pm.entry \in 1..Len(Segments)
  BY DEF Made, Types
<1>3. vmem_free \in 1..N_KERNEL_PTE
  BY SMT, <1>2, SizeFacts
<1> QED
  BY <1>1, <1>2, <1>3, SegmentFacts

\* The programs of the processes, while PM may read its file.
LEMMA ProgramKept ==
    ASSUME Types, SpaceInv, ProgramInv, UNCHANGED <<pdir, cr3, stat, pm>>, FilesKept,
           stop' = "illegal_elf" => file' # <<>> /\ file'[1] # 1,
           \A n \in 1..N_KERNEL_PTE, k \in DOMAIN Segments :
              InPlace(k, n) /\ (n = vmem_free /\ k = pm.entry => pm.pc # "load") => InPlace(k, n)',
           pm.pc = "elf" /\ ReadDone(PM)' => HasFile(1) /\ (mem'[PageOf[PM]] = "elf" <=> Oldest(1) = 0),
           pm.pc = "load" /\ ReadDone(PM)' /\ Segments[pm.entry].filesz = 1 => mem'[pm.pa] = "elf"
    PROVE  ProgramInv'
<1>1. /\ vmem_free' = vmem_free /\ Started' = Started /\ pm' = pm /\ cr3' = cr3
  BY DEF vmem_free, Started
<1>2. \A p \in Started : cr3[p] \in 1..N_KERNEL_PTE /\ (pm.pc = "load" => cr3[p] # vmem_free)
  <2> SUFFICES ASSUME NEW p \in Started
               PROVE  cr3[p] \in 1..N_KERNEL_PTE /\ (pm.pc = "load" => cr3[p] # vmem_free)
    OBVIOUS
  <2>1. cr3[p] \in 1..OldSpaces /\ (pm.pc = "load" => Made)
    BY DEF SpaceInv, Made
  <2> QED
    BY SMT, <2>1, SizeFacts
<1>3. pm.pc \in {"page", "load"} => /\ vmem_free \in 1..N_KERNEL_PTE
                                    /\ \A k \in 1..(pm.entry - 1) : k \in DOMAIN Segments /\ k # pm.entry
  <2>1. DOMAIN Segments = 1..Len(Segments) /\ Len(Segments) \in Nat
    BY SegmentsAssumption, SeqLength
  <2>2. pm.pc \in {"page", "load"} => pm.entry \in 1..Len(Segments) /\ Made
    BY DEF Types, Made
  <2> QED
    BY SMT, <2>1, <2>2, SizeFacts
<1>4. (\A p \in Started : \A k \in DOMAIN Segments : InPlace(k, cr3[p]))'
  BY <1>1, <1>2 DEF ProgramInv
<1>5. (pm.pc \in {"page", "load"} => \A k \in 1..(pm.entry - 1) : InPlace(k, vmem_free))'
  BY <1>1, <1>3 DEF ProgramInv
<1>6. pm'.pc = "elf" /\ ReadDone(PM)' => HasFile(1)' /\ (mem'[PageOf[PM]] = "elf" <=> Oldest(1)' = 0)
  BY <1>1 DEF ProgramInv, FilesKept
<1>7. pm'.pc \in {"cr3", "page", "load"} => HasFile(1)' /\ Oldest(1)' = 0
  BY <1>1 DEF ProgramInv, FilesKept
<1>8. pm'.pc = "load" /\ ReadDone(PM)' /\ Segments[pm'.entry].filesz = 1 => mem'[pm'.pa] = "elf"
  BY <1>1 DEF ProgramInv
<1> QED
  BY <1>4, <1>5, <1>6, <1>7, <1>8 DEF ProgramInv

\* Steps that touch no program.
LEMMA ProgramFrame ==
    ASSUME Types, SpaceInv, ProgramInv, UNCHANGED <<pdir, cr3, stat, pm>>, FilesKept,
           stop' = "illegal_elf" => file' # <<>> /\ file'[1] # 1,
           \A n \in 1..N_KERNEL_PTE, k \in DOMAIN Segments : InPlace(k, n) => InPlace(k, n)',
           mem'[PageOf[PM]] = mem[PageOf[PM]],
           pm.pc = "load" => mem'[pm.pa] = mem[pm.pa],
           ReadDone(PM)' => ReadDone(PM)
    PROVE  ProgramInv'
<1>1. pm.pc = "elf" /\ ReadDone(PM)' => HasFile(1) /\ (mem'[PageOf[PM]] = "elf" <=> Oldest(1) = 0)
  BY DEF ProgramInv
<1>2. pm.pc = "load" /\ ReadDone(PM)' /\ Segments[pm.entry].filesz = 1 => mem'[pm.pa] = "elf"
  BY DEF ProgramInv
<1> QED
  BY <1>1, <1>2, ProgramKept

\* Writing one of the kernel's pages leaves the programs alone.
LEMMA KernelWriteInPlace ==
    ASSUME Types, SpaceInv, NEW v \in DOMAIN PageOf, MemKept(PageOf[v])
    PROVE  /\ \A n \in 1..N_KERNEL_PTE, k \in DOMAIN Segments : InPlace(k, n) => InPlace(k, n)'
           /\ pm.pc = "load" => mem'[pm.pa] = mem[pm.pa]
<1>1. \A n \in 1..N_KERNEL_PTE, i \in Idx : mem'[<<FRAME + n, i>>] = mem[<<FRAME + n, i>>]
  BY KernelWrite
<1>2. \A n \in 1..N_KERNEL_PTE, k \in DOMAIN Segments : InPlace(k, n) => InPlace(k, n)'
  <2>1. DOMAIN Segments = 1..Len(Segments)
    BY SegmentsAssumption, SeqLength
  <2>2. \A k \in DOMAIN Segments : Segments[k].vaddr[2] \in Idx
    BY <2>1, SegmentFacts
  <2> QED
    BY <1>1, <2>2 DEF InPlace
<1>3. ASSUME pm.pc = "load" PROVE mem'[pm.pa] = mem[pm.pa]
  <2>1. pm.pa = Home /\ vmem_free \in 1..N_KERNEL_PTE /\ Segments[pm.entry].vaddr[2] \in Idx
    BY <1>3, LoadPage
  <2> QED
    BY SMT, <1>1, <2>1 DEF Home
<1> QED
  BY <1>2, <1>3

\* PM's load writes a page that holds nothing yet.
LEMMA LoadWrite ==
    ASSUME Types, SpaceInv, pm.pc = "load", MemKept(pm.pa),
           mem' = mem \/ Segments[pm.entry].memsz = 1
    PROVE  /\ \A u \in DOMAIN PageOf : mem'[PageOf[u]] = mem[PageOf[u]]
           /\ \A n \in 1..N_KERNEL_PTE, k \in DOMAIN Segments :
                 InPlace(k, n) /\ ~(n = vmem_free /\ k = pm.entry) => InPlace(k, n)'
<1>1. pm.pa = Home /\ vmem_free \in 1..N_KERNEL_PTE /\ Segments[pm.entry].vaddr[2] \in Idx
  BY LoadPage
<1>2. \A u \in DOMAIN PageOf : mem'[PageOf[u]] = mem[PageOf[u]]
  <2>1. \A u \in DOMAIN PageOf : PageOf[u] \in Page /\ PageOf[u] # pm.pa
    BY <1>1, FramePage, PageFacts DEF Home
  <2> QED
    BY <2>1 DEF MemKept
<1>3. ASSUME NEW n \in 1..N_KERNEL_PTE, NEW k \in DOMAIN Segments, InPlace(k, n),
             ~(n = vmem_free /\ k = pm.entry)
      PROVE  InPlace(k, n)'
  <2> DEFINE s == Segments[k]
             pg == <<FRAME + n, s.vaddr[2]>>
  <2>1. DOMAIN Segments = 1..Len(Segments)
    BY SegmentsAssumption, SeqLength
  <2>2. s.vaddr[2] \in Idx /\ s.filesz \in {0, 1} /\ s.memsz \in {0, 1} /\ s.filesz <= s.memsz
    BY <2>1, SegmentFacts
  <2>3. pg \in Page
    BY <2>2, FramePage
  <2>4. CASE mem' = mem
    BY <1>3, <2>4 DEF InPlace
  <2>5. CASE s.memsz = 0
    BY SMT, <2>2, <2>5 DEF InPlace
  <2>6. CASE s.memsz = 1 /\ Segments[pm.entry].memsz = 1
    <3>1. n = vmem_free => s.vaddr[2] # Segments[pm.entry].vaddr[2]
      <4>1. pm.entry \in DOMAIN Segments
        BY <2>1 DEF Types
      <4> QED
        BY <1>3, <2>6, <4>1, SegmentsAssumption
    <3>2. FRAME \in Nat
      BY PagingAssumption
    <3>3. pg # pm.pa
      BY SMT, <1>1, <3>1, <3>2 DEF Home
    <3>4. mem'[pg] = mem[pg]
      BY <2>3, <3>3 DEF MemKept
    <3> QED
      BY <1>3, <3>4 DEF InPlace
  <2> QED
    BY <2>2, <2>4, <2>5, <2>6
<1> QED
  BY <1>2, <1>3

\* Where a process finds its pages: in its own table, or in the kernel's.
LEMMA DirEntry ==
    ASSUME Types, SpaceInv, NEW k \in 1..vmem_free, NEW d \in Dir
    PROVE  /\ DirOf(k) = new_pdir(k - 1)
           /\ ~IsKernelEntry(d) => DirOf(k)[d] = PHY_PD + k - 1
           /\ IsKernelEntry(d) => DirOf(k)[d] = d - KOFFSET /\ d - KOFFSET \in Region
<1>1. /\ NR_PDE \in Nat /\ PHY_PD \in Nat /\ KOFFSET \in Nat /\ KERNEL_PD \in Nat /\ N_KERNEL_PTE \in Nat
      /\ PHY_PD <= KOFFSET /\ KERNEL_PD <= PHY_PD /\ vmem_free \in Nat
  BY PagingAssumption, SizeFacts
<1>2. DirOf(k) = new_pdir(k - 1)
  BY SMT, <1>1 DEF DirOf, SpaceInv, vmem_free
<1>3. new_pdir(k - 1)[d] = IF IsKernelEntry(d) THEN kpdir[d] ELSE PHY_PD + (k - 1)
  BY DEF new_pdir
<1>4. ASSUME IsKernelEntry(d) PROVE kpdir[d] = d - KOFFSET /\ d - KOFFSET \in Region
  <2>1. d \in Int /\ d - KOFFSET \in Region /\ ~(d < PHY_PD)
    BY SMT, <1>1, <1>4 DEF Region, Dir, IsKernelEntry
  <2> QED
    BY <2>1 DEF kpdir
<1> QED
  BY <1>1, <1>2, <1>3, <1>4

\* A step that answers nobody and writes no buffer.
LEMMA QuietStep ==
    ASSUME ServicesInv, UNCHANGED <<disk, svcVars, pm, fm, test>>,
           inbox' \in [Thread -> Seq(Msg)], SrcUnique',
           Box(PM)' \subseteq Box(PM) \cup {NewProc}, Box(PM) \subseteq Box(PM)',
           \A x \in Thread \ {PM} : Box(x)' = Box(x),
           mem' \in [Page -> Value],
           \A u \in DOMAIN PageOf : mem'[PageOf[u]] = mem[PageOf[u]],
           \A n \in 1..N_KERNEL_PTE, k \in DOMAIN Segments : InPlace(k, n) => InPlace(k, n)',
           pm.pc = "load" => mem'[pm.pa] = mem[pm.pa],
           stop' = "illegal_elf" => file' # <<>> /\ file'[1] # 1
    PROVE  ServicesInv'
<1> USE DEF ServicesInv
<1>1. UNCHANGED <<file, hash_table, pdir, ptable, cr3, stat>> /\ PM \in Asker /\ PM \notin Tester
      /\ Tester \subseteq Thread
  BY ThreadFacts DEF svcVars, Asker
<1>2. /\ MailInv'
      /\ \A d \in Asker : Answered(d)' = Answered(d) /\ Served(d)' = Served(d)
      /\ RamDone' = RamDone
  BY <1>1, MailSame
<1>3. FilesKept
  BY <1>1, FilesSame
<1>4. Types'
  BY <1>1 DEF Types
<1>5. DOMAIN PageOf = {PM, "test_data"} \cup Tester
  BY PageFacts
<1>6. StoreInv' /\ FileInv'
  BY <1>1, <1>5 DEF StoreInv, FileInv, HashInv, HasFile, IsOldest
<1>7. SpaceInv'
  <2>1. \A m \in Box(PM)' : m.op = "ret" => m \in Box(PM)
    BY SMT DEF NewProc, Req
  <2> QED
    BY SMT, <1>1, <1>2, <2>1, SizeFacts, SpaceFrame
<1>8. ProgramInv'
  <2>1. ReadDone(PM)' => ReadDone(PM)
    BY <1>1, <1>2 DEF ReadDone
  <2>2. mem'[PageOf[PM]] = mem[PageOf[PM]]
    BY <1>5
  <2> QED
    BY <1>1, <1>3, <2>1, <2>2, ProgramFrame
<1>9. TestInv'
  <2> SUFFICES ASSUME NEW u \in Tester PROVE TestOne(u)'
    BY DEF TestInv
  <2>1. u \in Asker /\ u \in DOMAIN PageOf /\ TestOne(u) /\ Box(u)' = Box(u)
    BY <1>1, <1>5 DEF Asker, TestInv
  <2>2. ReadDone(u)' => ReadDone(u)
    BY <1>2, <2>1 DEF ReadDone
  <2> QED
    BY <1>3, <2>1, <2>2, TestFrame
<1> QED
  BY <1>2, <1>4, <1>6, <1>7, <1>8, <1>9

\* The machine stops.
LEMMA StopStep ==
    ASSUME ServicesInv, UNCHANGED <<inbox, mem, disk, svcVars, pm, fm, test>>,
           stop' = "illegal_elf" => file # <<>> /\ file[1] # 1
    PROVE  ServicesInv'
<1>1. inbox' \in [Thread -> Seq(Msg)] /\ SrcUnique' /\ mem' \in [Page -> Value]
  BY DEF ServicesInv, Types, SrcUnique
<1>2. \A x \in Thread : Box(x)' = Box(x)
  BY DEF Box
<1>3. PM \in Thread /\ file' = file
  BY ThreadFacts DEF svcVars
<1>4. \A n \in 1..N_KERNEL_PTE, k \in DOMAIN Segments : InPlace(k, n) => InPlace(k, n)'
  BY DEF InPlace
<1> QED
  BY <1>1, <1>2, <1>3, <1>4, QuietStep

-----------------------------------------------------------------------------
(* Files                                                                    *)

\* The oldest file of a name is the first one in the table.
LEMMA OldestIs ==
    ASSUME NEW f \in Seq(Nat), NEW name, NEW x \in DOMAIN f,
           f[x] = name, \A j \in DOMAIN f : f[j] = name => x <= j
    PROVE  (CHOOSE k \in DOMAIN f : f[k] = name /\ \A j \in DOMAIN f : f[j] = name => k <= j) = x
<1>1. DOMAIN f \subseteq Nat
  BY SMT
<1>2. \A k \in DOMAIN f : f[k] = name /\ (\A j \in DOMAIN f : f[j] = name => k <= j) => k <= x /\ x <= k
  OBVIOUS
<1>3. \A k \in DOMAIN f : f[k] = name /\ (\A j \in DOMAIN f : f[j] = name => k <= j) => k = x
  BY SMT, <1>1, <1>2
<1> QED
  BY <1>3

\* A name has a hash list.
LEMMA HashPlace ==
    ASSUME NEW name \in Nat PROVE hash_file_name(name) \in 0..(HASH_SIZE - 1)
<1>1. HASH_SIZE \in Nat /\ HASH_SIZE > 0
  BY SMT, ServicesAssumption
<1> QED
  BY SMT, <1>1 DEF hash_file_name

\* The names of the hash lists: the first one of a name is that of its oldest file.
LEMMA LookupOldest ==
    ASSUME Types, FileInv, NEW name \in Nat
    PROVE  /\ Lookup(name) # 0 <=> HasFile(name)
           /\ HasFile(name) => hash_table[hash_file_name(name)][Lookup(name)] = Oldest(name)
<1> DEFINE h == hash_file_name(name)
           l == hash_table[h]
           I == {k \in 1..Len(l) : file[l[k] + 1] = name}
           P == {k \in 1..Len(l) : file[l[k] + 1] = name /\ \A j \in 1..(k - 1) : ~(file[l[j] + 1] = name)}
           K == {k \in DOMAIN file : file[k] = name}
<1>1. h \in 0..(HASH_SIZE - 1)
  BY HashPlace
<1>2. l \in Seq(Nat) /\ DOMAIN l = 1..Len(l) /\ DOMAIN file = 1..Len(file) /\ Len(file) \in Nat
  BY <1>1, SeqLength DEF Types
<1>3. /\ \A a, b \in 1..Len(l) : a < b => l[a] < l[b]
      /\ Range(l) = {k \in 0..(Len(file) - 1) : hash_file_name(file[k + 1]) = h}
  BY <1>1, <1>2 DEF FileInv, HashInv
<1>4. Lookup(name) = IF P = {} THEN 0 ELSE CHOOSE k \in P : TRUE
  BY DEF Lookup, SelectInSeq
<1>5. ASSUME NEW a \in I PROVE l[a] \in Nat /\ l[a] + 1 \in K
  <2>1. l[a] \in Range(l)
    BY <1>2 DEF Range
  <2>2. l[a] \in 0..(Len(file) - 1)
    BY <1>3, <2>1
  <2> QED
    BY SMT, <1>2, <2>2
<1>6. ASSUME NEW k \in K PROVE \E a \in I : l[a] = k - 1
  <2>1. k - 1 \in 0..(Len(file) - 1) /\ hash_file_name(file[(k - 1) + 1]) = h
    BY SMT, <1>2
  <2>2. PICK a \in 1..Len(l) : l[a] = k - 1
    BY <1>2, <1>3, <2>1 DEF Range
  <2>3. file[l[a] + 1] = name
    BY SMT, <1>2, <2>2
  <2> QED
    BY <2>2, <2>3
<1>7. P # {} => HasFile(name)
  <2> SUFFICES ASSUME NEW a \in P PROVE HasFile(name)
    OBVIOUS
  <2>1. l[a] + 1 \in K
    BY <1>5
  <2> QED
    BY <2>1 DEF FileInv
<1>8. K \in SUBSET Nat
  BY SMT, <1>2
<1>9. ASSUME HasFile(name) PROVE P # {} /\ \A a \in P : l[a] = Oldest(name) /\ a # 0
  <2>1. PICK x \in K : \A y \in K : x <= y
    BY <1>9 DEF HasFile, IsOldest
  <2>2. Oldest(name) = x - 1
    BY <2>1, OldestIs DEF Oldest, Types
  <2>3. PICK a \in I : l[a] = x - 1
    BY <1>6, <2>1
  <2>4. ASSUME NEW b \in I PROVE a <= b
    <3>1. l[b] \in Nat /\ l[b] + 1 \in K /\ x \in Nat /\ a \in Nat /\ b \in Nat
      BY SMT, <1>5, <1>8, <2>1, <2>3
    <3>2. x <= l[b] + 1
      BY <2>1, <3>1
    <3>3. b < a => l[b] < l[a]
      BY <1>3, <2>3
    <3> QED
      BY SMTT(30), <2>3, <3>1, <3>2, <3>3
  <2>5. a \in P
    BY SMT, <2>3, <2>4
  <2>6. ASSUME NEW b \in P PROVE b = a
    <3>1. b \in I /\ a <= b
      BY <2>4
    <3>2. ~(a < b)
      BY SMT, <2>3
    <3> QED
      BY SMT, <2>3, <3>1, <3>2
  <2>7. a # 0
    BY SMT, <1>2, <2>3
  <2> QED
    BY <2>2, <2>3, <2>5, <2>6, <2>7
<1> HIDE DEF I, K, P, l, h
<1> QED
  BY <1>4, <1>7, <1>9 DEF l, h

\* Creating a file: it has a name now, and the others keep their places.
LEMMA NewFileKept ==
    ASSUME Types, FileInv, NEW name \in Nat, file' = Append(file, name)
    PROVE  /\ FilesKept
           /\ (\A k \in DOMAIN file : HasFile(file[k]))'
           /\ Len(file)' = Len(file) + 1 /\ file' # <<>>
           /\ file' \in Seq(Nat) /\ Len(file) \in Nat
           /\ \A k \in 1..Len(file) : file'[k] = file[k]
           /\ file'[Len(file) + 1] = name
<1>1. /\ file' \in Seq(Nat) /\ Len(file') = Len(file) + 1 /\ Len(file) \in Nat
      /\ \A k \in 1..Len(file) : file'[k] = file[k]
      /\ file'[Len(file) + 1] = name
      /\ DOMAIN file = 1..Len(file) /\ DOMAIN file' = 1..(Len(file) + 1)
  BY SMT, SeqAppend, SeqLength DEF Types
<1>3. file' # <<>>
  BY SMT, <1>1
<1>4. ASSUME NEW n, HasFile(n) PROVE HasFile(n)' /\ Oldest(n)' = Oldest(n)
  <2>1. PICK x \in DOMAIN file : IsOldest(x, n)
    BY <1>4 DEF HasFile
  <2>2. x \in DOMAIN file' /\ file'[x] = n /\ \A j \in DOMAIN file' : file'[j] = n => x <= j
    <3>1. \A j \in DOMAIN file' : j \in DOMAIN file \/ j = Len(file) + 1
      BY SMT, <1>1
    <3> QED
      BY SMT, <1>1, <2>1, <3>1 DEF IsOldest
  <2>3. HasFile(n)'
    BY <2>2 DEF HasFile, IsOldest
  <2>4. Oldest(n) = x - 1
    BY SMT, <2>1, OldestIs DEF Oldest, IsOldest, Types
  <2>5. Oldest(n)' = x - 1
    BY SMT, <1>1, <2>2, OldestIs DEF Oldest
  <2> QED
    BY <2>3, <2>4, <2>5
<1>5. ASSUME \A k \in DOMAIN file : file[k] # name PROVE HasFile(name)'
  <2>1. \A j \in DOMAIN file' : file'[j] = name => j = Len(file) + 1
    BY SMT, <1>1, <1>5
  <2>2. Len(file) + 1 \in DOMAIN file' /\ Len(file) + 1 <= Len(file) + 1
    BY SMT, <1>1
  <2> QED
    BY <1>1, <2>1, <2>2 DEF HasFile, IsOldest
<1>6. ASSUME NEW k \in DOMAIN file', NEW n, n = file'[k] PROVE HasFile(n)'
  <2>1. CASE k \in DOMAIN file
    BY <1>1, <1>4, <1>6, <2>1 DEF FileInv
  <2>2. CASE k \notin DOMAIN file
    <3>1. n = name
      BY SMT, <1>1, <1>6, <2>2
    <3>2. CASE \E i \in DOMAIN file : file[i] = name
      BY <1>4, <3>1, <3>2 DEF FileInv
    <3> QED
      BY <1>5, <3>1, <3>2
  <2> QED
    BY <2>1, <2>2
<1>7. (\A k \in DOMAIN file : HasFile(file[k]))'
  BY <1>6 DEF HasFile, IsOldest
<1> QED
  BY <1>1, <1>3, <1>4, <1>7 DEF FilesKept

\* A new file goes to the end of its hash list.
LEMMA NewFileHash ==
    ASSUME Types, FileInv, NEW name \in Nat, do_new_file(name)
    PROVE  FileInv' /\ hash_table' \in [0..(HASH_SIZE - 1) -> Seq(Nat)]
<1> DEFINE g == hash_file_name(name)
           n == Len(file)
           l == hash_table[g]
           a == Append(l, n)
<1>1. /\ g \in 0..(HASH_SIZE - 1) /\ file' = Append(file, name)
      /\ hash_table' = [hash_table EXCEPT ![g] = a]
  BY HashPlace DEF do_new_file
<1>2. /\ Len(file') = n + 1 /\ n \in Nat
      /\ \A k \in 1..n : file'[k] = file[k]
      /\ file'[n + 1] = name
  BY <1>1, NewFileKept
<1>3. l \in Seq(Nat) /\ DOMAIN l = 1..Len(l) /\ Len(l) \in Nat
  BY <1>1, SeqLength DEF Types
<1>4. /\ a \in Seq(Nat) /\ DOMAIN a = 1..(Len(l) + 1)
      /\ \A k \in 1..Len(l) : a[k] = l[k]
      /\ a[Len(l) + 1] = n
  BY SMT, <1>2, <1>3, SeqAppend, SeqLength
<1>5. Range(a) = Range(l) \cup {n}
  <2>1. ASSUME NEW x \in Range(a) PROVE x \in Range(l) \cup {n}
    BY SMT, <1>3, <1>4, <2>1 DEF Range
  <2>2. n \in Range(a)
    BY SMT, <1>3, <1>4 DEF Range
  <2>3. ASSUME NEW x \in Range(l) PROVE x \in Range(a)
    <3>1. PICK k \in 1..Len(l) : x = l[k]
      BY <1>3 DEF Range
    <3> QED
      BY SMT, <1>3, <1>4, <3>1 DEF Range
  <2> QED
    BY <2>1, <2>2, <2>3
<1> HIDE DEF a, n
<1>6. /\ hash_table' \in [0..(HASH_SIZE - 1) -> Seq(Nat)]
      /\ hash_table'[g] = a
      /\ \A h \in 0..(HASH_SIZE - 1) : h # g => hash_table'[h] = hash_table[h]
  BY <1>1, <1>4 DEF Types
<1>7. ASSUME NEW h \in 0..(HASH_SIZE - 1)
      PROVE  {k \in 0..((n + 1) - 1) : hash_file_name(file'[k + 1]) = h}
                = {k \in 0..(n - 1) : hash_file_name(file[k + 1]) = h} \cup (IF h = g THEN {n} ELSE {})
  <2>1. 0..((n + 1) - 1) = 0..(n - 1) \cup {n} /\ n \notin 0..(n - 1)
    BY SMT, <1>2
  <2>2. \A k \in 0..(n - 1) : file'[k + 1] = file[k + 1]
    BY SMT, <1>2
  <2> QED
    BY <1>2, <2>1, <2>2
<1>8. ASSUME NEW h \in 0..(HASH_SIZE - 1)
      PROVE  /\ \A i, j \in DOMAIN hash_table'[h] : i < j => hash_table'[h][i] < hash_table'[h][j]
             /\ Range(hash_table'[h]) = {k \in 0..(Len(file') - 1) : hash_file_name(file'[k + 1]) = h}
  <2>1. /\ \A i, j \in DOMAIN hash_table[h] : i < j => hash_table[h][i] < hash_table[h][j]
        /\ Range(hash_table[h]) = {k \in 0..(n - 1) : hash_file_name(file[k + 1]) = h}
    BY DEF FileInv, HashInv, n
  <2>2. CASE h # g
    BY <1>2, <1>6, <1>7, <2>1, <2>2
  <2>3. CASE h = g
    <3>1. \A i \in 1..Len(l) : l[i] < n
      <4> SUFFICES ASSUME NEW i \in 1..Len(l) PROVE l[i] < n
        OBVIOUS
      <4>1. l[i] \in Range(l)
        BY <1>3 DEF Range
      <4>2. l[i] \in 0..(n - 1)
        BY <2>1, <2>3, <4>1
      <4> QED
        BY SMT, <1>2, <4>2
    <3>2. ASSUME NEW i \in 1..(Len(l) + 1), NEW j \in 1..(Len(l) + 1), i < j PROVE a[i] < a[j]
      <4>1. CASE j = Len(l) + 1
        <5>1. i \in 1..Len(l) /\ a[i] = l[i] /\ a[j] = n
          BY SMTT(30), <1>3, <1>4, <3>2, <4>1
        <5> QED
          BY <3>1, <5>1
      <4>2. CASE j # Len(l) + 1
        <5>1. i \in 1..Len(l) /\ j \in 1..Len(l)
          BY SMTT(30), <1>3, <3>2, <4>2
        <5>2. l[i] < l[j]
          BY <1>3, <2>1, <2>3, <3>2, <5>1
        <5> QED
          BY <1>4, <5>1, <5>2
      <4> QED
        BY <4>1, <4>2
    <3>3. Range(a) = {k \in 0..(Len(file') - 1) : hash_file_name(file'[k + 1]) = h}
      BY <1>2, <1>5, <1>7, <2>1, <2>3
    <3>4. hash_table'[h] = a
      BY <1>6, <2>3
    <3> QED
      BY <1>4, <3>2, <3>3, <3>4
  <2> QED
    BY <2>2, <2>3
<1>9. HashInv'
  BY <1>8 DEF HashInv
<1>10. (\A k \in DOMAIN file : HasFile(file[k]))'
  BY <1>1, NewFileKept
<1> QED
  BY <1>6, <1>9, <1>10 DEF FileInv

-----------------------------------------------------------------------------
(* Servers                                                                  *)

\* Who has sent what a server finds.
LEMMA Senders ==
    ASSUME Types, MailInv, NEW s \in Servers, Has(s, ANY)
    PROVE  LET m == Mail(s, ANY)
           IN  /\ m \in Box(s) /\ m \in Msg
               /\ \/ \E c \in Asker : Dest(c) = s /\ m = Ask(c)
                  \/ fm.pc = "ram" /\ s = RAMDISK /\ m = RamAsk
                  \/ fm.pc = "ram" /\ s = FM /\ m.src = RAMDISK /\ m.op = "ret"
<1>1. s \in Thread
  BY ThreadFacts DEF Servers
<1>2. Mail(s, ANY) \in Box(s) /\ Mail(s, ANY) \in Msg
  BY <1>1, FirstMail DEF Types
<1> QED
  BY <1>2 DEF MailInv, ServerMail

\* A server takes a request and answers it.
LEMMA AnswerStep ==
    ASSUME Types, SrcUnique, MailInv, NEW c \in Asker, NEW s \in Servers, NEW v \in Arg,
           Dest(c) = s, Has(s, ANY), Mail(s, ANY) = Ask(c), Pass(s, ANY, c, Ret(s, v)),
           UNCHANGED <<pm, test, fm>>, FilesKept
    PROVE  /\ inbox' \in [Thread -> Seq(Msg)] /\ SrcUnique' /\ MailInv'
           /\ Box(c)' = Box(c) \cup {Ret(s, v)}
           /\ Answered(c)' /\ ~Answered(c) /\ ~Served(c)
           /\ \A d \in Asker \ {c} : Answered(d)' = Answered(d) /\ Box(d)' = Box(d)
           /\ \A d \in Asker : Served(d)' = Served(d)
           /\ RamDone' = RamDone
<1>1. s \in Thread /\ c \in Thread /\ c # s /\ s # Idle
  BY ThreadFacts DEF Servers
<1>2. Ret(s, v) \in Msg /\ Ret(s, v).src = s
  BY <1>1 DEF Ret, Msg
<1>3. Mail(s, ANY) \in Box(s) /\ Ask(c).src # Idle
  BY <1>1, FirstMail, AskFacts DEF Types, AskOK
<1>4. ~Answered(c)
  BY <1>3 DEF MailInv, OnePlace, AtMostOne, Posted
<1>5. \A n \in Box(c) : n.src # s
  <2> SUFFICES ASSUME NEW n \in Box(c), n.src = s PROVE FALSE
    OBVIOUS
  <2>1. NewProc.src = Idle
    BY DEF NewProc, Req
  <2>2. n.op = "ret"
    BY <1>1, <2>1 DEF MailInv, ClientMail
  <2> QED
    BY <1>4, <2>2 DEF Answered
<1>6. /\ inbox' \in [Thread -> Seq(Msg)]
      /\ SrcUnique'
      /\ \A x \in Thread \ {s, c} : Box(x)' = Box(x)
      /\ Box(c)' = Box(c) \cup {Ret(s, v)}
      /\ Box(s)' \subseteq Box(s)
      /\ \A n \in Box(s) : n # Mail(s, ANY) => n \in Box(s)'
      /\ Mail(s, ANY).src # Idle => Mail(s, ANY) \notin Box(s)'
  <2>1. inbox \in [Thread -> Seq(Msg)]
    BY DEF Types
  <2> DEFINE r == Ret(s, v)
  <2>2. r \in Msg /\ Pass(s, ANY, c, r) /\ (r.src = Idle \/ \A n \in Box(c) : n.src # r.src)
    BY <1>2, <1>5
  <2> HIDE DEF r
  <2>3. /\ inbox' \in [Thread -> Seq(Msg)]
        /\ SrcUnique'
        /\ \A x \in Thread \ {s, c} : Box(x)' = Box(x)
        /\ Box(c)' = Box(c) \cup {r}
        /\ Box(s)' \subseteq Box(s)
        /\ \A n \in Box(s) : n # Mail(s, ANY) => n \in Box(s)'
        /\ Mail(s, ANY).src # Idle => Mail(s, ANY) \notin Box(s)'
    BY SMT, <1>1, <2>1, <2>2, PassBox
  <2> QED
    BY <2>3 DEF r
<1>7. /\ Ask(c) \in Box(s) /\ Ask(c) \notin Box(s)'
      /\ \A n \in Box(s) : n # Ask(c) => n \in Box(s)'
      /\ \A x \in Thread \ {c, s} : Box(x)' = Box(x)
  BY <1>3, <1>6
<1>8. /\ MailInv'
      /\ Answered(c)' /\ ~Answered(c) /\ ~Served(c)
      /\ \A d \in Asker \ {c} : Answered(d)' = Answered(d) /\ Box(d)' = Box(d)
      /\ \A d \in Asker : Served(d)' = Served(d)
      /\ RamDone' = RamDone
  BY <1>6, <1>7, MailAnswer
<1> QED
  BY <1>6, <1>8

\* A device answers a test.
LEMMA DeviceStep ==
    ASSUME ServicesInv, Running, NEW d \in Device, NEW t \in Tester, NEW v \in {0, 1},
           Dest(t) = d, Has(d, ANY), Mail(d, ANY) = Ask(t), Pass(d, ANY, t, Ret(d, v)),
           UNCHANGED <<svcVars, pm, fm, test, asked, stop>>,
           MemKept(PageOf[t]), Seen(t)', d = DEV_NULL => v = 0,
           disk' \in [0..(NR_MAX_FILE - 1) -> Value],
           \A k \in 0..(NR_MAX_FILE - 1) : disk'[k] = ramdisk_file[k] \/ (k # 0 /\ disk'[k] = "data")
    PROVE  ServicesInv'
<1> USE DEF ServicesInv
<1>1. d \in Servers /\ t \in Asker /\ PM \in Asker /\ t # PM /\ v \in Arg
      /\ UNCHANGED <<file, hash_table, pdir, ptable, cr3, stat>>
  BY SMT, ThreadFacts DEF Servers, Asker, Arg, svcVars
<1>2. FilesKept
  BY <1>1, FilesSame
<1>3. /\ inbox' \in [Thread -> Seq(Msg)] /\ SrcUnique' /\ MailInv'
      /\ Box(t)' = Box(t) \cup {Ret(d, v)}
      /\ Answered(t)' /\ ~Answered(t) /\ ~Served(t)
      /\ \A e \in Asker \ {t} : Answered(e)' = Answered(e) /\ Box(e)' = Box(e)
      /\ \A e \in Asker : Served(e)' = Served(e)
      /\ RamDone' = RamDone
  BY <1>1, <1>2, AnswerStep
<1>4. Types'
  BY <1>1, <1>3 DEF Types, MemKept
<1>5. DOMAIN PageOf = {PM, "test_data"} \cup Tester /\ "test_data" \notin Tester
  BY PageFacts, Names
<1>6. \A u \in DOMAIN PageOf : u # t => mem'[PageOf[u]] = mem[PageOf[u]]
  BY <1>5, KernelWrite
<1>7. StoreInv'
  BY <1>5, <1>6 DEF StoreInv
<1>8. FileInv'
  BY <1>1 DEF FileInv, HashInv, HasFile, IsOldest
<1>9. SpaceInv'
  BY SMT, <1>1, <1>3, SizeFacts, SpaceFrame
<1>10. ProgramInv'
  <2>1. /\ \A n \in 1..N_KERNEL_PTE, k \in DOMAIN Segments : InPlace(k, n) => InPlace(k, n)'
        /\ pm.pc = "load" => mem'[pm.pa] = mem[pm.pa]
    BY <1>5, KernelWriteInPlace
  <2>3. mem'[PageOf[PM]] = mem[PageOf[PM]]
    BY <1>1, <1>5, <1>6
  <2>4. ReadDone(PM)' => ReadDone(PM)
    BY <1>1, <1>3 DEF ReadDone
  <2>5. stop' # "illegal_elf"
    BY DEF Running
  <2> QED
    BY <1>1, <1>2, <2>1, <2>3, <2>4, <2>5, ProgramFrame
<1>11. TestInv'
  <2> SUFFICES ASSUME NEW u \in Tester PROVE TestOne(u)'
    BY DEF TestInv
  <2>1. CASE u # t
    <3>1. u \in Asker /\ TestOne(u) /\ mem'[PageOf[u]] = mem[PageOf[u]] /\ Box(u)' = Box(u)
      BY <1>3, <1>5, <1>6, <2>1 DEF Asker, TestInv
    <3>2. ReadDone(u)' => ReadDone(u)
      BY <1>3, <2>1, <3>1 DEF ReadDone
    <3> QED
      BY <1>2, <3>1, <3>2, TestFrame
  <2>2. CASE u = t
    <3>1. test'[t].pc = d /\ d \notin {"start", "done", FM}
      BY DestOf, Names
    <3>2. d = DEV_NULL => \A m \in Box(t)' : m.ret = 0
      <4> SUFFICES ASSUME d = DEV_NULL, NEW m \in Box(t)' PROVE m.ret = 0
        OBVIOUS
      <4>1. CASE m = Ret(d, v)
        BY <4>1 DEF Ret
      <4>2. CASE m \in Box(t)
        BY SMTT(30), <4>2, DestOf DEF TestInv, TestOne
      <4> QED
        BY <1>3, <4>1, <4>2
    <3> QED
      BY <1>3, <2>2, <3>1, <3>2 DEF TestOne
  <2> QED
    BY <2>1, <2>2
<1> QED
  BY <1>3, <1>4, <1>7, <1>8, <1>9, <1>10, <1>11

\* What a test asks a device.
LEMMA DeviceAsk ==
    ASSUME Types, NEW t \in Tester, Dest(t) \in Device
    PROVE  LET j == test[t].job
               m == Ask(t)
           IN  /\ m.src = t /\ m.len = 1 /\ m.op = j.op /\ j.op \in {"DEV_READ", "DEV_WRITE"}
               /\ j.dev = Dest(t) /\ JobOK(j) /\ j \in Job /\ test[t].pc = Dest(t)
               /\ j.op = "DEV_READ" => m.buf = buf(t) /\ m.i = Offset(j, PageOf["test_data"])
               /\ j.op = "DEV_WRITE" => m.buf = buf("test_data") /\ m.i = Offset(j, PageOf[t])
<1> DEFINE j == test[t].job
<1>1. Dest(t) \in Servers /\ Dest(t) # FM
  BY Names DEF Servers
<1>2. Ask(t) = TestAsk(t) /\ j \in Job /\ j.dev = Dest(t) /\ JobOK(j) /\ test[t].pc = Dest(t)
  BY <1>1, TestAskFacts, DestOf
<1>3. j.op \in {"DEV_READ", "DEV_WRITE"}
  BY <1>1, <1>2 DEF Job, JobOK
<1>4. TestAsk(t) = IF j.op = "DEV_READ" THEN Req(t, j.op, Offset(j, PageOf["test_data"]), buf(t), 1)
                   ELSE Req(t, j.op, Offset(j, PageOf[t]), buf("test_data"), 1)
  BY <1>3 DEF TestAsk
<1> QED
  BY SMT, <1>2, <1>3, <1>4 DEF Req

\* A device that is not the RAM disk serves a test.
LEMMA Serves ==
    ASSUME ServicesInv, NEW d \in Device \ {RAMDISK}, NEW R, NEW W, NEW nr \in {0, 1}, NEW nw \in {0, 1},
           serve(d, R, W, nr, nw)
    PROVE  \E t \in Tester, v \in {nr, nw} :
               /\ Running /\ Has(d, ANY) /\ Dest(t) = d /\ Mail(d, ANY) = Ask(t)
               /\ Pass(d, ANY, t, Ret(d, v))
               /\ mem' = IF test[t].job.op = "DEV_READ" THEN R ELSE W
               /\ UNCHANGED <<svcVars, pm, fm, test, asked, stop>>
<1> USE DEF ServicesInv
<1>1. Running /\ Has(d, ANY)
  BY DEF serve, Gets, Has
<1>2. d \in Servers /\ d # FM
  BY Names DEF Servers
<1>3. PICK t \in Asker : Dest(t) = d /\ Mail(d, ANY) = Ask(t)
  BY <1>1, <1>2, Senders
<1>4. t \in Tester
  BY <1>2, <1>3, AskFacts DEF AskOK
<1> DEFINE m == Mail(d, ANY)
<1>5. m.src = t /\ m.len = 1 /\ m.op = test[t].job.op
  BY <1>3, <1>4, DeviceAsk
<1>6. nr * m.len = nr /\ nw * m.len = nw
  BY SMT, <1>5
<1> HIDE DEF m
<1>7. \/ m.op = "DEV_READ" /\ mem' = R /\ Pass(d, ANY, t, Ret(d, nr))
      \/ m.op = "DEV_WRITE" /\ mem' = W /\ Pass(d, ANY, t, Ret(d, nw))
  BY <1>5, <1>6 DEF serve, Gets, m
<1>8. UNCHANGED <<svcVars, pm, fm, test, asked, stop>>
  BY DEF serve
<1>9. \E v \in {nr, nw} : /\ Pass(d, ANY, t, Ret(d, v))
                          /\ mem' = IF test[t].job.op = "DEV_READ" THEN R ELSE W
  BY <1>5, <1>7
<1> QED
  BY <1>1, <1>3, <1>4, <1>8, <1>9

\* Before its answer a test's buffer is as it was.
LEMMA Untouched ==
    ASSUME ServicesInv, NEW t \in Tester, Dest(t) \in Device, Ask(t) \in Box(Dest(t))
    PROVE  mem[PageOf[t]] = "old" /\ mem[PageOf["test_data"]] = "data" /\ mem \in [Page -> Value]
           /\ disk \in [0..(NR_MAX_FILE - 1) -> Value]
           /\ \A k \in 0..(NR_MAX_FILE - 1) : disk[k] = ramdisk_file[k] \/ (k # 0 /\ disk[k] = "data")
<1> USE DEF ServicesInv
<1>1. Posted(t) /\ t \in Asker
  BY DEF Posted, Servers, Asker
<1>2. ~Answered(t)
  BY <1>1 DEF MailInv, OnePlace, AtMostOne
<1>3. test[t].pc \in Device
  BY DestOf
<1> QED
  BY <1>2, <1>3 DEF TestInv, TestOne, StoreInv, Types

\* The character devices serve a test.
LEMMA DeviceThreads ==
    ASSUME ServicesInv,
           \/ null_driver_thread \/ zero_driver_thread \/ random_driver_thread
           \/ mem_driver_thread \/ kmem_driver_thread
    PROVE  ServicesInv'
<1> USE DEF ServicesInv
<1> DEFINE D == {DEV_NULL, DEV_ZERO, RANDOM, DEV_MEM, DEV_KMEM}
<1>1. D \subseteq Device \ {RAMDISK} /\ disk' = disk
  BY Names DEF Device, null_driver_thread, zero_driver_thread, random_driver_thread,
     mem_driver_thread, kmem_driver_thread
<1> DEFINE B(d) == Mail(d, ANY).buf
           I(d) == Mail(d, ANY).i
           Rd(d) == IF d = DEV_NULL THEN mem ELSE IF d = DEV_ZERO THEN Store(B(d), "zero")
                    ELSE IF d = RANDOM THEN Store(B(d), "random")
                    ELSE IF d = DEV_MEM THEN memcpy(B(d), I(d)) ELSE memcpy(B(d), pa_to_va(I(d)))
           Wr(d) == IF d \in {DEV_NULL, DEV_ZERO, RANDOM} THEN mem
                    ELSE IF d = DEV_MEM THEN memcpy(I(d), B(d)) ELSE memcpy(pa_to_va(I(d)), B(d))
<1>2. \E d \in D, nr \in {0, 1}, nw \in {0, 1} :
          serve(d, Rd(d), Wr(d), nr, nw) /\ (d = DEV_NULL => nr = 0 /\ nw = 0)
  <2>1. CASE null_driver_thread
    <3>1. serve(DEV_NULL, mem, mem, 0, 0)
      BY <2>1 DEF null_driver_thread
    <3>2. Rd(DEV_NULL) = mem /\ Wr(DEV_NULL) = mem
      OBVIOUS
    <3> HIDE DEF Rd, Wr
    <3> QED
      BY <3>1, <3>2
  <2>2. CASE zero_driver_thread
    <3>1. serve(DEV_ZERO, Store(B(DEV_ZERO), "zero"), mem, 1, 0)
      BY <2>2 DEF zero_driver_thread
    <3>2. Rd(DEV_ZERO) = Store(B(DEV_ZERO), "zero") /\ Wr(DEV_ZERO) = mem /\ DEV_ZERO # DEV_NULL
      BY Names
    <3> HIDE DEF Rd, Wr, B
    <3> QED
      BY <3>1, <3>2
  <2>3. CASE random_driver_thread
    <3>1. serve(RANDOM, Store(B(RANDOM), "random"), mem, 1, 0)
      BY <2>3 DEF random_driver_thread
    <3>2. Rd(RANDOM) = Store(B(RANDOM), "random") /\ Wr(RANDOM) = mem /\ RANDOM # DEV_NULL
      BY Names
    <3> HIDE DEF Rd, Wr, B
    <3> QED
      BY <3>1, <3>2
  <2>4. CASE mem_driver_thread
    <3>1. serve(DEV_MEM, memcpy(B(DEV_MEM), I(DEV_MEM)), memcpy(I(DEV_MEM), B(DEV_MEM)), 1, 1)
      BY <2>4 DEF mem_driver_thread
    <3>2. /\ Rd(DEV_MEM) = memcpy(B(DEV_MEM), I(DEV_MEM))
          /\ Wr(DEV_MEM) = memcpy(I(DEV_MEM), B(DEV_MEM)) /\ DEV_MEM # DEV_NULL
      BY Names
    <3> HIDE DEF Rd, Wr, B, I
    <3> QED
      BY <3>1, <3>2
  <2>5. CASE kmem_driver_thread
    <3>1. serve(DEV_KMEM, memcpy(B(DEV_KMEM), pa_to_va(I(DEV_KMEM))),
                          memcpy(pa_to_va(I(DEV_KMEM)), B(DEV_KMEM)), 1, 1)
      BY <2>5 DEF kmem_driver_thread
    <3>2. /\ Rd(DEV_KMEM) = memcpy(B(DEV_KMEM), pa_to_va(I(DEV_KMEM)))
          /\ Wr(DEV_KMEM) = memcpy(pa_to_va(I(DEV_KMEM)), B(DEV_KMEM)) /\ DEV_KMEM # DEV_NULL
      BY Names
    <3> HIDE DEF Rd, Wr, B, I
    <3> QED
      BY <3>1, <3>2
  <2> QED
    BY <2>1, <2>2, <2>3, <2>4, <2>5
<1> HIDE DEF Rd, Wr
<1>13. PICK d \in D, nr \in {0, 1}, nw \in {0, 1} :
          serve(d, Rd(d), Wr(d), nr, nw) /\ (d = DEV_NULL => nr = 0 /\ nw = 0)
  BY <1>2
<1>3. PICK t \in Tester, v \in {nr, nw} :
          /\ Running /\ Has(d, ANY) /\ Dest(t) = d /\ Mail(d, ANY) = Ask(t)
          /\ Pass(d, ANY, t, Ret(d, v))
          /\ mem' = IF test[t].job.op = "DEV_READ" THEN Rd(d) ELSE Wr(d)
          /\ UNCHANGED <<svcVars, pm, fm, test, asked, stop>>
  BY SMT, <1>1, <1>13, Serves
<1> DEFINE j == test[t].job
           m == Ask(t)
           b == PageOf[t]
           data == PageOf["test_data"]
<1>4. /\ m.src = t /\ m.op = j.op /\ j.op \in {"DEV_READ", "DEV_WRITE"} /\ j.dev = d
      /\ j.op = "DEV_READ" => m.buf = buf(t) /\ m.i = Offset(j, data)
      /\ j.op = "DEV_WRITE" => m.buf = buf("test_data") /\ m.i = Offset(j, b)
  BY <1>1, <1>3, DeviceAsk
<1>5. m \in Box(d)
  <2>1. d \in Servers
    BY <1>1 DEF Servers
  <2> QED
    BY <1>3, <2>1, Senders
<1>6. mem[b] = "old" /\ mem[data] = "data" /\ mem \in [Page -> Value]
  BY <1>1, <1>3, <1>5, Untouched
<1>7. b \in Page /\ data \in Page
  BY PageFacts
<1>8. KPage(buf(t)) = b /\ KPage(buf("test_data")) = data /\ KPage(pa_to_va(b)) = b /\ KPage(pa_to_va(data)) = data
  BY <1>7, KernelPage DEF buf
<1>9. /\ d = DEV_MEM => Offset(j, data) = pa_to_va(data) /\ Offset(j, b) = pa_to_va(b)
      /\ d = DEV_KMEM => Offset(j, data) = data /\ Offset(j, b) = b
  BY <1>4, Names DEF Offset
<1> DEFINE x == mem'[b]
<1>10. /\ MemKept(b)
       /\ d = DEV_NULL => x = "old" /\ v = 0
       /\ d = DEV_ZERO => x = IF j.op = "DEV_READ" THEN "zero" ELSE "old"
       /\ d \in {DEV_MEM, DEV_KMEM} => x = "data"
  <2> HIDE DEF j, m, b, data, x
  <2>1. CASE d = DEV_NULL
    <3>1. mem' = mem /\ v = 0
      BY <1>13, <1>3, <2>1 DEF Rd, Wr
    <3> QED
      BY <1>6, <2>1, <3>1, StoreNone, Names DEF x
  <2>2. CASE d = DEV_ZERO
    <3>1. mem' = IF j.op = "DEV_READ" THEN Store(buf(t), "zero") ELSE mem
      BY <1>3, <1>4, <2>2, Names DEF j, m, Rd, Wr
    <3>2. MemKept(b) /\ x = IF j.op = "DEV_READ" THEN "zero" ELSE "old"
      BY <1>6, <1>7, <1>8, <3>1, StoreNone, StoreOne DEF Value, x
    <3> QED
      BY <2>2, <3>2, Names
  <2>3. CASE d = RANDOM
    <3>1. mem' = IF j.op = "DEV_READ" THEN Store(buf(t), "random") ELSE mem
      BY <1>3, <1>4, <2>3, Names DEF j, m, Rd, Wr
    <3>2. MemKept(b)
      BY <1>6, <1>7, <1>8, <3>1, StoreNone, StoreOne DEF Value
    <3> QED
      BY <2>3, <3>2, Names
  <2>4. CASE d \in {DEV_MEM, DEV_KMEM}
    <3>1. \E va : KPage(va) = b /\ mem' = Store(va, "data")
      <4>1. CASE j.op = "DEV_READ"
        <5>1. mem' = Store(buf(t), mem[KPage(pa_to_va(data))])
          BY <1>3, <1>4, <1>9, <2>4, <4>1, Names DEF j, m, Rd, memcpy
        <5> QED
          BY <1>6, <1>8, <5>1
      <4>2. CASE j.op = "DEV_WRITE"
        <5>1. mem' = Store(pa_to_va(b), mem[KPage(buf("test_data"))])
          BY <1>3, <1>4, <1>9, <2>4, <4>2, Names DEF j, m, Wr, memcpy
        <5> QED
          BY <1>6, <1>8, <5>1
      <4> QED
        BY <1>4, <4>1, <4>2
    <3>2. MemKept(b) /\ x = "data"
      BY <1>7, <3>1, StoreOne DEF Value, x
    <3> QED
      BY <2>4, <3>2, Names
  <2> QED
    BY <2>1, <2>2, <2>3, <2>4
<1>11. Seen(t)'
  <2>1. test' = test /\ j.dev # FM
    BY <1>1, <1>3, <1>4, Names
  <2>2. test'[t].job = j /\ (mem[PageOf[t]])' = x
    BY <2>1
  <2> HIDE DEF j, x
  <2> QED
    BY <1>4, <1>10, <2>1, <2>2 DEF Seen
<1>12. /\ disk' \in [0..(NR_MAX_FILE - 1) -> Value]
       /\ \A k \in 0..(NR_MAX_FILE - 1) : disk'[k] = ramdisk_file[k] \/ (k # 0 /\ disk'[k] = "data")
  BY <1>1 DEF StoreInv, Types
<1> QED
  BY <1>1, <1>3, <1>10, <1>11, <1>12, DeviceStep

-----------------------------------------------------------------------------
(* The RAM disk                                                             *)

\* The RAM disk serves a test.
LEMMA RamServesTest ==
    ASSUME ServicesInv, ram_driver_thread, NEW t \in Tester, Dest(t) = RAMDISK, Mail(RAMDISK, ANY) = Ask(t)
    PROVE  ServicesInv'
<1> USE DEF ServicesInv
<1> DEFINE m == Ask(t)
           j == test[t].job
           b == PageOf[t]
           data == PageOf["test_data"]
<1>1. RAMDISK \in Device /\ RAMDISK \in Servers
  BY DEF Device, Servers
<1>2. /\ m.src = t /\ m.len = 1 /\ m.op = j.op /\ j.op \in {"DEV_READ", "DEV_WRITE"}
      /\ j.dev = RAMDISK /\ JobOK(j)
      /\ j.op = "DEV_READ" => m.buf = buf(t) /\ m.i = Offset(j, data)
      /\ j.op = "DEV_WRITE" => m.buf = buf("test_data") /\ m.i = Offset(j, b)
  BY <1>1, DeviceAsk
<1>3. m.i = j.i /\ j.i \in 0..(NR_MAX_FILE - 1) /\ (j.op = "DEV_WRITE" => j.i # 0)
  BY <1>2, Names DEF Offset, JobOK
<1>4. /\ Has(RAMDISK, ANY) /\ Running
      /\ Pass(RAMDISK, ANY, t, Ret(RAMDISK, 1))
      /\ mem' = IF j.op = "DEV_READ" THEN Store(m.buf, disk[m.i]) ELSE mem
      /\ disk' = IF j.op = "DEV_READ" THEN disk ELSE [disk EXCEPT ![m.i] = mem[KPage(m.buf)]]
      /\ UNCHANGED <<svcVars, pm, fm, test, asked, stop>>
  <2>1. 1 * m.len = 1
    BY SMT, <1>2
  <2> QED
    BY SMTT(30), <1>2, <2>1 DEF ram_driver_thread, serve, Gets, Has
<1>5. mem[data] = "data" /\ disk \in [0..(NR_MAX_FILE - 1) -> Value]
      /\ \A k \in 0..(NR_MAX_FILE - 1) : disk[k] = ramdisk_file[k] \/ (k # 0 /\ disk[k] = "data")
  BY DEF StoreInv, Types
<1>6. b \in Page /\ KPage(buf(t)) = b /\ KPage(buf("test_data")) = data
  BY PageFacts, KernelPage DEF buf
<1>7. MemKept(b)
  <2>1. CASE j.op = "DEV_READ"
    <3>1. mem' = Store(buf(t), disk[j.i]) /\ disk[j.i] \in Value
      BY <1>2, <1>3, <1>4, <1>5, <2>1
    <3> QED
      BY <1>6, <3>1, StoreOne
  <2>2. CASE j.op # "DEV_READ"
    BY <1>4, <2>2, StoreNone
  <2> QED
    BY <2>1, <2>2
<1>8. /\ disk' \in [0..(NR_MAX_FILE - 1) -> Value]
      /\ \A k \in 0..(NR_MAX_FILE - 1) : disk'[k] = ramdisk_file[k] \/ (k # 0 /\ disk'[k] = "data")
  <2>1. CASE j.op = "DEV_READ"
    BY <1>4, <1>5, <2>1
  <2>2. CASE j.op # "DEV_READ"
    <3>1. disk' = [disk EXCEPT ![j.i] = "data"] /\ "data" \in Value
      BY <1>2, <1>3, <1>4, <1>5, <1>6, <2>2 DEF Value
    <3>2. j.i # 0
      BY <1>2, <1>3, <2>2
    <3> QED
      BY <1>3, <1>5, <3>1, <3>2
  <2> QED
    BY <2>1, <2>2
<1>9. Seen(t)'
  <2>1. test'[t].job.dev = RAMDISK
    BY <1>2, <1>4
  <2> QED
    BY <2>1, Names DEF Seen, Device
<1>10. RAMDISK # DEV_NULL
  BY Names
<1> QED
  BY <1>1, <1>4, <1>7, <1>8, <1>9, <1>10, DeviceStep

\* The place of a file is one of the RAM disk's.
LEMMA OldestPlace ==
    ASSUME Types, NEW name, HasFile(name)
    PROVE  Oldest(name) \in 0..(NR_MAX_FILE - 1) /\ Oldest(name) < Len(file)
           /\ file[Oldest(name) + 1] = name
<1>1. DOMAIN file = 1..Len(file) /\ Len(file) \in Nat /\ Len(file) <= NR_MAX_FILE /\ NR_MAX_FILE \in Nat
  BY SeqLength, ServicesAssumption DEF Types
<1>2. PICK x \in DOMAIN file : IsOldest(x, name)
  BY DEF HasFile
<1>3. Oldest(name) = x - 1
  BY SMT, <1>2, OldestIs DEF Oldest, IsOldest, Types
<1> QED
  BY SMTT(30), <1>1, <1>2, <1>3 DEF IsOldest

\* The read that FM serves.
LEMMA Reader ==
    ASSUME Types, NEW c \in Asker, Dest(c) = FM, Ask(c).op = "FM_READ"
    PROVE  LET m == Ask(c)
           IN  /\ m.i \in Nat /\ m.src = c
               /\ c \in Tester => /\ test[c].pc = FM /\ test[c].job.op = "read" /\ test[c].job.dev = FM
                                  /\ m.i = test[c].job.i /\ m.buf = buf(c) /\ m.len = 1
               /\ c = PM => /\ m.i = 1 /\ pm.pc \in {"elf", "load"}
                            /\ pm.pc = "elf" => m.buf = buf(PM) /\ m.len = 1
                            /\ pm.pc = "load" => m.buf = pm.pa /\ m.len = Segments[pm.entry].filesz
<1>1. FM \in Servers
  BY DEF Servers
<1>2. CASE c \in Tester
  <2> DEFINE j == test[c].job
  <2>1. /\ Ask(c) = TestAsk(c) /\ j \in Job /\ j.dev = FM /\ test[c].pc = FM /\ JobOK(j) /\ c # PM
    BY <1>1, <1>2, TestAskFacts, DestOf, ThreadFacts
  <2>2. j.op \in {"new", "read"} /\ j.i \in Nat
    BY <2>1 DEF JobOK, Job
  <2>3. TestAsk(c) = IF j.op = "new" THEN Req(c, "FM_NEW_FILE", j.i, 0, 0) ELSE ReadFile(c, j.i)
    BY <2>2 DEF TestAsk
  <2>4. j.op = "read" /\ Ask(c) = ReadFile(c, j.i)
    BY SMTT(30), <2>1, <2>2, <2>3 DEF Req
  <2> QED
    BY SMTT(30), <2>1, <2>2, <2>4 DEF ReadFile, Req
<1>3. CASE c = PM
  <2>1. c \notin Tester
    BY <1>3, ThreadFacts
  <2>2. Ask(PM) = PmAsk /\ pm.pc \in {"elf", "load"}
    BY <1>1, <1>3, PmAskFacts
  <2>3. PmAsk = IF pm.pc = "elf" THEN Req(PM, "FM_READ", 1, buf(PM), 1)
                ELSE Req(PM, "FM_READ", 1, pm.pa, Segments[pm.entry].filesz)
    BY <2>2 DEF PmAsk
  <2> QED
    BY SMTT(30), <1>3, <2>1, <2>2, <2>3 DEF Req
<1> QED
  BY <1>2, <1>3 DEF Asker

\* The RAM disk serves FM, which reads for a client.
LEMMA RamServesFm ==
    ASSUME ServicesInv, ram_driver_thread, fm.pc = "ram", Mail(RAMDISK, ANY) = RamAsk
    PROVE  ServicesInv'
<1> USE DEF ServicesInv
<1> DEFINE c == fm.m.src
           m == fm.m
           place == Oldest(m.i)
<1>1. /\ FM \in Thread /\ RAMDISK \in Thread /\ FM # RAMDISK /\ RAMDISK \in Servers /\ FM \in Servers
      /\ PM \in Asker /\ FM # Idle /\ RAMDISK # Idle
  BY ThreadFacts, Names DEF Servers, Device, Asker
<1>2. c \in Asker /\ Dest(c) = FM /\ m = Ask(c) /\ m.op = "FM_READ" /\ HasFile(m.i) /\ Served(c) /\ m \in Msg
  BY ServedOne
<1>3. m.len \in {0, 1}
  BY <1>2 DEF Msg
<1>4. /\ Has(RAMDISK, ANY) /\ Running
      /\ Pass(RAMDISK, ANY, FM, Ret(RAMDISK, m.len))
      /\ mem' = IF m.len = 0 THEN mem ELSE Store(m.buf, disk[place])
      /\ disk' = disk
      /\ UNCHANGED <<svcVars, pm, fm, test, asked, stop>>
  <2>1. 1 * m.len = m.len
    BY SMT, <1>3
  <2>2. RamAsk = [src |-> FM, op |-> "DEV_READ", i |-> place, buf |-> m.buf, len |-> m.len]
    BY DEF RamAsk, Req
  <2> HIDE DEF m, place
  <2> QED
    BY SMTT(30), <2>1, <2>2 DEF ram_driver_thread, serve, Gets, Has
<1>5. UNCHANGED <<file, hash_table, pdir, ptable, cr3, stat>>
  BY <1>4 DEF svcVars
<1>6. FilesKept
  BY <1>5, FilesSame
<1>7. /\ RamAsk \in Box(RAMDISK) /\ ~RamDone
  <2>1. RamAsk \in Box(RAMDISK)
    BY <1>1, <1>4, Senders
  <2> QED
    BY <2>1 DEF MailInv, OnePlace
<1>8. /\ inbox' \in [Thread -> Seq(Msg)]
      /\ SrcUnique'
      /\ \A x \in Thread \ {RAMDISK, FM} : Box(x)' = Box(x)
      /\ Box(FM)' = Box(FM) \cup {Ret(RAMDISK, m.len)}
      /\ Box(RAMDISK)' \subseteq Box(RAMDISK)
      /\ RamAsk \notin Box(RAMDISK)'
  <2> DEFINE r == Ret(RAMDISK, m.len)
  <2>1. r \in Msg /\ Pass(RAMDISK, ANY, FM, r) /\ (r.src = Idle \/ \A n \in Box(FM) : n.src # r.src)
    BY SMTT(30), <1>1, <1>3, <1>4, <1>7 DEF Ret, Msg, Arg, RamDone
  <2>2. RamAsk.src # Idle /\ inbox \in [Thread -> Seq(Msg)]
    BY <1>1 DEF RamAsk, Req, Types
  <2> HIDE DEF r
  <2>3. /\ inbox' \in [Thread -> Seq(Msg)]
        /\ SrcUnique'
        /\ \A x \in Thread \ {RAMDISK, FM} : Box(x)' = Box(x)
        /\ Box(FM)' = Box(FM) \cup {r}
        /\ Box(RAMDISK)' \subseteq Box(RAMDISK)
        /\ \A n \in Box(RAMDISK) : n # Mail(RAMDISK, ANY) => n \in Box(RAMDISK)'
        /\ Mail(RAMDISK, ANY).src # Idle => Mail(RAMDISK, ANY) \notin Box(RAMDISK)'
    BY <1>1, <1>4, <2>1, <2>2, PassBox
  <2> QED
    BY ZenonT(30), <2>2, <2>3 DEF r
<1>9. /\ MailInv'
      /\ RamDone'
      /\ \A d \in Asker : Answered(d)' = Answered(d) /\ Box(d)' = Box(d)
      /\ \A d \in Asker : Served(d)' = Served(d)
  <2> DEFINE v == m.len
  <2>1. /\ Box(FM)' = Box(FM) \cup {Ret(RAMDISK, v)}
        /\ \A x \in Thread \ {FM, RAMDISK} : Box(x)' = Box(x)
        /\ UNCHANGED <<pm, test, fm, file>>
    BY <1>4, <1>5, <1>8
  <2> HIDE DEF v
  <2> QED
    BY <1>7, <1>8, <2>1, MailRam
<1>10. place \in 0..(NR_MAX_FILE - 1) /\ disk[place] \in Value
       /\ (disk[place] = ramdisk_file[place] \/ (place # 0 /\ disk[place] = "data"))
       /\ (disk[place] = "elf" <=> place = 0)
  <2>1. place \in 0..(NR_MAX_FILE - 1)
    BY <1>2, OldestPlace
  <2>2. disk[place] \in Value /\ (disk[place] = ramdisk_file[place] \/ (place # 0 /\ disk[place] = "data"))
    BY <2>1 DEF StoreInv, Types
  <2>3. ramdisk_file[place] = "elf" <=> place = 0
    BY SMTT(30), <2>1 DEF ramdisk_file
  <2> QED
    BY <2>1, <2>2, <2>3
<1> DEFINE w == IF c \in Tester THEN PageOf[c] ELSE IF pm.pc = "elf" THEN PageOf[PM] ELSE pm.pa
<1>11. /\ m.i \in Nat
       /\ c \in Tester => /\ test[c].pc = FM /\ test[c].job.op = "read" /\ test[c].job.dev = FM
                          /\ m.i = test[c].job.i /\ m.buf = buf(c) /\ m.len = 1
       /\ c = PM => /\ m.i = 1 /\ pm.pc \in {"elf", "load"}
                    /\ pm.pc = "elf" => m.buf = buf(PM) /\ m.len = 1
                    /\ pm.pc = "load" => m.buf = pm.pa /\ m.len = Segments[pm.entry].filesz
       /\ c \in Tester \/ c = PM
       /\ PM \notin Tester
  BY SMTT(30), <1>2, Reader, ThreadFacts DEF Asker
<1>12. w \in Page /\ KPage(m.buf) = w
  <2>1. CASE c \in Tester
    BY <1>11, <2>1, PageFacts, KernelPage DEF buf
  <2>2. CASE c = PM /\ pm.pc = "elf"
    BY <1>11, <2>2, PageFacts, KernelPage DEF buf
  <2>3. CASE c = PM /\ pm.pc = "load"
    <3>1. pm.pa \in Page
      BY <2>3, LoadPage, FramePage DEF Home
    <3> QED
      BY <1>11, <2>3, <3>1, KernelPage
  <2> QED
    BY <1>11, <2>1, <2>2, <2>3
<1>13. MemKept(w) /\ (m.len = 1 => mem'[w] = disk[place])
  <2>1. CASE m.len = 0
    BY SMTT(30), <1>4, <2>1, StoreNone
  <2>2. CASE m.len # 0
    BY SMTT(30), <1>4, <1>10, <1>12, <2>2, StoreOne
  <2> QED
    BY ZenonT(30), <2>1, <2>2
<1> HIDE DEF c, m, place, w
<1>14. Types'
  BY <1>4, <1>5, <1>8, <1>13 DEF Types, MemKept
<1>15. DOMAIN PageOf = {PM, "test_data"} \cup Tester /\ "test_data" \notin Tester /\ PM # "test_data"
  BY PageFacts, Names
<1>16. /\ \A u \in DOMAIN PageOf : (u # c \/ (u = PM /\ pm.pc = "load")) => mem'[PageOf[u]] = mem[PageOf[u]]
       /\ \A n \in 1..N_KERNEL_PTE, k \in DOMAIN Segments :
              InPlace(k, n) /\ (n = vmem_free /\ k = pm.entry => pm.pc # "load") => InPlace(k, n)'
       /\ c # PM /\ pm.pc = "load" => mem'[pm.pa] = mem[pm.pa]
  <2>1. CASE c \in Tester
    <3>1. w = PageOf[c] /\ c \in DOMAIN PageOf /\ c # PM
      BY <1>11, <1>15, <2>1 DEF w
    <3> QED
      BY <1>13, <3>1, KernelWrite, KernelWriteInPlace
  <2>2. CASE c = PM /\ pm.pc = "elf"
    <3>1. w = PageOf[PM] /\ PM \in DOMAIN PageOf
      BY <1>11, <1>15, <2>2 DEF w
    <3> QED
      BY <1>13, <2>2, <3>1, KernelWrite, KernelWriteInPlace
  <2>3. CASE c = PM /\ pm.pc = "load"
    <3>1. w = pm.pa
      BY <1>11, <2>3 DEF w
    <3>2. mem' = mem \/ Segments[pm.entry].memsz = 1
      <4>1. pm.entry \in 1..Len(Segments)
        BY <2>3 DEF Types
      <4> QED
        BY SMTT(30), <1>3, <1>4, <1>11, <2>3, <4>1, SegmentFacts
    <3> QED
      BY <1>13, <2>3, <3>1, <3>2, LoadWrite
  <2> QED
    BY <1>11, <2>1, <2>2, <2>3
<1>17. StoreInv'
  BY <1>4, <1>11, <1>15, <1>16 DEF StoreInv
<1>18. FileInv'
  BY <1>5 DEF FileInv, HashInv, HasFile, IsOldest
<1>19. SpaceInv'
  BY SMTT(30), <1>1, <1>4, <1>5, <1>9, SizeFacts, SpaceFrame
<1>20. ProgramInv'
  <2>1. pm.pc = "elf" /\ ReadDone(PM)' => HasFile(1) /\ (mem'[PageOf[PM]] = "elf" <=> Oldest(1) = 0)
    <3>1. CASE c = PM
      BY <1>2, <1>10, <1>11, <1>13, <3>1 DEF w, place
    <3>2. CASE c # PM
      <4>1. ReadDone(PM)' => ReadDone(PM)
        BY <1>1, <1>9, <3>2 DEF ReadDone, Served, c
      <4> QED
        BY <1>15, <1>16, <3>2, <4>1 DEF ProgramInv
    <3> QED
      BY <3>1, <3>2
  <2>2. pm.pc = "load" /\ ReadDone(PM)' /\ Segments[pm.entry].filesz = 1 => mem'[pm.pa] = "elf"
    <3>1. CASE c = PM
      <4> SUFFICES ASSUME pm.pc = "load", Segments[pm.entry].filesz = 1 PROVE mem'[pm.pa] = "elf"
        OBVIOUS
      <4>1. w = pm.pa /\ m.len = 1 /\ m.i = 1
        BY <1>11, <3>1 DEF w
      <4>2. place = 0
        BY <4>1 DEF ProgramInv, place
      <4> QED
        BY <1>10, <1>13, <4>1, <4>2
    <3>2. CASE c # PM
      <4>1. ReadDone(PM)' => ReadDone(PM)
        BY <1>1, <1>9, <3>2 DEF ReadDone, Served, c
      <4> QED
        BY <1>16, <3>2, <4>1 DEF ProgramInv
    <3> QED
      BY <3>1, <3>2
  <2>3. stop' # "illegal_elf"
    BY <1>4 DEF Running
  <2> QED
    BY <1>4, <1>5, <1>6, <1>16, <2>1, <2>2, <2>3, ProgramKept
<1>21. TestInv'
  <2> SUFFICES ASSUME NEW u \in Tester PROVE TestOne(u)'
    BY DEF TestInv
  <2>1. u \in Asker /\ u \in DOMAIN PageOf /\ TestOne(u) /\ Box(u)' = Box(u) /\ Answered(u)' = Answered(u)
    BY <1>9, <1>15 DEF Asker, TestInv
  <2>2. CASE u # c
    <3>1. ReadDone(u)' => ReadDone(u)
      BY <1>9, <2>1, <2>2 DEF ReadDone, Served, c
    <3> QED
      BY <1>4, <1>6, <1>16, <2>1, <2>2, <3>1, TestFrame
  <2>3. CASE u = c
    <3>1. /\ test' = test /\ test[u].pc = FM /\ test[u].job.op = "read" /\ test[u].job.dev = FM
          /\ m.i = test[u].job.i /\ mem'[PageOf[u]] = disk[place]
      BY <1>4, <1>11, <1>13, <2>3 DEF w
    <3>2. FM \notin Device \cup {"start", "done"}
      BY Names
    <3>3. Seen(u)'
      <4>1. HasFile(test[u].job.i) /\ Oldest(test[u].job.i) = place
        BY <1>2, <3>1 DEF place
      <4>2. HasFile(test[u].job.i)' /\ Oldest(test[u].job.i)' = place
        BY <1>6, <3>1, <4>1 DEF FilesKept
      <4>3. test'[u].job.dev \notin {DEV_MEM, DEV_KMEM, DEV_NULL, DEV_ZERO}
        BY <3>1, <3>2 DEF Device
      <4> QED
        BY <1>10, <3>1, <4>2, <4>3 DEF Seen
    <3> QED
      BY <3>1, <3>2, <3>3 DEF TestOne, Device
  <2> QED
    BY <2>2, <2>3
<1> QED
  BY <1>8, <1>9, <1>14, <1>17, <1>18, <1>19, <1>20, <1>21

\* Every step of the RAM disk keeps the invariant.
LEMMA RamThread ==
    ASSUME ServicesInv, ram_driver_thread PROVE ServicesInv'
<1>1. Has(RAMDISK, ANY)
  BY DEF ram_driver_thread, serve, Gets
<1>2. RAMDISK \in Servers /\ RAMDISK \in Device /\ RAMDISK # FM
  BY Names DEF Servers, Device
<1>3. Types /\ MailInv
  BY DEF ServicesInv
<1>4. \/ \E c \in Asker : Dest(c) = RAMDISK /\ Mail(RAMDISK, ANY) = Ask(c)
      \/ fm.pc = "ram" /\ Mail(RAMDISK, ANY) = RamAsk
  BY <1>1, <1>2, <1>3, Senders
<1>5. ASSUME NEW c \in Asker, Dest(c) = RAMDISK PROVE c \in Tester
  BY <1>2, <1>3, <1>5, AskFacts DEF AskOK
<1> QED
  BY <1>4, <1>5, RamServesTest, RamServesFm

-----------------------------------------------------------------------------
(* FM                                                                       *)

\* FM's requests.
LEMMA FmSenders ==
    ASSUME Types, MailInv, fm.pc = "ANY", Has(FM, ANY)
    PROVE  \E c \in Asker : /\ Dest(c) = FM /\ Mail(FM, ANY) = Ask(c) /\ Mail(FM, ANY).src = c
                            /\ Ask(c).i \in Nat
<1>1. FM \in Servers /\ FM # MM
  BY Names DEF Servers
<1>2. PICK c \in Asker : Dest(c) = FM /\ Mail(FM, ANY) = Ask(c)
  BY <1>1, Senders
<1>3. Ask(c).src = c
  BY <1>1, <1>2, AskFacts DEF AskOK
<1>4. Ask(c).i \in Nat
  <2>1. CASE c \in Tester
    BY <1>1, <1>2, <2>1, TestAskFacts DEF Job
  <2>2. CASE c = PM
    BY SMT, <1>1, <1>2, <2>2, PmAskFacts
  <2> QED
    BY <2>1, <2>2 DEF Asker
<1> QED
  BY <1>2, <1>3, <1>4

\* FM creates a file.
LEMMA NewFile ==
    ASSUME ServicesInv, new_file PROVE ServicesInv'
<1> USE DEF ServicesInv
<1>1. /\ fm.pc = "ANY" /\ Gets(FM, "FM_NEW_FILE") /\ Len(file) < NR_MAX_FILE
      /\ do_new_file(Mail(FM, ANY).i)
      /\ Pass(FM, ANY, Mail(FM, ANY).src, Ret(FM, 0))
      /\ UNCHANGED <<mem, disk, pdir, ptable, cr3, stat, pm, fm, test, asked, stop>>
  BY DEF new_file
<1>2. Has(FM, ANY) /\ Mail(FM, ANY).op = "FM_NEW_FILE" /\ Running
  BY <1>1 DEF Gets, Has
<1>3. PICK c \in Asker : /\ Dest(c) = FM /\ Mail(FM, ANY) = Ask(c) /\ Mail(FM, ANY).src = c
                         /\ Ask(c).i \in Nat
  BY <1>1, <1>2, FmSenders
<1>4. PICK name \in Nat : name = Ask(c).i
  BY <1>3
<1>5. do_new_file(name) /\ file' = Append(file, name) /\ FM \in Servers /\ PM \in Asker /\ PM \notin Tester /\ 0 \in Arg
  BY <1>1, <1>3, <1>4, ThreadFacts DEF do_new_file, Servers, Asker, Arg
<1>6. /\ FilesKept
      /\ Len(file)' = Len(file) + 1
      /\ file' \in Seq(Nat) /\ Len(file) \in Nat
  BY <1>5, NewFileKept
<1>7. FileInv' /\ hash_table' \in [0..(HASH_SIZE - 1) -> Seq(Nat)]
  BY <1>5, NewFileHash
<1>8. /\ inbox' \in [Thread -> Seq(Msg)] /\ SrcUnique' /\ MailInv'
      /\ Answered(c)' /\ ~Answered(c)
      /\ \A d \in Asker \ {c} : Answered(d)' = Answered(d) /\ Box(d)' = Box(d)
      /\ \A d \in Asker : Served(d)' = Served(d)
      /\ RamDone' = RamDone
  BY <1>1, <1>2, <1>3, <1>5, <1>6, AnswerStep
<1>9. Types'
  <2>1. Len(file)' <= NR_MAX_FILE
    BY SMT, <1>1, <1>6, ServicesAssumption
  <2> QED
    BY <1>1, <1>6, <1>7, <1>8, <2>1 DEF Types
<1>10. StoreInv'
  BY <1>1 DEF StoreInv
<1>11. c = PM => pm.pc = "created"
  BY <1>2, <1>3, <1>5, PmAskFacts
<1>12. SpaceInv'
  <2>1. CASE c # PM
    BY SMTT(30), <1>1, <1>5, <1>6, <1>8, <2>1, SpaceFrame
  <2>2. CASE c = PM
    <3>1. pm.pc = "created" /\ pm' = pm /\ ~Made /\ ~Made' /\ ~Filed
      BY <1>1, <1>8, <1>11, <2>2 DEF Made, Filed
    <3>2. /\ vmem_free' = vmem_free /\ OldSpaces' = OldSpaces /\ Started' = Started
          /\ \A k : TableOf(k)' = TableOf(k)
      BY <1>1, <3>1 DEF vmem_free, OldSpaces, Started, TableOf
    <3>3. vmem_free' + (IF Filed' THEN 1 ELSE 0) <= Len(file)'
      BY SMT, <1>6, <3>2, SizeFacts
    <3> QED
      BY <1>1, <3>1, <3>2, <3>3 DEF SpaceInv
  <2> QED
    BY <2>1, <2>2
<1>13. ProgramInv'
  <2>1. \A n \in 1..N_KERNEL_PTE, k \in DOMAIN Segments : InPlace(k, n) => InPlace(k, n)'
    BY <1>1 DEF InPlace
  <2>2. pm.pc # "created" => (ReadDone(PM)' => ReadDone(PM))
    BY <1>5, <1>8, <1>11 DEF ReadDone
  <2>3. pm.pc = "elf" /\ ReadDone(PM)' => HasFile(1) /\ (mem'[PageOf[PM]] = "elf" <=> Oldest(1) = 0)
    BY <1>1, <2>2 DEF ProgramInv
  <2>4. pm.pc = "load" /\ ReadDone(PM)' /\ Segments[pm.entry].filesz = 1 => mem'[pm.pa] = "elf"
    BY <1>1, <2>2 DEF ProgramInv
  <2>5. stop' # "illegal_elf"
    BY <1>1, <1>2 DEF Running
  <2> QED
    BY <1>1, <1>6, <2>1, <2>3, <2>4, <2>5, ProgramKept
<1>14. TestInv'
  <2> SUFFICES ASSUME NEW u \in Tester PROVE TestOne(u)'
    BY DEF TestInv
  <2>1. u \in Asker /\ TestOne(u)
    BY DEF Asker, TestInv
  <2>2. CASE u # c
    <3>1. Box(u)' = Box(u) /\ (ReadDone(u)' => ReadDone(u))
      BY <1>8, <2>1, <2>2 DEF ReadDone
    <3> QED
      BY <1>1, <1>6, <2>1, <3>1, TestFrame
  <2>3. CASE u = c
    <3>1. test' = test /\ test[u].pc = FM /\ test[u].job.op \in {"new", "read"}
      <4>1. test[u].job.dev = FM /\ JobOK(test[u].job) /\ test[u].pc = FM
        BY <1>3, <1>5, <2>3, TestAskFacts, DestOf
      <4> QED
        BY <1>1, <4>1 DEF JobOK
    <3>2. test[u].job.op # "read"
      <4> SUFFICES ASSUME test[u].job.op = "read" PROVE FALSE
        OBVIOUS
      <4>1. Ask(u) = ReadFile(u, test[u].job.i)
        BY <1>5, <2>1 DEF Ask, TestAsk
      <4> QED
        BY SMT, <1>2, <1>3, <2>3, <4>1 DEF ReadFile, Req
    <3>3. FM \notin Device \cup {"start", "done"}
      BY Names
    <3> QED
      BY <3>1, <3>2, <3>3 DEF TestOne, Device
  <2> QED
    BY <2>2, <2>3
<1> QED
  BY <1>7, <1>8, <1>9, <1>10, <1>12, <1>13, <1>14

\* FM looks a file up and asks the RAM disk.
LEMMA DoRead ==
    ASSUME ServicesInv, do_read PROVE ServicesInv'
<1> USE DEF ServicesInv
<1> DEFINE a == Mail(FM, ANY)
           q == Req(FM, "DEV_READ", hash_table[hash_file_name(a.i)][Lookup(a.i)], a.buf, a.len)
<1>1. /\ fm.pc = "ANY" /\ Gets(FM, "FM_READ") /\ Lookup(a.i) # 0
      /\ fm' = [pc |-> "ram", m |-> a]
      /\ Pass(FM, ANY, RAMDISK, q)
      /\ UNCHANGED <<mem, disk, svcVars, pm, test, asked, stop>>
  BY DEF do_read
<1>2. Has(FM, ANY) /\ a.op = "FM_READ" /\ Running
  BY <1>1 DEF Gets, Has
<1>3. PICK c \in Asker : Dest(c) = FM /\ a = Ask(c) /\ a.src = c /\ a.i \in Nat
  BY <1>1, <1>2, FmSenders
<1>4. HasFile(a.i) /\ hash_table[hash_file_name(a.i)][Lookup(a.i)] = Oldest(a.i)
  BY <1>1, <1>3, LookupOldest
<1>5. /\ FM \in Thread /\ RAMDISK \in Thread /\ FM # RAMDISK /\ RAMDISK \in Servers /\ FM \in Servers
      /\ PM \in Asker /\ FM # Idle /\ RAMDISK # Idle /\ Asker \cap {FM} = {}
      /\ UNCHANGED <<file, hash_table, pdir, ptable, cr3, stat>>
  BY <1>1, ThreadFacts, Names DEF Servers, Device, Asker, svcVars
<1>6. a \in Box(FM) /\ a \in Msg /\ a.src # Idle
  BY <1>2, <1>3, <1>5, Senders, AskFacts DEF AskOK
<1>7. q = Req(FM, "DEV_READ", Oldest(a.i), a.buf, a.len) /\ q \in Msg
  <2>1. q = Req(FM, "DEV_READ", Oldest(a.i), a.buf, a.len)
    BY <1>4
  <2>2. Oldest(a.i) \in Arg
    BY SMT, <1>4, OldestPlace DEF Arg
  <2>3. a.buf \in Arg /\ a.len \in {0, 1}
    BY <1>2, <1>6 DEF Msg
  <2> HIDE DEF q, a
  <2> QED
    BY <1>5, <2>1, <2>2, <2>3 DEF Req, Msg, Operation
<1>8. \A n \in Box(RAMDISK) : n.src # FM
  <2> SUFFICES ASSUME NEW n \in Box(RAMDISK) PROVE n.src # FM
    OBVIOUS
  <2>1. PICK d \in Asker : Dest(d) = RAMDISK /\ n = Ask(d)
    BY <1>1, <1>5 DEF MailInv, ServerMail
  <2> QED
    BY <1>5, <2>1, AskFacts DEF AskOK
<1>9. /\ inbox' \in [Thread -> Seq(Msg)]
      /\ SrcUnique'
      /\ \A x \in Thread \ {FM, RAMDISK} : Box(x)' = Box(x)
      /\ Box(RAMDISK)' = Box(RAMDISK) \cup {q}
      /\ Box(FM)' \subseteq Box(FM)
      /\ a \notin Box(FM)'
  <2>1. q \in Msg /\ Pass(FM, ANY, RAMDISK, q) /\ (q.src = Idle \/ \A n \in Box(RAMDISK) : n.src # q.src)
    BY <1>1, <1>7, <1>8 DEF Req
  <2>2. inbox \in [Thread -> Seq(Msg)]
    BY DEF Types
  <2> HIDE DEF q
  <2>3. /\ inbox' \in [Thread -> Seq(Msg)]
        /\ SrcUnique'
        /\ \A x \in Thread \ {FM, RAMDISK} : Box(x)' = Box(x)
        /\ Box(RAMDISK)' = Box(RAMDISK) \cup {q}
        /\ Box(FM)' \subseteq Box(FM)
        /\ \A n \in Box(FM) : n # Mail(FM, ANY) => n \in Box(FM)'
        /\ Mail(FM, ANY).src # Idle => Mail(FM, ANY) \notin Box(FM)'
    BY <1>2, <1>5, <2>1, <2>2, PassBox
  <2> QED
    BY <1>6, <2>3
<1> HIDE DEF a, q
<1>10. /\ MailInv'
       /\ ~RamDone'
       /\ \A d \in Asker : Answered(d)' = Answered(d) /\ Box(d)' = Box(d)
  <2>1. /\ Ask(c) \in Box(FM) /\ Ask(c).op = "FM_READ" /\ HasFile(Ask(c).i)
        /\ fm' = [pc |-> "ram", m |-> Ask(c)]
        /\ Ask(c) \notin Box(FM)'
        /\ Box(RAMDISK)' = Box(RAMDISK)
                \cup {Req(FM, "DEV_READ", Oldest(Ask(c).i), Ask(c).buf, Ask(c).len)}
    BY <1>1, <1>2, <1>3, <1>4, <1>6, <1>7, <1>9
  <2> QED
    BY <1>1, <1>3, <1>5, <1>9, <2>1, MailRead
<1>11. Types'
  <2>1. fm' \in [pc : {"ram"}, m : Msg]
    BY <1>1, <1>6
  <2> QED
    BY <1>1, <1>5, <1>9, <2>1 DEF Types
<1>12. FilesKept
  BY <1>5, FilesSame
<1>13. \A d \in Asker : ReadDone(d)' => ReadDone(d)
  BY <1>10 DEF ReadDone
<1>14. StoreInv' /\ FileInv'
  BY SMTT(30), <1>1, <1>5 DEF StoreInv, FileInv, HashInv, HasFile, IsOldest
<1>15. SpaceInv'
  BY SMTT(30), <1>1, <1>5, <1>10, SizeFacts, SpaceFrame
<1>16. ProgramInv'
  <2>1. \A n \in 1..N_KERNEL_PTE, k \in DOMAIN Segments : InPlace(k, n) => InPlace(k, n)'
    BY <1>1 DEF InPlace
  <2>2. stop' # "illegal_elf"
    BY <1>1, <1>2 DEF Running
  <2> QED
    BY <1>1, <1>5, <1>12, <1>13, <2>1, <2>2, ProgramFrame
<1>17. TestInv'
  <2> SUFFICES ASSUME NEW u \in Tester PROVE TestOne(u)'
    BY DEF TestInv
  <2>1. u \in Asker /\ TestOne(u)
    BY DEF Asker, TestInv
  <2> QED
    BY <1>1, <1>10, <1>12, <1>13, <2>1, TestFrame
<1> QED
  BY <1>9, <1>10, <1>11, <1>14, <1>15, <1>16, <1>17

\* FM passes the RAM disk's answer on.
LEMMA ReadDoneStep ==
    ASSUME ServicesInv, read_done PROVE ServicesInv'
<1> USE DEF ServicesInv
<1>1. /\ fm.pc = "ram" /\ Has(FM, RAMDISK) /\ Running
      /\ Pass(FM, RAMDISK, fm.m.src, Ret(FM, fm.m.len))
      /\ fm' = [pc |-> "ANY"]
      /\ UNCHANGED <<mem, disk, svcVars, pm, test, asked, stop>>
  BY DEF read_done, Has
<1>2. PICK c \in Asker : c = fm.m.src
  BY <1>1, ServedOne
<1>3. Dest(c) = FM /\ fm.m = Ask(c) /\ fm.m.op = "FM_READ" /\ Served(c) /\ fm.m \in Msg
  BY <1>1, <1>2, ServedOne
<1>4. PICK v \in {0, 1} : v = fm.m.len
  BY <1>3 DEF Msg
<1>5. /\ FM \in Thread /\ FM \in Servers /\ c \in Thread /\ c # FM /\ FM # Idle /\ RAMDISK # Idle
      /\ PM \in Asker /\ PM \notin Tester /\ RAMDISK # ANY
      /\ UNCHANGED <<file, hash_table, pdir, ptable, cr3, stat>>
  BY <1>1, ThreadFacts, Names DEF Servers, Device, Asker, svcVars
<1>6. inbox \in [Thread -> Seq(Msg)]
  BY DEF Types
<1>7. Mail(FM, RAMDISK) \in Box(FM) /\ Mail(FM, RAMDISK).src = RAMDISK /\ RamDone
  BY SMTT(30), <1>1, <1>5, <1>6, FirstMail DEF RamDone
<1>8. ~Answered(c)
  BY <1>3 DEF MailInv, OnePlace, AtMostOne
<1>9. \A n \in Box(c) : n.src # FM
  <2> SUFFICES ASSUME NEW n \in Box(c), n.src = FM PROVE FALSE
    OBVIOUS
  <2>1. NewProc.src = Idle
    BY DEF NewProc, Req
  <2>2. n.op = "ret"
    BY <1>5, <2>1 DEF MailInv, ClientMail
  <2> QED
    BY <1>8, <2>2 DEF Answered
<1>10. /\ inbox' \in [Thread -> Seq(Msg)]
       /\ SrcUnique'
       /\ \A x \in Thread \ {FM, c} : Box(x)' = Box(x)
       /\ Box(c)' = Box(c) \cup {Ret(FM, v)}
       /\ \A n \in Box(FM)' : n \in Box(FM) /\ n.src # RAMDISK
  <2> DEFINE r == Ret(FM, v)
  <2>1. r \in Msg /\ Pass(FM, RAMDISK, c, r) /\ (r.src = Idle \/ \A n \in Box(c) : n.src # r.src)
    BY SMT, <1>1, <1>2, <1>4, <1>5, <1>9 DEF Ret, Msg, Arg
  <2> HIDE DEF r
  <2>2. /\ inbox' \in [Thread -> Seq(Msg)]
        /\ SrcUnique'
        /\ \A x \in Thread \ {FM, c} : Box(x)' = Box(x)
        /\ Box(c)' = Box(c) \cup {r}
        /\ Box(FM)' \subseteq Box(FM)
        /\ \A n \in Box(FM) : n # Mail(FM, RAMDISK) => n \in Box(FM)'
        /\ Mail(FM, RAMDISK).src # Idle => Mail(FM, RAMDISK) \notin Box(FM)'
    BY <1>1, <1>5, <1>6, <2>1, PassBox
  <2>3. ASSUME NEW n \in Box(FM)', n.src = RAMDISK PROVE FALSE
    <3>1. n = Mail(FM, RAMDISK)
      BY <1>5, <1>7, <2>2, <2>3, OneOfEach
    <3> QED
      BY <1>5, <1>7, <2>2, <3>1
  <2> QED
    BY <2>2, <2>3 DEF r
<1>11. /\ MailInv'
       /\ Answered(c)'
       /\ \A d \in Asker \ {c} : Answered(d)' = Answered(d) /\ Box(d)' = Box(d)
       /\ \A d \in Asker : ~Served(d)'
  BY <1>1, <1>2, <1>5, <1>7, <1>10, MailReadDone
<1>12. Types'
  <2>1. fm' \in [pc : {"ANY"}]
    BY <1>1
  <2> QED
    BY <1>1, <1>5, <1>10, <2>1 DEF Types
<1>13. FilesKept
  BY <1>5, FilesSame
<1>14. \A d \in Asker : ReadDone(d)' => ReadDone(d)
  BY <1>3, <1>7, <1>11 DEF ReadDone
<1>15. StoreInv' /\ FileInv'
  BY <1>1, <1>5 DEF StoreInv, FileInv, HashInv, HasFile, IsOldest
<1>16. SpaceInv'
  <2>1. c = PM => pm.pc \in {"elf", "load"}
    BY <1>3, <1>5, PmAskFacts
  <2>2. pm.pc \in {"created", "cr3", "page"} =>
              (\A m \in Box(PM)' : m.op = "ret" => m \in Box(PM)) /\ Answered(PM)' = Answered(PM)
    BY <1>5, <1>11, <2>1
  <2> QED
    BY SMTT(30), <1>1, <1>5, <2>2, SizeFacts, SpaceFrame
<1>17. ProgramInv'
  <2>1. \A n \in 1..N_KERNEL_PTE, k \in DOMAIN Segments : InPlace(k, n) => InPlace(k, n)'
    BY <1>1 DEF InPlace
  <2>2. stop' # "illegal_elf"
    BY <1>1 DEF Running
  <2> QED
    BY <1>1, <1>5, <1>13, <1>14, <2>1, <2>2, ProgramFrame
<1>18. TestInv'
  <2> SUFFICES ASSUME NEW u \in Tester PROVE TestOne(u)'
    BY DEF TestInv
  <2>1. u \in Asker /\ TestOne(u) /\ test' = test /\ mem' = mem
    BY <1>1 DEF Asker, TestInv
  <2>2. CASE u # c
    BY <1>11, <1>13, <1>14, <2>1, <2>2, TestFrame
  <2>3. CASE u = c
    <3>1. test[u].pc = FM /\ test[u].job.op = "read"
      BY <1>3, <2>3, Reader
    <3>2. Seen(u)
      BY <1>3, <1>7, <2>1, <2>3, <3>1 DEF TestOne, ReadDone
    <3>3. Seen(u)'
      BY <1>13, <2>1, <3>2 DEF Seen, FilesKept
    <3>4. FM \notin Device \cup {"start", "done"}
      BY Names
    <3> QED
      BY <2>1, <3>1, <3>3, <3>4 DEF TestOne, Device
  <2> QED
    BY <2>2, <2>3
<1> QED
  BY <1>10, <1>11, <1>12, <1>15, <1>16, <1>17, <1>18

\* Every step of FM keeps the invariant.
LEMMA FmThread ==
    ASSUME ServicesInv, ramdisk_thread PROVE ServicesInv'
<1>1. CASE new_file
  BY <1>1, NewFile
<1>2. CASE new_file_overrun
  BY <1>2, StopStep DEF new_file_overrun
<1>3. CASE do_read
  BY <1>3, DoRead
<1>4. CASE do_read_panic
  BY <1>4, StopStep DEF do_read_panic
<1>5. CASE read_done
  BY <1>5, ReadDoneStep
<1> QED
  BY <1>1, <1>2, <1>3, <1>4, <1>5 DEF ramdisk_thread

-----------------------------------------------------------------------------
(* MM                                                                       *)

\* The directory of a process has entries for page tables only.
LEMMA NewPdir ==
    ASSUME NEW k \in 0..(N_KERNEL_PTE - 1)
    PROVE  new_pdir(k) \in [Dir -> Table]
<1>1. /\ NR_PDE \in Nat /\ PHY_PD \in Nat /\ KOFFSET \in Nat /\ KERNEL_PD \in Nat /\ N_KERNEL_PTE \in Nat
      /\ PHY_PD <= KOFFSET /\ KERNEL_PD <= PHY_PD
  BY PagingAssumption
<1>2. ASSUME NEW d \in Dir, IsKernelEntry(d) PROVE kpdir[d] = d - KOFFSET /\ d - KOFFSET \in Table
  <2>1. d \in Int /\ d - KOFFSET \in Region /\ ~(d < PHY_PD) /\ d - KOFFSET \in Table
    BY SMT, <1>1, <1>2 DEF Region, Dir, Table, IsKernelEntry
  <2> QED
    BY <2>1 DEF kpdir
<1>3. PHY_PD + k \in Table
  BY SMT, <1>1 DEF Table
<1> QED
  BY <1>2, <1>3 DEF new_pdir

\* MM serves PM.
LEMMA MmStep ==
    ASSUME ServicesInv, Has(MM, ANY), NEW v \in Arg, Pass(MM, ANY, PM, Ret(MM, v)),
           UNCHANGED <<mem, disk, file, hash_table, cr3, stat, pm, fm, test, asked, stop>>,
           pdir' \in Seq([Dir -> Table]), ptable' \in [Table -> [Idx -> Page \cup {NoPage}]]
    PROVE  /\ Types' /\ SrcUnique' /\ MailInv' /\ StoreInv' /\ FileInv' /\ TestInv'
           /\ Mail(MM, ANY) = Ask(PM) /\ Dest(PM) = MM
           /\ Answered(PM)' /\ ~Answered(PM)
           /\ \A m \in Box(PM)' : m.op = "ret" => m.ret = v
<1> USE DEF ServicesInv
<1>1. MM \in Servers /\ PM \in Asker /\ MM \notin {FM, RAMDISK} /\ PM \notin Tester
  BY Names, ThreadFacts DEF Servers, Asker, Device
<1>2. PICK c \in Asker : Dest(c) = MM /\ Mail(MM, ANY) = Ask(c)
  BY <1>1, Senders
<1>3. c = PM
  BY <1>1, <1>2, AskFacts DEF AskOK
<1>4. FilesKept
  BY FilesSame
<1>5. /\ inbox' \in [Thread -> Seq(Msg)] /\ SrcUnique' /\ MailInv'
      /\ Box(PM)' = Box(PM) \cup {Ret(MM, v)}
      /\ Answered(PM)' /\ ~Answered(PM)
      /\ \A d \in Asker \ {PM} : Answered(d)' = Answered(d) /\ Box(d)' = Box(d)
      /\ \A d \in Asker : Served(d)' = Served(d)
      /\ RamDone' = RamDone
  BY <1>1, <1>2, <1>3, <1>4, AnswerStep
<1>6. Types'
  BY <1>5 DEF Types
<1>7. StoreInv' /\ FileInv'
  BY DEF StoreInv, FileInv, HashInv, HasFile, IsOldest
<1>8. TestInv'
  <2> SUFFICES ASSUME NEW u \in Tester PROVE TestOne(u)'
    BY DEF TestInv
  <2>1. u \in Asker /\ TestOne(u) /\ u # PM
    BY <1>1 DEF Asker, TestInv
  <2>2. ReadDone(u)' => ReadDone(u)
    BY <1>5, <2>1 DEF ReadDone
  <2> QED
    BY <1>4, <1>5, <2>1, <2>2, TestFrame
<1>9. \A m \in Box(PM)' : m.op = "ret" => m.ret = v
  <2>1. Ret(MM, v).ret = v
    BY DEF Ret
  <2>2. \A m \in Box(PM) : m.op # "ret"
    BY <1>5 DEF Answered
  <2> QED
    BY <1>5, <2>1, <2>2
<1> QED
  BY <1>2, <1>3, <1>5, <1>6, <1>7, <1>8, <1>9

\* MM makes an address space.
LEMMA NewProcVmem ==
    ASSUME ServicesInv, do_new_proc_vmem PROVE ServicesInv'
<1> USE DEF ServicesInv
<1>1. /\ Has(MM, ANY) /\ Mail(MM, ANY).op = "MM_NEW_PROC" /\ Running
      /\ pdir' = Append(pdir, new_pdir(vmem_free))
      /\ Pass(MM, ANY, PM, Ret(MM, vmem_free + 1))
      /\ UNCHANGED <<mem, disk, file, hash_table, ptable, cr3, stat, pm, fm, test, asked, stop>>
  BY DEF do_new_proc_vmem, Gets, Has
<1>2. vmem_free \in Nat /\ vmem_free + 1 \in Arg
  BY SMT, SizeFacts DEF Arg
<1>3. pm.pc = "cr3" /\ ~Answered(PM)
  <2>1. MM \in Servers /\ PM \in Asker /\ MM \notin {FM, RAMDISK}
    BY Names DEF Servers, Asker, Device
  <2>2. PICK c \in Asker : Dest(c) = MM /\ Mail(MM, ANY) = Ask(c) /\ Ask(c) \in Box(MM)
    BY <1>1, <2>1, Senders
  <2>3. c = PM /\ Posted(PM)
    BY <2>1, <2>2, AskFacts DEF AskOK, Posted
  <2> QED
    BY <1>1, <2>1, <2>2, <2>3, PmAskFacts DEF MailInv, OnePlace, AtMostOne
<1>4. Filed /\ ~Made /\ vmem_free < N_KERNEL_PTE /\ vmem_free < Len(file) /\ OldSpaces = vmem_free
      /\ N_KERNEL_PTE \in Nat /\ Len(file) \in Nat
  <2>1. Filed /\ ~Made /\ OldSpaces = vmem_free
    BY <1>3 DEF Filed, Made, OldSpaces
  <2> QED
    BY SMT, <2>1, SizeFacts
<1>5. new_pdir(vmem_free) \in [Dir -> Table]
  <2>1. vmem_free \in 0..(N_KERNEL_PTE - 1)
    BY SMT, <1>2, <1>4
  <2> QED
    BY <2>1, NewPdir
<1>6. /\ pdir' \in Seq([Dir -> Table]) /\ Len(pdir') = vmem_free + 1
      /\ \A k \in 1..vmem_free : pdir'[k] = pdir[k]
      /\ pdir'[vmem_free + 1] = new_pdir(vmem_free)
  <2> DEFINE D == [Dir -> Table]
             e == new_pdir(vmem_free)
  <2>1. pdir \in Seq(D) /\ e \in D
    BY <1>5 DEF Types
  <2> HIDE DEF D, e
  <2>2. /\ Append(pdir, e) \in Seq(D) /\ Len(Append(pdir, e)) = Len(pdir) + 1
        /\ \A k \in 1..Len(pdir) : Append(pdir, e)[k] = pdir[k]
        /\ Append(pdir, e)[Len(pdir) + 1] = e
    BY SMT, <2>1, SeqAppend
  <2> QED
    BY <1>1, <2>2 DEF vmem_free, D, e
<1>7. /\ Types' /\ SrcUnique' /\ MailInv' /\ StoreInv' /\ FileInv' /\ TestInv'
      /\ Answered(PM)'
      /\ \A m \in Box(PM)' : m.op = "ret" => m.ret = vmem_free + 1
  <2>1. ptable' \in [Table -> [Idx -> Page \cup {NoPage}]]
    BY <1>1 DEF Types
  <2> QED
    BY <1>1, <1>2, <1>6, <2>1, MmStep
<1>8. /\ vmem_free' = vmem_free + 1 /\ Made' /\ ~Filed' /\ OldSpaces' = OldSpaces
      /\ Started' = Started /\ \A k : TableOf(k)' = TableOf(k)
  <2>1. vmem_free' = vmem_free + 1 /\ Made' /\ ~Filed' /\ Started' = Started
    BY <1>1, <1>3, <1>6, <1>7 DEF vmem_free, Made, Filed, Started
  <2>2. OldSpaces' = OldSpaces
    BY SMT, <1>2, <1>4, <2>1 DEF OldSpaces
  <2>3. \A k : TableOf(k)' = TableOf(k)
    BY <1>1 DEF TableOf
  <2> QED
    BY <2>1, <2>2, <2>3
<1>9. SpaceInv'
  <2>1. \A k \in 1..Len(pdir') : pdir'[k] = new_pdir(k - 1)
    <3> SUFFICES ASSUME NEW k \in 1..(vmem_free + 1) PROVE pdir'[k] = new_pdir(k - 1)
      BY <1>6
    <3>1. CASE k = vmem_free + 1
      BY SMTT(30), <1>2, <1>6, <3>1
    <3>2. CASE k \in 1..vmem_free
      BY <1>6, <3>2 DEF SpaceInv, vmem_free
    <3> QED
      BY SMT, <1>2, <3>1, <3>2
  <2>2. vmem_free' + (IF Filed' THEN 1 ELSE 0) <= Len(file)' /\ vmem_free' > 0
    BY SMTT(30), <1>1, <1>2, <1>4, <1>8
  <2>3. \A m \in Box(PM)' : m.op = "ret" => m.ret = vmem_free'
    BY <1>7, <1>8
  <2> QED
    BY <1>1, <1>3, <1>8, <2>1, <2>2, <2>3 DEF SpaceInv, new_pdir
<1>10. ProgramInv'
  <2>1. \A k, n : InPlace(k, n) => InPlace(k, n)'
    BY <1>1 DEF InPlace
  <2>2. (\A p \in Started : \A k \in DOMAIN Segments : InPlace(k, cr3[p]))'
    BY <1>1, <1>8, <2>1 DEF ProgramInv
  <2>3. HasFile(1)' /\ Oldest(1)' = 0
    BY <1>1, <1>3, FilesSame DEF ProgramInv, FilesKept
  <2>4. stop' # "illegal_elf"
    BY <1>1 DEF Running
  <2>5. pm'.pc = "cr3"
    BY <1>1, <1>3
  <2> QED
    BY <2>2, <2>3, <2>4, <2>5 DEF ProgramInv
<1> QED
  BY <1>7, <1>9, <1>10

\* MM maps the pages of a segment.
LEMMA AllocateNewPages ==
    ASSUME ServicesInv, do_allocate_new_pages PROVE ServicesInv'
<1> USE DEF ServicesInv
<1> DEFINE m == Mail(MM, ANY)
<1>1. /\ Has(MM, ANY) /\ m.op = "MM_NEW_PAGE" /\ Running
      /\ ptable' = [ptable EXCEPT ![DirOf(cr3[m.src])[m.i[1]]] = Frames]
      /\ Pass(MM, ANY, PM, Ret(MM, Frames[m.i[2]]))
      /\ UNCHANGED <<mem, disk, file, hash_table, pdir, cr3, stat, pm, fm, test, asked, stop>>
  BY DEF do_allocate_new_pages, Gets, Has, mm_dest
<1>2. pm.pc = "page" /\ m = NewPage(pm.entry)
  <2>1. MM \in Servers /\ PM \in Asker /\ MM \notin {FM, RAMDISK}
    BY Names DEF Servers, Asker, Device
  <2>2. PICK c \in Asker : Dest(c) = MM /\ m = Ask(c)
    BY <1>1, <2>1, Senders
  <2>3. c = PM
    BY <2>1, <2>2, AskFacts DEF AskOK
  <2>4. pm.pc = "page" /\ m = PmAsk
    BY ZenonT(30), <1>1, <2>1, <2>2, <2>3, PmAskFacts
  <2> QED
    BY <2>4 DEF PmAsk
<1> DEFINE va == Segments[pm.entry].vaddr
<1>3. m.src = pm.pcb /\ m.i = va /\ pm.entry \in 1..Len(Segments)
  BY SMT, <1>2 DEF NewPage, Req, Types
<1>4. va[1] \in Dir /\ va[2] \in Idx /\ ~IsKernelEntry(va[1])
  BY <1>3, SegmentFacts
<1>5. Made /\ vmem_free \in 1..N_KERNEL_PTE /\ vmem_free \in 1..vmem_free /\ cr3[pm.pcb] = vmem_free
  <2>1. Made /\ vmem_free > 0 /\ cr3[pm.pcb] = vmem_free
    BY <1>2 DEF Made, SpaceInv
  <2>2. vmem_free \in Nat /\ vmem_free <= N_KERNEL_PTE /\ N_KERNEL_PTE \in Nat
    BY SizeFacts
  <2>3. ASSUME NEW n \in Nat, n > 0, NEW top \in Nat, n <= top PROVE n \in 1..top /\ n \in 1..n
    BY SMTT(30), <2>3
  <2> QED
    BY <2>1, <2>2, <2>3
<1> HIDE DEF va, m
<1>6. DirOf(cr3[m.src])[m.i[1]] = PHY_PD + vmem_free - 1
  BY SMTT(30), <1>3, <1>4, <1>5, DirEntry
<1>7. /\ PHY_PD \in Nat /\ N_KERNEL_PTE \in Nat /\ FRAME \in Nat /\ FRAME + N_KERNEL_PTE < PHY_PD
      /\ PHY_PD + vmem_free - 1 \in Table /\ vmem_free \in Nat
  BY SMT, <1>5, PagingAssumption DEF Table
<1>8. Frames = Frame(vmem_free) /\ Frames[m.i[2]] = Home /\ Home \in Arg /\ Frames \in [Idx -> Page \cup {NoPage}]
  <2>1. Frames = Frame(vmem_free) /\ Frames[m.i[2]] = Home
    BY <1>3, <1>4 DEF Frames, Frame, Home, va
  <2>2. \A i \in Idx : <<FRAME + vmem_free, i>> \in Page
    BY <1>5, FramePage
  <2>3. Home \in Page
    BY <1>4, <2>2 DEF Home, va
  <2> QED
    BY <2>1, <2>2, <2>3, PageFacts DEF Frames, Arg
<1>9. ptable' = [ptable EXCEPT ![PHY_PD + vmem_free - 1] = Frame(vmem_free)]
  BY <1>1, <1>6, <1>8
<1>10. /\ ptable' \in [Table -> [Idx -> Page \cup {NoPage}]]
       /\ ptable'[PHY_PD + vmem_free - 1] = Frame(vmem_free)
       /\ \A k \in Table : k # PHY_PD + vmem_free - 1 => ptable'[k] = ptable[k]
  BY <1>7, <1>8, <1>9 DEF Types
<1>11. /\ TableOf(vmem_free)' = Frame(vmem_free)
       /\ \A k \in 1..N_KERNEL_PTE : k # vmem_free => TableOf(k)' = TableOf(k)
       /\ \A r \in Region : ptable'[r] = ptable[r]
  <2>1. vmem_free' = vmem_free
    BY <1>1 DEF vmem_free
  <2>2. ASSUME NEW k \in 1..N_KERNEL_PTE, k # vmem_free PROVE TableOf(k)' = TableOf(k)
    <3>1. PHY_PD + k - 1 \in Table /\ PHY_PD + k - 1 # PHY_PD + vmem_free - 1
      BY SMT, <1>7, <2>2 DEF Table
    <3> QED
      BY <1>10, <3>1 DEF TableOf
  <2>3. ASSUME NEW r \in Region PROVE ptable'[r] = ptable[r]
    <3>1. r \in Table /\ r # PHY_PD + vmem_free - 1
      BY SMT, <1>5, <1>7 DEF Table, Region
    <3> QED
      BY <1>10, <3>1
  <2> QED
    BY <1>10, <2>1, <2>2, <2>3 DEF TableOf
<1>12. /\ Types' /\ SrcUnique' /\ MailInv' /\ StoreInv' /\ FileInv' /\ TestInv'
       /\ \A n \in Box(PM)' : n.op = "ret" => n.ret = Home
  <2>1. pdir' \in Seq([Dir -> Table])
    BY <1>1 DEF Types
  <2> QED
    BY <1>1, <1>8, <1>10, <2>1, MmStep
<1>13. /\ vmem_free' = vmem_free /\ Started' = Started /\ Home' = Home
       /\ Made' /\ ~Filed' /\ ~Filed /\ OldSpaces' = OldSpaces /\ OldSpaces = vmem_free - 1
       /\ pm' = pm /\ cr3' = cr3 /\ stat' = stat /\ file' = file /\ pdir' = pdir
  <2>1. vmem_free' = vmem_free /\ Started' = Started /\ Home' = Home /\ Made' /\ ~Filed' /\ ~Filed
    BY <1>1, <1>2 DEF vmem_free, Started, Home, Made, Filed
  <2> QED
    BY <1>1, <1>5, <2>1 DEF OldSpaces
<1>14. SpaceInv'
  <2>1. \A p \in Started : cr3[p] \in 1..OldSpaces /\ cr3[p] \in 1..N_KERNEL_PTE /\ cr3[p] # vmem_free
    <3>1. \A p \in Started : cr3[p] \in 1..OldSpaces
      BY DEF SpaceInv
    <3> QED
      BY SMTT(30), <1>5, <1>7, <1>13, <3>1
  <2>2. \A p \in Started : TableOf(cr3[p])' = Frame(cr3[p])
    <3> SUFFICES ASSUME NEW p \in Started PROVE TableOf(cr3[p])' = Frame(cr3[p])
      OBVIOUS
    <3>1. \A k \in 1..N_KERNEL_PTE : k # vmem_free => ptable'[PHY_PD + k - 1] = ptable[PHY_PD + k - 1]
      BY <1>11 DEF TableOf
    <3>2. ptable'[PHY_PD + cr3[p] - 1] = Frame(cr3[p])
      BY <2>1, <3>1 DEF SpaceInv, TableOf
    <3> QED
      BY <1>13, <3>2 DEF TableOf
  <2>3. \A k \in 1..N_KERNEL_PTE, i \in Idx : TableOf(k)'[i] \in {NoPage, <<FRAME + k, i>>}
    <3> SUFFICES ASSUME NEW k \in 1..N_KERNEL_PTE, NEW i \in Idx
                 PROVE  TableOf(k)'[i] \in {NoPage, <<FRAME + k, i>>}
      OBVIOUS
    <3>1. CASE k = vmem_free
      BY <1>10, <3>1 DEF TableOf, Frame
    <3>2. CASE k # vmem_free
      BY <1>11, <3>2 DEF SpaceInv
    <3> QED
      BY <3>1, <3>2
  <2>4. (\A r \in Region : ptable[r] = [i \in Idx |-> <<r, i>>])'
    BY <1>11 DEF SpaceInv
  <2>5. (pm.pc = "page" => \A n \in Box(PM) : n.op = "ret" => n.ret = Home /\ TableOf(vmem_free) = Frame(vmem_free))'
    BY <1>11, <1>12, <1>13 DEF Frame
  <2>6. pm'.pc = "page"
    BY <1>2, <1>13
  <2>7. (\A p \in Started : cr3[p] \in 1..OldSpaces /\ TableOf(cr3[p]) = Frame(cr3[p]))'
    BY <1>13, <2>1, <2>2 DEF Frame
  <2>8. (\A k \in 1..Len(pdir) : pdir[k] = new_pdir(k - 1))'
    BY <1>13 DEF SpaceInv, new_pdir
  <2>9. (vmem_free + (IF Filed THEN 1 ELSE 0) <= Len(file) /\ (Made => vmem_free > 0))'
    <3>1. vmem_free <= Len(file) /\ vmem_free > 0 /\ vmem_free \in Nat
      BY <1>5, SizeFacts
    <3> QED
      BY SMT, <1>13, <3>1
  <2>10. /\ (\A p, q \in Started : cr3[p] = cr3[q] => p = q)'
         /\ (\A p \in Proc : stat[p] = "sleeping" <=> pm.pc \in {"cr3", "page", "load"} /\ pm.pcb = p)'
         /\ cr3'[pm'.pcb] = vmem_free'
    BY <1>2, <1>13 DEF SpaceInv
  <2> QED
    BY <2>3, <2>4, <2>5, <2>6, <2>7, <2>8, <2>9, <2>10 DEF SpaceInv
<1>15. ProgramInv'
  <2>1. \A n \in 1..N_KERNEL_PTE, k \in DOMAIN Segments : InPlace(k, n) => InPlace(k, n)'
    BY <1>1 DEF InPlace
  <2>2. stop' # "illegal_elf" /\ FilesKept
    BY <1>1, FilesSame DEF Running
  <2> QED
    BY <1>1, <1>2, <2>1, <2>2, ProgramKept
<1> QED
  BY <1>12, <1>14, <1>15

\* Every step of MM keeps the invariant.
LEMMA MmThread ==
    ASSUME ServicesInv, mm_thread PROVE ServicesInv'
  BY NewProcVmem, AllocateNewPages DEF mm_thread
=============================================================================
