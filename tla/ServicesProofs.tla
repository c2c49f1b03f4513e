--------------------------- MODULE ServicesProofs ---------------------------
(* Processes are started correctly for any programs, tests and tables.      *)
EXTENDS ServicesServers

-----------------------------------------------------------------------------
(* A client goes on                                                         *)

\* Most steps are set reasoning: Zenon proves them, SMT is asked by name.
USE Zenon

\* The answer a client takes is the only one, and its request is over.
LEMMA ClientTakes ==
    ASSUME ServicesInv, NEW c \in Asker, NEW src, Has(c, src),
           (src = Dest(c) /\ src \in Servers) \/ (c = PM /\ pm.pc = "ANY" /\ src = ANY)
    PROVE  /\ ~Posted(c) /\ ~Served(c)
           /\ src = Dest(c) => /\ Mail(c, src) \in Box(c) /\ Mail(c, src).src = src /\ Mail(c, src).op = "ret"
                               /\ \A n \in Box(c) : n.op = "ret" => n = Mail(c, src)
           /\ src # Dest(c) => \A n \in Box(c) : n.op # "ret"
<1> USE DEF ServicesInv
<1>1. c \in Thread /\ inbox \in [Thread -> Seq(Msg)] /\ NewProc.src = Idle /\ NewProc.op # "ret"
  BY ThreadFacts DEF Types, NewProc, Req
<1>2. Servers \cap {Idle, ANY} = {} /\ Idle # ANY /\ FM \in Servers /\ Idle # FM /\ Idle \notin Thread
  BY Names, ThreadFacts DEF Servers
<1>3. CASE src = Dest(c) /\ src \in Servers
  <2>1. Mail(c, src) \in Box(c) /\ Mail(c, src).src = src
    BY <1>1, <1>2, <1>3, FirstMail
  <2>2. Mail(c, src).op = "ret" /\ Answered(c)
    BY <1>1, <1>2, <1>3, <2>1 DEF MailInv, ClientMail, Answered
  <2>3. ~Posted(c) /\ ~Served(c)
    BY <2>2 DEF MailInv, OnePlace, AtMostOne
  <2>4. ASSUME NEW n \in Box(c), n.op = "ret" PROVE n = Mail(c, src)
    <3>1. n.src = src
      BY <1>1, <1>3, <2>4 DEF MailInv, ClientMail
    <3> QED
      BY <1>1, <1>2, <1>3, <2>1, <3>1, OneOfEach
  <2> QED
    BY <1>3, <2>1, <2>2, <2>3, <2>4
<1>4. CASE c = PM /\ pm.pc = "ANY" /\ src = ANY
  <2>1. Dest(PM) = Idle /\ PM \in Asker
    BY <1>4, DestOf
  <2>2. ~Posted(c) /\ src # Dest(c)
    BY <1>2, <1>4, <2>1 DEF Posted
  <2>3. ~Served(c)
    BY <1>2, <1>4, <2>1, ServedOne DEF Served
  <2>4. ASSUME NEW n \in Box(PM), n.op = "ret" PROVE FALSE
    <3>1. n.src = Idle
      BY <1>1, <2>1, <2>4 DEF MailInv, ClientMail
    <3>2. n \in Msg
      <4>1. inbox[PM] \in Seq(Msg) /\ DOMAIN inbox[PM] = 1..Len(inbox[PM])
        BY <1>1, <1>4, SeqLength
      <4> QED
        BY <2>4, <4>1, SeqElement DEF Box, Range
    <3> QED
      BY <1>2, <2>4, <3>1, <3>2 DEF Msg, Operation
  <2> QED
    BY <1>4, <2>2, <2>3, <2>4
<1> QED
  BY <1>3, <1>4

\* A client takes an answer and asks.
LEMMA ClientPass ==
    ASSUME ServicesInv, NEW c \in Asker, NEW src, Has(c, src),
           (src = Dest(c) /\ src \in Servers) \/ (c = PM /\ pm.pc = "ANY" /\ src = ANY),
           NEW s \in Servers, NEW q, Request(c, s, q), Pass(c, src, s, q)
    PROVE  /\ inbox' \in [Thread -> Seq(Msg)] /\ SrcUnique'
           /\ ~Posted(c) /\ ~Served(c)
           /\ \A m \in Box(c)' : m \in Box(c) /\ m.op # "ret"
           /\ Box(s)' = Box(s) \cup {q}
           /\ \A x \in Thread \ {c, s} : Box(x)' = Box(x)
<1>1. /\ ~Posted(c) /\ ~Served(c)
      /\ src = Dest(c) => /\ Mail(c, src) \in Box(c) /\ Mail(c, src).src = src /\ Mail(c, src).op = "ret"
                          /\ \A n \in Box(c) : n.op = "ret" => n = Mail(c, src)
      /\ src # Dest(c) => \A n \in Box(c) : n.op # "ret"
  BY ClientTakes
<1>2. c \in Thread /\ s \in Thread /\ s # c /\ Idle \notin Servers /\ ANY \notin Servers
  BY ThreadFacts, Names DEF Servers
<1>3. q \in Msg /\ \A n \in Box(s) : n.src # q.src
  BY <1>1, NotPosted DEF ServicesInv, Servers, Request
<1>4. /\ inbox' \in [Thread -> Seq(Msg)]
      /\ SrcUnique'
      /\ \A x \in Thread \ {c, s} : Box(x)' = Box(x)
      /\ Box(s)' = Box(s) \cup {q}
      /\ Box(c)' \subseteq Box(c)
      /\ Mail(c, src).src # Idle => Mail(c, src) \notin Box(c)'
  <2>1. inbox \in [Thread -> Seq(Msg)] /\ SrcUnique
    BY DEF ServicesInv, Types
  <2> QED
    BY SMT, <1>2, <1>3, <2>1, PassBox
<1>5. \A m \in Box(c)' : m \in Box(c) /\ m.op # "ret"
  <2>1. CASE src = Dest(c)
    <3>1. src \in Servers
      <4>1. c = PM /\ pm.pc = "ANY" /\ src = ANY => FALSE
        BY <2>1, DestOf, Names DEF ServicesInv
      <4> QED
        BY <4>1
    <3> QED
      BY <1>1, <1>2, <1>4, <2>1, <3>1
  <2>2. CASE src # Dest(c)
    BY <1>1, <1>4, <2>2
  <2> QED
    BY <2>1, <2>2
<1> QED
  BY <1>1, <1>4, <1>5

-----------------------------------------------------------------------------
(* PM                                                                       *)

\* What every step of PM leaves alone, whether it asks again or not.
LEMMA PmFrame ==
    ASSUME ServicesInv, UNCHANGED <<disk, file, hash_table, fm, test>>, mem' \in [Page -> Value],
           \A u \in DOMAIN PageOf : mem'[PageOf[u]] = mem[PageOf[u]],
           \A d \in Asker \ {PM} : Answered(d)' = Answered(d) /\ Box(d)' = Box(d),
           \A d \in Asker : Served(d)' = Served(d),
           RamDone' = RamDone
    PROVE  StoreInv' /\ FileInv' /\ TestInv' /\ FilesKept
<1> USE DEF ServicesInv
<1>1. FilesKept
  BY FilesSame
<1>2. DOMAIN PageOf = {PM, "test_data"} \cup Tester /\ PM \notin Tester
  BY PageFacts, ThreadFacts
<1>3. StoreInv' /\ FileInv'
  BY <1>2 DEF StoreInv, FileInv, HashInv, HasFile, IsOldest
<1>4. TestInv'
  <2> SUFFICES ASSUME NEW u \in Tester PROVE TestOne(u)'
    BY DEF TestInv
  <2>1. u \in Asker \ {PM} /\ u \in DOMAIN PageOf /\ TestOne(u)
    BY <1>2 DEF Asker, TestInv
  <2>2. ReadDone(u)' => ReadDone(u)
    BY <2>1 DEF ReadDone
  <2> QED
    BY <1>1, <2>1, <2>2, TestFrame
<1> QED
  BY <1>1, <1>3, <1>4

\* PM takes a message and asks.
LEMMA PmStep ==
    ASSUME ServicesInv, NEW src, Has(PM, src),
           (src = Dest(PM) /\ src \in {FM, MM}) \/ (pm.pc = "ANY" /\ src = ANY),
           NEW s \in {FM, MM}, NEW q, Request(PM, s, q), Pass(PM, src, s, q),
           UNCHANGED <<disk, file, hash_table, fm, test>>, mem' \in [Page -> Value],
           \A u \in DOMAIN PageOf : mem'[PageOf[u]] = mem[PageOf[u]],
           inbox' \in [Thread -> Seq(Msg)] => Types',
           Dest(PM)' = s, Ask(PM)' = q
    PROVE  /\ Types' /\ SrcUnique' /\ MailInv' /\ StoreInv' /\ FileInv' /\ TestInv'
           /\ ~Answered(PM)' /\ ~Served(PM)' /\ \A m \in Box(PM)' : m.op # "ret"
<1>1. PM \in Asker /\ s \in Servers /\ {FM, MM} \subseteq Servers /\ PM \notin Tester
  BY ThreadFacts DEF Asker, Servers
<1>2. /\ inbox' \in [Thread -> Seq(Msg)] /\ SrcUnique'
      /\ ~Posted(PM) /\ ~Served(PM)
      /\ \A m \in Box(PM)' : m \in Box(PM) /\ m.op # "ret"
      /\ Box(s)' = Box(s) \cup {q}
      /\ \A x \in Thread \ {PM, s} : Box(x)' = Box(x)
  BY SMT, <1>1, ClientPass
<1>3. OthersKeep(PM)
  BY AskFrame DEF OthersKeep, Asker
<1>4. /\ MailInv'
      /\ ~Answered(PM)' /\ ~Served(PM)'
      /\ \A d \in Asker \ {PM} : Answered(d)' = Answered(d) /\ Box(d)' = Box(d)
      /\ \A d \in Asker : Served(d)' = Served(d)
      /\ RamDone' = RamDone
  BY <1>1, <1>2, <1>3, MailPost DEF ServicesInv
<1>5. StoreInv' /\ FileInv' /\ TestInv'
  BY <1>4, PmFrame
<1> QED
  BY <1>2, <1>4, <1>5

\* PM leaves the address spaces to MM.
LEMMA SameSpaces ==
    ASSUME SpaceInv, UNCHANGED <<pdir, ptable>>
    PROVE  /\ (\A k \in 1..Len(pdir) : pdir[k] = new_pdir(k - 1))'
           /\ (\A r \in Region : ptable[r] = [i \in Idx |-> <<r, i>>])'
           /\ (\A k \in 1..N_KERNEL_PTE, i \in Idx : TableOf(k)[i] \in {NoPage, <<FRAME + k, i>>})'
           /\ vmem_free' = vmem_free
           /\ \A k : TableOf(k)' = TableOf(k)
<1>1. vmem_free' = vmem_free /\ \A k : TableOf(k)' = TableOf(k)
  BY DEF vmem_free, TableOf
<1>2. (\A k \in 1..Len(pdir) : pdir[k] = new_pdir(k - 1))'
  BY DEF SpaceInv, new_pdir
<1>3. (\A r \in Region : ptable[r] = [i \in Idx |-> <<r, i>>])'
  BY DEF SpaceInv
<1>4. (\A k \in 1..N_KERNEL_PTE, i \in Idx : TableOf(k)[i] \in {NoPage, <<FRAME + k, i>>})'
  BY <1>1 DEF SpaceInv
<1> QED
  BY <1>1, <1>2, <1>3, <1>4

\* The processes that run, while PM prepares another.
LEMMA SameStarted ==
    ASSUME Types, SpaceInv, UNCHANGED <<pdir, ptable>>, Started' = Started, OldSpaces' = OldSpaces,
           \A p \in Started : cr3'[p] = cr3[p]
    PROVE  /\ (\A p \in Started : cr3[p] \in 1..OldSpaces /\ TableOf(cr3[p]) = Frame(cr3[p]))'
           /\ (\A p, q \in Started : cr3[p] = cr3[q] => p = q)'
<1>1. \A p \in Started : cr3[p] \in 1..OldSpaces /\ TableOf(cr3[p]) = Frame(cr3[p])
  BY DEF SpaceInv
<1>2. \A p, q \in Started : cr3[p] = cr3[q] => p = q
  BY DEF SpaceInv
<1>3. \A k : TableOf(k)' = TableOf(k)
  BY DEF TableOf
<1>4. (\A p, q \in Started : cr3[p] = cr3[q] => p = q)'
  BY <1>2
<1>5. (\A p \in Started : cr3[p] \in 1..OldSpaces /\ TableOf(cr3[p]) = Frame(cr3[p]))'
  <2> SUFFICES ASSUME NEW p \in Started'
               PROVE  (cr3[p] \in 1..OldSpaces /\ TableOf(cr3[p]) = Frame(cr3[p]))'
    OBVIOUS
  <2>1. cr3'[p] = cr3[p]
    OBVIOUS
  <2> QED
    BY <1>1, <2>1 DEF TableOf, Frame
<1> QED
  BY <1>4, <1>5

\* The page PM reads the program's header into.
LEMMA PmBuf ==
    ASSUME SpaceInv PROVE KPage(buf(PM)) = PageOf[PM]
  BY KernelPage, PageFacts DEF buf

\* PM takes a request and asks FM for a file.
LEMMA PmReceive ==
    ASSUME ServicesInv, pm_receive PROVE ServicesInv'
<1> USE DEF ServicesInv
<1>1. /\ pm.pc = "ANY" /\ Has(PM, ANY) /\ Running
      /\ Pass(PM, ANY, FM, Req(PM, "FM_NEW_FILE", 1, 0, 0))
      /\ pm' = [pm EXCEPT !.pc = "created"]
      /\ UNCHANGED <<mem, disk, file, hash_table, pdir, ptable, cr3, stat, fm, test, stop>>
  BY DEF pm_receive, Gets, Has, svcVars
<1>2. pm'.pc = "created"
  BY <1>1 DEF Types
<1> DEFINE q == Req(PM, "FM_NEW_FILE", 1, 0, 0)
<1>3. Request(PM, FM, q) /\ Ask(PM)' = q /\ Dest(PM)' = FM
  <2>1. PM \in Thread /\ 0 \in Arg /\ 1 \in Arg
    BY ThreadFacts DEF Arg
  <2>2. Request(PM, FM, q)
    BY <2>1, ThreadFacts, Names DEF Request, Req, Msg, Operation
  <2> QED
    BY <1>2, <2>2 DEF Ask, PmAsk, Dest
<1>4. inbox' \in [Thread -> Seq(Msg)] => Types'
  BY <1>1 DEF Types
<1>5. mem' \in [Page -> Value]
  BY <1>1 DEF Types
<1>6. /\ Types' /\ SrcUnique' /\ MailInv' /\ StoreInv' /\ FileInv' /\ TestInv'
      /\ ~Answered(PM)' /\ ~Served(PM)'
  <2> HIDE DEF q
  <2>1. Pass(PM, ANY, FM, q)
    BY <1>1 DEF q
  <2> QED
    BY <1>1, <1>3, <1>4, <1>5, <2>1, PmStep
<1>7. Started' = Started /\ ~Made /\ ~Made' /\ ~Filed /\ ~Filed' /\ vmem_free' = vmem_free /\ OldSpaces' = OldSpaces
  BY <1>1, <1>2, <1>6 DEF Started, Made, Filed, vmem_free, OldSpaces
<1>8. SpaceInv'
  <2>1. /\ (\A p \in Started : cr3[p] \in 1..OldSpaces /\ TableOf(cr3[p]) = Frame(cr3[p]))'
        /\ (\A p, q1 \in Started : cr3[p] = cr3[q1] => p = q1)'
    BY <1>1, <1>7, SameStarted
  <2>2. (vmem_free + (IF Filed THEN 1 ELSE 0) <= Len(file) /\ (Made => vmem_free > 0))'
    BY SMT, <1>1, <1>7, SizeFacts
  <2>3. (\A p \in Proc : stat[p] = "sleeping" <=> pm.pc \in {"cr3", "page", "load"} /\ pm.pcb = p)'
    BY <1>1, <1>2 DEF SpaceInv
  <2> QED
    BY <1>1, <1>2, <2>1, <2>2, <2>3, SameSpaces DEF SpaceInv
<1>9. ProgramInv'
  <2>1. \A k, n : InPlace(k, n) => InPlace(k, n)'
    BY <1>1 DEF InPlace
  <2>2. (\A p \in Started : \A k \in DOMAIN Segments : InPlace(k, cr3[p]))'
    BY <1>1, <1>7, <2>1 DEF ProgramInv
  <2> QED
    BY <1>1, <1>2, <2>2 DEF ProgramInv, Running
<1> QED
  BY <1>6, <1>8, <1>9

\* PM has its file and asks for its header.
LEMMA PmReadElf ==
    ASSUME ServicesInv, pm_read_elf PROVE ServicesInv'
<1> USE DEF ServicesInv
<1>1. /\ pm.pc = "created" /\ Has(PM, FM) /\ Running
      /\ Pass(PM, FM, FM, Req(PM, "FM_READ", 1, buf(PM), 1))
      /\ pm' = [pm EXCEPT !.pc = "elf"]
      /\ UNCHANGED <<mem, disk, file, hash_table, pdir, ptable, cr3, stat, fm, test, stop>>
  BY DEF pm_read_elf, At, Has, svcVars
<1>2. pm'.pc = "elf" /\ Dest(PM) = FM
  BY <1>1 DEF Types, Dest
<1> DEFINE q == Req(PM, "FM_READ", 1, buf(PM), 1)
<1>3. Request(PM, FM, q) /\ Ask(PM)' = q /\ Dest(PM)' = FM
  <2>1. PM \in Thread /\ buf(PM) \in Arg /\ 1 \in Arg
    BY ThreadFacts, PageFacts DEF Arg
  <2>2. Request(PM, FM, q)
    BY <2>1, ThreadFacts, Names DEF Request, Req, Msg, Operation
  <2>3. Ask(PM)' = q
    BY <1>2 DEF Ask, PmAsk, buf
  <2> QED
    BY <1>2, <2>2, <2>3 DEF Dest
<1>4. inbox' \in [Thread -> Seq(Msg)] => Types'
  BY <1>1 DEF Types
<1>5. mem' \in [Page -> Value]
  BY <1>1 DEF Types
<1>6. /\ Types' /\ SrcUnique' /\ MailInv' /\ StoreInv' /\ FileInv' /\ TestInv'
      /\ ~Answered(PM)' /\ ~Served(PM)'
  <2> HIDE DEF q
  <2>1. Pass(PM, FM, FM, q)
    BY <1>1 DEF q
  <2> QED
    BY <1>1, <1>2, <1>3, <1>4, <1>5, <2>1, PmStep
<1>7. Answered(PM)
  <2>1. PM \in Asker /\ FM \in Servers
    BY DEF Asker, Servers
  <2> QED
    BY <1>1, <1>2, <2>1, ClientTakes DEF Answered
<1>8. Started' = Started /\ ~Made /\ ~Made' /\ Filed /\ Filed' /\ vmem_free' = vmem_free /\ OldSpaces' = OldSpaces
  BY <1>1, <1>2, <1>7 DEF Started, Made, Filed, vmem_free, OldSpaces
<1>9. SpaceInv'
  <2>1. /\ (\A p \in Started : cr3[p] \in 1..OldSpaces /\ TableOf(cr3[p]) = Frame(cr3[p]))'
        /\ (\A p, q1 \in Started : cr3[p] = cr3[q1] => p = q1)'
    BY <1>1, <1>8, SameStarted
  <2>2. (vmem_free + (IF Filed THEN 1 ELSE 0) <= Len(file) /\ (Made => vmem_free > 0))'
    BY SMT, <1>1, <1>8, SizeFacts
  <2>3. (\A p \in Proc : stat[p] = "sleeping" <=> pm.pc \in {"cr3", "page", "load"} /\ pm.pcb = p)'
    BY <1>1, <1>2 DEF SpaceInv
  <2> QED
    BY <1>1, <1>2, <2>1, <2>2, <2>3, SameSpaces DEF SpaceInv
<1>10. ProgramInv'
  <2>1. \A k, n : InPlace(k, n) => InPlace(k, n)'
    BY <1>1 DEF InPlace
  <2>2. (\A p \in Started : \A k \in DOMAIN Segments : InPlace(k, cr3[p]))'
    BY <1>1, <1>8, <2>1 DEF ProgramInv
  <2>3. ~ReadDone(PM)'
    BY <1>6 DEF ReadDone
  <2> QED
    BY <1>1, <1>2, <2>2, <2>3 DEF ProgramInv, Running
<1> QED
  BY <1>6, <1>9, <1>10

\* PM has read the header: what it found tells whether the file is the first one.
LEMMA ElfRead ==
    ASSUME ServicesInv, At("elf", FM)
    PROVE  /\ pm.pc = "elf" /\ Dest(PM) = FM /\ Has(PM, FM) /\ Running
           /\ HasFile(1) /\ (IsElf <=> Oldest(1) = 0)
<1> USE DEF ServicesInv
<1>1. pm.pc = "elf" /\ Dest(PM) = FM /\ Has(PM, FM) /\ Running
  BY DEF At, Dest, Has
<1>2. Answered(PM)
  <2>1. PM \in Asker /\ FM \in Servers
    BY DEF Asker, Servers
  <2> QED
    BY <1>1, <2>1, ClientTakes DEF Answered
<1>3. HasFile(1) /\ (mem[PageOf[PM]] = "elf" <=> Oldest(1) = 0)
  BY <1>1, <1>2 DEF ProgramInv, ReadDone
<1> QED
  BY <1>1, <1>3, PmBuf DEF IsElf

\* PM finds no program and the machine stops.
LEMMA PmIllegal ==
    ASSUME ServicesInv, pm_illegal PROVE ServicesInv'
<1>1. HasFile(1) /\ Oldest(1) # 0
  BY ElfRead DEF pm_illegal
<1>2. file # <<>> /\ file[1] # 1
  <2>1. Types /\ DOMAIN file = 1..Len(file) /\ Len(file) \in Nat
    BY SeqLength DEF ServicesInv, Types
  <2>2. file # <<>>
    BY SMT, <1>1, <2>1 DEF HasFile
  <2>3. ASSUME file[1] = 1 PROVE FALSE
    <3>1. 1 \in DOMAIN file /\ \A j \in DOMAIN file : 1 <= j
      BY SMT, <1>1, <2>1 DEF HasFile
    <3>2. Oldest(1) = 1 - 1
      BY <2>1, <2>3, <3>1, OldestIs DEF Oldest, Types
    <3> QED
      BY SMT, <1>1, <3>2
  <2> QED
    BY <2>2, <2>3
<1> QED
  BY <1>2, StopStep DEF pm_illegal

\* PM takes a PCB and asks MM for an address space.
LEMMA PmNewPcb ==
    ASSUME ServicesInv, pm_new_pcb PROVE ServicesInv'
<1> USE DEF ServicesInv
<1> DEFINE b == CHOOSE p \in Proc : stat[p] = "free"
<1>1. /\ At("elf", FM) /\ IsElf /\ \E p \in Proc : stat[p] = "free"
      /\ stat' = [stat EXCEPT ![b] = "sleeping"]
      /\ pm' = [pm EXCEPT !.pc = "cr3", !.pcb = b]
      /\ Pass(PM, FM, MM, Req(PM, "MM_NEW_PROC", 0, 0, 0))
      /\ UNCHANGED <<mem, disk, file, hash_table, pdir, ptable, cr3, fm, test, stop>>
  BY DEF pm_new_pcb
<1>2. pm.pc = "elf" /\ Dest(PM) = FM /\ Has(PM, FM) /\ Running /\ HasFile(1) /\ Oldest(1) = 0
  BY <1>1, ElfRead
<1>3. b \in Proc /\ stat[b] = "free"
  BY <1>1
<1> HIDE DEF b
<1>4. pm'.pc = "cr3" /\ pm'.pcb = b /\ stat'[b] = "sleeping" /\ \A p \in Proc : p # b => stat'[p] = stat[p]
  BY <1>1, <1>3 DEF Types
<1> DEFINE q == Req(PM, "MM_NEW_PROC", 0, 0, 0)
<1>5. Request(PM, MM, q) /\ Ask(PM)' = q /\ Dest(PM)' = MM
  <2>1. PM \in Thread /\ 0 \in Arg
    BY ThreadFacts DEF Arg
  <2>2. Request(PM, MM, q)
    BY <2>1, ThreadFacts, Names DEF Request, Req, Msg, Operation
  <2> QED
    BY <1>4, <2>2 DEF Ask, PmAsk, Dest
<1>6. inbox' \in [Thread -> Seq(Msg)] => Types'
  <2>1. /\ stat' \in [Proc -> {"free", "sleeping", "ready"}]
        /\ pm' \in [pc : {"ANY", "created", "elf", "cr3", "page", "load"}, pcb : Proc \cup {Idle},
                    entry : Nat, pa : Page \cup {NoPage}]
    BY <1>1, <1>3 DEF Types
  <2> QED
    BY <1>1, <1>3, <1>4, <2>1 DEF Types
<1>7. mem' \in [Page -> Value]
  BY <1>1 DEF Types
<1>8. /\ Types' /\ SrcUnique' /\ MailInv' /\ StoreInv' /\ FileInv' /\ TestInv'
      /\ ~Answered(PM)' /\ ~Served(PM)' /\ \A m \in Box(PM)' : m.op # "ret"
  <2> HIDE DEF q
  <2>1. Pass(PM, FM, MM, q)
    BY <1>1 DEF q
  <2> QED
    BY <1>1, <1>2, <1>5, <1>6, <1>7, <2>1, PmStep
<1>9. Started' = Started /\ ~Made /\ ~Made' /\ Filed /\ Filed' /\ vmem_free' = vmem_free /\ OldSpaces' = OldSpaces
  <2>1. Started' = Started
    BY <1>3, <1>4 DEF Started
  <2> QED
    BY <1>1, <1>2, <1>4, <1>8, <2>1 DEF Made, Filed, vmem_free, OldSpaces
<1>10. SpaceInv'
  <2>1. /\ (\A p \in Started : cr3[p] \in 1..OldSpaces /\ TableOf(cr3[p]) = Frame(cr3[p]))'
        /\ (\A p, q1 \in Started : cr3[p] = cr3[q1] => p = q1)'
    BY <1>1, <1>9, SameStarted
  <2>2. (vmem_free + (IF Filed THEN 1 ELSE 0) <= Len(file) /\ (Made => vmem_free > 0))'
    BY SMT, <1>1, <1>9, SizeFacts
  <2>3. (\A p \in Proc : stat[p] = "sleeping" <=> pm.pc \in {"cr3", "page", "load"} /\ pm.pcb = p)'
    <3>1. \A p \in Proc : stat[p] # "sleeping"
      BY <1>2 DEF SpaceInv
    <3> QED
      BY <1>4, <3>1
  <2> QED
    BY <1>1, <1>4, <1>8, <2>1, <2>2, <2>3, SameSpaces DEF SpaceInv
<1>11. ProgramInv'
  <2>1. \A k, n : InPlace(k, n) => InPlace(k, n)'
    BY <1>1 DEF InPlace
  <2>2. (\A p \in Started : \A k \in DOMAIN Segments : InPlace(k, cr3[p]))'
    BY <1>1, <1>9, <2>1 DEF ProgramInv
  <2>3. HasFile(1)' /\ Oldest(1)' = 0
    BY <1>1, <1>2, FilesSame DEF FilesKept
  <2> QED
    BY <1>1, <1>2, <1>4, <2>2, <2>3 DEF ProgramInv, Running
<1> QED
  BY <1>8, <1>10, <1>11

\* PM sets cr3 and asks for the page of the first segment.
LEMMA PmSetCr3 ==
    ASSUME ServicesInv, pm_set_cr3 PROVE ServicesInv'
<1> USE DEF ServicesInv
<1>1. /\ pm.pc = "cr3" /\ Has(PM, MM) /\ Running
      /\ cr3' = [cr3 EXCEPT ![pm.pcb] = Mail(PM, MM).ret]
      /\ Pass(PM, MM, MM, NewPage(1))
      /\ pm' = [pm EXCEPT !.pc = "page", !.entry = 1]
      /\ UNCHANGED <<mem, disk, file, hash_table, pdir, ptable, stat, fm, test, stop>>
  BY DEF pm_set_cr3, At, Has
<1>2. Dest(PM) = MM /\ pm.pcb \in Proc /\ stat[pm.pcb] = "sleeping"
  BY <1>1 DEF Dest, Types, SpaceInv
<1>3. Mail(PM, MM).ret = vmem_free /\ Answered(PM)
  <2>1. PM \in Asker /\ MM \in Servers
    BY DEF Asker, Servers
  <2>2. Mail(PM, MM) \in Box(PM) /\ Mail(PM, MM).op = "ret"
    BY <1>1, <1>2, <2>1, ClientTakes
  <2> QED
    BY <1>1, <2>2 DEF SpaceInv, Answered
<1>4. 1 \in 1..Len(Segments)
  <2>1. Segments \in Seq([vaddr : Dir \X Idx, filesz : {0, 1}, memsz : {0, 1}]) /\ Segments # <<>>
    BY SegmentsAssumption
  <2>2. Len(Segments) \in Nat /\ Len(Segments) # 0
    BY <2>1, SeqLength, SeqEmpty
  <2> QED
    BY SMT, <2>2
<1>5. /\ pm'.pc = "page" /\ pm'.entry = 1 /\ pm'.pcb = pm.pcb
      /\ cr3'[pm.pcb] = vmem_free /\ \A p \in Proc : p # pm.pcb => cr3'[p] = cr3[p]
  BY <1>1, <1>2, <1>3 DEF Types
<1> DEFINE q == NewPage(1)
<1>6. Request(PM, MM, q) /\ Ask(PM)' = q /\ Dest(PM)' = MM
  <2>1. pm.pcb \in Proc /\ pm.pcb \in Thread /\ 0 \in Arg /\ Segments[1].vaddr \in Arg /\ Segments[1].memsz \in {0, 1}
    BY <1>2, <1>4, ThreadFacts, SegmentFacts, PageFacts DEF Arg
  <2>2. Request(PM, MM, q)
    BY <2>1, ThreadFacts, Names DEF Request, NewPage, Req, Msg, Operation
  <2>3. Ask(PM)' = q
    BY <1>5 DEF Ask, PmAsk, NewPage, Req
  <2> QED
    BY <1>5, <2>2, <2>3 DEF Dest
<1>7. inbox' \in [Thread -> Seq(Msg)] => Types'
  <2>1. vmem_free \in Nat
    BY SizeFacts
  <2>2. /\ cr3' \in [Proc -> Nat]
        /\ pm' \in [pc : {"ANY", "created", "elf", "cr3", "page", "load"}, pcb : Proc \cup {Idle},
                    entry : Nat, pa : Page \cup {NoPage}]
    BY <1>1, <1>2, <1>3, <2>1 DEF Types
  <2> QED
    BY <1>1, <1>2, <1>4, <1>5, <2>2 DEF Types
<1>8. mem' \in [Page -> Value]
  BY <1>1 DEF Types
<1>9. /\ Types' /\ SrcUnique' /\ MailInv' /\ StoreInv' /\ FileInv' /\ TestInv'
      /\ ~Answered(PM)' /\ ~Served(PM)' /\ \A m \in Box(PM)' : m.op # "ret"
  <2> HIDE DEF q
  <2>1. Pass(PM, MM, MM, q)
    BY <1>1 DEF q
  <2> QED
    BY <1>1, <1>2, <1>6, <1>7, <1>8, <2>1, PmStep
<1>10. Started' = Started /\ Made /\ Made' /\ ~Filed /\ ~Filed' /\ vmem_free' = vmem_free /\ OldSpaces' = OldSpaces
  BY <1>1, <1>3, <1>5 DEF Started, Made, Filed, vmem_free, OldSpaces
<1>11. \A p \in Started : cr3'[p] = cr3[p]
  BY <1>2, <1>5 DEF Started
<1>12. SpaceInv'
  <2>1. /\ (\A p \in Started : cr3[p] \in 1..OldSpaces /\ TableOf(cr3[p]) = Frame(cr3[p]))'
        /\ (\A p, q1 \in Started : cr3[p] = cr3[q1] => p = q1)'
    BY <1>1, <1>10, <1>11, SameStarted
  <2>2. (vmem_free + (IF Filed THEN 1 ELSE 0) <= Len(file) /\ (Made => vmem_free > 0))'
    BY SMT, <1>1, <1>10, SizeFacts
  <2>3. (\A p \in Proc : stat[p] = "sleeping" <=> pm.pc \in {"cr3", "page", "load"} /\ pm.pcb = p)'
    BY <1>1, <1>5 DEF SpaceInv
  <2>4. cr3'[pm'.pcb] = vmem_free'
    BY <1>5, <1>10
  <2> QED
    BY <1>1, <1>5, <1>9, <2>1, <2>2, <2>3, <2>4, SameSpaces DEF SpaceInv
<1>13. ProgramInv'
  <2>1. \A k, n : InPlace(k, n) => InPlace(k, n)'
    BY <1>1 DEF InPlace
  <2>2. (\A p \in Started : \A k \in DOMAIN Segments : InPlace(k, cr3[p]))'
    <3> SUFFICES ASSUME NEW p \in Started, NEW k \in DOMAIN Segments PROVE InPlace(k, cr3[p])'
      BY <1>10
    <3>1. InPlace(k, cr3[p]) /\ cr3'[p] = cr3[p]
      BY <1>11 DEF ProgramInv
    <3> QED
      BY <1>1, <3>1 DEF InPlace
  <2>3. HasFile(1)' /\ Oldest(1)' = 0
    BY <1>1, FilesSame DEF ProgramInv, FilesKept
  <2>4. \A k \in 1..(pm'.entry - 1) : FALSE
    BY SMTT(30), <1>5
  <2> QED
    BY <1>1, <1>5, <2>2, <2>3, <2>4 DEF ProgramInv, Running
<1> QED
  BY <1>9, <1>12, <1>13

\* PM has the page of a segment and asks FM to read into it.
LEMMA PmLoad ==
    ASSUME ServicesInv, pm_load PROVE ServicesInv'
<1> USE DEF ServicesInv
<1>1. /\ pm.pc = "page" /\ Has(PM, MM) /\ Running
      /\ Pass(PM, MM, FM, Req(PM, "FM_READ", 1, Mail(PM, MM).ret, Segments[pm.entry].filesz))
      /\ pm' = [pm EXCEPT !.pc = "load", !.pa = Mail(PM, MM).ret]
      /\ UNCHANGED <<mem, disk, file, hash_table, pdir, ptable, cr3, stat, fm, test, stop>>
  BY DEF pm_load, At, Has, svcVars
<1>2. Dest(PM) = MM /\ pm.pcb \in Proc /\ pm.entry \in 1..Len(Segments)
  BY <1>1 DEF Dest, Types
<1>3. Mail(PM, MM).ret = Home /\ TableOf(vmem_free) = Frame(vmem_free)
  <2>1. PM \in Asker /\ MM \in Servers
    BY DEF Asker, Servers
  <2>2. Mail(PM, MM) \in Box(PM) /\ Mail(PM, MM).op = "ret"
    BY <1>1, <1>2, <2>1, ClientTakes
  <2> QED
    BY <1>1, <2>2 DEF SpaceInv
<1>4. Home \in Page /\ Segments[pm.entry].filesz \in {0, 1}
  <2>1. Made
    BY <1>1 DEF Made
  <2>2. vmem_free \in 1..N_KERNEL_PTE
    BY SMT, <2>1, SizeFacts
  <2>3. Segments[pm.entry].vaddr[2] \in Idx /\ Segments[pm.entry].filesz \in {0, 1}
    BY <1>2, SegmentFacts
  <2> QED
    BY <2>2, <2>3, FramePage DEF Home
<1>5. pm'.pc = "load" /\ pm'.entry = pm.entry /\ pm'.pcb = pm.pcb /\ pm'.pa = Home
  BY <1>1, <1>3 DEF Types
<1> DEFINE q == Req(PM, "FM_READ", 1, Home, Segments[pm.entry].filesz)
<1>6. Request(PM, FM, q) /\ Ask(PM)' = q /\ Dest(PM)' = FM
  <2>1. PM \in Thread /\ 1 \in Arg /\ Home \in Arg
    BY <1>4, ThreadFacts, PageFacts DEF Arg
  <2>2. Request(PM, FM, q)
    BY <1>4, <2>1, ThreadFacts, Names DEF Request, Req, Msg, Operation
  <2>3. Ask(PM)' = q
    BY <1>5 DEF Ask, PmAsk, Req
  <2> QED
    BY <1>5, <2>2, <2>3 DEF Dest
<1>7. inbox' \in [Thread -> Seq(Msg)] => Types'
  <2>1. pm' \in [pc : {"ANY", "created", "elf", "cr3", "page", "load"}, pcb : Proc \cup {Idle},
                 entry : Nat, pa : Page \cup {NoPage}]
    BY <1>1, <1>3, <1>4 DEF Types
  <2> QED
    BY <1>1, <1>2, <1>5, <2>1 DEF Types
<1>8. mem' \in [Page -> Value]
  BY <1>1 DEF Types
<1>9. /\ Types' /\ SrcUnique' /\ MailInv' /\ StoreInv' /\ FileInv' /\ TestInv'
      /\ ~Answered(PM)' /\ ~Served(PM)' /\ \A m \in Box(PM)' : m.op # "ret"
  <2> HIDE DEF q
  <2>1. Pass(PM, MM, FM, q)
    BY <1>1, <1>3 DEF q
  <2> QED
    BY <1>1, <1>2, <1>6, <1>7, <1>8, <2>1, PmStep
<1>10. /\ Started' = Started /\ Made /\ Made' /\ ~Filed /\ ~Filed' /\ vmem_free' = vmem_free
       /\ OldSpaces' = OldSpaces /\ Home' = Home
  BY <1>1, <1>3, <1>5 DEF Started, Made, Filed, vmem_free, OldSpaces, Home
<1>11. SpaceInv'
  <2>1. /\ (\A p \in Started : cr3[p] \in 1..OldSpaces /\ TableOf(cr3[p]) = Frame(cr3[p]))'
        /\ (\A p, q1 \in Started : cr3[p] = cr3[q1] => p = q1)'
    BY <1>1, <1>10, SameStarted
  <2>2. (vmem_free + (IF Filed THEN 1 ELSE 0) <= Len(file) /\ (Made => vmem_free > 0))'
    BY SMTT(30), <1>1, <1>10, SizeFacts
  <2>3. /\ (\A p \in Proc : stat[p] = "sleeping" <=> pm.pc \in {"cr3", "page", "load"} /\ pm.pcb = p)'
        /\ cr3'[pm'.pcb] = vmem_free'
    BY <1>1, <1>5, <1>10 DEF SpaceInv
  <2>4. pm'.pa = Home' /\ (TableOf(vmem_free) = Frame(vmem_free))'
    BY <1>1, <1>3, <1>5, <1>10 DEF TableOf, Frame
  <2> QED
    BY <1>1, <1>5, <2>1, <2>2, <2>3, <2>4, SameSpaces DEF SpaceInv
<1>12. ProgramInv'
  <2>1. \A k, n : InPlace(k, n) => InPlace(k, n)'
    BY <1>1 DEF InPlace
  <2>2. (\A p \in Started : \A k \in DOMAIN Segments : InPlace(k, cr3[p]))'
    BY <1>1, <1>10, <2>1 DEF ProgramInv
  <2>3. (\A k \in 1..(pm.entry - 1) : InPlace(k, vmem_free))'
    BY <1>1, <1>5, <1>10, <2>1 DEF ProgramInv
  <2>4. HasFile(1)' /\ Oldest(1)' = 0
    BY <1>1, FilesSame DEF ProgramInv, FilesKept
  <2>5. ~ReadDone(PM)'
    BY <1>9 DEF ReadDone
  <2> QED
    BY <1>1, <1>5, <2>2, <2>3, <2>4, <2>5 DEF ProgramInv, Running
<1> QED
  BY <1>9, <1>11, <1>12

\* PM has read a segment and clears the rest of it: the segment is in place.
LEMMA SegmentLoaded ==
    ASSUME ServicesInv, At("load", FM), mem' = ZeroFill(Segments[pm.entry]),
           NEW e, e = pm.entry, NEW v, v = vmem_free
    PROVE  /\ pm.pc = "load" /\ Dest(PM) = FM /\ Has(PM, FM) /\ Running
           /\ pm.pcb \in Proc /\ e \in 1..Len(Segments) /\ v \in 1..N_KERNEL_PTE
           /\ mem' \in [Page -> Value]
           /\ \A u \in DOMAIN PageOf : mem'[PageOf[u]] = mem[PageOf[u]]
           /\ \A p \in Started : cr3[p] # v
           /\ \A p \in Started, k \in DOMAIN Segments, n \in 1..N_KERNEL_PTE : n = cr3[p] => InPlace(k, n)'
           /\ \A k \in 1..e : InPlace(k, v)'
<1> USE DEF ServicesInv
<1> DEFINE s == Segments[e]
<1>1. pm.pc = "load" /\ Dest(PM) = FM /\ Has(PM, FM) /\ Running
  BY DEF At, Dest, Has
<1>2. pm.pcb \in Proc /\ e \in 1..Len(Segments)
  BY <1>1 DEF Types
<1>3. pm.pa = <<FRAME + v, s.vaddr[2]>> /\ v \in 1..N_KERNEL_PTE /\ s.vaddr[2] \in Idx
  BY <1>1, LoadPage DEF Home
<1>4. s.filesz \in {0, 1} /\ s.memsz \in {0, 1} /\ s.filesz <= s.memsz
  BY <1>2, SegmentFacts
<1>5. pm.pa \in Page
  BY <1>3, FramePage
<1>6. MemKept(pm.pa) /\ (mem' = mem \/ (s.memsz = 1 /\ s.filesz = 0)) /\ (s.filesz < s.memsz => mem'[pm.pa] = "zero")
  <2>1. CASE s.filesz < s.memsz
    <3>1. mem' = Store(pm.pa, "zero") /\ KPage(pm.pa) = pm.pa
      BY <1>5, <2>1, KernelPage DEF ZeroFill
    <3>2. MemKept(pm.pa) /\ mem'[pm.pa] = "zero"
      BY <1>5, <3>1, StoreOne DEF Value
    <3> QED
      BY SMT, <1>4, <2>1, <3>2
  <2>2. CASE ~(s.filesz < s.memsz)
    <3>1. mem' = mem
      BY <2>2 DEF ZeroFill
    <3> QED
      BY <2>2, <3>1, StoreNone
  <2> QED
    BY <2>1, <2>2
<1>7. /\ \A u \in DOMAIN PageOf : mem'[PageOf[u]] = mem[PageOf[u]]
      /\ \A n \in 1..N_KERNEL_PTE, k \in DOMAIN Segments :
            InPlace(k, n) /\ ~(n = v /\ k = e) => InPlace(k, n)'
  BY <1>1, <1>6, LoadWrite
<1>8. s.filesz = 1 => mem[pm.pa] = "elf"
  <2>1. Answered(PM)
    <3>1. PM \in Asker /\ FM \in Servers
      BY DEF Asker, Servers
    <3> QED
      BY <1>1, <3>1, ClientTakes DEF Answered
  <2> QED
    BY <1>1, <2>1 DEF ProgramInv, ReadDone
<1>9. InPlace(e, v)'
  <2>1. (s.filesz = 1 => mem'[pm.pa] = "elf") /\ (s.filesz < s.memsz => mem'[pm.pa] = "zero")
    BY SMT, <1>4, <1>6, <1>8
  <2> QED
    BY <1>3, <2>1 DEF InPlace
<1>10. \A k \in 1..e : InPlace(k, v)'
  <2>1. DOMAIN Segments = 1..Len(Segments) /\ Len(Segments) \in Nat
    BY SegmentsAssumption, SeqLength
  <2>2. \A k \in 1..(e - 1) : InPlace(k, v) /\ k \in DOMAIN Segments /\ k # e
    BY SMTT(30), <1>1, <1>2, <2>1 DEF ProgramInv
  <2>3. \A k \in 1..(e - 1) : InPlace(k, v)'
    BY <1>3, <1>7, <2>2
  <2>4. \A k \in 1..e : k = e \/ k \in 1..(e - 1)
    BY SMT, <1>2, <2>1
  <2> QED
    BY <1>9, <2>3, <2>4
<1>11. \A p \in Started : cr3[p] # v
  <2>1. \A p \in Started : cr3[p] \in 1..OldSpaces
    BY DEF SpaceInv
  <2>2. Made
    BY <1>1 DEF Made
  <2>3. OldSpaces = v - 1 /\ v \in Nat
    BY <2>2, SizeFacts
  <2> QED
    BY SMT, <2>1, <2>3
<1>12. ASSUME NEW p \in Started, NEW k \in DOMAIN Segments, NEW n \in 1..N_KERNEL_PTE, n = cr3[p]
       PROVE  InPlace(k, n)'
  <2>1. InPlace(k, n)
    BY <1>12 DEF ProgramInv
  <2> QED
    BY <1>7, <1>11, <1>12, <2>1
<1>13. mem' \in [Page -> Value]
  BY <1>6 DEF MemKept
<1> QED
  BY <1>1, <1>2, <1>3, <1>7, <1>10, <1>11, <1>12, <1>13

\* PM goes on to the next segment.
LEMMA PmNext ==
    ASSUME ServicesInv, pm_next PROVE ServicesInv'
<1> USE DEF ServicesInv
<1>1. /\ At("load", FM) /\ pm.entry < Len(Segments)
      /\ mem' = ZeroFill(Segments[pm.entry])
      /\ Pass(PM, FM, MM, NewPage(pm.entry + 1))
      /\ pm' = [pm EXCEPT !.pc = "page", !.entry = @ + 1]
      /\ UNCHANGED <<disk, file, hash_table, pdir, ptable, cr3, stat, fm, test, stop>>
  BY DEF pm_next, svcVars
<1>2. PICK e : e = pm.entry
  OBVIOUS
<1>3. PICK v : v = vmem_free
  OBVIOUS
<1>4. /\ pm.pc = "load" /\ Dest(PM) = FM /\ Has(PM, FM) /\ Running
      /\ pm.pcb \in Proc /\ e \in 1..Len(Segments) /\ v \in 1..N_KERNEL_PTE
      /\ mem' \in [Page -> Value]
      /\ \A u \in DOMAIN PageOf : mem'[PageOf[u]] = mem[PageOf[u]]
      /\ \A p \in Started, k \in DOMAIN Segments, n \in 1..N_KERNEL_PTE : n = cr3[p] => InPlace(k, n)'
      /\ \A k \in 1..e : InPlace(k, v)'
  BY <1>1, <1>2, <1>3, SegmentLoaded
<1>5. e + 1 \in 1..Len(Segments) /\ e \in Nat /\ (e + 1) - 1 = e
  <2>1. Len(Segments) \in Nat
    BY SegmentsAssumption, SeqLength
  <2> QED
    BY SMTT(30), <1>1, <1>2, <1>4, <2>1
<1>6. pm'.pc = "page" /\ pm'.entry = e + 1 /\ pm'.pcb = pm.pcb
  BY <1>1, <1>2 DEF Types
<1> DEFINE q == NewPage(e + 1)
<1>7. Request(PM, MM, q) /\ Ask(PM)' = q /\ Dest(PM)' = MM
  <2>1. pm.pcb \in Proc /\ pm.pcb \in Thread /\ 0 \in Arg /\ Segments[e + 1].vaddr \in Arg /\ Segments[e + 1].memsz \in {0, 1}
    BY <1>4, <1>5, ThreadFacts, SegmentFacts, PageFacts DEF Arg
  <2>2. Request(PM, MM, q)
    BY <2>1, ThreadFacts, Names DEF Request, NewPage, Req, Msg, Operation
  <2>3. Ask(PM)' = q
    BY <1>6 DEF Ask, PmAsk, NewPage, Req
  <2> QED
    BY <1>6, <2>2, <2>3 DEF Dest
<1>8. inbox' \in [Thread -> Seq(Msg)] => Types'
  <2>1. pm' \in [pc : {"ANY", "created", "elf", "cr3", "page", "load"}, pcb : Proc \cup {Idle},
                 entry : Nat, pa : Page \cup {NoPage}]
    <3>1. pm \in [pc : {"ANY", "created", "elf", "cr3", "page", "load"}, pcb : Proc \cup {Idle},
                  entry : Nat, pa : Page \cup {NoPage}]
      BY DEF Types
    <3>2. pm' = [pm EXCEPT !.pc = "page", !.entry = e + 1] /\ e + 1 \in Nat
      BY SMT, <1>1, <1>2, <1>5
    <3> QED
      BY <3>1, <3>2
  <2> QED
    BY <1>1, <1>4, <1>5, <1>6, <2>1 DEF Types
<1>9. /\ Types' /\ SrcUnique' /\ MailInv' /\ StoreInv' /\ FileInv' /\ TestInv'
      /\ ~Answered(PM)' /\ ~Served(PM)' /\ \A m \in Box(PM)' : m.op # "ret"
  <2> HIDE DEF q
  <2>1. Pass(PM, FM, MM, q)
    BY <1>1, <1>2 DEF q
  <2> QED
    BY <1>1, <1>4, <1>7, <1>8, <2>1, PmStep
<1>10. Started' = Started /\ Made /\ Made' /\ ~Filed /\ ~Filed' /\ vmem_free' = v /\ OldSpaces' = OldSpaces
  BY <1>1, <1>3, <1>4, <1>6 DEF Started, Made, Filed, vmem_free, OldSpaces
<1>11. SpaceInv'
  <2>1. /\ (\A p \in Started : cr3[p] \in 1..OldSpaces /\ TableOf(cr3[p]) = Frame(cr3[p]))'
        /\ (\A p, q1 \in Started : cr3[p] = cr3[q1] => p = q1)'
    BY <1>1, <1>10, SameStarted
  <2>2. (vmem_free + (IF Filed THEN 1 ELSE 0) <= Len(file) /\ (Made => vmem_free > 0))'
    BY SMTT(30), <1>1, <1>3, <1>10, SizeFacts
  <2>3. /\ (\A p \in Proc : stat[p] = "sleeping" <=> pm.pc \in {"cr3", "page", "load"} /\ pm.pcb = p)'
        /\ cr3'[pm'.pcb] = vmem_free'
    BY <1>1, <1>3, <1>4, <1>6, <1>10 DEF SpaceInv
  <2> QED
    BY <1>1, <1>6, <1>9, <2>1, <2>2, <2>3, SameSpaces DEF SpaceInv
<1>12. ProgramInv'
  <2>1. (\A p \in Started : \A k \in DOMAIN Segments : InPlace(k, cr3[p]))'
    <3> SUFFICES ASSUME NEW p \in Started', NEW k \in DOMAIN Segments PROVE InPlace(k, cr3[p])'
      OBVIOUS
    <3>1. PICK n \in 1..N_KERNEL_PTE : n = cr3[p]
      <4>1. cr3[p] \in 1..OldSpaces
        BY <1>10 DEF SpaceInv
      <4> QED
        BY SMTT(30), <4>1, SizeFacts
    <3>2. InPlace(k, n)' /\ cr3'[p] = n
      BY <1>1, <1>4, <1>10, <3>1
    <3> QED
      BY <3>2 DEF InPlace
  <2>2. (\A k \in 1..(pm.entry - 1) : InPlace(k, vmem_free))'
    <3> SUFFICES ASSUME NEW k \in 1..(pm'.entry - 1) PROVE InPlace(k, vmem_free)'
      OBVIOUS
    <3>1. k \in 1..e
      BY <1>5, <1>6
    <3>2. InPlace(k, v)'
      BY <1>4, <3>1
    <3> QED
      BY <1>10, <3>2 DEF InPlace
  <2>3. HasFile(1)' /\ Oldest(1)' = 0
    BY <1>1, <1>4, FilesSame DEF ProgramInv, FilesKept
  <2> QED
    BY <1>1, <1>4, <1>6, <2>1, <2>2, <2>3 DEF ProgramInv, Running
<1> QED
  BY <1>9, <1>11, <1>12

\* PM wakes the process: all its segments are in place.
LEMMA PmWakeup ==
    ASSUME ServicesInv, pm_wakeup PROVE ServicesInv'
<1> USE DEF ServicesInv
<1>1. /\ At("load", FM) /\ pm.entry = Len(Segments)
      /\ mem' = ZeroFill(Segments[pm.entry])
      /\ stat' = [stat EXCEPT ![pm.pcb] = "ready"]
      /\ inbox' = [inbox EXCEPT ![PM] = RemoveAt(@, First(PM, FM))]
      /\ pm' = [pm EXCEPT !.pc = "ANY"]
      /\ UNCHANGED <<disk, file, hash_table, pdir, ptable, cr3, fm, test, stop>>
  BY DEF pm_wakeup
<1>2. PICK e : e = pm.entry
  OBVIOUS
<1>3. PICK v : v = vmem_free
  OBVIOUS
<1>4. /\ pm.pc = "load" /\ Dest(PM) = FM /\ Has(PM, FM) /\ Running
      /\ pm.pcb \in Proc /\ e \in 1..Len(Segments) /\ v \in 1..N_KERNEL_PTE
      /\ mem' \in [Page -> Value]
      /\ \A u \in DOMAIN PageOf : mem'[PageOf[u]] = mem[PageOf[u]]
      /\ \A p \in Started : cr3[p] # v
      /\ \A p \in Started, k \in DOMAIN Segments, n \in 1..N_KERNEL_PTE : n = cr3[p] => InPlace(k, n)'
      /\ \A k \in 1..e : InPlace(k, v)'
  BY <1>1, <1>2, <1>3, SegmentLoaded
<1>5. PICK b \in Proc : b = pm.pcb
  BY <1>4
<1>6. /\ pm'.pc = "ANY" /\ stat'[b] = "ready" /\ \A p \in Proc : p # b => stat'[p] = stat[p]
      /\ cr3[b] = v /\ stat[b] = "sleeping"
  BY <1>1, <1>3, <1>4, <1>5 DEF Types, SpaceInv
<1>7. PM \in Asker /\ PM \in Thread /\ FM \in Servers /\ Idle # FM /\ PM \notin Tester
      /\ Idle \notin Servers
  BY ThreadFacts, Names DEF Asker, Servers
<1>8. /\ ~Posted(PM) /\ ~Served(PM)
      /\ Mail(PM, FM) \in Box(PM) /\ Mail(PM, FM).src = FM /\ Mail(PM, FM).op = "ret"
      /\ \A n \in Box(PM) : n.op = "ret" => n = Mail(PM, FM)
  BY <1>4, <1>7, ClientTakes
<1>9. /\ inbox' \in [Thread -> Seq(Msg)]
      /\ SrcUnique'
      /\ \A x \in Thread \ {PM} : Box(x)' = Box(x)
      /\ Box(PM)' \subseteq Box(PM)
      /\ Mail(PM, FM).src # Idle => Mail(PM, FM) \notin Box(PM)'
  <2>1. inbox \in [Thread -> Seq(Msg)]
    BY DEF Types
  <2> QED
    BY <1>1, <1>4, <1>7, <2>1, TakeBox
<1>10. /\ MailInv'
       /\ ~Answered(PM)' /\ ~Served(PM)'
       /\ \A d \in Asker \ {PM} : Answered(d)' = Answered(d) /\ Box(d)' = Box(d)
       /\ \A d \in Asker : Served(d)' = Served(d)
       /\ RamDone' = RamDone
  <2>1. \A m \in Box(PM)' : m \in Box(PM) /\ m.op # "ret"
    BY <1>7, <1>8, <1>9
  <2>2. Dest(PM)' = Idle
    BY <1>6 DEF Dest
  <2>3. OthersKeep(PM)
    BY <1>1, AskFrame DEF OthersKeep, Asker
  <2> QED
    BY <1>1, <1>7, <1>8, <1>9, <2>1, <2>2, <2>3, MailEnd
<1>11. StoreInv' /\ FileInv' /\ TestInv'
  BY <1>1, <1>4, <1>10, PmFrame
<1>12. Types'
  <2>1. /\ pm' \in [pc : {"ANY", "created", "elf", "cr3", "page", "load"}, pcb : Proc \cup {Idle},
                    entry : Nat, pa : Page \cup {NoPage}]
        /\ stat' \in [Proc -> {"free", "sleeping", "ready"}]
    BY <1>1 DEF Types
  <2> QED
    BY <1>1, <1>4, <1>6, <1>9, <2>1 DEF Types
<1>13. /\ Started' = Started \cup {b} /\ Made /\ ~Made' /\ ~Filed /\ ~Filed' /\ vmem_free' = v
       /\ OldSpaces' = v /\ OldSpaces = v - 1 /\ v \in Nat
  <2>1. Made /\ ~Made' /\ ~Filed /\ ~Filed' /\ vmem_free' = v
    BY <1>1, <1>3, <1>4, <1>6 DEF Made, Filed, vmem_free
  <2>2. Started' = Started \cup {b}
    BY <1>6 DEF Started
  <2> QED
    BY <1>3, <2>1, <2>2, SizeFacts DEF OldSpaces
<1>14. \A p \in Started : cr3[p] \in 1..(v - 1) /\ TableOf(cr3[p]) = Frame(cr3[p])
  BY <1>13 DEF SpaceInv
<1>15. SpaceInv'
  <2>1. (\A p, q1 \in Started : cr3[p] = cr3[q1] => p = q1)'
    <3>1. \A p, q1 \in Started : cr3[p] = cr3[q1] => p = q1
      BY DEF SpaceInv
    <3> QED
      BY SMTT(30), <1>1, <1>4, <1>6, <1>13, <3>1
  <2>2. (\A p \in Started : cr3[p] \in 1..OldSpaces /\ TableOf(cr3[p]) = Frame(cr3[p]))'
    <3> SUFFICES ASSUME NEW p \in Started'
                 PROVE  (cr3[p] \in 1..OldSpaces /\ TableOf(cr3[p]) = Frame(cr3[p]))'
      OBVIOUS
    <3>1. TableOf(v) = Frame(v)
      BY <1>3, <1>4 DEF SpaceInv
    <3>2. cr3[p] \in 1..v /\ TableOf(cr3[p]) = Frame(cr3[p]) /\ cr3'[p] = cr3[p]
      BY SMTT(30), <1>1, <1>4, <1>6, <1>13, <1>14, <3>1
    <3> QED
      BY <1>1, <1>13, <3>2 DEF TableOf, Frame
  <2>3. (vmem_free + (IF Filed THEN 1 ELSE 0) <= Len(file) /\ (Made => vmem_free > 0))'
    BY SMTT(30), <1>1, <1>3, <1>13, SizeFacts
  <2>4. (\A p \in Proc : stat[p] = "sleeping" <=> pm.pc \in {"cr3", "page", "load"} /\ pm.pcb = p)'
    <3>1. \A p \in Proc : p # b => stat[p] # "sleeping"
      BY <1>5 DEF SpaceInv
    <3> QED
      BY <1>6, <3>1
  <2> QED
    BY <1>1, <1>6, <2>1, <2>2, <2>3, <2>4, SameSpaces DEF SpaceInv
<1>16. ProgramInv'
  <2>1. (\A p \in Started : \A k \in DOMAIN Segments : InPlace(k, cr3[p]))'
    <3> SUFFICES ASSUME NEW p \in Started', NEW k \in DOMAIN Segments PROVE InPlace(k, cr3[p])'
      OBVIOUS
    <3>1. CASE p = b
      <4>1. k \in 1..e
        BY <1>1, <1>2, SegmentsAssumption, SeqLength
      <4>2. InPlace(k, v)' /\ cr3'[p] = v
        BY <1>1, <1>4, <1>6, <3>1, <4>1
      <4> QED
        BY <4>2 DEF InPlace
    <3>2. CASE p \in Started
      <4>1. PICK n \in 1..N_KERNEL_PTE : n = cr3[p]
        BY SMTT(30), <1>4, <1>14, <3>2, SizeFacts
      <4>2. InPlace(k, n)' /\ cr3'[p] = n
        BY <1>1, <1>4, <3>2, <4>1
      <4> QED
        BY <4>2 DEF InPlace
    <3> QED
      BY <1>13, <3>1, <3>2
  <2> QED
    BY <1>1, <1>4, <1>6, <2>1 DEF ProgramInv, Running
<1> QED
  BY <1>9, <1>10, <1>11, <1>12, <1>15, <1>16

\* Every step of PM keeps the invariant.
LEMMA PmThread ==
    ASSUME ServicesInv, pm_thread PROVE ServicesInv'
  BY PmReceive, PmReadElf, PmIllegal, PmNewPcb, PmSetCr3, PmLoad, PmNext, PmWakeup
     DEF pm_thread, do_new_proc

\* Somebody asks PM for a process.
LEMMA CreateProcess ==
    ASSUME ServicesInv, create_process PROVE ServicesInv'
<1> USE DEF ServicesInv
<1>1. /\ inbox' = [inbox EXCEPT ![PM] = Append(@, NewProc)] /\ Running
      /\ UNCHANGED <<mem, disk, svcVars, pm, fm, test, stop>>
  BY DEF create_process, NewProc
<1>2. NewProc \in Msg /\ NewProc.src = Idle
  BY DEF NewProc, Req, Msg, Operation, Arg
<1>3. inbox \in [Thread -> Seq(Msg)] /\ PM \in Thread /\ mem' \in [Page -> Value]
  BY <1>1, ThreadFacts DEF Types
<1>4. /\ inbox' \in [Thread -> Seq(Msg)]
      /\ SrcUnique'
      /\ \A x \in Thread \ {PM} : Box(x)' = Box(x)
      /\ Box(PM)' = Box(PM) \cup {NewProc}
  BY <1>1, <1>2, <1>3, PostBox
<1>5. \A n \in 1..N_KERNEL_PTE, k \in DOMAIN Segments : InPlace(k, n) => InPlace(k, n)'
  BY <1>1 DEF InPlace
<1>6. stop' # "illegal_elf"
  BY <1>1 DEF Running
<1> QED
  BY <1>1, <1>3, <1>4, <1>5, <1>6, QuietStep

-----------------------------------------------------------------------------
(* The processes                                                            *)

\* The page a process finds at an address that is not the kernel's.
LEMMA UserPage ==
    ASSUME Types, SpaceInv, NEW p \in Started, NEW va \in Dir \X Idx, ~IsKernelEntry(va[1])
    PROVE  /\ Walk(DirOf(cr3[p]), ptable, va) = <<FRAME + cr3[p], va[2]>>
           /\ cr3[p] \in 1..OldSpaces /\ cr3[p] \in 1..N_KERNEL_PTE
           /\ <<FRAME + cr3[p], va[2]>> \in Page
<1>1. cr3[p] \in 1..OldSpaces /\ TableOf(cr3[p]) = Frame(cr3[p])
  BY DEF SpaceInv
<1>2. cr3[p] \in 1..vmem_free /\ cr3[p] \in 1..N_KERNEL_PTE
  BY SMT, <1>1, SizeFacts
<1>3. va[1] \in Dir /\ va[2] \in Idx
  OBVIOUS
<1>4. DirOf(cr3[p])[va[1]] = PHY_PD + cr3[p] - 1
  BY <1>2, <1>3, DirEntry
<1>5. PHY_PD + cr3[p] - 1 # Invalid
  BY SMT, <1>2, PagingAssumption DEF Invalid
<1>6. ptable[PHY_PD + cr3[p] - 1][va[2]] = <<FRAME + cr3[p], va[2]>>
  BY <1>1, <1>3 DEF TableOf, Frame
<1>7. <<FRAME + cr3[p], va[2]>> \in Page
  BY <1>2, <1>3, FramePage
<1> QED
  BY <1>1, <1>2, <1>4, <1>5, <1>6, <1>7 DEF Walk

\* A user process writes to its own bss.
LEMMA TestProc ==
    ASSUME ServicesInv, NEW p \in Proc, testproc(p) PROVE ServicesInv'
<1> USE DEF ServicesInv
<1>1. p \in Started /\ Running /\ UNCHANGED <<inbox, disk, svcVars, pm, fm, test, stop>>
  BY DEF testproc, Started
<1>2. PICK va \in Bss : mem' = [mem EXCEPT ![Walk(DirOf(cr3[p]), ptable, va)] = "x"]
  BY DEF testproc
<1>3. PICK b \in DOMAIN Segments : va = Segments[b].vaddr /\ Segments[b].filesz < Segments[b].memsz
  BY DEF Bss
<1>4. DOMAIN Segments = 1..Len(Segments)
  BY SegmentsAssumption, SeqLength
<1>5. va \in Dir \X Idx /\ ~IsKernelEntry(va[1]) /\ va[2] \in Idx
      /\ Segments[b].filesz = 0 /\ Segments[b].memsz = 1
  BY SMTT(30), <1>3, <1>4, SegmentFacts
<1>6. PICK c : c = cr3[p]
  OBVIOUS
<1> DEFINE w == <<FRAME + c, va[2]>>
<1>7. /\ Walk(DirOf(cr3[p]), ptable, va) = w
      /\ c \in 1..OldSpaces /\ c \in 1..N_KERNEL_PTE /\ w \in Page
  BY <1>1, <1>5, <1>6, UserPage
<1>8. MemKept(w) /\ mem'[w] = "x"
  <2>1. mem \in [Page -> Value] /\ "x" \in Value
    BY DEF Types, Value
  <2>2. mem' = [mem EXCEPT ![w] = "x"]
    BY <1>2, <1>7
  <2> HIDE DEF w
  <2> QED
    BY <1>7, <2>1, <2>2 DEF MemKept
<1>9. FRAME \in Nat
  BY PagingAssumption
<1>10. ASSUME NEW n \in 1..N_KERNEL_PTE, NEW k \in DOMAIN Segments, InPlace(k, n) PROVE InPlace(k, n)'
  <2> DEFINE s == Segments[k]
             pg == <<FRAME + n, s.vaddr[2]>>
  <2>1. s.vaddr[2] \in Idx /\ s.filesz \in {0, 1} /\ s.memsz \in {0, 1} /\ s.filesz <= s.memsz
    BY <1>4, SegmentFacts
  <2>2. pg \in Page
    BY <2>1, FramePage
  <2>3. CASE pg # w
    <3>1. mem'[pg] = mem[pg]
      BY <1>8, <2>2, <2>3 DEF MemKept
    <3> QED
      BY <1>10, <3>1 DEF InPlace
  <2>4. CASE s.memsz = 0
    BY SMTT(30), <2>1, <2>4 DEF InPlace
  <2>5. CASE pg = w /\ s.memsz = 1
    <3>1. s.vaddr[2] = va[2]
      BY <2>5
    <3>2. k = b
      BY <1>3, <1>5, <2>5, <3>1, SegmentsAssumption
    <3>3. s.filesz = 0 /\ mem'[pg] = "x"
      BY <1>5, <1>8, <2>5, <3>2
    <3> QED
      BY SMT, <3>3 DEF InPlace
  <2> QED
    BY <2>1, <2>3, <2>4, <2>5
<1>11. \A u \in DOMAIN PageOf : mem'[PageOf[u]] = mem[PageOf[u]]
  <2>1. \A u \in DOMAIN PageOf : PageOf[u] \in Page /\ PageOf[u] # w
    BY <1>5, <1>7, FramePage, PageFacts
  <2> QED
    BY <1>8, <2>1 DEF MemKept
<1>12. ASSUME pm.pc = "load" PROVE mem'[pm.pa] = mem[pm.pa]
  <2>1. pm.pa = <<FRAME + vmem_free, Segments[pm.entry].vaddr[2]>> /\ vmem_free \in 1..N_KERNEL_PTE
        /\ Segments[pm.entry].vaddr[2] \in Idx
    BY <1>12, LoadPage DEF Home
  <2>2. Made
    BY <1>12 DEF Made
  <2>3. c # vmem_free
    BY SMTT(30), <1>7, <2>2, SizeFacts
  <2>4. pm.pa \in Page /\ pm.pa # w
    BY SMTT(30), <1>7, <1>9, <2>1, <2>3, FramePage
  <2> QED
    BY <1>8, <2>4 DEF MemKept
<1>13. inbox' \in [Thread -> Seq(Msg)] /\ SrcUnique' /\ PM \in Thread /\ \A x \in Thread : Box(x)' = Box(x)
  BY <1>1, ThreadFacts DEF Types, SrcUnique, Box
<1>14. mem' \in [Page -> Value] /\ stop' # "illegal_elf"
  BY <1>1, <1>8 DEF MemKept, Running
<1> QED
  BY <1>1, <1>10, <1>11, <1>12, <1>13, <1>14, QuietStep

-----------------------------------------------------------------------------
(* The tests                                                                *)

\* What the step of a test leaves alone.
LEMMA ClientFrame ==
    ASSUME ServicesInv, NEW t \in Tester, Running, UNCHANGED <<mem, disk, svcVars, pm, fm, stop>>,
           \A d \in Asker \ {t} : Answered(d)' = Answered(d) /\ Box(d)' = Box(d),
           \A d \in Asker : Served(d)' = Served(d),
           RamDone' = RamDone,
           \A u \in Tester \ {t} : test'[u] = test[u], TestOne(t)'
    PROVE  StoreInv' /\ FileInv' /\ SpaceInv' /\ ProgramInv' /\ TestInv'
<1> USE DEF ServicesInv
<1>1. UNCHANGED <<file, hash_table, pdir, ptable, cr3, stat>> /\ PM \in Asker \ {t}
  BY ThreadFacts DEF svcVars, Asker
<1>2. FilesKept
  BY <1>1, FilesSame
<1>3. StoreInv' /\ FileInv'
  BY <1>1 DEF StoreInv, FileInv, HashInv, HasFile, IsOldest
<1>4. SpaceInv'
  BY SMTT(30), <1>1, SizeFacts, SpaceFrame
<1>5. ProgramInv'
  <2>1. \A n \in 1..N_KERNEL_PTE, k \in DOMAIN Segments : InPlace(k, n) => InPlace(k, n)'
    BY DEF InPlace
  <2>2. stop' # "illegal_elf"
    BY DEF Running
  <2>3. ReadDone(PM)' => ReadDone(PM)
    BY <1>1 DEF ReadDone
  <2> QED
    BY <1>1, <1>2, <2>1, <2>2, <2>3, ProgramFrame
<1>6. TestInv'
  <2> SUFFICES ASSUME NEW u \in Tester PROVE TestOne(u)'
    BY DEF TestInv
  <2>1. CASE u = t
    BY <2>1
  <2>2. CASE u # t
    <3>1. u \in Asker \ {t} /\ TestOne(u) /\ test'[u] = test[u]
      BY <2>2 DEF Asker, TestInv
    <3>2. ReadDone(u)' => ReadDone(u)
      BY <3>1 DEF ReadDone
    <3> QED
      BY <1>2, <3>1, <3>2, TestFrame
  <2> QED
    BY <2>1, <2>2
<1> QED
  BY <1>3, <1>4, <1>5, <1>6

\* A test sends its first request.
LEMMA TestStarts ==
    ASSUME ServicesInv, NEW t \in Tester, NEW j \in Tests[t], NEW q,
           q = TestAsk(t)' , Starts(t, j, j.dev, q)
    PROVE  ServicesInv'
<1> USE DEF ServicesInv
<1> DEFINE s == j.dev
<1>1. /\ Running /\ test[t].pc = "start"
      /\ test' = [test EXCEPT ![t] = [pc |-> s, job |-> j]]
      /\ inbox' = [inbox EXCEPT ![s] = Append(@, q)]
      /\ UNCHANGED <<mem, disk, svcVars, pm, fm, stop>>
  BY DEF Starts
<1>2. j \in Job /\ JobOK(j) /\ s \in Device \cup {FM}
  BY SMT, TestsAssumption DEF JobOK, Job
<1>3. /\ t \in Asker /\ t # PM /\ t \in Thread /\ s \in Servers /\ s \in Thread /\ s # t /\ s # MM
      /\ s \notin {"start", "done"} /\ "start" \notin Servers /\ "start" # Idle /\ FM \in Servers
      /\ "start" # FM /\ "start" \notin Thread
  BY <1>2, ThreadFacts, Names DEF Asker, Servers
<1> HIDE DEF s
<1>4. test \in [Tester -> [pc : {"start"}] \cup [pc : Device \cup {FM}, job : Job]
                           \cup [pc : {"done"}, job : Job, ret : Arg]]
  BY DEF Types
<1>5. /\ test'[t] = [pc |-> s, job |-> j] /\ \A u \in Tester \ {t} : test'[u] = test[u]
      /\ test' \in [Tester -> [pc : {"start"}] \cup [pc : Device \cup {FM}, job : Job]
                           \cup [pc : {"done"}, job : Job, ret : Arg]]
  BY <1>1, <1>2, <1>4 DEF s
<1>6. test'[t].pc = s /\ test'[t].job = j
  BY SMT, <1>5
<1>7. Dest(t) = "start" /\ Dest(t)' = s /\ Ask(t)' = q
  BY <1>1, <1>3, <1>6 DEF Dest, Ask
<1>8. ~Posted(t) /\ ~Served(t)
  BY <1>3, <1>7, ServedOne DEF Posted, Served
<1>9. Box(t) = {}
  <2> SUFFICES ASSUME NEW m \in Box(t) PROVE FALSE
    OBVIOUS
  <2>1. m.src = "start" /\ m.op = "ret"
    BY <1>3, <1>7 DEF MailInv, ClientMail
  <2>2. m \in Msg
    <3>1. inbox[t] \in Seq(Msg) /\ DOMAIN inbox[t] = 1..Len(inbox[t])
      BY <1>3, SeqLength DEF Types
    <3> QED
      BY <3>1, SeqElement DEF Box, Range
  <2> QED
    BY <1>3, <2>1, <2>2 DEF Msg, Operation
<1>10. inbox' \in [Thread -> Seq(Msg)] => Types'
  <2>1. \A u \in Tester : test'[u].pc \in Device \cup {FM} => test'[u].pc = test'[u].job.dev /\ JobOK(test'[u].job)
    <3> SUFFICES ASSUME NEW u \in Tester, test'[u].pc \in Device \cup {FM}
                 PROVE  test'[u].pc = test'[u].job.dev /\ JobOK(test'[u].job)
      OBVIOUS
    <3>1. CASE u = t
      BY <1>2, <1>6, <3>1 DEF s
    <3>2. CASE u # t
      BY <1>5, <3>2 DEF Types
    <3> QED
      BY <3>1, <3>2
  <2>2. (\A u \in Tester : test[u].pc \in Device \cup {FM} => test[u].pc = test[u].job.dev /\ JobOK(test[u].job))'
    BY <2>1 DEF JobOK
  <2> QED
    BY <1>1, <1>5, <2>2 DEF Types, svcVars
<1>11. q \in Msg /\ q.src = t /\ Request(t, s, q)
  <2>1. inbox \in [Thread -> Seq(Msg)] /\ inbox[s] \in Seq(Msg)
    BY <1>3 DEF Types
  <2>2. j.i \in Nat /\ j.op \in {"new", "read", "DEV_READ", "DEV_WRITE"} /\ t \in Thread
    BY <1>2, <1>3 DEF Job
  <2>3. /\ PageOf[t] \in Int \X Int /\ PageOf["test_data"] \in Int \X Int
        /\ buf(t) \in Arg /\ buf("test_data") \in Arg /\ 0 \in Arg /\ j.i \in Arg
    BY <2>2, PageFacts DEF Arg
  <2>4. Offset(j, PageOf[t]) \in Arg /\ Offset(j, PageOf["test_data"]) \in Arg
    <3>1. KOFFSET \in Int
      BY SMT, PagingAssumption
    <3>2. pa_to_va(PageOf[t]) \in Int \X Int /\ pa_to_va(PageOf["test_data"]) \in Int \X Int
      BY SMT, <2>3, <3>1 DEF pa_to_va
    <3> QED
      BY <2>2, <2>3, <3>2 DEF Offset, Arg
  <2>5. q = CASE j.op = "new" -> Req(t, "FM_NEW_FILE", j.i, 0, 0)
              [] j.op = "read" -> ReadFile(t, j.i)
              [] j.op = "DEV_READ" -> Req(t, j.op, Offset(j, PageOf["test_data"]), buf(t), 1)
              [] OTHER -> Req(t, j.op, Offset(j, PageOf[t]), buf("test_data"), 1)
    BY <1>6 DEF TestAsk, ReadFile, Offset, buf, pa_to_va
  <2> QED
    BY SMTT(30), <1>3, <2>2, <2>3, <2>4, <2>5, ThreadFacts DEF Request, Req, ReadFile, Msg, Operation
<1>12. /\ inbox' \in [Thread -> Seq(Msg)]
       /\ SrcUnique'
       /\ \A x \in Thread \ {s} : Box(x)' = Box(x)
       /\ Box(s)' = Box(s) \cup {q}
  <2>1. inbox \in [Thread -> Seq(Msg)] /\ SrcUnique
    BY DEF Types
  <2>2. \A n \in Box(s) : n.src # q.src
    BY <1>2, <1>3, <1>8, <1>11, NotPosted DEF s
  <2> QED
    BY <1>1, <1>3, <1>11, <2>1, <2>2, PostBox
<1>13. Types'
  BY <1>10, <1>12
<1>14. Box(t)' = {}
  BY <1>3, <1>9, <1>12
<1>15. /\ MailInv'
       /\ ~Answered(t)' /\ ~Served(t)'
       /\ \A d \in Asker \ {t} : Answered(d)' = Answered(d) /\ Box(d)' = Box(d)
       /\ \A d \in Asker : Served(d)' = Served(d)
       /\ RamDone' = RamDone
  <2>1. OthersKeep(t) /\ UNCHANGED <<fm, file>>
    BY <1>1, <1>5, AskFrame DEF OthersKeep, Asker, svcVars
  <2> QED
    BY <1>3, <1>7, <1>8, <1>11, <1>12, <1>13, <1>14, <2>1, MailPost
<1>16. TestOne(t)'
  <2>1. mem[PageOf[t]] = "old" /\ mem' = mem
    BY <1>1 DEF TestInv, TestOne
  <2>2. ~ReadDone(t)'
    BY <1>15 DEF ReadDone
  <2> QED
    BY <1>3, <1>6, <1>14, <1>15, <2>1, <2>2 DEF TestOne
<1>17. StoreInv' /\ FileInv' /\ SpaceInv' /\ ProgramInv' /\ TestInv'
  BY <1>1, <1>5, <1>15, <1>16, ClientFrame
<1> QED
  BY <1>12, <1>13, <1>15, <1>17

\* A test asks FM for a file.
LEMMA TestFm ==
    ASSUME ServicesInv, NEW t \in Tester, test_fm(t) PROVE ServicesInv'
<1>1. PICK j \in Tests[t] :
        /\ j.dev = FM
        /\ Starts(t, j, FM, IF j.op = "new" THEN Req(t, "FM_NEW_FILE", j.i, 0, 0) ELSE ReadFile(t, j.i))
  BY DEF test_fm
<1> DEFINE q == IF j.op = "new" THEN Req(t, "FM_NEW_FILE", j.i, 0, 0) ELSE ReadFile(t, j.i)
<1>2. j.op \in {"new", "read"}
  BY <1>1, TestsAssumption
<1>3. test'[t].job = j
  <2>1. test' = [test EXCEPT ![t] = [pc |-> FM, job |-> j]] /\ t \in DOMAIN test
    BY <1>1 DEF Starts, ServicesInv, Types
  <2> QED
    BY <2>1
<1>4. q = TestAsk(t)'
  BY <1>2, <1>3 DEF TestAsk, ReadFile, Req, buf
<1>5. Starts(t, j, j.dev, q)
  BY <1>1
<1> HIDE DEF q
<1> QED
  BY <1>4, <1>5, TestStarts

\* A test asks a device.
LEMMA TestDev ==
    ASSUME ServicesInv, NEW t \in Tester, test_dev(t) PROVE ServicesInv'
<1> DEFINE Q(j) == IF j.op = "DEV_READ" THEN Req(t, j.op, Offset(j, PageOf["test_data"]), buf(t), 1)
                   ELSE Req(t, j.op, Offset(j, PageOf[t]), buf("test_data"), 1)
<1>1. PICK j \in Tests[t] : j.op \in {"DEV_READ", "DEV_WRITE"} /\ Starts(t, j, j.dev, Q(j))
  BY DEF test_dev
<1> DEFINE q == Q(j)
<1>2. test'[t].job = j
  <2>1. test' = [test EXCEPT ![t] = [pc |-> j.dev, job |-> j]] /\ t \in DOMAIN test
    BY <1>1 DEF Starts, ServicesInv, Types
  <2> QED
    BY <2>1
<1>3. q = TestAsk(t)'
  BY <1>1, <1>2 DEF TestAsk, Req, buf, Offset, pa_to_va
<1>4. Starts(t, j, j.dev, q)
  BY <1>1
<1> HIDE DEF q, Q
<1> QED
  BY <1>3, <1>4, TestStarts

\* A test has its file and reads it.
LEMMA TestFmCreated ==
    ASSUME ServicesInv, NEW t \in Tester, test_fm_created(t) PROVE ServicesInv'
<1> USE DEF ServicesInv
<1> DEFINE j == test[t].job
           q == ReadFile(t, j.i)
<1>1. /\ test[t].pc = FM /\ j.op = "new" /\ Has(t, FM) /\ Running
      /\ Pass(t, FM, FM, q)
      /\ test' = [test EXCEPT ![t].job.op = "read"]
      /\ UNCHANGED <<mem, disk, svcVars, pm, fm, stop>>
  BY DEF test_fm_created, Has
<1>2. /\ t \in Asker /\ t # PM /\ t \in Thread /\ FM \in Servers /\ FM # MM /\ FM \notin Device
      /\ FM \notin {"start", "done"}
  BY ThreadFacts, Names DEF Asker, Servers
<1>3. Dest(t) = FM
  BY <1>1, <1>2 DEF Dest
<1>4. j \in Job /\ j.dev = FM /\ JobOK(j) /\ test[t] \in [pc : Device \cup {FM}, job : Job]
  <2>1. test[t] \in [pc : {"start"}] \cup [pc : Device \cup {FM}, job : Job]
                           \cup [pc : {"done"}, job : Job, ret : Arg]
    BY DEF Types
  <2> QED
    BY SMTT(30), <1>1, <1>2, <1>3, <2>1, TestAskFacts
<1>5. PICK r : r = [test[t] EXCEPT !.job = [j EXCEPT !.op = "read"]]
  OBVIOUS
<1>6. /\ r \in [pc : Device \cup {FM}, job : Job] /\ r.pc = FM
      /\ r.job.op = "read" /\ r.job.dev = FM /\ r.job.i = j.i /\ JobOK(r.job)
  <2>1. /\ [j EXCEPT !.op = "read"] \in Job
        /\ [j EXCEPT !.op = "read"].op = "read" /\ [j EXCEPT !.op = "read"].dev = FM
        /\ [j EXCEPT !.op = "read"].i = j.i
    BY <1>4 DEF Job
  <2>2. r \in [pc : Device \cup {FM}, job : Job] /\ r.pc = FM /\ r.job = [j EXCEPT !.op = "read"]
    BY <1>1, <1>4, <1>5, <2>1
  <2>3. RAMDISK \in Device
    BY DEF Device
  <2> QED
    BY <1>2, <2>1, <2>2, <2>3 DEF JobOK
<1>7. /\ test'[t] = r /\ \A u \in Tester \ {t} : test'[u] = test[u]
      /\ test' \in [Tester -> [pc : {"start"}] \cup [pc : Device \cup {FM}, job : Job]
                           \cup [pc : {"done"}, job : Job, ret : Arg]]
  <2>1. test' = [test EXCEPT ![t] = r]
    BY <1>1, <1>5
  <2>2. test \in [Tester -> [pc : {"start"}] \cup [pc : Device \cup {FM}, job : Job]
                           \cup [pc : {"done"}, job : Job, ret : Arg]]
    BY DEF Types
  <2> QED
    BY <1>6, <2>1, <2>2
<1>8. Request(t, FM, q) /\ Ask(t)' = q /\ Dest(t)' = FM
  <2>1. buf(t) \in Arg /\ j.i \in Arg
    BY <1>4, PageFacts DEF Arg, Job
  <2>2. Request(t, FM, q)
    BY <1>2, <2>1, ThreadFacts DEF Request, ReadFile, Req, Msg, Operation
  <2>3. TestAsk(t)' = q
    BY <1>6, <1>7 DEF TestAsk, ReadFile, Req, buf
  <2> QED
    BY <1>2, <1>6, <1>7, <2>2, <2>3 DEF Ask, Dest
<1> HIDE DEF q
<1>9. /\ inbox' \in [Thread -> Seq(Msg)] /\ SrcUnique'
      /\ ~Posted(t) /\ ~Served(t)
      /\ \A m \in Box(t)' : m \in Box(t) /\ m.op # "ret"
      /\ Box(FM)' = Box(FM) \cup {q}
      /\ \A x \in Thread \ {t, FM} : Box(x)' = Box(x)
  BY SMTT(30), <1>1, <1>2, <1>3, <1>8, ClientPass
<1>10. Types'
  <2>1. \A u \in Tester : test'[u].pc \in Device \cup {FM} => test'[u].pc = test'[u].job.dev /\ JobOK(test'[u].job)
    <3> SUFFICES ASSUME NEW u \in Tester, test'[u].pc \in Device \cup {FM}
                 PROVE  test'[u].pc = test'[u].job.dev /\ JobOK(test'[u].job)
      OBVIOUS
    <3>1. CASE u = t
      BY <1>6, <1>7, <3>1
    <3>2. CASE u # t
      BY <1>7, <3>2 DEF Types
    <3> QED
      BY <3>1, <3>2
  <2>2. (\A u \in Tester : test[u].pc \in Device \cup {FM} => test[u].pc = test[u].job.dev /\ JobOK(test[u].job))'
    BY <2>1 DEF JobOK
  <2> QED
    BY <1>1, <1>7, <1>9, <2>2 DEF Types, svcVars
<1>11. /\ MailInv'
       /\ ~Answered(t)' /\ ~Served(t)'
       /\ \A d \in Asker \ {t} : Answered(d)' = Answered(d) /\ Box(d)' = Box(d)
       /\ \A d \in Asker : Served(d)' = Served(d)
       /\ RamDone' = RamDone
  <2>1. OthersKeep(t) /\ UNCHANGED <<fm, file>>
    BY <1>1, <1>7, AskFrame DEF OthersKeep, Asker, svcVars
  <2> QED
    BY <1>2, <1>8, <1>9, <1>10, <2>1, MailPost
<1>12. TestOne(t)'
  <2>1. ~ReadDone(t)' /\ test'[t].pc = FM
    BY <1>6, <1>7, <1>11 DEF ReadDone
  <2>2. DEV_NULL \in Device
    BY DEF Device
  <2> QED
    BY <1>2, <2>1, <2>2 DEF TestOne
<1>13. StoreInv' /\ FileInv' /\ SpaceInv' /\ ProgramInv' /\ TestInv'
  BY <1>1, <1>7, <1>11, <1>12, ClientFrame
<1> QED
  BY <1>9, <1>10, <1>11, <1>13

\* A test takes its last answer.
LEMMA TestEnd ==
    ASSUME ServicesInv, NEW t \in Tester, test_end(t) PROVE ServicesInv'
<1> USE DEF ServicesInv
<1> DEFINE j == test[t].job
           s == test[t].pc
           r == [pc |-> "done", job |-> j, ret |-> Mail(t, s).ret]
<1>1. /\ s \notin {"start", "done"} /\ j.op # "new" /\ Has(t, s) /\ Running
      /\ inbox' = [inbox EXCEPT ![t] = RemoveAt(@, First(t, s))]
      /\ test' = [test EXCEPT ![t] = r]
      /\ UNCHANGED <<mem, disk, svcVars, pm, fm, stop>>
  BY DEF test_end, Has
<1>2. /\ t \in Asker /\ t # PM /\ t \in Thread /\ "done" \notin Servers /\ Idle \notin Servers
      /\ "done" # "start" /\ "done" \notin Device \cup {FM} /\ FM \in Servers
  BY ThreadFacts, Names DEF Asker, Servers
<1>3. Dest(t) = s /\ s \in Device \cup {FM} /\ s \in Servers
  BY <1>1, <1>2, DestOf DEF Servers
<1>4. j \in Job /\ j.dev = s /\ JobOK(j)
  BY SMTT(30), <1>3, TestAskFacts
<1>5. /\ ~Posted(t) /\ ~Served(t)
      /\ Mail(t, s) \in Box(t) /\ Mail(t, s).src = s /\ Mail(t, s).op = "ret"
      /\ \A n \in Box(t) : n.op = "ret" => n = Mail(t, s)
  BY <1>1, <1>2, <1>3, ClientTakes
<1>6. inbox \in [Thread -> Seq(Msg)] /\ SrcUnique /\ Mail(t, s) \in Msg
  BY <1>1, <1>2, FirstMail DEF Types
<1>7. /\ inbox' \in [Thread -> Seq(Msg)]
      /\ SrcUnique'
      /\ \A x \in Thread \ {t} : Box(x)' = Box(x)
      /\ Box(t)' \subseteq Box(t)
      /\ Mail(t, s).src # Idle => Mail(t, s) \notin Box(t)'
  BY <1>1, <1>2, <1>6, TakeBox
<1>8. r \in [pc : {"done"}, job : Job, ret : Arg]
  <2>1. Mail(t, s).ret \in Arg
    BY <1>5, <1>6 DEF Msg, Operation
  <2> QED
    BY <1>4, <2>1
<1>9. /\ test'[t] = r /\ \A u \in Tester \ {t} : test'[u] = test[u]
      /\ test' \in [Tester -> [pc : {"start"}] \cup [pc : Device \cup {FM}, job : Job]
                           \cup [pc : {"done"}, job : Job, ret : Arg]]
  <2>1. test \in [Tester -> [pc : {"start"}] \cup [pc : Device \cup {FM}, job : Job]
                           \cup [pc : {"done"}, job : Job, ret : Arg]]
    BY DEF Types
  <2> HIDE DEF r
  <2> QED
    BY <1>1, <1>8, <2>1
<1>10. test'[t].pc = "done" /\ test'[t].job = j /\ test'[t].ret = Mail(t, s).ret
  BY SMTT(30), <1>9
<1>11. Types'
  <2>1. \A u \in Tester : test'[u].pc \in Device \cup {FM} => test'[u].pc = test'[u].job.dev /\ JobOK(test'[u].job)
    <3> SUFFICES ASSUME NEW u \in Tester, test'[u].pc \in Device \cup {FM}
                 PROVE  test'[u].pc = test'[u].job.dev /\ JobOK(test'[u].job)
      OBVIOUS
    <3>1. u # t
      BY <1>2, <1>10
    <3> QED
      BY <1>9, <3>1 DEF Types
  <2>2. (\A u \in Tester : test[u].pc \in Device \cup {FM} => test[u].pc = test[u].job.dev /\ JobOK(test[u].job))'
    BY <2>1 DEF JobOK
  <2> QED
    BY <1>1, <1>7, <1>9, <2>2 DEF Types, svcVars
<1>12. /\ MailInv'
       /\ ~Answered(t)' /\ ~Served(t)'
       /\ \A d \in Asker \ {t} : Answered(d)' = Answered(d) /\ Box(d)' = Box(d)
       /\ \A d \in Asker : Served(d)' = Served(d)
       /\ RamDone' = RamDone
  <2>1. OthersKeep(t) /\ UNCHANGED <<fm, file>>
    BY <1>1, <1>9, AskFrame DEF OthersKeep, Asker, svcVars
  <2>2. \A m \in Box(t)' : m \in Box(t) /\ m.op # "ret"
    BY <1>2, <1>3, <1>5, <1>7
  <2>3. Dest(t)' \notin Servers
    BY <1>2, <1>10 DEF Dest
  <2> QED
    BY <1>2, <1>5, <1>7, <2>1, <2>2, <2>3, MailEnd
<1>13. TestOne(t)'
  <2>1. TestOne(t) /\ Answered(t) /\ ReadDone(t)
    BY <1>5 DEF TestInv, Answered, ReadDone
  <2>2. Seen(t) /\ (s = DEV_NULL => Mail(t, s).ret = 0)
    <3>1. s = FM => j.op = "read"
      BY <1>1, <1>4 DEF JobOK
    <3> QED
      BY <1>3, <1>5, <2>1, <3>1 DEF TestOne
  <2>3. Seen(t)'
    <3>1. mem' = mem /\ file' = file
      BY <1>1 DEF svcVars
    <3>2. FilesKept
      BY <3>1, FilesSame
    <3> QED
      BY <1>10, <2>2, <3>1, <3>2 DEF Seen, FilesKept
  <2>4. test'[t].job.dev = DEV_NULL => test'[t].ret = 0
    BY <1>4, <1>10, <2>2
  <2>5. DEV_NULL \in Device
    BY DEF Device
  <2> QED
    BY <1>2, <1>10, <2>3, <2>4, <2>5 DEF TestOne
<1>14. StoreInv' /\ FileInv' /\ SpaceInv' /\ ProgramInv' /\ TestInv'
  BY <1>1, <1>9, <1>12, <1>13, ClientFrame
<1> QED
  BY <1>7, <1>11, <1>12, <1>14

-----------------------------------------------------------------------------
(* The theorems                                                             *)

\* All mailboxes are empty at the start.
LEMMA InitTypes ==
    ASSUME Init PROVE Types /\ SrcUnique /\ \A x \in Thread : Box(x) = {}
<1> USE DEF Init
<1>1. \A x \in Thread : inbox[x] = <<>> /\ inbox[x] \in Seq(Msg) /\ Len(inbox[x]) = 0 /\ DOMAIN inbox[x] = {}
  BY SMT, SeqEmpty, SeqLength
<1>2. inbox \in [Thread -> Seq(Msg)]
  BY <1>1
<1>3. SrcUnique
  BY SMT, <1>1 DEF SrcUnique, Unique
<1>4. \A x \in Thread : Box(x) = {}
  BY <1>1 DEF Box, Range
<1>5. mem \in [Page -> Value]
  BY DEF Page, Value
<1>6. disk \in [0..(NR_MAX_FILE - 1) -> Value]
  BY DEF ramdisk_file, Value
<1>7. file \in Seq(Nat) /\ Len(file) = 0 /\ NR_MAX_FILE \in Nat
  BY SeqEmpty, ServicesAssumption
<1>8. hash_table \in [0..(HASH_SIZE - 1) -> Seq(Nat)]
  BY SeqEmpty
<1>9. pdir \in Seq([Dir -> Table])
  BY SeqEmpty
<1>10. ptable \in [Table -> [Idx -> Page \cup {NoPage}]]
  <2>1. \A t \in Table, i \in Idx : t < PHY_PD => <<t, i>> \in Page
    BY SMT, PagingAssumption DEF Table, Page, Region
  <2> QED
    BY <2>1 DEF init_page
<1>11. /\ cr3 \in [Proc -> Nat] /\ stat \in [Proc -> {"free", "sleeping", "ready"}]
       /\ fm \in [pc : {"ANY"}] \cup [pc : {"ram"}, m : Msg]
       /\ pm.pc = "ANY"
  OBVIOUS
<1>12. pm \in [pc : {"ANY", "created", "elf", "cr3", "page", "load"}, pcb : Proc \cup {Idle},
               entry : Nat, pa : Page \cup {NoPage}]
  OBVIOUS
<1>13. /\ test \in [Tester -> [pc : {"start"}] \cup [pc : Device \cup {FM}, job : Job]
                           \cup [pc : {"done"}, job : Job, ret : Arg]]
       /\ \A t \in Tester : test[t].pc = "start"
  OBVIOUS
<1>14. "start" \notin Device \cup {FM}
  BY Names
<1> QED
  BY SMTT(30), <1>2, <1>3, <1>4, <1>5, <1>6, <1>7, <1>8, <1>9, <1>10, <1>11, <1>12, <1>13, <1>14 DEF Types

\* The services as init_driver leaves them.
LEMMA InitInv ==
    ASSUME Init PROVE ServicesInv
<1>1. Types /\ SrcUnique /\ \A x \in Thread : Box(x) = {}
  BY InitTypes
<1>2. /\ pm.pc = "ANY" /\ fm.pc = "ANY" /\ (\A t \in Tester : test[t].pc = "start")
      /\ (\A p \in Proc : stat[p] = "free") /\ stop = "no"
  BY DEF Init
<1>3. /\ PM \in Thread /\ Asker \subseteq Thread /\ Proc \subseteq Thread /\ Servers \subseteq Thread
      /\ Tester \subseteq Thread /\ "start" \notin Device \cup {FM}
  BY ThreadFacts, Names DEF Servers
<1>4. MailInv
  <2>1. \A c \in Asker : ~Answered(c) /\ ~Served(c)
    BY <1>1, <1>2, <1>3 DEF Answered, Served
  <2>2. ServerMail /\ ClientMail /\ FmServes
    BY <1>1, <1>2, <1>3 DEF ServerMail, ClientMail, FmServes
  <2>3. OnePlace
    BY <1>2, <2>1 DEF OnePlace, AtMostOne
  <2> QED
    BY <2>2, <2>3 DEF MailInv
<1>5. StoreInv
  <2>1. PageOf["test_data"] \in Region \X Idx
    BY PageFacts DEF Page
  <2> QED
    BY <2>1 DEF StoreInv, Init
<1>6. FileInv
  <2> SUFFICES ASSUME NEW h \in 0..(HASH_SIZE - 1)
               PROVE  /\ \A a, b \in DOMAIN hash_table[h] : a < b => hash_table[h][a] < hash_table[h][b]
                      /\ Range(hash_table[h]) = {k \in 0..(Len(file) - 1) : hash_file_name(file[k + 1]) = h}
    <3>1. DOMAIN file = {}
      BY SMT, SeqEmpty, SeqLength DEF Init
    <3> QED
      BY <3>1 DEF FileInv, HashInv
  <2>1. hash_table[h] = <<>> /\ DOMAIN hash_table[h] = {} /\ Len(file) = 0
    BY SMT, SeqEmpty, SeqLength DEF Init
  <2>2. Range(hash_table[h]) = {}
    BY <2>1 DEF Range
  <2>3. 0..(Len(file) - 1) = {}
    BY SMT, <2>1
  <2> QED
    BY <2>1, <2>2, <2>3
<1>7. Started = {} /\ ~Made /\ ~Filed /\ vmem_free = 0 /\ Len(file) = 0
  BY <1>2, SeqEmpty DEF Started, Made, Filed, vmem_free, Init
<1>8. SpaceInv
  <2>1. \A k \in 1..Len(pdir) : pdir[k] = new_pdir(k - 1)
    BY SMT, <1>7 DEF vmem_free
  <2>2. \A r \in Region : ptable[r] = [i \in Idx |-> <<r, i>>]
    <3> SUFFICES ASSUME NEW r \in Region PROVE ptable[r] = [i \in Idx |-> <<r, i>>]
      OBVIOUS
    <3>1. r \in Table /\ r < PHY_PD
      BY SMT, PagingAssumption DEF Region, Table
    <3> QED
      BY <3>1 DEF Init, init_page
  <2>3. \A k \in 1..N_KERNEL_PTE, i \in Idx : TableOf(k)[i] \in {NoPage, <<FRAME + k, i>>}
    <3> SUFFICES ASSUME NEW k \in 1..N_KERNEL_PTE, NEW i \in Idx PROVE TableOf(k)[i] = NoPage
      OBVIOUS
    <3>1. PHY_PD + k - 1 \in Table /\ ~(PHY_PD + k - 1 < PHY_PD)
      BY SMT, PagingAssumption DEF Table
    <3> QED
      BY <3>1 DEF TableOf, Init, init_page
  <2>4. vmem_free + (IF Filed THEN 1 ELSE 0) <= Len(file)
    BY SMT, <1>7
  <2>5. \A p \in Proc : stat[p] = "sleeping" <=> pm.pc \in {"cr3", "page", "load"} /\ pm.pcb = p
    BY <1>2
  <2> QED
    BY <1>2, <1>7, <2>1, <2>2, <2>3, <2>4, <2>5 DEF SpaceInv
<1>9. ProgramInv
  BY <1>2, <1>7 DEF ProgramInv
<1>10. TestInv
  <2> SUFFICES ASSUME NEW t \in Tester PROVE TestOne(t)
    BY DEF TestInv
  <2>1. PageOf[t] \in Region \X Idx /\ PageOf[t] # PageOf["test_data"]
    <3>1. t # "test_data" /\ t \in DOMAIN PageOf /\ "test_data" \in DOMAIN PageOf
      BY Names, PageFacts
    <3> QED
      BY <3>1, PageFacts, PageOfAssumption DEF Page
  <2>2. mem[PageOf[t]] = "old"
    BY <2>1 DEF Init
  <2>3. test[t].pc = "start" /\ DEV_NULL \in Device
    BY <1>2 DEF Device
  <2> QED
    BY <1>3, <2>2, <2>3 DEF TestOne
<1> QED
  BY <1>1, <1>4, <1>5, <1>6, <1>8, <1>9, <1>10 DEF ServicesInv

\* Every step of the services keeps the invariant.
LEMMA NextInv ==
    ServicesInv /\ [Next]_vars => ServicesInv'
<1> SUFFICES ASSUME ServicesInv, [Next]_vars PROVE ServicesInv'
  OBVIOUS
<1>1. CASE Server
  BY <1>1, DeviceThreads, RamThread, FmThread, MmThread, PmThread DEF Server
<1>2. CASE create_process
  BY <1>2, CreateProcess
<1>3. CASE \E t \in Tester : Client(t)
  BY <1>3, TestFm, TestFmCreated, TestDev, TestEnd DEF Client
<1>4. CASE \E p \in Proc : testproc(p)
  BY <1>4, TestProc
<1>5. CASE UNCHANGED vars
  <2>1. UNCHANGED <<inbox, mem, disk, svcVars, pm, fm, test>> /\ stop' = stop
    BY <1>5 DEF vars
  <2>2. stop' = "illegal_elf" => file # <<>> /\ file[1] # 1
    BY <2>1 DEF ServicesInv, ProgramInv
  <2> QED
    BY <2>1, <2>2, StopStep
<1> QED
  BY <1>1, <1>2, <1>3, <1>4, <1>5 DEF Next

\* The inductive invariant of the services: where every request is, what the file
\* and page tables hold, and how far PM has come with the process it starts.
THEOREM ServicesInvariant == Spec => []ServicesInv
<1>1. Init => ServicesInv
  BY InitInv
<1> QED
  BY <1>1, NextInv, PTL DEF Spec

\* A process runs with its program in its own memory, whatever its segments are and
\* whatever processes, tests and devices do meanwhile (do_new_proc,
\* do_allocate_new_pages).
THEOREM ProgramsStayInPlace == Spec => []ProgramInPlace
<1>1. ServicesInv => ProgramInPlace
  <2> SUFFICES ASSUME ServicesInv, NEW p \in Started, NEW k \in DOMAIN Segments
               PROVE  LET s == Segments[k]
                          x == mem[Walk(DirOf(cr3[p]), ptable, s.vaddr)]
                      IN  /\ s.filesz = 1 => x = "elf"
                          /\ s.filesz < s.memsz => x \in {"zero", "x"}
    BY DEF ProgramInPlace
  <2>1. k \in 1..Len(Segments)
    BY SegmentsAssumption, SeqLength
  <2>2. Segments[k].vaddr \in Dir \X Idx /\ ~IsKernelEntry(Segments[k].vaddr[1])
    BY <2>1, SegmentFacts
  <2>3. Walk(DirOf(cr3[p]), ptable, Segments[k].vaddr) = <<FRAME + cr3[p], Segments[k].vaddr[2]>>
    BY <2>2, UserPage DEF ServicesInv
  <2>4. InPlace(k, cr3[p])
    BY DEF ServicesInv, ProgramInv
  <2> QED
    BY <2>3, <2>4 DEF InPlace
<1> QED
  BY <1>1, ServicesInvariant, PTL

\* No two processes share a page outside the kernel's entries, and none reaches the
\* kernel's pages there: do_allocate_new_pages numbers the frames by a counter that
\* PM's next request may have moved on.
THEOREM SpacesStayApart == Spec => []AddressSpacesApart
<1>1. ServicesInv => AddressSpacesApart
  <2> SUFFICES ASSUME ServicesInv PROVE AddressSpacesApart
    OBVIOUS
  <2>1. FRAME \in Nat
    BY PagingAssumption
  <2>2. ASSUME NEW p \in Started, NEW pg \in UserPages(p)
        PROVE  cr3[p] \in Nat /\ pg[1] = FRAME + cr3[p]
    <3>1. PICK d \in Dir, i \in Idx : ~IsKernelEntry(d) /\ pg = Walk(DirOf(cr3[p]), ptable, <<d, i>>)
      BY SMT DEF UserPages
    <3>2. <<d, i>> \in Dir \X Idx /\ ~IsKernelEntry(<<d, i>>[1]) /\ <<d, i>>[2] = i
      BY <3>1
    <3>3. pg = <<FRAME + cr3[p], i>> /\ cr3[p] \in 1..N_KERNEL_PTE
      BY <3>1, <3>2, UserPage DEF ServicesInv
    <3> QED
      BY SMT, <3>3
  <2>3. \A p, q \in Started : cr3[p] = cr3[q] => p = q
    BY DEF ServicesInv, SpaceInv
  <2>4. ASSUME NEW p \in Started PROVE \A pg \in UserPages(p) : pg[1] >= FRAME
    BY SMT, <2>1, <2>2
  <2>5. ASSUME NEW p \in Started, NEW q \in Started \ {p}, NEW pg \in UserPages(p) \cap UserPages(q)
        PROVE  FALSE
    BY SMTT(30), <2>1, <2>2, <2>3
  <2> QED
    BY <2>4, <2>5 DEF AddressSpacesApart
<1> QED
  BY <1>1, ServicesInvariant, PTL

\* A kernel address means the same page in every address space, so that the kernel
\* keeps running when schedule() loads another cr3 (do_new_proc_vmem copies the
\* kernel's entries).
THEOREM KernelIsEverywhere == Spec => []KernelEverywhere
<1>1. ServicesInv => KernelEverywhere
  <2> SUFFICES ASSUME ServicesInv, NEW p \in Started, NEW r \in 0..(KERNEL_PD - 1), NEW i \in Idx
               PROVE  Walk(DirOf(cr3[p]), ptable, pa_to_va(<<r, i>>)) = <<r, i>>
    BY DEF KernelEverywhere
  <2>1. /\ NR_PDE \in Nat /\ PHY_PD \in Nat /\ KOFFSET \in Nat /\ KERNEL_PD \in Nat
        /\ KOFFSET + PHY_PD <= NR_PDE /\ KERNEL_PD <= PHY_PD
    BY PagingAssumption
  <2>2. /\ r + KOFFSET \in Dir /\ IsKernelEntry(r + KOFFSET) /\ (r + KOFFSET) - KOFFSET = r /\ r \in Region
        /\ r # Invalid
    <3>1. r \in Nat /\ r < KERNEL_PD
      BY SMT, <2>1
    <3>2. r \in Region /\ r # Invalid /\ r + KOFFSET \in Dir
      BY SMT, <2>1, <3>1 DEF Dir, Region, Invalid
    <3>3. (r + KOFFSET) - KOFFSET = r
      BY SMTT(30), <2>1, <3>1
    <3> QED
      BY <3>2, <3>3 DEF IsKernelEntry
  <2>3. cr3[p] \in 1..vmem_free
    <3>1. cr3[p] \in 1..OldSpaces
      BY DEF ServicesInv, SpaceInv
    <3> QED
      BY SMTT(30), <3>1, SizeFacts DEF ServicesInv
  <2>4. DirOf(cr3[p])[r + KOFFSET] = r
    BY <2>2, <2>3, DirEntry DEF ServicesInv
  <2>5. ptable[r][i] = <<r, i>>
    <3>1. ptable[r] = [j \in Idx |-> <<r, j>>]
      BY <2>2 DEF ServicesInv, SpaceInv
    <3> QED
      BY <3>1
  <2> QED
    BY <2>2, <2>4, <2>5 DEF Walk, pa_to_va
<1> QED
  BY <1>1, ServicesInvariant, PTL

\* vmem_table is not overrun, although do_new_proc_vmem does not check for its end:
\* every process has first taken a file.
THEOREM VmemTableHolds == Spec => []VmemWithinTable
<1>1. ServicesInv => VmemWithinTable
  BY SizeFacts DEF ServicesInv, VmemWithinTable
<1> QED
  BY <1>1, ServicesInvariant, PTL

\* Sets of processes are counted.
INSTANCE FiniteSetTheorems

\* A PCB is free when PM makes a process of the file it has read.
PcbLeft == pm.pc = "elf" => \E p \in Proc : stat[p] = "free"

\* create_kthread's assertion that the list free is not empty (process/util.c) holds
\* whenever PM calls it, so the guard of pm_new_pcb never stops PM: the file of the new
\* process exists, each process before it has an address space of its own, and there
\* are no more address spaces than files, nor files than PCBs.
THEOREM PcbIsLeft == Spec => []PcbLeft
<1>1. ServicesInv => PcbLeft
  <2> SUFFICES ASSUME ServicesInv, pm.pc = "elf", \A p \in Proc : stat[p] # "free" PROVE FALSE
    BY DEF PcbLeft
  <2>1. /\ stat \in [Proc -> {"free", "sleeping", "ready"}] /\ cr3 \in [Proc -> Nat]
        /\ file \in Seq(Nat) /\ Len(file) <= NR_MAX_FILE
    BY DEF ServicesInv, Types
  <2>2. \A p \in Proc : stat[p] # "sleeping"
    BY DEF ServicesInv, SpaceInv
  <2>3. Proc = Started
    BY <2>1, <2>2 DEF Started
  <2>4. OldSpaces = vmem_free /\ Filed
    BY DEF OldSpaces, Made, Filed
  <2>5. vmem_free \in Nat /\ vmem_free < Cardinality(Proc)
    <3>1. /\ vmem_free \in Nat /\ Len(file) \in Nat /\ vmem_free < Len(file)
          /\ Len(file) <= NR_MAX_FILE /\ NR_MAX_FILE \in Nat
      BY <2>4, SizeFacts DEF ServicesInv
    <3>2. Cardinality(Proc) \in Nat /\ NR_MAX_FILE <= Cardinality(Proc)
      BY ServicesAssumption, FS_CardinalityType
    <3>3. ASSUME NEW a \in Nat, NEW b \in Nat, NEW d \in Nat, NEW e \in Nat, a < b, b <= d, d <= e
          PROVE  a < e
      BY SMTT(30), <3>3
    <3> QED
      BY <3>1, <3>2, <3>3
  <2>6. IsFiniteSet(1..vmem_free) /\ Cardinality(1..vmem_free) = vmem_free
    <3>1. 1 \in Int /\ \A n \in Nat : n \in Int /\ (IF 1 > n THEN 0 ELSE n - 1 + 1) = n
      BY SMTT(30)
    <3> QED
      BY <2>5, <3>1, FS_Interval
  <2>7. cr3 \in [Proc -> 1..vmem_free]
    BY <2>1, <2>3, <2>4 DEF ServicesInv, SpaceInv
  <2>8. \E p, q \in Proc : p # q /\ cr3[p] = cr3[q]
    <3>1. IsFiniteSet(Proc) /\ Cardinality(1..vmem_free) < Cardinality(Proc)
      BY <2>5, <2>6, ServicesAssumption
    <3>2. ASSUME NEW T, IsFiniteSet(T), Cardinality(T) < Cardinality(Proc), NEW f \in [Proc -> T]
          PROVE  \E p, q \in Proc : p # q /\ f[p] = f[q]
      BY SMTT(30), <3>1, <3>2, FS_PigeonHole
    <3> QED
      BY <2>6, <2>7, <3>1, <3>2
  <2> QED
    BY <2>3, <2>8 DEF ServicesInv, SpaceInv
<1> QED
  BY <1>1, ServicesInvariant, PTL

\* do_new_proc finds something that is not a program only if the first file was
\* created for somebody else.
THEOREM IllegalIfOutrun == Spec => []IllegalOnlyIfOutrun
<1>1. ServicesInv => IllegalOnlyIfOutrun
  BY DEF ServicesInv, ProgramInv, IllegalOnlyIfOutrun
<1> QED
  BY <1>1, ServicesInvariant, PTL

\* Every test ends with what it asked for, however the requests of the tests and of
\* PM mix at FM, the RAM disk and the devices.
THEOREM TestsSee == Spec => []TestsSeeTheirData
<1>1. ServicesInv => TestsSeeTheirData
  <2> SUFFICES ASSUME ServicesInv, NEW t \in Tester, test[t].pc = "done"
               PROVE  LET j == test[t].job
                          x == mem[PageOf[t]]
                      IN  CASE j.dev = FM -> x \in {ramdisk_file[Oldest(j.i)], "data"}
                            [] j.dev \in {DEV_MEM, DEV_KMEM} -> x = "data"
                            [] j.dev = DEV_NULL -> x = "old" /\ test[t].ret = 0
                            [] j.dev = DEV_ZERO -> x = IF j.op = "DEV_READ" THEN "zero" ELSE "old"
                            [] OTHER -> TRUE
    BY DEF TestsSeeTheirData
  <2>1. Seen(t) /\ (test[t].job.dev = DEV_NULL => test[t].ret = 0)
    BY DEF ServicesInv, TestInv, TestOne
  <2>2. FM \notin {DEV_MEM, DEV_KMEM, DEV_NULL, DEV_ZERO} /\ DEV_NULL \notin {DEV_ZERO, DEV_MEM, DEV_KMEM}
        /\ DEV_ZERO \notin {DEV_MEM, DEV_KMEM}
    BY Names DEF Device
  <2> QED
    BY <2>1, <2>2 DEF Seen
<1> QED
  BY <1>1, ServicesInvariant, PTL
=============================================================================
