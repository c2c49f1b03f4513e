------------------------------- MODULE Paging -------------------------------
(***************************************************************************)
(* Two-level page tables as the kernel builds them (memory/kvm.c,          *)
(* memory/util.c, x86/memory.h).  An address is a pair: the index of its   *)
(* page directory entry and that of its page table entry; the offset in    *)
(* the page passes through every table unchanged and is left out.  A       *)
(* physical page is a pair too: the 4 MB region (PD_SIZE) it is in and its *)
(* index there.  A directory entry is the number of a page table: the      *)
(* first PHY_PD tables are the kernel's (kptable), table PHY_PD + k is the *)
(* one of vmem_table[k].                                                   *)
(***************************************************************************)
EXTENDS Integers

CONSTANTS NR_PDE, NR_PTE, \* entries of a directory (1024) and of a table (1024)
          PHY_PD,         \* PHY_MEM / PD_SIZE = 32
          KOFFSET,        \* KOFFSET / PD_SIZE = 768
          KERNEL_PD,      \* the kernel's entries of a process's directory: 16
          FRAME,          \* the first region that is not the kernel's: 32 MB / 4 MB = 8
          N_KERNEL_PTE    \* entries of vmem_table: 16

ASSUME PagingAssumption ==
    /\ {NR_PDE, NR_PTE, PHY_PD, KOFFSET, KERNEL_PD, FRAME, N_KERNEL_PTE} \subseteq Nat
    /\ PHY_PD <= KOFFSET /\ KOFFSET + PHY_PD <= NR_PDE
    /\ FRAME <= KERNEL_PD /\ KERNEL_PD <= PHY_PD
    /\ FRAME + N_KERNEL_PTE < PHY_PD

Dir == 0..(NR_PDE - 1)
Idx == 0..(NR_PTE - 1)
Region == 0..(PHY_PD - 1)
Table == 0..(PHY_PD + N_KERNEL_PTE - 1)

Invalid == -1       \* an entry that is not present
NoPage == <<-1, -1>>

\* What init_page leaves in kpdir: physical memory at address 0 and at KOFFSET.
kpdir == [d \in Dir |-> IF d < PHY_PD THEN d
                        ELSE IF d - KOFFSET \in Region THEN d - KOFFSET ELSE Invalid]

\* The tables after init_page: the kernel's map region r to itself, the others
\* are still zero, that is, not present.
init_page == [t \in Table |-> [i \in Idx |-> IF t < PHY_PD THEN <<t, i>> ELSE NoPage]]

\* The page the processor finds for an address.
Walk(dir, tables, va) ==
    IF dir[va[1]] = Invalid THEN NoPage ELSE tables[dir[va[1]]][va[2]]

pa_to_va(page) == <<page[1] + KOFFSET, page[2]>>
=============================================================================
