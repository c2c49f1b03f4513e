----------------------------- MODULE MCServices -----------------------------
(***************************************************************************)
(* Two processes to start, a thread that tests FM and one that may run any *)
(* test, in a machine of six regions of two pages.  As in the embedded     *)
(* program the second segment is next to the first and has nothing in the  *)
(* file, and the third is empty.                                           *)
(***************************************************************************)
EXTENDS Services

CONSTANTS t1, t2

MCSegments == <<[vaddr |-> <<3, 0>>, filesz |-> 1, memsz |-> 1],
                [vaddr |-> <<3, 1>>, filesz |-> 0, memsz |-> 1],
                [vaddr |-> <<0, 0>>, filesz |-> 0, memsz |-> 0]>>

MCPageOf == [w \in {PM, "test_data"} \cup Tester |->
                CASE w = PM -> <<0, 0>> [] w = "test_data" -> <<0, 1>> [] w = t1 -> <<1, 0>>
                  [] OTHER -> <<1, 1>>]

TestOf(dev, op, i) == [dev |-> dev, op |-> op, i |-> i]
FmTests == {TestOf(FM, "new", 2), TestOf(FM, "new", 5), TestOf(FM, "read", 5)}

MCTests ==
    [t \in Tester |->
        IF t = t1 THEN FmTests
        ELSE FmTests \cup {TestOf(RAMDISK, "DEV_WRITE", 2)}
             \cup {TestOf(d, op, 0) : d \in Device \ {RAMDISK}, op \in {"DEV_READ", "DEV_WRITE"}}]
=============================================================================
