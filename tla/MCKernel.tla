------------------------------ MODULE MCKernel ------------------------------
(* Module Kernel on a small machine, with clients that may do anything.     *)
EXTENDS Kernel

CONSTANTS s1, s2, raw

MCSem == {s1, s2, raw}
MCRawSem == {raw}
MCInitToken == [s \in MCSem |-> IF s = s1 THEN 1 ELSE 0]

\* The timer's tick, an interrupt that releases one or two waiters, and one
\* that sends to pid 0.
MCIrqWork == {<<>>, <<s1>>, <<s1, s2>>, <<raw>>}
=============================================================================
