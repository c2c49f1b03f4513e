---------------------------- MODULE MCKernelLive ----------------------------
(* Module Kernel with one semaphore, for the liveness of the scheduler.     *)
EXTENDS Kernel

CONSTANT s1

LiveSem == {s1}
LiveInitToken == [s \in LiveSem |-> 0]
LiveIrqWork == {<<>>, <<s1>>}
=============================================================================
