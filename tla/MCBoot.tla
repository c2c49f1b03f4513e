------------------------------- MODULE MCBoot -------------------------------
(* Module Boot with two consoles, on the eve of a new year and of a 1 March.  *)
EXTENDS Boot

MCCmosTimes == {<<\h15, \h12, \h30, \h23, \h59, \h59>>, <<\h16, \h02, \h28, \h23, \h59, \h58>>}
MCReader == {Idle, "ttyd"}
=============================================================================
