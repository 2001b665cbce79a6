--------------------------------- MODULE Tests ---------------------------------
(***************************************************************************)
(* The test programs of the kernel: synctest, memtest and schedtest.       *)
(***************************************************************************)
EXTENDS SyncTest, TestMem, TestProcesses

\* memtest and schedtest never end with their error messages: the memory keeps what was
\* written to it, and the process table agrees with the program's account of it.
TestsPass == BlocksKeepTheirBytes /\ AccountIsTrue
================================================================================
