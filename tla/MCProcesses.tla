---------------------------- MODULE MCProcesses ----------------------------
(* Small instances of Processes for TLC.                                   *)
EXTENDS Processes

\* Process ids as in the code: 5 is FORK_TEST_PROCESS, 3 LOADED_PROCESS and
\* the forked children start at PID_TABLE_BASE = 10.
MCStatic  == {5}
NoStatic  == {}
MCTable1  == {10}
MCTable2  == {10, 11}
=============================================================================
