------------------------------ MODULE MCSyscall ------------------------------
(* Model-checking instance of Syscall over the process manager and heap    *)
(* bounds of MCProcessManager.                                             *)
EXTENDS Syscall, MCProcessManager

MCMaxSyscalls == 64
(* The numbers whose handlers change state (exit, fork, kill, yield,       *)
(* malloc, free, setpriority), an unregistered number and one past the     *)
(* table.                                                                  *)
MCCallNums == {1, 2, 7, 8, 9, 30, 31, 41, 64}
(* PID 0 (idle) and PIDs no process holds, sizes 1, 4, 8 and 16, and    *)
(* the addresses 4 and 16 of the first two blocks.                       *)
MCArgVals == {0, 1, 4, 8, 16}
(* A level the range check refuses and one it accepts.                     *)
MCLevelArgs == {0, 2}
MCCommands == CommandNames

(* For the safety run over SystemSpec: the process commands only (the     *)
(* heap's user blocks multiply the process manager's states past what a   *)
(* run can enumerate), the calls among them, and PID 0 and a PID that a   *)
(* created process can hold.                                              *)
MCProcCommands == {"kill", "priority", "syscall"}
MCProcCallNums == {1, 2, 7, 8, 9, 41, 64}
MCProcArgVals == {0, 2}
=============================================================================
