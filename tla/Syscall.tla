------------------------------- MODULE Syscall -------------------------------
(***************************************************************************)
(* The system-call layer of src/kernel/syscall.c and the shell commands of *)
(* src/kernel/kernel.c that reach the process manager and the heap.       *)
(*                                                                         *)
(* syscall_init fills a table of MAX_SYSCALLS entries from call numbers to *)
(* handlers; the shell command "syscall <num> <args>" runs                *)
(* syscall_execute, which looks the number up and calls the handler.      *)
(* The handlers and the shell's kill, priority, malloc and free commands   *)
(* call process_terminate, process_create, process_yield,                 *)
(* process_set_priority, kmalloc and kfree of ProcessManager (and its      *)
(* Heap) directly.  Handlers that only read state (getpid, getppid, ps,    *)
(* getinfo) or return a constant (exec, wait, mmap, munmap) change nothing *)
(* the model tracks.                                                       *)
(*                                                                         *)
(* shell_run reads command lines forever and shell_execute_command         *)
(* dispatches them by their first word (ShellExecuteCommand); the lines   *)
(* typed are drawn from the constant sets Commands, CallNums, ArgVals and  *)
(* LevelArgs.  KernelSpec is what the running kernel can do: boot, then    *)
(* any sequence of command lines.  SystemSpec adds the process manager's   *)
(* own API (a caller of process_create with any entry point), which no     *)
(* code of the kernel is.                                                  *)
(***************************************************************************)
EXTENDS ProcessManager, SequencesExt

CONSTANTS
  MaxSyscalls,  \* MAX_SYSCALLS
  CallNums,     \* call numbers typed after "syscall"
  ArgVals,      \* numbers typed as a pid, a size or an address
  LevelArgs,    \* numbers typed as a priority level
  Commands      \* the command names typed, a subset of CommandNames

NoHandler == "none"

(* The syscall_register calls of syscall_init, in order.                   *)
Registrations ==
  << [num |-> 1, name |-> "exit"], [num |-> 2, name |-> "fork"],
     [num |-> 3, name |-> "exec"], [num |-> 4, name |-> "wait"],
     [num |-> 5, name |-> "getpid"], [num |-> 6, name |-> "getppid"],
     [num |-> 7, name |-> "kill"], [num |-> 8, name |-> "yield"],
     [num |-> 10, name |-> "open"], [num |-> 11, name |-> "close"],
     [num |-> 12, name |-> "read"], [num |-> 13, name |-> "write"],
     [num |-> 14, name |-> "seek"], [num |-> 15, name |-> "tell"],
     [num |-> 16, name |-> "create"], [num |-> 17, name |-> "delete"],
     [num |-> 18, name |-> "rename"], [num |-> 19, name |-> "mkdir"],
     [num |-> 20, name |-> "rmdir"], [num |-> 21, name |-> "chdir"],
     [num |-> 22, name |-> "getcwd"], [num |-> 23, name |-> "listdir"],
     [num |-> 30, name |-> "malloc"], [num |-> 31, name |-> "free"],
     [num |-> 32, name |-> "mmap"], [num |-> 33, name |-> "munmap"],
     [num |-> 40, name |-> "ps"], [num |-> 41, name |-> "setpriority"],
     [num |-> 42, name |-> "getinfo"] >>

(* syscall_register: refused for a number out of range or already taken.  *)
SyscallRegister(t, r) ==
  IF r.num >= MaxSyscalls \/ t[r.num] # NoHandler THEN t
  ELSE [t EXCEPT ![r.num] = r.name]

(* syscall_init: the zeroed table, then every registration.               *)
SyscallTable ==
  FoldLeft(SyscallRegister, [n \in 0..(MaxSyscalls - 1) |-> NoHandler], Registrations)

(* syscall_find: no handler for a number out of range or never set.       *)
SyscallFind(num) == IF num >= MaxSyscalls THEN NoHandler ELSE SyscallTable[num]

-----------------------------------------------------------------------------
(* process_kill of any pid: a lookup that walks a cycle hangs, a pid that *)
(* is found is terminated, and one not found changes nothing.             *)
KillPid(pid) == LookupHangs(pid) \/ ProcessTerminate(pid)

(* process_set_priority behind a 1..4 range check, as both callers do.    *)
SetPriorityChecked(pid, level) ==
  /\ level \in 1..4
  /\ LookupHangs(pid) \/ ProcessSetPriority(pid, level)

(* kmalloc and kfree on the shared heap.                                  *)
UserMalloc(size) ==
  /\ ~hung
  /\ heap' = H!KmallocResult(heap, size).blocks
  /\ UNCHANGED <<pcb, used, running, readyQ, blockedQ, termQ, nextPid,
                 processCount, hung>>

UserFree(ptr) ==
  /\ ~hung
  /\ heap' = H!KfreeResult(heap, ptr)
  /\ UNCHANGED <<pcb, used, running, readyQ, blockedQ, termQ, nextPid,
                 processCount, hung>>

(* sys_exit: terminate the running process, if there is one.              *)
SysExit == running # Nil /\ ProcessTerminate(pcb[running].pid)

(* sys_fork: process_create with the running process's entry point and    *)
(* priority; a NULL eip makes process_create refuse.                      *)
SysFork == running # Nil /\ ProcessCreate(pcb[running].eip, pcb[running].priority)

(* syscall_execute: dispatch through the table; sys_kill passes any pid,  *)
(* PID 0 included; sys_malloc refuses 0 and sys_free refuses NULL.        *)
SyscallExecute(num, a1, a2) ==
  /\ ~hung
  /\ CASE SyscallFind(num) = "exit"        -> SysExit
       [] SyscallFind(num) = "fork"        -> SysFork
       [] SyscallFind(num) = "kill"        -> KillPid(a1)
       [] SyscallFind(num) = "yield"       -> ProcessYield
       [] SyscallFind(num) = "malloc"      -> a1 # 0 /\ UserMalloc(a1)
       [] SyscallFind(num) = "free"        -> a1 # NULL /\ UserFree(a1)
       [] SyscallFind(num) = "setpriority" -> SetPriorityChecked(a1, a2)
       [] OTHER                            -> FALSE

(* shell_kill refuses PID 0; shell_priority checks the level; shell_malloc *)
(* refuses 0; shell_free passes any address on to kfree.                  *)
ShellKill(pid) == pid # 0 /\ KillPid(pid)
ShellPriority(pid, level) == SetPriorityChecked(pid, level)
ShellMalloc(size) == size # 0 /\ UserMalloc(size)
ShellFree(addr) == UserFree(addr)

(* The names of commands[] whose handlers change process or heap state;   *)
(* touch, rm, mkdir, rmdir and cd are FileSystem's, and the others only   *)
(* print.                                                                  *)
CommandNames == {"kill", "priority", "malloc", "free", "syscall"}

(* The i-th token of a command line as shell_syscall reads it: args[] is  *)
(* zeroed, so a number not typed is 0.                                     *)
ArgOr0(argv, i) == IF i <= Len(argv) THEN argv[i] ELSE 0

(* shell_syscall: the tokens after the number are parsed into args[] and   *)
(* syscall_execute runs with them; "syscall list" only prints.            *)
ShellSyscall(argv) == SyscallExecute(argv[2], ArgOr0(argv, 3), ArgOr0(argv, 4))

(* shell_execute_command: the first token picks the entry of commands[],   *)
(* whose handler prints its usage and returns when it is given too few     *)
(* tokens; a name not in the table prints "Command not found".            *)
ShellExecuteCommand(argv) ==
  LET argc == Len(argv) IN
  CASE argv[1] = "kill"     -> argc >= 2 /\ ShellKill(argv[2])
    [] argv[1] = "priority" -> argc >= 3 /\ ShellPriority(argv[2], argv[3])
    [] argv[1] = "malloc"   -> argc >= 2 /\ ShellMalloc(argv[2])
    [] argv[1] = "free"     -> argc >= 2 /\ ShellFree(argv[2])
    [] argv[1] = "syscall"  -> argc >= 2 /\ ShellSyscall(argv)
    [] OTHER                -> FALSE

(* The command lines typed: a name of Commands and up to two number tokens *)
(* from the sets the handler reads them as.                                *)
CommandLines ==
  LET ArgSeqs(c) ==
        CASE c = "priority" -> {<<a, l>> : a \in ArgVals, l \in LevelArgs}
          [] c = "syscall"  -> {<<n>> : n \in CallNums}
                               \cup {<<n, a>> : n \in CallNums, a \in ArgVals}
                               \cup {<<n, a, l>> : n \in CallNums, a \in ArgVals, l \in LevelArgs}
          [] OTHER          -> {<<a>> : a \in ArgVals}
  IN UNION {{<<c>>} \cup {<<c>> \o t : t \in ArgSeqs(c)} : c \in Commands}

(* shell_run: read a line, execute it, forever.                           *)
KernelNext == \E argv \in CommandLines : ShellExecuteCommand(argv)

KernelSpec == Init /\ [][KernelNext]_vars

(* The kernel's commands together with the process manager's own API,     *)
(* the callers process_create would have beyond sys_fork.                  *)
SystemSpec == Init /\ [][Next \/ KernelNext]_vars
=============================================================================
