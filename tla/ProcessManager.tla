--------------------------- MODULE ProcessManager ---------------------------
(***************************************************************************)
(* The process manager and scheduler of src/kernel/process/process.c.      *)
(*                                                                         *)
(* process_pool is a function from slot indices to PCB records, and        *)
(* process_pool_used the flag beside it.  The ready, blocked and           *)
(* terminated queues are intrusive doubly linked lists threaded through    *)
(* the PCBs' next/prev fields, with the heads in g_process_manager; they   *)
(* are modelled pointer for pointer, because a PCB slot is freed while its *)
(* PCB is still linked into the terminated queue.  Process stacks come     *)
(* from the kernel heap of Heap.tla.                                       *)
(*                                                                         *)
(* A pointer walk that visits more PCBs than the pool holds has entered a  *)
(* cycle and would never return: the kernel then hangs (hung).             *)
(***************************************************************************)
EXTENDS Integers, Sequences, FiniteSets, SequencesExt

CONSTANTS
  MaxProcesses,  \* MAX_PROCESSES
  MaxPid,        \* bound on the PIDs handed out (next_pid)
  Quantum,       \* DEFAULT_TIME_SLICE
  StackSize,     \* DEFAULT_STACK_SIZE
  Priorities,    \* priorities callers pass
  CountWidth,    \* bit width of the process_count counter
  HeapSize, Hdr, SizeWidth

VARIABLES
  pcb,           \* process_pool
  used,          \* process_pool_used
  running,       \* running_process
  readyQ,        \* ready_queue
  blockedQ,      \* blocked_queue
  termQ,         \* terminated_queue
  nextPid,       \* next_pid
  processCount,  \* process_count
  heap,          \* the kernel heap's block list
  hung           \* the kernel is stuck in a queue walk

vars == <<pcb, used, running, readyQ, blockedQ, termQ, nextPid, processCount,
          heap, hung>>

H == INSTANCE Heap WITH blocks <- heap, Requests <- {StackSize}

Slots == 1..MaxProcesses
Nil == 0
Hang == -1
NULL == 0
ENTRY == 1                    \* some non-NULL entry point
CountWord == 2^CountWidth

PROCESS_STATE_NEW == "NEW"
PROCESS_STATE_READY == "READY"
PROCESS_STATE_RUNNING == "RUNNING"
PROCESS_STATE_BLOCKED == "BLOCKED"
PROCESS_STATE_TERMINATED == "TERMINATED"
States == {PROCESS_STATE_NEW, PROCESS_STATE_READY, PROCESS_STATE_RUNNING,
           PROCESS_STATE_BLOCKED, PROCESS_STATE_TERMINATED}
PRIORITY_LOW == 1

(* A PCB as allocate_pcb leaves it: memset to zero.                       *)
ZeroPcb == [pid |-> 0, state |-> PROCESS_STATE_NEW, priority |-> 0, eip |-> NULL,
            stack |-> NULL, timeSlice |-> 0, remaining |-> 0,
            next |-> Nil, prev |-> Nil]

(* The scheduler-visible state as one record, so that the internal calls  *)
(* of process.c compose as operators on it.                               *)
Sched == [pcb |-> pcb, running |-> running, ready |-> readyQ,
          blocked |-> blockedQ, term |-> termQ, hung |-> hung]

SetSched(k) ==
  /\ pcb' = k.pcb
  /\ running' = k.running
  /\ readyQ' = k.ready
  /\ blockedQ' = k.blocked
  /\ termQ' = k.term
  /\ hung' = k.hung

-----------------------------------------------------------------------------
(* allocate_pcb: the lowest slot not in use.                              *)
AllocatePcbSlot ==
  IF \E s \in Slots : ~used[s] THEN Min({s \in Slots : ~used[s]}) ELSE Nil

(* add_to_queue: push x at the head, statement by statement.              *)
AddToQueue(P, head, x) ==
  LET P1 == [P EXCEPT ![x].next = head]
      P2 == IF head # Nil THEN [P1 EXCEPT ![head].prev = x] ELSE P1
  IN [pcb |-> [P2 EXCEPT ![x].prev = Nil], head |-> x]

(* remove_from_queue: unlink x through its own prev/next, whatever list   *)
(* it is really on; the head moves only when x has no predecessor.        *)
RemoveFromQueue(P, head, x) ==
  LET P1 == IF P[x].prev # Nil THEN [P EXCEPT ![P[x].prev].next = P[x].next]
            ELSE P
      H1 == IF P[x].prev # Nil THEN head ELSE P[x].next
      P2 == IF P1[x].next # Nil THEN [P1 EXCEPT ![P1[x].next].prev = P1[x].prev]
            ELSE P1
  IN [pcb |-> [P2 EXCEPT ![x].next = Nil, ![x].prev = Nil], head |-> H1]

(* find_process_in_queue: follow next from head until pid matches.        *)
RECURSIVE Walk(_, _, _, _)
Walk(P, cur, pid, fuel) ==
  IF cur = Nil THEN Nil
  ELSE IF P[cur].pid = pid THEN cur
  ELSE IF fuel = 0 THEN Hang
  ELSE Walk(P, P[cur].next, pid, fuel - 1)

FindProcessInQueue(P, head, pid) == Walk(P, head, pid, MaxProcesses)

(* process_get_by_pid: running process, then ready, blocked, terminated.  *)
GetByPid(k, pid) ==
  IF k.running # Nil /\ k.pcb[k.running].pid = pid THEN k.running
  ELSE LET r == FindProcessInQueue(k.pcb, k.ready, pid)
           b == FindProcessInQueue(k.pcb, k.blocked, pid)
           t == FindProcessInQueue(k.pcb, k.term, pid)
       IN IF r # Nil THEN r ELSE IF b # Nil THEN b ELSE t

(* Mutant: the new time slice is one tick short.                         *)
ProcessSwitchShortSlice(k, n) ==
  [k EXCEPT !.running = n,
            !.pcb = [k.pcb EXCEPT ![n].state = PROCESS_STATE_RUNNING,
                                  ![n].remaining = k.pcb[n].timeSlice - 1]]

(* process_switch: the context save/restore calls are empty stubs.        *)
ProcessSwitch(k, n) ==
  [k EXCEPT !.running = n,
            !.pcb = [k.pcb EXCEPT ![n].state = PROCESS_STATE_RUNNING,
                                  ![n].remaining = k.pcb[n].timeSlice]]

(* Mutant: the ready head is dispatched without being unlinked.          *)
ScheduleNextProcessNoDequeue(k) ==
  IF k.ready # Nil
  THEN ProcessSwitch(k, k.ready)
  ELSE LET idle == GetByPid(k, 0)
       IN IF idle = Hang THEN [k EXCEPT !.hung = TRUE]
          ELSE IF idle # Nil THEN ProcessSwitch(k, idle) ELSE k

(* schedule_next_process: pop the ready head, else fall back to PID 0.    *)
ScheduleNextProcess(k) ==
  IF k.ready # Nil
  THEN LET r == RemoveFromQueue(k.pcb, k.ready, k.ready)
       IN ProcessSwitch([k EXCEPT !.pcb = r.pcb, !.ready = r.head], k.ready)
  ELSE LET idle == GetByPid(k, 0)
       IN IF idle = Hang THEN [k EXCEPT !.hung = TRUE]
          ELSE IF idle # Nil THEN ProcessSwitch(k, idle) ELSE k

(* process_scheduler: when the running slice is used up, requeue the      *)
(* running process if it is still RUNNING and dispatch.  scheduler_ticks  *)
(* is a statistic nothing reads and is left out.                          *)
ProcessScheduler(k) ==
  IF k.running # Nil /\ k.pcb[k.running].remaining <= 0
  THEN LET k1 == IF k.pcb[k.running].state = PROCESS_STATE_RUNNING
                 THEN LET q == AddToQueue([k.pcb EXCEPT ![k.running].state = PROCESS_STATE_READY],
                                          k.ready, k.running)
                      IN [k EXCEPT !.pcb = q.pcb, !.ready = q.head]
                 ELSE k
       IN ScheduleNextProcess(k1)
  ELSE k

(* Mutant: running_process is left pointing at the terminated PCB.       *)
TerminateInKeepRunning(k, p) ==
  LET k1 == IF p = k.running THEN k
            ELSE LET r1 == RemoveFromQueue(k.pcb, k.ready, p)
                     r2 == RemoveFromQueue(r1.pcb, k.blocked, p)
                 IN [k EXCEPT !.pcb = r2.pcb, !.ready = r1.head, !.blocked = r2.head]
      q  == AddToQueue([k1.pcb EXCEPT ![p].state = PROCESS_STATE_TERMINATED], k1.term, p)
  IN [k1 EXCEPT !.pcb = q.pcb, !.term = q.head]

(* The queue and running-slot part of process_terminate for PCB p.        *)
TerminateIn(k, p) ==
  LET k1 == IF p = k.running THEN [k EXCEPT !.running = Nil]
            ELSE LET r1 == RemoveFromQueue(k.pcb, k.ready, p)
                     r2 == RemoveFromQueue(r1.pcb, k.blocked, p)
                 IN [k EXCEPT !.pcb = r2.pcb, !.ready = r1.head, !.blocked = r2.head]
      q  == AddToQueue([k1.pcb EXCEPT ![p].state = PROCESS_STATE_TERMINATED], k1.term, p)
      k2 == [k1 EXCEPT !.pcb = q.pcb, !.term = q.head]
  IN IF p = k2.running THEN ScheduleNextProcess(k2) ELSE k2

-----------------------------------------------------------------------------
(* process_manager_init, after heap_init: the idle process, PID 0, runs.  *)
Init ==
  /\ pcb = [s \in Slots |-> IF s = 1
                            THEN [ZeroPcb EXCEPT !.state = PROCESS_STATE_RUNNING,
                                                 !.priority = PRIORITY_LOW]
                            ELSE ZeroPcb]
  /\ used = [s \in Slots |-> s = 1]
  /\ running = 1
  /\ readyQ = Nil /\ blockedQ = Nil /\ termQ = Nil
  /\ nextPid = 1
  /\ processCount = 1
  /\ heap = H!InitBlocks
  /\ hung = FALSE

(* process_create with a non-NULL name.  A NULL entry point, a full       *)
(* count or no free slot return an error and change nothing.  A failed    *)
(* stack kmalloc makes setup_process_stack return early, leaving stack    *)
(* and eip zero, and the process is queued all the same.                  *)
ProcessCreate(entry, prio) ==
  /\ ~hung
  /\ entry # NULL
  /\ processCount < MaxProcesses
  /\ AllocatePcbSlot # Nil
  /\ nextPid <= MaxPid
  /\ LET s == AllocatePcbSlot
         k == H!KmallocResult(heap, StackSize)
         p == [ZeroPcb EXCEPT !.pid = nextPid, !.state = PROCESS_STATE_READY,
                              !.priority = prio, !.timeSlice = Quantum,
                              !.remaining = Quantum, !.stack = k.ptr,
                              !.eip = IF k.ptr # NULL THEN entry ELSE NULL]
         q == AddToQueue([pcb EXCEPT ![s] = p], readyQ, s)
     IN /\ pcb' = q.pcb
        /\ readyQ' = q.head
        /\ used' = [used EXCEPT ![s] = TRUE]
        /\ heap' = k.blocks
  /\ nextPid' = nextPid + 1
  /\ processCount' = (processCount + 1) % CountWord
  /\ UNCHANGED <<running, blockedQ, termQ, hung>>

(* process_terminate (and process_kill) of a PID that is found.           *)
ProcessTerminate(pid) ==
  /\ ~hung
  /\ LET p == GetByPid(Sched, pid) IN
     /\ p \notin {Nil, Hang}
     /\ SetSched(TerminateIn(Sched, p))
     /\ heap' = IF pcb[p].stack # NULL THEN H!KfreeResult(heap, pcb[p].stack)
                ELSE heap
     /\ used' = [used EXCEPT ![p] = FALSE]
  /\ processCount' = (processCount - 1) % CountWord
  /\ UNCHANGED nextPid

(* process_yield: zero the running slice and run the scheduler.           *)
ProcessYield ==
  /\ ~hung
  /\ running # Nil
  /\ SetSched(ProcessScheduler([Sched EXCEPT !.pcb[running].remaining = 0]))
  /\ UNCHANGED <<used, nextPid, processCount, heap>>

(* process_set_priority of a PID that is found.                           *)
ProcessSetPriority(pid, prio) ==
  /\ ~hung
  /\ LET p == GetByPid(Sched, pid) IN
     /\ p \notin {Nil, Hang}
     /\ pcb' = [pcb EXCEPT ![p].priority = prio]
  /\ UNCHANGED <<used, running, readyQ, blockedQ, termQ, nextPid,
                 processCount, heap, hung>>

(* process_get_by_pid, inside kill, set_priority or get_info, walking a   *)
(* cyclic queue: the call never returns.                                  *)
LookupHangs(pid) ==
  /\ ~hung
  /\ GetByPid(Sched, pid) = Hang
  /\ hung' = TRUE
  /\ UNCHANGED <<pcb, used, running, readyQ, blockedQ, termQ, nextPid,
                 processCount, heap>>

Pids == 0..MaxPid

Next ==
  \/ \E prio \in Priorities : ProcessCreate(ENTRY, prio)
  \/ \E pid \in Pids : ProcessTerminate(pid)
  \/ ProcessYield
  \/ \E pid \in Pids, prio \in Priorities : ProcessSetPriority(pid, prio)
  \/ \E pid \in Pids : LookupHangs(pid)

Spec == Init /\ [][Next]_vars

-----------------------------------------------------------------------------
Pcb == [pid : 0..MaxPid, state : States, priority : {0, PRIORITY_LOW} \cup Priorities,
        eip : {NULL, ENTRY}, stack : 0..HeapSize, timeSlice : {0, Quantum},
        remaining : {0, Quantum}, next : {Nil} \cup Slots,
        prev : {Nil} \cup Slots]

TypeOK ==
  /\ pcb \in [Slots -> Pcb]
  /\ used \in [Slots -> BOOLEAN]
  /\ {running, readyQ, blockedQ, termQ} \subseteq {Nil} \cup Slots
  /\ nextPid \in 1..(MaxPid + 1)
  /\ processCount \in 0..(CountWord - 1)
  /\ hung \in BOOLEAN

(* The PCBs reached from head by next pointers, one walk longer than the  *)
(* pool so that a cycle shows up as a repeated slot.                      *)
RECURSIVE Chain(_, _)
Chain(cur, fuel) ==
  IF cur = Nil \/ fuel = 0 THEN <<>> ELSE <<cur>> \o Chain(pcb[cur].next, fuel - 1)

QueueOf(head) == Chain(head, MaxProcesses + 1)

Placement ==
  (IF running = Nil THEN <<>> ELSE <<running>>)
    \o QueueOf(readyQ) \o QueueOf(blockedQ) \o QueueOf(termQ)

Occurrences(s) == Len(SelectSeq(Placement, LAMBDA x : x = s))

LiveSlots == {s \in Slots : used[s]}

(* The running slot, after any sequence of creates, kills, yields and     *)
(* priority changes, is a PCB in use and in state RUNNING: terminate must *)
(* clear running_process before the slot is freed.                        *)
RunningConsistent ==
  running # Nil => running \in LiveSlots
                   /\ pcb[running].state = PROCESS_STATE_RUNNING

(* The running PCB is never reachable from the ready-queue head, even     *)
(* after remove_from_queue has spliced PCBs across queues: yield pushes   *)
(* it and the dispatcher must pop that same PCB.                          *)
RunningNotQueued ==
  running # Nil => \A i \in 1..Len(QueueOf(readyQ)) : QueueOf(readyQ)[i] # running

(* spec.md 3, PCB: the stack is owned by the PCB until it terminates.    *)
(* Every PCB in use keeps its stack in an allocated block, even after a   *)
(* second kill of a PID still linked on the terminated queue has kfreed   *)
(* that PCB's old stack pointer once more, after the block was handed to  *)
(* another process.                                                       *)
LiveStacksAllocated ==
  \A s \in LiveSlots :
    pcb[s].stack # NULL =>
      \E i \in 1..Len(heap) : heap[i].start = pcb[s].stack /\ heap[i].type = H!ALLOCATED

(* spec.md 8, queue exclusivity: each live PCB is the running process or  *)
(* on exactly one queue, exactly once.                                    *)
QueueExclusivity == \A s \in LiveSlots : Occurrences(s) = 1

(* No pid lookup ever walks a cyclic queue and spins forever.             *)
NoHang == ~hung
=============================================================================
