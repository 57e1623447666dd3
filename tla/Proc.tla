-------------------------------- MODULE Proc --------------------------------
(***************************************************************************)
(* Processes, the per-CPU scheduler and the sleep/wakeup, fork/exit/wait   *)
(* and kill calls of xv6_lab4 (proc.c, sysproc.c, trap.c), together with   *)
(* the user program every system starts with (init.c).                     *)
(*                                                                         *)
(* A step is what one CPU does between two points at which another CPU or  *)
(* an interrupt can be noticed: a critical section of ptable.lock is one   *)
(* step unless the lock is carried across swtch().  The two spin locks     *)
(* that matter, ptable.lock and tickslock, are explicit.                   *)
(***************************************************************************)
EXTENDS Integers, FiniteSets

CONSTANTS
  NPROC,      \* slots of ptable
  NCPU,       \* processors; cpu 0 is the one that counts ticks
  MaxPid,     \* pids are drawn from 1..MaxPid
  MaxSleep,   \* largest argument of sleep()
  TickWrap    \* values of the counter ticks: 2^32

ASSUME NprocAssumption == NPROC \in Nat /\ NPROC >= 1
ASSUME NcpuAssumption == NCPU \in Nat /\ NCPU >= 1
ASSUME PidAssumption == MaxPid \in Nat /\ MaxPid >= NPROC
ASSUME SleepAssumption == TickWrap \in Nat \ {0} /\ MaxSleep \in 0 .. TickWrap - 1

Slot == 0 .. NPROC - 1
InitProc == 0                    \* initproc: the slot userinit() fills first
None == NPROC                    \* a null proc pointer, a null channel
TickChan == NPROC + 1            \* the channel &ticks; a slot is the channel of its wait()
Cpu == 0 .. NCPU - 1
NoCpu == NCPU                    \* nobody holds the lock
Pid == 1 .. MaxPid

ProcState == {"UNUSED", "EMBRYO", "SLEEPING", "RUNNABLE", "RUNNING", "ZOMBIE"}

(* Where a CPU is: in the idle loop with interrupts on, scanning ptable,   *)
(* switched to a process that still holds ptable.lock, running it, about   *)
(* to switch back to the scheduler, in the timer handler before wakeup()   *)
(* or before yield(), or stopped in panic().                               *)
Stage == {"idle", "scan", "switch", "run", "sched", "wakeup", "yield", "panic"}

(* Where the code of a process is: in user mode or in one of the calls     *)
(* that take several steps.                                                *)
Counter == {"user", "fork_stack", "fork_copy", "fork_run", "exit",
            "tick_lock", "tick_sleep"}

(* Where a process that is off its CPU continues when it is switched to.   *)
Return == {"none", "forkret", "yield", "wait", "tick"}

VARIABLES
  lock,       \* CPU holding ptable.lock
  tlock,      \* CPU holding tickslock
  state, pid, parent, chan, killed,
  kstack,     \* whether the slot owns a kernel stack
  pc, resume,
  child,      \* np of a fork() in progress
  want,       \* argument n of a sleep() in progress
  elapsed,    \* what it compares n with: ticks - ticks0, which wraps with ticks
  cpu, cpuProc,
  scan,       \* next slot of the scheduler's loop
  initChild   \* the variable pid of init.c, 0 when init is about to fork

tableVars == <<state, pid, parent, chan, killed, kstack>>
sleepVars == <<want, elapsed>>
threadVars == <<pc, resume, child, sleepVars>>
cpuVars == <<cpu, cpuProc, scan>>
vars == <<lock, tlock, tableVars, threadVars, cpuVars, initChild>>

First(p, S) == p \in S /\ \A q \in S : p <= q    \* first in table order

AtUser(c, p) == p = cpuProc[c] /\ p # None /\ cpu[c] = "run" /\ pc[p] = "user"
At(c, p, where) == p = cpuProc[c] /\ p # None /\ cpu[c] = "run" /\ pc[p] = where

(* A system call returns through trap(), which exits a killed process.     *)
AfterSyscall(p) == IF killed[p] THEN "exit" ELSE "user"

-----------------------------------------------------------------------------
(* userinit() has filled slot 0; every CPU enters scheduler().             *)
Init ==
  /\ lock = NoCpu /\ tlock = NoCpu
  /\ state = [s \in Slot |-> IF s = InitProc THEN "RUNNABLE" ELSE "UNUSED"]
  /\ pid = [s \in Slot |-> IF s = InitProc THEN 1 ELSE 0]
  /\ parent = [s \in Slot |-> None]
  /\ chan = [s \in Slot |-> None]
  /\ killed = [s \in Slot |-> FALSE]
  /\ kstack = [s \in Slot |-> s = InitProc]
  /\ pc = [s \in Slot |-> "user"]
  /\ resume = [s \in Slot |-> IF s = InitProc THEN "forkret" ELSE "none"]
  /\ child = [s \in Slot |-> None]
  /\ want = [s \in Slot |-> 0] /\ elapsed = [s \in Slot |-> 0]
  /\ cpu = [c \in Cpu |-> "idle"]
  /\ cpuProc = [c \in Cpu |-> None]
  /\ scan = [c \in Cpu |-> 0]
  /\ initChild = 0

-----------------------------------------------------------------------------
(* scheduler(): one pass over ptable per acquisition of its lock.          *)

SchedAcquire(c) ==
  /\ cpu[c] = "idle" /\ lock = NoCpu
  /\ lock' = c
  /\ cpu' = [cpu EXCEPT ![c] = "scan"]
  /\ scan' = [scan EXCEPT ![c] = 0]
  /\ UNCHANGED <<tlock, tableVars, threadVars, cpuProc, initChild>>

CandidatesFromStart(c) == {q \in Slot : state[q] = "RUNNABLE"}    \* mutant: loop restarts
Candidates(c) == {q \in Slot : q >= scan[c] /\ state[q] = "RUNNABLE"}

SchedSwitch(c) ==
  /\ cpu[c] = "scan"
  /\ \E p \in Slot :
       /\ First(p, Candidates(c))
       /\ cpuProc' = [cpuProc EXCEPT ![c] = p]
       /\ state' = [state EXCEPT ![p] = "RUNNING"]
       /\ scan' = [scan EXCEPT ![c] = p + 1]
  /\ cpu' = [cpu EXCEPT ![c] = "switch"]
  /\ UNCHANGED <<lock, tlock, pid, parent, chan, killed, kstack, threadVars, initChild>>

SchedDone(c) ==
  /\ cpu[c] = "scan"
  /\ Candidates(c) = {}
  /\ lock' = NoCpu
  /\ cpu' = [cpu EXCEPT ![c] = "idle"]
  /\ scan' = [scan EXCEPT ![c] = 0]
  /\ UNCHANGED <<tlock, tableVars, threadVars, cpuProc, initChild>>

(* A process on c gives it up through sched(), ptable.lock in hand ...     *)
EnterSchedAfterRelease(c) ==                      \* mutant: unlocks too early
  lock' = NoCpu /\ cpu' = [cpu EXCEPT ![c] = "sched"]
EnterSched(c) == lock' = c /\ cpu' = [cpu EXCEPT ![c] = "sched"]

(* ... or releases ptable.lock and goes on.                                *)
ReleaseTable(c) == lock' = NoCpu /\ cpu' = [cpu EXCEPT ![c] = "run"]

(* sched(): swtch() back to the scheduler, which resumes its loop.         *)
Sched(c) ==
  /\ cpu[c] = "sched"
  /\ cpu' = [cpu EXCEPT ![c] = "scan"]
  /\ cpuProc' = [cpuProc EXCEPT ![c] = None]
  /\ UNCHANGED <<lock, tlock, tableVars, threadVars, scan, initChild>>

(* What a process does first when it is switched to: leave forkret() ...   *)
Forkret(c) == \E p \in Slot :
  /\ p = cpuProc[c] /\ cpu[c] = "switch" /\ resume[p] = "forkret"
  /\ resume' = [resume EXCEPT ![p] = "none"]
  /\ ReleaseTable(c)
  /\ UNCHANGED <<tlock, tableVars, pc, child, sleepVars, cpuProc, scan, initChild>>

(* ... or return from yield() into trap(), which checks killed once more   *)
YieldReturn(c) == \E p \in Slot :
  /\ p = cpuProc[c] /\ cpu[c] = "switch" /\ resume[p] = "yield"
  /\ resume' = [resume EXCEPT ![p] = "none"]
  /\ pc' = [pc EXCEPT ![p] = IF @ = "user" /\ killed[p] THEN "exit" ELSE @]
  /\ ReleaseTable(c)
  /\ UNCHANGED <<tlock, tableVars, child, sleepVars, cpuProc, scan, initChild>>

-----------------------------------------------------------------------------
(* fork().  allocproc() marks a slot under the lock and fills it without;  *)
(* either allocation can fail, and leaves the pid behind.                  *)

(* nextpid++: a pid no other slot holds.  Pids are only compared for       *)
(* equality, so a number nobody holds stands for a new one.                *)
FreshPid(s) == {k \in Pid : \A q \in Slot \ {s} : pid[q] # k}

AllocSlot(c, p, s, k) ==
  /\ AtUser(c, p) /\ ~killed[p]
  /\ p = InitProc => initChild = 0
  /\ lock = NoCpu
  /\ First(s, {q \in Slot : state[q] = "UNUSED"})
  /\ state' = [state EXCEPT ![s] = "EMBRYO"]
  /\ pid' = [pid EXCEPT ![s] = k]
  /\ child' = [child EXCEPT ![p] = s]
  /\ pc' = [pc EXCEPT ![p] = "fork_stack"]
  /\ UNCHANGED <<lock, tlock, parent, chan, killed, kstack, resume, sleepVars, cpuVars, initChild>>

ForkAlloc(c) == \E p, s \in Slot : \E k \in Pid :
  First(k, FreshPid(s)) /\ AllocSlot(c, p, s, k)

(* What fork() < 0 leads to: init.c exits, other programs carry on.        *)
AfterForkFailure(p) == IF p = InitProc THEN "exit" ELSE AfterSyscall(p)

ForkFull(c) == \E p \in Slot :
  /\ AtUser(c, p) /\ ~killed[p]
  /\ p = InitProc => initChild = 0
  /\ lock = NoCpu
  /\ \A q \in Slot : state[q] # "UNUSED"
  /\ pc' = [pc EXCEPT ![p] = AfterForkFailure(p)]
  /\ UNCHANGED <<lock, tlock, tableVars, resume, child, sleepVars, cpuVars, initChild>>

LeakStack(s) == UNCHANGED kstack                  \* mutant: kfree() forgotten
FreeStack(s) == kstack' = [kstack EXCEPT ![s] = FALSE]

(* kalloc() of the kernel stack                                            *)
ForkStack(c) == \E p \in Slot :
  /\ At(c, p, "fork_stack")
  /\ kstack' = [kstack EXCEPT ![child[p]] = TRUE]
  /\ resume' = [resume EXCEPT ![child[p]] = "forkret"]
  /\ pc' = [pc EXCEPT ![p] = "fork_copy", ![child[p]] = "user"]
  /\ UNCHANGED <<lock, tlock, state, pid, parent, chan, killed, child, sleepVars, cpuVars,
                 initChild>>

ForkStackFails(c) == \E p \in Slot :
  /\ At(c, p, "fork_stack")
  /\ state' = [state EXCEPT ![child[p]] = "UNUSED"]
  /\ child' = [child EXCEPT ![p] = None]
  /\ pc' = [pc EXCEPT ![p] = AfterForkFailure(p)]
  /\ UNCHANGED <<lock, tlock, pid, parent, chan, killed, kstack, resume, sleepVars, cpuVars,
                 initChild>>

(* copyuvm() and the copies made without the lock                          *)
ForkCopy(c) == \E p \in Slot :
  /\ At(c, p, "fork_copy")
  /\ parent' = [parent EXCEPT ![child[p]] = p]
  /\ pc' = [pc EXCEPT ![p] = "fork_run"]
  /\ UNCHANGED <<lock, tlock, state, pid, chan, killed, kstack, resume, child, sleepVars,
                 cpuVars, initChild>>

ForkCopyFails(c) == \E p \in Slot :
  /\ At(c, p, "fork_copy")
  /\ FreeStack(child[p])
  /\ state' = [state EXCEPT ![child[p]] = "UNUSED"]
  /\ resume' = [resume EXCEPT ![child[p]] = "none"]
  /\ child' = [child EXCEPT ![p] = None]
  /\ pc' = [pc EXCEPT ![p] = AfterForkFailure(p)]
  /\ UNCHANGED <<lock, tlock, pid, parent, chan, killed, sleepVars, cpuVars, initChild>>

ForkRun(c) == \E p \in Slot :
  /\ At(c, p, "fork_run")
  /\ lock = NoCpu
  /\ state' = [state EXCEPT ![child[p]] = "RUNNABLE"]
  /\ initChild' = IF p = InitProc THEN pid[child[p]] ELSE initChild
  /\ child' = [child EXCEPT ![p] = None]
  /\ pc' = [pc EXCEPT ![p] = AfterSyscall(p)]
  /\ UNCHANGED <<lock, tlock, pid, parent, chan, killed, kstack, resume, sleepVars, cpuVars>>

-----------------------------------------------------------------------------
(* exit(), wait() and wakeup1().                                           *)

(* the states after wakeup1() on each of some channels                     *)
Asleep(chs) == {s \in Slot : state[s] = "SLEEPING" /\ chan[s] \in chs}
WakeOne(chs) ==                                   \* mutant: wakes the first only
  [s \in Slot |-> IF First(s, Asleep(chs)) THEN "RUNNABLE" ELSE state[s]]
Wakeup1(chs) == [s \in Slot |-> IF s \in Asleep(chs) THEN "RUNNABLE" ELSE state[s]]

(* A process asks to exit, faults in user mode, or traps after having been *)
(* killed; init.c itself exits only when its fork() fails.                 *)
CallExit(c) == \E p \in Slot \ {InitProc} :
  /\ AtUser(c, p)
  /\ pc' = [pc EXCEPT ![p] = "exit"]
  /\ UNCHANGED <<lock, tlock, tableVars, resume, child, sleepVars, cpuVars, initChild>>

Fault(c) == \E p \in Slot \ {InitProc} :
  /\ AtUser(c, p)
  /\ killed' = [killed EXCEPT ![p] = TRUE]
  /\ pc' = [pc EXCEPT ![p] = "exit"]
  /\ UNCHANGED <<lock, tlock, state, pid, parent, chan, kstack, resume, child, sleepVars,
                 cpuVars, initChild>>

TrapKilled(c) == \E p \in Slot :
  /\ AtUser(c, p) /\ killed[p]
  /\ pc' = [pc EXCEPT ![p] = "exit"]
  /\ UNCHANGED <<lock, tlock, tableVars, resume, child, sleepVars, cpuVars, initChild>>

(* "init exiting": panic() spins on this CPU with interrupts off           *)
ExitPanic(c) ==
  /\ At(c, InitProc, "exit")
  /\ cpu' = [cpu EXCEPT ![c] = "panic"]
  /\ UNCHANGED <<lock, tlock, tableVars, threadVars, cpuProc, scan, initChild>>

PanicSpin(c) == cpu[c] = "panic" /\ UNCHANGED vars

Children(p) == {q \in Slot : parent[q] = p}
ZombieChildren(p) == {q \in Children(p) : state[q] = "ZOMBIE"}

(* whom exit() wakes: the parent, and init if it inherits a zombie         *)
ExitWakesInit(p) ==                               \* mutant: the parent is not told
  IF ZombieChildren(p) # {} THEN {InitProc} ELSE {}
ExitWakes(p) == {parent[p]} \cup IF ZombieChildren(p) # {} THEN {InitProc} ELSE {}

AbandonZombies(p) ==                              \* mutant: only zombies are passed on
  [q \in Slot |-> IF q \in ZombieChildren(p) THEN InitProc ELSE parent[q]]
Abandon(p) == [q \in Slot |-> IF parent[q] = p THEN InitProc ELSE parent[q]]

(* wakeup1(parent), then the abandoned children go to init, which is woken *)
(* if one of them is a zombie; the lock is kept across sched().            *)
Exit(c) == \E p \in Slot \ {InitProc} :
  /\ At(c, p, "exit")
  /\ lock = NoCpu
  /\ state' = [Wakeup1(ExitWakes(p)) EXCEPT ![p] = "ZOMBIE"]
  /\ parent' = Abandon(p)
  /\ EnterSched(c)
  /\ UNCHANGED <<tlock, pid, chan, killed, kstack, threadVars, cpuProc, scan, initChild>>

(* The body of wait()'s loop, run by p on c while it holds ptable.lock:    *)
(* reap the first zombie child, give up, or sleep on the process itself.   *)
ReapKeepsParent(c, p) == \E q \in Slot :          \* mutant: the parent is not cleared
  /\ First(q, ZombieChildren(p))
  /\ FreeStack(q)
  /\ pid' = [pid EXCEPT ![q] = 0]
  /\ killed' = [killed EXCEPT ![q] = FALSE]
  /\ state' = [state EXCEPT ![q] = "UNUSED"]
  /\ chan' = [chan EXCEPT ![p] = None]
  /\ initChild' = IF p = InitProc /\ pid[q] = initChild THEN 0 ELSE initChild
  /\ ReleaseTable(c)
  /\ resume' = [resume EXCEPT ![p] = "none"]
  /\ pc' = [pc EXCEPT ![p] = AfterSyscall(p), ![q] = "user"]
  /\ UNCHANGED parent
Reap(c, p) == \E q \in Slot :
  /\ First(q, ZombieChildren(p))
  /\ FreeStack(q)
  /\ pid' = [pid EXCEPT ![q] = 0]
  /\ parent' = [parent EXCEPT ![q] = None]
  /\ killed' = [killed EXCEPT ![q] = FALSE]
  /\ state' = [state EXCEPT ![q] = "UNUSED"]
  /\ chan' = [chan EXCEPT ![p] = None]
  /\ initChild' = IF p = InitProc /\ pid[q] = initChild THEN 0 ELSE initChild
  /\ ReleaseTable(c)
  /\ resume' = [resume EXCEPT ![p] = "none"]
  /\ pc' = [pc EXCEPT ![p] = AfterSyscall(p), ![q] = "user"]

WaitFails(c, p) ==
  /\ ZombieChildren(p) = {}
  /\ Children(p) = {} \/ killed[p]
  /\ chan' = [chan EXCEPT ![p] = None]
  /\ initChild' = IF p = InitProc THEN 0 ELSE initChild
  /\ ReleaseTable(c)
  /\ resume' = [resume EXCEPT ![p] = "none"]
  /\ pc' = [pc EXCEPT ![p] = AfterSyscall(p)]
  /\ UNCHANGED <<state, pid, parent, killed, kstack>>

WaitSleeps(c, p) ==
  /\ ZombieChildren(p) = {}
  /\ Children(p) # {} /\ ~killed[p]
  /\ chan' = [chan EXCEPT ![p] = p]
  /\ state' = [state EXCEPT ![p] = "SLEEPING"]
  /\ EnterSched(c)
  /\ resume' = [resume EXCEPT ![p] = "wait"]
  /\ UNCHANGED <<pc, pid, parent, killed, kstack, initChild>>

WaitLoop(c, p) ==
  /\ Reap(c, p) \/ WaitFails(c, p) \/ WaitSleeps(c, p)
  /\ UNCHANGED <<tlock, child, sleepVars, cpuProc, scan>>

Wait(c) == \E p \in Slot :
  /\ AtUser(c, p) /\ ~killed[p]
  /\ p = InitProc => initChild # 0
  /\ lock = NoCpu
  /\ WaitLoop(c, p)

WaitReturn(c) == \E p \in Slot :
  /\ p = cpuProc[c] /\ cpu[c] = "switch" /\ resume[p] = "wait"
  /\ WaitLoop(c, p)

-----------------------------------------------------------------------------
(* kill(): the first slot whose pid matches, whatever its state.           *)

KillTarget(k) == {s \in Slot : pid[s] = k}

LeaveAsleep(s) == state[s]                        \* mutant: the sleeper is left to sleep
Roused(s) == IF state[s] = "SLEEPING" THEN "RUNNABLE" ELSE state[s]

Kill(c) == \E p, s \in Slot : \E k \in Pid \cup {0} :
  /\ p # InitProc /\ AtUser(c, p) /\ ~killed[p]
  /\ lock = NoCpu
  /\ First(s, KillTarget(k))
  /\ killed' = [killed EXCEPT ![s] = TRUE]
  /\ state' = [state EXCEPT ![s] = Roused(s)]
  /\ pc' = [pc EXCEPT ![p] = IF p = s THEN "exit" ELSE "user"]
  /\ UNCHANGED <<lock, tlock, pid, parent, chan, kstack, resume, child, sleepVars, cpuVars,
                 initChild>>

-----------------------------------------------------------------------------
(* sys_sleep(n) and the timer.  A sleeper reads the unsigned counter ticks *)
(* only in the difference ticks - ticks0, to which every tick adds one.    *)

(* one test of the loop, with tickslock held up to the call of sleep()     *)
SleepTestUnlocked(c, p, n, e) ==                  \* mutant: tickslock released before
  /\ \/ /\ e >= n \/ killed[p]
        /\ want' = [want EXCEPT ![p] = 0] /\ elapsed' = [elapsed EXCEPT ![p] = 0]
        /\ pc' = [pc EXCEPT ![p] = AfterSyscall(p)]
     \/ /\ e < n /\ ~killed[p]
        /\ want' = [want EXCEPT ![p] = n] /\ elapsed' = [elapsed EXCEPT ![p] = e]
        /\ pc' = [pc EXCEPT ![p] = "tick_sleep"]
  /\ UNCHANGED tlock
SleepTest(c, p, n, e) ==
  \/ /\ e >= n \/ killed[p]
     /\ tlock' = NoCpu
     /\ want' = [want EXCEPT ![p] = 0] /\ elapsed' = [elapsed EXCEPT ![p] = 0]
     /\ pc' = [pc EXCEPT ![p] = AfterSyscall(p)]
  \/ /\ e < n /\ ~killed[p]
     /\ tlock' = c
     /\ want' = [want EXCEPT ![p] = n] /\ elapsed' = [elapsed EXCEPT ![p] = e]
     /\ pc' = [pc EXCEPT ![p] = "tick_sleep"]

SleepCall(c) == \E p \in Slot : \E n \in 0 .. MaxSleep :
  /\ p # InitProc /\ AtUser(c, p) /\ ~killed[p]
  /\ tlock = NoCpu
  /\ SleepTest(c, p, n, 0)
  /\ UNCHANGED <<lock, tableVars, resume, child, cpuVars, initChild>>

SleepRetest(c) == \E p \in Slot :
  /\ At(c, p, "tick_lock")
  /\ tlock = NoCpu
  /\ SleepTest(c, p, want[p], elapsed[p])
  /\ UNCHANGED <<lock, tableVars, resume, child, cpuVars, initChild>>

(* sleep(&ticks, &tickslock): ptable.lock is taken before tickslock is     *)
(* released, and kept across sched()                                       *)
SleepOnTicks(c) == \E p \in Slot :
  /\ At(c, p, "tick_sleep")
  /\ lock = NoCpu
  /\ EnterSched(c) /\ tlock' = NoCpu
  /\ chan' = [chan EXCEPT ![p] = TickChan]
  /\ state' = [state EXCEPT ![p] = "SLEEPING"]
  /\ resume' = [resume EXCEPT ![p] = "tick"]
  /\ pc' = [pc EXCEPT ![p] = "tick_lock"]
  /\ UNCHANGED <<pid, parent, killed, kstack, child, sleepVars, cpuProc, scan, initChild>>

SleepReturn(c) == \E p \in Slot :
  /\ p = cpuProc[c] /\ cpu[c] = "switch" /\ resume[p] = "tick"
  /\ chan' = [chan EXCEPT ![p] = None]
  /\ resume' = [resume EXCEPT ![p] = "none"]
  /\ ReleaseTable(c)
  /\ UNCHANGED <<tlock, state, pid, parent, killed, kstack, pc, child, sleepVars, cpuProc, scan,
                 initChild>>

(* An interrupt is taken only where the CPU holds no spin lock.            *)
Interruptible(c) == cpu[c] \in {"idle", "run"} /\ tlock # c

(* ticks++, seen by a process between the first and the last test of sleep *)
Sleeper(s) == pc[s] \in {"tick_lock", "tick_sleep"}
Elapse(n) == (n + 1) % TickWrap

(* cpu 0 takes tickslock, counts the tick and enters wakeup(&ticks)        *)
TimerTick ==
  /\ Interruptible(0) /\ tlock = NoCpu
  /\ tlock' = 0
  /\ elapsed' = [s \in Slot |-> IF Sleeper(s) THEN Elapse(elapsed[s]) ELSE elapsed[s]]
  /\ cpu' = [cpu EXCEPT ![0] = "wakeup"]
  /\ UNCHANGED <<lock, tableVars, pc, resume, child, want, cpuProc, scan, initChild>>

TimerWakeup ==
  /\ cpu[0] = "wakeup" /\ lock = NoCpu
  /\ state' = Wakeup1({TickChan})
  /\ tlock' = NoCpu
  /\ cpu' = [cpu EXCEPT ![0] = IF cpuProc[0] = None THEN "idle" ELSE "yield"]
  /\ UNCHANGED <<lock, pid, parent, chan, killed, kstack, threadVars, cpuProc, scan, initChild>>

(* the other CPUs only use the interrupt to yield                          *)
TimerOther(c) ==
  /\ c # 0 /\ Interruptible(c) /\ cpuProc[c] # None
  /\ cpu' = [cpu EXCEPT ![c] = "yield"]
  /\ UNCHANGED <<lock, tlock, tableVars, threadVars, cpuProc, scan, initChild>>

(* the end of trap(): a killed process caught in user mode exits instead   *)
YieldKilled(c) == \E p \in Slot :
  /\ p = cpuProc[c] /\ cpu[c] = "yield"
  /\ pc[p] = "user" /\ killed[p]
  /\ pc' = [pc EXCEPT ![p] = "exit"]
  /\ cpu' = [cpu EXCEPT ![c] = "run"]
  /\ UNCHANGED <<lock, tlock, tableVars, resume, child, sleepVars, cpuProc, scan, initChild>>

Yield(c) == \E p \in Slot :
  /\ p = cpuProc[c] /\ cpu[c] = "yield"
  /\ ~(pc[p] = "user" /\ killed[p])
  /\ lock = NoCpu
  /\ EnterSched(c)
  /\ state' = [state EXCEPT ![p] = "RUNNABLE"]
  /\ resume' = [resume EXCEPT ![p] = "yield"]
  /\ UNCHANGED <<tlock, pid, parent, chan, killed, kstack, pc, child, sleepVars, cpuProc, scan,
                 initChild>>

-----------------------------------------------------------------------------
(* The kernel's own steps, the choices of user programs, and interrupts.   *)

KernelStep(c) ==
  \/ SchedAcquire(c) \/ SchedSwitch(c) \/ SchedDone(c) \/ Sched(c)
  \/ Forkret(c) \/ YieldReturn(c) \/ WaitReturn(c) \/ SleepReturn(c)
  \/ ForkStack(c) \/ ForkStackFails(c) \/ ForkCopy(c) \/ ForkCopyFails(c) \/ ForkRun(c)
  \/ TrapKilled(c) \/ ExitPanic(c) \/ PanicSpin(c) \/ Exit(c)
  \/ SleepRetest(c) \/ SleepOnTicks(c)
  \/ YieldKilled(c) \/ Yield(c)

Syscall(c) ==
  \/ ForkAlloc(c) \/ ForkFull(c) \/ Wait(c) \/ Kill(c) \/ SleepCall(c)
  \/ CallExit(c) \/ Fault(c)

Timer == TimerTick \/ \E c \in Cpu : TimerOther(c)

Next ==
  \/ \E c \in Cpu : KernelStep(c) \/ Syscall(c)
  \/ Timer \/ TimerWakeup

Spec == Init /\ [][Next]_vars

-----------------------------------------------------------------------------
(* Fairness, for one CPU.  A CPU that holds ptable.lock or is inside the   *)
(* timer handler goes on; the timer interrupt stays pending while          *)
(* interrupts are off and is taken when they come back; and a tick is long *)
(* enough for the interrupted code to advance, so the idle loop, a process *)
(* inside a system call and init.c are not starved by ticks alone.         *)

LockedStep(c) ==
  \/ SchedSwitch(c) \/ SchedDone(c) \/ Sched(c)
  \/ Forkret(c) \/ YieldReturn(c) \/ WaitReturn(c) \/ SleepReturn(c)
  \/ YieldKilled(c) \/ Yield(c)

CallStep(c) ==
  \/ ForkStack(c) \/ ForkStackFails(c) \/ ForkCopy(c) \/ ForkCopyFails(c) \/ ForkRun(c)
  \/ TrapKilled(c) \/ ExitPanic(c) \/ Exit(c) \/ SleepRetest(c) \/ SleepOnTicks(c)

InitStep(c) == cpuProc[c] = InitProc /\ (ForkAlloc(c) \/ ForkFull(c) \/ Wait(c))

Fairness ==
  /\ WF_vars(TimerWakeup) /\ SF_vars(TimerTick)
  /\ \A c \in Cpu :
       /\ WF_vars(LockedStep(c)) /\ SF_vars(SchedAcquire(c)) /\ SF_vars(InitStep(c))
       /\ \A p \in Slot : SF_vars(cpuProc[c] = p /\ CallStep(c))

FairSpec == Spec /\ Fairness

-----------------------------------------------------------------------------
(* Safety                                                                  *)

(* the kind of value each variable holds                                   *)
Types ==
  /\ lock \in Cpu \cup {NoCpu} /\ tlock \in Cpu \cup {NoCpu}
  /\ state \in [Slot -> ProcState]
  /\ pid \in [Slot -> Pid \cup {0}]
  /\ parent \in [Slot -> Slot \cup {None}]
  /\ chan \in [Slot -> Slot \cup {None, TickChan}]
  /\ killed \in [Slot -> BOOLEAN]
  /\ kstack \in [Slot -> BOOLEAN]
  /\ pc \in [Slot -> Counter]
  /\ resume \in [Slot -> Return]
  /\ child \in [Slot -> Slot \cup {None}]
  /\ want \in [Slot -> 0 .. MaxSleep]
  /\ elapsed \in [Slot -> 0 .. TickWrap - 1]
  /\ cpu \in [Cpu -> Stage]
  /\ cpuProc \in [Cpu -> Slot \cup {None}]
  /\ scan \in [Cpu -> 0 .. NPROC]
  /\ initChild \in Pid \cup {0}

(* Every variable holds a value of its kind, and a free slot is nobody's   *)
(* child: wait() and the error paths of fork() clear what they give back.  *)
TypeOK == Types /\ \A s \in Slot : state[s] = "UNUSED" => parent[s] = None

(* No process is on two CPUs, and RUNNING says exactly that a process is   *)
(* on a CPU: a yielding, sleeping or exiting process leaves its kernel     *)
(* stack before ptable.lock lets anyone else switch to it.                 *)
OneCpuPerProc ==
  /\ \A c, d \in Cpu : c # d /\ cpuProc[c] # None => cpuProc[c] # cpuProc[d]
  /\ \A p \in Slot : state[p] = "RUNNING" => \E c \in Cpu : cpuProc[c] = p
  /\ \A c \in Cpu : cpuProc[c] # None /\ cpu[c] # "sched" => state[cpuProc[c]] = "RUNNING"

(* No CPU runs on a kernel stack that wait() has freed, and no stack is    *)
(* left in a free slot, whichever of fork()'s allocations failed.          *)
StackSafe ==
  /\ \A c \in Cpu : cpuProc[c] # None => kstack[cpuProc[c]]
  /\ \A s \in Slot : kstack[s] => state[s] # "UNUSED"

(* sched() is entered holding ptable.lock and no other spin lock, with the *)
(* state changed: the conditions it panics on.                             *)
SchedEntry ==
  \A c \in Cpu : cpu[c] = "sched" =>
    lock = c /\ tlock # c /\ state[cpuProc[c]] # "RUNNING"

(* A sleeper on &ticks whose time has come is about to be woken: no tick   *)
(* falls between its test and its sleep.                                   *)
NoLostTick ==
  \A p \in Slot :
    state[p] = "SLEEPING" /\ chan[p] = TickChan /\ elapsed[p] >= want[p] => cpu[0] = "wakeup"

(* A process asleep in wait() has a child to wait for, none of them a      *)
(* zombie already, and has not been killed.                                *)
NoMissedChild ==
  \A p \in Slot : state[p] = "SLEEPING" /\ chan[p] = p =>
    Children(p) # {} /\ ZombieChildren(p) = {} /\ ~killed[p]

(* Somebody will always reap: the parent of a process is never a zombie or *)
(* a free slot, and every process but init that has run has one.           *)
ParentsLive ==
  \A q \in Slot :
    /\ parent[q] # None => state[parent[q]] \notin {"UNUSED", "ZOMBIE"}
    /\ q # InitProc /\ state[q] \notin {"UNUSED", "EMBRYO"} => parent[q] # None

(* The facts the properties above rest on; with them they are inductive.   *)

(* who holds which lock                                                    *)
Locking ==
  \A c \in Cpu :
    /\ (lock = c) <=> (cpu[c] \in {"scan", "switch", "sched"})
    /\ cpu[c] = "wakeup" => c = 0 /\ tlock = c
    /\ tlock = c =>
         \/ cpu[c] = "wakeup"
         \/ cpu[c] = "run" /\ pc[cpuProc[c]] = "tick_sleep"
            /\ elapsed[cpuProc[c]] < want[cpuProc[c]]

(* what the stage of a CPU and the pc of a process say of each other       *)
Current ==
  /\ \A c \in Cpu :
       /\ cpu[c] \in {"idle", "scan"} => cpuProc[c] = None
       /\ cpuProc[c] = None => cpu[c] \in {"idle", "scan", "wakeup"}
       /\ cpu[c] = "sched" => state[cpuProc[c]] \in {"RUNNABLE", "SLEEPING", "ZOMBIE"}
  /\ \A p \in Slot : pc[p] = "tick_sleep" =>
       \E c \in Cpu : cpuProc[c] = p /\ cpu[c] = "run" /\ tlock = c

(* a fork() in progress owns the slot it fills                             *)
Forkers == {p \in Slot : pc[p] \in {"fork_stack", "fork_copy", "fork_run"}}
Forking ==
  /\ \A p \in Forkers :
       /\ child[p] \in Slot /\ state[child[p]] = "EMBRYO"
       /\ kstack[child[p]] <=> (pc[p] # "fork_stack")
       /\ parent[child[p]] = IF pc[p] = "fork_run" THEN p ELSE None
  /\ \A p, q \in Forkers : child[p] = child[q] => p = q

(* a stack for all that may run, init always there, no parent in the making *)
Alive ==
  /\ \A s \in Slot :
       /\ state[s] \in {"RUNNABLE", "RUNNING", "SLEEPING", "ZOMBIE"} => kstack[s]
       /\ parent[s] # None => state[parent[s]] # "EMBRYO" /\ state[s] # "UNUSED"
       /\ state[s] = "SLEEPING" => chan[s] # None
       /\ parent[s] # s
  /\ state[InitProc] \notin {"UNUSED", "EMBRYO", "ZOMBIE"}
  /\ parent[InitProc] = None

IInv ==
  /\ Types /\ Locking /\ Current /\ OneCpuPerProc /\ Forking /\ Alive
  /\ StackSafe /\ ParentsLive /\ NoMissedChild /\ NoLostTick

(* A new process does not start out killed: kill() is for the process that *)
(* has the pid when it is called ("Kill the process with the given pid").  *)
BornUnkilled ==
  [][\A s \in Slot : state[s] = "UNUSED" /\ state'[s] = "EMBRYO" => ~killed'[s]]_vars

-----------------------------------------------------------------------------
(* Liveness, of FairSpec with one CPU.  panic() is the way out of all.     *)

Panicked == \E c \in Cpu : cpu[c] = "panic"

(* The scheduler's loop and the timer let every runnable process run.      *)
EveryRunnableRuns ==
  \A p \in Slot : state[p] = "RUNNABLE" ~> state[p] = "RUNNING" \/ Panicked

(* A killed process exits, wherever it was when kill() found it.           *)
KilledExits ==
  \A p \in Slot :
    killed[p] /\ state[p] # "UNUSED" ~> state[p] \in {"ZOMBIE", "UNUSED"} \/ Panicked

(* sleep(n) returns, unless ticks wraps all the way round while the        *)
(* process, awake again, is kept from its test: it then sleeps once more.  *)
(* init.c does not call it.                                                *)
RoundTheClock(p) == state[p] # "SLEEPING" /\ elapsed[p] = TickWrap - 1
SleepsEnd ==
  \A p \in Slot \ {InitProc} : Sleeper(p) ~> ~Sleeper(p) \/ RoundTheClock(p) \/ Panicked

(* While init has zombie children it keeps reaping, adopted ones included. *)
InitReaps ==
  \/ []<>(ZombieChildren(InitProc) = {} \/ Panicked)
  \/ []<><<\E q \in Slot : parent[q] = InitProc /\ state[q] = "ZOMBIE" /\ state'[q] = "UNUSED">>_vars
=============================================================================
