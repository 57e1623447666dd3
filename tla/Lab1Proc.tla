------------------------------ MODULE Lab1Proc ------------------------------
(***************************************************************************)
(* What xv6_lab1 (proc.c) adds to Proc: waitpid(), which reaps a process   *)
(* by pid whoever its parent is, and a priority scheduler without aging.   *)
(* The exit status that wait() and waitpid() hand over is data and left    *)
(* out.                                                                    *)
(***************************************************************************)
EXTENDS Proc

CONSTANT Levels      \* 32: set_prior() takes its argument modulo this

ASSUME LevelsAssumption == Levels \in Nat \ {0}

NoPid == MaxPid + 1     \* what a process outside waitpid() waits for

VARIABLES
  prior,      \* prior_val of each slot; the lowest value is the best
  waitFor     \* the pid a waitpid() in progress waits for, or NoPid

varsLab == <<vars, prior, waitFor>>

-----------------------------------------------------------------------------
(* scheduler(): the candidate temp starts at slot 0, the first RUNNABLE    *)
(* slot takes its place whatever its prior_val, and from then on a slot    *)
(* with a lower one.  The lock is released after each switch.              *)

ConsiderEqual(a, p) ==                              \* mutant: >= for >
  IF state[p] # "RUNNABLE" THEN a
  ELSE IF a.first \/ prior[a.temp] >= prior[p] THEN [temp |-> p, first |-> FALSE]
  ELSE a
Consider(a, p) ==
  IF state[p] # "RUNNABLE" THEN a
  ELSE IF a.first \/ prior[a.temp] > prior[p] THEN [temp |-> p, first |-> FALSE]
  ELSE a

Pass ==
  LET loop[n \in 0 .. NPROC] ==
        IF n = 0 THEN [temp |-> InitProc, first |-> TRUE] ELSE Consider(loop[n - 1], n - 1)
  IN loop[NPROC]

Lower(n) == IF n < Levels - 1 THEN n + 2 ELSE Levels - 1

LabSwitch(c) ==
  /\ cpu[c] = "scan" /\ scan[c] = 0
  /\ LET temp == Pass.temp IN
       /\ cpuProc' = [cpuProc EXCEPT ![c] = temp]
       /\ state' = [state EXCEPT ![temp] = "RUNNING"]
       /\ prior' = [prior EXCEPT ![temp] = Lower(@)]
  /\ scan' = [scan EXCEPT ![c] = NPROC]
  /\ cpu' = [cpu EXCEPT ![c] = "switch"]
  /\ UNCHANGED <<lock, tlock, pid, parent, chan, killed, kstack, threadVars, initChild, waitFor>>

LabDone(c) ==
  /\ cpu[c] = "scan" /\ scan[c] = NPROC
  /\ lock' = NoCpu
  /\ cpu' = [cpu EXCEPT ![c] = "idle"]
  /\ scan' = [scan EXCEPT ![c] = 0]
  /\ UNCHANGED <<tlock, tableVars, threadVars, cpuProc, initChild, prior, waitFor>>

(* C's remainder keeps the sign of the dividend.                           *)
Remainder(n) == IF n < 0 THEN -((-n) % Levels) ELSE n % Levels

(* set_prior() and the yield() it ends with; only a tick could come        *)
(* between their critical sections, and would make the process yield too.  *)
SetPrior(c) == \E p \in Slot \ {InitProc} : \E n \in -Levels .. Levels :
  /\ AtUser(c, p) /\ ~killed[p]
  /\ lock = NoCpu
  /\ EnterSched(c)
  /\ prior' = [prior EXCEPT ![p] = Remainder(n)]
  /\ state' = [state EXCEPT ![p] = "RUNNABLE"]
  /\ resume' = [resume EXCEPT ![p] = "yield"]
  /\ UNCHANGED <<tlock, pid, parent, chan, killed, kstack, pc, child, sleepVars, cpuProc, scan,
                 initChild, waitFor>>

-----------------------------------------------------------------------------
(* waitpid(k): reap a zombie of that pid, return -1 if no slot has it or   *)
(* the caller was killed, else sleep on the caller, as wait() does.  The   *)
(* argument is not checked: 0 is the pid of every free slot.               *)

Zombies(k) == {q \in KillTarget(k) : state[q] = "ZOMBIE"}

(* the slot is freed as wait() frees it                                    *)
ReapPid(c, p, k) == \E q \in Slot :
  /\ First(q, Zombies(k))
  /\ FreeStack(q)
  /\ pid' = [pid EXCEPT ![q] = 0]
  /\ parent' = [parent EXCEPT ![q] = None]
  /\ killed' = [killed EXCEPT ![q] = FALSE]
  /\ state' = [state EXCEPT ![q] = "UNUSED"]
  /\ chan' = [chan EXCEPT ![p] = None]
  /\ waitFor' = [waitFor EXCEPT ![p] = NoPid]
  /\ ReleaseTable(c)
  /\ resume' = [resume EXCEPT ![p] = "none"]
  /\ pc' = [pc EXCEPT ![p] = AfterSyscall(p), ![q] = "user"]

WaitpidFails(c, p, k) ==
  /\ Zombies(k) = {}
  /\ KillTarget(k) = {} \/ killed[p]
  /\ chan' = [chan EXCEPT ![p] = None]
  /\ waitFor' = [waitFor EXCEPT ![p] = NoPid]
  /\ ReleaseTable(c)
  /\ resume' = [resume EXCEPT ![p] = "none"]
  /\ pc' = [pc EXCEPT ![p] = AfterSyscall(p)]
  /\ UNCHANGED <<state, pid, parent, killed, kstack>>

WaitpidSleepsBlindly(c, p, k) ==                    \* mutant: sleeps without looking
  /\ KillTarget(k) # {} /\ ~killed[p]
  /\ chan' = [chan EXCEPT ![p] = p]
  /\ waitFor' = [waitFor EXCEPT ![p] = k]
  /\ state' = [state EXCEPT ![p] = "SLEEPING"]
  /\ EnterSched(c)
  /\ resume' = [resume EXCEPT ![p] = "wait"]
  /\ UNCHANGED <<pc, pid, parent, killed, kstack>>

WaitpidSleeps(c, p, k) ==
  /\ Zombies(k) = {}
  /\ KillTarget(k) # {} /\ ~killed[p]
  /\ chan' = [chan EXCEPT ![p] = p]
  /\ waitFor' = [waitFor EXCEPT ![p] = k]
  /\ state' = [state EXCEPT ![p] = "SLEEPING"]
  /\ EnterSched(c)
  /\ resume' = [resume EXCEPT ![p] = "wait"]
  /\ UNCHANGED <<pc, pid, parent, killed, kstack>>

WaitpidLoop(c, p, k) ==
  /\ ReapPid(c, p, k) \/ WaitpidFails(c, p, k) \/ WaitpidSleeps(c, p, k)
  /\ UNCHANGED <<tlock, child, sleepVars, cpuProc, scan, initChild, prior>>

Waitpid(c) == \E p \in Slot \ {InitProc} : \E k \in Pid \cup {0} :
  /\ AtUser(c, p) /\ ~killed[p]
  /\ lock = NoCpu
  /\ WaitpidLoop(c, p, k)

WaitpidReturn(c) == \E p \in Slot :
  /\ p = cpuProc[c] /\ cpu[c] = "switch" /\ resume[p] = "wait"
  /\ waitFor[p] # NoPid
  /\ WaitpidLoop(c, p, waitFor[p])

-----------------------------------------------------------------------------
(* fork(): the child starts at 0, then takes the parent's priority.  A new *)
(* pid is also not one that init.c or a waitpid() still has in mind.       *)

Remembered == {initChild} \cup {waitFor[s] : s \in Slot}

LabForkAlloc(c) == \E p, s \in Slot : \E k \in Pid :
  /\ First(k, FreshPid(s) \ Remembered)
  /\ AllocSlot(c, p, s, k)
  /\ prior' = [prior EXCEPT ![s] = 0]
  /\ UNCHANGED waitFor

LabForkCopy(c) ==
  /\ ForkCopy(c)
  /\ prior' = [prior EXCEPT ![child[cpuProc[c]]] = prior[cpuProc[c]]]
  /\ UNCHANGED waitFor

WaitOnlyReturn(c) == cpuProc[c] # None /\ waitFor[cpuProc[c]] = NoPid /\ WaitReturn(c)

-----------------------------------------------------------------------------
InitLab ==
  /\ Init
  /\ prior = [s \in Slot |-> 0]
  /\ waitFor = [s \in Slot |-> NoPid]

Kept(c) ==
  /\ \/ SchedAcquire(c) \/ Sched(c) \/ Forkret(c) \/ YieldReturn(c) \/ WaitOnlyReturn(c)
     \/ SleepReturn(c) \/ YieldKilled(c) \/ Yield(c)
     \/ ForkStack(c) \/ ForkStackFails(c) \/ ForkCopyFails(c) \/ ForkRun(c)
     \/ TrapKilled(c) \/ ExitPanic(c) \/ PanicSpin(c) \/ Exit(c)
     \/ SleepRetest(c) \/ SleepOnTicks(c)
     \/ ForkFull(c) \/ Wait(c) \/ Kill(c) \/ SleepCall(c) \/ CallExit(c) \/ Fault(c)
  /\ UNCHANGED <<prior, waitFor>>

NextLab ==
  \/ \E c \in Cpu :
       \/ Kept(c) \/ LabSwitch(c) \/ LabDone(c) \/ LabForkAlloc(c) \/ LabForkCopy(c)
       \/ SetPrior(c) \/ Waitpid(c) \/ WaitpidReturn(c)
  \/ (Timer \/ TimerWakeup) /\ UNCHANGED <<prior, waitFor>>

SpecLab == InitLab /\ [][NextLab]_varsLab

-----------------------------------------------------------------------------
(* A process asleep in waitpid() for its own child is asleep only while    *)
(* the child has not exited.                                               *)
WaitpidOwnChild ==
  \A p, q \in Slot :
    state[p] = "SLEEPING" /\ pid[q] = waitFor[p] /\ parent[q] = p =>
      state[q] # "ZOMBIE"

(* A process gets the CPU only if no RUNNABLE one has a better prior_val,  *)
(* and the earliest slot first among equals; with none RUNNABLE, init.     *)
Runnable == {p \in Slot : state[p] = "RUNNABLE"}
BestChosen ==
  [][\A c \in Cpu, p \in Slot : cpuProc'[c] = p /\ cpuProc[c] = None =>
       \/ First(p, {q \in Runnable : \A r \in Runnable : prior[q] <= prior[r]})
       \/ Runnable = {} /\ p = InitProc]_varsLab

(* "Wait for process to exit. (See wakeup1 call in proc_exit.)": a process *)
(* is not asleep in waitpid() when the one it waits for has exited.        *)
WaitpidMissesNothing ==
  \A p, q \in Slot :
    state[p] = "SLEEPING" /\ pid[q] = waitFor[p] => state[q] # "ZOMBIE"
=============================================================================
