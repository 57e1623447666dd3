----------------------------- MODULE ProcProofs -----------------------------
(***************************************************************************)
(* The safety properties of Proc, proved for any number of slots and CPUs. *)
(* IInv (defined in Proc) is inductive: one lemma per action shows that    *)
(* the action preserves Table, all of it but NoMissedChild, with a step    *)
(* for each conjunct that reads something the action writes; NoMissedChild *)
(* follows from what no action does to who sleeps in wait().               *)
(***************************************************************************)
EXTENDS Proc, TLAPS, WellFoundedInduction

(* All that the lemmas need of the numbers behind the names: they are      *)
(* different, in range, and closed under the two sums of the model.        *)
LEMMA ConstFacts ==
  /\ InitProc \in Slot /\ None \notin Slot /\ TickChan \notin Slot /\ TickChan # None
  /\ 0 \in Cpu /\ NoCpu \notin Cpu /\ 0 \notin Pid /\ 1 \in Pid
  /\ 0 \in 0 .. NPROC /\ 0 \in 0 .. MaxSleep /\ 0 \in 0 .. TickWrap - 1 /\ ~(0 < 0)
  /\ \A p \in Slot : p + 1 \in 0 .. NPROC
  /\ \A n \in 0 .. TickWrap - 1 : Elapse(n) \in 0 .. TickWrap - 1
  BY NprocAssumption, NcpuAssumption, PidAssumption, SleepAssumption
     DEF Elapse, Slot, InitProc, None, TickChan, Cpu, NoCpu, Pid

Table ==
  /\ Types /\ Locking /\ Current /\ OneCpuPerProc /\ Forking /\ Alive
  /\ StackSafe /\ ParentsLive /\ NoLostTick

(* The process that runs on c is at the body of wait()'s loop.             *)
MayWait(c, p) ==
  /\ p = cpuProc[c]
  /\ cpu[c] = "switch" \/ (cpu[c] = "run" /\ pc[p] = "user" /\ lock = NoCpu)

(* The state userinit() leaves behind.                                     *)
LEMMA InitInv == Init => IInv
<1> SUFFICES ASSUME Init PROVE IInv
  OBVIOUS
<1> USE ConstFacts DEF Init
<1>1. Types
  BY DEF Types, ProcState, Counter, Stage, Return
<1>2. Locking /\ Current /\ OneCpuPerProc
  BY DEF Locking, Current, OneCpuPerProc
<1>3. Forking /\ Alive /\ StackSafe
  BY DEF Forking, Forkers, Alive, StackSafe
<1>4. ParentsLive /\ NoMissedChild /\ NoLostTick
  BY DEF ParentsLive, NoMissedChild, NoLostTick
<1> QED  BY <1>1, <1>2, <1>3, <1>4 DEF IInv


-----------------------------------------------------------------------------
(* Scheduler                                                               *)

(* The lock is free, so no CPU is between it and its release.              *)
LEMMA SchedAcquireStep ==
  ASSUME Table, NEW c \in Cpu, SchedAcquire(c) PROVE Table'
<1> USE ConstFacts DEF Table, sleepVars, SchedAcquire, tableVars, threadVars
<1>1. Types'
  BY DEF Types, ProcState, Counter, Stage, Return
<1>2. Locking'
  BY DEF Types, Locking
<1>3. Current'
  BY DEF Types, Current
<1>4. OneCpuPerProc'
  BY DEF Types, OneCpuPerProc
<1>5. NoLostTick'
  BY DEF Types, NoLostTick
<1>6. Forking' /\ Alive' /\ StackSafe' /\ ParentsLive'
  BY DEF Forking, Forkers, Alive, StackSafe, ParentsLive
<1> QED  BY <1>1, <1>2, <1>3, <1>4, <1>5, <1>6

(* A slot that is switched to is not RUNNING, hence on no CPU: the last    *)
(* one it was on is past sched().                                          *)
Switches(c, p, n) ==
  /\ cpu[c] = "scan" /\ state[p] \in {"RUNNABLE", "SLEEPING"}
  /\ cpuProc' = [cpuProc EXCEPT ![c] = p]
  /\ state' = [state EXCEPT ![p] = "RUNNING"]
  /\ scan' = [scan EXCEPT ![c] = n]
  /\ cpu' = [cpu EXCEPT ![c] = "switch"]
  /\ UNCHANGED <<lock, tlock, pid, parent, chan, killed, kstack, threadVars, initChild>>

LEMMA SwitchesStep ==
  ASSUME Table, NEW c \in Cpu, NEW p \in Slot, NEW n \in 0 .. NPROC, Switches(c, p, n)
  PROVE  Table'
<1> USE ConstFacts DEF Table, sleepVars, Switches, threadVars
<1>1. Types'
  BY DEF Types, ProcState, Counter, Stage, Return
<1>2. Locking'
  BY DEF Types, Locking
<1>3. Current'
  BY DEF Types, Current, Locking
<1>4. OneCpuPerProc'
  BY DEF Types, OneCpuPerProc, Locking, Current
<1>5. Forking'
  BY DEF Types, Forking, Forkers
<1>6. Alive'
  BY DEF Types, Alive
<1>7. StackSafe'
  BY DEF Types, StackSafe, Alive
<1>8. ParentsLive'
  BY DEF Types, ParentsLive
<1>9. NoLostTick'
  BY DEF Types, NoLostTick
<1> QED  BY <1>1, <1>2, <1>3, <1>4, <1>5, <1>6, <1>7, <1>8, <1>9

LEMMA SchedSwitchSwitches ==
  ASSUME Table, NEW c \in Cpu, SchedSwitch(c)
  PROVE  \E p \in Slot : \E n \in 0 .. NPROC : Switches(c, p, n)
<1>1. PICK p \in Slot : SchedSwitch(c)!2!(p)
  BY DEF SchedSwitch
<1>2. p + 1 \in 0 .. NPROC
  BY ConstFacts
<1> QED  BY <1>1, <1>2 DEF SchedSwitch, Switches, First, Candidates

LEMMA SchedSwitchStep ==
  ASSUME Table, NEW c \in Cpu, SchedSwitch(c) PROVE Table'
BY SchedSwitchSwitches, SwitchesStep

(* The scheduler gives up the lock with no process in hand.                *)
LEMMA SchedDoneStep ==
  ASSUME Table, NEW c \in Cpu, SchedDone(c) PROVE Table'
<1> USE ConstFacts DEF Table, sleepVars, SchedDone, tableVars, threadVars
<1>1. Types'
  BY DEF Types, ProcState, Counter, Stage, Return
<1>2. Locking'
  BY DEF Types, Locking
<1>3. Current'
  BY DEF Types, Current
<1>4. OneCpuPerProc'
  BY DEF Types, OneCpuPerProc
<1>5. NoLostTick'
  BY DEF Types, NoLostTick
<1>6. Forking' /\ Alive' /\ StackSafe' /\ ParentsLive'
  BY DEF Forking, Forkers, Alive, StackSafe, ParentsLive
<1> QED  BY <1>1, <1>2, <1>3, <1>4, <1>5, <1>6

(* The process left its stack with its state already changed.              *)
LEMMA SchedStep ==
  ASSUME Table, NEW c \in Cpu, Sched(c) PROVE Table'
<1> USE ConstFacts DEF Table, sleepVars, Sched, tableVars, threadVars
<1>1. Types'
  BY DEF Types, ProcState, Counter, Stage, Return
<1>2. Locking'
  BY DEF Types, Locking
<1>3. Current'
  BY DEF Types, Current
<1>4. OneCpuPerProc'
  BY DEF Types, OneCpuPerProc, Current
<1>5. StackSafe'
  BY DEF Types, StackSafe
<1>6. NoLostTick'
  BY DEF Types, NoLostTick
<1>7. Forking' /\ Alive' /\ ParentsLive'
  BY DEF Forking, Forkers, Alive, ParentsLive
<1> QED  BY <1>1, <1>2, <1>3, <1>4, <1>5, <1>6, <1>7

(* A new process releases the lock the scheduler took.                     *)
LEMMA ForkretStep ==
  ASSUME Table, NEW c \in Cpu, Forkret(c) PROVE Table'
<1> USE ConstFacts DEF Table, sleepVars, Forkret, ReleaseTable, tableVars
<1>1. Types'
  BY DEF Types, ProcState, Counter, Stage, Return
<1>2. Locking'
  BY DEF Types, Locking
<1>3. Current'
  BY DEF Types, Current
<1>4. OneCpuPerProc'
  BY DEF Types, OneCpuPerProc
<1>5. NoLostTick'
  BY DEF Types, NoLostTick
<1>6. Forking' /\ Alive' /\ StackSafe' /\ ParentsLive'
  BY DEF Forking, Forkers, Alive, StackSafe, ParentsLive
<1> QED  BY <1>1, <1>2, <1>3, <1>4, <1>5, <1>6

(* A process back from yield() releases the lock; killed sends it to exit. *)
LEMMA YieldReturnStep ==
  ASSUME Table, NEW c \in Cpu, YieldReturn(c) PROVE Table'
<1> USE ConstFacts DEF Table, sleepVars, YieldReturn, ReleaseTable, tableVars
<1>1. Types'
  BY DEF Types, ProcState, Counter, Stage, Return
<1>2. Locking'
  BY DEF Types, Locking
<1>3. Current'
  BY DEF Types, Current
<1>4. OneCpuPerProc'
  BY DEF Types, OneCpuPerProc
<1>5. Forking'
  BY DEF Types, Forking, Forkers
<1>6. NoLostTick'
  BY DEF Types, NoLostTick
<1>7. Alive' /\ StackSafe' /\ ParentsLive'
  BY DEF Alive, StackSafe, ParentsLive
<1> QED  BY <1>1, <1>2, <1>3, <1>4, <1>5, <1>6, <1>7

-----------------------------------------------------------------------------
(* fork()                                                                  *)

(* The slot was UNUSED, so no other fork() in progress owns it.            *)
LEMMA AllocSlotStep ==
  ASSUME Table, NEW c \in Cpu, NEW p \in Slot, NEW s \in Slot, NEW k \in Pid,
         AllocSlot(c, p, s, k)
  PROVE  Table'
<1> USE ConstFacts DEF Table, sleepVars, AllocSlot, AtUser, First, cpuVars
<1>1. Types'
  BY DEF Types, ProcState, Counter, Stage, Return
<1>2. Locking'
  BY DEF Types, Locking
<1>3. Current'
  BY DEF Types, Current
<1>4. OneCpuPerProc'
  BY DEF Types, OneCpuPerProc
<1>5. Forking'
  BY DEF Types, Forking, Forkers, Locking, Current, OneCpuPerProc, Alive,
         StackSafe, ParentsLive,
         NoLostTick
<1>6. Alive'
  BY DEF Types, Alive, Locking, Current, OneCpuPerProc, Forking, Forkers,
         StackSafe, ParentsLive,
         NoLostTick
<1>7. StackSafe'
  BY DEF Types, StackSafe
<1>8. ParentsLive'
  BY DEF Types, ParentsLive
<1>9. NoLostTick'
  BY DEF Types, NoLostTick
<1> QED  BY <1>1, <1>2, <1>3, <1>4, <1>5, <1>6, <1>7, <1>8, <1>9

(* fork() finds no slot and only moves the caller on.                      *)
LEMMA ForkFullStep ==
  ASSUME Table, NEW c \in Cpu, ForkFull(c) PROVE Table'
<1> USE ConstFacts DEF Table, sleepVars, ForkFull, AtUser, AfterForkFailure, AfterSyscall,
       tableVars, cpuVars
<1>1. Types'
  BY DEF Types, ProcState, Counter, Stage, Return
<1>2. Locking'
  BY DEF Types, Locking
<1>3. Current'
  BY DEF Types, Current
<1>4. Forking'
  BY DEF Types, Forking, Forkers
<1>5. OneCpuPerProc' /\ Alive' /\ StackSafe' /\ ParentsLive' /\ NoLostTick'
  BY DEF OneCpuPerProc, Alive, StackSafe, ParentsLive, NoLostTick
<1> QED  BY <1>1, <1>2, <1>3, <1>4, <1>5

(* The child of a fork() in progress is EMBRYO: nobody else looks at it.   *)
LEMMA ForkStackStep ==
  ASSUME Table, NEW c \in Cpu, ForkStack(c) PROVE Table'
<1> USE ConstFacts DEF Table, sleepVars, ForkStack, At, cpuVars
<1>1. Types'
  BY DEF Types, ProcState, Counter, Stage, Return, Forking, Forkers
<1>2. Locking'
  BY DEF Types, Locking, Current, OneCpuPerProc, Forking, Forkers, Alive
<1>3. Current'
  BY DEF Types, Current
<1>4. Forking'
  BY DEF Types, Forking, Forkers
<1>5. Alive'
  BY DEF Types, Alive
<1>6. StackSafe'
  BY DEF Types, StackSafe, Forking, Forkers
<1>7. OneCpuPerProc' /\ ParentsLive' /\ NoLostTick'
  BY DEF OneCpuPerProc, ParentsLive,
         NoLostTick
<1> QED  BY <1>1, <1>2, <1>3, <1>4, <1>5, <1>6, <1>7

(* A slot given back had no stack, no parent and no child.                 *)
LEMMA ForkStackFailsStep ==
  ASSUME Table, NEW c \in Cpu, ForkStackFails(c) PROVE Table'
<1> USE ConstFacts DEF Table, sleepVars, ForkStackFails, At, AfterForkFailure,
       AfterSyscall, cpuVars
<1>1. Types'
  BY DEF Types, ProcState, Counter, Stage, Return, Forking, Forkers
<1>2. Locking'
  BY DEF Types, Locking
<1>3. Current'
  BY DEF Types, Current, Forking, Forkers
<1>4. OneCpuPerProc'
  BY DEF Types, OneCpuPerProc, Forking, Forkers
<1>5. Forking'
  BY DEF Types, Forking, Forkers
<1>6. Alive'
  BY DEF Types, Alive, Forking, Forkers
<1>7. StackSafe'
  BY DEF Types, StackSafe, Forking, Forkers
<1>8. ParentsLive'
  BY DEF Types, ParentsLive, Forking, Forkers, Alive
<1>9. NoLostTick'
  BY DEF Types, NoLostTick
<1> QED  BY <1>1, <1>2, <1>3, <1>4, <1>5, <1>6, <1>7, <1>8, <1>9

(* The parent set without the lock is the running caller.                  *)
LEMMA ForkCopyStep ==
  ASSUME Table, NEW c \in Cpu, ForkCopy(c) PROVE Table'
<1> USE ConstFacts DEF Table, sleepVars, ForkCopy, At, cpuVars
<1>1. Types'
  BY DEF Types, ProcState, Counter, Stage, Return, Forking, Forkers
<1>2. Locking'
  BY DEF Types, Locking
<1>3. Current'
  BY DEF Types, Current
<1>4. Forking'
  BY DEF Types, Forking, Forkers
<1>5. Alive'
  BY DEF Types, Alive, OneCpuPerProc, Forking, Forkers
<1>6. ParentsLive'
  BY DEF Types, ParentsLive, OneCpuPerProc
<1>7. OneCpuPerProc' /\ StackSafe' /\ NoLostTick'
  BY DEF OneCpuPerProc, StackSafe, NoLostTick
<1> QED  BY <1>1, <1>2, <1>3, <1>4, <1>5, <1>6, <1>7

(* The stack goes with the slot.                                           *)
LEMMA ForkCopyFailsStep ==
  ASSUME Table, NEW c \in Cpu, ForkCopyFails(c) PROVE Table'
<1> USE ConstFacts DEF Table, sleepVars, ForkCopyFails, At, FreeStack, AfterForkFailure,
       AfterSyscall, cpuVars
<1>1. Types'
  BY DEF Types, ProcState, Counter, Stage, Return, Forking, Forkers
<1>2. Locking'
  BY DEF Types, Locking
<1>3. Current'
  BY DEF Types, Current, Forking, Forkers
<1>4. OneCpuPerProc'
  BY DEF Types, OneCpuPerProc, Forking, Forkers
<1>5. Forking'
  BY DEF Types, Forking, Forkers
<1>6. Alive'
  BY DEF Types, Alive, Forking, Forkers
<1>7. StackSafe'
  BY DEF Types, StackSafe, Current, OneCpuPerProc, Locking, Forking, Forkers,
         Alive
<1>8. ParentsLive'
  BY DEF Types, ParentsLive, Forking, Forkers, Alive
<1>9. NoLostTick'
  BY DEF Types, NoLostTick
<1> QED  BY <1>1, <1>2, <1>3, <1>4, <1>5, <1>6, <1>7, <1>8, <1>9

(* The child becomes RUNNABLE with a stack and a live parent.              *)
LEMMA ForkRunStep ==
  ASSUME Table, NEW c \in Cpu, ForkRun(c) PROVE Table'
<1> USE ConstFacts DEF Table, sleepVars, ForkRun, At, AfterSyscall, cpuVars
<1>1. Types'
  BY DEF Types, ProcState, Counter, Stage, Return, Forking, Forkers
<1>2. Locking'
  BY DEF Types, Locking
<1>3. Current'
  BY DEF Types, Current
<1>4. OneCpuPerProc'
  BY DEF Types, OneCpuPerProc, Forking, Forkers
<1>5. Forking'
  BY DEF Types, Forking, Forkers
<1>6. Alive'
  BY DEF Types, Alive, Forking, Forkers
<1>7. StackSafe'
  BY DEF Types, StackSafe
<1>8. ParentsLive'
  BY DEF Types, ParentsLive, Forking, Forkers
<1>9. NoLostTick'
  BY DEF Types, NoLostTick
<1> QED  BY <1>1, <1>2, <1>3, <1>4, <1>5, <1>6, <1>7, <1>8, <1>9

-----------------------------------------------------------------------------
(* exit(), wait() and kill()                                               *)

(* A call of exit() first only moves the caller on.                        *)
LEMMA CallExitStep ==
  ASSUME Table, NEW c \in Cpu, CallExit(c) PROVE Table'
<1> USE ConstFacts DEF Table, sleepVars, CallExit, AtUser, tableVars, cpuVars
<1>1. Types'
  BY DEF Types, ProcState, Counter, Stage, Return
<1>2. Locking'
  BY DEF Types, Locking
<1>3. Current'
  BY DEF Types, Current
<1>4. Forking'
  BY DEF Types, Forking, Forkers
<1>5. OneCpuPerProc' /\ Alive' /\ StackSafe' /\ ParentsLive' /\ NoLostTick'
  BY DEF OneCpuPerProc, Alive, StackSafe, ParentsLive, NoLostTick
<1> QED  BY <1>1, <1>2, <1>3, <1>4, <1>5

(* A running process marks itself killed: it is not asleep.                *)
LEMMA FaultStep ==
  ASSUME Table, NEW c \in Cpu, Fault(c) PROVE Table'
<1> USE ConstFacts DEF Table, sleepVars, Fault, AtUser, cpuVars
<1>1. Types'
  BY DEF Types, ProcState, Counter, Stage, Return
<1>2. Locking'
  BY DEF Types, Locking
<1>3. Current'
  BY DEF Types, Current
<1>4. Forking'
  BY DEF Types, Forking, Forkers
<1>5. OneCpuPerProc' /\ Alive' /\ StackSafe' /\ ParentsLive' /\ NoLostTick'
  BY DEF OneCpuPerProc, Alive, StackSafe, ParentsLive, NoLostTick
<1> QED  BY <1>1, <1>2, <1>3, <1>4, <1>5

(* A killed process goes to exit().                                        *)
LEMMA TrapKilledStep ==
  ASSUME Table, NEW c \in Cpu, TrapKilled(c) PROVE Table'
<1> USE ConstFacts DEF Table, sleepVars, TrapKilled, AtUser, tableVars, cpuVars
<1>1. Types'
  BY DEF Types, ProcState, Counter, Stage, Return
<1>2. Locking'
  BY DEF Types, Locking
<1>3. Current'
  BY DEF Types, Current
<1>4. Forking'
  BY DEF Types, Forking, Forkers
<1>5. OneCpuPerProc' /\ Alive' /\ StackSafe' /\ ParentsLive' /\ NoLostTick'
  BY DEF OneCpuPerProc, Alive, StackSafe, ParentsLive, NoLostTick
<1> QED  BY <1>1, <1>2, <1>3, <1>4, <1>5

(* init stops its CPU; no lock is held there.                              *)
LEMMA ExitPanicStep ==
  ASSUME Table, NEW c \in Cpu, ExitPanic(c) PROVE Table'
<1> USE ConstFacts DEF Table, sleepVars, ExitPanic, At, tableVars, threadVars
<1>1. Types'
  BY DEF Types, ProcState, Counter, Stage, Return
<1>2. Locking'
  BY DEF Types, Locking
<1>3. Current'
  BY DEF Types, Current
<1>4. OneCpuPerProc'
  BY DEF Types, OneCpuPerProc
<1>5. NoLostTick'
  BY DEF Types, NoLostTick
<1>6. Forking' /\ Alive' /\ StackSafe' /\ ParentsLive'
  BY DEF Forking, Forkers, Alive, StackSafe, ParentsLive
<1> QED  BY <1>1, <1>2, <1>3, <1>4, <1>5, <1>6

(* The parent and, for an inherited zombie, init are woken before the switch. *)
LEMMA ExitStep ==
  ASSUME Table, NEW c \in Cpu, Exit(c) PROVE Table'
<1> USE ConstFacts DEF Table, sleepVars, Exit, At, EnterSched, Wakeup1, Asleep, ExitWakes,
       Abandon, ZombieChildren, Children, threadVars
<1>1. Types'
  BY DEF Types, ProcState, Counter, Stage, Return
<1>2. Locking'
  BY DEF Types, Locking
<1>3. Current'
  BY DEF Types, Current
<1>4. OneCpuPerProc'
  BY DEF Types, OneCpuPerProc
<1>5. Forking'
  BY DEF Types, Forking, Forkers, OneCpuPerProc
<1>6. Alive'
  BY DEF Types, Alive, OneCpuPerProc
<1>7. StackSafe'
  BY DEF Types, StackSafe
<1>8. ParentsLive'
  BY DEF Types, ParentsLive, OneCpuPerProc, Alive
<1>9. NoLostTick'
  BY DEF Types, NoLostTick
<1> QED  BY <1>1, <1>2, <1>3, <1>4, <1>5, <1>6, <1>7, <1>8, <1>9

(* Only a ZOMBIE is freed, and one that has left its CPU: the lock is ours. *)
Frees(c, p, q) ==
  /\ state[q] = "ZOMBIE"
  /\ FreeStack(q)
  /\ pid' = [pid EXCEPT ![q] = 0]
  /\ parent' = [parent EXCEPT ![q] = None]
  /\ killed' = [killed EXCEPT ![q] = FALSE]
  /\ state' = [state EXCEPT ![q] = "UNUSED"]
  /\ chan' = [chan EXCEPT ![p] = None]
  /\ initChild' \in {initChild, 0}
  /\ ReleaseTable(c)
  /\ resume' = [resume EXCEPT ![p] = "none"]
  /\ pc' = [pc EXCEPT ![p] = AfterSyscall(p), ![q] = "user"]

LEMMA FreesStep ==
  ASSUME Table, NEW c \in Cpu, NEW p \in Slot, MayWait(c, p), NEW q \in Slot, Frees(c, p, q),
         UNCHANGED <<tlock, child, sleepVars, cpuProc, scan>>
  PROVE Table'
<1> USE ConstFacts DEF Table, sleepVars, Frees, MayWait, FreeStack, ReleaseTable, AfterSyscall
<1>1. Types'
  BY DEF Types, ProcState, Counter, Stage, Return
<1>2. Locking'
  BY DEF Types, Locking, OneCpuPerProc, Current
<1>3. Current'
  BY DEF Types, Current, Locking
<1>4. OneCpuPerProc'
  BY DEF Types, OneCpuPerProc
<1>5. Forking'
  BY DEF Types, Forking, Forkers
<1>6. Alive'
  BY DEF Types, Alive, OneCpuPerProc
<1>7. StackSafe'
  BY DEF Types, StackSafe, OneCpuPerProc, Current, Locking
<1>8. ParentsLive'
  BY DEF Types, ParentsLive
<1>9. NoLostTick'
  BY DEF Types, NoLostTick
<1> QED  BY <1>1, <1>2, <1>3, <1>4, <1>5, <1>6, <1>7, <1>8, <1>9

(* wait() returns -1 and releases the lock.                                *)
GivesUp(c, p) ==
  /\ chan' = [chan EXCEPT ![p] = None]
  /\ initChild' \in {initChild, 0}
  /\ ReleaseTable(c)
  /\ resume' = [resume EXCEPT ![p] = "none"]
  /\ pc' = [pc EXCEPT ![p] = AfterSyscall(p)]
  /\ UNCHANGED <<state, pid, parent, killed, kstack>>

LEMMA GivesUpStep ==
  ASSUME Table, NEW c \in Cpu, NEW p \in Slot, MayWait(c, p), GivesUp(c, p),
         UNCHANGED <<tlock, child, sleepVars, cpuProc, scan>>
  PROVE Table'
<1> USE ConstFacts DEF Table, sleepVars, GivesUp, MayWait, ReleaseTable, AfterSyscall
<1>1. Types'
  BY DEF Types, ProcState, Counter, Stage, Return
<1>2. Locking'
  BY DEF Types, Locking, OneCpuPerProc
<1>3. Current'
  BY DEF Types, Current
<1>4. OneCpuPerProc'
  BY DEF Types, OneCpuPerProc
<1>5. Forking'
  BY DEF Types, Forking, Forkers
<1>6. Alive'
  BY DEF Types, Alive, OneCpuPerProc
<1>7. NoLostTick'
  BY DEF Types, NoLostTick
<1>8. StackSafe' /\ ParentsLive'
  BY DEF StackSafe, ParentsLive
<1> QED  BY <1>1, <1>2, <1>3, <1>4, <1>5, <1>6, <1>7, <1>8

(* The table was scanned under the lock that is kept up to the switch.     *)
Sleeps(c, p) ==
  /\ chan' = [chan EXCEPT ![p] = p]
  /\ state' = [state EXCEPT ![p] = "SLEEPING"]
  /\ EnterSched(c)
  /\ resume' = [resume EXCEPT ![p] = "wait"]
  /\ UNCHANGED <<pc, pid, parent, killed, kstack, initChild>>

LEMMA SleepsStep ==
  ASSUME Table, NEW c \in Cpu, NEW p \in Slot, MayWait(c, p), Sleeps(c, p),
         UNCHANGED <<tlock, child, sleepVars, cpuProc, scan>>
  PROVE Table'
<1> USE ConstFacts DEF Table, sleepVars, Sleeps, MayWait, EnterSched
<1>1. Types'
  BY DEF Types, ProcState, Counter, Stage, Return
<1>2. Locking'
  BY DEF Types, Locking
<1>3. Current'
  BY DEF Types, Current
<1>4. OneCpuPerProc'
  BY DEF Types, OneCpuPerProc
<1>5. Forking'
  BY DEF Types, Forking, Forkers, OneCpuPerProc
<1>6. Alive'
  BY DEF Types, Alive, OneCpuPerProc
<1>7. StackSafe'
  BY DEF Types, StackSafe
<1>8. ParentsLive'
  BY DEF Types, ParentsLive, OneCpuPerProc
<1>9. NoLostTick'
  BY DEF Types, NoLostTick
<1> QED  BY <1>1, <1>2, <1>3, <1>4, <1>5, <1>6, <1>7, <1>8, <1>9

(* A sleeper that is marked is also roused.                                *)
LEMMA KillStep ==
  ASSUME Table, NEW c \in Cpu, Kill(c) PROVE Table'
<1> USE ConstFacts DEF Table, sleepVars, Kill, AtUser, First, KillTarget, Roused, cpuVars
<1>1. Types'
  BY DEF Types, ProcState, Counter, Stage, Return
<1>2. Locking'
  BY DEF Types, Locking
<1>3. Current'
  BY DEF Types, Current
<1>4. OneCpuPerProc'
  BY DEF Types, OneCpuPerProc
<1>5. Forking'
  BY DEF Types, Forking, Forkers
<1>6. Alive'
  BY DEF Types, Alive
<1>7. StackSafe'
  BY DEF Types, StackSafe
<1>8. ParentsLive'
  BY DEF Types, ParentsLive
<1>9. NoLostTick'
  BY DEF Types, NoLostTick
<1> QED  BY <1>1, <1>2, <1>3, <1>4, <1>5, <1>6, <1>7, <1>8, <1>9

-----------------------------------------------------------------------------
(* sleep() and the timer                                                   *)

(* sleep() tests with tickslock held.                                      *)
LEMMA SleepCallStep ==
  ASSUME Table, NEW c \in Cpu, SleepCall(c) PROVE Table'
<1> USE ConstFacts DEF Table, sleepVars, SleepCall, AtUser, SleepTest, AfterSyscall,
       tableVars, cpuVars
<1>1. Types'
  BY DEF Types, ProcState, Counter, Stage, Return
<1>2. Locking'
  BY DEF Types, Locking
<1>3. Current'
  BY DEF Types, Current
<1>4. Forking'
  BY DEF Types, Forking, Forkers
<1>5. NoLostTick'
  BY DEF Types, NoLostTick, OneCpuPerProc
<1>6. OneCpuPerProc' /\ Alive' /\ StackSafe' /\ ParentsLive'
  BY DEF OneCpuPerProc, Alive, StackSafe, ParentsLive
<1> QED  BY <1>1, <1>2, <1>3, <1>4, <1>5, <1>6

(* A woken sleeper tests again with tickslock held.                        *)
LEMMA SleepRetestStep ==
  ASSUME Table, NEW c \in Cpu, SleepRetest(c) PROVE Table'
<1> USE ConstFacts DEF Table, sleepVars, SleepRetest, At, SleepTest, AfterSyscall,
       tableVars, cpuVars
<1>1. Types'
  BY DEF Types, ProcState, Counter, Stage, Return
<1>2. Locking'
  BY DEF Types, Locking
<1>3. Current'
  BY DEF Types, Current
<1>4. Forking'
  BY DEF Types, Forking, Forkers
<1>5. NoLostTick'
  BY DEF Types, NoLostTick, OneCpuPerProc
<1>6. OneCpuPerProc' /\ Alive' /\ StackSafe' /\ ParentsLive'
  BY DEF OneCpuPerProc, Alive, StackSafe, ParentsLive
<1> QED  BY <1>1, <1>2, <1>3, <1>4, <1>5, <1>6

(* tickslock is held until ptable.lock is: no tick came after the test.    *)
LEMMA SleepOnTicksStep ==
  ASSUME Table, NEW c \in Cpu, SleepOnTicks(c) PROVE Table'
<1> USE ConstFacts DEF Table, sleepVars, SleepOnTicks, At, EnterSched
<1>1. Types'
  BY DEF Types, ProcState, Counter, Stage, Return
<1>2. Locking'
  BY DEF Types, Locking, OneCpuPerProc, Current
<1>3. Current'
  BY DEF Types, Current
<1>4. OneCpuPerProc'
  BY DEF Types, OneCpuPerProc
<1>5. Forking'
  BY DEF Types, Forking, Forkers, OneCpuPerProc
<1>6. Alive'
  BY DEF Types, Alive, OneCpuPerProc
<1>7. StackSafe'
  BY DEF Types, StackSafe
<1>8. ParentsLive'
  BY DEF Types, ParentsLive, OneCpuPerProc
<1>9. NoLostTick'
  BY DEF Types, NoLostTick, Locking, Current
<1> QED  BY <1>1, <1>2, <1>3, <1>4, <1>5, <1>6, <1>7, <1>8, <1>9

(* A woken sleeper clears its channel and releases the lock.               *)
LEMMA SleepReturnStep ==
  ASSUME Table, NEW c \in Cpu, SleepReturn(c) PROVE Table'
<1> USE ConstFacts DEF Table, sleepVars, SleepReturn, ReleaseTable
<1>1. Types'
  BY DEF Types, ProcState, Counter, Stage, Return
<1>2. Locking'
  BY DEF Types, Locking
<1>3. Current'
  BY DEF Types, Current
<1>4. OneCpuPerProc'
  BY DEF Types, OneCpuPerProc
<1>5. Alive'
  BY DEF Types, Alive, OneCpuPerProc
<1>6. NoLostTick'
  BY DEF Types, NoLostTick
<1>7. Forking' /\ StackSafe' /\ ParentsLive'
  BY DEF Forking, Forkers, StackSafe, ParentsLive
<1> QED  BY <1>1, <1>2, <1>3, <1>4, <1>5, <1>6, <1>7

(* A tick is counted with tickslock free: nobody is between test and sleep. *)
LEMMA TimerTickStep ==
  ASSUME Table, TimerTick PROVE Table'
<1> USE ConstFacts DEF Table, sleepVars, TimerTick, Interruptible, tableVars
<1>1. Types'
  BY DEF Types, ProcState, Counter, Stage, Return
<1>2. Locking'
  BY DEF Types, Locking
<1>3. Current'
  BY DEF Types, Current
<1>4. OneCpuPerProc'
  BY DEF Types, OneCpuPerProc
<1>5. NoLostTick'
  BY DEF Types, NoLostTick
<1>6. Forking' /\ Alive' /\ StackSafe' /\ ParentsLive'
  BY DEF Forking, Forkers, Alive, StackSafe, ParentsLive
<1> QED  BY <1>1, <1>2, <1>3, <1>4, <1>5, <1>6

(* All sleepers on &ticks are roused before tickslock is released.         *)
LEMMA TimerWakeupStep ==
  ASSUME Table, TimerWakeup PROVE Table'
<1> USE ConstFacts DEF Table, sleepVars, TimerWakeup, Wakeup1, Asleep, threadVars
<1>1. Types'
  BY DEF Types, ProcState, Counter, Stage, Return
<1>2. Locking'
  BY DEF Types, Locking
<1>3. Current'
  BY DEF Types, Current, Locking
<1>4. OneCpuPerProc'
  BY DEF Types, OneCpuPerProc
<1>5. Forking'
  BY DEF Types, Forking, Forkers
<1>6. Alive'
  BY DEF Types, Alive
<1>7. StackSafe'
  BY DEF Types, StackSafe
<1>8. ParentsLive'
  BY DEF Types, ParentsLive
<1>9. NoLostTick'
  BY DEF Types, NoLostTick
<1> QED  BY <1>1, <1>2, <1>3, <1>4, <1>5, <1>6, <1>7, <1>8, <1>9

(* Another CPU is interrupted with no spin lock held.                      *)
LEMMA TimerOtherStep ==
  ASSUME Table, NEW c \in Cpu, TimerOther(c) PROVE Table'
<1> USE ConstFacts DEF Table, sleepVars, TimerOther, Interruptible, tableVars, threadVars
<1>1. Types'
  BY DEF Types, ProcState, Counter, Stage, Return
<1>2. Locking'
  BY DEF Types, Locking
<1>3. Current'
  BY DEF Types, Current
<1>4. OneCpuPerProc'
  BY DEF Types, OneCpuPerProc
<1>5. NoLostTick'
  BY DEF Types, NoLostTick
<1>6. Forking' /\ Alive' /\ StackSafe' /\ ParentsLive'
  BY DEF Forking, Forkers, Alive, StackSafe, ParentsLive
<1> QED  BY <1>1, <1>2, <1>3, <1>4, <1>5, <1>6

(* A killed process caught in user mode goes to exit().                    *)
LEMMA YieldKilledStep ==
  ASSUME Table, NEW c \in Cpu, YieldKilled(c) PROVE Table'
<1> USE ConstFacts DEF Table, sleepVars, YieldKilled, tableVars
<1>1. Types'
  BY DEF Types, ProcState, Counter, Stage, Return
<1>2. Locking'
  BY DEF Types, Locking
<1>3. Current'
  BY DEF Types, Current
<1>4. OneCpuPerProc'
  BY DEF Types, OneCpuPerProc
<1>5. Forking'
  BY DEF Types, Forking, Forkers
<1>6. NoLostTick'
  BY DEF Types, NoLostTick
<1>7. Alive' /\ StackSafe' /\ ParentsLive'
  BY DEF Alive, StackSafe, ParentsLive
<1> QED  BY <1>1, <1>2, <1>3, <1>4, <1>5, <1>6, <1>7

(* The process is RUNNABLE, with the lock kept until it has left its stack. *)
Yields(c, p) ==
  /\ p = cpuProc[c] /\ lock = NoCpu
  /\ cpu[c] = "yield" \/ (cpu[c] = "run" /\ pc[p] = "user")
  /\ EnterSched(c)
  /\ state' = [state EXCEPT ![p] = "RUNNABLE"]
  /\ resume' = [resume EXCEPT ![p] = "yield"]
  /\ UNCHANGED <<tlock, pid, parent, chan, killed, kstack, pc, child, sleepVars, cpuProc, scan,
                 initChild>>

LEMMA YieldsStep ==
  ASSUME Table, NEW c \in Cpu, NEW p \in Slot, Yields(c, p) PROVE Table'
<1> USE ConstFacts DEF Table, sleepVars, Yields, EnterSched
<1>1. Types'
  BY DEF Types, ProcState, Counter, Stage, Return
<1>2. Locking'
  BY DEF Types, Locking
<1>3. Current'
  BY DEF Types, Current
<1>4. OneCpuPerProc'
  BY DEF Types, OneCpuPerProc
<1>5. Forking'
  BY DEF Types, Forking, Forkers, OneCpuPerProc
<1>6. Alive'
  BY DEF Types, Alive, OneCpuPerProc
<1>7. StackSafe'
  BY DEF Types, StackSafe
<1>8. ParentsLive'
  BY DEF Types, ParentsLive, OneCpuPerProc
<1>9. NoLostTick'
  BY DEF Types, NoLostTick
<1> QED  BY <1>1, <1>2, <1>3, <1>4, <1>5, <1>6, <1>7, <1>8, <1>9

LEMMA YieldStep ==
  ASSUME Table, NEW c \in Cpu, Yield(c) PROVE Table'
BY YieldsStep DEF Yield, Yields

-----------------------------------------------------------------------------
(* Every step of the system is one of these actions or a stutter.          *)

LEMMA ForkAllocStep ==
  ASSUME Table, NEW c \in Cpu, ForkAlloc(c) PROVE Table'
BY AllocSlotStep DEF ForkAlloc

(* wait() reaps, fails or sleeps, entered from user mode or from sched().  *)
LEMMA WaitEntered ==
  ASSUME NEW c \in Cpu, Wait(c) \/ WaitReturn(c)
  PROVE  \E p \in Slot : MayWait(c, p) /\ WaitLoop(c, p)
<1>1. CASE Wait(c)
  BY <1>1, Zenon DEF Wait, AtUser, MayWait
<1>2. CASE WaitReturn(c)
  BY <1>2 DEF WaitReturn, MayWait
<1> QED  BY <1>1, <1>2

LEMMA WaitLoopIs ==
  ASSUME NEW c \in Cpu, NEW p \in Slot, WaitLoop(c, p)
  PROVE  /\ \/ \E q \in Slot : Frees(c, p, q)
            \/ GivesUp(c, p)
            \/ Sleeps(c, p) /\ WaitSleeps(c, p)
         /\ UNCHANGED <<tlock, child, sleepVars, cpuProc, scan>>
<1>1. CASE Reap(c, p)
  BY <1>1 DEF WaitLoop, Reap, Frees, First, ZombieChildren
<1>2. CASE WaitFails(c, p)
  BY <1>2 DEF WaitLoop, WaitFails, GivesUp
<1>3. CASE WaitSleeps(c, p)
  BY <1>3 DEF WaitLoop, WaitSleeps, Sleeps
<1> QED  BY <1>1, <1>2, <1>3 DEF WaitLoop

LEMMA WaitStep == ASSUME Table, NEW c \in Cpu, Wait(c) \/ WaitReturn(c) PROVE Table'
<1>1. PICK p \in Slot : MayWait(c, p) /\ WaitLoop(c, p)
  BY WaitEntered
<1> QED  BY <1>1, WaitLoopIs, FreesStep, GivesUpStep, SleepsStep

(* The invariant reads only the variables of the system.                   *)
LEMMA StutterStep == ASSUME Table, UNCHANGED vars PROVE Table'
  BY DEF vars, tableVars, threadVars, sleepVars, cpuVars, Table, Types, Locking, Current,
         OneCpuPerProc, Forking, Forkers, Alive, StackSafe, ParentsLive, NoLostTick

LEMMA TableStep == ASSUME Table, [Next]_vars PROVE Table'
<1>1. CASE UNCHANGED vars
  BY <1>1, StutterStep
<1>2. ASSUME NEW c \in Cpu, KernelStep(c) PROVE Table'
  <2>1. CASE SchedAcquire(c) \/ SchedSwitch(c) \/ SchedDone(c) \/ Sched(c)
    BY <2>1, SchedAcquireStep, SchedSwitchStep, SchedDoneStep, SchedStep
  <2>2. CASE Forkret(c) \/ YieldReturn(c) \/ WaitReturn(c) \/ SleepReturn(c)
    BY <2>2, ForkretStep, YieldReturnStep, WaitStep, SleepReturnStep
  <2>3. CASE ForkStack(c) \/ ForkStackFails(c) \/ ForkCopy(c) \/ ForkCopyFails(c) \/ ForkRun(c)
    BY <2>3, ForkStackStep, ForkStackFailsStep, ForkCopyStep, ForkCopyFailsStep, ForkRunStep
  <2>4. CASE TrapKilled(c) \/ ExitPanic(c) \/ PanicSpin(c) \/ Exit(c)
    BY <2>4, TrapKilledStep, ExitPanicStep, StutterStep, ExitStep DEF PanicSpin
  <2>5. CASE SleepRetest(c) \/ SleepOnTicks(c) \/ YieldKilled(c) \/ Yield(c)
    BY <2>5, SleepRetestStep, SleepOnTicksStep, YieldKilledStep, YieldStep
  <2> QED  BY <1>2, <2>1, <2>2, <2>3, <2>4, <2>5 DEF KernelStep
<1>3. ASSUME NEW c \in Cpu, Syscall(c) PROVE Table'
  BY <1>3, ForkAllocStep, ForkFullStep, WaitStep, KillStep, SleepCallStep,
     CallExitStep, FaultStep DEF Syscall
<1>4. CASE Timer \/ TimerWakeup
  BY <1>4, TimerTickStep, TimerOtherStep, TimerWakeupStep DEF Timer
<1> QED  BY <1>1, <1>2, <1>3, <1>4 DEF Next

-----------------------------------------------------------------------------
(* Who sleeps in wait().  A step that does not put a process to sleep      *)
(* there makes no zombie of a child of one who does, marks none of those   *)
(* killed and takes no living child from them without waking them up.      *)

Undisturbed(x) == state'[x] = "SLEEPING" /\ chan'[x] = x =>
  /\ state[x] = "SLEEPING" /\ chan[x] = x /\ (killed'[x] => killed[x])
  /\ \A q \in Slot : parent'[q] = x /\ state'[q] = "ZOMBIE" =>
       parent[q] = x /\ state[q] = "ZOMBIE" /\ pid'[q] = pid[q]
  /\ \A q \in Slot : parent[q] = x /\ state[q] # "ZOMBIE" => parent'[q] = x
Peaceful == \A x \in Slot : Undisturbed(x)

LEMMA PeacefulSched ==
  ASSUME Table, NEW c \in Cpu,
         \/ SchedAcquire(c) \/ SchedDone(c) \/ Sched(c) \/ Forkret(c) \/ YieldReturn(c)
         \/ SleepReturn(c) \/ YieldKilled(c) \/ Yield(c) \/ \E p \in Slot : Yields(c, p)
         \/ \E p \in Slot : \E n \in 0 .. NPROC : Switches(c, p, n)
  PROVE  Peaceful
<1> USE ConstFacts DEF Table, sleepVars, Types, Peaceful, Undisturbed, tableVars
<1>1. CASE SchedAcquire(c) \/ SchedDone(c) \/ Sched(c) \/ Forkret(c) \/ YieldReturn(c)
           \/ YieldKilled(c)
  BY <1>1 DEF SchedAcquire, SchedDone, Sched, Forkret, YieldReturn, YieldKilled
<1>2. CASE SleepReturn(c) \/ Yield(c) \/ \E p \in Slot : Yields(c, p)
  BY <1>2 DEF SleepReturn, Yield, Yields
<1>3. CASE \E p \in Slot : \E n \in 0 .. NPROC : Switches(c, p, n)
  BY <1>3 DEF Switches
<1> QED  BY <1>1, <1>2, <1>3

LEMMA PeacefulFork ==
  ASSUME Table, NEW c \in Cpu,
         \/ \E p, s \in Slot : \E k \in Pid : AllocSlot(c, p, s, k)
         \/ ForkFull(c) \/ ForkStack(c) \/ ForkStackFails(c) \/ ForkCopy(c) \/ ForkCopyFails(c)
         \/ ForkRun(c)
  PROVE  Peaceful
<1> USE ConstFacts DEF Table, sleepVars, Types, Peaceful, Undisturbed, At, tableVars
<1>1. CASE \E p, s \in Slot : \E k \in Pid : AllocSlot(c, p, s, k)
  BY <1>1 DEF AllocSlot, First
<1>2. CASE ForkFull(c) \/ ForkStack(c)
  BY <1>2 DEF ForkFull, ForkStack
<1>3. CASE ForkStackFails(c) \/ ForkCopyFails(c) \/ ForkRun(c)
  BY <1>3 DEF ForkStackFails, ForkCopyFails, ForkRun, Forking, Forkers
<1>4. CASE ForkCopy(c)
  BY <1>4 DEF ForkCopy, Forking, Forkers
<1> QED  BY <1>1, <1>2, <1>3, <1>4

LEMMA PeacefulCalls ==
  ASSUME Table, NEW c \in Cpu,
         \/ CallExit(c) \/ Fault(c) \/ TrapKilled(c) \/ ExitPanic(c) \/ Kill(c)
         \/ SleepCall(c) \/ SleepRetest(c) \/ SleepOnTicks(c)
  PROVE  Peaceful
<1> USE ConstFacts DEF Table, sleepVars, Types, Peaceful, Undisturbed, tableVars
<1>1. CASE CallExit(c) \/ TrapKilled(c) \/ ExitPanic(c) \/ SleepCall(c) \/ SleepRetest(c)
  BY <1>1 DEF CallExit, TrapKilled, ExitPanic, SleepCall, SleepRetest
<1>2. CASE Fault(c)
  BY <1>2 DEF Fault, AtUser, OneCpuPerProc
<1>3. CASE Kill(c)
  BY <1>3 DEF Kill, Roused
<1>4. CASE SleepOnTicks(c)
  BY <1>4 DEF SleepOnTicks
<1> QED  BY <1>1, <1>2, <1>3, <1>4

(* The parent and, for an inherited zombie, init are woken before the switch. *)
LEMMA PeacefulExit == ASSUME Table, NEW c \in Cpu, Exit(c) PROVE Peaceful
<1> USE ConstFacts DEF Table, sleepVars, Types
<1>1. PICK p \in Slot \ {InitProc} : Exit(c)!(p)
  BY DEF Exit
<1>2. /\ state' = [Wakeup1(ExitWakes(p)) EXCEPT ![p] = "ZOMBIE"]
      /\ parent' = Abandon(p) /\ UNCHANGED <<pid, chan, killed>>
  BY <1>1
<1> SUFFICES ASSUME NEW x \in Slot, state'[x] = "SLEEPING", chan'[x] = x PROVE Undisturbed(x)
  BY DEF Peaceful, Undisturbed
<1>3. x # p /\ state[x] = "SLEEPING" /\ chan[x] = x /\ x \notin ExitWakes(p)
  BY <1>2 DEF Wakeup1, Asleep
<1>4. parent[p] # x /\ (x = InitProc => \A q \in Slot : ~(parent[q] = p /\ state[q] = "ZOMBIE"))
  BY <1>3 DEF ExitWakes, ZombieChildren, Children
<1>5. ASSUME NEW q \in Slot, parent'[q] = x, state'[q] = "ZOMBIE"
      PROVE  parent[q] = x /\ state[q] = "ZOMBIE"
  <2>1. state[q] = "ZOMBIE" \/ q = p
    BY <1>2, <1>5 DEF Wakeup1
  <2>2. parent[q] = x \/ (parent[q] = p /\ x = InitProc)
    BY <1>2, <1>5 DEF Abandon
  <2>3. parent[p] # p
    BY DEF Alive
  <2> QED  BY <1>4, <2>1, <2>2, <2>3
<1>6. ASSUME NEW q \in Slot, parent[q] = x PROVE parent'[q] = x
  BY <1>2, <1>3, <1>6 DEF Abandon
<1> QED  BY <1>2, <1>3, <1>5, <1>6 DEF Undisturbed

LEMMA PeacefulWait ==
  ASSUME Table, NEW c \in Cpu, NEW p \in Slot, MayWait(c, p),
         GivesUp(c, p) \/ \E q \in Slot : Frees(c, p, q)
  PROVE  Peaceful
<1> USE ConstFacts DEF Table, sleepVars, Types, Peaceful, Undisturbed
<1>1. CASE GivesUp(c, p)
  BY <1>1 DEF GivesUp
<1>2. CASE \E q \in Slot : Frees(c, p, q)
  BY <1>2 DEF Frees
<1> QED  BY <1>1, <1>2

(* One who goes to sleep there has looked at its children.                 *)
LEMMA PeacefulSleeps ==
  ASSUME Table, NEW c \in Cpu, NEW p \in Slot, Sleeps(c, p)
  PROVE  /\ \A x \in Slot \ {p} : Undisturbed(x)
         /\ \A q \in Slot : state'[q] = "ZOMBIE" => q # p /\ state[q] = "ZOMBIE"
BY DEF Table, Types, Sleeps, Undisturbed

LEMMA PeacefulTimer == ASSUME Table, Timer \/ TimerWakeup PROVE Peaceful
<1> USE ConstFacts DEF Table, sleepVars, Types, Peaceful, Undisturbed, tableVars
<1>1. CASE Timer
  BY <1>1 DEF Timer, TimerTick, TimerOther
<1>2. CASE TimerWakeup
  BY <1>2 DEF TimerWakeup, Wakeup1, Asleep
<1> QED  BY <1>1, <1>2

MissedChild(p) ==
  ~(state[p] = "SLEEPING" /\ chan[p] = p =>
      Children(p) # {} /\ ZombieChildren(p) = {} /\ ~killed[p])

LEMMA UndisturbedMisses ==
  ASSUME NEW x \in Slot, ~MissedChild(x), Undisturbed(x) PROVE ~MissedChild(x)'
<1> SUFFICES ASSUME state'[x] = "SLEEPING", chan'[x] = x
             PROVE  Children(x)' # {} /\ ZombieChildren(x)' = {} /\ ~killed'[x]
  BY DEF MissedChild
<1>1. Children(x) # {} /\ ZombieChildren(x) = {} /\ ~killed'[x]
  BY DEF MissedChild, Undisturbed
<1>2. PICK q \in Slot : parent[q] = x /\ state[q] # "ZOMBIE"
  BY <1>1 DEF Children, ZombieChildren
<1>3. q \in Children(x)'
  BY <1>2 DEF Undisturbed, Children
<1>4. ZombieChildren(x)' = {}
  BY <1>1 DEF Undisturbed, Children, ZombieChildren
<1> QED  BY <1>1, <1>3, <1>4

LEMMA MissedStep == ASSUME IInv, [Next]_vars PROVE NoMissedChild'
<1>1. Table /\ \A x \in Slot : ~MissedChild(x)
  BY DEF IInv, Table, NoMissedChild, MissedChild
<1>2. ASSUME Peaceful PROVE NoMissedChild'
  <2>1. \A x \in Slot : ~MissedChild(x)'
    BY <1>1, <1>2, UndisturbedMisses DEF Peaceful
  <2> QED  BY <2>1 DEF NoMissedChild, MissedChild
<1>3. ASSUME NEW c \in Cpu, Wait(c) \/ WaitReturn(c) PROVE NoMissedChild'
  <2>1. PICK p \in Slot : MayWait(c, p) /\ WaitLoop(c, p)
    BY <1>3, WaitEntered
  <2>2. CASE GivesUp(c, p) \/ \E q \in Slot : Frees(c, p, q)
    BY <1>1, <1>2, <2>1, <2>2, PeacefulWait
  <2>3. CASE Sleeps(c, p) /\ WaitSleeps(c, p)
    <3>1. \A x \in Slot \ {p} : ~MissedChild(x)'
      BY <1>1, <2>3, PeacefulSleeps, UndisturbedMisses
    <3>2. ~MissedChild(p)'
      <4>1. \A q \in Slot : state'[q] = "ZOMBIE" => state[q] = "ZOMBIE"
        BY <1>1, <2>3, PeacefulSleeps
      <4> QED  BY <2>3, <4>1 DEF WaitSleeps, MissedChild, Children, ZombieChildren
    <3> QED  BY <3>1, <3>2 DEF NoMissedChild, MissedChild
  <2> QED  BY <2>1, <2>2, <2>3, WaitLoopIs
<1>4. ASSUME NEW c \in Cpu, KernelStep(c) PROVE NoMissedChild'
  <2>1. CASE PanicSpin(c)
    BY <1>2, <2>1 DEF PanicSpin, vars, tableVars, Peaceful, Undisturbed
  <2>2. CASE SchedSwitch(c)
    BY <1>1, <1>2, <2>2, SchedSwitchSwitches, PeacefulSched
  <2>3. CASE \/ SchedAcquire(c) \/ SchedDone(c) \/ Sched(c) \/ Forkret(c) \/ YieldReturn(c)
             \/ SleepReturn(c) \/ YieldKilled(c) \/ Yield(c)
    BY <1>1, <1>2, <2>3, PeacefulSched
  <2>4. CASE \/ ForkStack(c) \/ ForkStackFails(c) \/ ForkCopy(c) \/ ForkCopyFails(c)
             \/ ForkRun(c)
    BY <1>1, <1>2, <2>4, PeacefulFork
  <2>5. CASE TrapKilled(c) \/ ExitPanic(c) \/ SleepRetest(c) \/ SleepOnTicks(c)
    BY <1>1, <1>2, <2>5, PeacefulCalls
  <2>6. CASE Exit(c)
    BY <1>1, <1>2, <2>6, PeacefulExit
  <2> QED  BY <1>3, <1>4, <2>1, <2>2, <2>3, <2>4, <2>5, <2>6 DEF KernelStep
<1>5. ASSUME NEW c \in Cpu, Syscall(c) PROVE NoMissedChild'
  <2>1. CASE ForkAlloc(c) \/ ForkFull(c)
    <3>1. ForkFull(c) \/ \E p, s \in Slot : \E k \in Pid : AllocSlot(c, p, s, k)
      BY <2>1 DEF ForkAlloc
    <3> QED  BY <1>1, <1>2, <3>1, PeacefulFork
  <2>2. CASE Kill(c) \/ SleepCall(c) \/ CallExit(c) \/ Fault(c)
    BY <1>1, <1>2, <2>2, PeacefulCalls
  <2> QED  BY <1>3, <1>5, <2>1, <2>2 DEF Syscall
<1>6. CASE Timer \/ TimerWakeup
  BY <1>1, <1>2, <1>6, PeacefulTimer
<1>7. CASE UNCHANGED vars
  BY <1>2, <1>7 DEF vars, tableVars, Peaceful, Undisturbed
<1> QED  BY <1>4, <1>5, <1>6, <1>7 DEF Next

(* IInv is inductive.                                                      *)
LEMMA NextStep == ASSUME IInv, [Next]_vars PROVE IInv'
<1>1. Table /\ (Table' /\ NoMissedChild' => IInv')
  BY DEF IInv, Table
<1> QED  BY <1>1, TableStep, MissedStep

(* The inductive invariant holds in every reachable state.                 *)
THEOREM Invariance == Spec => []IInv
  BY InitInv, NextStep, PTL DEF Spec

-----------------------------------------------------------------------------
(* A set of naturals has a least element: induction over the rounds of the *)
(* loops that the labs add to the scheduler.                               *)

LEMMA LeastElement ==
  ASSUME NEW T \in SUBSET Nat, T # {} PROVE \E n \in T : \A m \in T : n <= m
<1> DEFINE Below == {r \in Nat \X Nat : r[1] < r[2]}
<1>1. OpToRel(<, Nat) = Below
  BY DEF OpToRel
<1>2. IsWellFoundedOn(Below, Nat)
  BY <1>1, NatLessThanWellFounded, Zenon
<1> HIDE DEF Below
<1>3. PICK n \in T : \A m \in T : <<m, n>> \notin Below
  BY <1>2, WFMin
<1>4. ASSUME NEW m \in T PROVE n <= m
  <2>1. m \in Nat /\ n \in Nat /\ <<m, n>> \notin Below
    BY <1>3
  <2> QED  BY <2>1 DEF Below
<1> QED  BY <1>4

-----------------------------------------------------------------------------
(* The results.                                                            *)

(* Every variable of the process table keeps to its type, and no slot is   *)
(* given back with a parent in it.                                         *)
THEOREM TypeCorrect == Spec => []TypeOK
<1>1. IInv => TypeOK
  BY DEF IInv, TypeOK, Alive
<1> QED  BY <1>1, Invariance, PTL

(* Whatever the number of CPUs, no process is ever on two of them, and a   *)
(* process is RUNNING just when one of them has it.                        *)
THEOREM Exclusion == Spec => []OneCpuPerProc
<1>1. IInv => OneCpuPerProc
  BY DEF IInv
<1> QED  BY <1>1, Invariance, PTL

(* No kernel stack is freed under a CPU, or leaked by a failed fork().     *)
THEOREM StacksSafe == Spec => []StackSafe
<1>1. IInv => StackSafe
  BY DEF IInv
<1> QED  BY <1>1, Invariance, PTL

(* sched() never panics: what it checks on entry is always so.             *)
THEOREM SchedNeverPanics == Spec => []SchedEntry
<1>1. IInv => SchedEntry
  BY ConstFacts DEF IInv, Locking, Current, Types, SchedEntry
<1> QED  BY <1>1, Invariance, PTL

(* The tick that ends a sleep() is never missed: a tick cannot fall between *)
(* the test of ticks and the sleep, and the timer wakes who it is due for.  *)
THEOREM NoTickLost == Spec => []NoLostTick
<1>1. IInv => NoLostTick
  BY DEF IInv
<1> QED  BY <1>1, Invariance, PTL

(* Neither the exit nor the kill that a parent in wait() should see is     *)
(* ever missed.                                                            *)
THEOREM NoLostWakeup == Spec => []NoMissedChild
<1>1. IInv => NoMissedChild
  BY DEF IInv
<1> QED  BY <1>1, Invariance, PTL

(* Every process that has run has a parent that can still reap it.         *)
THEOREM ParentsStayLive == Spec => []ParentsLive
<1>1. IInv => ParentsLive
  BY DEF IInv
<1> QED  BY <1>1, Invariance, PTL
=============================================================================
