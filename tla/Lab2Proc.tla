------------------------------ MODULE Lab2Proc ------------------------------
(***************************************************************************)
(* The priority scheduler of xv6_lab2 (proc.c).  Everything else of Proc   *)
(* is as before, with a priority per slot beside it: 0 is the highest.     *)
(*                                                                         *)
(* When nothing is RUNNABLE the scheduler switches to slot 0, whatever its *)
(* state.  The Makefile of the lab runs one CPU.                           *)
(***************************************************************************)
EXTENDS Proc

CONSTANTS
  MaxPrior,       \* 31: the lowest priority
  DefaultPrior    \* 16: what allocproc() gives a slot

ASSUME PriorAssumption == MaxPrior \in Nat /\ DefaultPrior \in 0 .. MaxPrior

VARIABLES
  prior,      \* prior_val of each slot
  selected    \* selected_To_Run of each slot

labVars == <<prior, selected>>
varsLab == <<vars, labVars>>

Raise(n) == IF n > 0 THEN n - 1 ELSE 0                 \* a process that waits
Lower(n) == IF n < MaxPrior THEN n + 1 ELSE MaxPrior   \* a process that runs

-----------------------------------------------------------------------------
(* The loop of scheduler(): temp starts at slot 0, and the flag            *)
(* selected_To_Run, as the last pass has left it in each slot, tells temp  *)
(* from a slot that was chosen.                                            *)

ConsiderUnaged(a, p) ==                                \* mutant: the slot passed over does not age
  IF state[p] # "RUNNABLE" THEN a
  ELSE IF a.selected[a.temp] = a.selected[p]
    THEN [a EXCEPT !.selected[p] = 1, !.temp = p]
  ELSE IF a.prior[a.temp] > a.prior[p]
    THEN [temp |-> p,
          prior |-> a.prior,
          selected |-> [a.selected EXCEPT ![a.temp] = 0, ![p] = 1]]
  ELSE [a EXCEPT !.prior[p] = Raise(@)]

Consider(a, p) ==
  IF state[p] # "RUNNABLE" THEN a
  ELSE IF a.selected[a.temp] = a.selected[p]
    THEN [a EXCEPT !.selected[p] = 1, !.temp = p]
  ELSE IF a.prior[a.temp] > a.prior[p]
    THEN [temp |-> p,
          prior |-> [a.prior EXCEPT ![a.temp] = Raise(@)],
          selected |-> [a.selected EXCEPT ![a.temp] = 0, ![p] = 1]]
  ELSE [a EXCEPT !.prior[p] = Raise(@)]

Pass ==
  LET start == [temp |-> InitProc, prior |-> prior, selected |-> selected]
      loop[n \in 0 .. NPROC] == IF n = 0 THEN start ELSE Consider(loop[n - 1], n - 1)
  IN loop[NPROC]

LeaveFlag(f, p) == f                                   \* mutant: the flag stays set
ClearFlag(f, p) == [f EXCEPT ![p] = 0]

LabSwitch(c) ==
  /\ cpu[c] = "scan" /\ scan[c] = 0
  /\ LET pass == Pass IN
       /\ cpuProc' = [cpuProc EXCEPT ![c] = pass.temp]
       /\ state' = [state EXCEPT ![pass.temp] = "RUNNING"]
       /\ prior' = [pass.prior EXCEPT ![pass.temp] = Lower(@)]
       /\ selected' = ClearFlag(pass.selected, pass.temp)
  /\ scan' = [scan EXCEPT ![c] = NPROC]
  /\ cpu' = [cpu EXCEPT ![c] = "switch"]
  /\ UNCHANGED <<lock, tlock, pid, parent, chan, killed, kstack, threadVars, initChild>>

(* The process is done for now: the lock is released before the next pass. *)
LabDone(c) ==
  /\ cpu[c] = "scan" /\ scan[c] = NPROC
  /\ lock' = NoCpu
  /\ cpu' = [cpu EXCEPT ![c] = "idle"]
  /\ scan' = [scan EXCEPT ![c] = 0]
  /\ UNCHANGED <<tlock, tableVars, threadVars, cpuProc, initChild, labVars>>

-----------------------------------------------------------------------------
(* set_prior() clamps its argument, get_prior() reads; both then yield().  *)
(* Their two critical sections of ptable.lock are one step: between them   *)
(* only a tick, which makes the process yield too, could come.             *)

Clamp(n) == IF n > MaxPrior THEN MaxPrior ELSE IF n < 0 THEN 0 ELSE n

YieldCall(c, p) ==
  /\ AtUser(c, p) /\ ~killed[p] /\ p # InitProc
  /\ lock = NoCpu
  /\ EnterSched(c)
  /\ state' = [state EXCEPT ![p] = "RUNNABLE"]
  /\ resume' = [resume EXCEPT ![p] = "yield"]
  /\ UNCHANGED <<tlock, pid, parent, chan, killed, kstack, pc, child, sleepVars, cpuProc, scan,
                 initChild>>

SetPrior(c) == \E p \in Slot, n \in -1 .. MaxPrior + 1 :
  /\ YieldCall(c, p)
  /\ prior' = [prior EXCEPT ![p] = Clamp(n)]
  /\ UNCHANGED selected

GetPrior(c) == (\E p \in Slot : YieldCall(c, p)) /\ UNCHANGED labVars

(* allocproc() and fork() set the priority of the child: the default, then *)
(* the parent's.                                                           *)
LabForkAlloc(c) ==
  /\ ForkAlloc(c)
  /\ prior' = [prior EXCEPT ![child'[cpuProc[c]]] = DefaultPrior]
  /\ selected' = ClearFlag(selected, child'[cpuProc[c]])

LabForkCopy(c) ==
  /\ ForkCopy(c)
  /\ prior' = [prior EXCEPT ![child[cpuProc[c]]] = prior[cpuProc[c]]]
  /\ UNCHANGED selected

-----------------------------------------------------------------------------
InitLab ==
  /\ Init
  /\ prior = [s \in Slot |-> DefaultPrior]
  /\ selected = [s \in Slot |-> 0]

(* The steps of Proc that leave the priorities alone.                      *)
LockedKept(c) ==
  /\ \/ Sched(c) \/ Forkret(c) \/ YieldReturn(c) \/ WaitReturn(c) \/ SleepReturn(c)
     \/ YieldKilled(c) \/ Yield(c)
  /\ UNCHANGED labVars

CallKept(c) ==
  /\ \/ ForkStack(c) \/ ForkStackFails(c) \/ ForkCopyFails(c) \/ ForkRun(c)
     \/ TrapKilled(c) \/ ExitPanic(c) \/ PanicSpin(c) \/ Exit(c)
     \/ SleepRetest(c) \/ SleepOnTicks(c)
  /\ UNCHANGED labVars

SyscallKept(c) ==
  /\ ForkFull(c) \/ Wait(c) \/ Kill(c) \/ SleepCall(c) \/ CallExit(c) \/ Fault(c)
  /\ UNCHANGED labVars

TickKept == TimerTick /\ UNCHANGED labVars
WakeupKept == TimerWakeup /\ UNCHANGED labVars
AcquireKept(c) == SchedAcquire(c) /\ UNCHANGED labVars

LockedLab(c) == LabSwitch(c) \/ LabDone(c) \/ LockedKept(c)
CallLab(c) == LabForkCopy(c) \/ CallKept(c)
SyscallLab(c) == LabForkAlloc(c) \/ SyscallKept(c) \/ SetPrior(c) \/ GetPrior(c)

NextLab ==
  \/ \E c \in Cpu : AcquireKept(c) \/ LockedLab(c) \/ CallLab(c) \/ SyscallLab(c)
  \/ TickKept \/ WakeupKept

SpecLab == InitLab /\ [][NextLab]_varsLab

(* The fairness of Proc.                                                   *)
FairSpecLab ==
  /\ SpecLab
  /\ WF_varsLab(WakeupKept) /\ SF_varsLab(TickKept)
  /\ \A c \in Cpu :
       /\ WF_varsLab(LockedLab(c)) /\ SF_varsLab(AcquireKept(c))
       /\ SF_varsLab(cpuProc[c] = InitProc /\ SyscallLab(c))
       /\ \A p \in Slot : SF_varsLab(cpuProc[c] = p /\ CallLab(c))

-----------------------------------------------------------------------------
(* "always schedule the highest priority process": a process that gets the *)
(* CPU is a first best one of those that could run; if none could, it is   *)
(* init, which is then asleep in wait() and looks again.                   *)
Runnable == {p \in Slot : state[p] = "RUNNABLE"}
HighestFirst ==
  [][\A c \in Cpu, p \in Slot : cpuProc'[c] = p /\ cpuProc[c] = None =>
       \/ First(p, {q \in Runnable : \A r \in Runnable : prior[q] <= prior[r]})
       \/ Runnable = {} /\ p = InitProc /\ resume[p] = "wait"]_varsLab

(* Aging: while it waits for the CPU a process never loses priority, and   *)
(* every time another is taken before it it gains one, up to the highest.  *)
Aging ==
  [][\A c \in Cpu, p \in Slot : p \in Runnable /\ cpuProc[c] = None /\ cpuProc'[c] \in Slot \ {p} =>
       prior'[p] = Raise(prior[p])]_varsLab
=============================================================================
