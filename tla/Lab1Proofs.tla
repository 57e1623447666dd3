----------------------------- MODULE Lab1Proofs -----------------------------
(***************************************************************************)
(* The properties of lab 1, proved for any number of slots, pids and       *)
(* priorities.  What Lab1Proc takes over from Proc preserves Table by the  *)
(* lemmas of ProcProofs; its scheduler, its fork() and waitpid() are new   *)
(* cases of the same lemmas.                                               *)
(***************************************************************************)
EXTENDS Lab1Proc, ProcProofs

LEMMA LevelFacts ==
  /\ \A n \in Int : Lower(n) \in Int
  /\ \A n \in Int : Remainder(n) \in Int
  /\ NoPid \notin Pid \cup {0}
  /\ NPROC \in 0 .. NPROC /\ \A p, q \in Slot : p <= q /\ q <= p => p = q
  BY LevelsAssumption, NprocAssumption, PidAssumption DEF Lower, Remainder, Slot, NoPid, Pid

-----------------------------------------------------------------------------
(* The loop of scheduler(), after the first n slots.                       *)

Start == [temp |-> InitProc, first |-> TRUE]
Rounds(f, m) == f = [n \in 0 .. m |-> IF n = 0 THEN Start ELSE Consider(f[n - 1], n - 1)]
Loop == CHOOSE f : Rounds(f, NPROC)

LEMMA PassIsLoop == Pass = Loop[NPROC]
  BY DEF Pass, Loop, Rounds, Start

LEMMA RoundsGoOn ==
  ASSUME NEW m \in Nat, NEW f, Rounds(f, m) PROVE \E g : Rounds(g, m + 1)
<1> DEFINE last == Consider(f[m], m)
           g == [n \in 0 .. m + 1 |-> IF n = m + 1 THEN last ELSE f[n]]
<1> HIDE DEF last
<1>1. \A n \in 0 .. m : g[n] = f[n] /\ n \in 0 .. m + 1 /\ n # m + 1
  OBVIOUS
<1>2. ASSUME NEW n \in 0 .. m + 1
      PROVE  g[n] = IF n = 0 THEN Start ELSE Consider(g[n - 1], n - 1)
  <2>1. CASE n = m + 1
    <3>1. n # 0 /\ n - 1 = m /\ g[n] = last /\ g[m] = f[m]
      BY <2>1, <1>1
    <3> HIDE DEF g
    <3> QED  BY <3>1 DEF last
  <2>2. CASE n # m + 1
    <3>1. n \in 0 .. m /\ (n # 0 => n - 1 \in 0 .. m)
      BY <2>2
    <3>2. f[n] = IF n = 0 THEN Start ELSE Consider(f[n - 1], n - 1)
      BY <3>1 DEF Rounds
    <3>3. g[n] = f[n] /\ (n # 0 => g[n - 1] = f[n - 1])
      BY <1>1, <3>1
    <3> HIDE DEF g
    <3> QED  BY <3>2, <3>3
  <2> QED  BY <2>1, <2>2
<1>3. g = [n \in 0 .. m + 1 |-> g[n]]
  OBVIOUS
<1> HIDE DEF g
<1>4. Rounds(g, m + 1)
  BY <1>2, <1>3 DEF Rounds
<1> QED  BY <1>4

LEMMA LoopRounds == Rounds(Loop, NPROC)
<1> DEFINE Stuck == {m \in Nat : ~ \E f : Rounds(f, m)}
<1>1. Stuck = {}
  <2> SUFFICES ASSUME Stuck # {} PROVE FALSE
    OBVIOUS
  <2>1. PICK m \in Stuck : \A k \in Stuck : m <= k
    BY LeastElement
  <2>2. CASE m = 0
    <3> DEFINE f == [n \in 0 .. 0 |-> Start]
    <3>1. Rounds(f, 0)
      BY DEF Rounds
    <3> QED  BY <2>1, <2>2, <3>1
  <2>3. CASE m # 0
    <3>1. m \in Nat /\ m - 1 \in Nat /\ ~(m <= m - 1) /\ (m - 1) + 1 = m
      BY <2>3
    <3>2. m - 1 \notin Stuck
      BY <2>1, <3>1
    <3>3. \E f : Rounds(f, m - 1)
      BY <3>1, <3>2
    <3>4. \E g : Rounds(g, m)
      BY <3>1, <3>3, RoundsGoOn
    <3> QED  BY <3>4
  <2> QED  BY <2>2, <2>3
<1>2. \E f : Rounds(f, NPROC)
  BY <1>1, NprocAssumption
<1> QED  BY <1>2 DEF Loop

LEMMA LoopSteps ==
  /\ Loop[0] = Start
  /\ \A n \in Slot : Loop[n + 1] = Consider(Loop[n], n)
<1> DEFINE f == Loop
<1>1. f = [n \in 0 .. NPROC |-> IF n = 0 THEN Start ELSE Consider(f[n - 1], n - 1)]
  BY LoopRounds DEF Rounds
<1> HIDE DEF f
<1>2. f[0] = Start
  BY <1>1, NprocAssumption
<1>3. ASSUME NEW n \in Slot PROVE f[n + 1] = Consider(f[n], n)
  <2>1. n + 1 \in 0 .. NPROC /\ n + 1 # 0 /\ (n + 1) - 1 = n
    BY NprocAssumption DEF Slot
  <2>2. f[n + 1] = IF n + 1 = 0 THEN Start ELSE Consider(f[(n + 1) - 1], (n + 1) - 1)
    BY <1>1, <2>1
  <2> QED  BY <2>1, <2>2
<1> QED  BY <1>2, <1>3 DEF f

(* What it has found there: nothing, or the earliest of the best.          *)

Priorities == prior \in [Slot -> Int] /\ cpuProc \in [Cpu -> Slot \cup {None}]
Seen(n) == {q \in Runnable : q < n}
FirstBest(t, n) ==
  t \in Seen(n) /\ \A r \in Seen(n) : prior[t] < prior[r] \/ (prior[t] = prior[r] /\ t <= r)
Picked(t) == [temp |-> t, first |-> FALSE]
Found(a, n) ==
  IF Seen(n) = {} THEN a = Start ELSE \E t \in Slot : FirstBest(t, n) /\ a = Picked(t)

LEMMA SlotFacts ==
  /\ \A n \in Slot : n \in Int /\ n + 1 \in 0 .. NPROC /\ InitProc <= n
  /\ InitProc \in Slot /\ NPROC \in Nat /\ Slot \subseteq Nat
  /\ \A q \in Slot : q < NPROC
  BY NprocAssumption DEF Slot, InitProc

LEMMA SeenNext ==
  ASSUME NEW n \in Slot
  PROVE  /\ state[n] = "RUNNABLE" => Seen(n + 1) = Seen(n) \cup {n}
         /\ state[n] # "RUNNABLE" => Seen(n + 1) = Seen(n)
         /\ n \notin Seen(n) /\ Seen(n) \subseteq Slot /\ \A q \in Seen(n) : q < n
<1>1. \A q \in Slot : q < n + 1 <=> q < n \/ q = n
  BY SlotFacts
<1>2. ~(n < n)
  BY SlotFacts
<1>3. \A q : q \in Seen(n) <=> q \in Slot /\ state[q] = "RUNNABLE" /\ q < n
  BY DEF Seen, Runnable
<1>4. \A q : q \in Seen(n + 1) <=> q \in Slot /\ state[q] = "RUNNABLE" /\ q < n + 1
  BY DEF Seen, Runnable
<1> QED  BY <1>1, <1>2, <1>3, <1>4

LEMMA ConsiderStep ==
  ASSUME Priorities, NEW n \in Slot, NEW a, Found(a, n) PROVE Found(Consider(a, n), n + 1)
<1>0. \A s \in Slot : prior[s] \in Int /\ s \in Int
  BY SlotFacts DEF Priorities
<1>1. CASE state[n] # "RUNNABLE"
  <2>1. Consider(a, n) = a /\ Seen(n + 1) = Seen(n)
    BY <1>1, SeenNext DEF Consider
  <2> QED  BY <2>1 DEF Found, FirstBest
<1>2. CASE state[n] = "RUNNABLE" /\ Seen(n) = {}
  <2>1. a = Start /\ Seen(n + 1) = {n}
    BY <1>2, SeenNext DEF Found
  <2>2. Consider(a, n) = Picked(n)
    BY <1>2, <2>1 DEF Consider, Start, Picked
  <2>3. FirstBest(n, n + 1)
    BY <1>0, <2>1 DEF FirstBest
  <2> QED  BY <2>1, <2>2, <2>3 DEF Found
<1>3. CASE state[n] = "RUNNABLE" /\ Seen(n) # {}
  <2>1. PICK t \in Slot : FirstBest(t, n) /\ a = Picked(t)
    BY <1>3 DEF Found
  <2>2. /\ Seen(n + 1) = Seen(n) \cup {n} /\ n \notin Seen(n) /\ Seen(n) \subseteq Slot
        /\ t \in Seen(n) /\ t < n /\ t # n /\ \A q \in Seen(n) : q < n
    BY <1>3, <2>1, SeenNext DEF FirstBest
  <2>3. CASE prior[t] > prior[n]
    <3>1. Consider(a, n) = Picked(n)
      BY <1>3, <2>1, <2>3 DEF Consider, Picked
    <3>2. ASSUME NEW r \in Seen(n + 1)
          PROVE  prior[n] < prior[r] \/ (prior[n] = prior[r] /\ n <= r)
      <4>1. r = n \/ (r \in Seen(n) /\ prior[t] <= prior[r])
        BY <1>0, <2>1, <2>2 DEF FirstBest
      <4> QED  BY <1>0, <2>2, <2>3, <4>1
    <3>3. FirstBest(n, n + 1)
      BY <2>2, <3>2 DEF FirstBest
    <3> QED  BY <2>2, <3>1, <3>3 DEF Found
  <2>4. CASE ~(prior[t] > prior[n])
    <3>1. Consider(a, n) = a
      BY <1>3, <2>1, <2>4 DEF Consider, Picked
    <3>2. ASSUME NEW r \in Seen(n + 1)
          PROVE  prior[t] < prior[r] \/ (prior[t] = prior[r] /\ t <= r)
      <4>1. CASE r = n
        BY <1>0, <2>2, <2>4, <4>1
      <4>2. CASE r \in Seen(n)
        BY <2>1, <4>2 DEF FirstBest
      <4> QED  BY <2>2, <4>1, <4>2
    <3>3. FirstBest(t, n + 1)
      BY <2>2, <3>2 DEF FirstBest
    <3> QED  BY <2>1, <2>2, <3>1, <3>3 DEF Found
  <2> QED  BY <2>3, <2>4
<1> QED  BY <1>1, <1>2, <1>3

LEMMA LoopFinds == ASSUME Priorities, NEW n \in 0 .. NPROC PROVE Found(Loop[n], n)
<1> DEFINE Wrong == {m \in 0 .. NPROC : ~Found(Loop[m], m)}
<1> SUFFICES ASSUME Wrong # {} PROVE FALSE
  OBVIOUS
<1>1. PICK m \in Wrong : \A k \in Wrong : m <= k
  <2>1. Wrong \in SUBSET Nat
    BY NprocAssumption
  <2> HIDE DEF Wrong
  <2> QED  BY <2>1, LeastElement
<1>2. CASE m = 0
  <2>1. Seen(0) = {}
    <3>1. \A q \in Slot : ~(q < 0)
      BY NprocAssumption DEF Slot
    <3> QED  BY <3>1 DEF Seen, Runnable
  <2>2. Found(Loop[0], 0)
    BY <2>1, LoopSteps DEF Found
  <2> QED  BY <1>1, <1>2, <2>2
<1>3. CASE m # 0
  <2>1. m - 1 \in Slot /\ m - 1 \in 0 .. NPROC /\ (m - 1) + 1 = m /\ ~(m <= m - 1)
    BY <1>3, NprocAssumption DEF Slot
  <2>2. Found(Loop[m - 1], m - 1)
    BY <1>1, <2>1
  <2>3. Found(Loop[m], m)
    BY <2>1, <2>2, ConsiderStep, LoopSteps
  <2> QED  BY <1>1, <2>3
<1> QED  BY <1>2, <1>3

(* Whom the scheduler switches to.                                         *)
Chosen(t) == FirstBest(t, NPROC) \/ (Runnable = {} /\ t = InitProc)

LEMMA PassFinds ==
  ASSUME Priorities PROVE Pass.temp \in Slot /\ Chosen(Pass.temp) /\ Seen(NPROC) = Runnable
<1>1. Found(Pass, NPROC)
  BY PassIsLoop, LoopFinds, NprocAssumption
<1>2. Seen(NPROC) = Runnable
  BY SlotFacts DEF Seen, Runnable
<1>3. CASE Runnable = {}
  BY <1>1, <1>2, <1>3, SlotFacts DEF Found, Start, Chosen
<1>4. CASE Runnable # {}
  <2>1. PICK t \in Slot : FirstBest(t, NPROC) /\ Pass = Picked(t)
    BY <1>1, <1>2, <1>4 DEF Found
  <2> QED  BY <1>2, <2>1 DEF Picked, Chosen
<1> QED  BY <1>3, <1>4

-----------------------------------------------------------------------------
(* The scheduler's choice.  Nothing but the types of the priorities and of *)
(* who is on which CPU is needed, so it holds for any number of CPUs.      *)

LEMMA PrioritiesInit == InitLab => Priorities
  BY ConstFacts DEF InitLab, Init, Priorities

LEMMA PrioritiesKept == ASSUME NEW c \in Cpu, Kept(c) PROVE UNCHANGED prior /\
  (cpuProc' = cpuProc \/ cpuProc' = [cpuProc EXCEPT ![c] = None])
<1>1. CASE \/ SchedAcquire(c) \/ Sched(c) \/ Forkret(c) \/ YieldReturn(c)
           \/ SleepReturn(c) \/ YieldKilled(c) \/ Yield(c)
  BY <1>1 DEF Kept, SchedAcquire, Sched, Forkret, YieldReturn, SleepReturn, YieldKilled, Yield
<1>2. CASE WaitOnlyReturn(c) \/ Wait(c)
  <2>1. PICK p \in Slot : WaitLoop(c, p)
    BY <1>2 DEF WaitOnlyReturn, Wait, WaitReturn
  <2> QED  BY <2>1 DEF Kept, WaitLoop
<1>3. CASE ForkStack(c) \/ ForkStackFails(c) \/ ForkCopyFails(c) \/ ForkRun(c) \/ ForkFull(c)
  BY <1>3 DEF Kept, ForkStack, ForkStackFails, ForkCopyFails, ForkRun, ForkFull, cpuVars
<1>4. CASE TrapKilled(c) \/ ExitPanic(c) \/ PanicSpin(c) \/ Exit(c) \/ CallExit(c) \/ Fault(c)
  BY <1>4 DEF Kept, TrapKilled, ExitPanic, PanicSpin, Exit, CallExit, Fault, cpuVars, vars
<1>5. CASE SleepRetest(c) \/ SleepOnTicks(c) \/ Kill(c) \/ SleepCall(c)
  BY <1>5 DEF Kept, SleepRetest, SleepOnTicks, Kill, SleepCall, cpuVars
<1> QED  BY <1>1, <1>2, <1>3, <1>4, <1>5 DEF Kept

(* A CPU that gets a process gets the one the loop has found.              *)
Choosing ==
  /\ Priorities'
  /\ \A c \in Cpu, p \in Slot : cpuProc'[c] = p /\ cpuProc[c] = None => p = Pass.temp

LEMMA ChoiceStep ==
  ASSUME Priorities, [NextLab]_varsLab
  PROVE  Choosing
<1> USE ConstFacts, LevelFacts DEF Priorities, Choosing
<1>1. ASSUME NEW c \in Cpu, UNCHANGED prior,
             cpuProc' = cpuProc \/ cpuProc' = [cpuProc EXCEPT ![c] = None]
      PROVE  Choosing
  BY <1>1
<1>2. ASSUME NEW c \in Cpu, Kept(c) PROVE Choosing
  BY <1>1, <1>2, PrioritiesKept
<1>3. ASSUME NEW c \in Cpu, LabSwitch(c) PROVE Choosing
  <2> DEFINE p == Pass.temp
  <2>1. /\ p \in Slot /\ cpuProc' = [cpuProc EXCEPT ![c] = p]
        /\ prior' = [prior EXCEPT ![p] = Lower(@)]
    BY <1>3, PassFinds DEF LabSwitch
  <2>2. p = Pass.temp
    OBVIOUS
  <2> HIDE DEF p
  <2> QED  BY <2>1, <2>2
<1>4. ASSUME NEW c \in Cpu, LabForkAlloc(c) PROVE Choosing
  BY <1>4 DEF LabForkAlloc, AllocSlot, cpuVars
<1>5. ASSUME NEW c \in Cpu, LabForkCopy(c) PROVE Choosing
  BY <1>5 DEF LabForkCopy, ForkCopy, At, cpuVars
<1>6. ASSUME NEW c \in Cpu, SetPrior(c) PROVE Choosing
  <2>1. PICK p \in Slot, n \in -Levels .. Levels :
          cpuProc' = cpuProc /\ prior' = [prior EXCEPT ![p] = Remainder(n)]
    BY <1>6 DEF SetPrior
  <2>2. n \in Int
    BY LevelsAssumption
  <2> QED  BY <2>1, <2>2
<1>7. ASSUME NEW c \in Cpu, LabDone(c) \/ Waitpid(c) \/ WaitpidReturn(c) PROVE Choosing
  BY <1>1, <1>7 DEF LabDone, Waitpid, WaitpidReturn, WaitpidLoop
<1>8. ASSUME (Timer \/ TimerWakeup) /\ UNCHANGED <<prior, waitFor>> PROVE Choosing
  BY <1>1, <1>8 DEF Timer, TimerTick, TimerOther, TimerWakeup
<1>9. ASSUME UNCHANGED varsLab PROVE Choosing
  BY <1>1, <1>9 DEF varsLab, vars, cpuVars
<1> QED  BY ONLY [NextLab]_varsLab, <1>2, <1>3, <1>4, <1>5, <1>6, <1>7, <1>8, <1>9 DEF NextLab

LEMMA ChosenIsBest ==
  ASSUME Priorities, NEW p \in Slot, p = Pass.temp
  PROVE  \/ First(p, {q \in Runnable : \A r \in Runnable : prior[q] <= prior[r]})
         \/ Runnable = {} /\ p = InitProc
<1>1. Seen(NPROC) = Runnable /\ Runnable \subseteq Slot /\ Chosen(p)
  BY PassFinds DEF Runnable
<1>2. CASE FirstBest(p, NPROC)
  <2>1. \A q \in Slot : prior[q] \in Int /\ q \in Int
    BY SlotFacts DEF Priorities
  <2>2. /\ p \in Runnable
        /\ \A r \in Runnable : prior[p] < prior[r] \/ (prior[p] = prior[r] /\ p <= r)
    BY <1>1, <1>2 DEF FirstBest
  <2>3. \A r \in Runnable : prior[p] <= prior[r]
    BY <1>1, <2>1, <2>2
  <2>4. ASSUME NEW q \in Runnable, prior[q] <= prior[p] PROVE p <= q
    BY <1>1, <2>1, <2>2, <2>4
  <2> QED  BY <2>2, <2>3, <2>4 DEF First
<1> QED  BY <1>1, <1>2 DEF Chosen

LEMMA PrioritiesHold == SpecLab => []Priorities
<1>1. Priorities /\ [NextLab]_varsLab => Priorities'
  BY ChoiceStep DEF Choosing
<1> QED  BY <1>1, PrioritiesInit, PTL DEF SpecLab

(* With any number of CPUs, a CPU always goes to a process of the lowest   *)
(* prior_val, the earliest among equals; with none that can run, to init.  *)
THEOREM BestIsChosen == SpecLab => BestChosen
<1>1. Priorities /\ [NextLab]_varsLab =>
        [\A c \in Cpu, p \in Slot : cpuProc'[c] = p /\ cpuProc[c] = None =>
           \/ First(p, {q \in Runnable : \A r \in Runnable : prior[q] <= prior[r]})
           \/ Runnable = {} /\ p = InitProc]_varsLab
  BY ChoiceStep, ChosenIsBest DEF Choosing
<1> QED  BY <1>1, PrioritiesHold, PTL DEF SpecLab, BestChosen

-----------------------------------------------------------------------------
(* Asleep in waitpid().  waitFor says who is in waitpid(): from the first  *)
(* sleep to the return the process is off its CPU or back at the loop; and *)
(* who goes on with its own code has left sched() for good.                *)

WaitingFor ==
  /\ waitFor \in [Slot -> Pid \cup {0, NoPid}]
  /\ \A s \in Slot : waitFor[s] # NoPid =>
       /\ s # InitProc /\ chan[s] = s /\ resume[s] = "wait"
       /\ state[s] \in {"SLEEPING", "RUNNABLE", "RUNNING"}

Onward ==
  \A c \in Cpu : cpu[c] \in {"run", "yield", "wakeup"} /\ cpuProc[c] # None =>
    resume[cpuProc[c]] = "none"

Asking == Table /\ WaitingFor /\ Onward

(* What a sleeper in wait() or waitpid() may rely on.                      *)
SeesAll(x) == state[x] = "SLEEPING" /\ chan[x] = x =>
  /\ ~killed[x]
  /\ IF waitFor[x] = NoPid THEN Children(x) # {} /\ ZombieChildren(x) = {}
     ELSE \A q \in Slot : pid[q] = waitFor[x] /\ parent[q] = x => state[q] # "ZOMBIE"

LabInv == Asking /\ \A x \in Slot : SeesAll(x)

(* With nothing RUNNABLE the scheduler takes slot 0: no other CPU may be   *)
(* running it.                                                             *)
IdleAlone ==
  \A c, d \in Cpu : cpu[c] = "scan" /\ scan[c] = 0 /\ Runnable = {} => cpuProc[d] # InitProc

LEMMA LabInit == InitLab => LabInv
<1> SUFFICES ASSUME InitLab PROVE LabInv
  OBVIOUS
<1>1. Table
  BY InitInv DEF InitLab, IInv, Table
<1>2. WaitingFor /\ Onward /\ \A x \in Slot : SeesAll(x)
  BY ConstFacts DEF InitLab, Init, WaitingFor, Onward, SeesAll
<1> QED  BY <1>1, <1>2 DEF LabInv, Asking

LEMMA UndisturbedSees ==
  ASSUME NEW x \in Slot, SeesAll(x), Undisturbed(x), waitFor'[x] = waitFor[x] PROVE SeesAll(x)'
<1> SUFFICES ASSUME state'[x] = "SLEEPING", chan'[x] = x
             PROVE  SeesAll(x)'
  BY DEF SeesAll
<1>1. state[x] = "SLEEPING" /\ chan[x] = x /\ ~killed[x] /\ ~killed'[x]
  BY DEF SeesAll, Undisturbed
<1>2. CASE waitFor[x] = NoPid
  <2>1. ~MissedChild(x)
    BY <1>1, <1>2 DEF SeesAll, MissedChild
  <2>2. ~MissedChild(x)'
    BY <2>1, UndisturbedMisses
  <2> QED  BY <1>1, <1>2, <2>2 DEF SeesAll, MissedChild
<1>3. CASE waitFor[x] # NoPid
  BY <1>1, <1>3 DEF SeesAll, Undisturbed
<1> QED  BY <1>2, <1>3

(* Steps of the scheduler, of switches and of yield().                     *)
LEMMA AskingSched ==
  ASSUME Asking, UNCHANGED waitFor, NEW c \in Cpu,
         \/ SchedAcquire(c) \/ SchedDone(c) \/ Sched(c) \/ Forkret(c) \/ YieldReturn(c)
         \/ SleepReturn(c) \/ YieldKilled(c) \/ Yield(c) \/ \E p \in Slot : Yields(c, p)
         \/ \E p \in Slot : \E n \in 0 .. NPROC : Switches(c, p, n)
  PROVE  WaitingFor' /\ Onward'
<1> USE ConstFacts DEF Asking, Table, Types, tableVars, threadVars
<1>1. CASE SchedAcquire(c) \/ SchedDone(c) \/ Sched(c) \/ YieldKilled(c)
  BY <1>1 DEF SchedAcquire, SchedDone, Sched, YieldKilled, WaitingFor, Onward
<1>2. CASE Forkret(c) \/ YieldReturn(c) \/ SleepReturn(c)
  <2>1. WaitingFor'
    BY <1>2 DEF Forkret, YieldReturn, SleepReturn, WaitingFor
  <2>2. Onward'
    BY <1>2 DEF Forkret, YieldReturn, SleepReturn, ReleaseTable, Onward
  <2> QED  BY <2>1, <2>2
<1>3. CASE Yield(c) \/ \E p \in Slot : Yields(c, p)
  <2>1. PICK p \in Slot : Yields(c, p)
    BY <1>3 DEF Yield, Yields
  <2>2. resume[p] = "none"
    BY <2>1 DEF Yields, Onward
  <2>3. WaitingFor'
    BY <2>1, <2>2 DEF Yields, WaitingFor
  <2>4. Onward'
    BY <2>1 DEF Yields, EnterSched, Onward, OneCpuPerProc
  <2> QED  BY <2>3, <2>4
<1>4. CASE \E p \in Slot : \E n \in 0 .. NPROC : Switches(c, p, n)
  <2>1. WaitingFor'
    BY <1>4 DEF Switches, WaitingFor
  <2>2. Onward'
    BY <1>4 DEF Switches, Onward
  <2> QED  BY <2>1, <2>2
<1> QED  BY <1>1, <1>2, <1>3, <1>4

(* fork() touches only the slot it fills, which is not in waitpid().       *)
LEMMA AskingFork ==
  ASSUME Asking, UNCHANGED waitFor, NEW c \in Cpu,
         \/ \E p, s \in Slot : \E k \in Pid : AllocSlot(c, p, s, k)
         \/ ForkFull(c) \/ ForkStack(c) \/ ForkStackFails(c) \/ ForkCopy(c) \/ ForkCopyFails(c)
         \/ ForkRun(c)
  PROVE  WaitingFor' /\ Onward'
<1> USE ConstFacts DEF Asking, Table, Types, tableVars, cpuVars, At
<1>1. CASE \E p, s \in Slot : \E k \in Pid : AllocSlot(c, p, s, k)
  BY <1>1 DEF AllocSlot, First, WaitingFor, Onward
<1>2. CASE ForkFull(c)
  BY <1>2 DEF ForkFull, WaitingFor, Onward
<1>3. CASE ForkStack(c)
  <2>1. WaitingFor'
    BY <1>3 DEF ForkStack, WaitingFor, Forking, Forkers
  <2>2. Onward'
    BY <1>3 DEF ForkStack, Onward, Forking, Forkers, OneCpuPerProc
  <2> QED  BY <2>1, <2>2
<1>4. CASE ForkStackFails(c) \/ ForkRun(c)
  <2>1. WaitingFor'
    BY <1>4 DEF ForkStackFails, ForkRun, WaitingFor, Forking, Forkers
  <2>2. Onward'
    BY <1>4 DEF ForkStackFails, ForkRun, Onward
  <2> QED  BY <2>1, <2>2
<1>5. CASE ForkCopyFails(c)
  <2>1. WaitingFor'
    BY <1>5 DEF ForkCopyFails, WaitingFor, Forking, Forkers
  <2>2. Onward'
    BY <1>5 DEF ForkCopyFails, Onward
  <2> QED  BY <2>1, <2>2
<1>6. CASE ForkCopy(c)
  BY <1>6 DEF ForkCopy, WaitingFor, Onward
<1> QED  BY <1>1, <1>2, <1>3, <1>4, <1>5, <1>6

(* exit(), kill(), sleep() and the timer.                                  *)
LEMMA AskingCalls ==
  ASSUME Asking, UNCHANGED waitFor, NEW c \in Cpu,
         \/ CallExit(c) \/ Fault(c) \/ TrapKilled(c) \/ ExitPanic(c) \/ Exit(c) \/ Kill(c)
         \/ SleepCall(c) \/ SleepRetest(c) \/ SleepOnTicks(c)
  PROVE  WaitingFor' /\ Onward'
<1> USE ConstFacts DEF Asking, Table, Types, tableVars, cpuVars
<1>1. CASE CallExit(c) \/ TrapKilled(c) \/ Fault(c) \/ SleepCall(c) \/ SleepRetest(c)
  BY <1>1 DEF CallExit, TrapKilled, Fault, SleepCall, SleepRetest, WaitingFor, Onward
<1>2. CASE ExitPanic(c)
  BY <1>2 DEF ExitPanic, threadVars, WaitingFor, Onward
<1>3. CASE Exit(c)
  <2>1. WaitingFor'
    BY <1>3 DEF Exit, At, Wakeup1, threadVars, WaitingFor, Onward
  <2>2. Onward'
    BY <1>3 DEF Exit, EnterSched, threadVars, Onward
  <2> QED  BY <2>1, <2>2
<1>4. CASE Kill(c)
  BY <1>4 DEF Kill, Roused, WaitingFor, Onward
<1>5. CASE SleepOnTicks(c)
  <2>1. WaitingFor'
    BY <1>5 DEF SleepOnTicks, At, WaitingFor, Onward
  <2>2. Onward'
    BY <1>5 DEF SleepOnTicks, At, EnterSched, Onward, OneCpuPerProc
  <2> QED  BY <2>1, <2>2
<1> QED  BY <1>1, <1>2, <1>3, <1>4, <1>5

LEMMA AskingTimer ==
  ASSUME Asking, UNCHANGED waitFor, Timer \/ TimerWakeup PROVE WaitingFor' /\ Onward'
<1> USE ConstFacts DEF Asking, Table, Types, tableVars, threadVars
<1>1. CASE TimerTick
  BY <1>1 DEF TimerTick, Interruptible, Current, WaitingFor, Onward
<1>2. CASE \E c \in Cpu : TimerOther(c)
  BY <1>2 DEF TimerOther, Interruptible, Current, WaitingFor, Onward
<1>3. CASE TimerWakeup
  BY <1>3 DEF TimerWakeup, Wakeup1, Asleep, WaitingFor, Onward
<1> QED  BY <1>1, <1>2, <1>3 DEF Timer

(* wait() and waitpid() leave the loop: the caller is in neither now.      *)
Leaves(c, p) ==
  /\ GivesUp(c, p) \/ \E q \in Slot : Frees(c, p, q)
  /\ waitFor' = [waitFor EXCEPT ![p] = NoPid]
  /\ UNCHANGED <<tlock, child, sleepVars, cpuProc, scan>>

(* They look at the table and sleep: for children of p, or for the pid k.  *)
LooksAndSleeps(c, p) ==
  /\ Sleeps(c, p) /\ ~killed[p]
  /\ waitFor' = [waitFor EXCEPT ![p] = waitFor'[p]] /\ waitFor'[p] \in Pid \cup {0, NoPid}
  /\ waitFor'[p] # NoPid => p # InitProc
  /\ IF waitFor'[p] = NoPid THEN Children(p) # {} /\ ZombieChildren(p) = {}
     ELSE \A q \in Slot : pid[q] = waitFor'[p] => state[q] # "ZOMBIE"
  /\ UNCHANGED <<tlock, child, sleepVars, cpuProc, scan>>

LEMMA LeavesStep ==
  ASSUME LabInv, NEW c \in Cpu, NEW p \in Slot, MayWait(c, p), Leaves(c, p) PROVE LabInv'
<1>1. Table /\ WaitingFor /\ Onward
  BY DEF LabInv, Asking
<1> USE ConstFacts DEF Table, sleepVars, Types, Leaves
<1>2. Table'
  BY <1>1, FreesStep, GivesUpStep
<1>3. state[p] = "RUNNING" /\ \A d \in Cpu : cpuProc[d] = p => d = c
  BY <1>1 DEF MayWait, OneCpuPerProc
<1>4. WaitingFor'
  BY <1>1, <1>3 DEF GivesUp, Frees, WaitingFor
<1>5. Onward'
  BY <1>1 DEF GivesUp, Frees, ReleaseTable, MayWait, Onward
<1>6. ASSUME NEW x \in Slot PROVE SeesAll(x)'
  <2>1. CASE x = p
    BY <1>1, <1>3, <2>1 DEF GivesUp, Frees, SeesAll
  <2>2. CASE x # p
    <3>1. Undisturbed(x) /\ waitFor'[x] = waitFor[x]
      BY <1>1, <2>2, PeacefulWait DEF Peaceful, WaitingFor
    <3> QED  BY <3>1, UndisturbedSees DEF LabInv
  <2> QED  BY <2>1, <2>2
<1> QED  BY <1>2, <1>4, <1>5, <1>6 DEF LabInv, Asking

LEMMA LooksAndSleepsStep ==
  ASSUME LabInv, NEW c \in Cpu, NEW p \in Slot, MayWait(c, p), LooksAndSleeps(c, p)
  PROVE  LabInv'
<1>1. Table /\ WaitingFor /\ Onward
  BY DEF LabInv, Asking
<1> USE ConstFacts DEF Table, sleepVars, Types, LooksAndSleeps
<1>2. Table'
  BY <1>1, SleepsStep
<1>3. state[p] = "RUNNING" /\ \A d \in Cpu : cpuProc[d] = p => d = c
  BY <1>1 DEF MayWait, OneCpuPerProc
<1>4. WaitingFor'
  BY <1>1, <1>3 DEF Sleeps, WaitingFor
<1>5. Onward'
  BY <1>1, <1>3 DEF Sleeps, EnterSched, MayWait, Onward
<1>6. ASSUME NEW x \in Slot PROVE SeesAll(x)'
  <2>1. CASE x = p
    <3>1. \A q \in Slot : state'[q] = "ZOMBIE" => state[q] = "ZOMBIE"
      BY <1>1, PeacefulSleeps
    <3> QED  BY <2>1, <3>1 DEF Sleeps, SeesAll, Children, ZombieChildren
  <2>2. CASE x # p
    <3>1. Undisturbed(x) /\ waitFor'[x] = waitFor[x]
      BY <1>1, <2>2, PeacefulSleeps DEF WaitingFor
    <3> QED  BY <3>1, UndisturbedSees DEF LabInv
  <2> QED  BY <2>1, <2>2
<1> QED  BY <1>2, <1>4, <1>5, <1>6 DEF LabInv, Asking

(* wait() as it was, and waitpid().                                        *)
LEMMA WaitingStep ==
  ASSUME LabInv, NEW c \in Cpu, (Wait(c) \/ WaitOnlyReturn(c)) /\ UNCHANGED waitFor PROVE LabInv'
<1>1. Table /\ WaitingFor /\ Onward
  BY DEF LabInv, Asking
<1>2. PICK p \in Slot : MayWait(c, p) /\ WaitLoop(c, p) /\ waitFor[p] = NoPid
  <2>1. CASE Wait(c)
    <3>1. PICK p \in Slot : AtUser(c, p) /\ lock = NoCpu /\ WaitLoop(c, p)
      BY <2>1 DEF Wait
    <3>2. resume[p] = "none"
      BY <1>1, <3>1, ConstFacts DEF AtUser, Onward
    <3>3. waitFor[p] = NoPid
      BY <1>1, <3>2 DEF WaitingFor
    <3>4. MayWait(c, p)
      BY <3>1, Zenon DEF AtUser, MayWait
    <3> QED  BY <3>1, <3>3, <3>4
  <2>2. CASE WaitOnlyReturn(c)
    BY <2>2 DEF WaitOnlyReturn, WaitReturn, MayWait
  <2> QED  BY <2>1, <2>2
<1>3. waitFor' = [waitFor EXCEPT ![p] = NoPid] /\ waitFor'[p] = NoPid
  BY <1>1, <1>2 DEF WaitingFor
<1>4. CASE GivesUp(c, p) \/ \E q \in Slot : Frees(c, p, q)
  BY <1>2, <1>3, <1>4, WaitLoopIs, LeavesStep DEF Leaves
<1>5. CASE Sleeps(c, p) /\ WaitSleeps(c, p)
  <2>1. LooksAndSleeps(c, p)
    BY <1>2, <1>3, <1>5, WaitLoopIs DEF LooksAndSleeps, WaitSleeps
  <2> QED  BY <1>2, <2>1, LooksAndSleepsStep
<1> QED  BY <1>2, <1>4, <1>5, WaitLoopIs

LEMMA WaitpidStep ==
  ASSUME LabInv, NEW c \in Cpu, Waitpid(c) \/ WaitpidReturn(c) PROVE LabInv'
<1>1. Table /\ WaitingFor /\ Onward
  BY DEF LabInv, Asking
<1>2. PICK p \in Slot \ {InitProc}, k \in Pid \cup {0} : MayWait(c, p) /\ WaitpidLoop(c, p, k)
  <2>1. CASE Waitpid(c)
    BY <2>1, Zenon DEF Waitpid, AtUser, MayWait
  <2>2. CASE WaitpidReturn(c)
    <3>1. PICK p \in Slot : /\ p = cpuProc[c] /\ cpu[c] = "switch" /\ waitFor[p] # NoPid
                            /\ WaitpidLoop(c, p, waitFor[p])
      BY <2>2 DEF WaitpidReturn
    <3>2. p # InitProc /\ waitFor[p] \in Pid \cup {0}
      BY <1>1, <3>1 DEF WaitingFor
    <3>3. MayWait(c, p)
      BY <3>1 DEF MayWait
    <3> QED  BY <3>1, <3>2, <3>3
  <2> QED  BY <2>1, <2>2
<1>3. UNCHANGED <<tlock, child, sleepVars, cpuProc, scan, initChild>>
  BY <1>2 DEF WaitpidLoop
<1>4. CASE ReapPid(c, p, k)
  <2>1. \E q \in Slot : Frees(c, p, q)
    BY <1>3, <1>4 DEF ReapPid, Frees, First, Zombies
  <2> QED  BY <1>2, <1>3, <1>4, <2>1, LeavesStep DEF Leaves, ReapPid
<1>5. CASE WaitpidFails(c, p, k)
  <2>1. GivesUp(c, p)
    BY <1>3, <1>5 DEF WaitpidFails, GivesUp
  <2> QED  BY <1>2, <1>3, <1>5, <2>1, LeavesStep DEF Leaves, WaitpidFails
<1>6. CASE WaitpidSleeps(c, p, k)
  <2>1. waitFor' = [waitFor EXCEPT ![p] = k] /\ waitFor'[p] = k /\ k # NoPid
    BY <1>1, <1>6, LevelFacts DEF WaitpidSleeps, WaitingFor
  <2>2. \A q \in Slot : pid[q] = k => state[q] # "ZOMBIE"
    BY <1>6 DEF WaitpidSleeps, Zombies, KillTarget
  <2>3. LooksAndSleeps(c, p)
    BY <1>2, <1>3, <1>6, <2>1, <2>2 DEF LooksAndSleeps, WaitpidSleeps, Sleeps
  <2> QED  BY <1>2, <2>3, LooksAndSleepsStep
<1> QED  BY <1>2, <1>4, <1>5, <1>6 DEF WaitpidLoop

-----------------------------------------------------------------------------
(* Every step.  The scheduler switches to the best process, or to init     *)
(* asleep; its last step finds nothing beyond the table, as Proc's does.   *)

LEMMA LabSwitchSwitches ==
  ASSUME LabInv, IdleAlone, Priorities, NEW c \in Cpu, LabSwitch(c)
  PROVE  \E p \in Slot : Switches(c, p, NPROC)
<1>1. PICK p \in Slot : p = Pass.temp /\ Chosen(p)
  BY PassFinds
<1>2. state[p] \in {"RUNNABLE", "SLEEPING"}
  <2>1. CASE FirstBest(p, NPROC)
    BY <2>1 DEF FirstBest, Seen, Runnable
  <2>2. CASE Runnable = {} /\ p = InitProc
    <3>1. Table /\ state[p] # "RUNNABLE"
      BY <2>2 DEF LabInv, Asking, Runnable
    <3>2. \A d \in Cpu : cpuProc[d] # p
      BY <2>2 DEF LabSwitch, IdleAlone
    <3>3. state[p] \in ProcState /\ state[p] # "RUNNING"
      BY <3>1, <3>2 DEF Table, Types, OneCpuPerProc
    <3> QED  BY <2>2, <3>1, <3>3 DEF Table, Alive, ProcState
  <2> QED  BY <1>1, <2>1, <2>2 DEF Chosen
<1> QED  BY <1>1, <1>2 DEF LabSwitch, Switches

LEMMA LabDoneIsDone == ASSUME NEW c \in Cpu, LabDone(c) PROVE SchedDone(c)
<1>1. Candidates(c) = {}
  BY NprocAssumption DEF LabDone, Candidates, Slot
<1> QED  BY <1>1 DEF LabDone, SchedDone

LEMMA SetPriorYields ==
  ASSUME NEW c \in Cpu, SetPrior(c) PROVE (\E p \in Slot : Yields(c, p)) /\ UNCHANGED waitFor
<1>1. PICK p \in Slot : /\ AtUser(c, p) /\ lock = NoCpu /\ EnterSched(c)
                        /\ state' = [state EXCEPT ![p] = "RUNNABLE"]
                        /\ resume' = [resume EXCEPT ![p] = "yield"]
                        /\ UNCHANGED <<tlock, pid, parent, chan, killed, kstack, pc, child,
                                       sleepVars, cpuProc, scan, initChild, waitFor>>
  BY DEF SetPrior
<1>2. p = cpuProc[c] /\ cpu[c] = "run" /\ pc[p] = "user"
  BY <1>1, Zenon DEF AtUser
<1>3. Yields(c, p)
  BY <1>1, <1>2 DEF Yields
<1> QED  BY <1>1, <1>3

(* A step that leaves everybody in peace and keeps waitFor.                *)
LEMMA QuietStep ==
  ASSUME LabInv, UNCHANGED waitFor, Table', WaitingFor', Onward', Peaceful PROVE LabInv'
<1>1. ASSUME NEW x \in Slot PROVE SeesAll(x)'
  BY UndisturbedSees DEF LabInv, Peaceful
<1> QED  BY <1>1 DEF LabInv, Asking

LEMMA LabScheduling ==
  ASSUME LabInv, UNCHANGED waitFor, NEW c \in Cpu,
         \/ SchedAcquire(c) \/ SchedDone(c) \/ Sched(c) \/ Forkret(c) \/ YieldReturn(c)
         \/ SleepReturn(c) \/ YieldKilled(c) \/ Yield(c) \/ \E p \in Slot : Yields(c, p)
         \/ \E p \in Slot : \E n \in 0 .. NPROC : Switches(c, p, n)
  PROVE  LabInv'
<1>1. Table /\ Asking
  BY DEF LabInv, Asking
<1>2. Table'
  BY <1>1, SchedAcquireStep, SchedDoneStep, SchedStep, ForkretStep, YieldReturnStep,
     SleepReturnStep, YieldKilledStep, YieldStep, YieldsStep, SwitchesStep
<1>3. WaitingFor' /\ Onward'
  BY <1>1, AskingSched
<1>4. Peaceful
  BY <1>1, PeacefulSched
<1> QED  BY <1>2, <1>3, <1>4, QuietStep

LEMMA LabForking ==
  ASSUME LabInv, UNCHANGED waitFor, NEW c \in Cpu,
         \/ \E p, s \in Slot : \E k \in Pid : AllocSlot(c, p, s, k)
         \/ ForkFull(c) \/ ForkStack(c) \/ ForkStackFails(c) \/ ForkCopy(c) \/ ForkCopyFails(c)
         \/ ForkRun(c)
  PROVE  LabInv'
<1>1. Table /\ Asking
  BY DEF LabInv, Asking
<1>2. Table'
  BY <1>1, AllocSlotStep, ForkFullStep, ForkStackStep, ForkStackFailsStep, ForkCopyStep,
     ForkCopyFailsStep, ForkRunStep
<1>3. WaitingFor' /\ Onward'
  BY <1>1, AskingFork
<1>4. Peaceful
  BY <1>1, PeacefulFork
<1> QED  BY <1>2, <1>3, <1>4, QuietStep

LEMMA LabCalling ==
  ASSUME LabInv, UNCHANGED waitFor, NEW c \in Cpu,
         \/ CallExit(c) \/ Fault(c) \/ TrapKilled(c) \/ ExitPanic(c) \/ Exit(c) \/ Kill(c)
         \/ SleepCall(c) \/ SleepRetest(c) \/ SleepOnTicks(c)
  PROVE  LabInv'
<1>1. Table /\ Asking
  BY DEF LabInv, Asking
<1>2. Table'
  BY <1>1, CallExitStep, FaultStep, TrapKilledStep, ExitPanicStep, ExitStep, KillStep,
     SleepCallStep, SleepRetestStep, SleepOnTicksStep
<1>3. WaitingFor' /\ Onward'
  BY <1>1, AskingCalls
<1>4. Peaceful
  BY <1>1, PeacefulCalls, PeacefulExit
<1> QED  BY <1>2, <1>3, <1>4, QuietStep

LEMMA LabTicking ==
  ASSUME LabInv, UNCHANGED waitFor, Timer \/ TimerWakeup PROVE LabInv'
<1>1. Table /\ Asking
  BY DEF LabInv, Asking
<1>2. Table'
  BY <1>1, TimerTickStep, TimerOtherStep, TimerWakeupStep DEF Timer
<1> QED  BY <1>1, <1>2, AskingTimer, PeacefulTimer, QuietStep

LEMMA LabStutters == ASSUME LabInv, UNCHANGED <<vars, waitFor>> PROVE LabInv'
<1>1. Table
  BY DEF LabInv, Asking
<1>2. Table'
  BY <1>1, StutterStep
<1>3. WaitingFor' /\ Onward' /\ Peaceful
  BY DEF LabInv, Asking, WaitingFor, Onward, Peaceful, Undisturbed, vars, tableVars, threadVars,
     cpuVars
<1> QED  BY <1>2, <1>3, QuietStep

LEMMA LabStep == ASSUME LabInv, IdleAlone, Priorities, [NextLab]_varsLab PROVE LabInv'
<1>1. ASSUME NEW c \in Cpu, Kept(c) PROVE LabInv'
  <2>1. UNCHANGED waitFor
    BY <1>1 DEF Kept
  <2>2. CASE \/ SchedAcquire(c) \/ Sched(c) \/ Forkret(c) \/ YieldReturn(c)
             \/ SleepReturn(c) \/ YieldKilled(c) \/ Yield(c)
    BY <2>1, <2>2, LabScheduling
  <2>3. CASE ForkStack(c) \/ ForkStackFails(c) \/ ForkCopyFails(c) \/ ForkRun(c) \/ ForkFull(c)
    BY <2>1, <2>3, LabForking
  <2>4. CASE \/ CallExit(c) \/ Fault(c) \/ TrapKilled(c) \/ ExitPanic(c) \/ Exit(c) \/ Kill(c)
             \/ SleepCall(c) \/ SleepRetest(c) \/ SleepOnTicks(c)
    BY <2>1, <2>4, LabCalling
  <2>5. CASE Wait(c) \/ WaitOnlyReturn(c)
    BY <2>1, <2>5, WaitingStep
  <2>6. CASE PanicSpin(c)
    BY <2>1, <2>6, LabStutters DEF PanicSpin
  <2> QED  BY <1>1, <2>2, <2>3, <2>4, <2>5, <2>6 DEF Kept
<1>2. ASSUME NEW c \in Cpu, LabSwitch(c) PROVE LabInv'
  <2>1. \E p \in Slot : \E n \in 0 .. NPROC : Switches(c, p, n)
    BY <1>2, LabSwitchSwitches, LevelFacts
  <2>2. UNCHANGED waitFor
    BY <1>2 DEF LabSwitch
  <2> QED  BY <2>1, <2>2, LabScheduling
<1>3. ASSUME NEW c \in Cpu, LabDone(c) PROVE LabInv'
  <2>1. UNCHANGED waitFor
    BY <1>3 DEF LabDone
  <2> QED  BY <1>3, <2>1, LabDoneIsDone, LabScheduling
<1>4. ASSUME NEW c \in Cpu, SetPrior(c) PROVE LabInv'
  BY <1>4, SetPriorYields, LabScheduling
<1>5. ASSUME NEW c \in Cpu, LabForkAlloc(c) PROVE LabInv'
  BY <1>5, LabForking DEF LabForkAlloc
<1>6. ASSUME NEW c \in Cpu, LabForkCopy(c) PROVE LabInv'
  BY <1>6, LabForking DEF LabForkCopy
<1>7. ASSUME NEW c \in Cpu, Waitpid(c) \/ WaitpidReturn(c) PROVE LabInv'
  BY <1>7, WaitpidStep
<1>8. ASSUME (Timer \/ TimerWakeup) /\ UNCHANGED <<prior, waitFor>> PROVE LabInv'
  BY <1>8, LabTicking
<1>9. ASSUME UNCHANGED varsLab PROVE LabInv'
  BY <1>9, LabStutters DEF varsLab
<1> QED  BY ONLY [NextLab]_varsLab, <1>1, <1>2, <1>3, <1>4, <1>5, <1>6, <1>7, <1>8, <1>9
         DEF NextLab

(* For as long as no idle CPU takes init from another one: always, if      *)
(* there is only one CPU.                                                  *)
LEMMA LabInvariance == SpecLab /\ []IdleAlone => []LabInv
  BY LabInit, LabStep, PrioritiesHold, PTL DEF SpecLab

LEMMA OneCpuIdleAlone == ASSUME NCPU = 1, LabInv PROVE IdleAlone
<1>1. \A c, d \in Cpu : c = d
  BY DEF Cpu
<1>2. \A c \in Cpu : cpu[c] = "scan" => cpuProc[c] # InitProc
  BY ConstFacts DEF LabInv, Asking, Table, Current
<1> QED  BY <1>1, <1>2 DEF IdleAlone

LEMMA LabInvariance1 == ASSUME NCPU = 1 PROVE SpecLab => []LabInv
  BY LabInit, LabStep, OneCpuIdleAlone, PrioritiesHold, PTL DEF SpecLab

LEMMA SeesOwnChild == LabInv => WaitpidOwnChild
<1> SUFFICES ASSUME LabInv, NEW p \in Slot, NEW q \in Slot,
                    state[p] = "SLEEPING", pid[q] = waitFor[p], parent[q] = p
             PROVE  state[q] # "ZOMBIE"
  BY DEF WaitpidOwnChild
<1>1. waitFor[p] # NoPid
  BY LevelFacts DEF LabInv, Asking, Table, Types
<1> QED  BY <1>1 DEF LabInv, Asking, WaitingFor, SeesAll

LEMMA LabStacks == LabInv => StackSafe
  BY DEF LabInv, Asking, Table

(* A process asleep in waitpid() for its own child never misses its exit:  *)
(* with any number of CPUs, for as long as an idle one does not take init  *)
(* from another; with one CPU, always.                                     *)
THEOREM OwnChildSeen ==
  /\ SpecLab /\ []IdleAlone => []WaitpidOwnChild
  /\ NCPU = 1 => (SpecLab => []WaitpidOwnChild)
<1>1. SpecLab /\ []IdleAlone => []WaitpidOwnChild
  BY LabInvariance, SeesOwnChild, PTL
<1>2. ASSUME NCPU = 1 PROVE SpecLab => []WaitpidOwnChild
  BY <1>2, LabInvariance1, SeesOwnChild, PTL
<1> QED  BY <1>1, <1>2

(* Though waitpid() reaps by pid, whoever the parent is, no CPU is left on *)
(* a stack that has been freed.                                            *)
THEOREM LabStacksSafe ==
  /\ SpecLab /\ []IdleAlone => []StackSafe
  /\ NCPU = 1 => (SpecLab => []StackSafe)
<1>1. SpecLab /\ []IdleAlone => []StackSafe
  BY LabInvariance, LabStacks, PTL
<1>2. ASSUME NCPU = 1 PROVE SpecLab => []StackSafe
  BY <1>2, LabInvariance1, LabStacks, PTL
<1> QED  BY <1>1, <1>2
=============================================================================
