----------------------------- MODULE Lab2Proofs -----------------------------
(***************************************************************************)
(* The properties of lab 2's scheduler, proved for any number of slots and *)
(* priorities.  The loop over the table is a recursive function; what it   *)
(* computes is proved by induction, in the form that a set of naturals has *)
(* a least element.                                                        *)
(***************************************************************************)
EXTENDS Lab2Proc, ProcProofs

-----------------------------------------------------------------------------
(* The loop of scheduler(), after the first n slots.                       *)

Start == [temp |-> InitProc, prior |-> prior, selected |-> selected]
Rounds(f, m) == f = [n \in 0 .. m |-> IF n = 0 THEN Start ELSE Consider(f[n - 1], n - 1)]
Loop == CHOOSE f : Rounds(f, NPROC)

LEMMA PassIsLoop == Pass = Loop[NPROC]
  BY DEF Pass, Loop, Rounds, Start

LEMMA RoundsGoOn ==
  ASSUME NEW m \in Nat, NEW f, Rounds(f, m) PROVE \E g : Rounds(g, m + 1)
<1> DEFINE last == Consider(f[m], m)
           g == [n \in 0 .. m + 1 |-> IF n = m + 1 THEN last ELSE f[n]]
<1> HIDE DEF last
<1>1. \A n \in 0 .. m : g[n] = f[n] /\ n \in 0 .. m + 1 /\ n # m + 1
  OBVIOUS
<1>2. ASSUME NEW n \in 0 .. m + 1
      PROVE  g[n] = IF n = 0 THEN Start ELSE Consider(g[n - 1], n - 1)
  <2>1. CASE n = m + 1
    <3>1. n # 0 /\ n - 1 = m /\ g[n] = last /\ g[m] = f[m]
      BY <2>1, <1>1
    <3> HIDE DEF g
    <3> QED  BY <3>1 DEF last
  <2>2. CASE n # m + 1
    <3>1. n \in 0 .. m /\ (n # 0 => n - 1 \in 0 .. m)
      BY <2>2
    <3>2. f[n] = IF n = 0 THEN Start ELSE Consider(f[n - 1], n - 1)
      BY <3>1 DEF Rounds
    <3>3. g[n] = f[n] /\ (n # 0 => g[n - 1] = f[n - 1])
      BY <1>1, <3>1
    <3> HIDE DEF g
    <3> QED  BY <3>2, <3>3
  <2> QED  BY <2>1, <2>2
<1>3. g = [n \in 0 .. m + 1 |-> g[n]]
  OBVIOUS
<1> HIDE DEF g
<1>4. Rounds(g, m + 1)
  BY <1>2, <1>3 DEF Rounds
<1> QED  BY <1>4

LEMMA LoopRounds == Rounds(Loop, NPROC)
<1> DEFINE Stuck == {m \in Nat : ~ \E f : Rounds(f, m)}
<1>1. Stuck = {}
  <2> SUFFICES ASSUME Stuck # {} PROVE FALSE
    OBVIOUS
  <2>1. PICK m \in Stuck : \A k \in Stuck : m <= k
    BY LeastElement
  <2>2. CASE m = 0
    <3> DEFINE f == [n \in 0 .. 0 |-> Start]
    <3>1. Rounds(f, 0)
      BY DEF Rounds
    <3> QED  BY <2>1, <2>2, <3>1
  <2>3. CASE m # 0
    <3>1. m \in Nat /\ m - 1 \in Nat /\ ~(m <= m - 1) /\ (m - 1) + 1 = m
      BY <2>3
    <3>2. m - 1 \notin Stuck
      BY <2>1, <3>1
    <3>3. \E f : Rounds(f, m - 1)
      BY <3>1, <3>2
    <3>4. \E g : Rounds(g, m)
      BY <3>1, <3>3, RoundsGoOn
    <3> QED  BY <3>4
  <2> QED  BY <2>2, <2>3
<1>2. \E f : Rounds(f, NPROC)
  BY <1>1, NprocAssumption
<1> QED  BY <1>2 DEF Loop

LEMMA LoopSteps ==
  /\ Loop[0] = Start
  /\ \A n \in Slot : Loop[n + 1] = Consider(Loop[n], n)
<1> DEFINE f == Loop
<1>1. f = [n \in 0 .. NPROC |-> IF n = 0 THEN Start ELSE Consider(f[n - 1], n - 1)]
  BY LoopRounds DEF Rounds
<1> HIDE DEF f
<1>2. f[0] = Start
  BY <1>1, NprocAssumption
<1>3. ASSUME NEW n \in Slot PROVE f[n + 1] = Consider(f[n], n)
  <2>1. n + 1 \in 0 .. NPROC /\ n + 1 # 0 /\ (n + 1) - 1 = n
    BY NprocAssumption DEF Slot
  <2>2. f[n + 1] = IF n + 1 = 0 THEN Start ELSE Consider(f[(n + 1) - 1], (n + 1) - 1)
    BY <1>1, <2>1
  <2> QED  BY <2>1, <2>2
<1> QED  BY <1>2, <1>3 DEF f

(* What the loop has found in the first n slots: nothing, or the earliest  *)
(* of the best, all others of them one step older.                         *)

Priorities ==
  /\ prior \in [Slot -> 0 .. MaxPrior] /\ cpuProc \in [Cpu -> Slot \cup {None}]
  /\ selected = [s \in Slot |-> 0]                      \* between two passes
Seen(n) == {q \in Runnable : q < n}
FirstBest(t, n) ==
  t \in Seen(n) /\ \A r \in Seen(n) : prior[t] < prior[r] \/ (prior[t] = prior[r] /\ t <= r)
Flags(t) == [s \in Slot |-> IF s = t THEN 1 ELSE 0]
Aged(t, n) == [s \in Slot |-> IF s \in Seen(n) \ {t} THEN Raise(prior[s]) ELSE prior[s]]
Picked(t, n) == [temp |-> t, prior |-> Aged(t, n), selected |-> Flags(t)]
Found(a, n) ==
  IF Seen(n) = {} THEN a = Start ELSE \E t \in Slot : FirstBest(t, n) /\ a = Picked(t, n)

LEMMA SlotFacts ==
  /\ \A n \in Slot : n \in Int /\ n + 1 \in 0 .. NPROC /\ InitProc <= n
  /\ InitProc \in Slot /\ NPROC \in Nat /\ Slot \subseteq Nat
  /\ \A q \in Slot : q < NPROC
  BY NprocAssumption DEF Slot, InitProc

LEMMA SeenNext ==
  ASSUME NEW n \in Slot
  PROVE  /\ state[n] = "RUNNABLE" => Seen(n + 1) = Seen(n) \cup {n}
         /\ state[n] # "RUNNABLE" => Seen(n + 1) = Seen(n)
         /\ n \notin Seen(n) /\ Seen(n) \subseteq Slot /\ \A q \in Seen(n) : q < n
<1>1. \A q \in Slot : q < n + 1 <=> q < n \/ q = n
  BY SlotFacts
<1>2. ~(n < n)
  BY SlotFacts
<1>3. \A q : q \in Seen(n) <=> q \in Slot /\ state[q] = "RUNNABLE" /\ q < n
  BY DEF Seen, Runnable
<1>4. \A q : q \in Seen(n + 1) <=> q \in Slot /\ state[q] = "RUNNABLE" /\ q < n + 1
  BY DEF Seen, Runnable
<1> QED  BY <1>1, <1>2, <1>3, <1>4

LEMMA ConsiderStep ==
  ASSUME Priorities, NEW n \in Slot, NEW a, Found(a, n) PROVE Found(Consider(a, n), n + 1)
<1> DEFINE b == Consider(a, n)
<1>0. \A s \in Slot : prior[s] \in Int /\ s \in Int
  BY PriorAssumption, SlotFacts DEF Priorities
<1>1. CASE state[n] # "RUNNABLE"
  <2>1. b = a /\ Seen(n + 1) = Seen(n)
    BY <1>1, SeenNext DEF Consider
  <2> HIDE DEF b
  <2>2. \A t \in Slot : FirstBest(t, n + 1) = FirstBest(t, n) /\ Picked(t, n + 1) = Picked(t, n)
    BY <2>1 DEF FirstBest, Picked, Aged
  <2> QED  BY <2>1, <2>2 DEF Found, b
<1>2. CASE state[n] = "RUNNABLE" /\ Seen(n) = {}
  <2>1. a = Start /\ Seen(n + 1) = {n}
    BY <1>2, SeenNext DEF Found
  <2>2. a.temp \in Slot /\ a.selected = [s \in Slot |-> 0] /\ a.prior = prior
    BY <2>1, SlotFacts DEF Start, Priorities
  <2>3. b = [a EXCEPT !.selected[n] = 1, !.temp = n]
    BY <1>2, <2>2 DEF Consider
  <2>4. [a.selected EXCEPT ![n] = 1] = Flags(n)
    BY <2>2 DEF Flags
  <2>5. Aged(n, n + 1) = prior
    BY <2>1 DEF Aged, Priorities
  <2>6. b = Picked(n, n + 1)
    BY <2>1, <2>2, <2>3, <2>4, <2>5 DEF Picked, Start
  <2>7. FirstBest(n, n + 1)
    BY <1>0, <2>1 DEF FirstBest
  <2> HIDE DEF b
  <2>8. Found(b, n + 1)
    BY <2>1, <2>6, <2>7 DEF Found
  <2> QED  BY <2>8 DEF b
<1>3. CASE state[n] = "RUNNABLE" /\ Seen(n) # {}
  <2>1. PICK t \in Slot : FirstBest(t, n) /\ a = Picked(t, n)
    BY <1>3 DEF Found
  <2>2. /\ Seen(n + 1) = Seen(n) \cup {n} /\ n \notin Seen(n) /\ Seen(n) \subseteq Slot
        /\ t \in Seen(n) /\ t < n /\ t # n /\ \A q \in Seen(n) : q < n
    BY <1>3, <2>1, SeenNext DEF FirstBest
  <2>3. a.temp = t /\ a.selected = Flags(t) /\ a.prior = Aged(t, n)
    BY <2>1 DEF Picked
  <2>4. a.selected[t] # a.selected[n] /\ a.prior[t] = prior[t] /\ a.prior[n] = prior[n]
    BY <2>2, <2>3 DEF Flags, Aged
  <2>5. CASE prior[t] > prior[n]
    <3>1. b = [temp |-> n, prior |-> [a.prior EXCEPT ![t] = Raise(@)],
               selected |-> [a.selected EXCEPT ![t] = 0, ![n] = 1]]
      BY <1>3, <2>3, <2>4, <2>5 DEF Consider
    <3>2. [a.selected EXCEPT ![t] = 0, ![n] = 1] = Flags(n)
      BY <2>2, <2>3 DEF Flags
    <3>3. [a.prior EXCEPT ![t] = Raise(@)] = Aged(n, n + 1)
      BY <2>2, <2>3, <2>4 DEF Aged
    <3>4. FirstBest(n, n + 1)
      <4>1. n \in Seen(n + 1)
        BY <2>2
      <4>2. ASSUME NEW r \in Seen(n + 1)
            PROVE  prior[n] < prior[r] \/ (prior[n] = prior[r] /\ n <= r)
        <5>1. r = n \/ (r \in Seen(n) /\ prior[t] <= prior[r])
          BY <1>0, <2>1, <2>2 DEF FirstBest
        <5> QED  BY <1>0, <2>2, <2>5, <5>1
      <4> QED  BY <4>1, <4>2 DEF FirstBest
    <3>5. b = Picked(n, n + 1)
      BY <3>1, <3>2, <3>3 DEF Picked
    <3> HIDE DEF b
    <3>6. Found(b, n + 1)
      BY <2>2, <3>4, <3>5 DEF Found
    <3> QED  BY <3>6 DEF b
  <2>6. CASE ~(prior[t] > prior[n])
    <3>1. b = [a EXCEPT !.prior[n] = Raise(@)]
      BY <1>3, <2>3, <2>4, <2>6 DEF Consider
    <3>2. [a.prior EXCEPT ![n] = Raise(@)] = Aged(t, n + 1)
      BY <2>2, <2>3, <2>4 DEF Aged
    <3>3. FirstBest(t, n + 1)
      <4>1. t \in Seen(n + 1)
        BY <2>2
      <4>2. ASSUME NEW r \in Seen(n + 1)
            PROVE  prior[t] < prior[r] \/ (prior[t] = prior[r] /\ t <= r)
        <5>1. r = n \/ r \in Seen(n)
          BY <2>2
        <5>2. CASE r = n
          BY <1>0, <2>2, <2>6, <5>2
        <5>3. CASE r \in Seen(n)
          BY <2>1, <5>3 DEF FirstBest
        <5> QED  BY <5>1, <5>2, <5>3
      <4> QED  BY <4>1, <4>2 DEF FirstBest
    <3>4. b = Picked(t, n + 1)
      BY <2>1, <2>3, <3>1, <3>2 DEF Picked
    <3> HIDE DEF b
    <3>5. Found(b, n + 1)
      BY <2>2, <3>3, <3>4 DEF Found
    <3> QED  BY <3>5 DEF b
  <2> QED  BY <2>5, <2>6
<1> QED  BY <1>1, <1>2, <1>3

LEMMA LoopFinds == ASSUME Priorities, NEW n \in 0 .. NPROC PROVE Found(Loop[n], n)
<1> DEFINE Wrong == {m \in 0 .. NPROC : ~Found(Loop[m], m)}
<1> SUFFICES ASSUME Wrong # {} PROVE FALSE
  OBVIOUS
<1>1. PICK m \in Wrong : \A k \in Wrong : m <= k
  <2>1. Wrong \in SUBSET Nat
    BY NprocAssumption
  <2> HIDE DEF Wrong
  <2> QED  BY <2>1, LeastElement
<1>2. CASE m = 0
  <2>1. Seen(0) = {}
    <3>1. \A q \in Slot : ~(q < 0)
      BY NprocAssumption DEF Slot
    <3> QED  BY <3>1 DEF Seen, Runnable
  <2>2. Found(Loop[0], 0)
    BY <2>1, LoopSteps DEF Found
  <2> QED  BY <1>1, <1>2, <2>2
<1>3. CASE m # 0
  <2>1. m - 1 \in Slot /\ m - 1 \in 0 .. NPROC /\ (m - 1) + 1 = m /\ ~(m <= m - 1)
    BY <1>3, NprocAssumption DEF Slot
  <2>2. Found(Loop[m - 1], m - 1)
    BY <1>1, <2>1
  <2>3. Found(Loop[m], m)
    BY <2>1, <2>2, ConsiderStep, LoopSteps
  <2> QED  BY <1>1, <2>3
<1> QED  BY <1>2, <1>3

(* The choice of the scheduler: with nothing RUNNABLE, init and no aging.  *)
LEMMA PassFinds ==
  ASSUME Priorities
  PROVE  \/ Runnable = {} /\ Pass = Start
         \/ \E t \in Slot : /\ Pass = Picked(t, NPROC) /\ Seen(NPROC) = Runnable
                            /\ FirstBest(t, NPROC)
<1>1. Found(Pass, NPROC)
  BY PassIsLoop, LoopFinds, NprocAssumption
<1>2. Seen(NPROC) = Runnable
  BY SlotFacts DEF Seen, Runnable
<1> QED  BY <1>1, <1>2 DEF Found

-----------------------------------------------------------------------------
(* Only the scheduler gives a CPU to a process.                            *)

Kinds(c) ==
  \/ AcquireKept(c) \/ LockedKept(c) \/ CallKept(c) \/ SyscallKept(c)
  \/ LabDone(c) \/ SetPrior(c) \/ GetPrior(c) \/ LabForkAlloc(c) \/ LabForkCopy(c)

LEMMA NextKinds ==
  ASSUME [NextLab]_varsLab
  PROVE  \/ \E c \in Cpu : LabSwitch(c) \/ Kinds(c)
         \/ (TimerTick \/ TimerWakeup) /\ UNCHANGED labVars
         \/ UNCHANGED varsLab
  BY DEF NextLab, LockedLab, CallLab, SyscallLab, TickKept, WakeupKept, Kinds

LEMMA CpuKept ==
  ASSUME NEW c \in Cpu, Kinds(c)
  PROVE  cpuProc' = cpuProc \/ cpuProc' = [cpuProc EXCEPT ![c] = None]
<1>1. CASE AcquireKept(c) \/ LockedKept(c)
  <2>1. CASE WaitReturn(c)
    BY <2>1 DEF WaitReturn, WaitLoop
  <2> QED  BY <1>1, <2>1 DEF AcquireKept, LockedKept, SchedAcquire, Sched, Forkret, YieldReturn,
              SleepReturn, YieldKilled, Yield
<1>2. CASE CallKept(c)
  BY <1>2 DEF CallKept, ForkStack, ForkStackFails, ForkCopyFails, ForkRun, TrapKilled, ExitPanic,
     PanicSpin, Exit, SleepRetest, SleepOnTicks, cpuVars, vars
<1>3. CASE SyscallKept(c)
  BY <1>3 DEF SyscallKept, ForkFull, Wait, WaitLoop, Kill, SleepCall, CallExit, Fault, cpuVars
<1>4. CASE LabDone(c) \/ SetPrior(c) \/ GetPrior(c)
  BY <1>4 DEF LabDone, SetPrior, GetPrior, YieldCall
<1>5. CASE LabForkAlloc(c)
  BY <1>5 DEF LabForkAlloc, ForkAlloc, AllocSlot, cpuVars
<1>6. CASE LabForkCopy(c)
  BY <1>6 DEF LabForkCopy, ForkCopy, cpuVars
<1> QED  BY <1>1, <1>2, <1>3, <1>4, <1>5, <1>6 DEF Kinds

LEMMA PriorityFacts ==
  /\ \A n \in 0 .. MaxPrior : Raise(n) \in 0 .. MaxPrior /\ Lower(n) \in 0 .. MaxPrior
  /\ \A n \in Int : Clamp(n) \in 0 .. MaxPrior
  /\ -1 .. MaxPrior + 1 \subseteq Int /\ DefaultPrior \in 0 .. MaxPrior
  BY PriorAssumption DEF Raise, Lower, Clamp

LEMMA PrioritiesKept ==
  ASSUME Priorities, NEW c \in Cpu, Kinds(c) 
  PROVE  prior' \in [Slot -> 0 .. MaxPrior] /\ selected' = [s \in Slot |-> 0]
<1> USE PriorityFacts DEF Priorities, labVars, ClearFlag
<1>1. CASE \/ AcquireKept(c) \/ LockedKept(c) \/ CallKept(c) \/ SyscallKept(c) \/ LabDone(c)
           \/ GetPrior(c)
  BY <1>1 DEF AcquireKept, LockedKept, CallKept, SyscallKept, LabDone, GetPrior
<1>2. CASE SetPrior(c)
  BY <1>2 DEF SetPrior
<1>3. CASE LabForkAlloc(c)
  BY <1>3 DEF LabForkAlloc
<1>4. CASE LabForkCopy(c)
  BY <1>4, ConstFacts DEF LabForkCopy, ForkCopy, At
<1> QED  BY <1>1, <1>2, <1>3, <1>4 DEF Kinds

(* The process switched to is the one the pass has found.                  *)
Takes(c, t) ==
  /\ cpuProc' = [cpuProc EXCEPT ![c] = t] /\ state' = [state EXCEPT ![t] = "RUNNING"]
  /\ \/ Runnable = {} /\ t = InitProc /\ prior' = [prior EXCEPT ![t] = Lower(@)]
     \/ /\ Seen(NPROC) = Runnable /\ FirstBest(t, NPROC)
        /\ prior' = [Aged(t, NPROC) EXCEPT ![t] = Lower(@)]
  /\ selected' = [s \in Slot |-> 0]

LEMMA LabSwitchIs ==
  ASSUME Priorities, NEW c \in Cpu, LabSwitch(c) PROVE \E t \in Slot : Takes(c, t)
<1>1. /\ cpuProc' = [cpuProc EXCEPT ![c] = Pass.temp]
      /\ state' = [state EXCEPT ![Pass.temp] = "RUNNING"]
      /\ prior' = [Pass.prior EXCEPT ![Pass.temp] = Lower(@)]
      /\ selected' = [Pass.selected EXCEPT ![Pass.temp] = 0]
  BY DEF LabSwitch, ClearFlag
<1>2. CASE Runnable = {} /\ Pass = Start
  <2>1. Pass.temp = InitProc /\ Pass.prior = prior /\ Pass.selected = [s \in Slot |-> 0]
    BY <1>2 DEF Start, Priorities
  <2>2. Takes(c, InitProc)
    BY <1>1, <1>2, <2>1 DEF Takes
  <2> QED  BY <2>2, SlotFacts
<1>3. ASSUME NEW t \in Slot, Pass = Picked(t, NPROC), Seen(NPROC) = Runnable, FirstBest(t, NPROC)
      PROVE  Takes(c, t)
  <2>1. Pass.temp = t /\ Pass.prior = Aged(t, NPROC) /\ Pass.selected = Flags(t)
    BY <1>3 DEF Picked
  <2>2. [Flags(t) EXCEPT ![t] = 0] = [s \in Slot |-> 0]
    BY DEF Flags
  <2> QED  BY <1>1, <1>3, <2>1, <2>2 DEF Takes
<1> QED  BY <1>2, <1>3, PassFinds

LEMMA PrioritiesStep == ASSUME Priorities, [NextLab]_varsLab PROVE Priorities'
<1> USE ConstFacts, PriorityFacts DEF Priorities
<1>1. ASSUME NEW c \in Cpu, LabSwitch(c) PROVE Priorities'
  <2>1. PICK t \in Slot : Takes(c, t)
    BY <1>1, LabSwitchIs
  <2>2. Aged(t, NPROC) \in [Slot -> 0 .. MaxPrior]
    BY DEF Aged
  <2>3. prior' \in [Slot -> 0 .. MaxPrior]
    BY <2>1, <2>2 DEF Takes
  <2> QED  BY <2>1, <2>3 DEF Takes
<1>2. ASSUME NEW c \in Cpu, Kinds(c) PROVE Priorities'
  BY <1>2, PrioritiesKept, CpuKept
<1>3. CASE (TimerTick \/ TimerWakeup) /\ UNCHANGED labVars
  BY <1>3 DEF TimerTick, TimerWakeup, labVars
<1>4. CASE UNCHANGED varsLab
  BY <1>4 DEF varsLab, labVars, vars, cpuVars
<1> QED  BY <1>1, <1>2, <1>3, <1>4, NextKinds

LEMMA Takers ==
  ASSUME Priorities, [NextLab]_varsLab, NEW c \in Cpu, cpuProc[c] = None, cpuProc'[c] \in Slot
  PROVE  cpu[c] = "scan" /\ scan[c] = 0 /\ Takes(c, cpuProc'[c])
<1> USE ConstFacts DEF Priorities
<1>1. ASSUME NEW d \in Cpu, LabSwitch(d) PROVE d = c /\ LabSwitch(c)
  <2>1. PICK t \in Slot : cpuProc' = [cpuProc EXCEPT ![d] = t]
    BY <1>1, LabSwitchIs DEF Takes
  <2> QED  BY <1>1, <2>1
<1>2. CASE LabSwitch(c)
  <2>1. PICK t \in Slot : Takes(c, t)
    BY <1>2, LabSwitchIs
  <2>2. cpuProc'[c] = t
    BY <2>1 DEF Takes
  <2> QED  BY <1>2, <2>1, <2>2 DEF LabSwitch
<1>3. ASSUME NEW d \in Cpu, Kinds(d) PROVE FALSE
  BY <1>3, CpuKept
<1>4. CASE (TimerTick \/ TimerWakeup) /\ UNCHANGED labVars
  BY <1>4 DEF TimerTick, TimerWakeup
<1>5. CASE UNCHANGED varsLab
  BY <1>5 DEF varsLab, labVars, vars, cpuVars
<1> QED  BY <1>1, <1>2, <1>3, <1>4, <1>5, NextKinds

LEMMA LabInitPriorities == InitLab => Priorities
  BY ConstFacts, PriorityFacts DEF InitLab, Init, Priorities

LEMMA AgingStep ==
  ASSUME Priorities, [NextLab]_varsLab, NEW c \in Cpu, NEW p \in Slot, p \in Runnable,
         cpuProc[c] = None, cpuProc'[c] \in Slot \ {p}
  PROVE  prior'[p] = Raise(prior[p])
<1>1. PICK t \in Slot \ {p} : Takes(c, t)
  BY Takers
<1>2. Seen(NPROC) = Runnable /\ prior' = [Aged(t, NPROC) EXCEPT ![t] = Lower(@)]
  BY <1>1 DEF Takes
<1>3. Aged(t, NPROC)[p] = Raise(prior[p])
  BY <1>1, <1>2 DEF Aged
<1> QED  BY <1>1, <1>2, <1>3 DEF Aged

(* Who has to wait while another gets the CPU is one step nearer to it.    *)
THEOREM WaitersAge == SpecLab => Aging
<1>1. Priorities /\ [NextLab]_varsLab =>
        [\A c \in Cpu, p \in Slot :
           p \in Runnable /\ cpuProc[c] = None /\ cpuProc'[c] \in Slot \ {p} =>
             prior'[p] = Raise(prior[p])]_varsLab
  BY AgingStep
<1> QED  BY <1>1, LabInitPriorities, PrioritiesStep, PTL DEF SpecLab, Aging

-----------------------------------------------------------------------------
(* With nothing RUNNABLE the scheduler takes slot 0.  On one CPU it is     *)
(* init, asleep in wait(): it never sleeps elsewhere.                      *)

InitWaits ==
  /\ state[InitProc] = "SLEEPING" => resume[InitProc] = "wait"
  /\ pc[InitProc] \notin {"tick_lock", "tick_sleep"}

LabInv == Table /\ Priorities /\ InitWaits

LEMMA LabInit == InitLab => LabInv
<1>1. InitLab => Table
  BY InitInv DEF InitLab, IInv, Table
<1>2. InitLab => InitWaits
  BY ConstFacts DEF InitLab, Init, InitWaits
<1> QED  BY <1>1, <1>2, LabInitPriorities DEF LabInv

LEMMA InitIsSleeping ==
  ASSUME NCPU = 1, LabInv, NEW c \in Cpu, cpu[c] = "scan", Runnable = {}
  PROVE  state[InitProc] = "SLEEPING" /\ resume[InitProc] = "wait"
<1> USE ConstFacts DEF LabInv, Table
<1>1. \A d \in Cpu : d = c
  BY DEF Cpu
<1>2. cpuProc[c] = None
  BY DEF Current
<1>3. state[InitProc] \notin {"RUNNING", "RUNNABLE"} /\ state[InitProc] \in ProcState
  BY <1>1, <1>2 DEF OneCpuPerProc, Runnable, Types
<1> QED  BY <1>3 DEF Alive, ProcState, InitWaits

LEMMA LabSwitchSwitches ==
  ASSUME NCPU = 1, LabInv, NEW c \in Cpu, LabSwitch(c)
  PROVE  \E t \in Slot : Switches(c, t, NPROC)
<1>1. PICK t \in Slot : Takes(c, t)
  BY LabSwitchIs DEF LabInv
<1>2. state[t] \in {"RUNNABLE", "SLEEPING"}
  <2>1. CASE Runnable = {} /\ t = InitProc
    BY <2>1, InitIsSleeping DEF LabSwitch
  <2>2. CASE Seen(NPROC) = Runnable /\ FirstBest(t, NPROC)
    BY <2>2 DEF FirstBest, Runnable
  <2> QED  BY <1>1, <2>1, <2>2 DEF Takes
<1> QED  BY <1>1, <1>2 DEF Takes, LabSwitch, Switches

LEMMA LabDoneIsDone == ASSUME NEW c \in Cpu, LabDone(c) PROVE SchedDone(c)
<1>1. Candidates(c) = {}
  BY NprocAssumption DEF LabDone, Candidates, Slot
<1> QED  BY <1>1 DEF LabDone, SchedDone

LEMMA YieldCallYields == ASSUME NEW c \in Cpu, NEW p \in Slot, YieldCall(c, p) PROVE Yields(c, p)
<1>1. p = cpuProc[c] /\ cpu[c] = "run" /\ pc[p] = "user"
  BY Zenon DEF YieldCall, AtUser
<1> QED  BY <1>1 DEF YieldCall, Yields

(* What the kinds of steps are in Proc.                                    *)
LEMMA KindsAre ==
  ASSUME NEW c \in Cpu, Kinds(c)
  PROVE  \/ SchedAcquire(c) \/ SchedDone(c) \/ Sched(c) \/ Forkret(c) \/ YieldReturn(c)
         \/ SleepReturn(c) \/ YieldKilled(c) \/ Yield(c) \/ \E p \in Slot : Yields(c, p)
         \/ Wait(c) \/ WaitReturn(c)
         \/ ForkAlloc(c) \/ ForkFull(c) \/ ForkStack(c) \/ ForkStackFails(c) \/ ForkCopy(c)
         \/ ForkCopyFails(c) \/ ForkRun(c)
         \/ CallExit(c) \/ Fault(c) \/ TrapKilled(c) \/ ExitPanic(c) \/ PanicSpin(c) \/ Exit(c)
         \/ Kill(c) \/ SleepCall(c) \/ SleepRetest(c) \/ SleepOnTicks(c)
<1>1. CASE LabDone(c)
  BY <1>1, LabDoneIsDone
<1>2. CASE SetPrior(c) \/ GetPrior(c)
  BY <1>2, YieldCallYields DEF SetPrior, GetPrior
<1> QED  BY <1>1, <1>2 DEF Kinds, AcquireKept, LockedKept, CallKept, SyscallKept, LabForkAlloc,
            LabForkCopy

(* init is never put to sleep but in wait().                               *)
LEMMA InitWaitsOn ==
  ASSUME LabInv, NEW c \in Cpu, Kinds(c), Table'
  PROVE  InitWaits'
<1> USE ConstFacts DEF LabInv, Table, Types, InitWaits, tableVars, threadVars, cpuVars, vars
<1>1. CASE \/ SchedAcquire(c) \/ SchedDone(c) \/ Sched(c) \/ YieldKilled(c) \/ PanicSpin(c)
           \/ CallExit(c) \/ Fault(c) \/ TrapKilled(c) \/ ExitPanic(c)
  BY <1>1 DEF SchedAcquire, SchedDone, Sched, YieldKilled, PanicSpin, CallExit, Fault, TrapKilled,
     ExitPanic
<1>2. CASE Forkret(c) \/ YieldReturn(c) \/ SleepReturn(c)
  BY <1>2 DEF Forkret, YieldReturn, SleepReturn, OneCpuPerProc
<1>3. CASE Yield(c) \/ \E p \in Slot : Yields(c, p)
  BY <1>3 DEF Yield, Yields
<1>4. CASE Wait(c) \/ WaitReturn(c)
  <2>1. PICK p \in Slot : MayWait(c, p) /\ WaitLoop(c, p)
    BY <1>4, WaitEntered
  <2>2. CASE GivesUp(c, p)
    BY <2>1, <2>2 DEF MayWait, GivesUp, AfterSyscall, OneCpuPerProc
  <2>3. CASE \E q \in Slot : Frees(c, p, q)
    BY <2>1, <2>3 DEF MayWait, Frees, AfterSyscall, OneCpuPerProc
  <2>4. CASE Sleeps(c, p)
    BY <2>4 DEF Sleeps
  <2> QED  BY <2>1, <2>2, <2>3, <2>4, WaitLoopIs
<1>5. CASE ForkAlloc(c) \/ ForkFull(c)
  BY <1>5 DEF ForkAlloc, AllocSlot, First, ForkFull, AfterForkFailure, AfterSyscall
<1>6. CASE ForkStack(c)
  BY <1>6 DEF ForkStack, At, Forking, Forkers
<1>7. CASE ForkStackFails(c) \/ ForkCopyFails(c) \/ ForkRun(c)
  BY <1>7 DEF ForkStackFails, ForkCopyFails, ForkRun, At, AfterForkFailure, AfterSyscall,
     Forking, Forkers, Alive
<1>8. CASE ForkCopy(c)
  BY <1>8 DEF ForkCopy
<1>9. CASE Exit(c)
  BY <1>9 DEF Exit, Wakeup1
<1>10. CASE Kill(c)
  BY <1>10 DEF Kill, Roused
<1>11. CASE SleepCall(c) \/ SleepRetest(c)
  BY <1>11 DEF SleepCall, SleepRetest, At, SleepTest, AfterSyscall
<1>12. CASE SleepOnTicks(c)
  BY <1>12 DEF SleepOnTicks, At
<1> QED  BY <1>1, <1>2, <1>3, <1>4, <1>5, <1>6, <1>7, <1>8, <1>9, <1>10, <1>11, <1>12, KindsAre

LEMMA KindsStep == ASSUME Table, NEW c \in Cpu, Kinds(c) PROVE Table'
BY KindsAre, SchedAcquireStep, SchedDoneStep, SchedStep, ForkretStep, YieldReturnStep,
   SleepReturnStep, YieldKilledStep, YieldStep, YieldsStep, WaitStep,
   ForkAllocStep, ForkFullStep, ForkStackStep, ForkStackFailsStep, ForkCopyStep,
   ForkCopyFailsStep, ForkRunStep, CallExitStep, FaultStep, TrapKilledStep, ExitPanicStep,
   ExitStep, KillStep, SleepCallStep, SleepRetestStep, SleepOnTicksStep, StutterStep
   DEF PanicSpin

LEMMA LabStep == ASSUME NCPU = 1, LabInv, [NextLab]_varsLab PROVE LabInv'
<1>1. Table /\ InitWaits
  BY DEF LabInv
<1>2. Priorities'
  BY PrioritiesStep DEF LabInv
<1>3. ASSUME NEW c \in Cpu, Kinds(c) PROVE LabInv'
  BY <1>1, <1>2, <1>3, KindsStep, InitWaitsOn DEF LabInv
<1>4. ASSUME NEW c \in Cpu, LabSwitch(c) PROVE LabInv'
  <2>1. PICK t \in Slot : Switches(c, t, NPROC)
    BY <1>4, LabSwitchSwitches
  <2>2. Table'
    BY <1>1, <2>1, SwitchesStep, SlotFacts
  <2>3. InitWaits'
    BY <1>1, <2>1 DEF Table, Types, InitWaits, Switches, threadVars
  <2> QED  BY <1>2, <2>2, <2>3 DEF LabInv
<1>5. CASE TimerTick \/ TimerWakeup
  <2>1. Table'
    BY <1>1, <1>5, TimerTickStep, TimerWakeupStep
  <2>2. InitWaits'
    BY <1>1, <1>5, ConstFacts
       DEF TimerTick, TimerWakeup, Wakeup1, Asleep, InitWaits, tableVars, threadVars
  <2> QED  BY <1>2, <2>1, <2>2 DEF LabInv
<1>6. CASE UNCHANGED varsLab
  <2>1. UNCHANGED vars
    BY <1>6 DEF varsLab
  <2>2. Table'
    BY <1>1, <2>1, StutterStep
  <2>3. InitWaits'
    BY <1>1, <2>1 DEF vars, tableVars, threadVars, sleepVars, InitWaits
  <2> QED  BY <1>2, <2>2, <2>3 DEF LabInv
<1> QED  BY <1>3, <1>4, <1>5, <1>6, NextKinds

LEMMA HighestStep ==
  ASSUME NCPU = 1, LabInv, [NextLab]_varsLab, NEW c \in Cpu, NEW p \in Slot,
         cpuProc'[c] = p, cpuProc[c] = None
  PROVE  \/ First(p, {q \in Runnable : \A r \in Runnable : prior[q] <= prior[r]})
         \/ Runnable = {} /\ p = InitProc /\ resume[p] = "wait"
<1>1. cpu[c] = "scan" /\ Takes(c, p) /\ Priorities
  BY Takers DEF LabInv
<1>2. CASE Runnable = {} /\ p = InitProc
  BY <1>1, <1>2, InitIsSleeping
<1>3. CASE Seen(NPROC) = Runnable /\ FirstBest(p, NPROC)
  <2>1. \A q \in Slot : prior[q] \in Int /\ q \in Int
    BY <1>1, PriorAssumption, SlotFacts DEF Priorities
  <2>2. Runnable \subseteq Slot /\ p \in Runnable
    BY <1>3 DEF Runnable, FirstBest
  <2>3. \A r \in Runnable : prior[p] < prior[r] \/ (prior[p] = prior[r] /\ p <= r)
    BY <1>3 DEF FirstBest
  <2>4. \A r \in Runnable : prior[p] <= prior[r]
    BY <2>1, <2>2, <2>3
  <2>5. ASSUME NEW q \in Runnable, prior[q] <= prior[p] PROVE p <= q
    BY <2>1, <2>2, <2>3, <2>5
  <2> QED  BY <2>2, <2>4, <2>5 DEF First
<1> QED  BY <1>1, <1>2, <1>3 DEF Takes

(* On one CPU, which is what the lab runs on, the first process of the     *)
(* best priority runs next; if none can run, init looks at its children.   *)
THEOREM HighestRuns == NCPU = 1 => (SpecLab => HighestFirst)
<1> SUFFICES ASSUME NCPU = 1 PROVE SpecLab => HighestFirst
  OBVIOUS
<1>1. LabInv /\ [NextLab]_varsLab => LabInv'
  BY LabStep
<1>2. LabInv /\ [NextLab]_varsLab =>
        [\A c \in Cpu, p \in Slot : cpuProc'[c] = p /\ cpuProc[c] = None =>
           \/ First(p, {q \in Runnable : \A r \in Runnable : prior[q] <= prior[r]})
           \/ Runnable = {} /\ p = InitProc /\ resume[p] = "wait"]_varsLab
  BY HighestStep
<1> QED  BY <1>1, <1>2, LabInit, PTL DEF SpecLab, HighestFirst
=============================================================================
