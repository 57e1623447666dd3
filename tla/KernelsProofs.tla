---------------------------- MODULE KernelsProofs ----------------------------
(***************************************************************************)
(* The memory of the kernels of labs 3 and 4, proved for any finite set of *)
(* processes, any size of user space, of a program and of shm_table.       *)
(*                                                                         *)
(* Nothing counts the references to a frame, so that the invariant has to  *)
(* say of each frame what refers to it.  It says so up to the first frame  *)
(* that is freed while in use; that only lab 4 comes to that is shown at   *)
(* each of the steps that free frames.                                     *)
(***************************************************************************)
EXTENDS Kernels, FiniteSetTheorems, WellFoundedInduction, TLAPS

ShmFrame == UNION {ShmHome(s) : s \in 1 .. SHM}

TypeOK ==
  /\ kernel \in {"lab3", "lab4"}
  /\ state \in [Process -> {"dead", "live", "zombie"}]
  /\ pgdir \in [Process -> Frame \cup {None}]
  /\ pages \in [Process -> Space]
  /\ sz \in [Process -> 0 .. MaxSize]
  /\ guard \in [Process -> SUBSET Page]
  /\ stack_pages \in [Process -> Nat] /\ my_sp \in [Process -> {-1, TOP - 1}]
  /\ shm_pages \in [1 .. SHM -> [id : Nat, frame : Frame \cup {None}, refcnt : Nat]]
  /\ free \subseteq Frame /\ shared \subseteq Frame
  /\ lost \subseteq Frame /\ misfreed \subseteq Frame

(* A page of a process is its own or a shared one; a process has a page    *)
(* directory until it is waited for; an entry has a frame of its own, and  *)
(* none when it is free.                                                   *)
Homes ==
  /\ \A p \in Process, v \in Page :
       pages[p][v] \in Home(p, v) \cup ShmFrame \cup {Address0, None}
  /\ \A p \in Process :
       pgdir[p] \in IF state[p] = "dead" THEN {None} ELSE Home(p, TOP)
  /\ \A p \in Process : state[p] = "dead" => pages[p] = NoPages
  /\ \A s \in 1 .. SHM : shm_pages[s].frame \in ShmHome(s) \cup {None}
  /\ \A s \in 1 .. SHM : shm_pages[s].id = 0 => shm_pages[s].frame = None

(* What refers to each frame.                                              *)
PrivateAccounted ==
  /\ \A p \in Process : \A v \in Page : \A f \in Home(p, v) : f \in free <=> pages[p][v] # f
  /\ \A p \in Process : \A f \in Home(p, TOP) : f \in free <=> pgdir[p] # f
  /\ SpareFrame \in free <=> SpareFrame \notin lost

IsMapped(f) == \E p \in Process : \E v \in Page : pages[p][v] = f
SharedAccounted ==
  /\ shared \subseteq ShmFrame /\ lost \subseteq ShmFrame \cup {SpareFrame}
  /\ shared \cap lost = {} /\ shared \cap free = {}
  /\ \A f \in ShmFrame : f \in free <=> f \notin shared \cup lost
  /\ \A f \in ShmFrame : f \in shared <=> IsMapped(f) \/ InTable(f)

Accounted == misfreed = {} => PrivateAccounted /\ SharedAccounted

(* Lab 3 has no shared pages.                                              *)
NothingShared == kernel = "lab3" =>
  /\ shared = {} /\ misfreed = {}
  /\ \A s \in 1 .. SHM : shm_pages[s].frame = None

(* Where a process has its program and its stack.                          *)
Whole(p) == state[p] = "live" /\ {0, StackTop} \subseteq Mapped(p)
WholeLab3(p) ==
  stack_pages[p] >= 1 /\ TOP - 1 \notin guard[p]
HeapLab3(p) == my_sp[p] = -1 \/ 0 .. sz[p] - 1 \subseteq Mapped(p)
WholeLab4(p) ==
  /\ Mapped(p) \subseteq 0 .. sz[p] - 1
  /\ "not mapped" \in misused \/ 0 .. sz[p] - 1 \subseteq Mapped(p)
  /\ guard[p] = {PROGRAM}
SizeOf(p) ==
  /\ kernel = "lab3" /\ state[p] = "live" => WholeLab3(p)
  /\ kernel = "lab3" /\ Whole(p) => HeapLab3(p)
  /\ kernel = "lab4" /\ Whole(p) => WholeLab4(p)
Sizes == \A p \in Process : SizeOf(p)

Address0Blamed == \A p \in Process, v \in Page :
  pages[p][v] = Address0 => "no frame" \in misused

IInv ==
  /\ TypeOK /\ Homes /\ Accounted /\ NothingShared /\ Sizes /\ Address0Blamed
  /\ PanicsExplained

-----------------------------------------------------------------------------
(* Frames                                                                  *)

LEMMA Constants ==
  /\ TOP \in Nat /\ PROGRAM \in Nat \ {0} /\ TOP > PROGRAM + 2 /\ SHM \in Nat \ {0}
  /\ Page = 0 .. TOP - 1 /\ TOP \notin Page /\ 0 \in Page /\ TOP - 1 \in Page
  /\ Page \subseteq 0 .. TOP /\ TOP \in 0 .. TOP
  /\ MaxSize = TOP + 1 /\ 0 .. TOP \subseteq 0 .. MaxSize
BY MemoryAssumption DEF Page, MaxSize

LEMMA Messages ==
  /\ "kfree" \notin NotThere /\ "remap" \notin NotThere /\ "clearpteu" \notin NotThere
  /\ "kfree" # "remap" /\ "kfree" # "clearpteu" /\ "remap" # "clearpteu"
  /\ None \notin {"kfree", "remap", "clearpteu"} \cup NotThere
BY NoneAssumption DEF NotThere

LEMMA OnePageMore ==
  ASSUME NEW n \in 0 .. MaxSize, n < MaxSize
  PROVE  /\ n < TOP => n \in Page
         /\ n \in Nat /\ n + 1 \in 0 .. MaxSize
         /\ 0 .. (n + 1) - 1 = (0 .. n - 1) \cup {n}
BY Constants

LEMMA HomeFacts ==
  ASSUME NEW p \in Process, NEW v \in 0 .. TOP
  PROVE  /\ Home(p, v) \subseteq Frame
         /\ Home(p, v) = {<<p, v, 1>>, <<p, v, 2>>}
         /\ \A q \in Process, w \in 0 .. TOP :
              Home(p, v) \cap Home(q, w) # {} => p = q /\ v = w
         /\ Home(p, v) \cap ShmFrame = {}
         /\ SpareFrame \notin Home(p, v) /\ Address0 \notin Home(p, v)
         /\ None \notin Home(p, v)
<1>1. Home(p, v) = {<<p, v, 1>>, <<p, v, 2>>}
  BY DEF Home
<1>2. Home(p, v) \subseteq Frame
  BY DEF Frame
<1>3. \A q \in Process, w \in 0 .. TOP : Home(p, v) \cap Home(q, w) # {} => p = q /\ v = w
  BY DEF Home
<1>4. Home(p, v) \cap ShmFrame = {}
  BY MemoryAssumption DEF Home, ShmFrame, ShmHome
<1>5. SpareFrame \notin Home(p, v) /\ Address0 \notin Home(p, v)
  BY MemoryAssumption DEF Home, SpareFrame, Address0
<1> QED  BY <1>1, <1>2, <1>3, <1>4, <1>5, NoneAssumption

LEMMA ShmHomeFacts ==
  /\ ShmFrame \subseteq Frame
  /\ \A s \in 1 .. SHM : ShmHome(s) \subseteq ShmFrame
  /\ \A s, t \in 1 .. SHM : ShmHome(s) \cap ShmHome(t) # {} => s = t
  /\ SpareFrame \in Frame \ ShmFrame /\ Address0 \notin Frame /\ None \notin Frame
  /\ None # Address0
<1>1. ShmFrame \subseteq Frame
  BY DEF Frame, ShmFrame
<1>2. \A s, t \in 1 .. SHM : ShmHome(s) \cap ShmHome(t) # {} => s = t
  BY DEF ShmHome
<1>3. SpareFrame \in Frame \ ShmFrame
  BY Constants DEF Frame, SpareFrame, ShmFrame, ShmHome
<1>4. Address0 \notin Frame
  <2>1. \A p \in Process : \A v \in 0 .. TOP : Address0 \notin Home(p, v)
    BY HomeFacts
  <2>2. \A s \in 1 .. SHM : Address0 \notin ShmHome(s)
    BY Constants DEF Address0, ShmHome
  <2>3. Address0 # SpareFrame
    BY DEF Address0, SpareFrame
  <2> QED  BY <2>1, <2>2, <2>3 DEF Frame
<1> QED  BY <1>1, <1>2, <1>3, <1>4, NoneAssumption DEF ShmFrame

(* A frame is in the home of a page or a directory, shared, or the spare.  *)
LEMMA FrameKinds ==
  ASSUME NEW f \in Frame
  PROVE  \/ \E p \in Process : \E v \in Page : f \in Home(p, v)
         \/ \E p \in Process : f \in Home(p, TOP)
         \/ f \in ShmFrame \/ f = SpareFrame
BY Constants DEF Frame, ShmFrame

LEMMA FiniteUnion ==
  ASSUME NEW S, IsFiniteSet(S), NEW f, DOMAIN f = S, \A x \in S : IsFiniteSet(f[x])
  PROVE  IsFiniteSet(UNION {f[x] : x \in S})
<1> DEFINE g == [x \in S |-> f[x]]
           T == {f[x] : x \in S}
<1>1. g \in Surjection(S, T)
  BY DEF Surjection
<1>2. IsFiniteSet(T)
  BY <1>1, FS_Surjection
<1> QED  BY <1>2, FS_UNION

LEMMA FramesFinite == IsFiniteSet(Frame)
<1>1. \A p \in Process : \A v \in 0 .. TOP : IsFiniteSet(Home(p, v))
  <2> SUFFICES ASSUME NEW p \in Process, NEW v \in 0 .. TOP PROVE IsFiniteSet(Home(p, v))
    OBVIOUS
  <2>1. IsFiniteSet({<<p, v, 1>>}) /\ IsFiniteSet({<<p, v, 2>>})
    BY FS_Singleton
  <2>2. Home(p, v) = {<<p, v, 1>>} \cup {<<p, v, 2>>}
    BY HomeFacts
  <2> QED  BY <2>1, <2>2, FS_Union
<1>2. \A s \in 1 .. SHM : IsFiniteSet(ShmHome(s))
  <2> SUFFICES ASSUME NEW s \in 1 .. SHM PROVE IsFiniteSet(ShmHome(s))
    OBVIOUS
  <2>1. /\ IsFiniteSet({<<None, s, 1>>}) /\ IsFiniteSet({<<None, s, 2>>})
        /\ IsFiniteSet({<<None, s, 3>>})
    BY FS_Singleton
  <2>2. ShmHome(s) = ({<<None, s, 1>>} \cup {<<None, s, 2>>}) \cup {<<None, s, 3>>}
    BY DEF ShmHome
  <2> QED  BY <2>1, <2>2, FS_Union
<1>3. IsFiniteSet(Process) /\ IsFiniteSet(0 .. TOP) /\ IsFiniteSet(1 .. SHM)
  BY MemoryAssumption, FS_Interval
<1>4. \A p \in Process : IsFiniteSet(UNION {Home(p, v) : v \in 0 .. TOP})
  <2> SUFFICES ASSUME NEW p \in Process
               PROVE  IsFiniteSet(UNION {Home(p, v) : v \in 0 .. TOP})
    OBVIOUS
  <2> DEFINE V == 0 .. TOP
             home == [v \in V |-> Home(p, v)]
  <2>1. IsFiniteSet(V) /\ DOMAIN home = V /\ \A v \in V : IsFiniteSet(home[v])
    BY <1>1, <1>3
  <2>2. IsFiniteSet(UNION {home[v] : v \in V})
    <3> HIDE DEF home, V
    <3> QED  BY <2>1, FiniteUnion
  <2> QED  BY <2>2
<1>5. IsFiniteSet(UNION {UNION {Home(p, v) : v \in 0 .. TOP} : p \in Process})
  <2> DEFINE home == [p \in Process |-> UNION {Home(p, v) : v \in 0 .. TOP}]
  <2>1. DOMAIN home = Process /\ \A p \in Process : IsFiniteSet(home[p])
    BY <1>4
  <2>2. IsFiniteSet(UNION {home[p] : p \in Process})
    <3> HIDE DEF home
    <3> QED  BY <1>3, <2>1, FiniteUnion
  <2> QED  BY <2>2
<1>6. IsFiniteSet(UNION {ShmHome(s) : s \in 1 .. SHM})
  <2> DEFINE S == 1 .. SHM
             home == [s \in S |-> ShmHome(s)]
  <2>1. IsFiniteSet(S) /\ DOMAIN home = S /\ \A s \in S : IsFiniteSet(home[s])
    BY <1>2, <1>3
  <2>2. IsFiniteSet(UNION {home[s] : s \in S})
    <3> HIDE DEF home, S
    <3> QED  BY <2>1, FiniteUnion
  <2> QED  BY <2>2
<1>7. IsFiniteSet({SpareFrame})
  BY FS_Singleton
<1>8. Frame = (UNION {UNION {Home(p, v) : v \in 0 .. TOP} : p \in Process})
              \cup (UNION {ShmHome(s) : s \in 1 .. SHM}) \cup {SpareFrame}
  BY DEF Frame
<1> QED  BY <1>5, <1>6, <1>7, <1>8, FS_Union

(* kalloc() returns a free frame.                                          *)
LEMMA KallocHome ==
  ASSUME NEW frames, NEW p \in Process, NEW v \in 0 .. TOP, frames \cap Home(p, v) # {}
  PROVE  KallocFrom(frames, Home(p, v)) \in frames \cap Home(p, v)
<1> DEFINE S == frames \cap Home(p, v)
<1>1. S \subseteq {<<p, v, 1>>, <<p, v, 2>>}
  BY HomeFacts
<1>2. \E f \in S : \A g \in S : f[3] <= g[3]
  <2>1. CASE <<p, v, 1>> \in S
    BY <1>1, <2>1
  <2>2. CASE <<p, v, 1>> \notin S
    BY <1>1, <2>2
  <2> QED  BY <2>1, <2>2
<1> QED  BY <1>2 DEF KallocFrom

LEMMA KallocShm ==
  ASSUME NEW frames, NEW s \in 1 .. SHM, frames \cap ShmHome(s) # {}
  PROVE  KallocFrom(frames, ShmHome(s)) \in frames \cap ShmHome(s)
<1> DEFINE S == frames \cap ShmHome(s)
<1>1. S \subseteq {<<None, s, 1>>, <<None, s, 2>>, <<None, s, 3>>}
  BY DEF ShmHome
<1>2. \E f \in S : \A g \in S : f[3] <= g[3]
  <2>1. CASE <<None, s, 1>> \in S
    BY <1>1, <2>1
  <2>2. CASE <<None, s, 1>> \notin S /\ <<None, s, 2>> \in S
    BY <1>1, <2>2
  <2>3. CASE <<None, s, 1>> \notin S /\ <<None, s, 2>> \notin S
    BY <1>1, <2>3
  <2> QED  BY <2>1, <2>2, <2>3
<1> QED  BY <1>2 DEF KallocFrom

-----------------------------------------------------------------------------
(* Steps that free pages                                                   *)

LEMMA MappingFacts ==
  ASSUME IInv, NEW p \in Process, NEW v \in Page
  PROVE  /\ pages[p][v] \in Frame \cup {Address0, None}
         /\ pages[p][v] \in Home(p, v) \cup ShmFrame \cup {Address0, None}
         /\ v \in 0 .. TOP /\ v # TOP
BY Constants DEF IInv, TypeOK, Space, Homes

(* In lab 3 no page belongs to two.                                        *)
LEMMA Lab3Mappings ==
  ASSUME IInv, Sane, kernel = "lab3", NEW p \in Process, NEW v \in Page, pages[p][v] \in Frame
  PROVE  /\ pages[p][v] \in Home(p, v) /\ ~InTable(pages[p][v])
         /\ \A q \in Process, w \in Page : pages[q][w] = pages[p][v] => q = p /\ w = v
<1>1. \A q \in Process, w \in Page : pages[q][w] \in Frame => pages[q][w] \in Home(q, w)
  <2> SUFFICES ASSUME NEW q \in Process, NEW w \in Page, pages[q][w] \in Frame,
                      pages[q][w] \in ShmFrame
               PROVE  FALSE
    BY MappingFacts, ShmHomeFacts
  <2> QED  BY DEF IInv, Accounted, Sane, SharedAccounted, NothingShared, IsMapped
<1>2. ~InTable(pages[p][v])
  BY NoneAssumption DEF IInv, NothingShared, InTable, TypeOK
<1>3. \A q \in Process, w \in Page : pages[q][w] = pages[p][v] => q = p /\ w = v
  BY <1>1, HomeFacts, Constants
<1> QED  BY <1>1, <1>2, <1>3

LEMMA DeallocFacts ==
  ASSUME IInv, Sane, NEW p \in Process, NEW W \in SUBSET Page, NEW more, NEW taken,
         Dealloc(p, W, more, taken)
  PROVE  /\ misfreed' \subseteq Frame /\ (kernel = "lab3" => misfreed' = {})
         /\ panic' \in {"kfree", None} /\ (panic' = "kfree" => "no frame" \in misused)
         /\ FramesOf(p, W) \subseteq Frame /\ SpareFrame \notin FramesOf(p, W)
         /\ \A v \in W : pages[p][v] \in Frame => pages[p][v] \in FramesOf(p, W)
         /\ \A f \in FramesOf(p, W) : \E v \in W : pages[p][v] = f
         /\ misfreed' = {} => \A f \in FramesOf(p, W) : ~InTable(f)
         /\ misfreed' = {} => \A f \in FramesOf(p, W) : \A q \in Process, v \in Page :
              pages[q][v] = f => q = p /\ v \in W
<1>1. FramesOf(p, W) \subseteq Frame
  BY DEF FramesOf
<1>2. /\ \A v \in W : pages[p][v] \in Frame => pages[p][v] \in FramesOf(p, W)
      /\ \A f \in FramesOf(p, W) : \E v \in W : pages[p][v] = f
  BY DEF FramesOf
<1>3. misfreed' = {f \in FramesOf(p, W) : StillUsed(f, p, W)}
  BY DEF Dealloc
<1>4. ASSUME kernel = "lab3" PROVE misfreed' = {}
  <2> SUFFICES ASSUME NEW f \in FramesOf(p, W), StillUsed(f, p, W) PROVE FALSE
    BY <1>3
  <2>1. PICK v \in W : pages[p][v] = f
    BY <1>2
  <2>2. /\ ~InTable(f)
        /\ \A q \in Process, w \in Page : pages[q][w] = f => q = p /\ w = v
    BY <1>1, <1>4, <2>1, Lab3Mappings
  <2> QED  BY <2>1, <2>2 DEF StillUsed, MappedElsewhere, MappedTwice
<1>5. panic' \in {"kfree", None} /\ (panic' = "kfree" => "no frame" \in misused)
  BY NoneAssumption DEF Dealloc, IInv, Address0Blamed
<1>6. SpareFrame \notin FramesOf(p, W)
  <2> SUFFICES ASSUME NEW v \in W, pages[p][v] = SpareFrame PROVE FALSE
    BY <1>2
  <2> QED  BY MappingFacts, HomeFacts, ShmHomeFacts
<1>7. /\ misfreed' = {} => \A f \in FramesOf(p, W) : ~InTable(f)
      /\ misfreed' = {} => \A f \in FramesOf(p, W) : \A q \in Process, v \in Page :
           pages[q][v] = f => q = p /\ v \in W
  BY <1>3 DEF StillUsed, MappedElsewhere
<1> QED  BY <1>1, <1>2, <1>3, <1>4, <1>5, <1>6, <1>7

(* Shared frames, when p gives up those of its pages W.                    *)
LEMMA UnmapShared ==
  ASSUME IInv, Sane, NEW p \in Process, NEW W \in SUBSET Page, NEW more, NEW taken,
         Dealloc(p, W, more, taken), misfreed' = {},
         \A f \in ShmFrame : f \notin more \cup taken,
         \A q \in Process \ {p} : pages'[q] = pages[q],
         \A v \in Page, f \in ShmFrame : pages'[p][v] = f <=> v \notin W /\ pages[p][v] = f
  PROVE  SharedAccounted'
<1>1. /\ \A v \in W : pages[p][v] \in Frame => pages[p][v] \in FramesOf(p, W)
      /\ \A f \in FramesOf(p, W) : \E v \in W : pages[p][v] = f
      /\ \A f \in FramesOf(p, W) : ~InTable(f)
      /\ \A f \in FramesOf(p, W) : \A q \in Process, v \in Page :
           pages[q][v] = f => q = p /\ v \in W
  <2>1. \A v \in W : pages[p][v] \in Frame => pages[p][v] \in FramesOf(p, W)
    BY DeallocFacts
  <2>2. \A f \in FramesOf(p, W) : \E v \in W : pages[p][v] = f
    BY DEF FramesOf
  <2>3. \A f \in FramesOf(p, W) : ~InTable(f)
    BY DeallocFacts
  <2>4. \A f \in FramesOf(p, W) : \A q \in Process, v \in Page :
          pages[q][v] = f => q = p /\ v \in W
    BY DeallocFacts
  <2> QED  BY <2>1, <2>2, <2>3, <2>4
<1>2. /\ free' = (free \cup FramesOf(p, W) \cup more) \ taken
      /\ shared' = shared \ FramesOf(p, W) /\ UNCHANGED <<lost, shm_pages>>
  BY DEF Dealloc
<1>3. SharedAccounted
  BY DEF IInv, Accounted, Sane
<1>4. \A f \in ShmFrame : f \in FramesOf(p, W) => f \in shared
  BY <1>1, <1>3 DEF SharedAccounted, IsMapped
<1>5. \A f \in ShmFrame : f \in free' <=> f \in free \/ f \in FramesOf(p, W)
  BY <1>2
<1>6. ASSUME NEW f \in ShmFrame PROVE f \in shared' <=> IsMapped(f)' \/ InTable(f)'
  <2>1. InTable(f)' <=> InTable(f)
    BY <1>2 DEF InTable
  <2>2. CASE f \in FramesOf(p, W)
    <3>1. ASSUME NEW q \in Process, NEW v \in Page, pages'[q][v] = f PROVE FALSE
      <4>1. pages[q][v] = f /\ (q = p => v \notin W)
        BY <3>1
      <4> QED  BY <1>1, <2>2, <4>1
    <3> QED  BY <1>1, <1>2, <2>1, <2>2, <3>1 DEF IsMapped
  <2>3. CASE f \notin FramesOf(p, W)
    <3>1. ASSUME NEW q \in Process, NEW v \in Page
          PROVE  pages'[q][v] = f <=> pages[q][v] = f
      <4>1. f \in Frame
        BY ShmHomeFacts
      <4>2. pages[p][v] = f => v \notin W
        BY <1>1, <2>3, <4>1
      <4> QED  BY <4>2
    <3> QED  BY <1>2, <1>3, <2>1, <2>3, <3>1 DEF SharedAccounted, IsMapped
  <2> QED  BY <2>2, <2>3
<1>7. shared' \subseteq ShmFrame /\ shared' \cap lost' = {} /\ shared' \cap free' = {}
  BY <1>2, <1>3, <1>5 DEF SharedAccounted
<1>8. \A f \in ShmFrame : f \in free' <=> f \notin shared' \cup lost'
  BY <1>2, <1>3, <1>4, <1>5 DEF SharedAccounted
<1> QED  BY <1>2, <1>3, <1>6, <1>7, <1>8 DEF SharedAccounted

(* What is as before when pages W of p go.                                 *)
LEMMA Unmap ==
  ASSUME IInv, Sane, NEW p \in Process, NEW W \in SUBSET Page,
         Dealloc(p, W, {}, {}),
         pages' = [pages EXCEPT ![p] = [v \in Page |-> IF v \in W THEN None ELSE pages[p][v]]],
         guard' = [guard EXCEPT ![p] = guard[p] \ W],
         UNCHANGED <<state, pgdir, my_sp>>,
         sz' \in [Process -> 0 .. MaxSize], stack_pages' \in [Process -> Nat]
  PROVE  /\ TypeOK' /\ Homes' /\ Accounted' /\ NothingShared' /\ Address0Blamed'
         /\ PanicsExplained'
         /\ \A q \in Process \ {p} : pages'[q] = pages[q] /\ guard'[q] = guard[q]
         /\ \A v \in Page : pages'[p][v] = IF v \in W THEN None ELSE pages[p][v]
         /\ guard'[p] = guard[p] \ W
<1>1. /\ \A q \in Process \ {p} : pages'[q] = pages[q] /\ guard'[q] = guard[q]
      /\ \A v \in Page : pages'[p][v] = IF v \in W THEN None ELSE pages[p][v]
      /\ guard'[p] = guard[p] \ W
  BY DEF IInv, TypeOK
<1>2. /\ free' = free \cup FramesOf(p, W) /\ shared' = shared \ FramesOf(p, W)
      /\ UNCHANGED <<lost, misused, kernel, shm_pages, state, pgdir, my_sp>>
  BY DEF Dealloc
<1>0. /\ misfreed' \subseteq Frame /\ (kernel = "lab3" => misfreed' = {})
      /\ panic' \in {"kfree", None} /\ (panic' = "kfree" => "no frame" \in misused)
      /\ FramesOf(p, W) \subseteq Frame /\ SpareFrame \notin FramesOf(p, W)
      /\ \A v \in W : pages[p][v] \in Frame => pages[p][v] \in FramesOf(p, W)
      /\ \A f \in FramesOf(p, W) : \E v \in W : pages[p][v] = f
      /\ misfreed' = {} => \A f \in FramesOf(p, W) : ~InTable(f)
      /\ misfreed' = {} => \A f \in FramesOf(p, W) : \A q \in Process, v \in Page :
           pages[q][v] = f => q = p /\ v \in W
  BY DeallocFacts
<1>3. TypeOK'
  <2>1. pages' \in [Process -> Space]
    BY DEF IInv, TypeOK, Space
  <2>2. guard' \in [Process -> SUBSET Page]
    BY DEF IInv, TypeOK
  <2> QED  BY <1>0, <1>2, <2>1, <2>2 DEF IInv, TypeOK
<1>4. Homes'
  <2>1. \A q \in Process, v \in Page : pages'[q][v] = None \/ pages'[q][v] = pages[q][v]
    BY <1>1
  <2>2. \A q \in Process : state[q] = "dead" => pages'[q] = NoPages
    BY <1>1 DEF IInv, Homes, NoPages
  <2> QED  BY <1>2, <2>1, <2>2 DEF IInv, Homes
<1>5. Accounted'
  <2> SUFFICES ASSUME misfreed' = {} PROVE PrivateAccounted' /\ SharedAccounted'
    BY DEF Accounted
  <2>1. PrivateAccounted /\ SharedAccounted
    BY DEF IInv, Accounted, Sane
  <2>2. ASSUME NEW q \in Process, NEW v \in Page, NEW f \in Home(q, v)
        PROVE  f \in free' <=> pages'[q][v] # f
    <3>1. f \in FramesOf(p, W) <=> q = p /\ v \in W /\ pages[q][v] = f
      <4>1. f \in Frame /\ f \notin ShmFrame /\ v \in 0 .. TOP
        BY HomeFacts, Constants
      <4>2. ASSUME NEW u \in Page, pages[p][u] = f PROVE q = p /\ u = v
        <5>1. f \in Home(p, u) /\ u \in 0 .. TOP
          BY <4>1, <4>2, MappingFacts, HomeFacts, ShmHomeFacts
        <5> QED  BY <4>1, <5>1, HomeFacts
      <4> QED  BY <1>0, <4>1, <4>2
    <3>2. f # None
      BY Constants, HomeFacts
    <3> QED  BY <1>1, <1>2, <2>1, <3>1, <3>2 DEF PrivateAccounted
  <2>3. ASSUME NEW q \in Process, NEW f \in Home(q, TOP)
        PROVE  f \in free' <=> pgdir'[q] # f
    <3>1. f \notin FramesOf(p, W)
      <4>1. f \in Frame /\ f \notin ShmFrame /\ TOP \in 0 .. TOP
        BY HomeFacts, Constants
      <4>2. \A u \in Page : pages[p][u] # f
        BY <4>1, MappingFacts, HomeFacts, ShmHomeFacts
      <4> QED  BY <1>0, <4>2
    <3> QED  BY <1>2, <2>1, <3>1 DEF PrivateAccounted
  <2>4. SpareFrame \in free' <=> SpareFrame \notin lost'
    BY <1>0, <1>2, <2>1 DEF PrivateAccounted
  <2>5. PrivateAccounted'
    BY <2>2, <2>3, <2>4 DEF PrivateAccounted
  <2>6. SharedAccounted'
    <3>1. \A v \in Page, f \in ShmFrame :
            pages'[p][v] = f <=> v \notin W /\ pages[p][v] = f
      BY <1>1, ShmHomeFacts
    <3> QED  BY <1>1, <3>1, UnmapShared
  <2> QED  BY <2>5, <2>6
<1>6. NothingShared'
  BY <1>0, <1>2 DEF IInv, NothingShared
<1>7. Address0Blamed'
  BY <1>1, <1>2, ShmHomeFacts DEF IInv, Address0Blamed
<1>8. PanicsExplained'
  BY <1>0, <1>2, Messages DEF PanicsExplained
<1> QED  BY <1>1, <1>3, <1>4, <1>5, <1>6, <1>7, <1>8

-----------------------------------------------------------------------------
(* Steps that take frames                                                  *)

LEMMA NewFrames ==
  ASSUME NEW p \in Process, NEW W \in SUBSET Page, NEW frames,
         \A v \in W \cup {TOP} : frames \cap Home(p, v) # {}
  PROVE  \A v \in W \cup {TOP} : KallocFrom(frames, Home(p, v)) \in frames \cap Home(p, v)
<1>1. W \cup {TOP} \subseteq 0 .. TOP
  BY Constants
<1> QED  BY <1>1, KallocHome

LEMMA NewPagesFacts ==
  ASSUME NEW p \in Process, NEW W \in SUBSET Page, NEW frames,
         \A v \in W \cup {TOP} : frames \cap Home(p, v) # {}
  PROVE  /\ NewPages(p, W, frames) \in Space
         /\ \A v \in Page : NewPages(p, W, frames)[v] =
              IF v \in W THEN KallocFrom(frames, Home(p, v)) ELSE None
<1>1. \A v \in Page : NewPages(p, W, frames)[v] =
        IF v \in W THEN KallocFrom(frames, Home(p, v)) ELSE None
  BY DEF NewPages
<1>2. NewPages(p, W, frames) \in Space
  <2>1. \A v \in W \cup {TOP} : KallocFrom(frames, Home(p, v)) \in frames \cap Home(p, v)
    BY NewFrames
  <2>2. \A v \in W : KallocFrom(frames, Home(p, v)) \in Frame
    BY <2>1, HomeFacts, Constants
  <2> QED  BY <2>2 DEF NewPages, Space
<1> QED  BY <1>1, <1>2

LEMMA NewSpaceFacts ==
  ASSUME NEW p \in Process, NEW W \in SUBSET Page, NEW frames,
         \A v \in W \cup {TOP} : frames \cap Home(p, v) # {}
  PROVE  /\ NewSpace(p, W, frames) \subseteq Frame
         /\ NewSpace(p, W, frames) \cap ShmFrame = {}
         /\ SpareFrame \notin NewSpace(p, W, frames)
<1>1. W \cup {TOP} \subseteq 0 .. TOP
  BY Constants
<1>2. \A v \in W \cup {TOP} : KallocFrom(frames, Home(p, v)) \in frames \cap Home(p, v)
  BY NewFrames
<1> QED  BY <1>1, <1>2, HomeFacts DEF NewSpace

LEMMA NewSpaceHomes ==
  ASSUME NEW p \in Process, NEW W \in SUBSET Page, NEW frames,
         \A v \in W \cup {TOP} : frames \cap Home(p, v) # {},
         NEW q \in Process, NEW v \in 0 .. TOP, NEW f \in Home(q, v)
  PROVE  f \in NewSpace(p, W, frames) <=>
           q = p /\ v \in W \cup {TOP} /\ f = KallocFrom(frames, Home(p, v))
<1>1. W \cup {TOP} \subseteq 0 .. TOP
  BY Constants
<1>2. \A w \in W \cup {TOP} : KallocFrom(frames, Home(p, w)) \in frames \cap Home(p, w)
  BY NewFrames
<1>3. ASSUME NEW w \in W \cup {TOP}, f = KallocFrom(frames, Home(p, w))
      PROVE  q = p /\ v = w
  BY <1>1, <1>2, <1>3, HomeFacts
<1> QED  BY <1>3 DEF NewSpace

(* A page that is not mapped has a frame to get.                           *)
LEMMA FreshFrame ==
  ASSUME IInv, Sane, NEW p \in Process, NEW v \in Page, pages[p][v] = None
  PROVE  NewPage(p, v) \in free \cap Home(p, v)
<1>1. v \in 0 .. TOP /\ None \notin Home(p, v) /\ Home(p, v) # {}
  <2>1. v \in 0 .. TOP
    BY Constants
  <2>2. Home(p, v) = {<<p, v, 1>>, <<p, v, 2>>} /\ None \notin Home(p, v)
    BY <2>1, HomeFacts
  <2> QED  BY <2>1, <2>2
<1>2. PrivateAccounted
  BY DEF IInv, Accounted, Sane
<1>3. \A f \in Home(p, v) : f \in free
  BY <1>1, <1>2 DEF PrivateAccounted
<1> QED  BY <1>1, <1>3, KallocHome DEF NewPage

(* A page of p that was not mapped gets its frame.                         *)
LEMMA MapOne ==
  ASSUME IInv, Sane, NEW p \in Process, NEW u \in Page, pages[p][u] = None, state[p] = "live",
         free' = free \ {NewPage(p, u)},
         pages' = [pages EXCEPT ![p][u] = NewPage(p, u)],
         sz' \in [Process -> 0 .. MaxSize], stack_pages' \in [Process -> Nat],
         UNCHANGED <<kernel, state, pgdir, guard, my_sp, shm_pages, histories, panic>>
  PROVE  /\ TypeOK' /\ Homes' /\ Accounted' /\ NothingShared' /\ Address0Blamed'
         /\ PanicsExplained'
         /\ \A q \in Process, v \in Page : q # p \/ v # u => pages'[q][v] = pages[q][v]
         /\ pages'[p][u] # None
<1> USE DEF histories
<1>1. /\ \A q \in Process, v \in Page : q # p \/ v # u => pages'[q][v] = pages[q][v]
      /\ pages'[p][u] = NewPage(p, u)
  BY DEF IInv, TypeOK, Space
<1>2. /\ NewPage(p, u) \in free /\ NewPage(p, u) \in Home(p, u) /\ NewPage(p, u) \in Frame
      /\ NewPage(p, u) # None /\ NewPage(p, u) # Address0
      /\ NewPage(p, u) \notin ShmFrame /\ NewPage(p, u) # SpareFrame
  BY FreshFrame, HomeFacts, Constants
<1>3. TypeOK'
  <2>1. pages' \in [Process -> Space]
    BY <1>2 DEF IInv, TypeOK, Space
  <2> QED  BY <2>1 DEF IInv, TypeOK
<1>4. Homes'
  BY <1>1, <1>2 DEF IInv, Homes, TypeOK
<1>5. PrivateAccounted'
  <2>1. PrivateAccounted
    BY DEF IInv, Accounted, Sane
  <2>2. ASSUME NEW q \in Process, NEW v \in Page, NEW f \in Home(q, v)
        PROVE  f \in free' <=> pages'[q][v] # f
    <3>1. f = NewPage(p, u) => q = p /\ v = u
      BY <1>2, HomeFacts, Constants
    <3>2. f # None
      BY HomeFacts, Constants
    <3> QED  BY <1>1, <2>1, <3>1, <3>2 DEF PrivateAccounted
  <2>3. ASSUME NEW q \in Process, NEW f \in Home(q, TOP)
        PROVE  f \in free' <=> pgdir'[q] # f
    <3>1. f # NewPage(p, u)
      BY <1>2, HomeFacts, Constants
    <3> QED  BY <2>1, <3>1 DEF PrivateAccounted
  <2> QED  BY <1>2, <2>1, <2>2, <2>3 DEF PrivateAccounted
<1>6. SharedAccounted'
  <2>1. SharedAccounted
    BY DEF IInv, Accounted, Sane
  <2>2. \A f \in ShmFrame : IsMapped(f)' <=> IsMapped(f)
    BY <1>1, <1>2, ShmHomeFacts DEF IsMapped
  <2>3. \A f \in ShmFrame : InTable(f)' <=> InTable(f)
    BY DEF InTable
  <2>4. \A f \in ShmFrame : f \in free' <=> f \in free
    BY <1>2
  <2> QED  BY <2>1, <2>2, <2>3, <2>4 DEF SharedAccounted
<1>7. NothingShared' /\ Address0Blamed' /\ PanicsExplained'
  BY <1>1, <1>2, Messages
     DEF IInv, NothingShared, Address0Blamed, PanicsExplained, Sane
<1> QED  BY <1>1, <1>2, <1>3, <1>4, <1>5, <1>6, <1>7 DEF Accounted

-----------------------------------------------------------------------------
(* One lemma per action                                                    *)

LEMMA SizeKept ==
  ASSUME IInv, NEW q \in Process, kernel' = kernel, state'[q] = state[q],
         pages'[q] = pages[q], sz'[q] = sz[q], guard'[q] = guard[q],
         stack_pages'[q] = stack_pages[q], my_sp'[q] = my_sp[q], misused \subseteq misused'
  PROVE  SizeOf(q)'
<1>1. SizeOf(q)
  BY DEF IInv, Sizes
<1>2. Mapped(q)' = Mapped(q)
  BY DEF Mapped
<1>3. StackTop' = StackTop
  BY DEF StackTop
<1> QED  BY <1>1, <1>2, <1>3 DEF SizeOf, WholeLab3, HeapLab3, WholeLab4, Whole

LEMMA RunsFacts ==
  ASSUME IInv, NEW p \in Process, Runs(p)
  PROVE  /\ Sane /\ misfreed = {} /\ panic = None /\ state[p] = "live"
         /\ PrivateAccounted /\ SharedAccounted
         /\ Whole(p) /\ sz[p] \in 0 .. MaxSize
         /\ kernel = "lab3" => WholeLab3(p) /\ HeapLab3(p)
         /\ kernel = "lab4" => WholeLab4(p) /\ sz[p] \notin Mapped(p)
<1>1. /\ Sane /\ misfreed = {} /\ panic = None /\ state[p] = "live"
      /\ PrivateAccounted /\ SharedAccounted
      /\ Whole(p) /\ sz[p] \in 0 .. MaxSize
      /\ kernel = "lab3" => WholeLab3(p) /\ HeapLab3(p)
      /\ kernel = "lab4" => WholeLab4(p)
  BY DEF IInv, TypeOK, Accounted, Sizes, SizeOf, Whole, Runs, Sane
<1>2. kernel = "lab4" => sz[p] \notin Mapped(p)
  <2>1. sz[p] \notin 0 .. sz[p] - 1
    BY <1>1
  <2> QED  BY <1>1, <2>1 DEF WholeLab4
<1> QED  BY <1>1, <1>2

LEMMA InvGrow == ASSUME IInv, NEW p \in Process, Grow(p) PROVE IInv'
<1> USE DEF Grow
<1>1. sz[p] \in Page /\ sz[p] \in 0 .. TOP /\ sz[p] \in Nat
  BY Constants DEF IInv, TypeOK
<1>2. /\ TypeOK' /\ Homes' /\ Accounted' /\ NothingShared' /\ Address0Blamed'
      /\ PanicsExplained'
      /\ \A q \in Process, v \in Page : q # p \/ v # sz[p] => pages'[q][v] = pages[q][v]
      /\ pages'[p][sz[p]] # None
  <2>1. sz' \in [Process -> 0 .. MaxSize] /\ stack_pages' \in [Process -> Nat]
    BY <1>1, Constants DEF IInv, TypeOK
  <2> QED  BY <1>1, <2>1, RunsFacts, MapOne
<1>3. ASSUME NEW q \in Process \ {p} PROVE SizeOf(q)'
  <2>1. pages'[q] = pages[q] /\ sz'[q] = sz[q]
    BY DEF IInv, TypeOK
  <2> QED  BY <2>1, SizeKept DEF histories
<1>4. SizeOf(p)'
  <2>1. sz'[p] = sz[p] + 1
    BY DEF IInv, TypeOK
  <2>2. Mapped(p)' = Mapped(p) \cup {sz[p]}
    BY <1>1, <1>2 DEF Mapped
  <2>0. 0 .. sz'[p] - 1 = (0 .. sz[p] - 1) \cup {sz[p]}
    BY <1>1, <2>1
  <2>3. CASE kernel = "lab3"
    <3>1. WholeLab3(p) /\ HeapLab3(p)
      BY <2>3, RunsFacts
    <3>2. HeapLab3(p)'
      BY <2>0, <2>2, <3>1 DEF HeapLab3
    <3> QED  BY <2>3, <3>1, <3>2 DEF SizeOf, WholeLab3
  <2>4. CASE kernel = "lab4"
    <3>1. WholeLab4(p)
      BY <2>4, RunsFacts
    <3>0. 0 .. sz'[p] - 1 = (0 .. sz[p] - 1) \cup {sz[p]}
      BY <2>0
    <3>2. Mapped(p)' \subseteq 0 .. sz'[p] - 1
      BY <2>2, <3>0, <3>1 DEF WholeLab4
    <3>3. "not mapped" \in misused' \/ 0 .. sz'[p] - 1 \subseteq Mapped(p)'
      BY <2>2, <3>0, <3>1 DEF WholeLab4, histories
    <3> QED  BY <2>4, <3>1, <3>2, <3>3 DEF SizeOf, WholeLab4
  <2> QED  BY <2>3, <2>4 DEF IInv, TypeOK
<1> QED  BY <1>2, <1>3, <1>4 DEF IInv, Sizes

LEMMA InvFaultGrows ==
  ASSUME IInv, NEW p \in Process, NEW v \in Page, FaultGrows(p, v) PROVE IInv'
<1> USE DEF FaultGrows, Faults
<1>1. /\ TypeOK' /\ Homes' /\ Accounted' /\ NothingShared' /\ Address0Blamed'
      /\ PanicsExplained'
      /\ \A q \in Process, w \in Page : q # p \/ w # v => pages'[q][w] = pages[q][w]
      /\ pages'[p][v] # None
  <2>1. sz' \in [Process -> 0 .. MaxSize] /\ stack_pages' \in [Process -> Nat]
    BY DEF IInv, TypeOK
  <2>2. pages[p][v] = None
    BY DEF Mapped
  <2> QED  BY <2>1, <2>2, RunsFacts, MapOne
<1>2. ASSUME NEW q \in Process PROVE SizeOf(q)'
  <2>1. SizeOf(q) /\ (q = p => HeapLab3(q))
    BY RunsFacts DEF IInv, Sizes
  <2>2. stack_pages'[q] >= stack_pages[q] /\ stack_pages[q] \in Nat /\ stack_pages'[q] \in Nat
    BY DEF IInv, TypeOK
  <2>3. /\ Mapped(q) \subseteq Mapped(q)'
        /\ q # p => Mapped(q)' = Mapped(q)
    BY <1>1 DEF Mapped
  <2>4. StackTop' = StackTop
    BY DEF StackTop
  <2>5. kernel' = "lab3" /\ Whole(q)' => HeapLab3(q)'
    BY <2>1, <2>3, <2>4 DEF SizeOf, HeapLab3, Whole
  <2> QED  BY <2>1, <2>2, <2>5 DEF SizeOf, WholeLab3
<1> QED  BY <1>1, <1>2 DEF IInv, Sizes

LEMMA InvPanic ==
  ASSUME IInv, Sane, NEW message, Panic(message),
         message = "kfree" => \E q \in Process : sz[q] > TOP,
         message = "remap" => kernel = "lab3" \/ \E q \in Process : sz[q] >= TOP,
         message = "clearpteu" => kernel = "lab3",
         message \in NotThere => kernel = "lab3" \/ "not mapped" \in misused
  PROVE  IInv'
<1> USE DEF Panic, histories, spaceVars
<1>1. TypeOK' /\ Homes' /\ NothingShared' /\ Address0Blamed'
  BY DEF IInv, TypeOK, Homes, NothingShared, Address0Blamed
<1>2. Accounted'
  BY DEF IInv, Accounted, PrivateAccounted, SharedAccounted, IsMapped, InTable
<1>3. Sizes'
  BY SizeKept DEF Sizes
<1>4. PanicsExplained'
  BY DEF PanicsExplained
<1> QED  BY <1>1, <1>2, <1>3, <1>4 DEF IInv

LEMMA InvPanics ==
  ASSUME IInv, NEW p \in Process,
         \/ ForkPanics(p) \/ GrowPanics(p) \/ ShrinkPanics(p)
         \/ \E id \in Id : OpenPanics(p, id)
         \/ \E v \in Page : FaultPanics(p, v) \/ FaultFarAway(p, v)
  PROVE  IInv'
<1>1. CASE ForkPanics(p)
  <2>1. Runs(p) /\ Sane
    BY <1>1, RunsFacts DEF ForkPanics
  <2>2. CASE ~AllThere(p) /\ \E message \in NotThere : Panic(message)
    <3>1. PICK message \in NotThere : Panic(message)
      BY <2>2
    <3>2. kernel = "lab3" \/ "not mapped" \in misused
      BY <2>1, <2>2, RunsFacts DEF AllThere, WholeLab4, ToCopy, StackPages, IInv, TypeOK
    <3> QED  BY <2>1, <3>1, <3>2, Messages, InvPanic
  <2>3. CASE ~CopiedOnce(p) /\ Panic("remap")
    <3>1. sz[p] \in Nat /\ TOP \in Nat
      BY Constants DEF IInv, TypeOK
    <3>2. kernel = "lab3" \/ sz[p] >= TOP
      BY <2>3, <3>1 DEF CopiedOnce, StackPages, IInv, TypeOK
    <3> QED  BY <2>1, <2>3, <3>2, Messages, InvPanic
  <2>4. CASE kernel = "lab3" /\ Panic("clearpteu")
    BY <2>1, <2>4, Messages, InvPanic
  <2> QED  BY <1>1, <2>2, <2>3, <2>4 DEF ForkPanics
<1>2. CASE GrowPanics(p)
  <2>1. Runs(p) /\ Panic("remap") /\ sz[p] \in Page /\ sz[p] \in Mapped(p)
    BY <1>2, Constants DEF GrowPanics, Mapped, IInv, TypeOK
  <2>2. kernel = "lab3"
    BY <2>1, RunsFacts DEF IInv, TypeOK
  <2> QED  BY <2>1, <2>2, RunsFacts, Messages, InvPanic
<1>3. CASE ShrinkPanics(p)
  BY <1>3, RunsFacts, Messages, InvPanic DEF ShrinkPanics
<1>4. CASE \E id \in Id : OpenPanics(p, id)
  <2>1. Runs(p) /\ kernel = "lab4" /\ Present(p, sz[p]) /\ Panic("remap")
    BY <1>4 DEF OpenPanics, Shares
  <2>2. sz[p] \in Page => sz[p] \in Mapped(p)
    BY <2>1 DEF Present, Mapped
  <2>3. sz[p] \notin Page /\ sz[p] \in Nat
    BY <2>1, <2>2, RunsFacts, Constants DEF IInv, TypeOK
  <2>4. sz[p] >= TOP
    BY <2>3, Constants
  <2> QED  BY <2>1, <2>4, RunsFacts, Messages, InvPanic
<1>5. CASE \E v \in Page : FaultPanics(p, v) \/ FaultFarAway(p, v)
  <2>1. Runs(p) /\ kernel = "lab3" /\ (Panic("remap") \/ Panic("clearpteu"))
    BY <1>5 DEF FaultPanics, FaultFarAway, Faults
  <2> QED  BY <2>1, RunsFacts, Messages, InvPanic
<1> QED  BY <1>1, <1>2, <1>3, <1>4, <1>5

LEMMA InvForkFails == ASSUME IInv, NEW p \in Process, ForkFails(p) PROVE IInv'
<1> USE DEF ForkFails, spaceVars
<1>1. TypeOK' /\ Homes' /\ NothingShared' /\ Address0Blamed'
  BY ShmHomeFacts DEF IInv, TypeOK, Homes, NothingShared, Address0Blamed
<1>2. PrivateAccounted'
  <2>1. \A q \in Process, v \in 0 .. TOP : SpareFrame \notin Home(q, v)
    BY HomeFacts
  <2>2. PrivateAccounted
    BY RunsFacts
  <2> QED  BY <2>1, <2>2, Constants DEF PrivateAccounted
<1>3. SharedAccounted'
  BY RunsFacts, ShmHomeFacts DEF SharedAccounted, IsMapped, InTable
<1>4. Sizes'
  BY SizeKept DEF Sizes
<1>5. PanicsExplained'
  BY RunsFacts, NoneAssumption DEF PanicsExplained
<1> QED  BY <1>1, <1>2, <1>3, <1>4, <1>5 DEF IInv, Accounted

LEMMA InvExecFailsLate == ASSUME IInv, NEW p \in Process, ExecFailsLate(p) PROVE IInv'
<1> USE DEF ExecFailsLate, histories
<1>1. TypeOK' /\ Homes' /\ NothingShared' /\ Address0Blamed' /\ PanicsExplained'
  BY DEF IInv, TypeOK, Homes, NothingShared, Address0Blamed, PanicsExplained
<1>2. Accounted'
  BY DEF IInv, Accounted, PrivateAccounted, SharedAccounted, IsMapped, InTable
<1>3. ASSUME NEW q \in Process PROVE SizeOf(q)'
  <2>1. SizeOf(q) /\ Mapped(q)' = Mapped(q) /\ StackTop' = StackTop
    BY DEF IInv, Sizes, Mapped, StackTop
  <2>2. stack_pages'[q] >= 1 \/ stack_pages'[q] = stack_pages[q]
    BY DEF IInv, TypeOK
  <2> QED  BY <2>1, <2>2 DEF SizeOf, WholeLab3, HeapLab3, Whole
<1> QED  BY <1>1, <1>2, <1>3 DEF IInv, Sizes

LEMMA InvExit == ASSUME IInv, NEW p \in Process, Exit(p) PROVE IInv'
<1> USE DEF Exit, histories
<1>0. state'[p] = "zombie" /\ \A q \in Process \ {p} : state'[q] = state[q]
  BY DEF IInv, TypeOK
<1>1. TypeOK' /\ Homes' /\ NothingShared' /\ Address0Blamed' /\ PanicsExplained'
  <2>1. TypeOK'
    BY DEF IInv, TypeOK
  <2>2. Homes'
    BY <1>0 DEF IInv, Homes
  <2> QED  BY <2>1, <2>2 DEF IInv, NothingShared, Address0Blamed, PanicsExplained
<1>2. Accounted'
  BY DEF IInv, Accounted, PrivateAccounted, SharedAccounted, IsMapped, InTable
<1>3. ASSUME NEW q \in Process PROVE SizeOf(q)'
  <2>1. CASE q = p
    BY <1>0, <2>1 DEF SizeOf, Whole
  <2>2. CASE q # p
    BY <1>0, <2>2, SizeKept
  <2> QED  BY <2>1, <2>2
<1> QED  BY <1>1, <1>2, <1>3 DEF IInv, Sizes

LEMMA InvGrowFails ==
  ASSUME IInv, NEW p \in Process, NEW n \in Page, GrowFails(p, n) PROVE IInv'
<1> USE DEF GrowFails
<1> DEFINE W == Asked(p, n)
<1>1. /\ W \in SUBSET Page /\ W \cap Mapped(p) # {} /\ sz[p] \in Nat
      /\ (0 .. sz[p] - 1) \cap W = {}
  BY Constants DEF IInv, TypeOK, Asked
<1>2. pages' = [pages EXCEPT ![p] =
                  [v \in Page |-> IF v \in W THEN None ELSE pages[p][v]]]
  OBVIOUS
<1>3. guard' = [guard EXCEPT ![p] = guard[p] \ W]
  OBVIOUS
<1>4. /\ TypeOK' /\ Homes' /\ Accounted' /\ NothingShared' /\ Address0Blamed'
      /\ PanicsExplained'
      /\ \A q \in Process \ {p} : pages'[q] = pages[q] /\ guard'[q] = guard[q]
      /\ \A v \in Page : pages'[p][v] = IF v \in W THEN None ELSE pages[p][v]
      /\ guard'[p] = guard[p] \ W
  <2>1. sz' \in [Process -> 0 .. MaxSize] /\ stack_pages' \in [Process -> Nat]
    BY DEF IInv, TypeOK
  <2>2. Sane /\ Dealloc(p, W, {}, {}) /\ UNCHANGED <<state, pgdir, my_sp>>
    BY RunsFacts
  <2> HIDE DEF W
  <2> QED  BY <1>1, <1>2, <1>3, <2>1, <2>2, Unmap
<1>5. kernel = "lab3" /\ kernel' = kernel /\ misused' = misused
  <2>1. kernel # "lab4"
    BY <1>1, RunsFacts DEF WholeLab4, Asked
  <2> QED  BY <2>1 DEF IInv, TypeOK, Dealloc
<1>6. ASSUME NEW q \in Process PROVE SizeOf(q)'
  <2>1. CASE q = p
    <3>1. WholeLab3(p) /\ HeapLab3(p)
      BY <1>5, RunsFacts
    <3>2. Mapped(p)' = Mapped(p) \ W
      BY <1>4 DEF Mapped
    <3>3. HeapLab3(p)'
      BY <1>1, <3>1, <3>2 DEF HeapLab3
    <3>4. WholeLab3(p)'
      BY <1>4, <3>1 DEF WholeLab3
    <3> QED  BY <1>5, <2>1, <3>3, <3>4 DEF SizeOf
  <2>2. CASE q # p
    BY <1>4, <1>5, <2>2, SizeKept
  <2> QED  BY <2>1, <2>2
<1> QED  BY <1>4, <1>6 DEF IInv, Sizes

LEMMA InvFaultShrinks ==
  ASSUME IInv, NEW p \in Process, NEW v \in Page, FaultShrinks(p, v) PROVE IInv'
<1> USE DEF FaultShrinks, Faults
<1> DEFINE W == {v - 1}
<1>1. v - 1 \in Page /\ W \in SUBSET Page
  BY Constants
<1>2. pages' = [pages EXCEPT ![p] =
                  [u \in Page |-> IF u \in W THEN None ELSE pages[p][u]]]
  BY <1>1 DEF IInv, TypeOK, Space
<1>3. guard' = [guard EXCEPT ![p] = guard[p] \ W]
  OBVIOUS
<1>4. /\ TypeOK' /\ Homes' /\ Accounted' /\ NothingShared' /\ Address0Blamed'
      /\ PanicsExplained'
      /\ \A q \in Process \ {p} : pages'[q] = pages[q] /\ guard'[q] = guard[q]
      /\ guard'[p] = guard[p] \ W
  <2>1. sz' \in [Process -> 0 .. MaxSize] /\ stack_pages' \in [Process -> Nat]
    BY DEF IInv, TypeOK
  <2>2. Sane /\ Dealloc(p, W, {}, {}) /\ UNCHANGED <<state, pgdir, my_sp>>
    BY RunsFacts
  <2> HIDE DEF W
  <2> QED  BY <1>1, <1>2, <1>3, <2>1, <2>2, Unmap
<1>5. kernel = "lab3" /\ kernel' = kernel
  BY DEF Dealloc
<1>6. ASSUME NEW q \in Process PROVE SizeOf(q)'
  <2>1. stack_pages'[q] >= stack_pages[q] /\ stack_pages[q] \in Nat /\ stack_pages'[q] \in Nat
    BY DEF IInv, TypeOK
  <2>2. CASE q = p
    <3>1. my_sp[p] = -1 \/ my_sp[p] = TOP - 1
      BY DEF IInv, TypeOK
    <3>2. v > my_sp[p] /\ v \in 0 .. TOP - 1 /\ TOP \in Nat
      BY Constants
    <3>3. my_sp[p] = -1
      BY <3>1, <3>2
    <3>4. HeapLab3(p)'
      BY <3>3 DEF HeapLab3
    <3> QED  BY <1>4, <1>5, <2>1, <2>2, <3>4, RunsFacts DEF SizeOf, WholeLab3
  <2>3. CASE q # p
    <3>1. Mapped(q)' = Mapped(q) /\ StackTop' = StackTop
      BY <1>4, <1>5, <2>3 DEF Mapped, StackTop
    <3> QED  BY <1>4, <1>5, <2>1, <2>3, <3>1
                DEF IInv, Sizes, SizeOf, WholeLab3, HeapLab3, Whole
  <2> QED  BY <2>2, <2>3
<1> QED  BY <1>4, <1>6 DEF IInv, Sizes

LEMMA InvShrink ==
  ASSUME IInv, NEW p \in Process, NEW n \in 0 .. sz[p] - 1, Shrink(p, n) PROVE IInv'
<1> USE DEF Shrink
<1> DEFINE W == Removed(p, n)
<1>1. W \in SUBSET Page /\ n \in Nat /\ sz[p] \in 0 .. TOP /\ sz[p] \in Nat /\ n < sz[p]
  BY Constants DEF IInv, TypeOK, Removed
<1>2. /\ pages' = [pages EXCEPT ![p] =
                     [v \in Page |-> IF v \in W THEN None ELSE pages[p][v]]]
      /\ guard' = [guard EXCEPT ![p] = guard[p] \ W]
      /\ Sane /\ Dealloc(p, W, {}, {}) /\ UNCHANGED <<state, pgdir, my_sp>>
  BY RunsFacts
<1>3. sz' \in [Process -> 0 .. MaxSize] /\ stack_pages' \in [Process -> Nat]
  BY <1>1, Constants DEF IInv, TypeOK
<1>4. /\ TypeOK' /\ Homes' /\ Accounted' /\ NothingShared' /\ Address0Blamed'
      /\ PanicsExplained'
      /\ \A q \in Process \ {p} : pages'[q] = pages[q] /\ guard'[q] = guard[q]
      /\ \A v \in Page : pages'[p][v] = IF v \in W THEN None ELSE pages[p][v]
      /\ guard'[p] = guard[p] \ W
  <2> HIDE DEF W
  <2> QED  BY <1>1, <1>2, <1>3, Unmap
<1>5. kernel' = kernel /\ misused' = misused
  BY DEF Dealloc
<1>6. ASSUME NEW q \in Process \ {p} PROVE SizeOf(q)'
  <2>1. sz'[q] = sz[q] /\ stack_pages'[q] = stack_pages[q] /\ state'[q] = state[q]
    BY DEF IInv, TypeOK
  <2> QED  BY <1>4, <1>5, <2>1, SizeKept
<1>7. SizeOf(p)'
  <2>1. CASE kernel = "lab3"
    <3>1. WholeLab3(p) /\ HeapLab3(p) /\ Whole(p)
      BY <2>1, RunsFacts
    <3>2. Mapped(p)' = Mapped(p) \ W
      BY <1>4 DEF Mapped
    <3>3. Whole(p)' => n # 0
      <4>1. n = 0 => 0 \in W
        BY <1>1 DEF Removed
      <4> QED  BY <3>2, <4>1 DEF Whole
    <3>4. n # 0 => sz'[p] = n
      BY DEF IInv, TypeOK
    <3>5. 0 .. n - 1 \subseteq (0 .. sz[p] - 1) \ W
      BY <1>1 DEF Removed
    <3>6. Whole(p)' => HeapLab3(p)'
      BY <3>1, <3>2, <3>3, <3>4, <3>5 DEF HeapLab3
    <3> QED  BY <1>4, <1>5, <2>1, <3>1, <3>6 DEF SizeOf, WholeLab3
  <2>2. CASE kernel = "lab4" /\ Whole(p)'
    <3>1. WholeLab4(p) /\ Whole(p) /\ Mapped(p) \subseteq 0 .. sz[p] - 1
      BY <2>2, RunsFacts DEF WholeLab4
    <3>2. Mapped(p)' = Mapped(p) \ W
      BY <1>4 DEF Mapped
    <3>3. {0, PROGRAM + 1} \subseteq Mapped(p)'
      BY <1>5, <2>2 DEF Whole, StackTop
    <3>4. n > PROGRAM + 1
      <4>1. PROGRAM + 1 \in Nat /\ PROGRAM + 1 \in 0 .. sz[p] - 1 /\ PROGRAM + 1 \notin W
        BY <3>1, <3>2, <3>3, Constants
      <4> QED  BY <1>1, <4>1 DEF Removed
    <3>5. sz'[p] = n
      BY <3>4, <1>1, Constants DEF IInv, TypeOK
    <3>6. (0 .. sz[p] - 1) \ W = 0 .. n - 1
      BY <1>1 DEF Removed
    <3>7. guard'[p] = {PROGRAM}
      <4>1. PROGRAM \notin W
        BY <3>4, <1>1, Constants DEF Removed
      <4> QED  BY <1>4, <3>1, <4>1 DEF WholeLab4
    <3>8. "not mapped" \in misused \/ 0 .. sz[p] - 1 \subseteq Mapped(p)
      BY <3>1 DEF WholeLab4
    <3> QED  BY <1>5, <2>2, <3>1, <3>2, <3>5, <3>6, <3>7, <3>8 DEF SizeOf, WholeLab4
  <2> QED  BY <1>5, <2>1, <2>2 DEF SizeOf, IInv, TypeOK
<1> QED  BY <1>4, <1>6, <1>7 DEF IInv, Sizes

(* The page directory of a process that is not dead.                       *)
LEMMA DirectoryFacts ==
  ASSUME IInv, NEW p \in Process, state[p] # "dead"
  PROVE  /\ pgdir[p] \in Home(p, TOP) /\ pgdir[p] \in Frame
         /\ pgdir[p] \notin ShmFrame /\ pgdir[p] # SpareFrame /\ pgdir[p] # None
         /\ \A q \in Process, v \in Page : pgdir[p] \notin Home(q, v)
         /\ \A q \in Process : q # p => pgdir[p] \notin Home(q, TOP)
<1>1. pgdir[p] \in Home(p, TOP)
  BY DEF IInv, Homes
<1>2. TOP \in 0 .. TOP /\ Page \subseteq 0 .. TOP /\ TOP \notin Page
  BY Constants
<1>3. pgdir[p] # SpareFrame
  BY <1>1, <1>2, HomeFacts
<1>4. pgdir[p] # None
  BY <1>1, <1>2, HomeFacts
<1> QED  BY <1>1, <1>2, <1>3, <1>4, HomeFacts

(* What deallocuvm() takes from others: nothing of their own.              *)
LEMMA FramesOfOthers ==
  ASSUME IInv, NEW p \in Process, NEW W \in SUBSET Page
  PROVE  /\ \A q \in Process \ {p}, v \in Page : \A f \in Home(q, v) : f \notin FramesOf(p, W)
         /\ \A q \in Process : \A f \in Home(q, TOP) : f \notin FramesOf(p, W)
         /\ \A v \in Page : \A f \in Home(p, v) : v \in W =>
              (f \in FramesOf(p, W) <=> pages[p][v] = f)
         /\ FramesOf(p, W) \subseteq Frame /\ SpareFrame \notin FramesOf(p, W)
<1>1. \A u \in Page : pages[p][u] \in Home(p, u) \cup ShmFrame \cup {Address0, None}
  BY MappingFacts
<1>2. ASSUME NEW q \in Process, NEW v \in 0 .. TOP, NEW f \in Home(q, v)
      PROVE  f \in FramesOf(p, W) <=> \E u \in W : pages[p][u] = f /\ q = p /\ v = u
  <2>1. f \in Frame /\ f \notin ShmFrame /\ f # Address0 /\ f # None
    BY HomeFacts
  <2>2. \A u \in W : pages[p][u] = f => q = p /\ v = u
    BY <1>1, <2>1, HomeFacts, Constants
  <2> QED  BY <2>1, <2>2 DEF FramesOf
<1>3. TOP \in 0 .. TOP /\ Page \subseteq 0 .. TOP /\ TOP \notin Page
  BY Constants
<1>4. \A q \in Process \ {p}, v \in Page : \A f \in Home(q, v) : f \notin FramesOf(p, W)
  BY <1>2, <1>3
<1>5. \A q \in Process : \A f \in Home(q, TOP) : f \notin FramesOf(p, W)
  BY <1>2, <1>3
<1>6. \A v \in Page : \A f \in Home(p, v) : v \in W =>
        (f \in FramesOf(p, W) <=> pages[p][v] = f)
  BY <1>2, <1>3
<1>7. FramesOf(p, W) \subseteq Frame /\ SpareFrame \notin FramesOf(p, W)
  <2>1. \A u \in W : pages[p][u] # SpareFrame
    BY <1>1, <1>3, HomeFacts, ShmHomeFacts
  <2> QED  BY <2>1 DEF FramesOf
<1> QED  BY <1>4, <1>5, <1>6, <1>7

LEMMA InvWait == ASSUME IInv, NEW p \in Process, Wait(p) PROVE IInv'
<1> USE DEF Wait
<1> DEFINE W == Mapped(p)
<1>1. /\ W \in SUBSET Page /\ Sane /\ Dealloc(p, W, {pgdir[p]}, {})
      /\ PrivateAccounted /\ SharedAccounted
  BY DEF Mapped, IInv, Accounted, Sane
<1>2. /\ free' = free \cup FramesOf(p, W) \cup {pgdir[p]} /\ shared' = shared \ FramesOf(p, W)
      /\ UNCHANGED <<lost, misused, kernel, shm_pages>>
  BY <1>1 DEF Dealloc
<1>3. /\ \A q \in Process \ {p} :
           /\ pages'[q] = pages[q] /\ guard'[q] = guard[q] /\ sz'[q] = sz[q]
           /\ stack_pages'[q] = stack_pages[q] /\ state'[q] = state[q] /\ pgdir'[q] = pgdir[q]
      /\ pages'[p] = NoPages /\ state'[p] = "dead" /\ pgdir'[p] = None
      /\ \A v \in Page : pages'[p][v] = None
  BY DEF IInv, TypeOK, NoPages
<1>4. /\ misfreed' \subseteq Frame /\ (kernel = "lab3" => misfreed' = {})
      /\ panic' \in {"kfree", None} /\ (panic' = "kfree" => "no frame" \in misused)
      /\ FramesOf(p, W) \subseteq Frame /\ SpareFrame \notin FramesOf(p, W)
      /\ pgdir[p] \in Frame /\ pgdir[p] # SpareFrame
  <2> HIDE DEF W
  <2>1. misfreed' \subseteq Frame /\ (kernel = "lab3" => misfreed' = {})
    BY <1>1, DeallocFacts
  <2>2. panic' \in {"kfree", None} /\ (panic' = "kfree" => "no frame" \in misused)
    BY <1>1, DeallocFacts
  <2>3. FramesOf(p, W) \subseteq Frame /\ SpareFrame \notin FramesOf(p, W)
    BY <1>1, FramesOfOthers
  <2>4. pgdir[p] \in Frame /\ pgdir[p] # SpareFrame
    <3>1. state[p] # "dead"
      OBVIOUS
    <3> QED  BY <3>1, DirectoryFacts
  <2> QED  BY <2>1, <2>2, <2>3, <2>4
<1>5. TypeOK'
  <2>1. NoPages \in Space
    BY DEF NoPages, Space
  <2>2. pages' \in [Process -> Space] /\ guard' \in [Process -> SUBSET Page]
        /\ sz' \in [Process -> 0 .. MaxSize] /\ stack_pages' \in [Process -> Nat]
        /\ state' \in [Process -> {"dead", "live", "zombie"}]
        /\ pgdir' \in [Process -> Frame \cup {None}]
    BY <2>1, Constants DEF IInv, TypeOK
  <2>3. free' \subseteq Frame /\ shared' \subseteq Frame
    BY <1>2, <1>4 DEF IInv, TypeOK
  <2> QED  BY <1>2, <1>4, <2>2, <2>3 DEF IInv, TypeOK
<1>6. Homes'
  BY <1>2, <1>3 DEF IInv, Homes
<1>7. ASSUME misfreed' = {} PROVE PrivateAccounted' /\ SharedAccounted'
  <2>1. ASSUME NEW q \in Process, NEW v \in Page, NEW f \in Home(q, v)
        PROVE  f \in free' <=> pages'[q][v] # f
    <3>1. f # pgdir[p] /\ f # None
      BY DirectoryFacts, HomeFacts, Constants
    <3>2. CASE q = p
      <4>1. f \in free \/ pages[p][v] = f
        BY <1>1, <3>2 DEF PrivateAccounted
      <4>2. pages[p][v] = f => f \in FramesOf(p, W)
        BY <1>1, <3>1, <3>2, FramesOfOthers DEF Mapped
      <4> QED  BY <1>2, <1>3, <3>1, <3>2, <4>1, <4>2
    <3>3. CASE q # p
      <4>1. f \notin FramesOf(p, W)
        BY <1>1, <3>3, FramesOfOthers
      <4> QED  BY <1>1, <1>2, <1>3, <3>1, <3>3, <4>1 DEF PrivateAccounted
    <3> QED  BY <3>2, <3>3
  <2>2. ASSUME NEW q \in Process, NEW f \in Home(q, TOP)
        PROVE  f \in free' <=> pgdir'[q] # f
    <3>1. f \notin FramesOf(p, W) /\ f # None
      BY <1>1, FramesOfOthers, HomeFacts, Constants
    <3>2. q # p => f # pgdir[p]
      BY DirectoryFacts
    <3> QED  BY <1>1, <1>2, <1>3, <3>1, <3>2 DEF PrivateAccounted
  <2>3. PrivateAccounted'
    <3>1. SpareFrame \in free' <=> SpareFrame \in free
      BY <1>2, <1>4, DirectoryFacts
    <3> QED  BY <1>1, <1>2, <2>1, <2>2, <3>1 DEF PrivateAccounted
  <2>4. SharedAccounted'
    <3>1. \A f \in ShmFrame : f \notin {pgdir[p]} \cup {}
      BY DirectoryFacts
    <3>2. \A v \in Page, f \in ShmFrame : pages'[p][v] = f <=> v \notin W /\ pages[p][v] = f
      BY <1>3, ShmHomeFacts DEF Mapped
    <3>3. \A q \in Process \ {p} : pages'[q] = pages[q]
      BY <1>3
    <3> HIDE DEF W
    <3> QED  BY <1>1, <1>7, <3>1, <3>2, <3>3, UnmapShared
  <2> QED  BY <2>3, <2>4
<1>8. NothingShared' /\ Address0Blamed' /\ PanicsExplained'
  <2>1. NothingShared'
    BY <1>2, <1>4 DEF IInv, NothingShared
  <2>2. Address0Blamed'
    <3>1. Address0Blamed /\ None # Address0
      BY ShmHomeFacts DEF IInv
    <3>2. SUFFICES ASSUME NEW q \in Process, NEW v \in Page, pages'[q][v] = Address0
                   PROVE  "no frame" \in misused'
      BY DEF Address0Blamed
    <3>3. q # p /\ pages[q][v] = Address0
      BY <1>3, <3>1, <3>2
    <3> QED  BY <1>2, <3>1, <3>3 DEF Address0Blamed
  <2>3. PanicsExplained'
    BY <1>2, <1>4, Messages DEF PanicsExplained
  <2> QED  BY <2>1, <2>2, <2>3
<1>9. ASSUME NEW q \in Process PROVE SizeOf(q)'
  <2>1. CASE q = p
    BY <1>3, <2>1 DEF SizeOf, Whole
  <2>2. CASE q # p
    BY <1>2, <1>3, <2>2, SizeKept
  <2> QED  BY <2>1, <2>2
<1> QED  BY <1>5, <1>6, <1>7, <1>8, <1>9 DEF IInv, Sizes, Accounted

(* The image that exec() makes.                                            *)
LEMMA ImageFacts ==
  ASSUME kernel \in {"lab3", "lab4"}
  PROVE  /\ Image \in SUBSET Page /\ ImageGuard \in SUBSET Page /\ ImageSize \in 0 .. TOP
         /\ kernel = "lab3" => TOP - 1 \notin ImageGuard /\ 0 .. ImageSize - 1 \subseteq Image
         /\ kernel = "lab4" => /\ ImageSize = PROGRAM + 2 /\ Image = 0 .. ImageSize - 1
                              /\ ImageGuard = {PROGRAM}
BY Constants DEF Image, ImageGuard, ImageSize

(* A process whose memory is that image.                                   *)
LEMMA ImageSizes ==
  ASSUME IInv, NEW p \in Process, kernel' = kernel, misused' = misused,
         Mapped(p)' = Image, guard'[p] = ImageGuard, sz'[p] = ImageSize, stack_pages'[p] = 1
  PROVE  SizeOf(p)'
<1>1. /\ kernel = "lab3" => TOP - 1 \notin ImageGuard /\ 0 .. ImageSize - 1 \subseteq Image
      /\ kernel = "lab4" => /\ Image = 0 .. ImageSize - 1 /\ ImageGuard = {PROGRAM}
  BY ImageFacts DEF IInv, TypeOK
<1>2. kernel = "lab3" => WholeLab3(p)' /\ HeapLab3(p)'
  BY <1>1 DEF WholeLab3, HeapLab3
<1>3. kernel = "lab4" => WholeLab4(p)'
  BY <1>1 DEF WholeLab4
<1> QED  BY <1>2, <1>3 DEF SizeOf

(* Its frames may be those of the old image, which are freed.              *)
LEMMA ExecFrames ==
  ASSUME IInv, Sane, NEW p \in Process, state[p] # "dead"
  PROVE  \A v \in 0 .. TOP :
           /\ \A f \in Home(p, v) : f \in free \cup Freed(p)
           /\ (free \cup Freed(p)) \cap Home(p, v) # {}
<1> DEFINE W == Mapped(p)
<1>1. W \in SUBSET Page /\ PrivateAccounted
  BY DEF Mapped, IInv, Accounted, Sane
<1>2. ASSUME NEW v \in Page, NEW f \in Home(p, v) PROVE f \in free \cup Freed(p)
  <2>1. f \in free \/ pages[p][v] = f
    BY <1>1 DEF PrivateAccounted
  <2>2. v \in 0 .. TOP /\ f # None
    BY HomeFacts, Constants
  <2>3. pages[p][v] = f => v \in W /\ f \in FramesOf(p, W)
    <3>1. pages[p][v] = f => v \in W
      BY <2>2 DEF Mapped
    <3> HIDE DEF W
    <3> QED  BY <1>1, <3>1, FramesOfOthers
  <2> QED  BY <2>1, <2>3 DEF Freed
<1>3. ASSUME NEW f \in Home(p, TOP) PROVE f \in free \cup Freed(p)
  BY <1>1 DEF PrivateAccounted, Freed
<1>4. \A v \in 0 .. TOP : v = TOP \/ v \in Page
  BY Constants
<1>5. ASSUME NEW v \in 0 .. TOP PROVE Home(p, v) # {}
  <2>1. <<p, v, 1>> \in Home(p, v)
    BY DEF Home
  <2> QED  BY <2>1
<1> QED  BY <1>2, <1>3, <1>4, <1>5

LEMMA InvExec == ASSUME IInv, NEW p \in Process, Exec(p) PROVE IInv'
<1> DEFINE W == Mapped(p)
           F == free \cup Freed(p)
           N == NewSpace(p, Image, F)
<1>1. /\ W \in SUBSET Page /\ Sane /\ Dealloc(p, W, {pgdir[p]}, N)
      /\ PrivateAccounted /\ SharedAccounted /\ state[p] = "live" /\ state[p] # "dead"
  BY RunsFacts DEF Mapped, Exec
<1>2. /\ free' = F \ N /\ shared' = shared \ FramesOf(p, W)
      /\ UNCHANGED <<lost, misused, kernel, shm_pages, state>>
  BY <1>1 DEF Dealloc, Freed, Exec
<1>3. /\ Image \in SUBSET Page /\ ImageGuard \in SUBSET Page /\ ImageSize \in 0 .. TOP
      /\ \A v \in 0 .. TOP : F \cap Home(p, v) # {}
      /\ \A v \in 0 .. TOP : \A f \in Home(p, v) : f \in F
  BY <1>1, ImageFacts, ExecFrames DEF IInv, TypeOK
<1>4. /\ NewPages(p, Image, F) \in Space
      /\ \A v \in Page : NewPages(p, Image, F)[v] =
           IF v \in Image THEN KallocFrom(F, Home(p, v)) ELSE None
      /\ \A v \in Image \cup {TOP} : KallocFrom(F, Home(p, v)) \in F \cap Home(p, v)
      /\ N \subseteq Frame /\ N \cap ShmFrame = {} /\ SpareFrame \notin N
      /\ \A q \in Process, v \in 0 .. TOP : \A f \in Home(q, v) :
           f \in N <=> q = p /\ v \in Image \cup {TOP} /\ f = KallocFrom(F, Home(p, v))
  <2>1. \A v \in Image \cup {TOP} : F \cap Home(p, v) # {}
    BY <1>3, Constants
  <2> HIDE DEF F
  <2>2. /\ NewPages(p, Image, F) \in Space
        /\ \A v \in Page : NewPages(p, Image, F)[v] =
             IF v \in Image THEN KallocFrom(F, Home(p, v)) ELSE None
    BY <1>3, <2>1, NewPagesFacts
  <2>3. \A v \in Image \cup {TOP} : KallocFrom(F, Home(p, v)) \in F \cap Home(p, v)
    BY <1>3, <2>1, NewFrames
  <2>4. N \subseteq Frame /\ N \cap ShmFrame = {} /\ SpareFrame \notin N
    BY <1>3, <2>1, NewSpaceFacts
  <2>5. \A q \in Process, v \in 0 .. TOP : \A f \in Home(q, v) :
          f \in N <=> q = p /\ v \in Image \cup {TOP} /\ f = KallocFrom(F, Home(p, v))
    BY <1>3, <2>1, NewSpaceHomes
  <2> QED  BY <2>2, <2>3, <2>4, <2>5
<1>5. /\ pgdir' = [pgdir EXCEPT ![p] = KallocFrom(F, Home(p, TOP))]
      /\ pages' = [pages EXCEPT ![p] = NewPages(p, Image, F)]
      /\ guard' = [guard EXCEPT ![p] = ImageGuard]
      /\ sz' = [sz EXCEPT ![p] = ImageSize]
      /\ stack_pages' = [stack_pages EXCEPT ![p] = 1]
      /\ my_sp' = [my_sp EXCEPT ![p] = IF kernel = "lab3" THEN TOP - 1 ELSE @]
  BY DEF Exec
<1> HIDE DEF F, N, W
<1>6. /\ \A q \in Process \ {p} :
           /\ pages'[q] = pages[q] /\ guard'[q] = guard[q] /\ sz'[q] = sz[q]
           /\ stack_pages'[q] = stack_pages[q] /\ pgdir'[q] = pgdir[q]
           /\ my_sp'[q] = my_sp[q]
      /\ pages'[p] = NewPages(p, Image, F) /\ pgdir'[p] = KallocFrom(F, Home(p, TOP))
      /\ guard'[p] = ImageGuard /\ sz'[p] = ImageSize /\ stack_pages'[p] = 1
  BY <1>5 DEF IInv, TypeOK
<1>7. /\ misfreed' \subseteq Frame /\ (kernel = "lab3" => misfreed' = {})
      /\ panic' \in {"kfree", None} /\ (panic' = "kfree" => "no frame" \in misused)
      /\ FramesOf(p, W) \subseteq Frame /\ SpareFrame \notin FramesOf(p, W)
      /\ pgdir[p] \in Frame /\ pgdir[p] # SpareFrame
  <2>1. misfreed' \subseteq Frame /\ (kernel = "lab3" => misfreed' = {})
    BY <1>1, DeallocFacts
  <2>2. panic' \in {"kfree", None} /\ (panic' = "kfree" => "no frame" \in misused)
    BY <1>1, DeallocFacts
  <2>3. FramesOf(p, W) \subseteq Frame /\ SpareFrame \notin FramesOf(p, W)
    BY <1>1, FramesOfOthers
  <2>4. pgdir[p] \in Frame /\ pgdir[p] # SpareFrame
    BY <1>1, DirectoryFacts
  <2> QED  BY <2>1, <2>2, <2>3, <2>4
<1>8. \A v \in Image \cup {TOP} :
        /\ KallocFrom(F, Home(p, v)) \in Home(p, v) /\ KallocFrom(F, Home(p, v)) \in Frame
        /\ KallocFrom(F, Home(p, v)) # None /\ KallocFrom(F, Home(p, v)) # Address0
        /\ KallocFrom(F, Home(p, v)) \notin ShmFrame
  <2>1. Image \cup {TOP} \subseteq 0 .. TOP
    BY <1>3, Constants
  <2> QED  BY <1>4, <2>1, HomeFacts
<1>9. F = free \cup FramesOf(p, W) \cup {pgdir[p]}
  BY DEF F, W, Freed
<1>10. TypeOK'
  <2>1. pages' \in [Process -> Space] /\ pgdir' \in [Process -> Frame \cup {None}]
    BY <1>4, <1>5, <1>8 DEF IInv, TypeOK
  <2>2. guard' \in [Process -> SUBSET Page] /\ sz' \in [Process -> 0 .. MaxSize]
        /\ stack_pages' \in [Process -> Nat] /\ my_sp' \in [Process -> {-1, TOP - 1}]
    BY <1>3, <1>5, Constants DEF IInv, TypeOK
  <2>3. free' \subseteq Frame /\ shared' \subseteq Frame
    BY <1>2, <1>7, <1>9 DEF IInv, TypeOK
  <2> QED  BY <1>2, <1>7, <2>1, <2>2, <2>3 DEF IInv, TypeOK
<1>11. Homes'
  <2>1. \A v \in Page : pages'[p][v] \in Home(p, v) \cup ShmFrame \cup {Address0, None}
    BY <1>3, <1>4, <1>6, <1>8
  <2>2. pgdir'[p] \in Home(p, TOP)
    BY <1>6, <1>8
  <2>3. /\ \A q \in Process, v \in Page :
             pages'[q][v] \in Home(q, v) \cup ShmFrame \cup {Address0, None}
        /\ \A q \in Process :
             pgdir'[q] \in IF state'[q] = "dead" THEN {None} ELSE Home(q, TOP)
        /\ \A q \in Process : state'[q] = "dead" => pages'[q] = NoPages
    <3>1. Homes
      BY DEF IInv
    <3> QED  BY <1>1, <1>2, <1>6, <2>1, <2>2, <3>1 DEF Homes
  <2> QED  BY <1>2, <2>3 DEF IInv, Homes
<1>12. PrivateAccounted'
  <2>1. ASSUME NEW q \in Process, NEW v \in Page, NEW f \in Home(q, v)
        PROVE  f \in free' <=> pages'[q][v] # f
    <3>1. f # pgdir[p] /\ f # None /\ v \in 0 .. TOP /\ v # TOP
      BY <1>1, DirectoryFacts, HomeFacts, Constants
    <3>2. f \in N <=> q = p /\ v \in Image /\ f = KallocFrom(F, Home(p, v))
      BY <1>4, <3>1
    <3>3. CASE q = p
      <4>1. f \in F
        BY <1>3, <3>1, <3>3
      <4>2. pages'[p][v] = IF v \in Image THEN KallocFrom(F, Home(p, v)) ELSE None
        BY <1>4, <1>6
      <4> QED  BY <1>2, <3>1, <3>2, <3>3, <4>1, <4>2
    <3>4. CASE q # p
      <4>1. f \notin FramesOf(p, W)
        BY <1>1, <3>4, FramesOfOthers
      <4>2. f \in free' <=> f \in free
        BY <1>2, <1>9, <3>1, <3>2, <3>4, <4>1
      <4> QED  BY <1>1, <1>6, <3>4, <4>2 DEF PrivateAccounted
    <3> QED  BY <3>3, <3>4
  <2>2. ASSUME NEW q \in Process, NEW f \in Home(q, TOP)
        PROVE  f \in free' <=> pgdir'[q] # f
    <3>1. TOP \in 0 .. TOP /\ f \notin FramesOf(p, W)
      BY <1>1, FramesOfOthers, Constants
    <3>2. f \in N <=> q = p /\ f = KallocFrom(F, Home(p, TOP))
      BY <1>4, <3>1
    <3>3. CASE q = p
      BY <1>2, <1>3, <1>6, <3>1, <3>2, <3>3
    <3>4. CASE q # p
      <4>1. f # pgdir[p]
        BY <1>1, <3>4, DirectoryFacts
      <4> QED  BY <1>1, <1>2, <1>6, <1>9, <3>1, <3>2, <3>4, <4>1 DEF PrivateAccounted
    <3> QED  BY <3>3, <3>4
  <2>3. SpareFrame \in free' <=> SpareFrame \notin lost'
    BY <1>1, <1>2, <1>4, <1>7, <1>9 DEF PrivateAccounted
  <2> QED  BY <2>1, <2>2, <2>3 DEF PrivateAccounted
<1>13. ASSUME misfreed' = {} PROVE SharedAccounted'
  <2>1. \A f \in ShmFrame : f \notin {pgdir[p]} \cup N
    BY <1>1, <1>4, DirectoryFacts
  <2>2. \A v \in Page, f \in ShmFrame : pages'[p][v] = f <=> v \notin W /\ pages[p][v] = f
    BY <1>3, <1>4, <1>6, <1>8, ShmHomeFacts DEF W, Mapped
  <2>3. \A q \in Process \ {p} : pages'[q] = pages[q]
    BY <1>6
  <2> QED  BY <1>1, <1>13, <2>1, <2>2, <2>3, UnmapShared
<1>14. NothingShared' /\ Address0Blamed' /\ PanicsExplained'
  <2>1. NothingShared'
    BY <1>2, <1>7 DEF IInv, NothingShared
  <2>2. Address0Blamed'
    <3>1. Address0Blamed /\ None # Address0
      BY ShmHomeFacts DEF IInv
    <3>2. SUFFICES ASSUME NEW q \in Process, NEW v \in Page, pages'[q][v] = Address0
                   PROVE  "no frame" \in misused'
      BY DEF Address0Blamed
    <3>3. q # p /\ pages[q][v] = Address0
      BY <1>3, <1>4, <1>6, <1>8, <3>1, <3>2
    <3> QED  BY <1>2, <3>1, <3>3 DEF Address0Blamed
  <2>3. PanicsExplained'
    BY <1>2, <1>7, Messages DEF PanicsExplained
  <2> QED  BY <2>1, <2>2, <2>3
<1>15. ASSUME NEW q \in Process PROVE SizeOf(q)'
  <2>1. CASE q = p
    <3>1. Mapped(p)' = Image
      BY <1>3, <1>4, <1>6, <1>8 DEF Mapped
    <3> QED  BY <1>2, <1>6, <2>1, <3>1, ImageSizes
  <2>2. CASE q # p
    BY <1>2, <1>6, <2>2, SizeKept
  <2> QED  BY <2>1, <2>2
<1> QED  BY <1>10, <1>11, <1>12, <1>13, <1>14, <1>15 DEF IInv, Sizes, Accounted

(* The slot of a process that is gone: all its frames are free.            *)
LEMMA DeadFrames ==
  ASSUME IInv, Sane, NEW c \in Process, state[c] = "dead"
  PROVE  /\ pgdir[c] = None /\ \A v \in Page : pages[c][v] = None
         /\ \A v \in 0 .. TOP : \A f \in Home(c, v) : f \in free
         /\ \A v \in 0 .. TOP : free \cap Home(c, v) # {}
<1>1. pgdir[c] = None /\ \A v \in Page : pages[c][v] = None
  BY DEF IInv, Homes, NoPages
<1>2. ASSUME NEW v \in 0 .. TOP, NEW f \in Home(c, v) PROVE f \in free
  <2>1. f # None /\ (v = TOP \/ v \in Page)
    BY HomeFacts, Constants
  <2> QED  BY <1>1, <2>1 DEF IInv, Sane, Accounted, PrivateAccounted
<1>3. ASSUME NEW v \in 0 .. TOP PROVE free \cap Home(c, v) # {}
  <2>1. <<c, v, 1>> \in Home(c, v)
    BY DEF Home
  <2> QED  BY <1>2, <2>1
<1> QED  BY <1>1, <1>2, <1>3

(* What copyuvm() copies, and the pages it leaves without PTE_U.           *)
LEMMA CopyFacts ==
  ASSUME IInv, NEW p \in Process, Runs(p), CopiedOnce(p)
  PROVE  /\ ToCopy(p) \in SUBSET Page /\ 0 .. sz[p] - 1 \subseteq ToCopy(p)
         /\ ChildGuard(p) \in SUBSET Page /\ ParentGuard(p) \in SUBSET Page
         /\ kernel = "lab3" => TOP - 1 \notin ChildGuard(p) /\ TOP - 1 \notin ParentGuard(p)
         /\ kernel = "lab4" => /\ ToCopy(p) = 0 .. sz[p] - 1
                              /\ ChildGuard(p) = {PROGRAM} /\ ParentGuard(p) = {PROGRAM}
<1>0. 0 .. sz[p] - 1 \subseteq ToCopy(p)
  BY DEF ToCopy
<1>1. sz[p] \in 0 .. MaxSize /\ guard[p] \subseteq Page /\ stack_pages[p] \in Nat
      /\ kernel \in {"lab3", "lab4"}
  BY DEF IInv, TypeOK
<1>2. ToCopy(p) \in SUBSET Page
  <2>1. sz[p] \in 0 .. TOP
    BY <1>1, Constants DEF CopiedOnce
  <2> QED  BY <1>1, <2>1, Constants DEF ToCopy, StackPages
<1>3. ChildGuard(p) \in SUBSET Page /\ ParentGuard(p) \in SUBSET Page
  BY <1>1, <1>2 DEF ChildGuard, ParentGuard, Mapped
<1>4. CASE kernel = "lab3"
  <2>1. stack_pages[p] >= 1 /\ TOP - 1 \notin guard[p]
    BY <1>4, RunsFacts DEF WholeLab3
  <2>2. TOP - 1 - stack_pages[p] # TOP - 1
    BY <1>1, <2>1, Constants
  <2>3. TOP - 1 \notin ChildGuard(p) /\ TOP - 1 \notin ParentGuard(p)
    BY <1>4, <2>1, <2>2 DEF ChildGuard, ParentGuard
  <2> QED  BY <1>0, <1>2, <1>3, <1>4, <2>3
<1>5. CASE kernel = "lab4"
  <2>1. guard[p] = {PROGRAM} /\ Mapped(p) \subseteq 0 .. sz[p] - 1
    BY <1>5, RunsFacts DEF WholeLab4
  <2>2. ToCopy(p) = 0 .. sz[p] - 1
    BY <1>5 DEF ToCopy, StackPages
  <2>3. PROGRAM + 1 \in 0 .. sz[p] - 1
    BY <1>5, <2>1, RunsFacts DEF Whole, StackTop
  <2>4. PROGRAM \in 0 .. sz[p] - 1
    BY <1>1, <2>3, Constants
  <2> QED  BY <1>0, <1>2, <1>3, <1>5, <2>1, <2>2, <2>4 DEF ChildGuard, ParentGuard
<1> QED  BY <1>1, <1>4, <1>5

LEMMA InvFork ==
  ASSUME IInv, NEW p \in Process, NEW c \in Process, Fork(p, c) PROVE IInv'
<1> DEFINE W == ToCopy(p)
           N == NewSpace(c, W, free)
<1>1. /\ Runs(p) /\ Sane /\ misfreed = {} /\ panic = None /\ PrivateAccounted
      /\ SharedAccounted /\ state[c] = "dead" /\ c # p /\ CopiedOnce(p)
  BY RunsFacts DEF Fork
<1>2. /\ W \in SUBSET Page /\ W \cup {TOP} \subseteq 0 .. TOP
      /\ ChildGuard(p) \in SUBSET Page /\ ParentGuard(p) \in SUBSET Page
      /\ pgdir[c] = None /\ \A v \in Page : pages[c][v] = None
      /\ \A v \in 0 .. TOP : \A f \in Home(c, v) : f \in free
      /\ \A v \in W \cup {TOP} : free \cap Home(c, v) # {}
  <2>1. W \in SUBSET Page /\ W \cup {TOP} \subseteq 0 .. TOP
    BY <1>1, CopyFacts, Constants
  <2>2. ChildGuard(p) \in SUBSET Page /\ ParentGuard(p) \in SUBSET Page
    BY <1>1, CopyFacts
  <2> QED  BY <1>1, <2>1, <2>2, DeadFrames
<1>3. /\ free' = free \ N
      /\ pgdir' = [pgdir EXCEPT ![c] = KallocFrom(free, Home(c, TOP))]
      /\ pages' = [pages EXCEPT ![c] = NewPages(c, W, free)]
      /\ guard' = [guard EXCEPT ![c] = ChildGuard(p), ![p] = ParentGuard(p)]
      /\ sz' = [sz EXCEPT ![c] = sz[p]]
      /\ stack_pages' = [stack_pages EXCEPT ![c] = stack_pages[p]]
      /\ state' = [state EXCEPT ![c] = "live"]
      /\ UNCHANGED <<kernel, my_sp, shm_pages, shared, lost, misfreed, misused, panic>>
  BY DEF Fork, NewPage, histories
<1> HIDE DEF W
<1>4. /\ NewPages(c, W, free) \in Space
      /\ \A v \in Page : NewPages(c, W, free)[v] =
           IF v \in W THEN KallocFrom(free, Home(c, v)) ELSE None
      /\ \A v \in W \cup {TOP} : KallocFrom(free, Home(c, v)) \in free \cap Home(c, v)
      /\ N \cap ShmFrame = {} /\ SpareFrame \notin N
      /\ \A q \in Process, v \in 0 .. TOP : \A f \in Home(q, v) :
           f \in N <=> q = c /\ v \in W \cup {TOP} /\ f = KallocFrom(free, Home(c, v))
  <2>1. /\ NewPages(c, W, free) \in Space
        /\ \A v \in Page : NewPages(c, W, free)[v] =
             IF v \in W THEN KallocFrom(free, Home(c, v)) ELSE None
    BY <1>2, NewPagesFacts
  <2>2. \A v \in W \cup {TOP} : KallocFrom(free, Home(c, v)) \in free \cap Home(c, v)
    BY <1>2, NewFrames
  <2>3. N \cap ShmFrame = {} /\ SpareFrame \notin N
    BY <1>2, NewSpaceFacts
  <2>4. \A q \in Process, v \in 0 .. TOP : \A f \in Home(q, v) :
          f \in N <=> q = c /\ v \in W \cup {TOP} /\ f = KallocFrom(free, Home(c, v))
    BY <1>2, NewSpaceHomes
  <2> QED  BY <2>1, <2>2, <2>3, <2>4
<1> HIDE DEF N
<1>5. \A v \in W \cup {TOP} :
        /\ KallocFrom(free, Home(c, v)) \in Home(c, v) /\ KallocFrom(free, Home(c, v)) \in Frame
        /\ KallocFrom(free, Home(c, v)) # None /\ KallocFrom(free, Home(c, v)) # Address0
        /\ KallocFrom(free, Home(c, v)) \notin ShmFrame
  BY <1>2, <1>4, HomeFacts
<1>6. /\ \A q \in Process \ {c} :
           /\ pages'[q] = pages[q] /\ sz'[q] = sz[q] /\ state'[q] = state[q]
           /\ stack_pages'[q] = stack_pages[q] /\ pgdir'[q] = pgdir[q]
      /\ \A q \in Process \ {c, p} : guard'[q] = guard[q]
      /\ guard'[p] = ParentGuard(p) /\ guard'[c] = ChildGuard(p)
      /\ pages'[c] = NewPages(c, W, free) /\ pgdir'[c] = KallocFrom(free, Home(c, TOP))
      /\ sz'[c] = sz[p] /\ stack_pages'[c] = stack_pages[p] /\ state'[c] = "live"
  BY <1>1, <1>3 DEF IInv, TypeOK
<1>7. TypeOK'
  <2>1. pages' \in [Process -> Space] /\ pgdir' \in [Process -> Frame \cup {None}]
    BY <1>3, <1>4, <1>5 DEF IInv, TypeOK
  <2>2. guard' \in [Process -> SUBSET Page] /\ sz' \in [Process -> 0 .. MaxSize]
        /\ stack_pages' \in [Process -> Nat]
        /\ state' \in [Process -> {"dead", "live", "zombie"}]
    BY <1>2, <1>3 DEF IInv, TypeOK
  <2> QED  BY <1>3, <2>1, <2>2 DEF IInv, TypeOK
<1>8. Homes'
  <2>1. \A v \in Page : pages'[c][v] \in Home(c, v) \cup ShmFrame \cup {Address0, None}
    BY <1>4, <1>5, <1>6
  <2>2. pgdir'[c] \in Home(c, TOP)
    BY <1>5, <1>6
  <2>3. Homes
    BY DEF IInv
  <2> QED  BY <1>3, <1>6, <2>1, <2>2, <2>3 DEF Homes
<1>9. PrivateAccounted'
  <2>1. ASSUME NEW q \in Process, NEW v \in Page, NEW f \in Home(q, v)
        PROVE  f \in free' <=> pages'[q][v] # f
    <3>1. f # None /\ v \in 0 .. TOP /\ v # TOP
      BY HomeFacts, Constants
    <3>2. f \in N <=> q = c /\ v \in W /\ f = KallocFrom(free, Home(c, v))
      BY <1>4, <3>1
    <3>3. CASE q = c
      <4>1. f \in free
        BY <1>2, <3>1, <3>3
      <4>2. pages'[c][v] = IF v \in W THEN KallocFrom(free, Home(c, v)) ELSE None
        BY <1>4, <1>6
      <4> QED  BY <1>3, <3>1, <3>2, <3>3, <4>1, <4>2
    <3>4. CASE q # c
      BY <1>1, <1>3, <1>6, <3>2, <3>4 DEF PrivateAccounted
    <3> QED  BY <3>3, <3>4
  <2>2. ASSUME NEW q \in Process, NEW f \in Home(q, TOP)
        PROVE  f \in free' <=> pgdir'[q] # f
    <3>1. TOP \in 0 .. TOP
      BY Constants
    <3>2. f \in N <=> q = c /\ f = KallocFrom(free, Home(c, TOP))
      BY <1>4, <3>1
    <3>3. CASE q = c
      BY <1>2, <1>3, <1>6, <3>1, <3>2, <3>3
    <3>4. CASE q # c
      BY <1>1, <1>3, <1>6, <3>2, <3>4 DEF PrivateAccounted
    <3> QED  BY <3>3, <3>4
  <2>3. SpareFrame \in free' <=> SpareFrame \notin lost'
    BY <1>1, <1>3, <1>4 DEF PrivateAccounted
  <2> QED  BY <2>1, <2>2, <2>3 DEF PrivateAccounted
<1>10. SharedAccounted'
  <2>1. ASSUME NEW f \in ShmFrame
        PROVE  /\ IsMapped(f)' <=> IsMapped(f)
               /\ InTable(f)' <=> InTable(f)
               /\ f \in free' <=> f \in free
    <3>1. \A v \in Page : pages[c][v] # f /\ pages'[c][v] # f
      BY <1>2, <1>4, <1>5, <1>6, ShmHomeFacts
    <3>2. IsMapped(f)' <=> IsMapped(f)
      BY <1>6, <3>1 DEF IsMapped
    <3>3. InTable(f)' <=> InTable(f)
      BY <1>3 DEF InTable
    <3>4. f \in free' <=> f \in free
      BY <1>3, <1>4
    <3> QED  BY <3>2, <3>3, <3>4
  <2>2. shared' = shared /\ lost' = lost /\ free' \subseteq free
    BY <1>3
  <2> QED  BY <1>1, <2>1, <2>2 DEF SharedAccounted
<1>11. NothingShared' /\ PanicsExplained'
  BY <1>1, <1>3, NoneAssumption DEF IInv, NothingShared, PanicsExplained
<1>12. Address0Blamed'
  <2>1. Address0Blamed /\ None # Address0
    BY ShmHomeFacts DEF IInv
  <2>2. SUFFICES ASSUME NEW q \in Process, NEW v \in Page, pages'[q][v] = Address0
                 PROVE  "no frame" \in misused'
    BY DEF Address0Blamed
  <2>3. q # c /\ pages[q][v] = Address0
    BY <1>4, <1>5, <1>6, <2>1, <2>2
  <2> QED  BY <1>3, <2>1, <2>3 DEF Address0Blamed
<1>13. ASSUME NEW q \in Process PROVE SizeOf(q)'
  <2>1. /\ kernel = "lab3" => TOP - 1 \notin ChildGuard(p) /\ TOP - 1 \notin ParentGuard(p)
        /\ kernel = "lab4" => /\ W = 0 .. sz[p] - 1
                             /\ ChildGuard(p) = {PROGRAM} /\ ParentGuard(p) = {PROGRAM}
    BY <1>1, CopyFacts DEF W
  <2>2. kernel = "lab3" => WholeLab3(p) /\ HeapLab3(p)
    BY <1>1, RunsFacts
  <2>3. kernel = "lab4" => WholeLab4(p)
    BY <1>1, RunsFacts
  <2>4. Mapped(p)' = Mapped(p)
    BY <1>1, <1>6 DEF Mapped
  <2>5. Mapped(c)' = W
    BY <1>2, <1>4, <1>5, <1>6 DEF Mapped
  <2>6. CASE q = c
    <3>1. kernel = "lab3" => WholeLab3(c)' /\ HeapLab3(c)'
      BY <1>1, <1>6, <2>1, <2>2, <2>5, CopyFacts DEF WholeLab3, HeapLab3, W
    <3>2. kernel = "lab4" => WholeLab4(c)'
      BY <1>6, <2>1, <2>5 DEF WholeLab4
    <3> QED  BY <1>3, <2>6, <3>1, <3>2 DEF SizeOf
  <2>7. CASE q = p
    <3>1. kernel = "lab3" => WholeLab3(p)' /\ HeapLab3(p)'
      BY <1>1, <1>3, <1>6, <2>1, <2>2, <2>4 DEF WholeLab3, HeapLab3
    <3>2. kernel = "lab4" => WholeLab4(p)'
      BY <1>1, <1>3, <1>6, <2>1, <2>3, <2>4 DEF WholeLab4
    <3> QED  BY <1>3, <2>7, <3>1, <3>2 DEF SizeOf
  <2>8. CASE q # c /\ q # p
    BY <1>3, <1>6, <2>8, SizeKept
  <2> QED  BY <2>6, <2>7, <2>8
<1> QED  BY <1>7, <1>8, <1>9, <1>10, <1>11, <1>12, <1>13 DEF IInv, Sizes, Accounted

-----------------------------------------------------------------------------
(* Calls of shm.c                                                          *)

LEMMA FirstIn == ASSUME NEW S \in SUBSET Nat, S # {} PROVE First(S) \in S
<1> DEFINE R == OpToRel(<, Nat)
<1>1. S \subseteq Nat
  OBVIOUS
<1>2. \E s \in S : \A t \in S : ~(<<t, s>> \in R)
  BY NatLessThanWellFounded, WFMin
<1>3. \A s, t \in Nat : <<t, s>> \in R <=> t < s
  BY DEF OpToRel
<1> HIDE DEF R
<1>4. PICK s \in S : \A t \in S : ~(<<t, s>> \in R)
  BY <1>2
<1>5. \A t \in S : ~(t < s)
  BY <1>1, <1>3, <1>4, Zenon
<1>6. \A t \in S : s <= t
  BY <1>1, <1>5, SMT
<1> QED  BY <1>6 DEF First

LEMMA EntryFacts ==
  ASSUME IInv, NEW id
  PROVE  /\ EntriesOf(id) = {s \in 1 .. SHM : shm_pages[s].id = id}
         /\ EntriesOf(id) # {} => First(EntriesOf(id)) \in EntriesOf(id)
         /\ LastOf(id) # {} => First(LastOf(id)) \in LastOf(id)
<1>1. EntriesOf(id) = {s \in 1 .. SHM : shm_pages[s].id = id}
  BY DEF EntriesOf, IInv, TypeOK
<1>2. EntriesOf(id) \in SUBSET Nat /\ LastOf(id) \in SUBSET Nat
  BY <1>1, Constants DEF LastOf
<1> QED  BY <1>1, <1>2, FirstIn

(* The end of a process of lab 4 gets a shared frame, address 0 or nothing, *)
(* and the process is a page longer.                                       *)
EndMapped(p, f) ==
  /\ \A q \in Process, v \in Page : q # p \/ v # sz[p] => pages'[q][v] = pages[q][v]
  /\ pages'[p][sz[p]] \in {f, None}

LEMMA LongerSize ==
  ASSUME IInv, NEW p \in Process, Shares(p), sz[p] < TOP,
         NEW f \in ShmFrame \cup {Address0, None},
         EndMapped(p, f), pages' \in [Process -> Space],
         sz' = [sz EXCEPT ![p] = @ + 1],
         misused \subseteq misused', pages'[p][sz[p]] = None => "not mapped" \in misused',
         UNCHANGED <<kernel, state, guard, stack_pages>>
  PROVE  /\ sz' \in [Process -> 0 .. MaxSize]
         /\ Sizes'
<1>1. /\ sz[p] \in Page /\ sz[p] \in Nat /\ kernel = "lab4" /\ WholeLab4(p) /\ Runs(p)
      /\ pages[p][sz[p]] = None /\ sz[p] + 1 \in 0 .. MaxSize
      /\ sz'[p] = sz[p] + 1
  <2>1. kernel = "lab4" /\ Runs(p)
    BY DEF Shares
  <2>2. WholeLab4(p) /\ sz[p] \notin Mapped(p)
    BY <2>1, RunsFacts
  <2>3. sz[p] \in Page /\ sz[p] \in Nat /\ sz[p] + 1 \in 0 .. MaxSize
    <3>1. sz[p] \in 0 .. MaxSize
      BY DEF IInv, TypeOK
    <3>2. sz[p] < MaxSize
      <4>1. TOP \in Nat /\ MaxSize = TOP + 1 /\ sz[p] < TOP
        BY Constants
      <4> QED  BY ONLY <3>1, <4>1
    <3> QED  BY <3>1, <3>2, OnePageMore
  <2>4. sz'[p] = sz[p] + 1
    BY DEF IInv, TypeOK
  <2> QED  BY <2>1, <2>2, <2>3, <2>4 DEF Mapped
<1>2. sz' \in [Process -> 0 .. MaxSize]
  BY <1>1 DEF IInv, TypeOK
<1>3. ASSUME NEW q \in Process \ {p} PROVE SizeOf(q)'
  <2>1. sz'[q] = sz[q] /\ Mapped(q)' = Mapped(q)
    BY DEF IInv, TypeOK, EndMapped, Mapped
  <2>2. SizeOf(q) /\ StackTop' = StackTop
    BY DEF IInv, Sizes, StackTop
  <2> QED  BY <1>1, <2>1, <2>2 DEF SizeOf, WholeLab4, Whole
<1>4. SizeOf(p)'
  <2>1. 0 .. sz'[p] - 1 = (0 .. sz[p] - 1) \cup {sz[p]}
    <3>1. sz[p] \in 0 .. MaxSize
      BY DEF IInv, TypeOK
    <3>2. sz[p] < MaxSize
      <4>1. TOP \in Nat /\ MaxSize = TOP + 1 /\ sz[p] < TOP
        BY Constants
      <4> QED  BY ONLY <3>1, <4>1
    <3> QED  BY <1>1, <3>1, <3>2, OnePageMore
  <2>2. Mapped(p) \subseteq Mapped(p)' /\ Mapped(p)' \subseteq Mapped(p) \cup {sz[p]}
    <3>1. \A v \in Page : v # sz[p] => pages'[p][v] = pages[p][v]
      BY DEF EndMapped
    <3> QED  BY <1>1, <3>1 DEF Mapped
  <2>3. pages'[p][sz[p]] # None => sz[p] \in Mapped(p)'
    BY <1>1 DEF Mapped
  <2>4. WholeLab4(p)'
    BY <1>1, <2>1, <2>2, <2>3 DEF WholeLab4
  <2> QED  BY <1>1, <2>4 DEF SizeOf
<1> QED  BY <1>2, <1>3, <1>4 DEF Sizes

LEMMA EndFacts ==
  ASSUME IInv, NEW p \in Process, Shares(p),
         NEW f \in ShmFrame \cup {Address0}, MapAtEnd(p, f), Blame(p, f)
  PROVE  /\ EndMapped(p, f) /\ pages' \in [Process -> Space]
         /\ misused \subseteq misused' /\ (f = Address0 => "no frame" \in misused')
         /\ pages'[p][sz[p]] = None => "not mapped" \in misused'
         /\ pages[p][sz[p]] = None /\ sz[p] \in Page
<1>1. /\ sz[p] \in Page /\ pages[p][sz[p]] = None
  BY DEF MapAtEnd, Present
<1>2. f \in Frame \cup {Address0, None}
  BY ShmHomeFacts
<1>3. EndMapped(p, f) /\ pages' \in [Process -> Space]
  <2>1. pages \in [Process -> Space]
    BY DEF IInv, TypeOK
  <2>2. CASE pages' = [pages EXCEPT ![p][sz[p]] = f]
    BY <1>1, <1>2, <2>1, <2>2 DEF EndMapped, Space
  <2>3. CASE UNCHANGED pages
    BY <1>1, <2>1, <2>3 DEF EndMapped
  <2> QED  BY <2>2, <2>3 DEF MapAtEnd
<1>5. /\ misused \subseteq misused' /\ (f = Address0 => "no frame" \in misused')
      /\ pages'[p][sz[p]] = None => "not mapped" \in misused'
  BY DEF Blame
<1> QED  BY <1>1, <1>3, <1>5

(* What such a step leaves as it is.                                       *)
LEMMA EndKept ==
  ASSUME IInv, Sane, NEW p \in Process, sz[p] \in Page, pages[p][sz[p]] = None,
         NEW f \in ShmFrame \cup {Address0}, EndMapped(p, f), state[p] # "dead",
         pages' \in [Process -> Space],
         misused \subseteq misused', f = Address0 => "no frame" \in misused',
         UNCHANGED <<state, pgdir, lost, panic>>,
         \A g \in Frame \ ShmFrame : g \in free' <=> g \in free
  PROVE  /\ PrivateAccounted' /\ Address0Blamed' /\ PanicsExplained'
         /\ \A q \in Process, v \in Page :
              pages'[q][v] \in Home(q, v) \cup ShmFrame \cup {Address0, None}
         /\ \A q \in Process : state'[q] = "dead" => pages'[q] = pages[q]
         /\ \A g \in ShmFrame :
              IsMapped(g)' <=> IsMapped(g) \/ (g = f /\ pages'[p][sz[p]] = f)
<1>1. /\ \A q \in Process, v \in Page : q # p \/ v # sz[p] => pages'[q][v] = pages[q][v]
      /\ pages'[p][sz[p]] \in {f, None}
  BY DEF EndMapped
<1>2. PrivateAccounted'
  <2>1. PrivateAccounted
    BY DEF IInv, Accounted, Sane
  <2>2. ASSUME NEW q \in Process, NEW v \in Page, NEW g \in Home(q, v)
        PROVE  g \in free' <=> pages'[q][v] # g
    <3>0. v \in 0 .. TOP
      BY Constants
    <3>1. g \in Frame \ ShmFrame /\ g # Address0 /\ g # None
      <4>1. Home(q, v) \subseteq Frame /\ Home(q, v) \cap ShmFrame = {}
        BY ONLY <3>0, HomeFacts
      <4>2. Address0 \notin Home(q, v) /\ None \notin Home(q, v)
        BY ONLY <3>0, HomeFacts
      <4> QED  BY ONLY <4>1, <4>2
    <3>2. pages'[q][v] = g <=> pages[q][v] = g
      BY <1>1, <3>1
    <3> QED  BY <2>1, <3>1, <3>2 DEF PrivateAccounted
  <2>3. ASSUME NEW q \in Process, NEW g \in Home(q, TOP)
        PROVE  g \in free' <=> pgdir'[q] # g
    <3>0. TOP \in 0 .. TOP
      BY Constants
    <3>1. g \in Frame \ ShmFrame
      BY <3>0, HomeFacts
    <3> QED  BY <2>1, <3>1 DEF PrivateAccounted
  <2>4. SpareFrame \in free' <=> SpareFrame \notin lost'
    BY <2>1, ShmHomeFacts DEF PrivateAccounted
  <2> QED  BY <2>2, <2>3, <2>4 DEF PrivateAccounted
<1>3. Address0Blamed'
  <2>1. Address0Blamed /\ None # Address0
    BY ShmHomeFacts DEF IInv
  <2>2. SUFFICES ASSUME NEW q \in Process, NEW v \in Page, pages'[q][v] = Address0
                 PROVE  "no frame" \in misused'
    BY DEF Address0Blamed
  <2>3. f = Address0 \/ pages[q][v] = Address0
    BY <1>1, <2>1, <2>2
  <2> QED  BY <2>1, <2>3 DEF Address0Blamed
<1>4. PanicsExplained'
  BY NoneAssumption DEF Sane, PanicsExplained
<1>5. \A q \in Process, v \in Page :
        pages'[q][v] \in Home(q, v) \cup ShmFrame \cup {Address0, None}
  BY <1>1 DEF IInv, Homes
<1>6. \A g \in ShmFrame : IsMapped(g)' <=> IsMapped(g) \/ (g = f /\ pages'[p][sz[p]] = f)
  <2>1. None \notin ShmFrame
    BY ShmHomeFacts
  <2>2. ASSUME NEW g \in ShmFrame, NEW q \in Process, NEW v \in Page
        PROVE  pages'[q][v] = g <=>
                 \/ pages[q][v] = g
                 \/ q = p /\ v = sz[p] /\ g = f /\ pages'[p][sz[p]] = f
    BY <1>1, <2>1
  <2>3. ASSUME NEW g \in ShmFrame
        PROVE  IsMapped(g)' <=> IsMapped(g) \/ (g = f /\ pages'[p][sz[p]] = f)
    <3>1. ASSUME IsMapped(g)' PROVE IsMapped(g) \/ (g = f /\ pages'[p][sz[p]] = f)
      <4>1. PICK q \in Process, v \in Page : pages'[q][v] = g
        BY <3>1 DEF IsMapped
      <4>2. pages[q][v] = g \/ (g = f /\ pages'[p][sz[p]] = f)
        BY ONLY <2>2, <4>1
      <4> QED  BY ONLY <4>2 DEF IsMapped
    <3>2. ASSUME IsMapped(g) PROVE IsMapped(g)'
      BY <2>2, <3>2 DEF IsMapped
    <3>3. ASSUME g = f, pages'[p][sz[p]] = f PROVE IsMapped(g)'
      BY <3>3 DEF IsMapped
    <3> QED  BY <3>1, <3>2, <3>3
  <2> QED  BY <2>3
<1>7. \A q \in Process : state'[q] = "dead" => pages'[q] = pages[q]
  <2>1. ASSUME NEW q \in Process \ {p} PROVE pages'[q] = pages[q]
    <3>1. pages[q] \in Space /\ pages'[q] \in Space
      BY DEF IInv, TypeOK
    <3>2. \A v \in Page : pages'[q][v] = pages[q][v]
      BY <1>1
    <3>3. \A x, y \in Space : (\A v \in Page : x[v] = y[v]) => x = y
      BY ONLY DEF Space
    <3> QED  BY <3>1, <3>2, <3>3
  <2> QED  BY <2>1
<1> QED  BY <1>2, <1>3, <1>4, <1>5, <1>6, <1>7

(* The frames in the table, when entry s gets frame f.                     *)
LEMMA TableFacts ==
  ASSUME IInv, NEW s \in 1 .. SHM, NEW f \in ShmHome(s) \cup {None},
         shm_pages' \in [1 .. SHM -> [id : Nat, frame : Frame \cup {None}, refcnt : Nat]],
         shm_pages'[s].frame = f, shm_pages'[s].id = 0 => f = None,
         \A t \in 1 .. SHM : t # s =>
           /\ shm_pages'[t].frame = shm_pages[t].frame
           /\ shm_pages'[t].id = shm_pages[t].id
  PROVE  /\ \A t \in 1 .. SHM : shm_pages'[t].frame \in ShmHome(t) \cup {None}
         /\ \A t \in 1 .. SHM : shm_pages'[t].id = 0 => shm_pages'[t].frame = None
         /\ \A g \in ShmFrame : InTable(g)' <=>
              g = f \/ (InTable(g) /\ g # shm_pages[s].frame)
<1>1. \A t \in 1 .. SHM : shm_pages[t].frame \in ShmHome(t) \cup {None}
  BY DEF IInv, Homes
<1>2. \A t \in 1 .. SHM : shm_pages'[t].frame \in ShmHome(t) \cup {None}
  BY <1>1
<1>3. \A t \in 1 .. SHM : shm_pages'[t].id = 0 => shm_pages'[t].frame = None
  BY DEF IInv, Homes
<1>4. /\ DOMAIN shm_pages = 1 .. SHM /\ DOMAIN shm_pages' = 1 .. SHM
      /\ shm_pages'[s].frame = f
      /\ \A t \in 1 .. SHM : t # s => shm_pages'[t].frame = shm_pages[t].frame
  BY DEF IInv, TypeOK
<1>5. ASSUME NEW g \in ShmFrame
      PROVE  InTable(g)' <=> g = f \/ (InTable(g) /\ g # shm_pages[s].frame)
  <2>1. g # None
    BY ShmHomeFacts
  <2>2. \A t \in 1 .. SHM : shm_pages[t].frame = g /\ shm_pages[s].frame = g => t = s
    BY <1>1, <2>1, ShmHomeFacts
  <2>3. InTable(g) <=> \E t \in 1 .. SHM : shm_pages[t].frame = g
    BY <1>4 DEF InTable
  <2>4. InTable(g)' <=> \E t \in 1 .. SHM : shm_pages'[t].frame = g
    BY <1>4 DEF InTable
  <2>5. ASSUME InTable(g)' PROVE g = f \/ (InTable(g) /\ g # shm_pages[s].frame)
    <3>1. PICK t \in 1 .. SHM : shm_pages'[t].frame = g
      BY <2>4, <2>5
    <3>2. t = s => g = f
      BY ONLY <1>4, <3>1
    <3>3. t # s => shm_pages[t].frame = g
      BY ONLY <1>4, <3>1
    <3> QED  BY ONLY <2>2, <2>3, <3>1, <3>2, <3>3
  <2>6. g = f => InTable(g)'
    BY ONLY <1>4, <2>4
  <2>7. ASSUME InTable(g), g # shm_pages[s].frame PROVE InTable(g)'
    <3>1. PICK t \in 1 .. SHM : shm_pages[t].frame = g
      BY <2>3, <2>7
    <3>2. shm_pages'[t].frame = g
      BY ONLY <1>4, <2>7, <3>1
    <3> QED  BY ONLY <2>4, <3>1, <3>2
  <2> QED  BY <2>5, <2>6, <2>7
<1> QED  BY <1>2, <1>3, <1>5

LEMMA InvOpenExisting ==
  ASSUME IInv, NEW p \in Process, NEW id \in Id, OpenExisting(p, id) PROVE IInv'
<1> DEFINE s == First(EntriesOf(id))
           f == MappingOf(s)
<1>1. /\ s \in 1 .. SHM /\ shm_pages[s].id = id
      /\ shm_pages' = [shm_pages EXCEPT ![s].refcnt = @ + 1]
      /\ Shares(p) /\ MapAtEnd(p, f) /\ Blame(p, f)
      /\ UNCHANGED <<kernel, free, state, pgdir, guard, stack_pages, my_sp, shared, lost,
                     misfreed, panic>>
  <2>1. EntriesOf(id) # {} /\ s \in EntriesOf(id) /\ s \in {t \in 1 .. SHM : shm_pages[t].id = id}
    BY EntryFacts DEF OpenExisting
  <2> QED  BY <2>1 DEF OpenExisting
<1>2. f \in ShmFrame \cup {Address0} /\ (f # Address0 => InTable(f))
  <2>1. shm_pages[s].frame \in ShmHome(s) \cup {None} /\ s \in DOMAIN shm_pages
    BY <1>1 DEF IInv, Homes, TypeOK
  <2>2. ShmHome(s) \subseteq ShmFrame
    BY <1>1, ShmHomeFacts
  <2> QED  BY <2>1, <2>2 DEF MappingOf, InTable
<1>3. sz' = [sz EXCEPT ![p] = @ + 1]
  BY <1>1 DEF MapAtEnd
<1> HIDE DEF s, f
<1>4. Sane /\ kernel = "lab4" /\ state[p] # "dead" /\ SharedAccounted
  BY <1>1, RunsFacts DEF Shares
<1>5. /\ EndMapped(p, f) /\ pages' \in [Process -> Space]
      /\ misused \subseteq misused' /\ (f = Address0 => "no frame" \in misused')
      /\ pages'[p][sz[p]] = None => "not mapped" \in misused'
      /\ pages[p][sz[p]] = None /\ sz[p] \in Page
  <2>1. Shares(p) /\ MapAtEnd(p, f) /\ Blame(p, f)
    BY <1>1
  <2>2. EndMapped(p, f) /\ pages' \in [Process -> Space]
    BY ONLY IInv, <1>2, <2>1, EndFacts
  <2>3. misused \subseteq misused' /\ (f = Address0 => "no frame" \in misused')
    BY ONLY IInv, <1>2, <2>1, EndFacts
  <2>4. pages'[p][sz[p]] = None => "not mapped" \in misused'
    BY ONLY IInv, <1>2, <2>1, EndFacts
  <2>5. pages[p][sz[p]] = None /\ sz[p] \in Page
    BY ONLY IInv, <1>2, <2>1, EndFacts
  <2> QED  BY ONLY <2>2, <2>3, <2>4, <2>5
<1>6. sz' \in [Process -> 0 .. MaxSize] /\ Sizes'
  <2>1. f \in ShmFrame \cup {Address0, None} /\ UNCHANGED <<kernel, state, guard, stack_pages>>
    BY <1>1, <1>2
  <2>2. sz[p] \in 0 .. TOP - 1 /\ TOP \in Nat
    BY <1>5, Constants
  <2>3. sz[p] < TOP
    BY ONLY <2>2
  <2> QED  BY <1>1, <1>3, <1>5, <2>1, <2>3, LongerSize
<1>7. /\ PrivateAccounted' /\ Address0Blamed' /\ PanicsExplained'
      /\ \A q \in Process, v \in Page :
           pages'[q][v] \in Home(q, v) \cup ShmFrame \cup {Address0, None}
      /\ \A q \in Process : state'[q] = "dead" => pages'[q] = pages[q]
      /\ \A g \in ShmFrame :
           IsMapped(g)' <=> IsMapped(g) \/ (g = f /\ pages'[p][sz[p]] = f)
  <2>1. /\ UNCHANGED <<state, pgdir, lost, panic>>
        /\ \A g \in Frame \ ShmFrame : g \in free' <=> g \in free
    BY <1>1
  <2> QED  BY <1>2, <1>4, <1>5, <2>1, EndKept
<1>8. /\ shm_pages' \in [1 .. SHM -> [id : Nat, frame : Frame \cup {None}, refcnt : Nat]]
      /\ \A t \in 1 .. SHM : shm_pages'[t].frame = shm_pages[t].frame
                            /\ shm_pages'[t].id = shm_pages[t].id
  <2> DEFINE Entry == [id : Nat, frame : Frame \cup {None}, refcnt : Nat]
             e == [shm_pages[s] EXCEPT !.refcnt = @ + 1]
  <2>1. shm_pages \in [1 .. SHM -> Entry] /\ s \in 1 .. SHM
    BY <1>1 DEF IInv, TypeOK
  <2>2. e \in Entry /\ e.frame = shm_pages[s].frame /\ e.id = shm_pages[s].id
    BY ONLY <2>1
  <2>3. shm_pages' = [shm_pages EXCEPT ![s] = e]
    BY <1>1
  <2> HIDE DEF Entry, e
  <2>4. /\ shm_pages' \in [1 .. SHM -> Entry] /\ shm_pages'[s] = e
        /\ \A t \in 1 .. SHM : t # s => shm_pages'[t] = shm_pages[t]
    BY ONLY <2>1, <2>2, <2>3
  <2> QED  BY ONLY <2>2, <2>4 DEF Entry
<1>9. TypeOK'
  BY <1>1, <1>5, <1>6, <1>8 DEF IInv, TypeOK
<1>10. Homes'
  BY <1>1, <1>7, <1>8 DEF IInv, Homes
<1>11. SharedAccounted'
  <2>1. ASSUME NEW g \in ShmFrame PROVE InTable(g)' <=> InTable(g)
    <3>1. DOMAIN shm_pages = 1 .. SHM /\ DOMAIN shm_pages' = 1 .. SHM
      BY <1>8 DEF IInv, TypeOK
    <3> QED  BY <1>8, <3>1 DEF InTable
  <2>2. \A g \in ShmFrame : g \in shared' <=> IsMapped(g)' \/ InTable(g)'
    <3>1. Address0 \notin ShmFrame
      BY ShmHomeFacts
    <3> QED  BY <1>1, <1>2, <1>4, <1>7, <2>1, <3>1 DEF SharedAccounted
  <2> QED  BY <1>1, <1>4, <2>2 DEF SharedAccounted
<1>12. NothingShared'
  BY <1>1, <1>4 DEF NothingShared
<1> QED  BY <1>6, <1>7, <1>9, <1>10, <1>11, <1>12 DEF IInv, Accounted

LEMMA InvOpenFull ==
  ASSUME IInv, NEW p \in Process, NEW id \in Id, OpenFull(p, id) PROVE IInv'
<1> USE DEF OpenFull
<1>1. Sane /\ kernel = "lab4" /\ WholeLab4(p)
  BY RunsFacts DEF Shares
<1>2. sz' \in [Process -> 0 .. MaxSize] /\ Sizes'
  <2>1. sz[p] \in Nat /\ sz[p] + 1 \in 0 .. MaxSize
    BY OnePageMore DEF IInv, TypeOK
  <2>2. sz' \in [Process -> 0 .. MaxSize] /\ sz'[p] = sz[p] + 1
    BY <2>1 DEF IInv, TypeOK
  <2>3. ASSUME NEW q \in Process \ {p} PROVE SizeOf(q)'
    <3>1. sz'[q] = sz[q]
      BY DEF IInv, TypeOK
    <3> QED  BY <3>1, SizeKept
  <2>4. SizeOf(p)'
    <3>1. Mapped(p)' = Mapped(p)
      BY DEF Mapped
    <3>0. 0 .. sz[p] - 1 \subseteq 0 .. sz'[p] - 1
      BY ONLY <2>1, <2>2
    <3>2. WholeLab4(p)'
      BY <1>1, <3>0, <3>1 DEF WholeLab4
    <3> QED  BY <1>1, <3>2 DEF SizeOf
  <2> QED  BY <2>2, <2>3, <2>4 DEF Sizes
<1>3. TypeOK' /\ Homes' /\ NothingShared'
  BY <1>2 DEF IInv, TypeOK, Homes, NothingShared
<1>4. Accounted'
  <2>1. Accounted /\ UNCHANGED <<free, pgdir, pages, shm_pages, shared, lost, misfreed>>
    BY DEF IInv
  <2> QED
    BY ONLY <2>1 DEF Accounted, PrivateAccounted, SharedAccounted, IsMapped, InTable
<1>5. Address0Blamed' /\ PanicsExplained'
  BY <1>1, NoneAssumption DEF IInv, Address0Blamed, PanicsExplained, Sane
<1> QED  BY <1>2, <1>3, <1>4, <1>5 DEF IInv

(* A free entry gets an id and, unless kalloc() fails, a frame.            *)
LEMMA NewEntry ==
  ASSUME IInv, NEW p \in Process, NEW id \in Id, id # 0, NEW s \in 1 .. SHM,
         shm_pages[s].id = 0, NEW f \in ShmHome(s) \cup {None},
         NEW m, m = (IF f = None THEN Address0 ELSE f),
         Shares(p), MapAtEnd(p, m), Blame(p, m),
         shm_pages' = [shm_pages EXCEPT ![s] = [id |-> id, frame |-> f, refcnt |-> @.refcnt + 1]],
         f # None => f \in free /\ free' = free \ {f} /\ shared' = shared \cup {f},
         f = None => UNCHANGED <<free, shared>>,
         UNCHANGED <<kernel, state, pgdir, guard, stack_pages, my_sp, lost, misfreed, panic>>
  PROVE  IInv'
<1>1. /\ Shares(p) /\ MapAtEnd(p, m) /\ Blame(p, m)
      /\ UNCHANGED <<kernel, state, pgdir, guard, stack_pages, my_sp, lost, misfreed, panic>>
      /\ sz' = [sz EXCEPT ![p] = @ + 1]
  BY DEF MapAtEnd
<1>2. m \in ShmFrame \cup {Address0} /\ ShmHome(s) \subseteq ShmFrame /\ None \notin ShmFrame
  BY ShmHomeFacts
<1>3. Sane /\ kernel = "lab4" /\ state[p] # "dead" /\ SharedAccounted
  BY ONLY IInv, <1>1, RunsFacts DEF Shares
<1>4. /\ EndMapped(p, m) /\ pages' \in [Process -> Space]
      /\ misused \subseteq misused' /\ (m = Address0 => "no frame" \in misused')
      /\ pages'[p][sz[p]] = None => "not mapped" \in misused'
      /\ pages[p][sz[p]] = None /\ sz[p] \in Page
  <2>1. EndMapped(p, m) /\ pages' \in [Process -> Space]
    BY ONLY IInv, <1>1, <1>2, EndFacts
  <2>2. misused \subseteq misused' /\ (m = Address0 => "no frame" \in misused')
    BY ONLY IInv, <1>1, <1>2, EndFacts
  <2>3. pages'[p][sz[p]] = None => "not mapped" \in misused'
    BY ONLY IInv, <1>1, <1>2, EndFacts
  <2>4. pages[p][sz[p]] = None /\ sz[p] \in Page
    BY ONLY IInv, <1>1, <1>2, EndFacts
  <2> QED  BY ONLY <2>1, <2>2, <2>3, <2>4
<1>5. sz' \in [Process -> 0 .. MaxSize] /\ Sizes'
  <2>1. m \in ShmFrame \cup {Address0, None} /\ UNCHANGED <<kernel, state, guard, stack_pages>>
    BY ONLY <1>1, <1>2
  <2>2. sz[p] \in 0 .. TOP - 1 /\ TOP \in Nat
    BY <1>4, Constants
  <2>3. sz[p] < TOP
    BY ONLY <2>2
  <2> QED  BY ONLY IInv, <1>1, <1>4, <2>1, <2>3, LongerSize
<1>6. /\ free' \subseteq free /\ shared' \subseteq shared \cup {f}
      /\ \A g \in ShmFrame :
           /\ g \in free' <=> g \in free /\ g # f
           /\ g \in shared' <=> g \in shared \/ g = f
      /\ \A g \in Frame \ ShmFrame : g \in free' <=> g \in free
      /\ f # None => f \in free /\ f \in shared'
  BY <1>2
<1>7. /\ PrivateAccounted' /\ Address0Blamed' /\ PanicsExplained'
      /\ \A q \in Process, v \in Page :
           pages'[q][v] \in Home(q, v) \cup ShmFrame \cup {Address0, None}
      /\ \A q \in Process : state'[q] = "dead" => pages'[q] = pages[q]
      /\ \A g \in ShmFrame :
           IsMapped(g)' <=> IsMapped(g) \/ (g = m /\ pages'[p][sz[p]] = m)
  <2>1. UNCHANGED <<state, pgdir, lost, panic>>
    BY ONLY <1>1
  <2> QED  BY ONLY IInv, <1>2, <1>3, <1>4, <1>6, <2>1, EndKept
<1>8. /\ shm_pages' \in [1 .. SHM -> [id : Nat, frame : Frame \cup {None}, refcnt : Nat]]
      /\ shm_pages'[s].frame = f /\ (shm_pages'[s].id = 0 => f = None)
      /\ \A t \in 1 .. SHM : t # s =>
           shm_pages'[t].frame = shm_pages[t].frame /\ shm_pages'[t].id = shm_pages[t].id
  <2> DEFINE Entry == [id : Nat, frame : Frame \cup {None}, refcnt : Nat]
             e == [id |-> id, frame |-> f, refcnt |-> shm_pages[s].refcnt + 1]
  <2>1. shm_pages \in [1 .. SHM -> Entry]
    BY DEF IInv, TypeOK
  <2>2. e \in Entry /\ e.frame = f /\ e.id = id
    <3>1. shm_pages[s] \in Entry /\ f \in Frame \cup {None} /\ id \in Nat
      BY <1>2, <2>1, ShmHomeFacts, MemoryAssumption
    <3> QED  BY ONLY <3>1
  <2>3. shm_pages' = [shm_pages EXCEPT ![s] = e]
    OBVIOUS
  <2> HIDE DEF Entry, e
  <2>4. /\ shm_pages' \in [1 .. SHM -> Entry] /\ shm_pages'[s] = e
        /\ \A t \in 1 .. SHM : t # s => shm_pages'[t] = shm_pages[t]
    BY ONLY <2>1, <2>2, <2>3
  <2> QED  BY <2>2, <2>4 DEF Entry
<1>9. /\ \A t \in 1 .. SHM : shm_pages'[t].frame \in ShmHome(t) \cup {None}
      /\ \A t \in 1 .. SHM : shm_pages'[t].id = 0 => shm_pages'[t].frame = None
      /\ \A g \in ShmFrame : InTable(g)' <=> g = f \/ (InTable(g) /\ g # shm_pages[s].frame)
  BY ONLY IInv, <1>8, TableFacts
<1>10. TypeOK'
  <2>1. free' \subseteq Frame /\ shared' \subseteq Frame
    BY <1>2, <1>6, ShmHomeFacts DEF IInv, TypeOK
  <2> QED  BY <1>1, <1>4, <1>5, <1>8, <2>1 DEF IInv, TypeOK
<1>11. Homes'
  <2>1. Homes
    BY DEF IInv
  <2> QED  BY ONLY <1>1, <1>7, <1>9, <2>1 DEF Homes
<1>12. SharedAccounted'
  <2>1. shm_pages[s].frame = None /\ Address0 \notin ShmFrame /\ lost' = lost
    BY <1>1, ShmHomeFacts DEF IInv, Homes
  <2>2. \A g \in ShmFrame : g \in shared' <=> IsMapped(g)' \/ InTable(g)'
    <3>1. \A g \in ShmFrame : g = m => g = f
      BY <2>1
    <3> QED  BY ONLY <1>2, <1>3, <1>6, <1>7, <1>9, <2>1, <3>1 DEF SharedAccounted
  <2>3. ASSUME NEW g \in ShmFrame PROVE g \in free' <=> g \notin shared' \cup lost'
    <3>1. g \in free <=> g \notin shared \cup lost
      BY ONLY <1>3, g \in ShmFrame DEF SharedAccounted
    <3>2. (g \in free' <=> g \in free /\ g # f) /\ (g \in shared' <=> g \in shared \/ g = f)
      BY ONLY <1>6, g \in ShmFrame
    <3> QED  BY ONLY <2>1, <3>1, <3>2
  <2>4. shared' \subseteq ShmFrame /\ lost' \subseteq ShmFrame \cup {SpareFrame}
        /\ shared' \cap lost' = {} /\ shared' \cap free' = {}
    <3>1. shared' \subseteq ShmFrame
      BY <1>2, <1>3 DEF SharedAccounted
    <3>2. lost' \subseteq ShmFrame \cup {SpareFrame} /\ shared \cap lost = {}
      BY <1>3, <2>1 DEF SharedAccounted
    <3>3. shared' \cap lost' = {} /\ shared' \cap free' = {}
      <4>1. \A g \in shared' : g \in ShmFrame
        BY <3>1
      <4>2. \A g \in shared' : g \notin free'
        BY ONLY <2>3, <4>1
      <4>3. \A g \in shared' : g \notin lost
        <5>1. ASSUME NEW g \in ShmFrame, g \in shared' PROVE g \notin lost
          <6>1. g \in shared \/ g = f
            BY ONLY <1>6, <5>1, g \in ShmFrame
          <6>2. g = f => g \in free
            BY ONLY <1>2, <1>6, g \in ShmFrame
          <6> QED  BY ONLY <1>3, <6>1, <6>2, g \in ShmFrame DEF SharedAccounted
        <5> QED  BY ONLY <4>1, <5>1
      <4> QED  BY ONLY <2>1, <4>2, <4>3
    <3> QED  BY <3>1, <3>2, <3>3
  <2> QED  BY ONLY <2>2, <2>3, <2>4 DEF SharedAccounted
<1>13. NothingShared'
  BY <1>1, <1>3 DEF NothingShared
<1> QED  BY ONLY <1>5, <1>7, <1>10, <1>11, <1>12, <1>13 DEF IInv, Accounted

LEMMA InvOpenNew ==
  ASSUME IInv, NEW p \in Process, NEW id \in Id, OpenNew(p, id) PROVE IInv'
<1> DEFINE s == First(EntriesOf(0))
           f == KallocFrom(free, ShmHome(s))
<1>1. /\ s \in 1 .. SHM /\ shm_pages[s].id = 0 /\ id # 0
      /\ Shares(p)
      /\ UNCHANGED <<kernel, state, pgdir, guard, stack_pages, my_sp, lost, misfreed, panic>>
  <2>1. EntriesOf(id) = {} /\ EntriesOf(0) # {}
    BY DEF OpenNew
  <2>2. s \in EntriesOf(0) /\ s \in {t \in 1 .. SHM : shm_pages[t].id = 0}
    BY <2>1, EntryFacts
  <2> QED  BY <2>1, <2>2 DEF OpenNew
<1>2. \/ /\ free \cap ShmHome(s) # {} /\ free' = free \ {f} /\ shared' = shared \cup {f}
         /\ MapAtEnd(p, f) /\ Blame(p, f)
         /\ shm_pages' = [shm_pages EXCEPT
              ![s] = [id |-> id, frame |-> f, refcnt |-> @.refcnt + 1]]
      \/ /\ MapAtEnd(p, Address0) /\ Blame(p, Address0)
         /\ shm_pages' = [shm_pages EXCEPT
              ![s] = [id |-> id, frame |-> None, refcnt |-> @.refcnt + 1]]
         /\ UNCHANGED <<free, shared>>
  BY DEF OpenNew
<1> HIDE DEF s
<1>3. CASE free \cap ShmHome(s) # {} /\ free' = free \ {f} /\ shared' = shared \cup {f}
           /\ MapAtEnd(p, f) /\ Blame(p, f)
           /\ shm_pages' = [shm_pages EXCEPT
                ![s] = [id |-> id, frame |-> f, refcnt |-> @.refcnt + 1]]
  <2>1. f \in free /\ f \in ShmHome(s) /\ f # None
    BY <1>1, <1>3, KallocShm, ShmHomeFacts
  <2> HIDE DEF f
  <2>2. f \in ShmHome(s) \cup {None} /\ f = (IF f = None THEN Address0 ELSE f)
    BY <2>1
  <2> QED  BY ONLY IInv, id \in Id, p \in Process, <1>1, <1>3, <2>1, <2>2, NewEntry
<1>4. CASE /\ MapAtEnd(p, Address0) /\ Blame(p, Address0)
           /\ shm_pages' = [shm_pages EXCEPT
                ![s] = [id |-> id, frame |-> None, refcnt |-> @.refcnt + 1]]
           /\ UNCHANGED <<free, shared>>
  <2>1. None \in ShmHome(s) \cup {None} /\ Address0 = (IF None = None THEN Address0 ELSE None)
    OBVIOUS
  <2> QED  BY ONLY IInv, id \in Id, p \in Process, <1>1, <1>4, <2>1, NewEntry
<1> QED  BY <1>2, <1>3, <1>4

(* An entry that goes leaves its frame to those that map it, or to nobody. *)
LEMMA InvClose ==
  ASSUME IInv, NEW p \in Process, NEW id \in Id, Close(p, id) PROVE IInv'
<1> DEFINE d == Dropped(id)
           Entry == [id : Nat, frame : Frame \cup {None}, refcnt : Nat]
           gone == [id |-> 0, frame |-> None, refcnt |-> 0]
<1>1. /\ Sane /\ kernel = "lab4" /\ PrivateAccounted /\ SharedAccounted
      /\ lost' = lost \cup Orphan(id) /\ shared' = shared \ Orphan(id)
      /\ UNCHANGED <<kernel, free, state, pgdir, pages, sz, guard, stack_pages, my_sp,
                     misfreed, misused, panic>>
  BY RunsFacts DEF Close, Shares, spaceVars
<1>2. /\ shm_pages \in [1 .. SHM -> Entry] /\ DOMAIN shm_pages = 1 .. SHM
      /\ EntriesOf(id) \subseteq 1 .. SHM
  BY EntryFacts DEF IInv, TypeOK
<1>3. LastOf(id) = {} => d \notin 1 .. SHM
  BY NoneAssumption DEF Dropped
<1>4. LastOf(id) # {} => d \in LastOf(id) /\ d \in 1 .. SHM
  <2>1. LastOf(id) # {} => First(LastOf(id)) \in LastOf(id)
    BY EntryFacts
  <2> QED  BY <1>2, <2>1 DEF Dropped, LastOf
<1>5. shm_pages' = [s \in 1 .. SHM |->
        CASE s = d -> gone
          [] s \in Counted(id) -> [shm_pages[s] EXCEPT !.refcnt = @ - 1]
          [] OTHER -> shm_pages[s]]
  BY <1>2 DEF Close
<1>6. ASSUME NEW s \in 1 .. SHM
      PROVE  /\ shm_pages'[s] \in Entry
             /\ s = d => shm_pages'[s].frame = None /\ shm_pages'[s].id = 0
             /\ s # d => /\ shm_pages'[s].frame = shm_pages[s].frame
                        /\ shm_pages'[s].id = shm_pages[s].id
  <2>1. shm_pages[s] \in Entry
    BY <1>2
  <2>2. gone \in Entry /\ gone.frame = None /\ gone.id = 0
    OBVIOUS
  <2> HIDE DEF Entry, gone, d
  <2>3. CASE s = d
    <3>1. s \notin Counted(id)
      <4>1. LastOf(id) # {} /\ d \in LastOf(id)
        BY <1>3, <1>4, <2>3
      <4>2. shm_pages[s].refcnt = 1
        BY <2>3, <4>1 DEF LastOf
      <4> QED  BY ONLY <4>2 DEF Counted
    <3>2. shm_pages'[s] = gone
      BY ONLY <1>5, <2>3, <3>1, s \in 1 .. SHM
    <3> QED  BY ONLY <2>2, <2>3, <3>2
  <2>4. CASE s # d /\ s \in Counted(id)
    <3> DEFINE e == [shm_pages[s] EXCEPT !.refcnt = @ - 1]
    <3>1. shm_pages'[s] = e
      BY ONLY <1>5, <2>4, s \in 1 .. SHM
    <3>2. shm_pages[s].refcnt > 1
      BY <2>4 DEF Counted
    <3>3. e \in Entry /\ e.frame = shm_pages[s].frame /\ e.id = shm_pages[s].id
      BY ONLY <2>1, <3>2 DEF Entry
    <3> QED  BY ONLY <2>4, <3>1, <3>3
  <2>5. CASE s # d /\ s \notin Counted(id)
    <3>1. shm_pages'[s] = shm_pages[s]
      BY ONLY <1>5, <2>5, s \in 1 .. SHM
    <3> QED  BY ONLY <2>1, <2>5, <3>1
  <2> QED  BY ONLY <2>3, <2>4, <2>5
<1>7. shm_pages' \in [1 .. SHM -> Entry] /\ DOMAIN shm_pages' = 1 .. SHM
  <2> HIDE DEF Entry, gone, d
  <2> QED  BY ONLY <1>5, <1>6
<1>8. Orphan(id) = {g \in shared : LastOf(id) # {} /\ shm_pages[d].frame = g /\ ~IsMapped(g)}
  <2>1. ASSUME NEW g
        PROVE  (\E s \in LastOf(id) : s = d /\ shm_pages[s].frame = g) <=>
                 LastOf(id) # {} /\ shm_pages[d].frame = g
    <3> HIDE DEF d
    <3> QED  BY ONLY <1>4
  <2>2. ASSUME NEW g
        PROVE  (\E q \in Process, v \in Page : pages[q][v] = g) <=> IsMapped(g)
    BY DEF IsMapped
  <2> QED  BY <2>1, <2>2 DEF Orphan
<1> HIDE DEF d
<1>9. /\ \A t \in 1 .. SHM : shm_pages'[t].frame \in ShmHome(t) \cup {None}
      /\ \A t \in 1 .. SHM : shm_pages'[t].id = 0 => shm_pages'[t].frame = None
      /\ \A g \in ShmFrame : InTable(g)' <=>
           InTable(g) /\ ~(LastOf(id) # {} /\ shm_pages[d].frame = g)
  <2>1. CASE LastOf(id) = {}
    <3>1. \A t \in 1 .. SHM :
            /\ shm_pages'[t].frame = shm_pages[t].frame
            /\ shm_pages'[t].id = shm_pages[t].id
      BY ONLY <1>3, <1>6, <2>1
    <3>2. Homes
      BY DEF IInv
    <3> QED  BY ONLY <1>2, <1>7, <2>1, <3>1, <3>2 DEF Homes, InTable
  <2>2. CASE LastOf(id) # {}
    <3>1. d \in 1 .. SHM /\ shm_pages'[d].frame = None
      BY ONLY <1>4, <1>6, <2>2
    <3>2. \A t \in 1 .. SHM : t # d =>
            shm_pages'[t].frame = shm_pages[t].frame /\ shm_pages'[t].id = shm_pages[t].id
      BY ONLY <1>6
    <3>3. None \in ShmHome(d) \cup {None} /\ (shm_pages'[d].id = 0 => None = None)
      OBVIOUS
    <3>4. /\ \A t \in 1 .. SHM : shm_pages'[t].frame \in ShmHome(t) \cup {None}
          /\ \A t \in 1 .. SHM : shm_pages'[t].id = 0 => shm_pages'[t].frame = None
          /\ \A g \in ShmFrame : InTable(g)' <=>
               g = None \/ (InTable(g) /\ g # shm_pages[d].frame)
      BY ONLY IInv, <1>7, <3>1, <3>2, <3>3, TableFacts
    <3> QED  BY ONLY <2>2, <3>4, ShmHomeFacts
  <2> QED  BY <2>1, <2>2
<1>10. TypeOK'
  BY <1>1, <1>7, <1>8 DEF IInv, TypeOK
<1>11. Homes'
  <2>1. Homes
    BY DEF IInv
  <2> QED  BY ONLY <1>1, <1>9, <2>1 DEF Homes
<1>12. PrivateAccounted'
  <2>1. SpareFrame \notin Orphan(id)
    BY <1>1, <1>8, ShmHomeFacts DEF SharedAccounted
  <2> QED  BY ONLY <1>1, <2>1 DEF PrivateAccounted
<1>13. SharedAccounted'
  <2>1. \A g \in ShmFrame : IsMapped(g)' <=> IsMapped(g)
    BY ONLY <1>1 DEF IsMapped
  <2>2. \A g \in ShmFrame : g \in shared' <=> IsMapped(g)' \/ InTable(g)'
    <3>1. ASSUME NEW g \in ShmFrame
          PROVE  g \in Orphan(id) <=>
                   g \in shared /\ LastOf(id) # {} /\ shm_pages[d].frame = g /\ ~IsMapped(g)
      BY ONLY <1>8
    <3> QED  BY ONLY <1>1, <1>9, <2>1, <3>1 DEF SharedAccounted
  <2>3. Orphan(id) \subseteq shared
    BY <1>8
  <2> QED  BY ONLY <1>1, <2>2, <2>3 DEF SharedAccounted
<1>14. NothingShared' /\ Address0Blamed' /\ PanicsExplained'
  BY <1>1 DEF IInv, NothingShared, Address0Blamed, PanicsExplained
<1>15. Sizes'
  <2>1. /\ misused \subseteq misused'
        /\ UNCHANGED <<kernel, state, pages, sz, guard, stack_pages, my_sp>>
    BY ONLY <1>1
  <2> QED  BY ONLY IInv, <2>1, SizeKept DEF Sizes
<1> QED  BY ONLY <1>10, <1>11, <1>12, <1>13, <1>14, <1>15 DEF IInv, Accounted

-----------------------------------------------------------------------------
(* The invariant                                                           *)

LEMMA InvInit == Init => IInv
<1> SUFFICES ASSUME Init PROVE IInv
  OBVIOUS
<1> DEFINE p == CHOOSE q \in Process : TRUE
           image == [v \in Image \cup {TOP} |-> <<p, v, 1>>]
           Taken == {image[v] : v \in Image \cup {TOP}}
<1>1. p \in Process
  BY MemoryAssumption
<1>2. /\ kernel \in {"lab3", "lab4"}
      /\ state = [q \in Process |-> IF q = p THEN "live" ELSE "dead"]
      /\ pgdir = [q \in Process |-> IF q = p THEN image[TOP] ELSE None]
      /\ pages = [q \in Process |-> IF q # p THEN NoPages
           ELSE [v \in Page |-> IF v \in Image THEN image[v] ELSE None]]
      /\ free = Frame \ Taken
      /\ sz = [q \in Process |-> IF q = p THEN ImageSize ELSE 0]
      /\ guard = [q \in Process |-> IF q = p THEN ImageGuard ELSE {}]
      /\ stack_pages = [q \in Process |-> IF q = p THEN 1 ELSE 0]
      /\ my_sp = [q \in Process |-> IF q = p /\ kernel = "lab3" THEN TOP - 1 ELSE -1]
      /\ shm_pages = [s \in 1 .. SHM |-> [id |-> 0, frame |-> None, refcnt |-> 0]]
      /\ shared = {} /\ lost = {} /\ misfreed = {} /\ misused = {} /\ panic = None
  BY DEF Init
<1> HIDE DEF p
<1>3. /\ Image \in SUBSET Page /\ ImageGuard \in SUBSET Page /\ ImageSize \in 0 .. TOP
      /\ kernel = "lab3" => TOP - 1 \notin ImageGuard /\ 0 .. ImageSize - 1 \subseteq Image
      /\ kernel = "lab4" => /\ ImageSize = PROGRAM + 2 /\ Image = 0 .. ImageSize - 1
                           /\ ImageGuard = {PROGRAM}
  BY <1>2, ImageFacts
<1>4. ASSUME NEW v \in Image \cup {TOP}
      PROVE  /\ image[v] \in Home(p, v) /\ image[v] \in Frame /\ image[v] # None
             /\ image[v] # Address0 /\ image[v] \notin ShmFrame /\ image[v] # SpareFrame
  <2>1. v \in 0 .. TOP
    BY <1>3, Constants
  <2>2. image[v] \in Home(p, v)
    BY DEF Home
  <2> HIDE DEF image
  <2> QED  BY <1>1, <2>1, <2>2, HomeFacts
<1> HIDE DEF image
<1>5. /\ \A q \in Process : q # p => pages[q] = NoPages /\ pgdir[q] = None
      /\ \A q \in Process, v \in Page : q # p => pages[q][v] = None
      /\ \A v \in Page : pages[p][v] = IF v \in Image THEN image[v] ELSE None
      /\ pgdir[p] = image[TOP] /\ state[p] = "live" /\ \A q \in Process : q # p => state[q] = "dead"
  BY <1>1, <1>2 DEF NoPages
<1>6. TypeOK
  <2>1. pages \in [Process -> Space]
    <3>1. NoPages \in Space
      BY DEF NoPages, Space
    <3>2. [v \in Page |-> IF v \in Image THEN image[v] ELSE None] \in Space
      BY <1>4 DEF Space
    <3> QED  BY <1>2, <3>1, <3>2
  <2>2. pgdir \in [Process -> Frame \cup {None}]
    BY <1>2, <1>4
  <2>3. sz \in [Process -> 0 .. MaxSize] /\ guard \in [Process -> SUBSET Page]
    BY <1>2, <1>3, Constants
  <2>4. stack_pages \in [Process -> Nat] /\ my_sp \in [Process -> {-1, TOP - 1}]
    BY <1>2, Constants
  <2>5. shm_pages \in [1 .. SHM -> [id : Nat, frame : Frame \cup {None}, refcnt : Nat]]
    BY <1>2
  <2>6. state \in [Process -> {"dead", "live", "zombie"}]
    BY <1>2
  <2> QED  BY <1>2, <2>1, <2>2, <2>3, <2>4, <2>5, <2>6 DEF TypeOK
<1>7. Homes
  <2>1. \A q \in Process, v \in Page : pages[q][v] \in Home(q, v) \cup ShmFrame \cup {Address0, None}
    BY <1>4, <1>5
  <2>2. \A q \in Process : pgdir[q] \in IF state[q] = "dead" THEN {None} ELSE Home(q, TOP)
    BY <1>4, <1>5
  <2> QED  BY <1>2, <1>5, <2>1, <2>2 DEF Homes
<1>8. PrivateAccounted
  <2>1. ASSUME NEW q \in Process, NEW v \in 0 .. TOP, NEW f \in Home(q, v)
        PROVE  f \in free <=> ~(q = p /\ v \in Image \cup {TOP} /\ f = image[v])
    <3>1. f \in Frame
      BY HomeFacts
    <3>2. \A u \in Image \cup {TOP} : f = image[u] => q = p /\ v = u
      <4>1. \A u \in Image \cup {TOP} : u \in 0 .. TOP /\ image[u] \in Home(p, u)
        BY <1>3, <1>4, Constants
      <4> QED  BY <1>1, <4>1, HomeFacts
    <3> QED  BY <1>2, <3>1, <3>2
  <2>2. ASSUME NEW q \in Process, NEW v \in Page, NEW f \in Home(q, v)
        PROVE  f \in free <=> pages[q][v] # f
    <3>1. v \in 0 .. TOP /\ v # TOP /\ f # None
      BY HomeFacts, Constants
    <3> QED  BY <1>5, <2>1, <3>1
  <2>3. ASSUME NEW q \in Process, NEW f \in Home(q, TOP)
        PROVE  f \in free <=> pgdir[q] # f
    <3>1. TOP \in 0 .. TOP /\ f # None
      BY HomeFacts, Constants
    <3> QED  BY <1>5, <2>1, <3>1
  <2>4. SpareFrame \in free /\ SpareFrame \notin lost
    BY <1>2, <1>4, ShmHomeFacts
  <2> QED  BY <2>2, <2>3, <2>4 DEF PrivateAccounted
<1>9. SharedAccounted
  <2>1. ASSUME NEW f \in ShmFrame PROVE f \in free /\ ~IsMapped(f) /\ ~InTable(f)
    <3>1. f \in Frame /\ f # None
      BY ShmHomeFacts
    <3>2. f \in free
      BY <1>2, <1>4, <3>1
    <3>3. ~IsMapped(f)
      BY <1>4, <1>5, <3>1 DEF IsMapped
    <3>4. ~InTable(f)
      BY <1>2, <3>1 DEF InTable
    <3> QED  BY <3>2, <3>3, <3>4
  <2> QED  BY <1>2, <2>1 DEF SharedAccounted
<1>10. NothingShared /\ Address0Blamed /\ PanicsExplained
  <2>1. NothingShared
    BY <1>2 DEF NothingShared
  <2>2. Address0Blamed
    BY <1>4, <1>5, ShmHomeFacts DEF Address0Blamed
  <2>3. PanicsExplained
    BY <1>2, Messages DEF PanicsExplained
  <2> QED  BY <2>1, <2>2, <2>3
<1>11. ASSUME NEW q \in Process PROVE SizeOf(q)
  <2>1. CASE q = p
    <3>1. guard[p] = ImageGuard /\ sz[p] = ImageSize /\ stack_pages[p] = 1
      BY <1>1, <1>2
    <3>2. Mapped(p) = Image
      BY <1>3, <1>4, <1>5 DEF Mapped
    <3>3. kernel = "lab3" => WholeLab3(p) /\ HeapLab3(p)
      BY <1>3, <3>1, <3>2 DEF WholeLab3, HeapLab3
    <3>4. kernel = "lab4" => WholeLab4(p)
      BY <1>3, <3>1, <3>2 DEF WholeLab4
    <3> QED  BY <2>1, <3>3, <3>4 DEF SizeOf
  <2>2. CASE q # p
    BY <1>5, <2>2 DEF SizeOf, Whole
  <2> QED  BY <2>1, <2>2
<1> QED  BY <1>6, <1>7, <1>8, <1>9, <1>10, <1>11 DEF IInv, Accounted, Sizes

LEMMA InvStep == IInv /\ [Next]_vars => IInv'
<1> SUFFICES ASSUME IInv, [Next]_vars PROVE IInv'
  OBVIOUS
<1>1. ASSUME NEW p \in Process, MemoryCall(p) PROVE IInv'
  <2>1. CASE \E c \in Process : Fork(p, c)
    BY <2>1, InvFork
  <2>2. CASE ForkPanics(p) \/ GrowPanics(p) \/ ShrinkPanics(p)
    BY <2>2, InvPanics
  <2>3. CASE ForkFails(p)
    BY <2>3, InvForkFails
  <2>4. CASE Exec(p)
    BY <2>4, InvExec
  <2>5. CASE ExecFailsLate(p)
    BY <2>5, InvExecFailsLate
  <2>6. CASE Grow(p)
    BY <2>6, InvGrow
  <2>7. CASE \E n \in Page : GrowFails(p, n)
    BY <2>7, InvGrowFails
  <2>8. CASE \E n \in 0 .. sz[p] - 1 : Shrink(p, n)
    BY <2>8, InvShrink
  <2>9. CASE Exit(p)
    BY <2>9, InvExit
  <2>10. CASE Wait(p)
    BY <2>10, InvWait
  <2> QED
    BY <1>1, <2>1, <2>2, <2>3, <2>4, <2>5, <2>6, <2>7, <2>8, <2>9, <2>10 DEF MemoryCall
<1>2. ASSUME NEW p \in Process, ShmCall(p) PROVE IInv'
  <2> SUFFICES ASSUME NEW id \in Id,
                      \/ OpenExisting(p, id) \/ OpenNew(p, id)
                      \/ OpenFull(p, id) \/ Close(p, id) \/ OpenPanics(p, id)
               PROVE  IInv'
    BY <1>2 DEF ShmCall
  <2>1. CASE OpenPanics(p, id)
    BY <2>1, InvPanics
  <2> QED  BY <2>1, InvOpenExisting, InvOpenNew, InvOpenFull, InvClose
<1>3. ASSUME NEW p \in Process, PageFault(p) PROVE IInv'
  <2> SUFFICES ASSUME NEW v \in Page,
                      \/ FaultGrows(p, v) \/ FaultPanics(p, v)
                      \/ FaultShrinks(p, v) \/ FaultFarAway(p, v)
               PROVE  IInv'
    BY <1>3 DEF PageFault
  <2>1. CASE FaultPanics(p, v) \/ FaultFarAway(p, v)
    BY <2>1, InvPanics
  <2> QED  BY <2>1, InvFaultGrows, InvFaultShrinks
<1>4. CASE UNCHANGED vars
  <2>1. UNCHANGED <<kernel, free, state, pgdir, pages, sz, guard, stack_pages, my_sp, shm_pages,
                    shared, lost, misfreed, misused, panic>>
    BY <1>4 DEF vars, spaceVars, histories
  <2>2. TypeOK' /\ Homes' /\ NothingShared' /\ Address0Blamed' /\ PanicsExplained'
    BY <2>1 DEF IInv, TypeOK, Homes, NothingShared, Address0Blamed, PanicsExplained
  <2>3. Accounted'
    BY <2>1 DEF IInv, Accounted, PrivateAccounted, SharedAccounted, IsMapped, InTable
  <2>4. Sizes'
    BY <2>1, SizeKept DEF Sizes
  <2> QED  BY <2>2, <2>3, <2>4 DEF IInv
<1> QED  BY <1>1, <1>2, <1>3, <1>4 DEF Next

(* IInv holds in every reachable state of both kernels: who refers to each *)
(* frame, until the first frame is freed while in use.                     *)
THEOREM Invariance == Spec => []IInv
<1> QED  BY InvInit, InvStep, PTL DEF Spec

(* PanicsExplained, for any number of processes and pages: no sequence of  *)
(* fork, exec, sbrk, exit, wait, page faults and shm calls, right or wrong *)
(* as they are, makes the lab 4 kernel panic over memory unless shm_open() *)
(* mapped address 0 or nothing, or has made a process as large as user     *)
(* space; clearpteu is a panic of lab 3 only.                              *)
THEOREM PanicsAreExplained == Spec => []PanicsExplained
<1>1. IInv => PanicsExplained
  BY DEF IInv
<1> QED  BY <1>1, Invariance, PTL

(* SizeIsMapped, likewise: in lab 4 a process that runs has exactly the    *)
(* pages below sz and may use all but its guard, unless shm_open() skipped *)
(* one; in lab 3 its first stack page is no guard page, and if a program   *)
(* has been run in its slot it has the pages below sz.                     *)
THEOREM SizesAreMapped == Spec => []SizeIsMapped
<1>1. ASSUME IInv, NEW p \in Process, Runs(p)
      PROVE  IF kernel = "lab4"
             THEN /\ Mapped(p) \subseteq 0 .. sz[p] - 1
                  /\ "not mapped" \in misused \/ 0 .. sz[p] - 1 \subseteq Mapped(p)
                  /\ guard[p] = {PROGRAM}
             ELSE /\ TOP - 1 \notin guard[p]
                  /\ my_sp[p] = -1 \/ 0 .. sz[p] - 1 \subseteq Mapped(p)
  <2>1. CASE kernel = "lab4"
    BY <1>1, <2>1, RunsFacts DEF WholeLab4
  <2>2. CASE kernel = "lab3"
    BY <1>1, <2>2, RunsFacts DEF WholeLab3, HeapLab3
  <2> QED  BY <1>1, <2>1, <2>2 DEF IInv, TypeOK
<1>2. IInv => SizeIsMapped
  BY <1>1 DEF SizeIsMapped
<1> QED  BY <1>2, Invariance, PTL

-----------------------------------------------------------------------------
(* No frame is in two places                                               *)

LEMMA SameSize ==
  ASSUME NEW S, NEW f, f \in [S -> Frame], \A x, y \in S : f[x] = f[y] => x = y
  PROVE  /\ IsFiniteSet({f[x] : x \in S})
         /\ Cardinality({f[x] : x \in S}) = Cardinality(S)
<1> DEFINE T == {f[x] : x \in S}
<1>1. T \in SUBSET Frame
  OBVIOUS
<1>2. IsFiniteSet(T)
  BY <1>1, FramesFinite, FS_Subset
<1>3. f \in Injection(S, T) /\ f \in Surjection(S, T)
  BY DEF Injection, Surjection, IsInjective
<1> QED  BY <1>2, <1>3, FS_Injection

(* Disjoint sets of frames add up.                                         *)
LEMMA SizesAdd ==
  ASSUME NEW S \in SUBSET Frame, NEW T \in SUBSET Frame, S \cap T = {}
  PROVE  /\ Cardinality(S \cup T) = Cardinality(S) + Cardinality(T)
         /\ Cardinality(S) \in Nat /\ Cardinality(T) \in Nat
<1>1. IsFiniteSet(S) /\ IsFiniteSet(T)
  BY FramesFinite, FS_Subset
<1>2. Cardinality(S) \in Nat /\ Cardinality(T) \in Nat
  BY <1>1, FS_CardinalityType
<1>3. Cardinality(S \cap T) = 0
  BY FS_EmptySet
<1>4. Cardinality(S \cup T) = Cardinality(S) + Cardinality(T) - Cardinality(S \cap T)
  BY <1>1, FS_Union
<1> QED  BY <1>2, <1>3, <1>4

PagesOfOne == {pages[x[1]][x[2]] : x \in PrivateMappings}
DirectoryFrames == {pgdir[p] : p \in Directories}

(* A page that is not shared is its process's own.                         *)
LEMMA PrivateFacts ==
  ASSUME IInv, misfreed = {}, NEW x \in PrivateMappings
  PROVE  /\ x[1] \in Process /\ x[2] \in Page /\ x = <<x[1], x[2]>>
         /\ pages[x[1]][x[2]] \in Frame /\ pages[x[1]][x[2]] \in Home(x[1], x[2])
         /\ pages[x[1]][x[2]] \notin ShmFrame
<1>1. /\ x[1] \in Process /\ x[2] \in Page /\ x = <<x[1], x[2]>>
      /\ pages[x[1]][x[2]] \in Frame /\ pages[x[1]][x[2]] \notin shared
  BY DEF PrivateMappings, Mappings
<1>2. pages[x[1]][x[2]] \notin ShmFrame
  BY <1>1 DEF IInv, Accounted, SharedAccounted, IsMapped
<1>3. pages[x[1]][x[2]] \in Home(x[1], x[2]) \cup ShmFrame \cup {Address0, None}
  BY <1>1 DEF IInv, Homes
<1> QED  BY <1>1, <1>2, <1>3, ShmHomeFacts

LEMMA PagesCounted ==
  ASSUME IInv, misfreed = {}
  PROVE  Cardinality(PagesOfOne) = Cardinality(PrivateMappings)
<1> DEFINE S == PrivateMappings
           frame == [x \in S |-> pages[x[1]][x[2]]]
<1>1. \A x \in S : pages[x[1]][x[2]] \in Frame
  BY PrivateFacts
<1>2. frame \in [S -> Frame]
  BY <1>1
<1>3. ASSUME NEW x \in S, NEW y \in S, frame[x] = frame[y] PROVE x = y
  <2>1. /\ x[1] \in Process /\ x[2] \in Page /\ x = <<x[1], x[2]>>
        /\ frame[x] \in Home(x[1], x[2])
    BY PrivateFacts
  <2>2. /\ y[1] \in Process /\ y[2] \in Page /\ y = <<y[1], y[2]>>
        /\ frame[y] \in Home(y[1], y[2])
    BY PrivateFacts
  <2> HIDE DEF frame, S
  <2>3. x[1] = y[1] /\ x[2] = y[2]
    BY <1>3, <2>1, <2>2, HomeFacts, Constants
  <2> QED  BY ONLY <2>1, <2>2, <2>3
<1>4. PagesOfOne = {frame[x] : x \in S}
  BY DEF PagesOfOne
<1> HIDE DEF frame, S
<1>5. Cardinality({frame[x] : x \in S}) = Cardinality(S)
  BY <1>2, <1>3, SameSize
<1> QED  BY <1>4, <1>5 DEF S

LEMMA DirectoriesCounted ==
  ASSUME IInv
  PROVE  /\ Cardinality(DirectoryFrames) = Cardinality(Directories)
         /\ \A f \in DirectoryFrames : \E p \in Process : f \in Home(p, TOP) /\ pgdir[p] = f
         /\ \A p \in Process : \A f \in Home(p, TOP) : pgdir[p] = f => f \in DirectoryFrames
<1> DEFINE S == Directories
           frame == [p \in S |-> pgdir[p]]
<1>1. ASSUME NEW p \in S PROVE p \in Process /\ pgdir[p] \in Home(p, TOP) /\ pgdir[p] \in Frame
  <2>1. p \in Process /\ pgdir[p] # None
    BY DEF Directories
  <2>2. state[p] # "dead"
    BY <2>1 DEF IInv, Homes
  <2> QED  BY <2>1, <2>2, DirectoryFacts
<1>2. frame \in [S -> Frame]
  BY <1>1
<1>3. ASSUME NEW p \in S, NEW q \in S, frame[p] = frame[q] PROVE p = q
  BY <1>1, <1>3, HomeFacts, Constants
<1>4. DirectoryFrames = {frame[p] : p \in S}
  BY DEF DirectoryFrames
<1>5. \A p \in Process : \A f \in Home(p, TOP) : pgdir[p] = f => f \in DirectoryFrames
  BY HomeFacts, Constants DEF DirectoryFrames, Directories
<1>6. \A f \in DirectoryFrames : \E p \in Process : f \in Home(p, TOP) /\ pgdir[p] = f
  BY <1>1 DEF DirectoryFrames
<1> HIDE DEF frame, S
<1>7. Cardinality({frame[p] : p \in S}) = Cardinality(S)
  BY <1>2, <1>3, SameSize
<1> QED  BY <1>4, <1>5, <1>6, <1>7 DEF S

LEMMA Partition ==
  ASSUME IInv, misfreed = {}
  PROVE  /\ free \cup PagesOfOne \cup DirectoryFrames \cup shared \cup lost = Frame
         /\ free \cap PagesOfOne = {}
         /\ (free \cup PagesOfOne) \cap DirectoryFrames = {}
         /\ (free \cup PagesOfOne \cup DirectoryFrames) \cap shared = {}
         /\ (free \cup PagesOfOne \cup DirectoryFrames \cup shared) \cap lost = {}
         /\ PagesOfOne \subseteq Frame /\ DirectoryFrames \subseteq Frame
<1>1. PrivateAccounted /\ SharedAccounted /\ free \subseteq Frame
  BY DEF IInv, Accounted, TypeOK
<1>2. ASSUME NEW f \in PagesOfOne
      PROVE  /\ f \in Frame /\ f \notin free /\ f \notin ShmFrame /\ f # SpareFrame
             /\ f \notin DirectoryFrames
  <2>1. PICK x \in PrivateMappings : f = pages[x[1]][x[2]]
    BY DEF PagesOfOne
  <2>2. x[1] \in Process /\ x[2] \in Page /\ f \in Frame /\ f \in Home(x[1], x[2]) /\ f \notin ShmFrame
    BY <2>1, PrivateFacts
  <2>3. f \notin free
    BY <1>1, <2>1, <2>2 DEF PrivateAccounted
  <2>4. f # SpareFrame
    BY <2>2, HomeFacts, Constants
  <2>5. f \notin DirectoryFrames
    BY <2>2, DirectoriesCounted, HomeFacts, Constants
  <2> QED  BY <2>2, <2>3, <2>4, <2>5
<1>3. ASSUME NEW f \in DirectoryFrames
      PROVE  f \in Frame /\ f \notin free /\ f \notin ShmFrame /\ f # SpareFrame
  <2>1. PICK p \in Process : f \in Home(p, TOP) /\ pgdir[p] = f
    BY DirectoriesCounted
  <2>2. f \notin free
    BY <1>1, <2>1 DEF PrivateAccounted
  <2> QED  BY <2>1, <2>2, HomeFacts, Constants
<1>4. ASSUME NEW f \in Frame PROVE f \in free \cup PagesOfOne \cup DirectoryFrames \cup shared \cup lost
  <2>1. CASE \E p \in Process : \E v \in Page : f \in Home(p, v)
    <3>1. PICK p \in Process : \E v \in Page : f \in Home(p, v)
      BY <2>1
    <3>2. PICK v \in Page : f \in Home(p, v)
      BY <3>1
    <3>3. CASE f \in free
      BY <3>3
    <3>4. CASE pages[p][v] = f
      <4>1. f \notin shared
        BY <1>1, <3>2, HomeFacts, Constants DEF SharedAccounted
      <4>2. <<p, v>> \in PrivateMappings
        BY <3>4, <4>1 DEF PrivateMappings, Mappings
      <4>3. f \in PagesOfOne
        BY <3>4, <4>2 DEF PagesOfOne
      <4> QED  BY <4>3
    <3> QED  BY <1>1, <3>2, <3>3, <3>4 DEF PrivateAccounted
  <2>2. CASE \E p \in Process : f \in Home(p, TOP)
    BY <1>1, <2>2, DirectoriesCounted DEF PrivateAccounted
  <2>3. CASE f \in ShmFrame \/ f = SpareFrame
    BY <1>1, <2>3 DEF PrivateAccounted, SharedAccounted
  <2> QED  BY <2>1, <2>2, <2>3, FrameKinds
<1>5. /\ shared \subseteq ShmFrame /\ lost \subseteq ShmFrame \cup {SpareFrame}
      /\ shared \cap lost = {} /\ shared \cap free = {} /\ free \cap lost = {}
  BY <1>1 DEF SharedAccounted, PrivateAccounted
<1>6. shared \subseteq Frame /\ lost \subseteq Frame
  BY DEF IInv, TypeOK
<1>7. free \cup PagesOfOne \cup DirectoryFrames \cup shared \cup lost = Frame
  BY <1>1, <1>2, <1>3, <1>4, <1>6
<1> QED  BY <1>2, <1>3, <1>5, <1>7

(* FramesAccounted, for any number of processes and pages: until a frame   *)
(* is freed while in use, which only lab 4's shared pages lead to, each    *)
(* frame is free, or the page or the directory of exactly one process, or  *)
(* shared and in use, or lost.                                             *)
THEOREM FramesAreAccounted == Spec => []FramesAccounted
<1>1. ASSUME IInv, misfreed = {}
      PROVE  /\ free \cup PrivateFrames \cup shared \cup lost = Frame
             /\ Cardinality(free) + Cardinality(PrivateMappings) + Cardinality(Directories)
                  + Cardinality(shared) + Cardinality(lost) = Cardinality(Frame)
             /\ \A f \in shared : f \in MappedFrames \/ InTable(f)
  <2>1. /\ free \cup PagesOfOne \cup DirectoryFrames \cup shared \cup lost = Frame
        /\ free \cap PagesOfOne = {}
        /\ (free \cup PagesOfOne) \cap DirectoryFrames = {}
        /\ (free \cup PagesOfOne \cup DirectoryFrames) \cap shared = {}
        /\ (free \cup PagesOfOne \cup DirectoryFrames \cup shared) \cap lost = {}
        /\ PagesOfOne \subseteq Frame /\ DirectoryFrames \subseteq Frame
    BY <1>1, Partition
  <2>2. free \subseteq Frame /\ shared \subseteq Frame /\ lost \subseteq Frame
    BY <1>1 DEF IInv, TypeOK
  <2>3. PrivateFrames = PagesOfOne \cup DirectoryFrames
    BY DEF PrivateFrames, PagesOfOne, DirectoryFrames, MappedFrames, PrivateMappings
  <2>4. \A f \in shared : f \in MappedFrames \/ InTable(f)
    <3>1. SUFFICES ASSUME NEW f \in shared, ~InTable(f) PROVE f \in MappedFrames
      OBVIOUS
    <3>2. f \in Frame /\ IsMapped(f)
      BY <1>1, <2>2, <3>1 DEF IInv, Accounted, SharedAccounted
    <3>3. PICK p \in Process : \E v \in Page : pages[p][v] = f
      BY <3>2 DEF IsMapped
    <3>4. PICK v \in Page : pages[p][v] = f
      BY <3>3
    <3>5. <<p, v>> \in Mappings
      BY <3>2, <3>4 DEF Mappings
    <3> QED  BY <3>4, <3>5 DEF MappedFrames
  <2>5. Cardinality(free) + Cardinality(PagesOfOne) + Cardinality(DirectoryFrames)
          + Cardinality(shared) + Cardinality(lost) = Cardinality(Frame)
    <3> DEFINE A == free \cup PagesOfOne
               B == A \cup DirectoryFrames
               C == B \cup shared
    <3>1. A \in SUBSET Frame /\ B \in SUBSET Frame /\ C \in SUBSET Frame /\ C \cup lost = Frame
      BY <2>1, <2>2
    <3>2. /\ Cardinality(A) = Cardinality(free) + Cardinality(PagesOfOne)
          /\ Cardinality(free) \in Nat /\ Cardinality(PagesOfOne) \in Nat
      BY <2>1, <2>2, SizesAdd
    <3>3. Cardinality(B) = Cardinality(A) + Cardinality(DirectoryFrames)
          /\ Cardinality(DirectoryFrames) \in Nat
      BY <2>1, <3>1, SizesAdd
    <3>4. Cardinality(C) = Cardinality(B) + Cardinality(shared) /\ Cardinality(shared) \in Nat
      BY <2>1, <2>2, <3>1, SizesAdd
    <3>5. Cardinality(C \cup lost) = Cardinality(C) + Cardinality(lost)
          /\ Cardinality(lost) \in Nat
      BY <2>1, <2>2, <3>1, SizesAdd
    <3> HIDE DEF A, B, C
    <3> QED  BY <3>1, <3>2, <3>3, <3>4, <3>5
  <2>6. /\ Cardinality(PagesOfOne) = Cardinality(PrivateMappings)
        /\ Cardinality(DirectoryFrames) = Cardinality(Directories)
    BY <1>1, PagesCounted, DirectoriesCounted
  <2> QED  BY <2>1, <2>3, <2>4, <2>5, <2>6
<1>2. IInv => (misfreed # {} => kernel = "lab4")
  BY DEF IInv, NothingShared, TypeOK
<1>3. IInv => FramesAccounted
  BY <1>1, <1>2 DEF FramesAccounted
<1> QED  BY <1>3, Invariance, PTL

=============================================================================
