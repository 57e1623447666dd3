----------------------------- MODULE BufferCache -----------------------------
(***************************************************************************)
(* The buffer cache (bio.c) over the disk driver (Ide) and sleep locks     *)
(* (SleepLock), with the processes that use it.  A step is one critical    *)
(* section of bcache.lock, of idelock or of a sleep lock, or what a        *)
(* process does to the contents of a buffer it has locked.                 *)
(*                                                                         *)
(* A process holds at most MaxHeld buffers at a time and takes them in the *)
(* order of Block, as the file system does: a log block before the home    *)
(* block, an indirect block before the block of the bitmap.                *)
(***************************************************************************)
EXTENDS Ide, FiniteSets

CONSTANTS
  Process, Nobody,
  Zero,          \* contents of a fresh disk
  MaxHeld,       \* buffers a process holds at a time
  MaxDirty       \* buffers the log may keep pinned by B_DIRTY

ASSUME BlockAssumption == Block \subseteq Nat /\ NoBlock \notin Block
ASSUME BufferAssumption == IsFiniteSet(Buffer) /\ Zero \in Data
ASSUME ProcessAssumption == IsFiniteSet(Process) /\ Nobody \notin Process

VARIABLES
  refcnt,            \* struct buf
  lru,               \* the list from bcache.head.next, most recently released first
  holder, sleepers,  \* the sleep locks of the buffers
  pc, hand           \* per process: where it is, the buffers it has a reference to

lockVars == <<holder, sleepers>>
procVars == <<pc, hand>>
vars == <<bufVars, ideVars, refcnt, lru, lockVars, procVars>>

(* idle; in acquiresleep(); about to read, to write, asleep in iderw(), to *)
(* test there again; using the buffer; it has changed contents that are    *)
(* neither logged nor written; past releasesleep(); in panic()             *)
Counter == {"idle", "lock", "read", "write", "io", "awake", "use", "changed", "put", "panic"}

Locks == INSTANCE SleepLock WITH Lock <- Buffer

Last(s) == s[Len(s)]
AllButLast(s) == SubSeq(s, 1, Len(s) - 1)
Current(p) == Last(hand[p])

Goto(p, from, to) == pc[p] = from /\ pc' = [pc EXCEPT ![p] = to]

(* bget() panics with bcache.lock held                                     *)
CacheUnlocked == \A p \in Process : pc[p] # "panic"

-----------------------------------------------------------------------------
(* binit() and a fresh disk                                                *)

Init ==
  /\ blockno = [b \in Buffer |-> NoBlock] /\ valid = {} /\ dirty = {}
  /\ data = [b \in Buffer |-> Zero]
  /\ queue = <<>> /\ command = Idle /\ disk = [k \in Block |-> Zero]
  /\ refcnt = [b \in Buffer |-> 0]
  /\ lru \in {s \in [1 .. Cardinality(Buffer) -> Buffer] : Elements(s) = Buffer}
  /\ Locks!initsleeplock
  /\ pc = [p \in Process |-> "idle"] /\ hand = [p \in Process |-> <<>>]

-----------------------------------------------------------------------------
(* bread()                                                                 *)

MayRead(p, k) ==
  \/ pc[p] = "idle"
  \/ pc[p] = "use" /\ Len(hand[p]) < MaxHeld /\ k > blockno[Current(p)]

Cached(k) == {b \in Buffer : blockno[b] = k}

UnusedDirtyToo(b) == refcnt[b] = 0                \* mutant: a pinned buffer is recycled
UnusedClean(b) == b \notin dirty                  \* mutant: a buffer in use is recycled
Unused(b) == refcnt[b] = 0 /\ b \notin dirty

Take(p, b) ==
  /\ refcnt' = [refcnt EXCEPT ![b] = @ + 1]
  /\ hand' = [hand EXCEPT ![p] = Append(@, b)]
  /\ pc' = [pc EXCEPT ![p] = "lock"]

BgetHit(p, k) ==
  /\ MayRead(p, k) /\ CacheUnlocked
  /\ \E b \in Cached(k) : Take(p, b)
  /\ UNCHANGED <<bufVars, ideVars, lru, lockVars>>

KeepValid(b) == valid                             \* mutant: B_VALID is not cleared
ClearValid(b) == valid \ {b}

(* The list is searched from its end.                                      *)
Victim(b) ==
  /\ Unused(b)
  /\ \E i \in DOMAIN lru : lru[i] = b /\ \A j \in i + 1 .. Len(lru) : ~Unused(lru[j])

BgetMiss(p, k) ==
  /\ MayRead(p, k) /\ CacheUnlocked /\ Cached(k) = {}
  /\ \E b \in Buffer :
       /\ Victim(b) /\ Take(p, b)
       /\ blockno' = [blockno EXCEPT ![b] = k]
       /\ valid' = ClearValid(b) /\ dirty' = dirty \ {b}
  /\ UNCHANGED <<data, ideVars, lru, lockVars>>

BgetPanics(p, k) ==
  /\ MayRead(p, k) /\ CacheUnlocked /\ Cached(k) = {}
  /\ \A b \in Buffer : ~Unused(b)
  /\ pc' = [pc EXCEPT ![p] = "panic"]
  /\ UNCHANGED <<bufVars, ideVars, refcnt, lru, lockVars, hand>>

LockBuffer(p) ==
  /\ pc[p] = "lock" /\ Locks!Take(p, Current(p))
  /\ pc' = [pc EXCEPT ![p] = IF Current(p) \in valid THEN "use" ELSE "read"]
  /\ UNCHANGED <<bufVars, ideVars, refcnt, lru, hand>>

SleepOnBuffer(p) ==
  /\ pc[p] = "lock" /\ Locks!Sleep(p, Current(p))
  /\ UNCHANGED <<bufVars, ideVars, refcnt, lru, procVars>>

(* iderw(): its body, and the test of its loop after a wakeup              *)
Iderw(p) ==
  /\ pc[p] \in {"read", "write"}
  /\ Enqueue(Current(p))
  /\ pc' = [pc EXCEPT ![p] = "io"]
  /\ UNCHANGED <<bufVars, refcnt, lru, lockVars, hand>>

Served(p) == Current(p) \in valid \ dirty

IderwReturns(p) ==
  /\ Goto(p, "awake", "use") /\ Served(p)
  /\ UNCHANGED <<bufVars, ideVars, refcnt, lru, lockVars, hand>>

IderwSleeps(p) ==
  /\ Goto(p, "awake", "io") /\ ~Served(p)
  /\ UNCHANGED <<bufVars, ideVars, refcnt, lru, lockVars, hand>>

WakeWaiters(b) ==
  [p \in Process |-> IF pc[p] = "io" /\ Current(p) = b THEN "awake" ELSE pc[p]]

Ideintr ==
  /\ \E b \in Buffer : Interrupt(b) /\ pc' = WakeWaiters(b)
  /\ UNCHANGED <<refcnt, lru, lockVars, hand>>

-----------------------------------------------------------------------------
(* What the process does with the buffer                                   *)

Modify(p, v) ==
  /\ pc[p] \in {"use", "changed"}
  /\ data' = [data EXCEPT ![Current(p)] = v]
  /\ pc' = [pc EXCEPT ![p] = "changed"]
  /\ UNCHANGED <<blockno, valid, dirty, ideVars, refcnt, lru, lockVars, hand>>

(* log_write() pins the buffer; the log pins no more than it has room for  *)
LogWrite(p) ==
  /\ Goto(p, "changed", "use")
  /\ Cardinality(dirty \cup {Current(p)}) <= MaxDirty
  /\ dirty' = dirty \cup {Current(p)}
  /\ UNCHANGED <<blockno, valid, data, ideVars, refcnt, lru, lockVars, hand>>

Bwrite(p) ==
  /\ pc[p] \in {"use", "changed"}
  /\ dirty' = dirty \cup {Current(p)}
  /\ pc' = [pc EXCEPT ![p] = "write"]
  /\ UNCHANGED <<blockno, valid, data, ideVars, refcnt, lru, lockVars, hand>>

-----------------------------------------------------------------------------
(* brelse()                                                                *)

Brelse(p) ==
  /\ Goto(p, "use", "put")
  /\ Locks!Release(Current(p))
  /\ UNCHANGED <<bufVars, ideVars, refcnt, lru, hand>>

OffTheList(b) == SelectSeq(lru, LAMBDA c : c # b) \* mutant: not put back at the front
ToFront(b) ==
  LET n == CHOOSE i \in DOMAIN lru : lru[i] = b IN
  [i \in DOMAIN lru |-> IF i = 1 THEN b ELSE IF i <= n THEN lru[i - 1] ELSE lru[i]]

BrelsePut(p) ==
  /\ pc[p] = "put" /\ CacheUnlocked
  /\ LET b == Current(p) IN
       /\ refcnt' = [refcnt EXCEPT ![b] = @ - 1]
       /\ lru' = IF refcnt[b] = 1 THEN ToFront(b) ELSE lru
  /\ hand' = [hand EXCEPT ![p] = AllButLast(@)]
  /\ pc' = [pc EXCEPT ![p] = IF Len(hand[p]) > 1 THEN "use" ELSE "idle"]
  /\ UNCHANGED <<bufVars, ideVars, lockVars>>

(* kill() makes a sleeper runnable, whatever it sleeps on                  *)
KillWakes(p) ==
  \/ /\ Locks!Rouse(p)
     /\ UNCHANGED <<bufVars, ideVars, refcnt, lru, procVars>>
  \/ /\ Goto(p, "io", "awake")
     /\ UNCHANGED <<bufVars, ideVars, refcnt, lru, lockVars, hand>>

-----------------------------------------------------------------------------
Bget(p) == \E k \in Block : BgetHit(p, k) \/ BgetMiss(p, k) \/ BgetPanics(p, k)

Wait(p) ==
  LockBuffer(p) \/ SleepOnBuffer(p) \/ Iderw(p) \/ IderwReturns(p) \/ IderwSleeps(p)

Use(p) == LogWrite(p) \/ Bwrite(p) \/ Brelse(p) \/ \E v \in Data : Modify(p, v)

Next ==
  \/ \E p \in Process : Bget(p) \/ Wait(p) \/ Use(p) \/ BrelsePut(p) \/ KillWakes(p)
  \/ Ideintr

(* The disk answers, and a process that is runnable in the kernel runs.    *)
Fairness ==
  /\ WF_vars(Ideintr)
  /\ \A p \in Process : WF_vars(Iderw(p)) /\ WF_vars(IderwReturns(p))
                        /\ WF_vars(LockBuffer(p)) /\ WF_vars(BrelsePut(p))

Spec == Init /\ [][Next]_vars
FairSpec == Spec /\ Fairness

-----------------------------------------------------------------------------
(* Safety                                                                  *)

Using(p, b) == b \in Elements(hand[p]) /\ ~(pc[p] \in {"lock", "put"} /\ b = Current(p))

(* Every variable holds a value of its kind.                               *)
TypeOK ==
  /\ blockno \in [Buffer -> Block \cup {NoBlock}]
  /\ valid \subseteq Buffer /\ dirty \subseteq Buffer
  /\ data \in [Buffer -> Data] /\ disk \in [Block -> Data]
  /\ queue \in Seq(Buffer)
  /\ refcnt \in [Buffer -> Nat] /\ lru \in Seq(Buffer) /\ Elements(lru) = Buffer
  /\ Locks!TypeOK
  /\ pc \in [Process -> Counter] /\ hand \in [Process -> Seq(Buffer)]

(* A block is in at most one buffer, a buffer's count is the number of     *)
(* processes that rely on it, and who uses it has its lock: nobody finds   *)
(* another block in a buffer it is using or waiting for.                   *)
NoTwoCopies ==
  /\ \A b, c \in Buffer : blockno[b] = blockno[c] /\ blockno[b] # NoBlock => b = c
  /\ \A b \in Buffer :
       /\ refcnt[b] = Cardinality({p \in Process : b \in Elements(hand[p])})
       /\ \A p \in Process : Using(p, b) <=> holder[b] = p

(* What the cache may forget is on the disk: a valid buffer that is not    *)
(* pinned and not being changed holds what the disk holds.                 *)
CleanIsStored ==
  \A b \in valid \ dirty :
    \/ data[b] = disk[blockno[b]]
    \/ \E p \in Process : pc[p] = "changed" /\ Current(p) = b

(* The driver serves requests in order, each for its own buffer, and a     *)
(* process sleeps only while its request is queued or the lock it wants is *)
(* taken.                                                                  *)
ServedInOrder ==
  /\ RightRequest
  /\ \A p \in Process : pc[p] = "io" => Current(p) \in Elements(queue)
  /\ \A b \in Elements(queue) :
       \E p \in Process : holder[b] = p /\ pc[p] \in {"io", "awake"} /\ Current(p) = b
  /\ Locks!NoStrandedSleeper

(* The cache and the driver implement a store of blocks with one owner     *)
(* each, which writes exactly what and when it is asked to.  The log       *)
(* relies on it: a bwrite() that has returned is on the disk, and a block  *)
(* that is only pinned is not.                                             *)
BufferOf(k) == CHOOSE b \in Buffer : blockno[b] = k
Latest == [k \in Block |->
  IF Cached(k) # {} /\ BufferOf(k) \in valid THEN data[BufferOf(k)] ELSE disk[k]]
Owner == [k \in Block |-> IF Cached(k) # {} THEN holder[BufferOf(k)] ELSE Nobody]
Syncing == {k \in Block : \E p \in Process :
  /\ pc[p] \in {"write", "io", "awake"}
  /\ blockno[Current(p)] = k /\ Current(p) \in valid \cap dirty}

Store == INSTANCE BlockStore WITH
  content <- Latest, durable <- disk, owner <- Owner, syncing <- Syncing
BlockStoreSpec == Store!Spec

(* Every request to the disk is answered and its caller goes on.           *)
DiskAnswers == \A p \in Process : pc[p] = "io" ~> pc[p] = "use"
=============================================================================
