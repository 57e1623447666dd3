--------------------------------- MODULE Log ---------------------------------
(***************************************************************************)
(* The redo log of xv6_lab4 (log.c) over the part of the buffer cache it   *)
(* relies on (bio.c: B_DIRTY buffers are not recycled) and a disk that     *)
(* writes one block at a time and keeps what it wrote through a crash.     *)
(*                                                                         *)
(* A step is one critical section of log.lock, one bwrite(), or what a     *)
(* caller does to one buffer while it has it locked.  log_write() compares *)
(* log.lh.n with the limits before it takes log.lock: two steps.           *)
(***************************************************************************)
EXTENDS Integers, Sequences, FiniteSets

CONSTANTS
  MAXOPBLOCKS,   \* blocks one call may write
  LOGSIZE,       \* entries of a logheader
  NLOG,          \* log.size: blocks of the log region, its header included
  NHOME,         \* blocks of the file system behind the log region
  Data, Zero,    \* contents of a block, and what mkfs writes
  Absent,        \* in place of contents: not in the buffer cache
  Caller         \* processes that make file-system calls

ASSUME SizeAssumption ==
  /\ MAXOPBLOCKS \in Nat \ {0} /\ LOGSIZE \in Nat \ {0}
  /\ NLOG \in Nat \ {0} /\ NHOME \in Nat \ {0}
  /\ MAXOPBLOCKS <= LOGSIZE /\ LOGSIZE < NLOG + NHOME
ASSUME DataAssumption == Zero \in Data /\ Absent \notin Data
ASSUME CallerAssumption == IsFiniteSet(Caller)

Home == NLOG .. NLOG + NHOME - 1      \* block 0 of the region is the header
DiskBlock == 1 .. NLOG + NHOME - 1
NoBlock == 0

(* The log's own work: nothing, reading the header at boot, copying the    *)
(* cache to the log, copying the log home, finished but not yet announced. *)
Phase == {"idle", "boot", "write_log", "install", "done"}

(* A caller is outside, in begin_op()'s loop, asleep on &log, in its call, *)
(* in log_write() past the checks, in commit(), or stopped in panic().     *)
Counter == {"out", "begin", "wait", "op", "log", "commit", "panic"}

VARIABLES
  head, disk,                      \* on disk: header, all other blocks
  lh, outstanding, committing,     \* struct log
  phase, tail,                     \* progress of the log's own work
  cache, dirty,                    \* buffers of home blocks, the B_DIRTY ones
  pc, hold, wrote                  \* per caller: the buffer it has locked, blocks of its call

diskVars == <<head, disk>>
logVars == <<lh, outstanding, committing>>
workVars == <<phase, tail>>
bufVars == <<cache, dirty>>
callVars == <<pc, hold, wrote>>
vars == <<diskVars, logVars, workVars, bufVars, callVars>>

Entries(s) == {s[i] : i \in DOMAIN s}
Content(k) == IF k \in Home /\ cache[k] # Absent THEN cache[k] ELSE disk[k]
Locked(b) == \E p \in Caller : hold[p] = b
Recovering == ~committing /\ phase # "idle"

-----------------------------------------------------------------------------
(* A disk fresh from mkfs, at power on; memory is as a crash leaves it.    *)

Init ==
  /\ head = <<>> /\ disk = [k \in DiskBlock |-> Zero]
  /\ lh = <<>> /\ outstanding = 0 /\ committing = FALSE
  /\ phase = "boot" /\ tail = 0
  /\ cache = [b \in Home |-> Absent] /\ dirty = {}
  /\ pc = [p \in Caller |-> "out"]
  /\ hold = [p \in Caller |-> NoBlock]
  /\ wrote = [p \in Caller |-> {}]

Crash ==
  /\ phase # "boot"
  /\ lh' = <<>> /\ outstanding' = 0 /\ committing' = FALSE
  /\ phase' = "boot" /\ tail' = 0
  /\ cache' = [b \in Home |-> Absent] /\ dirty' = {}
  /\ pc' = [p \in Caller |-> "out"]
  /\ hold' = [p \in Caller |-> NoBlock]
  /\ wrote' = [p \in Caller |-> {}]
  /\ UNCHANGED diskVars

-----------------------------------------------------------------------------
(* begin_op()                                                              *)

ShortIfOutstanding ==                             \* mutant: forgets to count the caller
  Len(lh) + outstanding * MAXOPBLOCKS > LOGSIZE
Short == Len(lh) + (outstanding + 1) * MAXOPBLOCKS > LOGSIZE

MustWaitForRoom == Short                          \* mutant: joins a running commit
MustWait == committing \/ Short

Begin(p) ==
  /\ pc[p] \in {"out", "begin"} /\ ~Recovering
  /\ ~MustWait
  /\ outstanding' = outstanding + 1
  /\ pc' = [pc EXCEPT ![p] = "op"]
  /\ UNCHANGED <<diskVars, lh, committing, workVars, bufVars, hold, wrote>>

BeginWaits(p) ==
  /\ pc[p] \in {"out", "begin"} /\ ~Recovering
  /\ MustWait
  /\ pc' = [pc EXCEPT ![p] = "wait"]
  /\ UNCHANGED <<diskVars, logVars, workVars, bufVars, hold, wrote>>

-----------------------------------------------------------------------------
(* The body of a call: it reads a block, changes it in the cache and gives *)
(* it to log_write().  A call writes at most MAXOPBLOCKS blocks.           *)

Refused == Len(lh) >= LOGSIZE \/ Len(lh) >= NLOG - 1 \/ outstanding < 1

Modify(p, b, v) ==
  /\ pc[p] = "op" /\ ~Locked(b)
  /\ Cardinality(wrote[p] \cup {b}) <= MAXOPBLOCKS
  /\ wrote' = [wrote EXCEPT ![p] = @ \cup {b}]
  /\ hold' = [hold EXCEPT ![p] = b]
  /\ cache' = [cache EXCEPT ![b] = v]
  /\ pc' = [pc EXCEPT ![p] = IF Refused THEN "panic" ELSE "log"]
  /\ UNCHANGED <<diskVars, logVars, workVars, dirty>>

NoAbsorption(b) == Append(lh, b)                  \* mutant: a block is logged twice
Logged(b) == IF b \in Entries(lh) THEN lh ELSE Append(lh, b)

Pinned(b) == dirty \cup {b}

LogWrite(p) ==
  /\ pc[p] = "log"
  /\ lh' = Logged(hold[p])
  /\ dirty' = Pinned(hold[p])
  /\ hold' = [hold EXCEPT ![p] = NoBlock]
  /\ pc' = [pc EXCEPT ![p] = "op"]
  /\ UNCHANGED <<diskVars, outstanding, committing, workVars, cache, wrote>>

(* bget(): a buffer nobody uses is filled, or taken for another block      *)
Fill(b) ==
  /\ cache[b] = Absent /\ ~Recovering
  /\ cache' = [cache EXCEPT ![b] = disk[b]]
  /\ UNCHANGED <<diskVars, logVars, workVars, dirty, callVars>>

Recycle(b) ==
  /\ cache[b] # Absent /\ b \notin dirty /\ ~Locked(b)
  /\ cache' = [cache EXCEPT ![b] = Absent]
  /\ UNCHANGED <<diskVars, logVars, workVars, dirty, callVars>>

-----------------------------------------------------------------------------
(* end_op()                                                                *)

Wakeup == [p \in Caller |-> IF pc[p] = "wait" THEN "begin" ELSE pc[p]]

WakeNone == pc                                    \* mutant: end_op() wakes nobody
WakeAtEnd == Wakeup

End(p) ==
  /\ pc[p] = "op" /\ outstanding > 1
  /\ outstanding' = outstanding - 1
  /\ pc' = [WakeAtEnd EXCEPT ![p] = "out"]
  /\ wrote' = [wrote EXCEPT ![p] = {}]
  /\ UNCHANGED <<diskVars, lh, committing, workVars, bufVars, hold>>

EndLast(p) ==
  /\ pc[p] = "op" /\ outstanding = 1
  /\ outstanding' = 0 /\ committing' = TRUE
  /\ phase' = IF lh = <<>> THEN "done" ELSE "write_log"
  /\ pc' = [pc EXCEPT ![p] = "commit"]
  /\ wrote' = [wrote EXCEPT ![p] = {}]
  /\ UNCHANGED <<diskVars, lh, tail, bufVars, hold>>

-----------------------------------------------------------------------------
(* commit() and recover_from_log(): one bwrite() a step.                   *)

Bwrite(k, v) ==
  /\ disk' = [disk EXCEPT ![k] = v]
  /\ cache' = IF k \in Home THEN [cache EXCEPT ![k] = v] ELSE cache
  /\ dirty' = dirty \ {k}

WriteLog ==
  /\ phase = "write_log" /\ tail < Len(lh)
  /\ Bwrite(tail + 1, Content(lh[tail + 1]))
  /\ tail' = tail + 1
  /\ UNCHANGED <<head, logVars, phase, callVars>>

(* the commit point                                                        *)
WriteHead ==
  /\ phase = "write_log" /\ tail = Len(lh)
  /\ head' = lh
  /\ phase' = "install" /\ tail' = 0
  /\ UNCHANGED <<disk, logVars, bufVars, callVars>>

ReadHead ==
  /\ phase = "boot"
  /\ lh' = head
  /\ phase' = "install" /\ tail' = 0
  /\ UNCHANGED <<diskVars, outstanding, committing, bufVars, callVars>>

Install ==
  /\ phase = "install" /\ tail < Len(lh)
  /\ Bwrite(lh[tail + 1], Content(tail + 1))
  /\ tail' = tail + 1
  /\ UNCHANGED <<head, logVars, phase, callVars>>

ClearEarly == phase = "install"                   \* mutant: does not wait for the copies
Installed == phase = "install" /\ tail = Len(lh)

(* write_head() again, with log.lh.n = 0                                   *)
Clear ==
  /\ Installed
  /\ lh' = <<>> /\ head' = <<>>
  /\ phase' = IF committing THEN "done" ELSE "idle"
  /\ tail' = 0
  /\ UNCHANGED <<disk, outstanding, committing, bufVars, callVars>>

Committed ==
  /\ phase = "done"
  /\ committing' = FALSE /\ phase' = "idle"
  /\ pc' = [p \in Caller |-> IF pc[p] = "commit" THEN "out" ELSE Wakeup[p]]
  /\ UNCHANGED <<diskVars, lh, outstanding, tail, bufVars, hold, wrote>>

-----------------------------------------------------------------------------
Call(p) ==
  \/ Begin(p) \/ BeginWaits(p) \/ End(p) \/ EndLast(p) \/ LogWrite(p)
  \/ \E b \in Home, v \in Data : Modify(p, b, v)

Buffer == \E b \in Home : Fill(b) \/ Recycle(b)

Work == ReadHead \/ WriteLog \/ WriteHead \/ Install \/ Clear \/ Committed

Next == (\E p \in Caller : Call(p)) \/ Buffer \/ Work \/ Crash

Spec == Init /\ [][Next]_vars

-----------------------------------------------------------------------------
(* Safety                                                                  *)

InCall == {p \in Caller : pc[p] \in {"op", "log", "panic"}}

(* Every variable holds a value of its kind, and a header no more blocks   *)
(* than it has room for.                                                   *)
TypeOK ==
  /\ lh \in Seq(Home) /\ head \in Seq(Home)
  /\ Len(lh) <= LOGSIZE /\ Len(head) <= LOGSIZE
  /\ disk \in [DiskBlock -> Data]
  /\ outstanding \in 0 .. Cardinality(Caller)
  /\ committing \in BOOLEAN
  /\ phase \in Phase /\ tail \in 0 .. LOGSIZE
  /\ cache \in [Home -> Data \cup {Absent}] /\ dirty \subseteq Home
  /\ pc \in [Caller -> Counter]
  /\ hold \in [Caller -> Home \cup {NoBlock}]
  /\ wrote \in [Caller -> SUBSET Home]

(* The log never holds more blocks than its region has room for behind the *)
(* header, so that write_log() stays out of the file system, though        *)
(* log_write() looks at the length of the log without its lock.            *)
LogFits == Len(lh) <= NLOG - 1

(* A commit runs alone: no call is in progress beside it, so that the      *)
(* panics of end_op() and log_write() on log.committing and                *)
(* log.outstanding cannot happen, and only one caller runs it.             *)
CommitAlone ==
  /\ committing => InCall = {}
  /\ outstanding = Cardinality(InCall)
  /\ \A p, q \in Caller : pc[p] = "commit" /\ pc[q] = "commit" => p = q
  /\ committing <=> \E p \in Caller : pc[p] = "commit"

(* A caller sleeps in begin_op() only while what it waits for is still to  *)
(* come: the end of a commit, or room in the log.  No wakeup is missed.    *)
NoStrandedWaiter ==
  \A p \in Caller : pc[p] = "wait" => committing \/ (Short /\ outstanding > 0)

(* The log implements atomic groups: after a crash at any point, also one  *)
(* during recovery, the disk holds exactly the groups that were committed. *)
Recovered ==
  [b \in Home |->
    IF b \in Entries(head)
    THEN disk[CHOOSE i \in DOMAIN head : head[i] = b]
    ELSE disk[b]]
Seen == [b \in Home |-> IF Recovering THEN Recovered[b] ELSE Content(b)]

Promise == INSTANCE AtomicDisk WITH
  Block <- Home, stable <- Recovered, current <- Seen,
  open <- InCall, flushing <- committing
AtomicGroups == Promise!Spec

(* begin_op() admits a call only if the log has room for all it may write  *)
(* ("if it thinks the log is close to running out, it sleeps"), so no call *)
(* of at most MAXOPBLOCKS blocks meets the panic "too big a transaction"   *)
(* and the log stays within its region.                                    *)
AdmittedOpsFit == LogFits /\ \A p \in Caller : pc[p] # "panic"
=============================================================================
