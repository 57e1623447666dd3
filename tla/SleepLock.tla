------------------------------ MODULE SleepLock ------------------------------
(***************************************************************************)
(* The sleep locks of sleeplock.c, as their users (buffers, inodes) see    *)
(* them.  Each critical section of lk->lk is one step; the user keeps the  *)
(* program counter of the process, which says that it is in acquiresleep().*)
(***************************************************************************)
CONSTANTS
  Process,
  Lock,
  Nobody         \* in place of a holder: the lock is free

VARIABLES
  holder,        \* per lock: lk->locked and lk->pid
  sleepers       \* per lock: the processes asleep on it

initsleeplock ==
  /\ holder = [l \in Lock |-> Nobody]
  /\ sleepers = [l \in Lock |-> {}]

Free(l) == holder[l] = Nobody

(* acquiresleep(): one test of the loop                                    *)
Take(p, l) ==
  /\ p \notin sleepers[l] /\ Free(l)
  /\ holder' = [holder EXCEPT ![l] = p]
  /\ UNCHANGED sleepers

Sleep(p, l) ==
  /\ p \notin sleepers[l] /\ ~Free(l)
  /\ sleepers' = [sleepers EXCEPT ![l] = @ \cup {p}]
  /\ UNCHANGED holder

(* releasesleep() wakes everybody; each looks at the lock again            *)
Release(l) ==
  /\ holder' = [holder EXCEPT ![l] = Nobody]
  /\ sleepers' = [sleepers EXCEPT ![l] = {}]

(* A sleeper made runnable by kill(): it looks at the lock again.          *)
Rouse(p) ==
  /\ \E l \in Lock : p \in sleepers[l]
  /\ sleepers' = [l \in Lock |-> sleepers[l] \ {p}]
  /\ UNCHANGED holder

TypeOK ==
  /\ holder \in [Lock -> Process \cup {Nobody}]
  /\ sleepers \in [Lock -> SUBSET Process]

(* Nobody sleeps on a free lock: no wakeup is missed.                      *)
NoStrandedSleeper == \A l \in Lock : Free(l) => sleepers[l] = {}
=============================================================================
