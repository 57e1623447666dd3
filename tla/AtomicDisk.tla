----------------------------- MODULE AtomicDisk -----------------------------
(***************************************************************************)
(* What log.c promises the file-system calls: their updates reach the disk *)
(* in whole groups, a group is written only when no call is in progress,   *)
(* the call that ends a group returns when the group is on the disk, and a *)
(* crash loses exactly the updates that are not.                           *)
(***************************************************************************)
CONSTANTS
  Block,      \* home blocks of the file system
  Data,       \* what a block can hold
  Caller      \* processes that make file-system calls

VARIABLES
  stable,     \* the blocks as they will be found after a crash
  current,    \* the blocks as the calls see them
  open,       \* callers inside a call
  flushing    \* the last of a group is writing it out

vars == <<stable, current, open, flushing>>

Init ==
  /\ stable \in [Block -> Data] /\ current = stable
  /\ open = {} /\ flushing = FALSE

Begin(p) ==
  /\ ~flushing /\ p \notin open
  /\ open' = open \cup {p}
  /\ UNCHANGED <<stable, current, flushing>>

Update(p, b, v) ==
  /\ p \in open
  /\ current' = [current EXCEPT ![b] = v]
  /\ UNCHANGED <<stable, open, flushing>>

End(p) ==
  /\ p \in open
  /\ open' = open \ {p}
  /\ flushing' = (open' = {})
  /\ UNCHANGED <<stable, current>>

Commit ==
  /\ flushing
  /\ stable' = current
  /\ UNCHANGED <<current, open, flushing>>

Return ==
  /\ flushing /\ stable = current
  /\ flushing' = FALSE
  /\ UNCHANGED <<stable, current, open>>

Crash ==
  /\ current' = stable
  /\ open' = {} /\ flushing' = FALSE
  /\ UNCHANGED stable

Next ==
  \/ \E p \in Caller : Begin(p) \/ End(p)
  \/ \E p \in Caller, b \in Block, v \in Data : Update(p, b, v)
  \/ Commit \/ Return \/ Crash

Spec == Init /\ [][Next]_vars
=============================================================================
