----------------------------- MODULE BlockStore -----------------------------
(***************************************************************************)
(* What the buffer cache and the disk driver promise their callers: a      *)
(* block is in the hands of one process at a time, which sees and changes  *)
(* its latest contents; a block reaches the disk when a process that has   *)
(* it asks for that, at no other time, and the request ends only then.     *)
(***************************************************************************)
CONSTANTS Process, Block, Data, Nobody

VARIABLES
  content,    \* the blocks as processes see them
  durable,    \* the blocks on the disk
  owner,      \* who has the block
  syncing     \* the blocks whose owner waits for them to reach the disk

vars == <<content, durable, owner, syncing>>

Init ==
  /\ durable \in [Block -> Data] /\ content = durable
  /\ owner = [b \in Block |-> Nobody]
  /\ syncing = {}

Acquire(p, b) ==
  /\ owner[b] = Nobody
  /\ owner' = [owner EXCEPT ![b] = p]
  /\ UNCHANGED <<content, durable, syncing>>

Update(p, b, v) ==
  /\ owner[b] = p /\ b \notin syncing
  /\ content' = [content EXCEPT ![b] = v]
  /\ UNCHANGED <<durable, owner, syncing>>

Request(p, b) ==
  /\ owner[b] = p /\ b \notin syncing
  /\ syncing' = syncing \cup {b}
  /\ UNCHANGED <<content, durable, owner>>

Stored(b) ==
  /\ b \in syncing
  /\ durable' = [durable EXCEPT ![b] = content[b]]
  /\ syncing' = syncing \ {b}
  /\ UNCHANGED <<content, owner>>

GiveUp(p, b) ==
  /\ owner[b] = p /\ b \notin syncing
  /\ owner' = [owner EXCEPT ![b] = Nobody]
  /\ UNCHANGED <<content, durable, syncing>>

Next ==
  \/ \E p \in Process, b \in Block : Acquire(p, b) \/ Request(p, b) \/ GiveUp(p, b)
  \/ \E p \in Process, b \in Block, v \in Data : Update(p, b, v)
  \/ \E b \in Block : Stored(b)

Spec == Init /\ [][Next]_vars
=============================================================================
