------------------------------- MODULE Channel -------------------------------
(***************************************************************************)
(* What pipe.c promises: a pipe is a bounded queue of bytes.  Writers add  *)
(* at its end while they have the write end open, readers take from its    *)
(* front while they have the read end open, and nothing else changes it.   *)
(***************************************************************************)
EXTENDS Naturals, Sequences

CONSTANTS Id, Byte, Capacity

VARIABLES
  queue,                   \* per channel: the bytes in it, oldest first
  readopen, writeopen      \* the channels with that end open

vars == <<queue, readopen, writeopen>>

Init ==
  /\ queue = [c \in Id |-> <<>>]
  /\ readopen = {} /\ writeopen = {}

Create(c) ==
  /\ c \notin readopen \cup writeopen /\ queue[c] = <<>>
  /\ readopen' = readopen \cup {c} /\ writeopen' = writeopen \cup {c}
  /\ UNCHANGED queue

Put(c) ==
  /\ c \in writeopen
  /\ Len(queue'[c]) \in Len(queue[c]) + 1 .. Capacity
  /\ SubSeq(queue'[c], 1, Len(queue[c])) = queue[c]
  /\ queue' = [queue EXCEPT ![c] = queue'[c]]
  /\ UNCHANGED <<readopen, writeopen>>

Get(c) ==
  /\ c \in readopen
  /\ \E k \in 1 .. Len(queue[c]) :
       queue' = [queue EXCEPT ![c] = SubSeq(@, k + 1, Len(@))]
  /\ UNCHANGED <<readopen, writeopen>>

CloseOne(c) ==
  /\ c \in readopen \cap writeopen
  /\ \/ readopen' = readopen \ {c} /\ UNCHANGED writeopen
     \/ writeopen' = writeopen \ {c} /\ UNCHANGED readopen
  /\ UNCHANGED queue

CloseLast(c) ==
  /\ c \in readopen \cup writeopen /\ c \notin readopen \cap writeopen
  /\ readopen' = readopen \ {c} /\ writeopen' = writeopen \ {c}
  /\ queue' = [queue EXCEPT ![c] = <<>>]

Next == \E c \in Id : Create(c) \/ Put(c) \/ Get(c) \/ CloseOne(c) \/ CloseLast(c)

Spec == Init /\ [][Next]_vars
=============================================================================
