--------------------------------- MODULE Ide ---------------------------------
(***************************************************************************)
(* The disk driver (ide.c): a queue of buffers whose head the disk works   *)
(* on, and the controller, which knows only the command it was given last. *)
(* The fields of struct buf that the driver reads and sets are declared    *)
(* here.  Disk 0 alone; the disk neither fails nor loses a request.        *)
(***************************************************************************)
EXTENDS Naturals, Sequences

CONSTANTS
  Buffer,        \* bcache.buf
  Block,         \* blocks of the disk
  Data,          \* contents of a block
  NoBlock        \* no block: b->blockno before the first use, no command

VARIABLES
  blockno, valid, dirty, data,   \* struct buf: B_VALID and B_DIRTY as sets of buffers
  queue,                         \* idequeue, linked by qnext
  command,                       \* what the controller was last told to do
  disk

bufVars == <<blockno, valid, dirty, data>>
ideVars == <<queue, command, disk>>

Elements(s) == {s[i] : i \in DOMAIN s}

Idle == [block |-> NoBlock, write |-> FALSE]

(* idestart(): a write hands the data to the controller at once            *)
Start(b) ==
  IF b \in dirty
  THEN [block |-> blockno[b], write |-> TRUE, data |-> data[b]]
  ELSE [block |-> blockno[b], write |-> FALSE]

NoStart(q) == Idle                                \* mutant: the next request is not started
StartNext(q) == IF q = <<>> THEN Idle ELSE Start(Head(q))

InFront(b) == <<b>> \o queue                      \* mutant: queued before the active request
Appended(b) == Append(queue, b)

(* iderw(), up to its sleep                                                *)
Enqueue(b) ==
  /\ queue' = Appended(b)
  /\ command' = IF queue = <<>> THEN Start(b) ELSE command
  /\ UNCHANGED disk

(* The disk has done what it was told and interrupts.  ideintr() takes the *)
(* buffer at the head for the one that was served.                         *)
Interrupt(b) ==
  /\ queue # <<>> /\ b = Head(queue) /\ command # Idle
  /\ disk' = IF command.write
             THEN [disk EXCEPT ![command.block] = command.data] ELSE disk
  /\ data' = IF b \in dirty THEN data ELSE [data EXCEPT ![b] = disk[command.block]]
  /\ valid' = valid \cup {b} /\ dirty' = dirty \ {b}
  /\ queue' = Tail(queue)
  /\ command' = StartNext(Tail(queue))
  /\ UNCHANGED blockno

(* Every request is served once and for its own buffer: a buffer is queued *)
(* at most once, and the controller is at work on what the head needs.     *)
RightRequest ==
  /\ \A i, j \in DOMAIN queue : queue[i] = queue[j] => i = j
  /\ command = StartNext(queue)
=============================================================================
