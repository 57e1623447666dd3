-------------------------------- MODULE Pipe --------------------------------
(***************************************************************************)
(* Pipes (pipe.c).  A step is one critical section of p->lock: a reader or *)
(* a writer goes on until it returns or sleeps.  The counters nread and    *)
(* nwrite are unsigned and wrap around; Wrap stands for 2^32, of which     *)
(* only matters that PIPESIZE divides it.                                  *)
(***************************************************************************)
EXTENDS Call

CONSTANTS
  Pipe,          \* pages that kalloc() can make a pipe of
  Byte,
  PIPESIZE, Wrap,
  Writes, Counts,          \* bound: what programs write, how many bytes they ask for
  NoRequest

ASSUME PipeAssumption ==
  /\ PIPESIZE \in Nat \ {0} /\ Wrap \in Nat /\ Wrap > PIPESIZE /\ Wrap % PIPESIZE = 0
  /\ Byte # {} /\ Writes \subseteq Seq(Byte) /\ Counts \subseteq Nat

VARIABLES
  data, nread, nwrite,     \* struct pipe
  readopen, writeopen,     \* the pipes with that flag set
  unannounced,             \* history: full pipes whose last writer gave up without wakeup()
  request                  \* per process: the arguments of its piperead() or pipewrite()

pipeState == <<data, nread, nwrite, readopen, writeopen, unannounced>>
pipeVars == <<pipeState, request>>

Allocated(q) == q \in readopen \cup writeopen
EmptyData == [i \in 0 .. PIPESIZE - 1 |-> CHOOSE b \in Byte : TRUE]

InitPipes ==
  /\ data = [q \in Pipe |-> EmptyData]
  /\ nread = [q \in Pipe |-> 0] /\ nwrite = [q \in Pipe |-> 0]
  /\ readopen = {} /\ writeopen = {} /\ unannounced = {}
  /\ request = [p \in Process |-> NoRequest]

-----------------------------------------------------------------------------
Amount(q) == (nwrite[q] + Wrap - nread[q]) % Wrap
Empty(q) == nread[q] = nwrite[q]
Full(q) == nwrite[q] = (nread[q] + PIPESIZE) % Wrap

(* bytes i + 1, ..., i + k of s into the ring                              *)
Filled(q, s, k) ==
  [j \in 0 .. PIPESIZE - 1 |->
    IF \E i \in 1 .. k : (nwrite[q] + i - 1) % PIPESIZE = j
    THEN s[CHOOSE i \in 1 .. k : (nwrite[q] + i - 1) % PIPESIZE = j]
    ELSE data[q][j]]

Woken(q, from, to) ==
  [p \in Process |-> IF pc[p] = from /\ request[p].pipe = q THEN to ELSE pc[p]]

WakeReadersNot(q) == pc                           \* mutant: pipewrite() without wakeup(&p->nread)
WakeReaders(q) == Woken(q, "read_sleep", "read")
WakeWriters(q) == Woken(q, "write_sleep", "write")

-----------------------------------------------------------------------------
(* pipealloc(), its success                                                *)
CreatePipe(q) ==
  /\ ~Allocated(q)
  /\ readopen' = readopen \cup {q} /\ writeopen' = writeopen \cup {q}
  /\ nread' = [nread EXCEPT ![q] = 0] /\ nwrite' = [nwrite EXCEPT ![q] = 0]
  /\ UNCHANGED <<data, unannounced, request>>

(* The page is given back with the last end.                               *)
Freed(q) ==
  /\ data' = [data EXCEPT ![q] = EmptyData]
  /\ nread' = [nread EXCEPT ![q] = 0] /\ nwrite' = [nwrite EXCEPT ![q] = 0]

CloseWakesNobody(q, writable) == pc               \* mutant: pipeclose() without wakeup()
CloseWakes(q, writable) == IF writable THEN WakeReaders(q) ELSE WakeWriters(q)

Pipeclose(p) ==
  /\ pc[p] = "pipeclose"
  /\ LET q == request[p].pipe
         writable == request[p].writable IN
       /\ writeopen' = IF writable THEN writeopen \ {q} ELSE writeopen
       /\ readopen' = IF writable THEN readopen ELSE readopen \ {q}
       /\ pc' = [CloseWakes(q, writable) EXCEPT ![p] = Return(p)]
       /\ IF q \in readopen' \cup writeopen'
          THEN UNCHANGED <<data, nread, nwrite>> ELSE Freed(q)
       /\ unannounced' = IF writable THEN unannounced \ {q} ELSE unannounced
  /\ request' = [request EXCEPT ![p] = NoRequest]
  /\ UNCHANGED <<exiting, killed>>

FitsOneMore(q, s) ==                              \* mutant: full one byte too late
  Least({Len(s), PIPESIZE + 1 - Amount(q)})
Fits(q, s) == Least({Len(s), PIPESIZE - Amount(q)})

(* pipewrite(): copies until everything is written or the pipe is full     *)
Pipewrite(p) ==
  /\ pc[p] = "write"
  /\ LET q == request[p].pipe
         s == request[p].bytes
         k == Fits(q, s)
         rest == SubSeq(s, k + 1, Len(s)) IN
       /\ data' = [data EXCEPT ![q] = Filled(q, s, k)]
       /\ nwrite' = [nwrite EXCEPT ![q] = (@ + k) % Wrap]
       /\ \/ /\ rest = <<>>
             /\ pc' = [WakeReaders(q) EXCEPT ![p] = "user"]
             /\ request' = [request EXCEPT ![p] = NoRequest]
             /\ unannounced' = unannounced \ {q}
          \/ /\ rest # <<>> /\ (q \notin readopen \/ killed[p])
             /\ pc' = [pc EXCEPT ![p] = "user"]
             /\ request' = [request EXCEPT ![p] = NoRequest]
             /\ unannounced' = IF k > 0 THEN unannounced \cup {q} ELSE unannounced
          \/ /\ rest # <<>> /\ q \in readopen /\ ~killed[p]
             /\ pc' = [WakeReaders(q) EXCEPT ![p] = "write_sleep"]
             /\ request' = [request EXCEPT ![p].bytes = rest]
             /\ unannounced' = unannounced \ {q}
  /\ UNCHANGED <<nread, readopen, writeopen, exiting, killed>>

MustWaitForBytes(q) == Empty(q) /\ q \in writeopen

PipereadSleeps(p) ==
  /\ pc[p] = "read" /\ MustWaitForBytes(request[p].pipe) /\ ~killed[p]
  /\ pc' = [pc EXCEPT ![p] = "read_sleep"]
  /\ UNCHANGED <<pipeVars, exiting, killed>>

PipereadFails(p) ==
  /\ pc[p] = "read" /\ MustWaitForBytes(request[p].pipe) /\ killed[p]
  /\ pc' = [pc EXCEPT ![p] = "user"]
  /\ request' = [request EXCEPT ![p] = NoRequest]
  /\ UNCHANGED <<pipeState, exiting, killed>>

TakenAll(q, n) == n                               \* mutant: does not stop at the last byte
Taken(q, n) == Least({n, Amount(q)})

Piperead(p) ==
  /\ pc[p] = "read" /\ ~MustWaitForBytes(request[p].pipe)
  /\ LET q == request[p].pipe IN
       /\ nread' = [nread EXCEPT ![q] = (@ + Taken(q, request[p].count)) % Wrap]
       /\ pc' = [WakeWriters(q) EXCEPT ![p] = "user"]
  /\ request' = [request EXCEPT ![p] = NoRequest]
  /\ UNCHANGED <<data, nwrite, readopen, writeopen, unannounced, exiting, killed>>

PipeStep(p) ==
  Pipeclose(p) \/ Pipewrite(p) \/ PipereadSleeps(p) \/ PipereadFails(p) \/ Piperead(p)

-----------------------------------------------------------------------------
InPipeCall(p) == pc[p] \in {"read", "read_sleep", "write", "write_sleep"}

PipesTypeOK ==
  /\ data \in [Pipe -> [0 .. PIPESIZE - 1 -> Byte]]
  /\ nread \in [Pipe -> 0 .. Wrap - 1] /\ nwrite \in [Pipe -> 0 .. Wrap - 1]
  /\ \A q \in Pipe : Amount(q) <= PIPESIZE
  /\ readopen \subseteq Pipe /\ writeopen \subseteq Pipe /\ unannounced \subseteq Pipe

(* What the pipe holds, oldest byte first.                                 *)
Contents == [q \in Pipe |->
  [i \in 1 .. Amount(q) |-> data[q][(nread[q] + i - 1) % PIPESIZE]]]

Fifo == INSTANCE Channel WITH
  Id <- Pipe, Capacity <- PIPESIZE, queue <- Contents
=============================================================================
