-------------------------------- MODULE Files --------------------------------
(***************************************************************************)
(* Open files (file.c) and the system calls on descriptors (sysfile.c),    *)
(* with what they refer to: pipes, inodes and the console.  fork(), exit() *)
(* and kill() of proc.c appear by what they do to descriptors and to those *)
(* who sleep in a read or a write.                                         *)
(***************************************************************************)
EXTENDS Pipe, Contents, Console

CONSTANTS
  NOFILE,        \* descriptors of a process
  ConsoleCounts, \* bound: how many bytes of the console programs ask for,
  FileCounts     \* bound: and of a plain file

ASSUME FilesAssumption ==
  /\ NFILE > 2 /\ NOFILE \in Nat /\ NOFILE > 1 /\ None \notin 1 .. NFILE
  /\ {1, 2} \subseteq Inum /\ NINODE > 1 /\ Cardinality(Name) > 1 /\ Cardinality(Process) > 1
  /\ ConsoleCounts \subseteq Nat /\ FileCounts \subseteq Nat

FD == 0 .. NOFILE - 1

VARIABLES
  ftable,        \* per open file: ref, type, the pipe or the icache entry, writable
  ofile,         \* per process and descriptor: a file, or None
  workload       \* bound: what programs use: pipes, names, contents or console

fileVars == <<ftable, ofile, pfile, contentVars, workload>>
vars == <<callVars, pipeVars, inodeVars, consoleVars, fileVars>>

NoFile == [ref |-> 0, type |-> "none", obj |-> None, writable |-> FALSE]
NewFile(type, obj, writable) ==
  [ref |-> 1, type |-> type, obj |-> obj, writable |-> writable]
NoFd == [fd \in FD |-> None]

(* The console is open in init, which is none of the processes.  With      *)
(* pipes, one process runs, with the console on descriptor 0, and the      *)
(* others wait to be forked.  With names or the console, all run so;       *)
(* forks, duplicates and calls of exit() are the same code for files of    *)
(* every type, and left to the pipes.  With contents, two new files are    *)
(* open, the first one by all processes, which have it from their parent,  *)
(* the second one by all but one of them.                                  *)
Console == NFILE
First == CHOOSE p \in Process : TRUE

InitialFiles(n) == [f \in File |->
  IF f = Console THEN [NewFile("device", None, TRUE) EXCEPT !.ref = n + 1] ELSE NoFile]

Init ==
  /\ InitPipes /\ InitContents /\ InitConsole
  /\ exiting = {} /\ killed = [p \in Process |-> FALSE]
  /\ pfile = [x \in Process \X BOOLEAN |-> None]
  /\ \/ /\ workload = "pipes"
        /\ ftable = InitialFiles(1)
        /\ ofile = [p \in Process |-> IF p = First THEN [NoFd EXCEPT ![0] = Console] ELSE NoFd]
        /\ pc = [p \in Process |-> IF p = First THEN "user" ELSE "dead"]
        /\ InitInodes({})
     \/ /\ workload \in {"names", "console"}
        /\ ftable = InitialFiles(Cardinality(Process))
        /\ ofile = [p \in Process |-> [NoFd EXCEPT ![0] = Console]]
        /\ pc = [p \in Process |-> "user"]
        /\ InitInodes({})
     \/ /\ workload = "contents"
        /\ ftable = [InitialFiles(0) EXCEPT
             ![1] = [NewFile("inode", 1, TRUE) EXCEPT !.ref = Cardinality(Process)],
             ![2] = [NewFile("inode", 2, TRUE) EXCEPT !.ref = Cardinality(Process) - 1]]
        /\ ofile = [p \in Process |-> IF p = First THEN [NoFd EXCEPT ![0] = 1]
                                     ELSE [NoFd EXCEPT ![0] = 1, ![1] = 2]]
        /\ pc = [p \in Process |-> "user"]
        /\ InitInodes({1, 2})

FreeFiles == {f \in File : ftable[f].ref = 0}
FreeFds(p) == {fd \in FD : ofile[p][fd] = None}
Running(p) == pc[p] = "user" /\ ~killed[p]

-----------------------------------------------------------------------------
(* dup(): the descriptor, then the reference.  Bound: by a process that is *)
(* alone, before it forks.                                                 *)
UncountedDup(f) == ftable                         \* mutant: without filedup()
Filedup(f) == [ftable EXCEPT ![f].ref = @ + 1]

Dup(p, fd) ==
  /\ workload = "pipes" /\ \A q \in Process \ {p} : pc[q] = "dead"
  /\ Running(p) /\ ofile[p][fd] # None /\ FreeFds(p) # {}
  /\ ofile' = [ofile EXCEPT ![p][Least(FreeFds(p))] = ofile[p][fd]]
  /\ ftable' = Filedup(ofile[p][fd])
  /\ UNCHANGED <<callVars, pipeVars, inodeVars, consoleVars, pfile, contentVars, workload>>

(* fileclose(): the last reference goes on to close the pipe's end or to   *)
(* put the inode, before the call goes on at to.                           *)
Fileclose(p, f, to) ==
  IF ftable[f].ref > 1
  THEN /\ ftable' = [ftable EXCEPT ![f].ref = @ - 1]
       /\ pc' = [pc EXCEPT ![p] = to]
       /\ UNCHANGED <<request, ip>>
  ELSE /\ ftable' = [ftable EXCEPT ![f] = NoFile]
       /\ \/ /\ ftable[f].type = "none"
             /\ pc' = [pc EXCEPT ![p] = to]
             /\ UNCHANGED <<request, ip>>
          \/ /\ ftable[f].type = "pipe"
             /\ request' = [request EXCEPT ![p] =
                  [pipe |-> ftable[f].obj, writable |-> ftable[f].writable]]
             /\ pc' = [pc EXCEPT ![p] = "pipeclose"]
             /\ UNCHANGED ip
          \/ /\ ftable[f].type = "inode"
             /\ ip' = [ip EXCEPT ![p] = ftable[f].obj]
             /\ pc' = [pc EXCEPT ![p] = "put"]
             /\ UNCHANGED request

CloseFd(p, fd) ==
  /\ ofile[p][fd] # None
  /\ ofile' = [ofile EXCEPT ![p][fd] = None]
  /\ Fileclose(p, ofile[p][fd], Return(p))
  /\ UNCHANGED <<killed, pipeState, diskVars, icacheVars, other, name, raced, consoleVars,
                 pfile, contentVars, workload>>

Close(p, fd) ==
  /\ Running(p) /\ (workload = "pipes" \/ ofile[p][fd] # Console)
  /\ CloseFd(p, fd) /\ UNCHANGED exiting

-----------------------------------------------------------------------------
(* pipe(): two files, a page, two descriptors.  Nobody else sees the files *)
(* before they are on descriptors.                                         *)

PipeFirstFile(p) ==
  /\ workload = "pipes" /\ Running(p) /\ FreeFiles # {}
  /\ ftable' = [ftable EXCEPT ![Least(FreeFiles)] = NewFile("none", None, FALSE)]
  /\ pfile' = [pfile EXCEPT ![<<p, FALSE>>] = Least(FreeFiles)]
  /\ pc' = [pc EXCEPT ![p] = "pipealloc"]
  /\ UNCHANGED <<exiting, killed, pipeVars, inodeVars, consoleVars, ofile, contentVars, workload>>

(* No second file: fileclose() of the first one                            *)
PipeNoFile(p) ==
  /\ Move(p, "pipealloc", "user") /\ FreeFiles = {}
  /\ ftable' = [ftable EXCEPT ![pfile[<<p, FALSE>>]] = NoFile]
  /\ pfile' = [pfile EXCEPT ![<<p, FALSE>>] = None]
  /\ UNCHANGED <<exiting, killed, pipeVars, inodeVars, consoleVars, ofile, contentVars, workload>>

(* The second file, but no page: memory is shared with everything else.    *)
PipeNoPage(p) ==
  /\ Move(p, "pipealloc", "pipefail") /\ FreeFiles # {}
  /\ ftable' = [ftable EXCEPT ![Least(FreeFiles)] = NewFile("none", None, FALSE)]
  /\ pfile' = [pfile EXCEPT ![<<p, TRUE>>] = Least(FreeFiles)]
  /\ UNCHANGED <<exiting, killed, pipeVars, inodeVars, consoleVars, ofile, contentVars, workload>>

(* The second file and a page                                              *)
Pipealloc(rf, wf) == \E q \in Pipe :
  /\ CreatePipe(q)
  /\ ftable' = [ftable EXCEPT ![rf] = NewFile("pipe", q, FALSE), ![wf] = NewFile("pipe", q, TRUE)]

PipeMade(p) ==
  /\ Move(p, "pipealloc", "user") /\ FreeFiles # {} /\ Cardinality(FreeFds(p)) >= 2
  /\ LET rf == pfile[<<p, FALSE>>]
         wf == Least(FreeFiles)
         fd0 == Least(FreeFds(p))
         fd1 == Least(FreeFds(p) \ {fd0}) IN
       /\ Pipealloc(rf, wf)
       /\ ofile' = [ofile EXCEPT ![p][fd0] = rf, ![p][fd1] = wf]
  /\ pfile' = [pfile EXCEPT ![<<p, FALSE>>] = None]
  /\ UNCHANGED <<exiting, killed, inodeVars, consoleVars, contentVars, workload>>

(* One of the two descriptors is missing; the other is taken back.         *)
PipeNoFds(p) ==
  /\ Move(p, "pipealloc", "pipefail") /\ FreeFiles # {} /\ Cardinality(FreeFds(p)) < 2
  /\ Pipealloc(pfile[<<p, FALSE>>], Least(FreeFiles))
  /\ pfile' = [pfile EXCEPT ![<<p, TRUE>>] = Least(FreeFiles)]
  /\ UNCHANGED <<exiting, killed, inodeVars, consoleVars, ofile, contentVars, workload>>

(* The cleanup: fileclose() of the first file, then of the second one      *)
PipeCloses(p) ==
  /\ pc[p] = "pipefail"
  /\ LET second == pfile[<<p, FALSE>>] = None
         f == pfile[<<p, second>>] IN
       /\ pfile' = [pfile EXCEPT ![<<p, second>>] = None]
       /\ Fileclose(p, f, IF second THEN "user" ELSE "pipefail")
  /\ UNCHANGED <<exiting, killed, pipeState, diskVars, icacheVars, other, name, raced,
                 consoleVars, ofile, contentVars, workload>>

(* The checks of read() and write(), up to p->lock                         *)
PipeCall(p, fd, writable, to) ==
  /\ Move(p, "user", to) /\ ~killed[p] /\ ofile[p][fd] # None
  /\ ftable[ofile[p][fd]].type = "pipe" /\ ftable[ofile[p][fd]].writable = writable
  /\ UNCHANGED <<exiting, killed, pipeState, inodeVars, consoleVars, fileVars>>

Read(p, fd, n) ==
  /\ PipeCall(p, fd, FALSE, "read")
  /\ request' = [request EXCEPT ![p] = [pipe |-> ftable[ofile[p][fd]].obj, count |-> n]]

Write(p, fd, s) ==
  /\ PipeCall(p, fd, TRUE, "write")
  /\ request' = [request EXCEPT ![p] = [pipe |-> ftable[ofile[p][fd]].obj, bytes |-> s]]

(* read() of the console, up to cons.lock                                  *)
ReadConsole(p, fd, n) ==
  /\ workload = "console" /\ Move(p, "user", "cread") /\ ~killed[p] /\ ofile[p][fd] = Console
  /\ reading' = [reading EXCEPT ![p] = [target |-> n, n |-> n]]
  /\ UNCHANGED <<exiting, killed, pipeVars, inodeVars, inputVars, fileVars>>

(* read() and write() of a plain file                                      *)
PlainFile(p, fd) ==
  ofile[p][fd] # None /\ ftable[ofile[p][fd]].type = "inode" /\ workload = "contents"

ReadFile(p, fd, n) ==
  /\ Running(p) /\ PlainFile(p, fd)
  /\ Fileread(ofile[p][fd], ftable[ofile[p][fd]].obj, n)
  /\ UNCHANGED <<callVars, pipeVars, inodeVars, consoleVars, ftable, ofile, pfile, workload>>

WriteFile(p, fd, n) ==
  /\ Running(p) /\ PlainFile(p, fd)
  /\ FilewriteCall(p, ofile[p][fd], ftable[ofile[p][fd]].obj, n)
  /\ UNCHANGED <<pipeVars, consoleVars, ftable, ofile, pfile, workload>>

-----------------------------------------------------------------------------
(* open(), once the inode is there and locked                              *)

OpenFile(p) ==
  /\ Move(p, "opened", "user") /\ FreeFiles # {} /\ FreeFds(p) # {}
  /\ ftable' = [ftable EXCEPT ![Least(FreeFiles)] = NewFile("inode", ip[p], TRUE)]
  /\ ofile' = [ofile EXCEPT ![p][Least(FreeFds(p))] = Least(FreeFiles)]
  /\ locked' = [locked EXCEPT ![ip[p]] = None]
  /\ ip' = [ip EXCEPT ![p] = None]
  /\ off' = [off EXCEPT ![Least(FreeFiles)] = 0]
  /\ UNCHANGED <<exiting, killed, pipeVars, diskVars, inum, iref, copy, other, name,
                 raced, consoleVars, pfile, blockVars, writing, workload>>

OpenFails(p) ==
  /\ Move(p, "opened", "put") /\ (FreeFiles = {} \/ FreeFds(p) = {})
  /\ locked' = [locked EXCEPT ![ip[p]] = None]
  /\ UNCHANGED <<exiting, killed, pipeVars, diskVars, inum, iref, copy, argVars, raced,
                 consoleVars, fileVars>>

-----------------------------------------------------------------------------
(* Processes                                                               *)

Shared(p) == [f \in File |->
  [ftable[f] EXCEPT !.ref = @ + Cardinality({fd \in FD : ofile[p][fd] = f})]]

Fork(p, child) ==
  /\ workload = "pipes" /\ Running(p) /\ pc[child] = "dead"
  /\ pc' = [pc EXCEPT ![child] = "user"]
  /\ ofile' = [ofile EXCEPT ![child] = ofile[p]]
  /\ ftable' = Shared(p)
  /\ UNCHANGED <<exiting, killed, pipeVars, inodeVars, consoleVars, pfile, contentVars, workload>>

(* exit(), called or forced on a killed process                            *)
Exit(p) ==
  /\ workload = "pipes" \/ killed[p]
  /\ Move(p, "user", "exiting")
  /\ exiting' = exiting \cup {p}
  /\ UNCHANGED <<killed, pipeVars, inodeVars, consoleVars, fileVars>>

OpenFds(p) == FD \ FreeFds(p)

ExitCloses(p) ==
  /\ pc[p] = "exiting" /\ OpenFds(p) # {}
  /\ CloseFd(p, Least(OpenFds(p))) /\ UNCHANGED exiting

(* Once it has been waited for its slot may be forked again.               *)
ExitEnds(p) ==
  /\ Move(p, "exiting", "dead") /\ OpenFds(p) = {}
  /\ exiting' = exiting \ {p} /\ killed' = [killed EXCEPT ![p] = FALSE]
  /\ UNCHANGED <<pipeVars, inodeVars, consoleVars, fileVars>>

Awake == [read_sleep |-> "read", write_sleep |-> "write", cread_sleep |-> "cread"]

(* A kill of a process that is in no read or write is its exit().          *)
Kill(k, p) ==
  /\ Running(k) /\ (InPipeCall(p) \/ InConsoleRead(p)) /\ ~killed[p]
  /\ killed' = [killed EXCEPT ![p] = TRUE]
  /\ pc' = [pc EXCEPT ![p] = IF @ \in DOMAIN Awake THEN Awake[@] ELSE @]
  /\ UNCHANGED <<exiting, pipeVars, inodeVars, consoleVars, fileVars>>

-----------------------------------------------------------------------------
Descriptors(p) == \E fd \in FD :
  \/ Dup(p, fd) \/ Close(p, fd)
  \/ \E n \in Counts : Read(p, fd, n)
  \/ \E n \in ConsoleCounts : ReadConsole(p, fd, n)
  \/ \E s \in Writes : Write(p, fd, s)
  \/ \E n \in FileCounts : ReadFile(p, fd, n) \/ WriteFile(p, fd, n)

MakePipe(p) ==
  \/ PipeFirstFile(p) \/ PipeNoFile(p) \/ PipeNoPage(p) \/ PipeMade(p) \/ PipeNoFds(p)
  \/ PipeCloses(p)

OnConsole(p) == Consoleread(p) /\ UNCHANGED <<pipeVars, inodeVars, fileVars>>
Keyboard ==
  workload = "console" /\ ConsoleIntr /\ UNCHANGED <<pipeVars, inodeVars, fileVars>>

OnPipe(p) == PipeStep(p) /\ UNCHANGED <<inodeVars, consoleVars, fileVars>>
(* Bound: no more calls once the last references of an inode raced.        *)
OnInode(p) ==
  /\ \/ InodeStep(p)
     \/ PathCall(p) /\ workload = "names" /\ raced = {}
     \/ workload = "contents" /\ \E n \in Name : UnlinkLookup(p, n)
  /\ IF pc[p] = "free" THEN Itrunc(inum[ip[p]]) ELSE UNCHANGED blockVars
  /\ UNCHANGED <<pipeVars, consoleVars, ftable, ofile, pfile, off, writing, workload>>

OnContents(p) ==
  WriteStep(p) /\ UNCHANGED <<pipeVars, consoleVars, ftable, ofile, pfile, workload>>

Life(p) ==
  \/ Exit(p) \/ ExitCloses(p) \/ ExitEnds(p)
  \/ \E q \in Process : Fork(p, q) \/ Kill(p, q)

Next ==
  \/ \E p \in Process :
       \/ Descriptors(p) \/ MakePipe(p) \/ OnPipe(p) \/ OnInode(p) \/ OnConsole(p)
       \/ OnContents(p)
       \/ OpenFile(p) \/ OpenFails(p) \/ Life(p)
  \/ Keyboard

(* A process in the kernel that does not sleep gets to run.                *)
Spec == Init /\ [][Next]_vars
FairSpec == Spec /\ \A p \in Process : WF_vars(OnPipe(p)) /\ WF_vars(OnConsole(p))

-----------------------------------------------------------------------------
(* Safety                                                                  *)

(* Where a process can be: in user mode, no process, or in a call          *)
Label == {"user", "dead", "exiting", "pipealloc", "pipefail", "read", "read_sleep", "write",
  "write_sleep", "pipeclose", "cread", "cread_sleep", "filewrite", "writei", "open",
  "opened", "create", "created", "unlink", "unlinked", "link", "link_dir", "link_taken",
  "link_back", "put", "free", "drop"}

(* Every variable holds a value of its kind.                               *)
TypeOK ==
  /\ PipesTypeOK /\ InodesTypeOK /\ ContentsTypeOK /\ ConsoleTypeOK
  /\ pc \in [Process -> Label] /\ exiting \subseteq Process
  /\ killed \in [Process -> BOOLEAN]
  /\ \A f \in File :
       /\ ftable[f].ref \in Nat /\ ftable[f].writable \in BOOLEAN
       /\ ftable[f].type = "pipe" => ftable[f].obj \in Pipe
       /\ ftable[f].type = "inode" => ftable[f].obj \in Slot
       /\ ftable[f].type \in {"none", "device"} => ftable[f].obj = None
  /\ ofile \in [Process -> [FD -> File \cup {None}]]
  /\ pfile \in [Process \X BOOLEAN -> File \cup {None}]

(* Every reference is counted, once: descriptors of a file, files and      *)
(* calls of an icache entry; and an end of a pipe is open exactly while    *)
(* one file has it, or the close of its last file has still to reach it.   *)
Ends(q, writable) == {f \in File :
  /\ ftable[f].type = "pipe" /\ ftable[f].obj = q /\ ftable[f].writable = writable}
Closing(q, writable) == {p \in Process :
  /\ pc[p] = "pipeclose" /\ request[p].pipe = q /\ request[p].writable = writable}

FileRefs(f) ==
  Cardinality({x \in Process \X FD : ofile[x[1]][x[2]] = f})
    + Cardinality({x \in Process \X BOOLEAN : pfile[x] = f}) + (IF f = Console THEN 1 ELSE 0)
EntryRefs(s) ==
  Cardinality({f \in File : ftable[f].type = "inode" /\ ftable[f].obj = s})
    + Cardinality({p \in Process : ip[p] = s}) + Cardinality({p \in Process : other[p] = s})

RefCounts ==
  /\ \A f \in File : ftable[f].ref = FileRefs(f)
  /\ \A s \in Slot : iref[s] = EntryRefs(s)
  /\ \A q \in Pipe, writable \in BOOLEAN :
       Cardinality(Ends(q, writable)) + Cardinality(Closing(q, writable))
         = IF q \in (IF writable THEN writeopen ELSE readopen) THEN 1 ELSE 0

(* An inode's link count is the number of its names, but for calls between *)
(* a name and its count; a name, an open file and a call that will lock    *)
(* the inode have an allocated one, so that ilock() and unlink() never     *)
(* panic; an inode has one entry, which says what is on the disk.          *)
NameGone(i) == {p \in Process : pc[p] = "unlinked" /\ inum[ip[p]] = i}
NameToCome(i) == {p \in Process :
  pc[p] \in {"link_dir", "link_taken", "link_back"} /\ inum[ip[p]] = i}
Relied(s) ==
  \/ \E f \in File : ftable[f].type = "inode" /\ ftable[f].obj = s
  \/ \E p \in Process : (ip[p] = s /\ pc[p] # "drop") \/ other[p] = s

NamesAndLinks ==
  /\ \A i \in Inum : dinode[i].nlink =
       Cardinality({n \in Name : dir[n] = i})
         + Cardinality(NameGone(i)) + Cardinality(NameToCome(i))
  /\ \A n \in Name : dir[n] # None => dinode[dir[n]].type
  /\ \A s \in Slot :
       /\ Relied(s) => dinode[inum[s]].type
       /\ iref[s] > 0 /\ copy[s] # None => copy[s] = dinode[inum[s]]
  /\ \A s, t \in Slot : iref[s] > 0 /\ iref[t] > 0 /\ inum[s] = inum[t] => s = t
  /\ \A p \in Process : pc[p] = "unlink" => ~NoType(ip[p]) /\ Found(ip[p]).nlink >= 1

(* iput() frees an inode that has no names when its last reference goes.   *)
(* It misses that only where the last references go at the same time: each *)
(* of them sees the other's, and the inode is never freed.                 *)
OnlyRacingPutsLeak == \A i \in Inum :
  \/ ~dinode[i].type \/ i \in raced
  \/ \E n \in Name : dir[n] = i
  \/ \E s \in Slot : iref[s] > 0 /\ inum[s] = i

(* Whenever no call is in progress the disk is in order: what a crash      *)
(* leaves behind, since the log then restores the end of a group of calls. *)
(* Files have exactly the blocks they need, each link is a name, and every *)
(* allocated inode has a name, unless a process has it open (after a crash *)
(* nobody looks for it) or its last references raced.                      *)
InTransaction(p) == pc[p] \in {"open", "create", "created", "opened", "unlink", "unlinked",
  "link", "link_dir", "link_taken", "link_back", "put", "drop", "free", "writei"}
Opened(i) == \E f \in File :
  ftable[f].type = "inode" /\ inum[ftable[f].obj] = i

OrderAtRest == (\A p \in Process : ~InTransaction(p)) =>
  /\ BlocksMatchSizes
  /\ \A i \in Inum : dinode[i].nlink = Cardinality({n \in Name : dir[n] = i})
  /\ \A i \in Inum : dinode[i].type /\ dinode[i].nlink = 0 => Opened(i) \/ i \in raced
  /\ \A f \in File : ftable[f].type = "inode" => off[f] <= size[inum[ftable[f].obj]]

(* Processes that wait for each other's locks: one of them has finished    *)
(* with the directory, and puts it before it unlocks the inode.            *)
LockWanted(p) ==
  CASE pc[p] \in {"open", "create", "unlink", "link", "link_back", "put"} -> {ip[p]}
    [] pc[p] \in {"created", "unlinked", "link_dir"} -> {Root}
    [] pc[p] = "link_taken" -> {other[p]}
    [] OTHER -> {}
WaitsForOneOf(p, S) == \E l \in LockWanted(p) : locked[l] \in S

OnlyDirectoryPutsDeadlock == \A S \in (SUBSET Process) \ {{}} :
  (\A p \in S : WaitsForOneOf(p, S)) => \E p \in S : pc[p] \in {"created", "unlinked"}

(* Sleepers are woken: a reader of a pipe sleeps only on an empty one that *)
(* may still be written, or one filled by a writer that was killed before  *)
(* it could wake anyone; a writer sleeps only on a full one that may be    *)
(* read; and a reader of the console sleeps only with nothing to read and  *)
(* room to type, so that the console is never jammed.                      *)
NoStrandedSleeper == \A p \in Process :
  /\ pc[p] = "read_sleep" =>
       /\ request[p].pipe \in writeopen
       /\ Empty(request[p].pipe) \/ request[p].pipe \in unannounced
  /\ pc[p] = "write_sleep" => request[p].pipe \in readopen /\ Full(request[p].pipe)
  /\ pc[p] = "cread_sleep" => Delivered = <<>> /\ Len(Edited) < INPUT_BUF

(* What was typed reaches readers a line at a time, as it was when it was  *)
(* finished or the ring was full: each character once and in order, by     *)
(* whoever reads next, and no editing changes it any more.                 *)
ConsoleDelivers == [][
  \/ Delivered' = Delivered
  \/ \E c \in Character : Delivered' = Delivered \o Edited \o <<c>>
  \/ \E k \in DOMAIN Delivered : Delivered' = SubSeq(Delivered, k + 1, Len(Delivered))
]_inputVars

-----------------------------------------------------------------------------
(* Refinement and liveness                                                 *)

(* Pipes deliver the bytes that were written, each once and in order, and  *)
(* exist exactly from pipe() to the close of their last end.               *)
PipesAreChannels == Fifo!Spec

(* Who is in a read or write that can come to nothing, because the other   *)
(* end of the pipe is closed or the process is killed, gets out of it.     *)
Hopeless(p) ==
  \/ InPipeCall(p)
     /\ \/ killed[p]
        \/ pc[p] \in {"read", "read_sleep"} /\ request[p].pipe \notin writeopen
        \/ pc[p] \in {"write", "write_sleep"} /\ request[p].pipe \notin readopen
  \/ InConsoleRead(p) /\ killed[p]
HopelessCallsEnd == \A p \in Process :
  Hopeless(p) ~> ~(InPipeCall(p) \/ InConsoleRead(p))
=============================================================================
