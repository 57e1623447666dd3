----------------------------- MODULE FilesProofs -----------------------------
(***************************************************************************)
(* Theorems about Files, for any finite set of processes, any tables of    *)
(* files, descriptors, inodes and names, and any number of pipes, in three *)
(* parts: where calls are and which locks they hold; what refers to open   *)
(* files, to inodes and to the ends of pipes; names, link counts and which *)
(* inodes stay allocated.  Each part rests on those before it.             *)
(***************************************************************************)
EXTENDS Files, FiniteSetTheorems, WellFoundedInduction, TLAPS

-----------------------------------------------------------------------------
(* Where a call is, and what it then has in its local variables            *)

InodeCall == {"open", "opened", "create", "created", "unlink", "unlinked", "link", "link_dir",
  "link_taken", "link_back", "put", "free", "drop"}
Named == {"create", "unlink", "link", "link_dir"}
InWrite == {"filewrite", "writei"}
FileEntry == [ref : Nat, type : {"none", "pipe", "inode", "device"},
              obj : Pipe \cup Slot \cup {None}, writable : BOOLEAN]

(* Which of its two files a process has in pipe()                          *)
Half == Process \X BOOLEAN
Rf(p) == pfile[<<p, FALSE>>]
Wf(p) == pfile[<<p, TRUE>>]

Kinds ==
  /\ pc \in [Process -> Label] /\ exiting \subseteq Process
  /\ ip \in [Process -> Slot \cup {None}] /\ other \in [Process -> Slot \cup {None}]
  /\ name \in [Process -> Name \cup {None}] /\ pfile \in [Half -> File \cup {None}]
  /\ ofile \in [Process -> [FD -> File \cup {None}]] /\ ftable \in [File -> FileEntry]
  /\ locked \in [Slot \cup {Root} -> Process \cup {None}]
  /\ DOMAIN request = Process /\ DOMAIN writing = Process
  /\ DOMAIN inum = Slot /\ DOMAIN iref = Slot /\ DOMAIN copy = Slot

Args(p) ==
  /\ ip[p] # None <=> pc[p] \in InodeCall
  /\ other[p] # None <=> pc[p] = "link_taken"
  /\ name[p] # None <=> pc[p] \in Named

PipeShape(p) ==
  /\ pc[p] = "pipealloc" => Rf(p) # None /\ Wf(p) = None
  /\ pc[p] = "pipefail" => Wf(p) # None
  /\ pc[p] \notin {"pipealloc", "pipefail"} => Rf(p) = None
  /\ Wf(p) # None => pc[p] \in {"pipefail", "pipeclose"} /\ p \notin exiting

Shape(p) ==
  /\ Args(p)
  /\ PipeShape(p)
  /\ pc[p] \in InWrite => /\ WSlot(p) \in Slot /\ WFile(p) \in File
                          /\ DOMAIN writing[p] = DOMAIN NotWriting
  /\ pc[p] = "pipeclose" => request[p].pipe \in Pipe /\ request[p].writable \in BOOLEAN
  /\ p \in exiting => pc[p] \in {"exiting", "pipeclose", "put", "drop", "free"}
  /\ pc[p] = "exiting" => p \in exiting
  /\ pc[p] = "dead" => ofile[p] = NoFd

FileShape(f) ==
  /\ ftable[f].ref = 0 => ftable[f].type = "none"
  /\ ftable[f].type = "pipe" => ftable[f].obj \in Pipe
  /\ ftable[f].type = "inode" => ftable[f].obj \in Slot
  /\ ftable[f].type \in {"none", "device"} => ftable[f].obj = None

HoldsRoot == {"create", "unlink", "link_taken"}
HoldsInode == {"opened", "created", "unlinked", "free"}
Holds(p, s) == (ip[p] = s /\ pc[p] \in HoldsInode) \/ (pc[p] = "writei" /\ WSlot(p) = s)
LocksOf(p) ==
  /\ locked[Root] = p <=> pc[p] \in HoldsRoot
  /\ \A s \in Slot : locked[s] = p <=> Holds(p, s)

(* Nobody else refers to the files a process has in pipe().                *)
HeldFile(x) ==
  /\ ftable[pfile[x]].ref = 1 /\ ftable[pfile[x]].type \in {"none", "pipe"}
  /\ Wf(x[1]) = None => ftable[pfile[x]].type = "none"
HeldFiles == \A x \in Half : pfile[x] # None => HeldFile(x)

CallInv ==
  /\ Kinds
  /\ \A p \in Process : Shape(p) /\ LocksOf(p)
  /\ \A f \in File : FileShape(f)

-----------------------------------------------------------------------------
(* Helpers                                                                 *)

LEMMA ConstFacts ==
  /\ None \notin Slot /\ None \notin Process /\ None \notin Name /\ None \notin File
  /\ None \notin Inum /\ None \notin DataBlock
  /\ Root \notin Slot /\ Slot \subseteq Nat /\ File \subseteq Nat /\ FD \subseteq Nat
  /\ Inum \subseteq Nat /\ Console \in File /\ 1 \in File /\ 2 \in File /\ 0 \in FD /\ 1 \in FD
  /\ 1 \in Slot /\ 2 \in Slot /\ 1 # Console /\ 2 # Console /\ NFILE \in Nat
<1>1. NINODE \in Nat /\ NINODE > 1 /\ NFILE \in Nat /\ NFILE > 2 /\ NOFILE \in Nat /\ NOFILE > 1
  BY InodeAssumption, ContentsAssumption, FilesAssumption
<1>2. None \notin 1 .. NINODE \cup Process \cup Name \cup 1 .. NFILE \cup Inum \cup DataBlock
  BY InodeAssumption, ContentsAssumption, FilesAssumption
<1>3. Inum \subseteq Nat
  BY InodeAssumption
<1> QED  BY <1>1, <1>2, <1>3 DEF Slot, File, FD, Root, Console

(* The least element of a set of numbers                                   *)
LEMMA LeastIn == ASSUME NEW S \in SUBSET Nat, S # {}
                 PROVE  Least(S) \in S /\ \A y \in S : Least(S) <= y
<1> DEFINE R == OpToRel(<, Nat)
<1>1. S \subseteq Nat
  OBVIOUS
<1>2. \E s \in S : \A t \in S : ~(<<t, s>> \in R)
  BY NatLessThanWellFounded, WFMin
<1>3. \A s, t \in Nat : <<t, s>> \in R <=> t < s
  BY DEF OpToRel
<1> HIDE DEF R
<1>4. PICK s \in S : \A t \in S : ~(<<t, s>> \in R)
  BY <1>2
<1>5. \A t \in S : ~(t < s)
  BY <1>1, <1>3, <1>4, Zenon
<1>6. \A t \in S : s <= t
  BY <1>1, <1>5, SMT
<1> QED  BY <1>6 DEF Least

LEMMA LeastFile == FreeFiles # {} => Least(FreeFiles) \in File /\ ftable[Least(FreeFiles)].ref = 0
<1>1. FreeFiles \in SUBSET Nat
  BY ConstFacts DEF FreeFiles
<1> QED  BY <1>1, LeastIn DEF FreeFiles

LEMMA LeastFd == ASSUME NEW p, FreeFds(p) # {}
                 PROVE  Least(FreeFds(p)) \in FD /\ ofile[p][Least(FreeFds(p))] = None
<1>1. FreeFds(p) \in SUBSET Nat
  BY ConstFacts DEF FreeFds
<1> QED  BY <1>1, LeastIn DEF FreeFds

LEMMA LeastOpen == ASSUME NEW p, OpenFds(p) # {}
                   PROVE  Least(OpenFds(p)) \in FD /\ ofile[p][Least(OpenFds(p))] # None
<1>1. OpenFds(p) \in SUBSET Nat
  BY ConstFacts DEF OpenFds
<1> QED  BY <1>1, LeastIn DEF FreeFds, OpenFds

(* iget() finds an entry that has the inode or is vacant.                  *)
LEMMA EntryIn == ASSUME NEW i, CanIget(i)
                 PROVE  /\ Entry(i) \in Slot
                        /\ Entry(i) \in Hits(i) \/ (Hits(i) = {} /\ Entry(i) \in Vacant)
<1>1. Hits(i) \in SUBSET Nat /\ Vacant \in SUBSET Nat
  BY ConstFacts DEF Hits, Vacant
<1>2. CASE Hits(i) # {}
  <2>1. Least(Hits(i)) \in Hits(i)
    BY <1>1, <1>2, LeastIn
  <2> QED  BY <2>1, <1>2 DEF Entry, Hits
<1>3. CASE Hits(i) = {}
  <2>1. Least(Vacant) \in Vacant
    BY <1>1, <1>3, LeastIn DEF CanIget
  <2> QED  BY <2>1, <1>3 DEF Entry, Vacant
<1> QED  BY <1>2, <1>3

(* A step of one process, as far as the others are concerned               *)
SameFor(q) ==
  /\ pc'[q] = pc[q] /\ ip'[q] = ip[q] /\ other'[q] = other[q] /\ name'[q] = name[q]
  /\ Rf(q)' = Rf(q) /\ Wf(q)' = Wf(q) /\ ofile'[q] = ofile[q]
  /\ writing'[q] = writing[q] /\ request'[q] = request[q]
  /\ q \in exiting' <=> q \in exiting

LocksBy(p) == \A l \in Slot \cup {Root} :
  locked'[l] = locked[l] \/ (locked[l] \in {None, p} /\ locked'[l] \in {None, p})

LEMMA ShapeKept == ASSUME NEW q, Shape(q), SameFor(q) PROVE Shape(q)'
<1>1. pc'[q] = pc[q] /\ ip'[q] = ip[q] /\ other'[q] = other[q] /\ name'[q] = name[q]
      /\ Rf(q)' = Rf(q) /\ Wf(q)' = Wf(q) /\ ofile'[q] = ofile[q]
      /\ writing'[q] = writing[q] /\ request'[q] = request[q]
      /\ (q \in exiting' <=> q \in exiting)
  BY DEF SameFor
<1> QED  BY <1>1 DEF Shape, PipeShape, Args, WSlot, WFile

LEMMA LocksKept ==
  ASSUME NEW p \in Process, NEW q \in Process \ {p}, LocksOf(q), LocksBy(p), SameFor(q)
  PROVE  LocksOf(q)'
<1>1. \A l \in Slot \cup {Root} : locked'[l] = q <=> locked[l] = q
  BY ConstFacts DEF LocksBy
<1>2. pc'[q] = pc[q] /\ ip'[q] = ip[q] /\ writing'[q] = writing[q]
  BY DEF SameFor
<1> QED  BY <1>1, <1>2 DEF LocksOf, Holds, WSlot

LEMMA OneMoves ==
  ASSUME CallInv, NEW p \in Process, \A q \in Process \ {p} : SameFor(q), LocksBy(p),
         Kinds', Shape(p)', LocksOf(p)', \A f \in File : FileShape(f)'
  PROVE  CallInv'
<1>1. \A q \in Process \ {p} : Shape(q)' /\ LocksOf(q)'
  BY ShapeKept, LocksKept DEF CallInv
<1> QED  BY <1>1 DEF CallInv

(* A process goes from one place where it has no arguments and no locks to *)
(* another, by itself or because it is woken.                              *)
Busy == InodeCall \cup {"pipealloc", "writei"}
Moved(q) ==
  /\ ip'[q] = ip[q] /\ other'[q] = other[q] /\ name'[q] = name[q]
  /\ Rf(q)' = Rf(q) /\ Wf(q)' = Wf(q) /\ (Wf(q) # None <=> pc'[q] = "pipefail")
  /\ pc[q] \notin Busy \cup {"pipefail"} /\ pc'[q] \notin Busy \cup {"pipeclose"}
  /\ pc'[q] = "filewrite" => /\ WSlot(q)' \in Slot /\ WFile(q)' \in File
                             /\ DOMAIN writing'[q] = DOMAIN NotWriting
  /\ q \in exiting' <=> pc'[q] = "exiting"
  /\ pc'[q] = "dead" => ofile'[q] = NoFd

LEMMA Moves ==
  ASSUME CallInv, Kinds', UNCHANGED locked, \A f \in File : FileShape(f)',
         \A q \in Process : SameFor(q) \/ Moved(q)
  PROVE  CallInv'
<1> SUFFICES ASSUME NEW q \in Process, Moved(q) PROVE Shape(q)' /\ LocksOf(q)'
  <2>1. \A q \in Process : SameFor(q) => Shape(q)' /\ LocksOf(q)'
    <3>1. \A q \in Process : SameFor(q) => Shape(q)'
      BY ShapeKept DEF CallInv
    <3>2. \A q \in Process : SameFor(q) => LocksOf(q)'
      BY DEF CallInv, SameFor, LocksOf, Holds, WSlot
    <3> QED  BY <3>1, <3>2
  <2> QED  BY <2>1 DEF CallInv
<1>1. Shape(q)'
  BY DEF CallInv, Moved, Shape, PipeShape, Args, Busy, InodeCall, Named, InWrite
<1>2. LocksOf(q)'
  BY DEF CallInv, Moved, LocksOf, Holds, Busy, InodeCall, HoldsRoot, HoldsInode
<1> QED  BY <1>1, <1>2

(* What the steps of Inode leave alone                                     *)
FilesSame == UNCHANGED <<ftable, ofile, pfile, writing, request, exiting>>

LEMMA InodeMoves ==
  ASSUME CallInv, NEW p \in Process, FilesSame, Kinds', Args(p)', LocksOf(p)', LocksBy(p),
         \A q \in Process \ {p} : /\ pc'[q] = pc[q] /\ ip'[q] = ip[q]
                                  /\ other'[q] = other[q] /\ name'[q] = name[q],
         pc[p] \notin {"pipealloc", "pipefail", "pipeclose"},
         pc'[p] \notin InWrite \cup {"pipealloc", "pipefail", "pipeclose", "dead"},
         p \in exiting => pc'[p] \in {"exiting", "put", "drop", "free"},
         pc'[p] = "exiting" => p \in exiting
  PROVE  CallInv'
<1>1. \A q \in Process \ {p} : SameFor(q)
  BY DEF FilesSame, SameFor, Rf, Wf
<1>2. Shape(p)'
  BY DEF CallInv, Shape, PipeShape, Rf, Wf, FilesSame
<1>3. \A f \in File : FileShape(f)'
  BY DEF CallInv, FileShape, FilesSame
<1> QED  BY <1>1, <1>2, <1>3, OneMoves

-----------------------------------------------------------------------------
(* Where calls are and which locks they hold: the steps of Inode           *)

(* What a process in such a call has                                       *)
LEMMA Has ==
  ASSUME CallInv, NEW p \in Process
  PROVE  /\ pc[p] \in InodeCall => ip[p] \in Slot
         /\ pc[p] = "link_taken" => other[p] \in Slot
         /\ pc[p] \in Named => name[p] \in Name
         /\ pc[p] \notin InodeCall => ip[p] = None
         /\ pc[p] # "link_taken" => other[p] = None
         /\ pc[p] \notin Named => name[p] = None
         /\ p \in exiting => pc[p] \in {"exiting", "pipeclose", "put", "drop", "free"}
BY DEF CallInv, Kinds, Shape, Args

LEMMA CallOpenLock == ASSUME CallInv, NEW p \in Process, OpenLock(p), FilesSame PROVE CallInv'
<1>1. pc[p] = "open" /\ locked[ip[p]] = None /\ ip[p] \in Slot
  BY Has DEF OpenLock, CanLock, InodeCall
<1>2. /\ pc' = [pc EXCEPT ![p] = "opened"] /\ locked' = [locked EXCEPT ![ip[p]] = p]
      /\ UNCHANGED <<inum, iref, ip, other, name>> /\ DOMAIN copy' = DOMAIN copy
  BY DEF OpenLock, argVars
<1>3. Kinds'
  BY <1>1, <1>2 DEF CallInv, Kinds, FilesSame, Label
<1>4. Args(p)' /\ p \notin exiting
  BY <1>1, <1>2, Has DEF CallInv, Kinds, Shape, Args, InodeCall, Named
<1>5. LocksOf(p)' /\ LocksBy(p)
  BY <1>1, <1>2, ConstFacts DEF CallInv, Kinds, LocksOf, LocksBy, Holds, HoldsRoot, HoldsInode
<1> QED  BY <1>1, <1>2, <1>3, <1>4, <1>5, InodeMoves DEF CallInv, Kinds, InWrite

LEMMA Returns ==
  ASSUME CallInv, NEW p \in Process
  PROVE  /\ Return(p) \in {"exiting", "user", "pipefail"}
         /\ Return(p) = "exiting" <=> p \in exiting
         /\ Return(p) = "pipefail" <=> Wf(p) # None
         /\ pc[p] \notin {"pipeclose", "pipefail"} => Return(p) \in {"exiting", "user"}
BY DEF Return, CallInv, Shape, PipeShape, Wf

LEMMA CallCreateIalloc ==
  ASSUME CallInv, NEW p \in Process, NEW n \in Name, CreateIalloc(p, n), FilesSame PROVE CallInv'
<1>1. pc[p] = "user" /\ locked[Root] = None /\ Entry(Least(Unused)) \in Slot
  BY EntryIn DEF CreateIalloc, Move, CanLock
<1>2. /\ pc' = [pc EXCEPT ![p] = "create"] /\ ip' = [ip EXCEPT ![p] = Entry(Least(Unused))]
      /\ name' = [name EXCEPT ![p] = n] /\ locked' = [locked EXCEPT ![Root] = p] /\ UNCHANGED other
      /\ DOMAIN inum' = DOMAIN inum /\ DOMAIN iref' = DOMAIN iref /\ DOMAIN copy' = DOMAIN copy
  BY DEF CreateIalloc, Move, Iget
<1>3. Kinds'
  BY <1>1, <1>2, Returns DEF CallInv, Kinds, FilesSame, Label
<1>4. /\ pc'[p] = "create" /\ ip'[p] \in Slot
      /\ other'[p] = None /\ name'[p] \in Name
  BY <1>1, <1>2, Has DEF CallInv, Kinds, Named
<1>5. Args(p)'
  BY <1>4, Returns, ConstFacts DEF Args, InodeCall, Named
<1>6. p \notin exiting
  BY <1>1, <1>4, Has, Returns
<1>7. LocksOf(p)' /\ LocksBy(p)
  BY <1>1, <1>2, <1>4, Returns, ConstFacts
  DEF CallInv, Kinds, LocksOf, LocksBy, Holds, HoldsRoot, HoldsInode
<1> QED  BY <1>1, <1>2, <1>3, <1>4, <1>5, <1>6, <1>7, Returns, InodeMoves
            DEF CallInv, Kinds, InWrite

LEMMA CallCreateLink ==
  ASSUME CallInv, NEW p \in Process, CreateLink(p), FilesSame PROVE CallInv'
<1>1. pc[p] = "create" /\ ip[p] \in Slot /\ locked[ip[p]] = None
  BY Has DEF CreateLink, Move, CanLock, InodeCall
<1>2. /\ pc' = [pc EXCEPT ![p] = "created"]
      /\ locked' = [locked EXCEPT ![ip[p]] = p, ![Root] = None]
      /\ name' = [name EXCEPT ![p] = None]
      /\ UNCHANGED <<ip, other>>
      /\ DOMAIN inum' = DOMAIN inum /\ DOMAIN iref' = DOMAIN iref /\ DOMAIN copy' = DOMAIN copy
  BY DEF CreateLink, Move, Update, Iget, argVars, icacheVars, inodeVars
<1>3. Kinds'
  BY <1>1, <1>2, Returns DEF CallInv, Kinds, FilesSame, Label
<1>4. /\ pc'[p] = "created" /\ ip'[p] \in Slot
      /\ other'[p] = None /\ name'[p] = None
  BY <1>1, <1>2, Has DEF CallInv, Kinds, Named
<1>5. Args(p)'
  BY <1>4, Returns, ConstFacts DEF Args, InodeCall, Named
<1>6. p \notin exiting
  BY <1>1, <1>4, Has, Returns
<1>7. LocksOf(p)' /\ LocksBy(p)
  BY <1>1, <1>2, <1>4, Returns, ConstFacts
  DEF CallInv, Kinds, LocksOf, LocksBy, Holds, HoldsRoot, HoldsInode
<1> QED  BY <1>1, <1>2, <1>3, <1>4, <1>5, <1>6, <1>7, Returns, InodeMoves
            DEF CallInv, Kinds, InWrite

LEMMA CallUnlinkErase ==
  ASSUME CallInv, NEW p \in Process, UnlinkErase(p), FilesSame PROVE CallInv'
<1>1. pc[p] = "unlink" /\ ip[p] \in Slot /\ locked[ip[p]] = None
  BY Has DEF UnlinkErase, Move, CanLock, InodeCall
<1>2. /\ pc' = [pc EXCEPT ![p] = "unlinked"]
      /\ locked' = [locked EXCEPT ![ip[p]] = p, ![Root] = None]
      /\ name' = [name EXCEPT ![p] = None]
      /\ UNCHANGED <<ip, other>>
      /\ DOMAIN inum' = DOMAIN inum /\ DOMAIN iref' = DOMAIN iref /\ DOMAIN copy' = DOMAIN copy
  BY DEF UnlinkErase, Move, Update, Iget, argVars, icacheVars, inodeVars
<1>3. Kinds'
  BY <1>1, <1>2, Returns DEF CallInv, Kinds, FilesSame, Label
<1>4. /\ pc'[p] = "unlinked" /\ ip'[p] \in Slot
      /\ other'[p] = None /\ name'[p] = None
  BY <1>1, <1>2, Has DEF CallInv, Kinds, Named
<1>5. Args(p)'
  BY <1>4, Returns, ConstFacts DEF Args, InodeCall, Named
<1>6. p \notin exiting
  BY <1>1, <1>4, Has, Returns
<1>7. LocksOf(p)' /\ LocksBy(p)
  BY <1>1, <1>2, <1>4, Returns, ConstFacts
  DEF CallInv, Kinds, LocksOf, LocksBy, Holds, HoldsRoot, HoldsInode
<1> QED  BY <1>1, <1>2, <1>3, <1>4, <1>5, <1>6, <1>7, Returns, InodeMoves
            DEF CallInv, Kinds, InWrite

LEMMA CallCreatePutDir ==
  ASSUME CallInv, NEW p \in Process, CreatePutDir(p), FilesSame PROVE CallInv'
<1>1. pc[p] = "created" /\ ip[p] \in Slot
  BY Has DEF CreatePutDir, Move, CanLock, InodeCall
<1>2. /\ pc' = [pc EXCEPT ![p] = "opened"]
      /\ UNCHANGED <<locked, ip, other, name>>
      /\ DOMAIN inum' = DOMAIN inum /\ DOMAIN iref' = DOMAIN iref /\ DOMAIN copy' = DOMAIN copy
  BY DEF CreatePutDir, Move, Update, Iget, argVars, icacheVars, inodeVars
<1>3. Kinds'
  BY <1>1, <1>2, Returns DEF CallInv, Kinds, FilesSame, Label
<1>4. /\ pc'[p] = "opened" /\ ip'[p] \in Slot
      /\ other'[p] = None /\ name'[p] = None
  BY <1>1, <1>2, Has DEF CallInv, Kinds, Named
<1>5. Args(p)'
  BY <1>4, Returns, ConstFacts DEF Args, InodeCall, Named
<1>6. p \notin exiting
  BY <1>1, <1>4, Has, Returns
<1>7. LocksOf(p)' /\ LocksBy(p)
  BY <1>1, <1>2, <1>4, Returns, ConstFacts
  DEF CallInv, Kinds, LocksOf, LocksBy, Holds, HoldsRoot, HoldsInode
<1> QED  BY <1>1, <1>2, <1>3, <1>4, <1>5, <1>6, <1>7, Returns, InodeMoves
            DEF CallInv, Kinds, InWrite

LEMMA CallUnlinkDrop ==
  ASSUME CallInv, NEW p \in Process, UnlinkDrop(p), FilesSame PROVE CallInv'
<1>1. pc[p] = "unlinked" /\ ip[p] \in Slot
  BY Has DEF UnlinkDrop, Move, CanLock, InodeCall
<1>2. /\ pc' = [pc EXCEPT ![p] = "put"]
      /\ locked' = [locked EXCEPT ![ip[p]] = None]
      /\ UNCHANGED <<ip, other, name>>
      /\ DOMAIN inum' = DOMAIN inum /\ DOMAIN iref' = DOMAIN iref /\ DOMAIN copy' = DOMAIN copy
  BY DEF UnlinkDrop, Move, Update, Iget, argVars, icacheVars, inodeVars
<1>3. Kinds'
  BY <1>1, <1>2, Returns DEF CallInv, Kinds, FilesSame, Label
<1>4. /\ pc'[p] = "put" /\ ip'[p] \in Slot
      /\ other'[p] = None /\ name'[p] = None
  BY <1>1, <1>2, Has DEF CallInv, Kinds, Named
<1>5. Args(p)'
  BY <1>4, Returns, ConstFacts DEF Args, InodeCall, Named
<1>6. p \notin exiting
  BY <1>1, <1>4, Has, Returns
<1>7. LocksOf(p)' /\ LocksBy(p)
  BY <1>1, <1>2, <1>4, Returns, ConstFacts
  DEF CallInv, Kinds, LocksOf, LocksBy, Holds, HoldsRoot, HoldsInode
<1> QED  BY <1>1, <1>2, <1>3, <1>4, <1>5, <1>6, <1>7, Returns, InodeMoves
            DEF CallInv, Kinds, InWrite

LEMMA CallLinkCount ==
  ASSUME CallInv, NEW p \in Process, LinkCount(p), FilesSame PROVE CallInv'
<1>1. pc[p] = "link" /\ ip[p] \in Slot
  BY Has DEF LinkCount, Move, CanLock, InodeCall
<1>2. /\ pc' = [pc EXCEPT ![p] = "link_dir"]
      /\ UNCHANGED <<locked, ip, other, name>>
      /\ DOMAIN inum' = DOMAIN inum /\ DOMAIN iref' = DOMAIN iref /\ DOMAIN copy' = DOMAIN copy
  BY DEF LinkCount, Move, Update, Iget, argVars, icacheVars, inodeVars, Unlocked
<1>3. Kinds'
  BY <1>1, <1>2, Returns DEF CallInv, Kinds, FilesSame, Label
<1>4. /\ pc'[p] = "link_dir" /\ ip'[p] \in Slot
      /\ other'[p] = None /\ name'[p] \in Name
  BY <1>1, <1>2, Has DEF CallInv, Kinds, Named
<1>5. Args(p)'
  BY <1>4, Returns, ConstFacts DEF Args, InodeCall, Named
<1>6. p \notin exiting
  BY <1>1, <1>4, Has, Returns
<1>7. LocksOf(p)' /\ LocksBy(p)
  BY <1>1, <1>2, <1>4, Returns, ConstFacts
  DEF CallInv, Kinds, LocksOf, LocksBy, Holds, HoldsRoot, HoldsInode
<1> QED  BY <1>1, <1>2, <1>3, <1>4, <1>5, <1>6, <1>7, Returns, InodeMoves
            DEF CallInv, Kinds, InWrite

LEMMA CallLinkName ==
  ASSUME CallInv, NEW p \in Process, LinkName(p), FilesSame PROVE CallInv'
<1>1. pc[p] = "link_dir" /\ ip[p] \in Slot
  BY Has DEF LinkName, Move, CanLock, InodeCall
<1>2. /\ pc' = [pc EXCEPT ![p] = "put"]
      /\ name' = [name EXCEPT ![p] = None]
      /\ UNCHANGED <<locked, ip, other>>
      /\ DOMAIN inum' = DOMAIN inum /\ DOMAIN iref' = DOMAIN iref /\ DOMAIN copy' = DOMAIN copy
  BY DEF LinkName, Move, Update, Iget, argVars, icacheVars, inodeVars
<1>3. Kinds'
  BY <1>1, <1>2, Returns DEF CallInv, Kinds, FilesSame, Label
<1>4. /\ pc'[p] = "put" /\ ip'[p] \in Slot
      /\ other'[p] = None /\ name'[p] = None
  BY <1>1, <1>2, Has DEF CallInv, Kinds, Named
<1>5. Args(p)'
  BY <1>4, Returns, ConstFacts DEF Args, InodeCall, Named
<1>6. p \notin exiting
  BY <1>1, <1>4, Has, Returns
<1>7. LocksOf(p)' /\ LocksBy(p)
  BY <1>1, <1>2, <1>4, Returns, ConstFacts
  DEF CallInv, Kinds, LocksOf, LocksBy, Holds, HoldsRoot, HoldsInode
<1> QED  BY <1>1, <1>2, <1>3, <1>4, <1>5, <1>6, <1>7, Returns, InodeMoves
            DEF CallInv, Kinds, InWrite

LEMMA CallLinkTaken ==
  ASSUME CallInv, NEW p \in Process, LinkTaken(p), FilesSame PROVE CallInv'
<1>1. pc[p] = "link_dir" /\ ip[p] \in Slot /\ locked[Root] = None /\ Entry(dir[name[p]]) \in Slot
  BY Has, EntryIn DEF LinkTaken, Move, CanLock, InodeCall
<1>2. /\ pc' = [pc EXCEPT ![p] = "link_taken"]
      /\ other' = [other EXCEPT ![p] = Entry(dir[name[p]])]
      /\ name' = [name EXCEPT ![p] = None]
      /\ locked' = [locked EXCEPT ![Root] = p] /\ UNCHANGED ip
      /\ DOMAIN inum' = DOMAIN inum /\ DOMAIN iref' = DOMAIN iref /\ DOMAIN copy' = DOMAIN copy
  BY DEF LinkTaken, Move, Update, Iget, argVars, icacheVars, inodeVars
<1>3. Kinds'
  BY <1>1, <1>2, Returns DEF CallInv, Kinds, FilesSame, Label
<1>4. /\ pc'[p] = "link_taken" /\ ip'[p] \in Slot
      /\ other'[p] \in Slot /\ name'[p] = None
  BY <1>1, <1>2, Has DEF CallInv, Kinds, Named
<1>5. Args(p)'
  BY <1>4, Returns, ConstFacts DEF Args, InodeCall, Named
<1>6. p \notin exiting
  BY <1>1, <1>4, Has, Returns
<1>7. LocksOf(p)' /\ LocksBy(p)
  BY <1>1, <1>2, <1>4, Returns, ConstFacts
  DEF CallInv, Kinds, LocksOf, LocksBy, Holds, HoldsRoot, HoldsInode
<1> QED  BY <1>1, <1>2, <1>3, <1>4, <1>5, <1>6, <1>7, Returns, InodeMoves
            DEF CallInv, Kinds, InWrite

LEMMA CallLinkPutOther ==
  ASSUME CallInv, NEW p \in Process, LinkPutOther(p), FilesSame PROVE CallInv'
<1>1. pc[p] = "link_taken" /\ ip[p] \in Slot
  BY Has DEF LinkPutOther, Move, CanLock, InodeCall
<1>2. /\ pc' = [pc EXCEPT ![p] = "link_back"]
      /\ other' = [other EXCEPT ![p] = None]
      /\ locked' = [locked EXCEPT ![Root] = None] /\ UNCHANGED <<ip, name>>
      /\ DOMAIN inum' = DOMAIN inum /\ DOMAIN iref' = DOMAIN iref /\ DOMAIN copy' = DOMAIN copy
  BY DEF LinkPutOther, Move, Update, Iget, argVars, icacheVars, inodeVars
<1>3. Kinds'
  BY <1>1, <1>2, Returns DEF CallInv, Kinds, FilesSame, Label
<1>4. /\ pc'[p] = "link_back" /\ ip'[p] \in Slot
      /\ other'[p] = None /\ name'[p] = None
  BY <1>1, <1>2, Has DEF CallInv, Kinds, Named
<1>5. Args(p)'
  BY <1>4, Returns, ConstFacts DEF Args, InodeCall, Named
<1>6. p \notin exiting
  BY <1>1, <1>4, Has, Returns
<1>7. LocksOf(p)' /\ LocksBy(p)
  BY <1>1, <1>2, <1>4, Returns, ConstFacts
  DEF CallInv, Kinds, LocksOf, LocksBy, Holds, HoldsRoot, HoldsInode
<1> QED  BY <1>1, <1>2, <1>3, <1>4, <1>5, <1>6, <1>7, Returns, InodeMoves
            DEF CallInv, Kinds, InWrite

LEMMA CallLinkBack ==
  ASSUME CallInv, NEW p \in Process, LinkBack(p), FilesSame PROVE CallInv'
<1>1. pc[p] = "link_back" /\ ip[p] \in Slot
  BY Has DEF LinkBack, Move, CanLock, InodeCall
<1>2. /\ pc' = [pc EXCEPT ![p] = "put"]
      /\ UNCHANGED <<locked, ip, other, name>>
      /\ DOMAIN inum' = DOMAIN inum /\ DOMAIN iref' = DOMAIN iref /\ DOMAIN copy' = DOMAIN copy
  BY DEF LinkBack, Move, Update, Iget, argVars, icacheVars, inodeVars
<1>3. Kinds'
  BY <1>1, <1>2, Returns DEF CallInv, Kinds, FilesSame, Label
<1>4. /\ pc'[p] = "put" /\ ip'[p] \in Slot
      /\ other'[p] = None /\ name'[p] = None
  BY <1>1, <1>2, Has DEF CallInv, Kinds, Named
<1>5. Args(p)'
  BY <1>4, Returns, ConstFacts DEF Args, InodeCall, Named
<1>6. p \notin exiting
  BY <1>1, <1>4, Has, Returns
<1>7. LocksOf(p)' /\ LocksBy(p)
  BY <1>1, <1>2, <1>4, Returns, ConstFacts
  DEF CallInv, Kinds, LocksOf, LocksBy, Holds, HoldsRoot, HoldsInode
<1> QED  BY <1>1, <1>2, <1>3, <1>4, <1>5, <1>6, <1>7, Returns, InodeMoves
            DEF CallInv, Kinds, InWrite

LEMMA CallIputFrees ==
  ASSUME CallInv, NEW p \in Process, IputFrees(p), FilesSame PROVE CallInv'
<1>1. pc[p] = "put" /\ ip[p] \in Slot /\ locked[ip[p]] = None
  BY Has DEF IputFrees, Move, CanLock, InodeCall
<1>2. /\ pc' = [pc EXCEPT ![p] = "free"]
      /\ locked' = [locked EXCEPT ![ip[p]] = p]
      /\ UNCHANGED <<ip, other, name>>
      /\ DOMAIN inum' = DOMAIN inum /\ DOMAIN iref' = DOMAIN iref /\ DOMAIN copy' = DOMAIN copy
  BY DEF IputFrees, Move, Update, Iget, argVars, icacheVars, inodeVars
<1>3. Kinds'
  BY <1>1, <1>2, Returns DEF CallInv, Kinds, FilesSame, Label
<1>4. /\ pc'[p] = "free" /\ ip'[p] \in Slot
      /\ other'[p] = None /\ name'[p] = None
  BY <1>1, <1>2, Has DEF CallInv, Kinds, Named
<1>5. Args(p)'
  BY <1>4, Returns, ConstFacts DEF Args, InodeCall, Named
<1>6. (p \in exiting => pc'[p] \in {"exiting", "put", "drop", "free"})
  BY <1>1, <1>4, Has, Returns
<1>7. LocksOf(p)' /\ LocksBy(p)
  BY <1>1, <1>2, <1>4, Returns, ConstFacts
  DEF CallInv, Kinds, LocksOf, LocksBy, Holds, HoldsRoot, HoldsInode
<1> QED  BY <1>1, <1>2, <1>3, <1>4, <1>5, <1>6, <1>7, Returns, InodeMoves
            DEF CallInv, Kinds, InWrite

LEMMA CallIputKeeps ==
  ASSUME CallInv, NEW p \in Process, IputKeeps(p), FilesSame PROVE CallInv'
<1>1. pc[p] = "put" /\ ip[p] \in Slot
  BY Has DEF IputKeeps, Move, CanLock, InodeCall
<1>2. /\ pc' = [pc EXCEPT ![p] = "drop"]
      /\ UNCHANGED <<locked, ip, other, name>>
      /\ DOMAIN inum' = DOMAIN inum /\ DOMAIN iref' = DOMAIN iref /\ DOMAIN copy' = DOMAIN copy
  BY DEF IputKeeps, Move, Update, Iget, argVars, icacheVars, inodeVars
<1>3. Kinds'
  BY <1>1, <1>2, Returns DEF CallInv, Kinds, FilesSame, Label
<1>4. /\ pc'[p] = "drop" /\ ip'[p] \in Slot
      /\ other'[p] = None /\ name'[p] = None
  BY <1>1, <1>2, Has DEF CallInv, Kinds, Named
<1>5. Args(p)'
  BY <1>4, Returns, ConstFacts DEF Args, InodeCall, Named
<1>6. (p \in exiting => pc'[p] \in {"exiting", "put", "drop", "free"})
  BY <1>1, <1>4, Has, Returns
<1>7. LocksOf(p)' /\ LocksBy(p)
  BY <1>1, <1>2, <1>4, Returns, ConstFacts
  DEF CallInv, Kinds, LocksOf, LocksBy, Holds, HoldsRoot, HoldsInode
<1> QED  BY <1>1, <1>2, <1>3, <1>4, <1>5, <1>6, <1>7, Returns, InodeMoves
            DEF CallInv, Kinds, InWrite

LEMMA CallIputTruncates ==
  ASSUME CallInv, NEW p \in Process, IputTruncates(p), FilesSame PROVE CallInv'
<1>1. pc[p] = "free" /\ ip[p] \in Slot
  BY Has DEF IputTruncates, Move, CanLock, InodeCall
<1>2. /\ pc' = [pc EXCEPT ![p] = "drop"]
      /\ locked' = [locked EXCEPT ![ip[p]] = None]
      /\ UNCHANGED <<ip, other, name>>
      /\ DOMAIN inum' = DOMAIN inum /\ DOMAIN iref' = DOMAIN iref /\ DOMAIN copy' = DOMAIN copy
  BY DEF IputTruncates, Move, Update, Iget, argVars, icacheVars, inodeVars
<1>3. Kinds'
  BY <1>1, <1>2, Returns DEF CallInv, Kinds, FilesSame, Label
<1>4. /\ pc'[p] = "drop" /\ ip'[p] \in Slot
      /\ other'[p] = None /\ name'[p] = None
  BY <1>1, <1>2, Has DEF CallInv, Kinds, Named
<1>5. Args(p)'
  BY <1>4, Returns, ConstFacts DEF Args, InodeCall, Named
<1>6. (p \in exiting => pc'[p] \in {"exiting", "put", "drop", "free"})
  BY <1>1, <1>4, Has, Returns
<1>7. LocksOf(p)' /\ LocksBy(p)
  BY <1>1, <1>2, <1>4, Returns, ConstFacts
  DEF CallInv, Kinds, LocksOf, LocksBy, Holds, HoldsRoot, HoldsInode
<1> QED  BY <1>1, <1>2, <1>3, <1>4, <1>5, <1>6, <1>7, Returns, InodeMoves
            DEF CallInv, Kinds, InWrite

LEMMA CallIputDrops ==
  ASSUME CallInv, NEW p \in Process, IputDrops(p), FilesSame PROVE CallInv'
<1>1. pc[p] = "drop" /\ ip[p] \in Slot
  BY Has DEF IputDrops, Move, CanLock, InodeCall
<1>2. /\ pc' = [pc EXCEPT ![p] = Return(p)]
      /\ ip' = [ip EXCEPT ![p] = None] /\ UNCHANGED <<locked, other, name>>
      /\ DOMAIN inum' = DOMAIN inum /\ DOMAIN iref' = DOMAIN iref /\ DOMAIN copy' = DOMAIN copy
  BY DEF IputDrops, Move, Update, Iget, argVars, icacheVars, inodeVars
<1>3. Kinds'
  BY <1>1, <1>2, Returns DEF CallInv, Kinds, FilesSame, Label
<1>4. /\ pc'[p] = Return(p) /\ ip'[p] = None
      /\ other'[p] = None /\ name'[p] = None
  BY <1>1, <1>2, Has DEF CallInv, Kinds, Named
<1>5. Args(p)'
  BY <1>4, Returns, ConstFacts DEF Args, InodeCall, Named
<1>6. (p \in exiting => pc'[p] \in {"exiting", "put", "drop", "free"})
  BY <1>1, <1>4, Has, Returns
<1>7. LocksOf(p)' /\ LocksBy(p)
  BY <1>1, <1>2, <1>4, Returns, ConstFacts
  DEF CallInv, Kinds, LocksOf, LocksBy, Holds, HoldsRoot, HoldsInode
<1> QED  BY <1>1, <1>2, <1>3, <1>4, <1>5, <1>6, <1>7, Returns, InodeMoves
            DEF CallInv, Kinds, InWrite

LEMMA CallOpenLookup ==
  ASSUME CallInv, NEW p \in Process, NEW n \in Name, OpenLookup(p, n), FilesSame PROVE CallInv'
<1>1. pc[p] = "user" /\ locked[Root] = None /\ Entry(dir[n]) \in Slot
  BY EntryIn DEF OpenLookup, Lookup, Move, CanLock
<1>2. /\ pc' = [pc EXCEPT ![p] = "open"] /\ ip' = [ip EXCEPT ![p] = Entry(dir[n])]
      /\ UNCHANGED name /\ UNCHANGED locked /\ UNCHANGED other
      /\ DOMAIN inum' = DOMAIN inum /\ DOMAIN iref' = DOMAIN iref /\ DOMAIN copy' = DOMAIN copy
  BY DEF OpenLookup, Lookup, Move, Iget
<1>3. Kinds'
  BY <1>1, <1>2, Returns DEF CallInv, Kinds, FilesSame, Label
<1>4. /\ pc'[p] = "open" /\ ip'[p] \in Slot
      /\ other'[p] = None /\ name'[p] = None
  BY <1>1, <1>2, Has DEF CallInv, Kinds, Named
<1>5. Args(p)'
  BY <1>4, Returns, ConstFacts DEF Args, InodeCall, Named
<1>6. p \notin exiting
  BY <1>1, <1>4, Has, Returns
<1>7. LocksOf(p)' /\ LocksBy(p)
  BY <1>1, <1>2, <1>4, Returns, ConstFacts
  DEF CallInv, Kinds, LocksOf, LocksBy, Holds, HoldsRoot, HoldsInode
<1> QED  BY <1>1, <1>2, <1>3, <1>4, <1>5, <1>6, <1>7, Returns, InodeMoves
            DEF CallInv, Kinds, InWrite

LEMMA CallUnlinkLookup ==
  ASSUME CallInv, NEW p \in Process, NEW n \in Name, UnlinkLookup(p, n), FilesSame PROVE CallInv'
<1>1. pc[p] = "user" /\ locked[Root] = None /\ Entry(dir[n]) \in Slot
  BY EntryIn DEF UnlinkLookup, Lookup, Move, CanLock
<1>2. /\ pc' = [pc EXCEPT ![p] = "unlink"] /\ ip' = [ip EXCEPT ![p] = Entry(dir[n])]
      /\ name' = [name EXCEPT ![p] = n] /\ locked' = [locked EXCEPT ![Root] = p] /\ UNCHANGED other
      /\ DOMAIN inum' = DOMAIN inum /\ DOMAIN iref' = DOMAIN iref /\ DOMAIN copy' = DOMAIN copy
  BY DEF UnlinkLookup, Lookup, Move, Iget
<1>3. Kinds'
  BY <1>1, <1>2, Returns DEF CallInv, Kinds, FilesSame, Label
<1>4. /\ pc'[p] = "unlink" /\ ip'[p] \in Slot
      /\ other'[p] = None /\ name'[p] \in Name
  BY <1>1, <1>2, Has DEF CallInv, Kinds, Named
<1>5. Args(p)'
  BY <1>4, Returns, ConstFacts DEF Args, InodeCall, Named
<1>6. p \notin exiting
  BY <1>1, <1>4, Has, Returns
<1>7. LocksOf(p)' /\ LocksBy(p)
  BY <1>1, <1>2, <1>4, Returns, ConstFacts
  DEF CallInv, Kinds, LocksOf, LocksBy, Holds, HoldsRoot, HoldsInode
<1> QED  BY <1>1, <1>2, <1>3, <1>4, <1>5, <1>6, <1>7, Returns, InodeMoves
            DEF CallInv, Kinds, InWrite

LEMMA CallLinkLookup ==
  ASSUME CallInv, NEW p \in Process, NEW o \in Name, NEW n \in Name, LinkLookup(p, o, n), FilesSame
  PROVE  CallInv'
<1>1. pc[p] = "user" /\ locked[Root] = None /\ Entry(dir[o]) \in Slot
  BY EntryIn DEF LinkLookup, Lookup, Move, CanLock
<1>2. /\ pc' = [pc EXCEPT ![p] = "link"] /\ ip' = [ip EXCEPT ![p] = Entry(dir[o])]
      /\ name' = [name EXCEPT ![p] = n] /\ UNCHANGED locked /\ UNCHANGED other
      /\ DOMAIN inum' = DOMAIN inum /\ DOMAIN iref' = DOMAIN iref /\ DOMAIN copy' = DOMAIN copy
  BY DEF LinkLookup, Lookup, Move, Iget
<1>3. Kinds'
  BY <1>1, <1>2, Returns DEF CallInv, Kinds, FilesSame, Label
<1>4. /\ pc'[p] = "link" /\ ip'[p] \in Slot
      /\ other'[p] = None /\ name'[p] \in Name
  BY <1>1, <1>2, Has DEF CallInv, Kinds, Named
<1>5. Args(p)'
  BY <1>4, Returns, ConstFacts DEF Args, InodeCall, Named
<1>6. p \notin exiting
  BY <1>1, <1>4, Has, Returns
<1>7. LocksOf(p)' /\ LocksBy(p)
  BY <1>1, <1>2, <1>4, Returns, ConstFacts
  DEF CallInv, Kinds, LocksOf, LocksBy, Holds, HoldsRoot, HoldsInode
<1> QED  BY <1>1, <1>2, <1>3, <1>4, <1>5, <1>6, <1>7, Returns, InodeMoves
            DEF CallInv, Kinds, InWrite

-----------------------------------------------------------------------------
(* Where calls are: pipes, console, contents                               *)

Sleeping == {"read_sleep", "write_sleep", "cread_sleep"}
Woke == {"read", "write", "cread"}

(* A wakeup moves sleepers only.                                           *)
LEMMA WakesOnly ==
  ASSUME Kinds
  PROVE  \A q : \A f \in {WakeReaders(q), WakeWriters(q), WakeConsole, CloseWakes(q, TRUE),
                          CloseWakes(q, FALSE), pc} :
           /\ f \in [Process -> Label]
           /\ \A x \in Process : f[x] = pc[x] \/ (pc[x] \in Sleeping /\ f[x] \in Woke)
BY DEF Kinds, WakeReaders, WakeWriters, WakeConsole, Woken, CloseWakes, Sleeping, Woke, Label

(* A step in which one process goes on, and wakes others                   *)
LEMMA WakingMoves ==
  ASSUME CallInv, NEW p \in Process, NEW f \in [Process -> Label], NEW to \in Label,
         \A q \in Process : f[q] = pc[q] \/ (pc[q] \in Sleeping /\ f[q] \in Woke),
         pc' = [f EXCEPT ![p] = to],
         UNCHANGED <<ip, other, name, pfile, ofile, ftable, locked, inum, iref, copy, writing>>,
         exiting' = exiting, DOMAIN request' = Process,
         \A q \in Process \ {p} : request'[q] = request[q],
         pc[p] \notin Busy, to \notin Busy \cup {"filewrite", "pipeclose", "dead"},
         p \in exiting <=> to = "exiting",
         pc[p] # "pipefail", Wf(p) # None <=> to = "pipefail"
  PROVE  CallInv'
<1>0. \A q : Rf(q)' = Rf(q) /\ Wf(q)' = Wf(q)
  BY DEF Rf, Wf
<1>1. Kinds'
  BY DEF CallInv, Kinds
<1>2. ASSUME NEW q \in Process \ {p} PROVE SameFor(q) \/ Moved(q)
  <2>1. pc'[q] = f[q]
    OBVIOUS
  <2>2. CASE pc'[q] = pc[q]
    BY <1>0, <2>2 DEF SameFor
  <2>3. CASE pc[q] \in Sleeping /\ pc'[q] \in Woke
    <3>1. q \notin exiting /\ Wf(q) = None
      BY <2>3 DEF CallInv, Shape, PipeShape, Sleeping
    <3> QED  BY <1>0, <2>3, <3>1 DEF Moved, Busy, InodeCall, Sleeping, Woke
  <2> QED  BY <2>1, <2>2, <2>3
<1>3. Moved(p)
  BY <1>0 DEF Moved
<1>4. \A g \in File : FileShape(g)'
  BY DEF CallInv, FileShape
<1> QED  BY <1>1, <1>2, <1>3, <1>4, Moves

LEMMA CallPipeStep ==
  ASSUME CallInv, NEW p \in Process, PipeStep(p), UNCHANGED <<inodeVars, consoleVars, fileVars>>
  PROVE  CallInv'
<1>1. UNCHANGED <<ip, other, name, pfile, ofile, ftable, locked, inum, iref, copy, writing>>
  BY DEF inodeVars, diskVars, icacheVars, argVars, fileVars, contentVars
<1>2. DOMAIN request = Process /\ pc \in [Process -> Label] /\ Kinds
  BY DEF CallInv, Kinds
<1>3. CASE Pipeclose(p)
  <2> DEFINE q == request[p].pipe
             writable == request[p].writable
             f == CloseWakes(q, writable)
  <2>1. /\ pc[p] = "pipeclose" /\ pc' = [f EXCEPT ![p] = Return(p)]
        /\ request' = [request EXCEPT ![p] = NoRequest] /\ exiting' = exiting
    BY <1>3 DEF Pipeclose
  <2>2. writable \in BOOLEAN
    BY <2>1 DEF CallInv, Shape
  <2>3. /\ f \in [Process -> Label]
        /\ \A x \in Process : f[x] = pc[x] \/ (pc[x] \in Sleeping /\ f[x] \in Woke)
    BY <1>2, <2>2, WakesOnly
  <2> HIDE DEF q, writable, f
  <2>4. /\ DOMAIN request' = Process /\ \A x \in Process \ {p} : request'[x] = request[x]
        /\ Return(p) \in Label /\ Return(p) \notin Busy \cup {"filewrite", "pipeclose", "dead"}
        /\ pc[p] \notin Busy /\ (p \in exiting <=> Return(p) = "exiting")
        /\ pc[p] # "pipefail" /\ (Wf(p) # None <=> Return(p) = "pipefail")
    BY <1>2, <2>1, Returns DEF Label, Busy, InodeCall
  <2> QED  BY <1>1, <2>1, <2>3, <2>4, WakingMoves
<1>4. CASE Pipewrite(p) \/ PipereadSleeps(p) \/ PipereadFails(p) \/ Piperead(p)
  <2> DEFINE q == request[p].pipe
  <2>1. /\ pc[p] \in {"read", "write"} /\ exiting' = exiting
        /\ \E f \in {WakeReaders(q), WakeWriters(q), pc} :
             \E to \in {"user", "read_sleep", "write_sleep"} : pc' = [f EXCEPT ![p] = to]
    BY <1>4 DEF Pipewrite, PipereadSleeps, PipereadFails, Piperead
  <2>2. /\ DOMAIN request' = Process
        /\ \A x \in Process \ {p} : request'[x] = request[x]
    BY <1>4, <1>2 DEF Pipewrite, PipereadSleeps, PipereadFails, Piperead, pipeVars
  <2>3. PICK f \in {WakeReaders(q), WakeWriters(q), pc} :
             \E to \in {"user", "read_sleep", "write_sleep"} : pc' = [f EXCEPT ![p] = to]
    BY <2>1
  <2>4. PICK to \in {"user", "read_sleep", "write_sleep"} : pc' = [f EXCEPT ![p] = to]
    BY <2>3
  <2>5. /\ f \in [Process -> Label]
        /\ \A x \in Process : f[x] = pc[x] \/ (pc[x] \in Sleeping /\ f[x] \in Woke)
    BY <1>2, WakesOnly
  <2>6. p \notin exiting /\ Wf(p) = None
    BY <2>1 DEF CallInv, Shape, PipeShape
  <2>7. /\ to \in Label /\ to \notin Busy \cup {"filewrite", "pipeclose", "dead"}
        /\ pc[p] \notin Busy /\ (p \in exiting <=> to = "exiting")
        /\ pc[p] # "pipefail" /\ (Wf(p) # None <=> to = "pipefail")
    BY <2>1, <2>6 DEF Label, Busy, InodeCall
  <2> HIDE DEF q
  <2> QED  BY ONLY CallInv, p \in Process, <1>1, <2>1, <2>2, <2>4, <2>5, <2>7, WakingMoves
<1> QED  BY <1>3, <1>4 DEF PipeStep

LEMMA CallConsoleread ==
  ASSUME CallInv, NEW p \in Process, Consoleread(p), UNCHANGED <<pipeVars, inodeVars, fileVars>>
  PROVE  CallInv'
<1>1. UNCHANGED <<ip, other, name, pfile, ofile, ftable, locked, inum, iref, copy, writing,
                  request>>
  BY DEF inodeVars, diskVars, icacheVars, argVars, fileVars, contentVars, pipeVars
<1>2. /\ pc[p] = "cread" /\ exiting' = exiting
      /\ \E to \in {"user", "cread_sleep"} : pc' = [pc EXCEPT ![p] = to]
  BY DEF Consoleread
<1>3. PICK to \in {"user", "cread_sleep"} : pc' = [pc EXCEPT ![p] = to]
  BY <1>2
<1>4. p \notin exiting /\ Wf(p) = None
  BY <1>2 DEF CallInv, Shape, PipeShape
<1>5. /\ to \in Label /\ to \notin Busy \cup {"filewrite", "pipeclose", "dead"}
      /\ pc[p] \notin Busy /\ (p \in exiting <=> to = "exiting")
      /\ pc[p] # "pipefail" /\ (Wf(p) # None <=> to = "pipefail")
  BY <1>2, <1>4 DEF Label, Busy, InodeCall
<1>6. pc \in [Process -> Label] /\ DOMAIN request' = Process
  BY <1>1 DEF CallInv, Kinds
<1>7. \A q \in Process \ {p} : request'[q] = request[q]
  BY <1>1
<1>8. \A q \in Process : pc[q] = pc[q] \/ (pc[q] \in Sleeping /\ pc[q] \in Woke)
  OBVIOUS
<1> QED  BY ONLY CallInv, p \in Process, <1>1, <1>2, <1>3, <1>5, <1>6, <1>7, <1>8, WakingMoves

LEMMA CallKeyboard == ASSUME CallInv, Keyboard PROVE CallInv'
<1>1. UNCHANGED <<ip, other, name, pfile, ofile, ftable, locked, inum, iref, copy, writing,
                  request>>
  BY DEF Keyboard, inodeVars, diskVars, icacheVars, argVars, fileVars, contentVars, pipeVars
<1>2. exiting' = exiting /\ (pc' = pc \/ pc' = WakeConsole)
  BY DEF Keyboard, ConsoleIntr, Backspace, KillLine, Type, callVars
<1>3. /\ pc' \in [Process -> Label]
      /\ \A x \in Process : pc'[x] = pc[x] \/ (pc[x] \in Sleeping /\ pc'[x] \in Woke)
  BY <1>2, WakesOnly DEF CallInv
<1>4. Kinds'
  BY <1>1, <1>2, <1>3 DEF CallInv, Kinds
<1>5. ASSUME NEW q \in Process PROVE SameFor(q) \/ Moved(q)
  <2>1. CASE pc'[q] = pc[q]
    BY <1>1, <1>2, <2>1 DEF SameFor, Rf, Wf
  <2>2. CASE pc[q] \in Sleeping /\ pc'[q] \in Woke
    <3>1. q \notin exiting /\ Wf(q) = None
      BY <2>2 DEF CallInv, Shape, PipeShape, Sleeping
    <3> QED  BY <1>1, <1>2, <2>2, <3>1 DEF Moved, Rf, Wf, Busy, InodeCall, Sleeping, Woke
  <2> QED  BY <1>3, <2>1, <2>2
<1>6. \A f \in File : FileShape(f)'
  BY <1>1 DEF CallInv, FileShape
<1> QED  BY <1>1, <1>4, <1>5, <1>6, Moves

(* The steps of write() of a plain file                                    *)
LEMMA WriteMoves ==
  ASSUME CallInv, NEW p \in Process, NEW to \in {"user", "filewrite", "writei"},
         pc' = [pc EXCEPT ![p] = to], pc[p] \in InWrite \cup {"user"},
         UNCHANGED <<ip, other, name, pfile, ofile, ftable, inum, iref, copy, request, exiting>>,
         locked' \in [Slot \cup {Root} -> Process \cup {None}], LocksBy(p), LocksOf(p)',
         DOMAIN writing' = Process, \A q \in Process \ {p} : writing'[q] = writing[q],
         to \in InWrite => /\ WSlot(p)' \in Slot /\ WFile(p)' \in File
                           /\ DOMAIN writing'[p] = DOMAIN NotWriting
  PROVE  CallInv'
<1>1. Kinds'
  BY DEF CallInv, Kinds, Label
<1>2. \A q \in Process \ {p} : SameFor(q)
  BY DEF CallInv, Kinds, SameFor, Rf, Wf
<1>3. pc'[p] = to
  BY DEF CallInv, Kinds
<1>4. Shape(p)'
  BY <1>3 DEF CallInv, Shape, PipeShape, Rf, Wf, Args, InodeCall, Named, InWrite
<1>5. \A f \in File : FileShape(f)'
  BY DEF CallInv, FileShape
<1> QED  BY <1>1, <1>2, <1>4, <1>5, OneMoves

LEMMA CallWriteStep ==
  ASSUME CallInv, NEW p \in Process, WriteStep(p),
         UNCHANGED <<pipeVars, consoleVars, ftable, ofile, pfile, workload>>
  PROVE  CallInv'
<1>1. /\ UNCHANGED <<ip, other, name, pfile, ofile, ftable, inum, iref, copy, request, exiting>>
      /\ pc[p] \in InWrite
  BY DEF WriteStep, WriteiBegins, WriteiFails, WriteiIndirect, WriteiBlock, WriteiEnds, inodeVars,
         diskVars, icacheVars, argVars, pipeVars, callVars, Move, InWrite
<1>2. /\ WSlot(p) \in Slot /\ WFile(p) \in File /\ DOMAIN writing[p] = DOMAIN NotWriting
      /\ DOMAIN writing = Process /\ pc \in [Process -> Label]
      /\ locked \in [Slot \cup {Root} -> Process \cup {None}] /\ LocksOf(p) /\ ip[p] = None
      /\ p \notin exiting
  BY <1>1 DEF CallInv, Kinds, Shape, Args, InodeCall, InWrite
<1>3. DOMAIN NotWriting = {"file", "slot", "n", "chunk", "pos"}
  BY DEF NotWriting
<1>4. DOMAIN writing' = Process /\ \A q \in Process \ {p} : writing'[q] = writing[q]
  BY <1>2 DEF WriteStep, WriteiBegins, WriteiFails, WriteiIndirect, WriteiBlock, WriteiEnds
<1>5. CASE WriteiBegins(p)
  <2>1. /\ pc[p] = "filewrite" /\ pc' = [pc EXCEPT ![p] = "writei"]
        /\ locked[WSlot(p)] = None /\ locked' = [locked EXCEPT ![WSlot(p)] = p]
        /\ writing' = [writing EXCEPT ![p].chunk = Piece(p), ![p].pos = off[WFile(p)]]
    BY <1>5 DEF WriteiBegins, Move, CanLock
  <2>2. WSlot(p)' = WSlot(p) /\ WFile(p)' = WFile(p) /\ DOMAIN writing'[p] = DOMAIN NotWriting
    BY <1>2, <1>3, <2>1 DEF WSlot, WFile
  <2>3. LocksBy(p) /\ locked' \in [Slot \cup {Root} -> Process \cup {None}]
    BY <1>2, <2>1 DEF LocksBy
  <2>4. LocksOf(p)'
    BY <1>1, <1>2, <2>1, <2>2, ConstFacts DEF LocksOf, Holds, HoldsRoot, HoldsInode
  <2> QED  BY <1>1, <1>2, <1>4, <2>1, <2>2, <2>3, <2>4, WriteMoves
<1>6. CASE WriteiFails(p)
  <2>1. pc[p] = "filewrite" /\ pc' = [pc EXCEPT ![p] = "user"] /\ locked' = locked
    BY <1>6 DEF WriteiFails, Move, inodeVars, icacheVars
  <2>2. LocksOf(p)' /\ LocksBy(p)
    BY <1>1, <1>2, <2>1 DEF LocksOf, LocksBy, Holds, HoldsRoot, HoldsInode
  <2> QED  BY <1>1, <1>2, <1>4, <2>1, <2>2, WriteMoves DEF InWrite
<1>7. CASE WriteiIndirect(p) \/ WriteiBlock(p)
  <2>1. pc[p] = "writei" /\ pc' = pc /\ locked' = locked
    BY <1>7 DEF WriteiIndirect, WriteiBlock, callVars, inodeVars, icacheVars
  <2>2. WSlot(p)' = WSlot(p) /\ WFile(p)' = WFile(p) /\ DOMAIN writing'[p] = DOMAIN NotWriting
    BY <1>2, <1>3, <1>7 DEF WSlot, WFile, WriteiIndirect, WriteiBlock
  <2>3. LocksOf(p)' /\ LocksBy(p)
    BY <1>1, <1>2, <2>1, <2>2 DEF LocksOf, LocksBy, Holds, HoldsRoot, HoldsInode
  <2>4. pc' = [pc EXCEPT ![p] = "writei"]
    BY <1>2, <2>1
  <2> QED  BY <1>1, <1>2, <1>4, <2>1, <2>2, <2>3, <2>4, WriteMoves
<1>8. CASE WriteiEnds(p)
  <2>1. /\ pc[p] = "writei" /\ locked' = [locked EXCEPT ![WSlot(p)] = None]
        /\ \/ pc' = [pc EXCEPT ![p] = "user"]
           \/ /\ pc' = [pc EXCEPT ![p] = "filewrite"]
              /\ writing' = [writing EXCEPT ![p].pos = 0]
    BY <1>8 DEF WriteiEnds
  <2>2. pc'[p] = "filewrite" =>
          WSlot(p)' = WSlot(p) /\ WFile(p)' = WFile(p) /\ DOMAIN writing'[p] = DOMAIN NotWriting
    BY <1>2, <1>3, <2>1 DEF WSlot, WFile
  <2>3. locked[WSlot(p)] = p
    BY <1>2, <2>1 DEF LocksOf, Holds
  <2>4. LocksBy(p) /\ locked' \in [Slot \cup {Root} -> Process \cup {None}]
    BY <1>2, <2>1, <2>3 DEF LocksBy
  <2>5. pc'[p] \in {"user", "filewrite"}
    BY <1>2, <2>1
  <2>6. LocksOf(p)'
    BY <1>1, <1>2, <2>1, <2>5, ConstFacts DEF LocksOf, Holds, HoldsRoot, HoldsInode
  <2> QED  BY <1>1, <1>2, <1>4, <2>1, <2>2, <2>4, <2>5, <2>6, WriteMoves DEF InWrite
<1> QED  BY <1>5, <1>6, <1>7, <1>8 DEF WriteStep

-----------------------------------------------------------------------------
(* Where calls are: descriptors, files, processes                          *)

(* A step that only one process moves in                                   *)
LEMMA QuietMoves ==
  ASSUME CallInv, NEW p \in Process, NEW to \in Label, pc' = [pc EXCEPT ![p] = to],
         UNCHANGED <<ip, other, name, pfile, locked, inum, iref, copy>>,
         ofile' \in [Process -> [FD -> File \cup {None}]], ftable' \in [File -> FileEntry],
         \A f \in File : FileShape(f)', exiting' \subseteq Process,
         DOMAIN request' = Process, DOMAIN writing' = Process,
         \A q \in Process \ {p} :
           /\ ofile'[q] = ofile[q] /\ writing'[q] = writing[q] /\ request'[q] = request[q]
           /\ q \in exiting' <=> q \in exiting,
         pc[p] \notin Busy \cup {"pipefail", "pipeclose"},
         to \notin Busy \cup {"pipefail", "pipeclose"},
         p \in exiting' <=> to = "exiting",
         to = "dead" => ofile'[p] = NoFd,
         to = "filewrite" => /\ WSlot(p)' \in Slot /\ WFile(p)' \in File
                             /\ DOMAIN writing'[p] = DOMAIN NotWriting
  PROVE  CallInv'
<1>1. Kinds'
  BY DEF CallInv, Kinds
<1>2. \A q \in Process \ {p} : SameFor(q)
  BY DEF CallInv, Kinds, SameFor, Rf, Wf
<1>3. pc'[p] = to
  BY DEF CallInv, Kinds
<1>4. Moved(p)
  BY <1>3 DEF Moved, Rf, Wf, CallInv, Shape, PipeShape, Busy
<1> QED  BY <1>1, <1>2, <1>4, Moves

LEMMA FdFinite == IsFiniteSet(FD)
BY ConstFacts, FilesAssumption, FS_Interval DEF FD

LEMMA FdCount == ASSUME NEW p, NEW f PROVE Cardinality({fd \in FD : ofile[p][fd] = f}) \in Nat
<1>1. IsFiniteSet({fd \in FD : ofile[p][fd] = f})
  BY FdFinite, FS_Subset
<1> QED  BY <1>1, FS_CardinalityType

(* A step that changes one file                                            *)
LEMMA FileSet ==
  ASSUME CallInv, NEW f \in File, NEW x \in FileEntry, ftable' = [ftable EXCEPT ![f] = x],
         x.ref = 0 => x.type = "none",
         x.type = "pipe" => x.obj \in Pipe, x.type = "inode" => x.obj \in Slot,
         x.type \in {"none", "device"} => x.obj = None
  PROVE  ftable' \in [File -> FileEntry] /\ \A h \in File : FileShape(h)'
BY DEF CallInv, Kinds, FileShape

(* A step that changes how often a file is referred to                     *)
LEMMA RefSet ==
  ASSUME CallInv, NEW f \in File, NEW n \in Nat, ftable' = [ftable EXCEPT ![f].ref = n],
         n > 0
  PROVE  ftable' \in [File -> FileEntry] /\ \A h \in File : FileShape(h)'
<1> DEFINE x == [ftable[f] EXCEPT !.ref = n]
<1>1. ftable[f] \in FileEntry /\ FileShape(f)
  BY DEF CallInv, Kinds
<1>2. /\ x \in FileEntry /\ x.ref = n /\ x.type = ftable[f].type /\ x.obj = ftable[f].obj
  BY <1>1 DEF FileEntry
<1>3. ftable' = [ftable EXCEPT ![f] = x]
  OBVIOUS
<1> HIDE DEF x
<1>4. /\ x.ref = 0 => x.type = "none"
      /\ x.type = "pipe" => x.obj \in Pipe
      /\ x.type = "inode" => x.obj \in Slot
      /\ x.type \in {"none", "device"} => x.obj = None
  BY <1>1, <1>2 DEF FileShape
<1> QED  BY <1>2, <1>3, <1>4, FileSet

LEMMA CallDup == ASSUME CallInv, NEW p \in Process, NEW fd \in FD, Dup(p, fd) PROVE CallInv'
<1> DEFINE f == ofile[p][fd]
           g == Least(FreeFds(p))
<1>1. /\ pc[p] = "user" /\ f # None /\ g \in FD
      /\ ofile' = [ofile EXCEPT ![p][g] = f] /\ ftable' = [ftable EXCEPT ![f].ref = @ + 1]
      /\ UNCHANGED <<ip, other, name, pfile, locked, inum, iref, copy, request, writing, exiting>>
      /\ pc' = pc
  BY LeastFd DEF Dup, Running, Filedup, callVars, pipeVars, inodeVars, icacheVars, argVars,
                 contentVars
<1>2. f \in File
  BY <1>1 DEF CallInv, Kinds
<1> HIDE DEF f, g
<1>3. ofile' \in [Process -> [FD -> File \cup {None}]]
  BY <1>1, <1>2 DEF CallInv, Kinds
<1>4. ftable[f].ref + 1 \in Nat /\ ftable[f].ref + 1 > 0
  BY <1>2 DEF CallInv, Kinds, FileEntry
<1>5. ftable' \in [File -> FileEntry] /\ \A h \in File : FileShape(h)'
  BY <1>1, <1>2, <1>4, RefSet
<1>6. pc' = [pc EXCEPT ![p] = "user"] /\ p \notin exiting
  BY <1>1 DEF CallInv, Kinds, Shape
<1>7. \A q \in Process \ {p} : ofile'[q] = ofile[q]
  BY <1>1 DEF CallInv, Kinds
<1>8. DOMAIN request' = Process /\ DOMAIN writing' = Process /\ exiting' \subseteq Process
  BY <1>1 DEF CallInv, Kinds
<1> QED  BY <1>1, <1>3, <1>5, <1>6, <1>7, <1>8, QuietMoves DEF Label, Busy, InodeCall

(* close(), by itself or in exit()                                         *)
LEMMA CallCloseFd ==
  ASSUME CallInv, NEW p \in Process, NEW fd \in FD, CloseFd(p, fd), UNCHANGED exiting,
         pc[p] \in {"user", "exiting"}
  PROVE  CallInv'
<1> DEFINE f == ofile[p][fd]
<1>1. /\ f # None /\ ofile' = [ofile EXCEPT ![p][fd] = None] /\ Fileclose(p, f, Return(p))
      /\ UNCHANGED <<other, name, pfile, locked, inum, iref, copy, writing, exiting>>
  BY DEF CloseFd, icacheVars, contentVars
<1>2. /\ f \in File /\ ip[p] = None /\ other[p] = None /\ name[p] = None /\ Rf(p) = None /\ Wf(p) = None
      /\ (p \in exiting <=> pc[p] = "exiting") /\ DOMAIN request = Process
      /\ ofile \in [Process -> [FD -> File \cup {None}]] /\ ftable \in [File -> FileEntry]
      /\ pc \in [Process -> Label] /\ ip \in [Process -> Slot \cup {None}]
  BY <1>1, Has DEF CallInv, Kinds, Shape, PipeShape, InodeCall, Named
<1>a. \A q : Rf(q)' = Rf(q) /\ Wf(q)' = Wf(q)
  BY <1>1 DEF Rf, Wf
<1> HIDE DEF f
<1>3. ofile' \in [Process -> [FD -> File \cup {None}]]
      /\ \A q \in Process \ {p} : ofile'[q] = ofile[q]
  BY <1>1, <1>2
<1>b. /\ Return(p) \in Label
      /\ Return(p) \notin Busy \cup {"pipeclose", "pipefail", "dead", "filewrite"}
      /\ (p \in exiting <=> Return(p) = "exiting")
      /\ pc[p] \notin Busy \cup {"pipeclose", "pipefail"}
  BY Returns DEF Label, Busy, InodeCall
<1>4. CASE ftable[f].ref > 1
  <2>1. /\ ftable' = [ftable EXCEPT ![f].ref = @ - 1] /\ pc' = [pc EXCEPT ![p] = Return(p)]
        /\ UNCHANGED <<request, ip>>
    BY <1>1, <1>4 DEF Fileclose
  <2>2. ftable[f].ref \in Nat
    BY <1>2 DEF FileEntry
  <2>3. ftable[f].ref - 1 \in Nat /\ ftable[f].ref - 1 > 0
    BY <1>4, <2>2
  <2>4. ftable' \in [File -> FileEntry] /\ \A h \in File : FileShape(h)'
    BY <1>2, <2>1, <2>3, RefSet
  <2>6. DOMAIN request' = Process /\ DOMAIN writing' = Process /\ exiting' \subseteq Process
    BY <1>1, <2>1 DEF CallInv, Kinds
  <2> QED  BY <1>1, <1>2, <1>3, <1>b, <2>1, <2>4, <2>6, QuietMoves
<1>5. CASE ~(ftable[f].ref > 1)
  <2>1. /\ ftable' = [ftable EXCEPT ![f] = NoFile]
        /\ \/ /\ ftable[f].type = "none"
              /\ pc' = [pc EXCEPT ![p] = Return(p)] /\ UNCHANGED <<request, ip>>
           \/ /\ ftable[f].type = "pipe"
              /\ request' = [request EXCEPT ![p] =
                   [pipe |-> ftable[f].obj, writable |-> ftable[f].writable]]
              /\ pc' = [pc EXCEPT ![p] = "pipeclose"] /\ UNCHANGED ip
           \/ /\ ftable[f].type = "inode"
              /\ ip' = [ip EXCEPT ![p] = ftable[f].obj]
              /\ pc' = [pc EXCEPT ![p] = "put"]
              /\ UNCHANGED request
    BY <1>1, <1>5 DEF Fileclose
  <2>2. NoFile \in FileEntry /\ NoFile.type = "none" /\ NoFile.obj = None
    BY DEF NoFile, FileEntry
  <2>3. ftable' \in [File -> FileEntry] /\ \A h \in File : FileShape(h)'
    BY <1>2, <2>1, <2>2 DEF CallInv, FileShape
  <2>4. /\ ftable[f].type = "inode" => ftable[f].obj \in Slot
        /\ ftable[f].type = "pipe" => ftable[f].obj \in Pipe
        /\ ftable[f].writable \in BOOLEAN
    BY <1>2 DEF CallInv, FileShape, FileEntry
  <2>5. DOMAIN request' = Process /\ \A q \in Process \ {p} : request'[q] = request[q]
    BY <1>2, <2>1
  <2>6. \A q \in Process \ {p} : SameFor(q)
    BY <1>1, <1>2, <1>3, <1>a, <2>1, <2>5 DEF SameFor
  <2>a. pc' \in [Process -> Label] /\ ip' \in [Process -> Slot \cup {None}]
    BY <1>2, <1>b, <2>1, <2>4 DEF Label
  <2>b. CASE ftable[f].type = "none"
    <3>1. pc' = [pc EXCEPT ![p] = Return(p)] /\ UNCHANGED <<request, ip>>
      BY <2>1, <2>b
    <3>2. DOMAIN writing' = Process /\ exiting' \subseteq Process
      BY <1>1 DEF CallInv, Kinds
    <3> QED  BY <1>1, <1>2, <1>3, <1>b, <2>3, <2>5, <3>1, <3>2, QuietMoves
  <2>7. Kinds'
    BY <1>1, <1>2, <1>3, <2>a, <2>3, <2>5 DEF CallInv, Kinds
  <2>8. CASE ftable[f].type = "pipe"
    <3>1. /\ pc'[p] = "pipeclose" /\ ip'[p] = None /\ request'[p].pipe \in Pipe
          /\ request'[p].writable \in BOOLEAN
      BY <1>2, <2>1, <2>4, <2>8
    <3>2. Shape(p)'
      BY <1>1, <1>2, <1>a, <3>1 DEF Shape, PipeShape, Args, InodeCall, Named, InWrite
    <3>3. LocksOf(p)' /\ LocksBy(p)
      BY <1>1, <1>2, <3>1 DEF CallInv, LocksOf, LocksBy, Holds, HoldsRoot, HoldsInode
    <3> QED  BY <2>3, <2>6, <2>7, <3>2, <3>3, OneMoves
  <2>9. CASE ftable[f].type = "inode"
    <3>1. pc'[p] = "put" /\ ip'[p] \in Slot
      BY <1>2, <2>1, <2>4, <2>9
    <3>2. Shape(p)'
      BY <1>1, <1>2, <1>a, <3>1, ConstFacts DEF Shape, PipeShape, Args, InodeCall, Named, InWrite
    <3>3. LocksOf(p)' /\ LocksBy(p)
      BY <1>1, <1>2, <3>1 DEF CallInv, LocksOf, LocksBy, Holds, HoldsRoot, HoldsInode
    <3> QED  BY <2>3, <2>6, <2>7, <3>2, <3>3, OneMoves
  <2> QED  BY <2>1, <2>b, <2>8, <2>9
<1> QED  BY <1>4, <1>5

LEMMA CallClose ==
  ASSUME CallInv, NEW p \in Process, \/ \E fd \in FD : Close(p, fd)
                                     \/ ExitCloses(p)
  PROVE  CallInv'
<1>1. CASE \E fd \in FD : Close(p, fd)
  BY <1>1, CallCloseFd DEF Close, Running
<1>2. CASE ExitCloses(p)
  BY <1>2, CallCloseFd, LeastOpen DEF ExitCloses
<1> QED  BY <1>1, <1>2

(* pipe()                                                                  *)
LEMMA TwoFreeFds ==
  ASSUME NEW p, Cardinality(FreeFds(p)) >= 2
  PROVE  /\ Least(FreeFds(p)) \in FreeFds(p) /\ FreeFds(p) \subseteq FD
         /\ Least(FreeFds(p) \ {Least(FreeFds(p))}) \in FreeFds(p) \ {Least(FreeFds(p))}
<1> DEFINE fd0 == Least(FreeFds(p))
<1>1. FreeFds(p) \in SUBSET FD /\ IsFiniteSet(FD)
  BY FdFinite DEF FreeFds
<1>2. IsFiniteSet(FreeFds(p)) /\ FreeFds(p) # {}
  BY <1>1, FS_Subset, FS_EmptySet
<1>3. fd0 \in FreeFds(p)
  BY <1>1, <1>2, LeastIn, ConstFacts
<1>4. Cardinality(FreeFds(p) \ {fd0}) = Cardinality(FreeFds(p)) - 1
  BY <1>2, <1>3, FS_RemoveElement
<1>5. Cardinality(FreeFds(p)) \in Nat /\ Cardinality({}) = 0
  BY <1>2, FS_EmptySet, FS_CardinalityType
<1>6. Cardinality(FreeFds(p) \ {fd0}) # 0
  BY ONLY Cardinality(FreeFds(p)) >= 2, <1>4, <1>5
<1>7. FreeFds(p) \ {fd0} # {}
  BY ONLY <1>5, <1>6
<1>8. FreeFds(p) \ {fd0} \in SUBSET Nat
  BY <1>1, ConstFacts
<1> QED  BY <1>1, <1>3, <1>7, <1>8, LeastIn

(* The files of a new pipe                                                 *)
LEMMA PipeallocFiles ==
  ASSUME CallInv, NEW rf \in File, NEW wf \in File, Pipealloc(rf, wf)
  PROVE  ftable' \in [File -> FileEntry] /\ \A f \in File : FileShape(f)'
<1>1. PICK q \in Pipe : ftable' = [ftable EXCEPT ![rf] = NewFile("pipe", q, FALSE),
                                               ![wf] = NewFile("pipe", q, TRUE)]
  BY DEF Pipealloc
<1> DEFINE x == NewFile("pipe", q, FALSE)
           y == NewFile("pipe", q, TRUE)
<1>2. /\ x \in FileEntry /\ x.ref = 1 /\ x.type = "pipe" /\ x.obj = q
      /\ y \in FileEntry /\ y.ref = 1 /\ y.type = "pipe" /\ y.obj = q
  BY DEF NewFile, FileEntry
<1>3. ftable' = [ftable EXCEPT ![rf] = x, ![wf] = y]
  BY <1>1
<1> HIDE DEF x, y
<1> QED  BY <1>2, <1>3 DEF CallInv, Kinds, FileShape

(* A step of pipe() up to its end or its cleanup                           *)
PipeStart(p) ==
  PipeFirstFile(p) \/ PipeNoFile(p) \/ PipeNoPage(p) \/ PipeMade(p) \/ PipeNoFds(p)

LEMMA CallPipeStart == ASSUME CallInv, NEW p \in Process, PipeStart(p) PROVE CallInv'
<1>1. /\ UNCHANGED <<ip, other, name, locked, inum, iref, copy, request, writing, exiting>>
      /\ pc \in [Process -> Label] /\ pfile \in [Half -> File \cup {None}]
      /\ ofile \in [Process -> [FD -> File \cup {None}]] /\ ftable \in [File -> FileEntry]
      /\ pc[p] \in {"user", "pipealloc"} /\ p \notin exiting
      /\ <<p, FALSE>> \in Half /\ <<p, TRUE>> \in Half
  BY DEF PipeStart, PipeFirstFile, PipeNoFile, PipeNoPage, PipeMade, PipeNoFds, Pipealloc,
         CreatePipe, Move, Running, callVars, pipeVars, inodeVars, icacheVars, argVars,
         contentVars, CallInv, Kinds, Shape, Half
<1>2. \A q \in Process, b \in BOOLEAN : <<q, b>> \in Half
  BY DEF Half
<1> SUFFICES /\ ofile' \in [Process -> [FD -> File \cup {None}]]
             /\ ftable' \in [File -> FileEntry] /\ \A f \in File : FileShape(f)'
             /\ \A q \in Process \ {p} : ofile'[q] = ofile[q]
             /\ \E to \in {"user", "pipealloc", "pipefail"} : pc' = [pc EXCEPT ![p] = to]
             /\ \E b \in BOOLEAN, f \in File \cup {None} :
                  pfile' = [pfile EXCEPT ![<<p, b>>] = f]
             /\ \/ pc'[p] = "pipealloc" /\ Rf(p)' # None /\ Wf(p)' = None
                \/ pc'[p] = "user" /\ Rf(p)' = None /\ Wf(p)' = None
                \/ pc'[p] = "pipefail" /\ Wf(p)' # None
  <2>a. pfile' \in [Half -> File \cup {None}]
    BY <1>1
  <2>b. pc' \in [Process -> Label]
    BY <1>1 DEF Label
  <2>1. Kinds'
    BY <1>1, <2>a, <2>b DEF CallInv, Kinds
  <2>2. \A q \in Process \ {p} : SameFor(q)
    BY <1>1, <1>2 DEF SameFor, Rf, Wf
  <2>3. Shape(p)'
    BY <1>1 DEF CallInv, Shape, PipeShape, Args, InodeCall, Named, InWrite
  <2>4. LocksOf(p)' /\ LocksBy(p)
    BY <1>1 DEF CallInv, LocksOf, LocksBy, Holds, HoldsRoot, HoldsInode
  <2>5. \A f \in File : FileShape(f)'
    OBVIOUS
  <2> QED  BY <2>1, <2>2, <2>3, <2>4, <2>5, OneMoves
<1>3. /\ pc[p] = "user" => Rf(p) = None /\ Wf(p) = None
      /\ pc[p] = "pipealloc" => Rf(p) \in File /\ Wf(p) = None
  BY <1>1 DEF CallInv, Shape, PipeShape, Rf
<1>4. FreeFiles # {} => Least(FreeFiles) \in File /\ Least(FreeFiles) # None
  BY LeastFile, ConstFacts
<1>5. CASE PipeFirstFile(p) \/ PipeNoPage(p)
  <2> DEFINE x == NewFile("none", None, FALSE)
             f == Least(FreeFiles)
  <2>1. /\ f \in File /\ f # None /\ ofile' = ofile /\ ftable' = [ftable EXCEPT ![f] = x]
        /\ \/ /\ pc[p] = "user" /\ pc' = [pc EXCEPT ![p] = "pipealloc"]
              /\ pfile' = [pfile EXCEPT ![<<p, FALSE>>] = f]
           \/ /\ pc[p] = "pipealloc" /\ pc' = [pc EXCEPT ![p] = "pipefail"]
              /\ pfile' = [pfile EXCEPT ![<<p, TRUE>>] = f]
    BY <1>4, <1>5 DEF PipeFirstFile, PipeNoPage, Running, Move
  <2>2. x \in FileEntry /\ x.type = "none" /\ x.obj = None
    BY DEF NewFile, FileEntry
  <2> HIDE DEF x, f
  <2>3. ftable' \in [File -> FileEntry] /\ \A g \in File : FileShape(g)'
    BY <2>1, <2>2, FileSet
  <2> QED  BY <1>1, <1>3, <2>1, <2>3 DEF Rf, Wf
<1>6. CASE PipeNoFile(p)
  <2>1. /\ pc[p] = "pipealloc" /\ pc' = [pc EXCEPT ![p] = "user"] /\ ofile' = ofile
        /\ ftable' = [ftable EXCEPT ![Rf(p)] = NoFile]
        /\ pfile' = [pfile EXCEPT ![<<p, FALSE>>] = None]
    BY <1>6 DEF PipeNoFile, Move, Rf
  <2>2. NoFile \in FileEntry /\ NoFile.type = "none" /\ NoFile.obj = None
    BY DEF NoFile, FileEntry
  <2>3. ftable' \in [File -> FileEntry] /\ \A f \in File : FileShape(f)'
    BY <1>3, <2>1, <2>2, FileSet
  <2> QED  BY <1>1, <1>3, <2>1, <2>3 DEF Rf, Wf
<1>7. CASE PipeNoFds(p)
  <2>1. /\ pc[p] = "pipealloc" /\ pc' = [pc EXCEPT ![p] = "pipefail"] /\ ofile' = ofile
        /\ Pipealloc(Rf(p), Least(FreeFiles)) /\ FreeFiles # {}
        /\ pfile' = [pfile EXCEPT ![<<p, TRUE>>] = Least(FreeFiles)]
    BY <1>7 DEF PipeNoFds, Move, Rf
  <2>2. ftable' \in [File -> FileEntry] /\ \A f \in File : FileShape(f)'
    BY <1>3, <1>4, <2>1, PipeallocFiles
  <2> QED  BY <1>1, <1>4, <2>1, <2>2 DEF Rf, Wf
<1>8. CASE PipeMade(p)
  <2> DEFINE rf == Rf(p)
             wf == Least(FreeFiles)
             fd0 == Least(FreeFds(p))
             fd1 == Least(FreeFds(p) \ {fd0})
  <2>1. /\ pc[p] = "pipealloc" /\ pc' = [pc EXCEPT ![p] = "user"]
        /\ FreeFiles # {} /\ Cardinality(FreeFds(p)) >= 2 /\ Pipealloc(rf, wf)
        /\ ofile' = [ofile EXCEPT ![p][fd0] = rf, ![p][fd1] = wf]
        /\ pfile' = [pfile EXCEPT ![<<p, FALSE>>] = None]
    BY <1>8 DEF PipeMade, Move, Rf
  <2>2. rf \in File /\ wf \in File /\ fd0 \in FD /\ fd1 \in FD
    BY <1>3, <1>4, <2>1, TwoFreeFds
  <2>3. ftable' \in [File -> FileEntry] /\ \A f \in File : FileShape(f)'
    BY <2>1, <2>2, PipeallocFiles
  <2> HIDE DEF rf, wf, fd0, fd1
  <2>4. ofile' \in [Process -> [FD -> File \cup {None}]]
        /\ \A x \in Process \ {p} : ofile'[x] = ofile[x]
    BY <1>1, <2>1, <2>2
  <2> QED  BY <1>1, <1>3, <2>1, <2>3, <2>4 DEF Rf, Wf
<1> QED  BY <1>5, <1>6, <1>7, <1>8 DEF PipeStart

(* Which file the cleanup closes next, and where it goes on                *)
LEMMA PipeClosesIs ==
  ASSUME CallInv, HeldFiles, NEW p \in Process, PipeCloses(p)
  PROVE  \E second \in BOOLEAN : \E f \in File :
           /\ f = pfile[<<p, second>>] /\ ftable[f].ref = 1
           /\ pc[p] = "pipefail" /\ p \notin exiting
           /\ IF second THEN Rf(p) = None ELSE Wf(p) # None
           /\ pfile' = [pfile EXCEPT ![<<p, second>>] = None]
           /\ ftable' = [ftable EXCEPT ![f] = NoFile]
           /\ \/ /\ ftable[f].type = "none" /\ UNCHANGED request
                 /\ pc' = [pc EXCEPT ![p] = IF second THEN "user" ELSE "pipefail"]
              \/ /\ ftable[f].type = "pipe"
                 /\ request' = [request EXCEPT ![p] =
                      [pipe |-> ftable[f].obj, writable |-> ftable[f].writable]]
                 /\ pc' = [pc EXCEPT ![p] = "pipeclose"]
           /\ UNCHANGED <<exiting, killed, pipeState, ip, diskVars, icacheVars, other, name,
                          raced, consoleVars, ofile, contentVars, workload>>
<1> DEFINE second == Rf(p) = None
           f == pfile[<<p, second>>]
           to == IF second THEN "user" ELSE "pipefail"
<1>1. /\ pc[p] = "pipefail" /\ second \in BOOLEAN
      /\ pfile' = [pfile EXCEPT ![<<p, second>>] = None] /\ Fileclose(p, f, to)
      /\ UNCHANGED <<exiting, killed, pipeState, diskVars, icacheVars, other, name, raced,
                     consoleVars, ofile, contentVars, workload>>
  BY DEF PipeCloses, Rf
<1>2. <<p, second>> \in Half /\ f # None /\ Wf(p) # None /\ p \notin exiting
  BY <1>1 DEF Half, CallInv, Shape, PipeShape, Rf, Wf
<1>3. f \in File /\ ftable[f].ref = 1 /\ ftable[f].type \in {"none", "pipe"}
  BY <1>2 DEF HeldFiles, HeldFile, CallInv, Kinds
<1>4. second => Rf(p) = None
  OBVIOUS
<1> HIDE DEF second, f
<1>5. /\ ftable' = [ftable EXCEPT ![f] = NoFile] /\ UNCHANGED ip
      /\ \/ /\ ftable[f].type = "none" /\ UNCHANGED request
            /\ pc' = [pc EXCEPT ![p] = to]
         \/ /\ ftable[f].type = "pipe"
            /\ request' = [request EXCEPT ![p] =
                 [pipe |-> ftable[f].obj, writable |-> ftable[f].writable]]
            /\ pc' = [pc EXCEPT ![p] = "pipeclose"]
  BY <1>1, <1>3 DEF Fileclose
<1>6. f = pfile[<<p, second>>]
  BY DEF f
<1> QED  BY <1>1, <1>2, <1>3, <1>4, <1>5, <1>6

LEMMA CallPipeCloses ==
  ASSUME CallInv, HeldFiles, NEW p \in Process, PipeCloses(p) PROVE CallInv'
<1>1. PICK second \in BOOLEAN : \E f \in File :
        /\ f = pfile[<<p, second>>] /\ ftable[f].ref = 1
        /\ pc[p] = "pipefail" /\ p \notin exiting
        /\ IF second THEN Rf(p) = None ELSE Wf(p) # None
        /\ pfile' = [pfile EXCEPT ![<<p, second>>] = None]
        /\ ftable' = [ftable EXCEPT ![f] = NoFile]
        /\ \/ /\ ftable[f].type = "none" /\ UNCHANGED request
              /\ pc' = [pc EXCEPT ![p] = IF second THEN "user" ELSE "pipefail"]
           \/ /\ ftable[f].type = "pipe"
              /\ request' = [request EXCEPT ![p] =
                   [pipe |-> ftable[f].obj, writable |-> ftable[f].writable]]
              /\ pc' = [pc EXCEPT ![p] = "pipeclose"]
        /\ UNCHANGED <<exiting, killed, pipeState, ip, diskVars, icacheVars, other, name,
                       raced, consoleVars, ofile, contentVars, workload>>
  BY PipeClosesIs
<1>2. PICK f \in File :
        /\ pc[p] = "pipefail" /\ p \notin exiting
        /\ IF second THEN Rf(p) = None ELSE Wf(p) # None
        /\ pfile' = [pfile EXCEPT ![<<p, second>>] = None]
        /\ ftable' = [ftable EXCEPT ![f] = NoFile]
        /\ \/ /\ UNCHANGED request
              /\ pc' = [pc EXCEPT ![p] = IF second THEN "user" ELSE "pipefail"]
           \/ /\ ftable[f].type = "pipe"
              /\ request' = [request EXCEPT ![p] =
                   [pipe |-> ftable[f].obj, writable |-> ftable[f].writable]]
              /\ pc' = [pc EXCEPT ![p] = "pipeclose"]
        /\ UNCHANGED <<exiting, ip, icacheVars, other, name, ofile, contentVars>>
  BY <1>1
<1>3. /\ UNCHANGED <<locked, inum, iref, copy, writing>>
      /\ pc \in [Process -> Label] /\ pfile \in [Half -> File \cup {None}]
      /\ ftable \in [File -> FileEntry] /\ DOMAIN request = Process
      /\ <<p, FALSE>> \in Half /\ <<p, TRUE>> \in Half
      /\ \A q \in Process, b \in BOOLEAN : <<q, b>> \in Half
  BY <1>2 DEF CallInv, Kinds, icacheVars, contentVars, Half
<1>4. NoFile \in FileEntry /\ NoFile.type = "none" /\ NoFile.obj = None
  BY DEF NoFile, FileEntry
<1>5. ftable' \in [File -> FileEntry] /\ \A g \in File : FileShape(g)'
  BY <1>2, <1>4, FileSet
<1>6. ftable[f].type = "pipe" => ftable[f].obj \in Pipe /\ ftable[f].writable \in BOOLEAN
  BY <1>3 DEF CallInv, FileShape, FileEntry
<1>7. \A q \in Process \ {p} : SameFor(q)
  BY <1>2, <1>3 DEF SameFor, Rf, Wf
<1>8. Kinds'
  BY <1>2, <1>3, <1>5 DEF CallInv, Kinds, Label
<1>9. PipeShape(p)'
  <2>1. /\ second => Rf(p)' = None /\ Wf(p)' = None
        /\ ~second => Rf(p)' = None /\ Wf(p)' # None
    BY <1>2, <1>3 DEF Rf, Wf
  <2> QED  BY <1>2, <1>3, <2>1 DEF PipeShape
<1>10. pc'[p] \in {"user", "pipefail", "pipeclose"} /\ pc[p] = "pipefail"
  BY <1>2, <1>3
<1>11. Shape(p)'
  <2>1. pc'[p] = "pipeclose" => request'[p].pipe \in Pipe /\ request'[p].writable \in BOOLEAN
    BY <1>2, <1>3, <1>6
  <2> QED  BY <1>2, <1>9, <1>10, <2>1 DEF CallInv, Shape, Args, InodeCall, Named, InWrite
<1>12. LocksOf(p)' /\ LocksBy(p)
  BY <1>2, <1>3, <1>10 DEF CallInv, LocksOf, LocksBy, Holds, HoldsRoot, HoldsInode
<1> QED  BY <1>5, <1>7, <1>8, <1>11, <1>12, OneMoves

LEMMA CallMakePipe ==
  ASSUME CallInv, HeldFiles, NEW p \in Process, MakePipe(p) PROVE CallInv'
BY CallPipeStart, CallPipeCloses DEF MakePipe, PipeStart

LEMMA CallReadWrite ==
  ASSUME CallInv, NEW p \in Process, NEW fd \in FD,
         \/ \E n \in Counts : Read(p, fd, n)
         \/ \E n \in ConsoleCounts : ReadConsole(p, fd, n)
         \/ \E s \in Writes : Write(p, fd, s)
         \/ \E n \in FileCounts : ReadFile(p, fd, n)
  PROVE  CallInv'
<1>1. /\ UNCHANGED <<ip, other, name, pfile, ofile, ftable, locked, inum, iref, copy, writing>>
      /\ exiting' = exiting /\ pc[p] = "user"
      /\ \E to \in {"user", "read", "write", "cread"} :
           pc' = [pc EXCEPT ![p] = to] \/ (to = "user" /\ pc' = pc)
  BY DEF Read, Write, PipeCall, ReadConsole, ReadFile, Fileread, Move, Running, inodeVars,
         icacheVars, argVars, fileVars, contentVars, callVars
<1>2. DOMAIN request' = Process /\ \A x \in Process \ {p} : request'[x] = request[x]
  BY DEF Read, Write, ReadConsole, ReadFile, pipeVars, CallInv, Kinds
<1>3. PICK to \in {"user", "read", "write", "cread"} :
           pc' = [pc EXCEPT ![p] = to] \/ (to = "user" /\ pc' = pc)
  BY <1>1
<1>4. pc' = [pc EXCEPT ![p] = to] /\ p \notin exiting /\ Wf(p) = None
  BY <1>1, <1>3 DEF CallInv, Kinds, Shape, PipeShape
<1>5. /\ to \in Label /\ to \notin Busy \cup {"filewrite", "pipeclose", "dead"}
      /\ pc[p] \notin Busy /\ (p \in exiting <=> to = "exiting")
      /\ pc[p] # "pipefail" /\ (Wf(p) # None <=> to = "pipefail")
  BY <1>1, <1>4 DEF Label, Busy, InodeCall
<1>6. pc \in [Process -> Label]
  BY DEF CallInv, Kinds
<1>7. \A q \in Process : pc[q] = pc[q] \/ (pc[q] \in Sleeping /\ pc[q] \in Woke)
  OBVIOUS
<1> QED  BY ONLY CallInv, p \in Process, <1>1, <1>2, <1>4, <1>5, <1>6, <1>7, WakingMoves

LEMMA CallWriteFile ==
  ASSUME CallInv, NEW p \in Process, NEW fd \in FD, NEW n, WriteFile(p, fd, n) PROVE CallInv'
<1> DEFINE f == ofile[p][fd]
           s == ftable[f].obj
           x == [NotWriting EXCEPT !.file = f, !.slot = s, !.n = n]
<1>1. /\ f \in File /\ s \in Slot
  BY DEF WriteFile, PlainFile, CallInv, Kinds, FileShape
<1>2. /\ x.file = f /\ x.slot = s /\ DOMAIN x = DOMAIN NotWriting
  BY DEF NotWriting
<1> HIDE DEF x
<1>3. /\ pc[p] = "user" /\ pc' = [pc EXCEPT ![p] = "filewrite"]
      /\ writing' = [writing EXCEPT ![p] = x]
      /\ UNCHANGED <<ip, other, name, pfile, ofile, ftable, inum, iref, copy, request, exiting,
                     locked>>
  BY DEF WriteFile, FilewriteCall, Move, inodeVars, icacheVars, argVars, pipeVars, x
<1> HIDE DEF f, s
<1>4. DOMAIN writing' = Process /\ \A q \in Process \ {p} : writing'[q] = writing[q]
  BY <1>3 DEF CallInv, Kinds
<1>5. WSlot(p)' \in Slot /\ WFile(p)' \in File /\ DOMAIN writing'[p] = DOMAIN NotWriting
  BY <1>1, <1>2, <1>3 DEF WSlot, WFile, CallInv, Kinds
<1>6. LocksOf(p)' /\ LocksBy(p)
  BY <1>3 DEF CallInv, Kinds, LocksOf, LocksBy, Holds, HoldsRoot, HoldsInode
<1>7. locked' \in [Slot \cup {Root} -> Process \cup {None}]
  BY <1>3 DEF CallInv, Kinds
<1> QED  BY <1>3, <1>4, <1>5, <1>6, <1>7, WriteMoves

LEMMA CallOpenFile == ASSUME CallInv, NEW p \in Process, OpenFile(p) PROVE CallInv'
<1> DEFINE f == Least(FreeFiles)
           fd == Least(FreeFds(p))
           x == NewFile("inode", ip[p], TRUE)
<1>1. /\ pc[p] = "opened" /\ pc' = [pc EXCEPT ![p] = "user"]
      /\ ftable' = [ftable EXCEPT ![f] = x] /\ ofile' = [ofile EXCEPT ![p][fd] = f]
      /\ locked' = [locked EXCEPT ![ip[p]] = None] /\ ip' = [ip EXCEPT ![p] = None]
      /\ UNCHANGED <<exiting, request, inum, iref, copy, other, name, pfile, writing>>
  BY DEF OpenFile, Move, pipeVars
<1>2. ip[p] \in Slot /\ p \notin exiting /\ locked[ip[p]] = p
  BY <1>1, Has DEF CallInv, LocksOf, Holds, HoldsInode, InodeCall
<1>3. f \in File /\ fd \in FD
  BY LeastFile, LeastFd DEF OpenFile
<1>4. x \in FileEntry /\ x.ref = 1 /\ x.type = "inode" /\ x.obj = ip[p]
  BY <1>2 DEF NewFile, FileEntry
<1> HIDE DEF f, fd, x
<1>5. ftable' \in [File -> FileEntry] /\ \A h \in File : FileShape(h)'
  <2>1. ftable' = [ftable EXCEPT ![f] = x]
    BY <1>1
  <2>2. x \in FileEntry /\ f \in File
    BY <1>3, <1>4
  <2>3. x.ref = 0 => x.type = "none"
    BY <1>4
  <2>4. x.type = "pipe" => x.obj \in Pipe
    BY <1>4
  <2>5. x.type = "inode" => x.obj \in Slot
    BY <1>2, <1>4
  <2>6. x.type \in {"none", "device"} => x.obj = None
    BY <1>4
  <2> QED  BY ONLY CallInv, <2>1, <2>2, <2>3, <2>4, <2>5, <2>6, FileSet
<1>6. /\ ofile' \in [Process -> [FD -> File \cup {None}]]
      /\ \A q \in Process \ {p} : ofile'[q] = ofile[q]
  BY <1>1, <1>3 DEF CallInv, Kinds
<1>7. /\ pc' \in [Process -> Label] /\ ip' \in [Process -> Slot \cup {None}]
      /\ locked' \in [Slot \cup {Root} -> Process \cup {None}]
  BY <1>1 DEF CallInv, Kinds, Label
<1>8. Kinds'
  BY <1>1, <1>5, <1>6, <1>7 DEF CallInv, Kinds
<1>9. \A q \in Process \ {p} : SameFor(q)
  BY <1>1, <1>6, <1>7 DEF SameFor, Rf, Wf
<1>10. pc'[p] = "user" /\ ip'[p] = None
  BY <1>1 DEF CallInv, Kinds
<1>11. Shape(p)'
  BY <1>1, <1>2, <1>10 DEF CallInv, Shape, PipeShape, Rf, Wf, Args, InodeCall, Named, InWrite
<1>12. LocksOf(p)' /\ LocksBy(p)
  BY <1>1, <1>2, <1>10, ConstFacts
  DEF CallInv, Kinds, LocksOf, LocksBy, Holds, HoldsRoot, HoldsInode
<1> QED  BY <1>5, <1>8, <1>9, <1>11, <1>12, OneMoves

LEMMA CallOpenFails == ASSUME CallInv, NEW p \in Process, OpenFails(p) PROVE CallInv'
<1>1. /\ pc[p] = "opened" /\ pc' = [pc EXCEPT ![p] = "put"]
      /\ locked' = [locked EXCEPT ![ip[p]] = None]
      /\ UNCHANGED <<inum, iref, copy, ip, other, name>> /\ FilesSame
  BY DEF OpenFails, Move, argVars, pipeVars, fileVars, contentVars, FilesSame
<1>2. ip[p] \in Slot /\ p \notin exiting /\ locked[ip[p]] = p
  BY <1>1, Has DEF CallInv, LocksOf, Holds, HoldsInode, InodeCall
<1>3. Kinds'
  BY <1>1, <1>2 DEF CallInv, Kinds, FilesSame, Label
<1>4. pc'[p] = "put"
  BY <1>1 DEF CallInv, Kinds
<1>5. Args(p)'
  BY <1>1, <1>4 DEF CallInv, Shape, Args, InodeCall, Named
<1>6. LocksOf(p)' /\ LocksBy(p)
  BY <1>1, <1>2, <1>4, ConstFacts
  DEF CallInv, Kinds, LocksOf, LocksBy, Holds, HoldsRoot, HoldsInode
<1>7. \A q \in Process \ {p} : pc'[q] = pc[q]
  BY <1>1 DEF CallInv, Kinds
<1> QED  BY <1>1, <1>2, <1>3, <1>4, <1>5, <1>6, <1>7, InodeMoves DEF InWrite

LEMMA CallFork ==
  ASSUME CallInv, NEW p \in Process, NEW child \in Process, Fork(p, child) PROVE CallInv'
<1>1. /\ pc[child] = "dead" /\ pc' = [pc EXCEPT ![child] = "user"]
      /\ ofile' = [ofile EXCEPT ![child] = ofile[p]] /\ ftable' = Shared(p)
      /\ UNCHANGED <<ip, other, name, pfile, locked, inum, iref, copy, request, writing, exiting>>
  BY DEF Fork, Running, pipeVars, inodeVars, icacheVars, argVars, contentVars
<1>2. ofile' \in [Process -> [FD -> File \cup {None}]]
      /\ \A q \in Process \ {child} : ofile'[q] = ofile[q]
  BY <1>1 DEF CallInv, Kinds
<1>3. ASSUME NEW f \in File
      PROVE  /\ ftable'[f] \in FileEntry /\ FileShape(f)'
  <2> DEFINE n == Cardinality({fd \in FD : ofile[p][fd] = f})
             x == [ftable[f] EXCEPT !.ref = @ + n]
  <2>1. n \in Nat
    BY FdCount
  <2>2. ftable'[f] = x
    BY <1>1 DEF Shared
  <2> HIDE DEF n
  <2>3. ftable[f] \in FileEntry /\ FileShape(f)
    BY DEF CallInv, Kinds
  <2>4. /\ x \in FileEntry /\ x.type = ftable[f].type /\ x.obj = ftable[f].obj
        /\ x.ref = 0 => ftable[f].ref = 0
    BY <2>1, <2>3 DEF FileEntry
  <2> HIDE DEF x
  <2> QED  BY <2>2, <2>3, <2>4 DEF FileShape
<1>4. ftable' \in [File -> FileEntry]
  BY <1>1, <1>3 DEF Shared
<1>5. child \notin exiting
  BY <1>1 DEF CallInv, Shape
<1>6. DOMAIN request' = Process /\ DOMAIN writing' = Process /\ exiting' \subseteq Process
  BY <1>1 DEF CallInv, Kinds
<1> QED  BY <1>1, <1>2, <1>3, <1>4, <1>5, <1>6, QuietMoves DEF Label, Busy, InodeCall

LEMMA CallExit ==
  ASSUME CallInv, NEW p \in Process, Exit(p) \/ ExitEnds(p) PROVE CallInv'
<1>1. /\ UNCHANGED <<ip, other, name, pfile, ofile, ftable, locked, inum, iref, copy, request,
                     writing>>
  BY DEF Exit, ExitEnds, pipeVars, inodeVars, icacheVars, argVars, fileVars, contentVars
<1>2. /\ ofile' \in [Process -> [FD -> File \cup {None}]] /\ ftable' \in [File -> FileEntry]
      /\ DOMAIN request' = Process /\ DOMAIN writing' = Process
      /\ \A f \in File : FileShape(f)'
  BY <1>1 DEF CallInv, Kinds, FileShape
<1>3. exiting' \subseteq Process /\ \A q \in Process \ {p} : q \in exiting' <=> q \in exiting
  BY DEF Exit, ExitEnds, CallInv, Kinds
<1>4. CASE Exit(p)
  <2>1. pc[p] = "user" /\ pc' = [pc EXCEPT ![p] = "exiting"] /\ p \in exiting'
    BY <1>4 DEF Exit, Move
  <2> QED  BY <1>1, <1>2, <1>3, <2>1, QuietMoves DEF Label, Busy, InodeCall
<1>5. CASE ExitEnds(p)
  <2>1. /\ pc[p] = "exiting" /\ pc' = [pc EXCEPT ![p] = "dead"] /\ p \notin exiting'
        /\ OpenFds(p) = {}
    BY <1>5 DEF ExitEnds, Move
  <2>2. \A fd \in FD : ofile[p][fd] = None
    BY <2>1 DEF OpenFds, FreeFds
  <2>3. ofile'[p] = NoFd
    BY <1>1, <2>2 DEF CallInv, Kinds, NoFd
  <2> QED  BY <1>1, <1>2, <1>3, <2>1, <2>3, QuietMoves DEF Label, Busy, InodeCall
<1> QED  BY <1>4, <1>5

LEMMA CallKill ==
  ASSUME CallInv, NEW k \in Process, NEW p \in Process, Kill(k, p) PROVE CallInv'
<1>1. /\ UNCHANGED <<ip, other, name, pfile, ofile, ftable, locked, inum, iref, copy, request,
                     writing>>
      /\ exiting' = exiting
      /\ pc' = [pc EXCEPT ![p] = IF pc[p] \in DOMAIN Awake THEN Awake[pc[p]] ELSE pc[p]]
      /\ pc[p] \in Sleeping \cup Woke
  BY DEF Kill, pipeVars, inodeVars, icacheVars, argVars, fileVars, contentVars, InPipeCall,
         InConsoleRead, Sleeping, Woke
<1>2. DOMAIN Awake = Sleeping /\ \A l \in Sleeping : Awake[l] \in Woke
  BY DEF Awake, Sleeping, Woke
<1>3. PICK to \in Woke : pc' = [pc EXCEPT ![p] = to]
  BY <1>1, <1>2 DEF Woke
<1>4. p \notin exiting /\ Wf(p) = None
  BY <1>1 DEF CallInv, Shape, PipeShape, Sleeping, Woke
<1>5. /\ to \in Label /\ to \notin Busy \cup {"filewrite", "pipeclose", "dead"}
      /\ pc[p] \notin Busy /\ (p \in exiting <=> to = "exiting")
      /\ pc[p] # "pipefail" /\ (Wf(p) # None <=> to = "pipefail")
  BY <1>1, <1>4 DEF Label, Busy, InodeCall, Woke, Sleeping
<1>6. pc \in [Process -> Label] /\ DOMAIN request' = Process
  BY <1>1 DEF CallInv, Kinds
<1>7. \A q \in Process : pc[q] = pc[q] \/ (pc[q] \in Sleeping /\ pc[q] \in Woke)
  OBVIOUS
<1>8. \A q \in Process \ {p} : request'[q] = request[q]
  BY <1>1
<1> QED  BY ONLY CallInv, p \in Process, <1>1, <1>3, <1>5, <1>6, <1>7, <1>8, WakingMoves

LEMMA CallInode == ASSUME CallInv, NEW p \in Process, OnInode(p) PROVE CallInv'
<1>0. UNCHANGED <<ftable, ofile, pfile, writing, request>>
  BY DEF OnInode, pipeVars
<1>1. CASE InodeStep(p)
  <2>1. FilesSame
    BY <1>0, <1>1 DEF FilesSame, InodeStep, OpenLock, CreateLink, CreatePutDir, UnlinkErase,
       UnlinkDrop, LinkCount, LinkName, LinkTaken, LinkPutOther, LinkBack, IputFrees, IputKeeps,
       IputTruncates, IputDrops
  <2> QED  BY <1>1, <2>1, CallOpenLock, CallCreateLink, CallCreatePutDir, CallUnlinkErase,
         CallUnlinkDrop, CallLinkCount, CallLinkName, CallLinkTaken, CallLinkPutOther,
         CallLinkBack, CallIputFrees, CallIputKeeps, CallIputTruncates, CallIputDrops
         DEF InodeStep
<1>2. CASE \E n \in Name : OpenLookup(p, n) \/ CreateIalloc(p, n) \/ UnlinkLookup(p, n)
  <2>1. FilesSame
    BY <1>0, <1>2 DEF FilesSame, OpenLookup, CreateIalloc, UnlinkLookup, Lookup
  <2> QED  BY <1>2, <2>1, CallOpenLookup, CallCreateIalloc, CallUnlinkLookup
<1>3. CASE \E o, n \in Name : LinkLookup(p, o, n)
  <2>1. FilesSame
    BY <1>0, <1>3 DEF FilesSame, LinkLookup, Lookup
  <2> QED  BY <1>3, <2>1, CallLinkLookup
<1> QED  BY <1>1, <1>2, <1>3 DEF OnInode, PathCall


-----------------------------------------------------------------------------
(* Where calls are: the start, every step                                  *)

LEMMA ProcessCount ==
  /\ Cardinality(Process) \in Nat /\ Cardinality(Process) > 1 /\ First \in Process
BY ProcessAssumption, FilesAssumption, FS_CardinalityType DEF First

(* The first files                                                         *)
LEMMA FirstFiles ==
  ASSUME NEW n \in Nat
  PROVE  /\ InitialFiles(n) \in [File -> FileEntry]
         /\ InitialFiles(n)[Console].ref = n + 1 /\ InitialFiles(n)[Console].type = "device"
         /\ InitialFiles(n)[Console].obj = None
         /\ \A f \in File \ {Console} : InitialFiles(n)[f] = NoFile
<1> DEFINE x == [NewFile("device", None, TRUE) EXCEPT !.ref = n + 1]
<1>1. x \in FileEntry /\ x.ref = n + 1 /\ x.type = "device" /\ x.obj = None
  <2>1. NewFile("device", None, TRUE) =
          [ref |-> 1, type |-> "device", obj |-> None, writable |-> TRUE]
    BY DEF NewFile
  <2>2. x = [[ref |-> 1, type |-> "device", obj |-> None, writable |-> TRUE]
               EXCEPT !.ref = n + 1]
    BY <2>1
  <2> HIDE DEF x
  <2>3. x = [ref |-> n + 1, type |-> "device", obj |-> None, writable |-> TRUE]
    BY <2>2
  <2>4. n + 1 \in Nat
    OBVIOUS
  <2> QED  BY <2>3, <2>4 DEF FileEntry
<1>2. NoFile \in FileEntry
  BY DEF NoFile, FileEntry
<1>3. InitialFiles(n) = [f \in File |-> IF f = Console THEN x ELSE NoFile]
  BY DEF InitialFiles
<1> HIDE DEF x
<1> QED  BY <1>1, <1>2, <1>3, ConstFacts

LEMMA SomeInodes ==
  ASSUME NEW n \in Nat, NEW i \in {1, 2}, NEW x,
         x = [NewFile("inode", i, TRUE) EXCEPT !.ref = n]
  PROVE  /\ x \in FileEntry /\ x.ref = n /\ x.type = "inode"
         /\ x.obj = i /\ x.obj \in Slot
<1>1. x = [ref |-> n, type |-> "inode", obj |-> i, writable |-> TRUE]
  BY DEF NewFile
<1> QED  BY ONLY <1>1, ConstFacts, n \in Nat, i \in {1, 2} DEF FileEntry

LEMMA CallInit == Init => CallInv
<1> SUFFICES ASSUME Init PROVE CallInv
  OBVIOUS
<1>1. /\ exiting = {} /\ pfile = [x \in Half |-> None] /\ request = [p \in Process |-> NoRequest]
      /\ writing = [p \in Process |-> NotWriting]
      /\ locked = [s \in Slot \cup {Root} |-> None]
      /\ ip = [p \in Process |-> None] /\ other = [p \in Process |-> None]
      /\ name = [p \in Process |-> None]
      /\ DOMAIN inum = Slot /\ DOMAIN iref = Slot /\ DOMAIN copy = Slot
  BY DEF Init, InitPipes, InitContents, InitInodes, Half
<1>2. /\ pc \in [Process -> {"user", "dead"}]
      /\ ofile \in [Process -> [FD -> File \cup {None}]]
      /\ \A p \in Process : pc[p] = "dead" => ofile[p] = NoFd
  <2>1. NoFd \in [FD -> File \cup {None}]
    BY DEF NoFd
  <2>2. \A v, u \in File : /\ [NoFd EXCEPT ![0] = v] \in [FD -> File \cup {None}]
                           /\ [NoFd EXCEPT ![0] = v, ![1] = u] \in [FD -> File \cup {None}]
    BY <2>1
  <2>3. CASE workload = "pipes"
    <3>1. /\ pc = [p \in Process |-> IF p = First THEN "user" ELSE "dead"]
          /\ ofile = [p \in Process |->
               IF p = First THEN [NoFd EXCEPT ![0] = Console] ELSE NoFd]
      BY <2>3 DEF Init
    <3>2. [NoFd EXCEPT ![0] = Console] \in [FD -> File \cup {None}]
      BY <2>2, ConstFacts
    <3> QED  BY <2>1, <3>1, <3>2
  <2>4. CASE workload \in {"names", "console"}
    <3>1. /\ pc = [p \in Process |-> "user"]
          /\ ofile = [p \in Process |-> [NoFd EXCEPT ![0] = Console]]
      BY <2>4 DEF Init
    <3>2. [NoFd EXCEPT ![0] = Console] \in [FD -> File \cup {None}]
      BY <2>2, ConstFacts
    <3> QED  BY <3>1, <3>2
  <2>5. CASE workload = "contents"
    <3> DEFINE a == [NoFd EXCEPT ![0] = 1]
               b == [NoFd EXCEPT ![0] = 1, ![1] = 2]
    <3>1. /\ pc = [p \in Process |-> "user"]
          /\ ofile = [p \in Process |-> IF p = First THEN a ELSE b]
      BY <2>5 DEF Init
    <3>2. a \in [FD -> File \cup {None}] /\ b \in [FD -> File \cup {None}]
      BY <2>2, ConstFacts
    <3> HIDE DEF a, b
    <3> QED  BY <3>1, <3>2
  <2> QED  BY <2>3, <2>4, <2>5 DEF Init
<1>3. ftable \in [File -> FileEntry] /\ \A f \in File : FileShape(f)
  <2>1. NoFile.ref = 0 /\ NoFile.type = "none" /\ NoFile.obj = None
    BY DEF NoFile
  <2>2. ASSUME NEW n \in Nat, ftable = InitialFiles(n)
        PROVE  ftable \in [File -> FileEntry] /\ \A f \in File : FileShape(f)
    <3>1. ftable \in [File -> FileEntry]
      BY <2>2, FirstFiles
    <3>2. FileShape(Console)
      BY <2>2, FirstFiles DEF FileShape
    <3>3. \A f \in File \ {Console} : FileShape(f)
      BY <2>1, <2>2, FirstFiles DEF FileShape
    <3> QED  BY <3>1, <3>2, <3>3
  <2>3. CASE workload = "contents"
    <3> DEFINE x == [NewFile("inode", 1, TRUE) EXCEPT !.ref = Cardinality(Process)]
               y == [NewFile("inode", 2, TRUE) EXCEPT !.ref = Cardinality(Process) - 1]
    <3>1. /\ x \in FileEntry /\ x.ref > 0 /\ x.type = "inode" /\ x.obj \in Slot
          /\ y \in FileEntry /\ y.ref > 0 /\ y.type = "inode" /\ y.obj \in Slot
      <4>1. PICK n \in Nat : n = Cardinality(Process) /\ n > 1
        BY ProcessCount
      <4>2. PICK m \in Nat : m = n - 1 /\ m > 0
        BY <4>1
      <4>3. /\ x = [NewFile("inode", 1, TRUE) EXCEPT !.ref = n]
            /\ y = [NewFile("inode", 2, TRUE) EXCEPT !.ref = m]
        BY <4>1, <4>2
      <4> HIDE DEF x, y
      <4>4. 1 \in {1, 2} /\ 2 \in {1, 2}
        OBVIOUS
      <4>5. x \in FileEntry /\ x.ref = n /\ x.type = "inode" /\ x.obj \in Slot
        BY ONLY <4>3, <4>4, SomeInodes, n \in Nat
      <4>6. y \in FileEntry /\ y.ref = m /\ y.type = "inode" /\ y.obj \in Slot
        BY ONLY <4>3, <4>4, SomeInodes, m \in Nat
      <4> QED  BY <4>1, <4>2, <4>5, <4>6
    <3>2. ftable = [InitialFiles(0) EXCEPT ![1] = x, ![2] = y]
      BY <2>3 DEF Init
    <3> HIDE DEF x, y
    <3>3. ftable \in [File -> FileEntry]
      BY <3>1, <3>2, FirstFiles
    <3>4. ASSUME NEW f \in File PROVE FileShape(f)
      <4>1. CASE f = 1 \/ f = 2
        BY <4>1, <3>1, <3>2, FirstFiles, ConstFacts DEF FileShape
      <4>2. CASE f # 1 /\ f # 2
        BY <4>2, <2>1, <3>2, FirstFiles, ConstFacts DEF FileShape
      <4> QED  BY <4>1, <4>2
    <3> QED  BY <3>3, <3>4
  <2>4. CASE workload # "contents"
    BY <2>2, <2>4, ProcessCount DEF Init
  <2> QED  BY <2>3, <2>4
<1>4. Kinds
  BY <1>1, <1>2, <1>3 DEF Kinds, Label
<1>5. \A p \in Process : Shape(p)
  BY <1>1, <1>2 DEF Shape, PipeShape, Rf, Wf, Half, Args, InodeCall, Named, InWrite
<1>6. \A p \in Process : LocksOf(p)
  BY <1>1, <1>2, ConstFacts DEF LocksOf, Holds, HoldsRoot, HoldsInode
<1> QED  BY <1>3, <1>4, <1>5, <1>6 DEF CallInv

LEMMA CallStep == CallInv /\ HeldFiles /\ [Next]_vars => CallInv'
<1> SUFFICES ASSUME CallInv, HeldFiles, [Next]_vars PROVE CallInv'
  OBVIOUS
<1>1. ASSUME NEW p \in Process, NEW fd \in FD,
             \/ Dup(p, fd) \/ Close(p, fd)
             \/ \E n \in Counts : Read(p, fd, n)
             \/ \E n \in ConsoleCounts : ReadConsole(p, fd, n)
             \/ \E s \in Writes : Write(p, fd, s)
             \/ \E n \in FileCounts : ReadFile(p, fd, n) \/ WriteFile(p, fd, n)
      PROVE  CallInv'
  BY <1>1, CallDup, CallClose, CallReadWrite, CallWriteFile
<1>2. ASSUME NEW p \in Process, OnPipe(p) \/ OnInode(p) \/ OnConsole(p) \/ OnContents(p)
      PROVE  CallInv'
  BY <1>2, CallPipeStep, CallInode, CallConsoleread, CallWriteStep
  DEF OnPipe, OnConsole, OnContents
<1>3. ASSUME NEW p \in Process, MakePipe(p) \/ OpenFile(p) \/ OpenFails(p) PROVE CallInv'
  BY <1>3, CallMakePipe, CallOpenFile, CallOpenFails
<1>4. ASSUME NEW p \in Process, Life(p) PROVE CallInv'
  BY <1>4, CallExit, CallClose, CallFork, CallKill DEF Life
<1>5. CASE UNCHANGED vars
  <2>1. UNCHANGED <<pc, exiting, ip, other, name, pfile, ofile, ftable, locked, request, writing,
                    inum, iref, copy>>
    BY <1>5 DEF vars, callVars, pipeVars, inodeVars, diskVars, icacheVars, argVars, fileVars,
                contentVars
  <2>2. Kinds' /\ \A f \in File : FileShape(f)'
    BY <2>1 DEF CallInv, Kinds, FileShape
  <2>3. \A p \in Process : SameFor(p)
    BY <2>1 DEF SameFor, Rf, Wf
  <2> QED  BY <2>1, <2>2, <2>3, Moves
<1> QED  BY <1>1, <1>2, <1>3, <1>4, <1>5, CallKeyboard DEF Next, Descriptors

-----------------------------------------------------------------------------
(***************************************************************************)
(* References                                                              *)
(***************************************************************************)

-----------------------------------------------------------------------------
(* Counting                                                                *)

LEMMA Grows ==
  ASSUME NEW A, IsFiniteSet(A), NEW x, x \notin A, NEW B, B = A \cup {x}
  PROVE  /\ Cardinality(A) \in Nat /\ Cardinality(B) \in Nat
         /\ Cardinality(B) = Cardinality(A) + 1
BY FS_AddElement, FS_CardinalityType

LEMMA Member ==
  ASSUME NEW A, IsFiniteSet(A), NEW x \in A
  PROVE  /\ Cardinality(A) \in Nat /\ Cardinality(A) > 0
         /\ \A y \in A : y # x => Cardinality(A) > 1
<1>1. Cardinality(A) \in Nat /\ Cardinality(A) # 0
  BY FS_EmptySet, FS_CardinalityType
<1>2. ASSUME NEW y \in A, y # x PROVE Cardinality(A) # 1
  BY <1>2, FS_Singleton
<1> QED  BY <1>1, <1>2

LEMMA Lone ==
  ASSUME NEW A, IsFiniteSet(A)
  PROVE  /\ Cardinality(A) \in Nat
         /\ Cardinality(A) = 0 <=> A = {}
         /\ \A x \in A : A = {x} => Cardinality(A) = 1
BY FS_EmptySet, FS_CardinalityType, FS_Singleton

(* How many arguments have the value u                                     *)
Count(T, g, u) == Cardinality({x \in T : g[x] = u})

LEMMA CountType ==
  ASSUME NEW T, IsFiniteSet(T), NEW g, NEW u
  PROVE  IsFiniteSet({x \in T : g[x] = u}) /\ Count(T, g, u) \in Nat
<1>1. {x \in T : g[x] = u} \in SUBSET T
  OBVIOUS
<1> QED  BY <1>1, FS_Subset, FS_CardinalityType DEF Count

(* Functions that differ in one place, or not as far as u is concerned     *)
LEMMA CountMore ==
  ASSUME NEW T, IsFiniteSet(T), NEW g, NEW h, NEW u, NEW t \in T, g[t] # u, h[t] = u,
         \A x \in T : x # t => (h[x] = u <=> g[x] = u)
  PROVE  /\ Count(T, h, u) = Count(T, g, u) + 1
         /\ Count(T, g, u) = Count(T, h, u) - 1
<1> DEFINE A == {x \in T : g[x] = u}
           B == {x \in T : h[x] = u}
<1>1. IsFiniteSet(A)
  <2>1. A \in SUBSET T
    OBVIOUS
  <2> QED  BY <2>1, FS_Subset
<1>2. t \notin A /\ B = A \cup {t}
  OBVIOUS
<1> HIDE DEF A, B
<1>3. Cardinality(B) = Cardinality(A) + 1 /\ Cardinality(A) \in Nat
  BY <1>1, <1>2, Grows
<1>4. Cardinality(A) = Cardinality(B) - 1
  BY <1>3
<1> QED  BY <1>3, <1>4 DEF A, B, Count

LEMMA CountSame ==
  ASSUME NEW T, NEW g, NEW h, NEW u, \A x \in T : h[x] = u <=> g[x] = u
  PROVE  Count(T, h, u) = Count(T, g, u)
BY DEF Count

(* The descriptors of a file                                               *)
Fds(o, f) == {x \in Process \X FD : o[x[1]][x[2]] = f}

LEMMA FdsFinite ==
  ASSUME NEW o, NEW f
  PROVE  IsFiniteSet(Fds(o, f)) /\ Cardinality(Fds(o, f)) \in Nat
<1>1. IsFiniteSet(Process \X FD)
  BY FS_Product, FdFinite, ProcessAssumption
<1>2. Fds(o, f) \in SUBSET (Process \X FD)
  BY DEF Fds
<1> QED  BY <1>1, <1>2, FS_Subset, FS_CardinalityType

LEMMA FdsMore ==
  ASSUME NEW o, NEW n, NEW x, NEW f, x \notin Fds(o, f), Fds(n, f) = Fds(o, f) \cup {x}
  PROVE  /\ Cardinality(Fds(n, f)) = Cardinality(Fds(o, f)) + 1
         /\ Cardinality(Fds(o, f)) = Cardinality(Fds(n, f)) - 1
<1>1. /\ Cardinality(Fds(n, f)) = Cardinality(Fds(o, f)) + 1
      /\ Cardinality(Fds(o, f)) \in Nat
  BY FdsFinite, Grows
<1> QED  BY <1>1

LEMMA FdsSame ==
  ASSUME NEW o, NEW n, NEW f,
         \A q \in Process : \A c \in FD : n[q][c] = f <=> o[q][c] = f
  PROVE  Cardinality(Fds(n, f)) = Cardinality(Fds(o, f))
<1>1. Fds(n, f) = Fds(o, f)
  BY DEF Fds
<1> QED  BY <1>1

-----------------------------------------------------------------------------
(* Who refers to what                                                      *)

FilesOn(s) == {f \in File : ftable[f].type = "inode" /\ ftable[f].obj = s}

Counted == \A f \in File : ftable[f].ref =
  Cardinality(Fds(ofile, f)) + Count(Half, pfile, f) + (IF f = Console THEN 1 ELSE 0)
FilePart == Counted /\ HeldFiles

EntryPart == \A s \in Slot : iref[s] =
  Cardinality(FilesOn(s)) + Count(Process, ip, s) + Count(Process, other, s)

EndPart == \A q \in Pipe : \A writable \in BOOLEAN :
  Cardinality(Ends(q, writable)) + Cardinality(Closing(q, writable))
    = IF q \in (IF writable THEN writeopen ELSE readopen) THEN 1 ELSE 0

RefInv == FilePart /\ EntryPart /\ EndPart

LEMMA RefInvIsRefCounts == RefInv => RefCounts
BY DEF RefInv, FilePart, Counted, EntryPart, EndPart, RefCounts, FileRefs, EntryRefs, Fds, Count,
       FilesOn, Half

LEMMA FilesFinite ==
  ASSUME NEW s
  PROVE  IsFiniteSet(FilesOn(s)) /\ Cardinality(FilesOn(s)) \in Nat
<1>1. IsFiniteSet(File)
  BY ConstFacts, FS_Interval DEF File
<1>2. FilesOn(s) \in SUBSET File
  BY DEF FilesOn
<1> QED  BY <1>1, <1>2, FS_Subset, FS_CardinalityType

LEMMA EndsFinite ==
  ASSUME NEW q, NEW writable
  PROVE  /\ IsFiniteSet(Ends(q, writable)) /\ IsFiniteSet(Closing(q, writable))
         /\ Cardinality(Ends(q, writable)) \in Nat
         /\ Cardinality(Closing(q, writable)) \in Nat
<1>1. IsFiniteSet(Process) /\ IsFiniteSet(File)
  BY ProcessAssumption, ConstFacts, FS_Interval DEF File
<1>2. Ends(q, writable) \in SUBSET File /\ Closing(q, writable) \in SUBSET Process
  BY DEF Ends, Closing
<1> QED  BY <1>1, <1>2, FS_Subset, FS_CardinalityType

(* Steps that one of the three counts does not notice                      *)
SameEntries ==
  /\ UNCHANGED <<ip, other, iref>>
  /\ \A f \in File : /\ ftable'[f].type = "inode" <=> ftable[f].type = "inode"
                     /\ ftable[f].type = "inode" => ftable'[f].obj = ftable[f].obj

LEMMA EntriesKept == ASSUME EntryPart, SameEntries PROVE EntryPart'
<1>1. \A s \in Slot : FilesOn(s)' = FilesOn(s)
  BY DEF SameEntries, FilesOn
<1> QED  BY <1>1 DEF EntryPart, SameEntries

SameClosing == \A p \in Process :
  /\ pc'[p] = "pipeclose" <=> pc[p] = "pipeclose"
  /\ pc[p] = "pipeclose" => request'[p] = request[p]
SamePipeFiles == \A f \in File :
  /\ ftable'[f].type = "pipe" <=> ftable[f].type = "pipe"
  /\ ftable[f].type = "pipe" => /\ ftable'[f].obj = ftable[f].obj
                                /\ ftable'[f].writable = ftable[f].writable

LEMMA EndsKept ==
  ASSUME EndPart, SameClosing, SamePipeFiles, UNCHANGED <<readopen, writeopen>> PROVE EndPart'
<1>1. ASSUME NEW q, NEW writable
      PROVE  Ends(q, writable)' = Ends(q, writable) /\ Closing(q, writable)' = Closing(q, writable)
  BY DEF SameClosing, SamePipeFiles, Ends, Closing
<1> QED  BY <1>1 DEF EndPart

LEMMA FilesKept == ASSUME FilePart, UNCHANGED <<ftable, ofile, pfile>> PROVE FilePart'
<1>1. \A f : Fds(ofile, f)' = Fds(ofile, f) /\ Count(Half, pfile, f)' = Count(Half, pfile, f)
  BY DEF Fds, Count
<1>2. Counted'
  BY <1>1 DEF FilePart, Counted
<1>3. HeldFiles'
  BY DEF FilePart, HeldFiles, HeldFile, Wf
<1> QED  BY <1>2, <1>3 DEF FilePart

LEMMA QuietRefs ==
  ASSUME RefInv, SameClosing,
         UNCHANGED <<ftable, ofile, pfile, ip, other, iref, readopen, writeopen>>
  PROVE  RefInv'
<1>1. SameEntries /\ SamePipeFiles
  BY DEF SameEntries, SamePipeFiles
<1> QED  BY <1>1, EntriesKept, EndsKept, FilesKept DEF RefInv

-----------------------------------------------------------------------------
(* References: steps that change none                                      *)

LEMMA OneStepCloses ==
  ASSUME CallInv, NEW p \in Process, NEW to, pc' = [pc EXCEPT ![p] = to],
         pc[p] # "pipeclose", to # "pipeclose",
         \A q \in Process \ {p} : request'[q] = request[q]
  PROVE  SameClosing
BY DEF CallInv, Kinds, SameClosing

LEMMA WakingCloses ==
  ASSUME CallInv, NEW p \in Process, NEW f \in [Process -> Label], NEW to,
         \A q \in Process : f[q] = pc[q] \/ (pc[q] \in Sleeping /\ f[q] \in Woke),
         pc' = [f EXCEPT ![p] = to], pc[p] # "pipeclose", to # "pipeclose",
         \A q \in Process \ {p} : request'[q] = request[q]
  PROVE  SameClosing
BY DEF SameClosing, Sleeping, Woke

LEMMA QuietPipeStep ==
  ASSUME CallInv, RefInv, NEW p \in Process, UNCHANGED <<inodeVars, consoleVars, fileVars>>,
         Pipewrite(p) \/ PipereadSleeps(p) \/ PipereadFails(p) \/ Piperead(p)
  PROVE  RefInv'
<1> DEFINE q == request[p].pipe
<1>1. /\ pc[p] \in {"read", "write"} /\ UNCHANGED <<readopen, writeopen>>
      /\ \E f \in {WakeReaders(q), WakeWriters(q), pc} :
           \E to \in {"user", "read_sleep", "write_sleep"} : pc' = [f EXCEPT ![p] = to]
  BY DEF Pipewrite, PipereadSleeps, PipereadFails, Piperead, pipeVars, pipeState
<1>2. \A x \in Process \ {p} : request'[x] = request[x]
  BY DEF Pipewrite, PipereadSleeps, PipereadFails, Piperead, pipeVars, CallInv, Kinds
<1>3. PICK f \in {WakeReaders(q), WakeWriters(q), pc} :
           \E to \in {"user", "read_sleep", "write_sleep"} : pc' = [f EXCEPT ![p] = to]
  BY <1>1
<1>4. PICK to \in {"user", "read_sleep", "write_sleep"} : pc' = [f EXCEPT ![p] = to]
  BY <1>3
<1>5. /\ f \in [Process -> Label]
      /\ \A x \in Process : f[x] = pc[x] \/ (pc[x] \in Sleeping /\ f[x] \in Woke)
  BY WakesOnly DEF CallInv
<1>6. pc[p] # "pipeclose" /\ to # "pipeclose"
  BY <1>1
<1> HIDE DEF q
<1>7. SameClosing
  BY ONLY CallInv, p \in Process, <1>2, <1>4, <1>5, <1>6, WakingCloses
<1> QED  BY <1>1, <1>7, QuietRefs DEF inodeVars, icacheVars, argVars, fileVars

LEMMA QuietConsole ==
  ASSUME CallInv, RefInv, UNCHANGED <<pipeVars, inodeVars, fileVars>>,
         Keyboard \/ \E p \in Process : Consoleread(p)
  PROVE  RefInv'
<1>1. UNCHANGED <<request, readopen, writeopen>>
  BY DEF pipeVars, pipeState
<1>2. \/ pc' = pc \/ pc' = WakeConsole
      \/ \E p \in Process : pc[p] = "cread"
           /\ \E to \in {"user", "cread_sleep"} : pc' = [pc EXCEPT ![p] = to]
  BY DEF Keyboard, ConsoleIntr, Backspace, KillLine, Type, callVars, Consoleread
<1>3. SameClosing
  BY <1>1, <1>2, WakesOnly DEF CallInv, Kinds, SameClosing, Sleeping, Woke
<1> QED  BY <1>1, <1>3, QuietRefs DEF inodeVars, icacheVars, argVars, fileVars

LEMMA QuietCalls ==
  ASSUME CallInv, RefInv, NEW p \in Process, NEW fd \in FD,
         \/ \E n \in Counts : Read(p, fd, n)
         \/ \E n \in ConsoleCounts : ReadConsole(p, fd, n)
         \/ \E s \in Writes : Write(p, fd, s)
         \/ \E n \in FileCounts : ReadFile(p, fd, n) \/ WriteFile(p, fd, n)
  PROVE  RefInv'
<1>1. UNCHANGED <<ftable, ofile, pfile, ip, other, iref, readopen, writeopen>>
  BY DEF Read, Write, PipeCall, ReadConsole, ReadFile, WriteFile, Fileread, FilewriteCall,
         inodeVars, icacheVars, argVars, pipeVars, pipeState, fileVars
<1>2. \A q \in Process \ {p} : request'[q] = request[q]
  BY DEF Read, Write, PipeCall, ReadConsole, ReadFile, WriteFile, pipeVars, CallInv, Kinds
<1>3. pc[p] = "user" /\ \E to \in {"user", "read", "write", "cread", "filewrite"} :
        pc' = [pc EXCEPT ![p] = to]
  BY DEF Read, Write, PipeCall, ReadConsole, ReadFile, WriteFile, Fileread, FilewriteCall,
         Running, Move, callVars, CallInv, Kinds
<1>4. SameClosing
  BY <1>2, <1>3, OneStepCloses
<1> QED  BY <1>1, <1>4, QuietRefs

LEMMA QuietWriteStep ==
  ASSUME CallInv, RefInv, NEW p \in Process, WriteStep(p),
         UNCHANGED <<pipeVars, consoleVars, ftable, ofile, pfile, workload>>
  PROVE  RefInv'
<1>1. UNCHANGED <<ip, other, iref, readopen, writeopen, request>>
  BY DEF WriteStep, WriteiBegins, WriteiFails, WriteiIndirect, WriteiBlock, WriteiEnds, inodeVars,
         icacheVars, argVars, pipeVars, pipeState
<1>2. pc[p] \in InWrite /\ \E to \in InWrite \cup {"user"} : pc' = [pc EXCEPT ![p] = to]
  BY DEF WriteStep, WriteiBegins, WriteiFails, WriteiIndirect, WriteiBlock, WriteiEnds, Move,
         InWrite, callVars, CallInv, Kinds
<1>3. SameClosing
  BY <1>1, <1>2, OneStepCloses DEF InWrite
<1> QED  BY <1>1, <1>3, QuietRefs

LEMMA QuietLife ==
  ASSUME CallInv, RefInv, NEW p \in Process,
         Exit(p) \/ ExitEnds(p) \/ OpenFails(p) \/ \E q \in Process : Kill(p, q)
  PROVE  RefInv'
<1>1. UNCHANGED <<ftable, ofile, pfile, ip, other, iref, readopen, writeopen, request>>
  BY DEF Exit, ExitEnds, OpenFails, Kill, inodeVars, icacheVars, argVars, pipeVars, pipeState,
         fileVars
<1>2. \/ /\ pc[p] \in {"user", "exiting", "opened"}
         /\ \E to \in {"exiting", "dead", "put"} : pc' = [pc EXCEPT ![p] = to]
      \/ \E q \in Process : pc[q] \in {"read", "read_sleep", "write", "write_sleep", "cread",
                                       "cread_sleep"}
           /\ \E to \in {"read", "write", "cread", pc[q]} : pc' = [pc EXCEPT ![q] = to]
  BY DEF Exit, ExitEnds, OpenFails, Kill, Move, Awake, InPipeCall, InConsoleRead, Running
<1>3. SameClosing
  BY <1>1, <1>2, OneStepCloses
<1> QED  BY <1>1, <1>3, QuietRefs

(* The steps of Inode that take and give no reference                      *)
LEMMA QuietInode ==
  ASSUME CallInv, RefInv, NEW p \in Process, UNCHANGED <<pipeVars, ftable, ofile, pfile>>,
         \/ OpenLock(p) \/ CreateLink(p) \/ CreatePutDir(p) \/ UnlinkErase(p) \/ UnlinkDrop(p)
         \/ LinkCount(p) \/ LinkName(p) \/ LinkBack(p)
         \/ IputFrees(p) \/ IputKeeps(p) \/ IputTruncates(p)
  PROVE  RefInv'
<1>1. UNCHANGED <<ip, other, iref, readopen, writeopen, request>>
  BY DEF OpenLock, CreateLink, CreatePutDir, UnlinkErase, UnlinkDrop, LinkCount, LinkName,
         LinkBack, IputFrees, IputKeeps, IputTruncates, inodeVars, icacheVars, argVars, pipeVars,
         pipeState
<1>2. pc[p] # "pipeclose" /\ \E to \in Label \ {"pipeclose"} : pc' = [pc EXCEPT ![p] = to]
  BY DEF OpenLock, CreateLink, CreatePutDir, UnlinkErase, UnlinkDrop, LinkCount, LinkName,
         LinkBack, IputFrees, IputKeeps, IputTruncates, Move, Label
<1>3. SameClosing
  BY <1>1, <1>2, OneStepCloses
<1> QED  BY <1>1, <1>3, QuietRefs

-----------------------------------------------------------------------------
(* References: iget() and iput()                                           *)

LEMMA CountTaken ==
  ASSUME NEW g, NEW h, NEW p \in Process, NEW t, t # None, g[p] = None, h[p] = t,
         \A x \in Process : x # p => h[x] = g[x], NEW s, s # None
  PROVE  /\ s = t => /\ Count(Process, h, s) = Count(Process, g, s) + 1
                     /\ Count(Process, g, s) = Count(Process, h, s) - 1
         /\ s # t => Count(Process, h, s) = Count(Process, g, s)
<1>1. s # None /\ t # None /\ IsFiniteSet(Process)
  BY ConstFacts, ProcessAssumption
<1>2. CASE s = t
  <2>1. g[p] # s /\ h[p] = s /\ \A x \in Process : x # p => (h[x] = s <=> g[x] = s)
    BY <1>1, <1>2
  <2>2. /\ Count(Process, h, s) = Count(Process, g, s) + 1
        /\ Count(Process, g, s) = Count(Process, h, s) - 1
    BY ONLY <1>1, <2>1, p \in Process, CountMore
  <2> QED  BY <1>2, <2>2
<1>3. CASE s # t
  <2>1. \A x \in Process : h[x] = s <=> g[x] = s
    BY <1>1, <1>3
  <2>2. Count(Process, h, s) = Count(Process, g, s)
    BY ONLY <2>1, CountSame
  <2> QED  BY <1>3, <2>2
<1> QED  BY <1>2, <1>3

LEMMA EntryTypes ==
  ASSUME EntryPart
  PROVE  \A s \in Slot : /\ iref[s] \in Nat /\ Cardinality(FilesOn(s)) \in Nat
                         /\ Count(Process, ip, s) \in Nat /\ Count(Process, other, s) \in Nat
<1> TAKE s \in Slot
<1>1. IsFiniteSet(Process)
  BY ProcessAssumption
<1>2. Count(Process, ip, s) \in Nat /\ Count(Process, other, s) \in Nat
  BY <1>1, CountType
<1>3. Cardinality(FilesOn(s)) \in Nat
  BY FilesFinite
<1> QED  BY <1>2, <1>3 DEF EntryPart

(* A reference to entry t comes from ip.                                   *)
LEMMA IpTakes ==
  ASSUME CallInv, EntryPart, NEW p \in Process, NEW t \in Slot, ip[p] = None,
         ip' = [ip EXCEPT ![p] = t], iref' = [iref EXCEPT ![t] = @ + 1], UNCHANGED <<other, ftable>>
  PROVE  EntryPart'
<1> SUFFICES ASSUME NEW s \in Slot
             PROVE  iref'[s] = Cardinality(FilesOn(s)') + Count(Process, ip, s)'
                                 + Count(Process, other, s)'
  BY DEF EntryPart
<1>1. FilesOn(s)' = FilesOn(s) /\ Count(Process, other, s)' = Count(Process, other, s)
  BY DEF FilesOn, Count
<1>2. iref[s] = Cardinality(FilesOn(s)) + Count(Process, ip, s) + Count(Process, other, s)
  BY DEF EntryPart
<1>3. iref'[s] = IF s = t THEN iref[s] + 1 ELSE iref[s]
  BY DEF CallInv, Kinds
<1>4. /\ s = t => Count(Process, ip, s)' = Count(Process, ip, s) + 1
      /\ s # t => Count(Process, ip, s)' = Count(Process, ip, s)
  <2>0. s # None /\ t # None
    BY ConstFacts
  <2>1. ip[p] = None /\ ip'[p] = t /\ \A x \in Process : x # p => ip'[x] = ip[x]
    BY DEF CallInv, Kinds
  <2>2. Count(Process, ip, s)' = Count(Process, ip', s)
    BY DEF Count
  <2>3. /\ s = t => Count(Process, ip', s) = Count(Process, ip, s) + 1
        /\ s # t => Count(Process, ip', s) = Count(Process, ip, s)
    BY ONLY <2>0, <2>1, p \in Process, CountTaken
  <2> QED  BY <2>2, <2>3
<1>5. /\ Cardinality(FilesOn(s)) \in Nat /\ Count(Process, ip, s) \in Nat
      /\ Count(Process, other, s) \in Nat
  BY EntryTypes
<1> QED  BY <1>1, <1>2, <1>3, <1>4, <1>5

LEMMA IpDrops ==
  ASSUME CallInv, EntryPart, NEW p \in Process, NEW t \in Slot, ip[p] = t,
         ip' = [ip EXCEPT ![p] = None], iref' = [iref EXCEPT ![t] = @ - 1],
         UNCHANGED <<other, ftable>>
  PROVE  EntryPart'
<1> SUFFICES ASSUME NEW s \in Slot
             PROVE  iref'[s] = Cardinality(FilesOn(s)') + Count(Process, ip, s)'
                                 + Count(Process, other, s)'
  BY DEF EntryPart
<1>1. FilesOn(s)' = FilesOn(s) /\ Count(Process, other, s)' = Count(Process, other, s)
  BY DEF FilesOn, Count
<1>2. iref[s] = Cardinality(FilesOn(s)) + Count(Process, ip, s) + Count(Process, other, s)
  BY DEF EntryPart
<1>3. iref'[s] = IF s = t THEN iref[s] - 1 ELSE iref[s]
  BY DEF CallInv, Kinds
<1>4. /\ s = t => Count(Process, ip, s)' = Count(Process, ip, s) - 1
      /\ s # t => Count(Process, ip, s)' = Count(Process, ip, s)
  <2>0. s # None /\ t # None
    BY ConstFacts
  <2>1. ip'[p] = None /\ ip[p] = t /\ \A x \in Process : x # p => ip[x] = ip'[x]
    BY DEF CallInv, Kinds
  <2>2. Count(Process, ip, s)' = Count(Process, ip', s)
    BY DEF Count
  <2>3. /\ s = t => Count(Process, ip', s) = Count(Process, ip, s) - 1
        /\ s # t => Count(Process, ip', s) = Count(Process, ip, s)
    BY ONLY <2>0, <2>1, p \in Process, CountTaken
  <2> QED  BY <2>2, <2>3
<1>5. /\ Cardinality(FilesOn(s)) \in Nat /\ Count(Process, ip, s) \in Nat
      /\ Count(Process, other, s) \in Nat
  BY EntryTypes
<1> QED  BY <1>1, <1>2, <1>3, <1>4, <1>5

LEMMA OtherTakes ==
  ASSUME CallInv, EntryPart, NEW p \in Process, NEW t \in Slot, other[p] = None,
         other' = [other EXCEPT ![p] = t], iref' = [iref EXCEPT ![t] = @ + 1],
         UNCHANGED <<ip, ftable>>
  PROVE  EntryPart'
<1> SUFFICES ASSUME NEW s \in Slot
             PROVE  iref'[s] = Cardinality(FilesOn(s)') + Count(Process, ip, s)'
                                 + Count(Process, other, s)'
  BY DEF EntryPart
<1>1. FilesOn(s)' = FilesOn(s) /\ Count(Process, ip, s)' = Count(Process, ip, s)
  BY DEF FilesOn, Count
<1>2. iref[s] = Cardinality(FilesOn(s)) + Count(Process, ip, s) + Count(Process, other, s)
  BY DEF EntryPart
<1>3. iref'[s] = IF s = t THEN iref[s] + 1 ELSE iref[s]
  BY DEF CallInv, Kinds
<1>4. /\ s = t => Count(Process, other, s)' = Count(Process, other, s) + 1
      /\ s # t => Count(Process, other, s)' = Count(Process, other, s)
  <2>0. s # None /\ t # None
    BY ConstFacts
  <2>1. other[p] = None /\ other'[p] = t /\ \A x \in Process : x # p => other'[x] = other[x]
    BY DEF CallInv, Kinds
  <2>2. Count(Process, other, s)' = Count(Process, other', s)
    BY DEF Count
  <2>3. /\ s = t => Count(Process, other', s) = Count(Process, other, s) + 1
        /\ s # t => Count(Process, other', s) = Count(Process, other, s)
    BY ONLY <2>0, <2>1, p \in Process, CountTaken
  <2> QED  BY <2>2, <2>3
<1>5. /\ Cardinality(FilesOn(s)) \in Nat /\ Count(Process, ip, s) \in Nat
      /\ Count(Process, other, s) \in Nat
  BY EntryTypes
<1> QED  BY <1>1, <1>2, <1>3, <1>4, <1>5

LEMMA OtherDrops ==
  ASSUME CallInv, EntryPart, NEW p \in Process, NEW t \in Slot, other[p] = t,
         other' = [other EXCEPT ![p] = None], iref' = [iref EXCEPT ![t] = @ - 1],
         UNCHANGED <<ip, ftable>>
  PROVE  EntryPart'
<1> SUFFICES ASSUME NEW s \in Slot
             PROVE  iref'[s] = Cardinality(FilesOn(s)') + Count(Process, ip, s)'
                                 + Count(Process, other, s)'
  BY DEF EntryPart
<1>1. FilesOn(s)' = FilesOn(s) /\ Count(Process, ip, s)' = Count(Process, ip, s)
  BY DEF FilesOn, Count
<1>2. iref[s] = Cardinality(FilesOn(s)) + Count(Process, ip, s) + Count(Process, other, s)
  BY DEF EntryPart
<1>3. iref'[s] = IF s = t THEN iref[s] - 1 ELSE iref[s]
  BY DEF CallInv, Kinds
<1>4. /\ s = t => Count(Process, other, s)' = Count(Process, other, s) - 1
      /\ s # t => Count(Process, other, s)' = Count(Process, other, s)
  <2>0. s # None /\ t # None
    BY ConstFacts
  <2>1. other'[p] = None /\ other[p] = t /\ \A x \in Process : x # p => other[x] = other'[x]
    BY DEF CallInv, Kinds
  <2>2. Count(Process, other, s)' = Count(Process, other', s)
    BY DEF Count
  <2>3. /\ s = t => Count(Process, other', s) = Count(Process, other, s) - 1
        /\ s # t => Count(Process, other', s) = Count(Process, other, s)
    BY ONLY <2>0, <2>1, p \in Process, CountTaken
  <2> QED  BY <2>2, <2>3
<1>5. /\ Cardinality(FilesOn(s)) \in Nat /\ Count(Process, ip, s) \in Nat
      /\ Count(Process, other, s) \in Nat
  BY EntryTypes
<1> QED  BY <1>1, <1>2, <1>3, <1>4, <1>5

(* What all of these steps leave alone                                     *)
LEMMA InodeRefs ==
  ASSUME CallInv, RefInv, EntryPart', NEW p \in Process, NEW to \in Label \ {"pipeclose"},
         pc' = [pc EXCEPT ![p] = to], pc[p] # "pipeclose",
         UNCHANGED <<pipeVars, ftable, ofile, pfile>>
  PROVE  RefInv'
<1>1. UNCHANGED <<request, readopen, writeopen>>
  BY DEF pipeVars, pipeState
<1>2. SameClosing /\ SamePipeFiles
  BY <1>1, OneStepCloses DEF SamePipeFiles
<1> QED  BY <1>1, <1>2, EndsKept, FilesKept DEF RefInv

LEMMA RefsLookup ==
  ASSUME CallInv, RefInv, NEW p \in Process, UNCHANGED <<pipeVars, ftable, ofile, pfile>>,
         \/ \E n \in Name : OpenLookup(p, n) \/ CreateIalloc(p, n) \/ UnlinkLookup(p, n)
         \/ \E o, n \in Name : LinkLookup(p, o, n)
  PROVE  RefInv'
<1>1. /\ pc[p] = "user" /\ \E to \in {"open", "create", "unlink", "link"} : pc' = [pc EXCEPT ![p] = to]
      /\ other' = other
      /\ \E i : /\ CanIget(i) /\ iref' = [iref EXCEPT ![Entry(i)] = @ + 1]
                /\ ip' = [ip EXCEPT ![p] = Entry(i)]
  BY DEF OpenLookup, CreateIalloc, UnlinkLookup, LinkLookup, Lookup, Move, Iget
<1>2. PICK i : /\ CanIget(i) /\ iref' = [iref EXCEPT ![Entry(i)] = @ + 1]
               /\ ip' = [ip EXCEPT ![p] = Entry(i)]
  BY <1>1
<1>3. Entry(i) \in Slot /\ ip[p] = None
  BY <1>1, <1>2, EntryIn, Has DEF InodeCall
<1>4. EntryPart'
  BY <1>1, <1>2, <1>3, IpTakes DEF RefInv
<1> QED  BY <1>1, <1>4, InodeRefs DEF Label

LEMMA RefsLinkTaken ==
  ASSUME CallInv, RefInv, NEW p \in Process, UNCHANGED <<pipeVars, ftable, ofile, pfile>>,
         LinkTaken(p)
  PROVE  RefInv'
<1> DEFINE t == Entry(dir[name[p]])
<1>1. /\ pc[p] = "link_dir" /\ pc' = [pc EXCEPT ![p] = "link_taken"] /\ ip' = ip
      /\ other' = [other EXCEPT ![p] = t] /\ iref' = [iref EXCEPT ![t] = @ + 1]
      /\ CanIget(dir[name[p]])
  BY DEF LinkTaken, Move, Iget
<1>2. t \in Slot /\ other[p] = None
  BY <1>1, EntryIn, Has
<1> HIDE DEF t
<1>3. EntryPart'
  BY <1>1, <1>2, OtherTakes DEF RefInv
<1> QED  BY <1>1, <1>3, InodeRefs DEF Label

LEMMA RefsLinkPutOther ==
  ASSUME CallInv, RefInv, NEW p \in Process, UNCHANGED <<pipeVars, ftable, ofile, pfile>>,
         LinkPutOther(p)
  PROVE  RefInv'
<1>1. /\ pc[p] = "link_taken" /\ pc' = [pc EXCEPT ![p] = "link_back"] /\ ip' = ip
      /\ other' = [other EXCEPT ![p] = None] /\ iref' = [iref EXCEPT ![other[p]] = @ - 1]
  BY DEF LinkPutOther, Move
<1>2. other[p] \in Slot
  BY <1>1, Has
<1>3. EntryPart'
  BY <1>1, <1>2, OtherDrops DEF RefInv
<1> QED  BY <1>1, <1>3, InodeRefs DEF Label

LEMMA RefsIputDrops ==
  ASSUME CallInv, RefInv, NEW p \in Process, UNCHANGED <<pipeVars, ftable, ofile, pfile>>,
         IputDrops(p)
  PROVE  RefInv'
<1>1. /\ pc[p] = "drop" /\ pc' = [pc EXCEPT ![p] = Return(p)] /\ other' = other
      /\ ip' = [ip EXCEPT ![p] = None] /\ iref' = [iref EXCEPT ![ip[p]] = @ - 1]
  BY DEF IputDrops, Move
<1>2. ip[p] \in Slot /\ Return(p) \in Label \ {"pipeclose"}
  BY <1>1, Has, Returns DEF InodeCall, Label
<1>3. EntryPart'
  BY <1>1, <1>2, IpDrops DEF RefInv
<1> QED  BY <1>1, <1>2, <1>3, InodeRefs

LEMMA RefsInode == ASSUME CallInv, RefInv, NEW p \in Process, OnInode(p) PROVE RefInv'
<1>1. UNCHANGED <<pipeVars, ftable, ofile, pfile>>
  BY DEF OnInode
<1>2. \/ InodeStep(p)
      \/ \E n \in Name : OpenLookup(p, n) \/ CreateIalloc(p, n) \/ UnlinkLookup(p, n)
      \/ \E o, n \in Name : LinkLookup(p, o, n)
  BY DEF OnInode, PathCall
<1>3. CASE InodeStep(p)
  BY <1>1, <1>3, QuietInode, RefsLinkTaken, RefsLinkPutOther, RefsIputDrops DEF InodeStep
<1> QED  BY <1>1, <1>2, <1>3, RefsLookup

-----------------------------------------------------------------------------
(* References: the counts of open files                                    *)

LEMMA HalfFinite == IsFiniteSet(Half)
<1>1. IsFiniteSet({TRUE}) /\ IsFiniteSet({FALSE}) /\ BOOLEAN = {TRUE} \cup {FALSE}
  BY FS_Singleton
<1>2. IsFiniteSet(BOOLEAN)
  BY <1>1, FS_Union
<1> QED  BY <1>2, ProcessAssumption, FS_Product DEF Half

LEMMA FileTypes ==
  ASSUME NEW f
  PROVE  Cardinality(Fds(ofile, f)) \in Nat /\ Count(Half, pfile, f) \in Nat
BY HalfFinite, CountType, FdsFinite

(* A file that a descriptor or pipe() has is counted for it.               *)
LEMMA FdCounted ==
  ASSUME NEW p \in Process, NEW d \in FD
  PROVE  /\ Cardinality(Fds(ofile, ofile[p][d])) > 0
         /\ \A q \in Process : \A c \in FD :
              ofile[q][c] = ofile[p][d] /\ <<q, c>> # <<p, d>> =>
                Cardinality(Fds(ofile, ofile[p][d])) > 1
<1> DEFINE A == Fds(ofile, ofile[p][d])
<1>1. IsFiniteSet(A)
  BY FdsFinite
<1>2. <<p, d>> \in A
  BY DEF Fds
<1>3. \A q \in Process : \A c \in FD : ofile[q][c] = ofile[p][d] => <<q, c>> \in A
  BY DEF Fds
<1> HIDE DEF A
<1>4. Cardinality(A) > 0 /\ \A y \in A : y # <<p, d>> => Cardinality(A) > 1
  BY ONLY <1>1, <1>2, Member
<1> QED  BY <1>3, <1>4 DEF A

LEMMA PfileCounted ==
  ASSUME NEW x \in Half
  PROVE  /\ Count(Half, pfile, pfile[x]) > 0
         /\ \A v \in Half :
              pfile[v] = pfile[x] /\ v # x => Count(Half, pfile, pfile[x]) > 1
<1> DEFINE A == {v \in Half : pfile[v] = pfile[x]}
<1>1. IsFiniteSet(A)
  <2>1. A \in SUBSET Half
    OBVIOUS
  <2> QED  BY <2>1, HalfFinite, FS_Subset
<1>2. x \in A /\ \A v \in Half : pfile[v] = pfile[x] => v \in A
  OBVIOUS
<1> HIDE DEF A
<1>3. Cardinality(A) > 0 /\ \A y \in A : y # x => Cardinality(A) > 1
  BY ONLY <1>1, <1>2, Member
<1> QED  BY <1>2, <1>3 DEF A, Count

(* What the count says: nobody has a free file; the files of pipe() are    *)
(* nobody else's.                                                          *)
LEMMA OpenFileKnown ==
  ASSUME CallInv, FilePart, NEW p \in Process, NEW d \in FD, ofile[p][d] # None
  PROVE  /\ ofile[p][d] \in File /\ ftable[ofile[p][d]].ref \in Nat
         /\ ftable[ofile[p][d]].ref > 0
         /\ \A v \in Half : pfile[v] # ofile[p][d]
         /\ ftable[ofile[p][d]].ref = 1 =>
              \A q \in Process : \A c \in FD : ofile[q][c] = ofile[p][d] => q = p /\ c = d
<1> DEFINE f == ofile[p][d]
           n == Cardinality(Fds(ofile, f))
           m == Count(Half, pfile, f)
<1>1. f \in File /\ ftable[f].ref \in Nat /\ f # None
  BY DEF CallInv, Kinds, FileEntry
<1>2. ftable[f].ref = n + m + (IF f = Console THEN 1 ELSE 0)
  BY <1>1 DEF FilePart, Counted
<1>3. n \in Nat /\ m \in Nat
  BY FileTypes
<1>4. /\ n > 0
      /\ \A q \in Process : \A c \in FD : ofile[q][c] = f /\ <<q, c>> # <<p, d>> => n > 1
  BY FdCounted
<1>5. \A v \in Half : pfile[v] = f => m > 0 /\ ftable[f].ref = 1
  BY <1>1, PfileCounted DEF FilePart, HeldFiles, HeldFile
<1> HIDE DEF f, n, m
<1>6. ftable[f].ref > 0
  BY <1>2, <1>3, <1>4
<1>7. \A v \in Half : pfile[v] # f
  BY <1>2, <1>3, <1>4, <1>5
<1>8. ftable[f].ref = 1 => \A q \in Process : \A c \in FD : ofile[q][c] = f => q = p /\ c = d
  <2> SUFFICES ASSUME ftable[f].ref = 1, NEW q \in Process, NEW c \in FD, ofile[q][c] = f
               PROVE  <<q, c>> = <<p, d>>
    OBVIOUS
  <2>1. n = 1
    BY <1>2, <1>3, <1>4
  <2> QED  BY <1>4, <2>1
<1> QED  BY <1>1, <1>6, <1>7, <1>8 DEF f

LEMMA FreeFileKnown ==
  ASSUME CallInv, FilePart, NEW f \in File, ftable[f].ref = 0
  PROVE  /\ \A v \in Half : pfile[v] # f
         /\ \A p \in Process : \A d \in FD : ofile[p][d] # f
         /\ f # Console /\ ftable[f].type = "none"
<1>1. f # None
  BY ConstFacts
<1>2. \A p \in Process : \A d \in FD : ofile[p][d] # f
  BY <1>1, OpenFileKnown
<1>3. \A v \in Half : pfile[v] # f
  BY <1>1 DEF FilePart, HeldFiles, HeldFile
<1>4. f # Console
  BY FileTypes DEF FilePart, Counted
<1>5. ftable[f].type = "none"
  BY DEF CallInv, FileShape
<1> QED  BY <1>2, <1>3, <1>4, <1>5

LEMMA HeldFileKnown ==
  ASSUME CallInv, FilePart, NEW x \in Half, pfile[x] # None
  PROVE  /\ pfile[x] \in File /\ ftable[pfile[x]].ref = 1 /\ HeldFile(x)
         /\ pfile[x] # Console
         /\ \A v \in Half : pfile[v] = pfile[x] => v = x
         /\ \A q \in Process : \A d \in FD : ofile[q][d] # pfile[x]
<1> DEFINE f == pfile[x]
           n == Cardinality(Fds(ofile, f))
           m == Count(Half, pfile, f)
<1>1. f \in File /\ ftable[f].ref = 1 /\ HeldFile(x)
  BY DEF CallInv, Kinds, FilePart, HeldFiles, HeldFile
<1>2. ftable[f].ref = n + m + (IF f = Console THEN 1 ELSE 0)
  BY <1>1 DEF FilePart, Counted
<1>3. n \in Nat /\ m \in Nat
  BY FileTypes
<1>4. m > 0 /\ \A v \in Half : pfile[v] = f /\ v # x => m > 1
  BY PfileCounted
<1>5. \A q \in Process : \A d \in FD : ofile[q][d] # f
  BY OpenFileKnown
<1>6. m = 1 /\ f # Console
  <2> HIDE DEF f, n, m
  <2> QED  BY <1>1, <1>2, <1>3, <1>4
<1>7. \A v \in Half : pfile[v] = f => v = x
  <2> HIDE DEF f, n, m
  <2> QED  BY <1>4, <1>6
<1> QED  BY <1>1, <1>5, <1>6, <1>7

LEMMA CountsThen ==
  ASSUME \A g \in File : ftable'[g].ref =
           Cardinality(Fds(ofile', g)) + Count(Half, pfile', g) + (IF g = Console THEN 1 ELSE 0)
  PROVE  Counted'
<1>1. \A g : Fds(ofile, g)' = Fds(ofile', g) /\ Count(Half, pfile, g)' = Count(Half, pfile', g)
  BY DEF Fds, Count
<1> QED  BY <1>1 DEF Counted

LEMMA HalfMoved ==
  ASSUME NEW g, NEW h, NEW p \in Half, NEW t, t # None, g[p] = None, h[p] = t,
         \A x \in Half : x # p => h[x] = g[x], NEW s, s # None
  PROVE  /\ s = t => /\ Count(Half, h, s) = Count(Half, g, s) + 1
                     /\ Count(Half, g, s) = Count(Half, h, s) - 1
         /\ s # t => Count(Half, h, s) = Count(Half, g, s)
<1>1. CASE s = t
  <2>1. g[p] # s /\ h[p] = s /\ \A x \in Half : x # p => (h[x] = s <=> g[x] = s)
    BY <1>1
  <2>2. /\ Count(Half, h, s) = Count(Half, g, s) + 1
        /\ Count(Half, g, s) = Count(Half, h, s) - 1
    BY ONLY HalfFinite, <2>1, p \in Half, CountMore
  <2> QED  BY <1>1, <2>2
<1>2. CASE s # t
  <2>1. \A x \in Half : h[x] = s <=> g[x] = s
    BY <1>2
  <2>2. Count(Half, h, s) = Count(Half, g, s)
    BY ONLY <2>1, CountSame
  <2> QED  BY <1>2, <2>2
<1> QED  BY <1>1, <1>2

(* pipe() takes a file; pipe() gives one back or puts it on a descriptor   *)
LEMMA HalfTakes ==
  ASSUME CallInv, FilePart, NEW x \in Half, NEW f \in File, ftable[f].ref = 0, pfile[x] = None,
         pfile' = [pfile EXCEPT ![x] = f], ftable'[f].ref = 1,
         \A g \in File \ {f} : ftable'[g].ref = ftable[g].ref, UNCHANGED ofile
  PROVE  Counted'
<1>1. f # None /\ pfile'[x] = f /\ \A v \in Half : v # x => pfile'[v] = pfile[v]
  BY ConstFacts DEF CallInv, Kinds
<1>0. pfile[x] = None
  OBVIOUS
<1>2. ASSUME NEW g \in File
      PROVE  ftable'[g].ref = Cardinality(Fds(ofile', g)) + Count(Half, pfile', g)
                                + (IF g = Console THEN 1 ELSE 0)
  <2>1. ftable[g].ref = Cardinality(Fds(ofile, g)) + Count(Half, pfile, g)
                          + (IF g = Console THEN 1 ELSE 0)
    BY DEF FilePart, Counted
  <2>2. Cardinality(Fds(ofile, g)) \in Nat /\ Count(Half, pfile, g) \in Nat /\ g # None
    BY FileTypes, ConstFacts
  <2>3. /\ g = f => Count(Half, pfile', g) = Count(Half, pfile, g) + 1
        /\ g # f => Count(Half, pfile', g) = Count(Half, pfile, g)
    <3>1. pfile[x] = None /\ pfile'[x] = f /\ \A v \in Half : v # x => pfile'[v] = pfile[v]
      BY <1>0, <1>1
    <3>2. f # None /\ g # None
      BY <1>1, <2>2
    <3> HIDE DEF Half
    <3>3. g = f => Count(Half, pfile', g) = Count(Half, pfile, g) + 1
      BY ONLY <3>1, <3>2, x \in Half, HalfMoved
    <3>4. g # f => Count(Half, pfile', g) = Count(Half, pfile, g)
      BY ONLY <3>1, <3>2, x \in Half, HalfMoved
    <3> QED  BY <3>3, <3>4
  <2> QED  BY <2>1, <2>2, <2>3
<1> QED  BY <1>2, CountsThen

LEMMA HalfDrops ==
  ASSUME CallInv, FilePart, NEW x \in Half, NEW f \in File, f = pfile[x], ftable[f].ref = 1,
         pfile' = [pfile EXCEPT ![x] = None], ftable'[f].ref = 0,
         \A g \in File \ {f} : ftable'[g].ref = ftable[g].ref, UNCHANGED ofile
  PROVE  Counted'
<1>1. f # None /\ pfile'[x] = None /\ \A v \in Half : v # x => pfile[v] = pfile'[v]
  BY ConstFacts DEF CallInv, Kinds
<1>2. ASSUME NEW g \in File
      PROVE  ftable'[g].ref = Cardinality(Fds(ofile', g)) + Count(Half, pfile', g)
                                + (IF g = Console THEN 1 ELSE 0)
  <2>1. ftable[g].ref = Cardinality(Fds(ofile, g)) + Count(Half, pfile, g)
                          + (IF g = Console THEN 1 ELSE 0)
    BY DEF FilePart, Counted
  <2>2. Cardinality(Fds(ofile, g)) \in Nat /\ Count(Half, pfile, g) \in Nat /\ g # None
    BY FileTypes, ConstFacts
  <2>3. /\ g = f => Count(Half, pfile', g) = Count(Half, pfile, g) - 1
        /\ g # f => Count(Half, pfile, g) = Count(Half, pfile', g)
    BY ONLY <1>1, <2>2, x \in Half, pfile[x] = f, HalfMoved
  <2>4. /\ ofile' = ofile /\ (g = f => ftable'[g].ref = 0 /\ ftable[g].ref = 1)
        /\ g # f => ftable'[g].ref = ftable[g].ref
    OBVIOUS
  <2> QED  BY ONLY <2>1, <2>2, <2>3, <2>4
<1> QED  BY <1>2, CountsThen

(* A file of pipe() that a step leaves alone                               *)
LEMMA HeldKept ==
  ASSUME HeldFiles, NEW x \in Half, pfile[x] # None,
         pfile'[x] = pfile[x], ftable'[pfile[x]] = ftable[pfile[x]],
         Wf(x[1])' = None => Wf(x[1]) = None
  PROVE  HeldFile(x)'
BY DEF HeldFiles, HeldFile

LEMMA HeldStay ==
  ASSUME CallInv, HeldFiles, NEW f, NEW x, ftable' = [ftable EXCEPT ![f] = x],
         \A v \in Half : pfile[v] # f, UNCHANGED pfile
  PROVE  HeldFiles'
<1> SUFFICES ASSUME NEW v \in Half, pfile'[v] # None PROVE HeldFile(v)'
  BY DEF HeldFiles
<1>1. pfile[v] # None /\ pfile'[v] = pfile[v] /\ ftable'[pfile[v]] = ftable[pfile[v]]
  BY DEF CallInv, Kinds
<1>2. Wf(v[1])' = None => Wf(v[1]) = None
  BY DEF Wf
<1> QED  BY ONLY HeldFiles, v \in Half, <1>1, <1>2, HeldKept

(* One more descriptor; one less                                           *)
LEMMA FdTakes ==
  ASSUME CallInv, FilePart, NEW p \in Process, NEW d \in FD, NEW f \in File, NEW x,
         ofile[p][d] = None, ofile' = [ofile EXCEPT ![p][d] = f],
         ftable' = [ftable EXCEPT ![f] = x], x.ref = ftable[f].ref + 1,
         \A v \in Half : pfile[v] # f, UNCHANGED pfile
  PROVE  FilePart'
<1>1. ofile \in [Process -> [FD -> File \cup {None}]] /\ f # None /\ DOMAIN ftable = File
  BY ConstFacts DEF CallInv, Kinds
<1>2. ASSUME NEW g \in File
      PROVE  ftable'[g].ref = Cardinality(Fds(ofile', g)) + Count(Half, pfile', g)
                                + (IF g = Console THEN 1 ELSE 0)
  <2>1. ftable[g].ref = Cardinality(Fds(ofile, g)) + Count(Half, pfile, g)
                          + (IF g = Console THEN 1 ELSE 0)
    BY DEF FilePart, Counted
  <2>2. Cardinality(Fds(ofile, g)) \in Nat /\ Count(Half, pfile, g) \in Nat
    BY FileTypes
  <2>3. CASE g = f
    <3>0. /\ ofile[p][d] # f /\ ofile'[p][d] = f
          /\ \A q \in Process : \A c \in FD :
               ~(q = p /\ c = d) => (ofile'[q][c] = f <=> ofile[q][c] = f)
      BY <1>1
    <3>1. <<p, d>> \notin Fds(ofile, f) /\ Fds(ofile', f) = Fds(ofile, f) \cup {<<p, d>>}
      BY <3>0 DEF Fds
    <3>3. Cardinality(Fds(ofile', f)) = Cardinality(Fds(ofile, f)) + 1
      BY ONLY <3>1, FdsMore
    <3>2. ftable'[g].ref = ftable[g].ref + 1
      BY <1>1, <2>3
    <3> QED  BY <2>1, <2>2, <2>3, <3>2, <3>3
  <2>4. CASE g # f
    <3>1. \A q \in Process : \A c \in FD : ofile'[q][c] = g <=> ofile[q][c] = g
      BY <1>1, <2>4, ConstFacts
    <3>2. Cardinality(Fds(ofile', g)) = Cardinality(Fds(ofile, g))
      BY ONLY <3>1, FdsSame
    <3> QED  BY <1>1, <2>1, <2>4, <3>2
  <2> QED  BY <2>3, <2>4
<1>3. HeldFiles'
  BY HeldStay DEF FilePart
<1>4. Counted'
  BY <1>2, CountsThen
<1> QED  BY <1>3, <1>4 DEF FilePart

LEMMA FdDrops ==
  ASSUME CallInv, FilePart, NEW p \in Process, NEW d \in FD, NEW f \in File, NEW x,
         ofile[p][d] = f, ofile' = [ofile EXCEPT ![p][d] = None],
         ftable' = [ftable EXCEPT ![f] = x], x.ref = ftable[f].ref - 1, UNCHANGED pfile
  PROVE  FilePart'
<1>1. ofile \in [Process -> [FD -> File \cup {None}]] /\ f # None /\ DOMAIN ftable = File
  BY ConstFacts DEF CallInv, Kinds
<1>2. ASSUME NEW g \in File
      PROVE  ftable'[g].ref = Cardinality(Fds(ofile', g)) + Count(Half, pfile', g)
                                + (IF g = Console THEN 1 ELSE 0)
  <2>1. ftable[g].ref = Cardinality(Fds(ofile, g)) + Count(Half, pfile, g)
                          + (IF g = Console THEN 1 ELSE 0)
    BY DEF FilePart, Counted
  <2>2. Cardinality(Fds(ofile, g)) \in Nat /\ Count(Half, pfile, g) \in Nat
    BY FileTypes
  <2>3. CASE g = f
    <3>0. /\ ofile'[p][d] # f /\ ofile[p][d] = f
          /\ \A q \in Process : \A c \in FD :
               ~(q = p /\ c = d) => (ofile'[q][c] = f <=> ofile[q][c] = f)
      BY <1>1
    <3>1. <<p, d>> \notin Fds(ofile', f) /\ Fds(ofile, f) = Fds(ofile', f) \cup {<<p, d>>}
      BY <3>0 DEF Fds
    <3>3. Cardinality(Fds(ofile', f)) = Cardinality(Fds(ofile, f)) - 1
      BY ONLY <3>1, FdsMore
    <3>2. ftable'[g].ref = ftable[g].ref - 1
      BY <1>1, <2>3
    <3> QED  BY <2>1, <2>2, <2>3, <3>2, <3>3
  <2>4. CASE g # f
    <3>1. \A q \in Process : \A c \in FD : ofile'[q][c] = g <=> ofile[q][c] = g
      BY <1>1, <2>4, ConstFacts
    <3>2. Cardinality(Fds(ofile', g)) = Cardinality(Fds(ofile, g))
      BY ONLY <3>1, FdsSame
    <3> QED  BY <1>1, <2>1, <2>4, <3>2
  <2> QED  BY <2>3, <2>4
<1>3. \A v \in Half : pfile[v] # f
  BY <1>1, OpenFileKnown
<1>4. HeldFiles'
  BY <1>3, HeldStay DEF FilePart
<1>5. Counted'
  BY <1>2, CountsThen
<1> QED  BY <1>4, <1>5 DEF FilePart

-----------------------------------------------------------------------------
(* References: the steps that take and give files                          *)

LEMMA FileSubset ==
  ASSUME NEW S \in SUBSET File PROVE IsFiniteSet(S) /\ Cardinality(S) \in Nat
<1>1. IsFiniteSet(File)
  BY ConstFacts, FS_Interval DEF File
<1> QED  BY <1>1, FS_Subset, FS_CardinalityType

LEMMA ProcessSubset ==
  ASSUME NEW S \in SUBSET Process PROVE IsFiniteSet(S) /\ Cardinality(S) \in Nat
BY ProcessAssumption, FS_Subset, FS_CardinalityType

LEMMA RefsDup ==
  ASSUME CallInv, RefInv, NEW p \in Process, NEW fd \in FD, Dup(p, fd) PROVE RefInv'
<1> DEFINE f == ofile[p][fd]
           g == Least(FreeFds(p))
           x == [ftable[f] EXCEPT !.ref = @ + 1]
<1>1. /\ f # None /\ g \in FD /\ ofile[p][g] = None
      /\ ofile' = [ofile EXCEPT ![p][g] = f] /\ ftable' = [ftable EXCEPT ![f] = x]
      /\ UNCHANGED <<ip, other, iref, pfile, request, pc, readopen, writeopen>>
  BY LeastFd DEF Dup, Filedup, callVars, pipeVars, pipeState, inodeVars, icacheVars, argVars
<1>2. f \in File /\ ftable[f].ref \in Nat /\ \A v \in Half : pfile[v] # f
  BY <1>1, OpenFileKnown DEF RefInv
<1>3. ftable[f] \in FileEntry /\ DOMAIN ftable = File
  BY <1>2 DEF CallInv, Kinds
<1>4. /\ x.ref = ftable[f].ref + 1 /\ x.type = ftable[f].type /\ x.obj = ftable[f].obj
      /\ x.writable = ftable[f].writable
  BY <1>3 DEF FileEntry
<1> HIDE DEF f, g, x
<1>5. FilePart'
  BY <1>1, <1>2, <1>4, FdTakes DEF RefInv
<1>6. SameEntries /\ SamePipeFiles /\ SameClosing
  BY <1>1, <1>3, <1>4 DEF SameEntries, SamePipeFiles, SameClosing
<1> QED  BY <1>1, <1>5, <1>6, EntriesKept, EndsKept DEF RefInv

(* pipe(): a file is taken, a file is given back                           *)
LEMMA RefsPipeTakes ==
  ASSUME CallInv, RefInv, NEW p \in Process, NEW b \in BOOLEAN, FreeFiles # {},
         ftable' = [ftable EXCEPT ![Least(FreeFiles)] = NewFile("none", None, FALSE)],
         pfile' = [pfile EXCEPT ![<<p, b>>] = Least(FreeFiles)], pfile[<<p, b>>] = None,
         NEW to, pc' = [pc EXCEPT ![p] = to], pc[p] # "pipeclose", to # "pipeclose",
         UNCHANGED <<ip, other, iref, ofile, request, readopen, writeopen>>
  PROVE  RefInv'
<1> DEFINE f == Least(FreeFiles)
           x == NewFile("none", None, FALSE)
           y == <<p, b>>
<1>1. f \in File /\ ftable[f].ref = 0 /\ ftable' = [ftable EXCEPT ![f] = x]
  BY LeastFile
<1>2. /\ DOMAIN ftable = File /\ DOMAIN pfile = Half /\ f # None /\ ftable[f].type = "none"
      /\ y \in Half /\ \A v \in Half : pfile[v] # f
  BY <1>1, FreeFileKnown, ConstFacts DEF RefInv, CallInv, Kinds, Half
<1>3. x.ref = 1 /\ x.type = "none"
  BY DEF NewFile
<1>4. pfile' = [pfile EXCEPT ![y] = f] /\ pfile[y] = None
  OBVIOUS
<1>5. \A v \in Half : v[1] \in Process /\ Wf(v[1])' = None => Wf(v[1]) = None
  BY <1>2 DEF Wf, Half
<1> HIDE DEF f, x, y
<1>6. SameEntries /\ SamePipeFiles /\ SameClosing
  <2>1. SameEntries /\ SamePipeFiles
    BY <1>1, <1>2, <1>3 DEF SameEntries, SamePipeFiles
  <2> QED  BY <2>1, OneStepCloses
<1>7. Counted'
  <2>1. ftable'[f].ref = 1 /\ \A g \in File \ {f} : ftable'[g].ref = ftable[g].ref
    BY <1>1, <1>2, <1>3
  <2> QED  BY <1>1, <1>2, <1>4, <2>1, HalfTakes DEF RefInv
<1>8. ASSUME NEW v \in Half, pfile'[v] # None PROVE HeldFile(v)'
  <2>1. CASE v = y
    BY <1>1, <1>2, <1>3, <1>4, <2>1 DEF HeldFile
  <2>2. CASE v # y
    <3>1. pfile'[v] = pfile[v]
      BY <1>4, <2>2
    <3>2. pfile[v] # None /\ pfile[v] \in File /\ ftable'[pfile[v]] = ftable[pfile[v]]
      BY <1>1, <1>2, <1>8, <3>1 DEF CallInv, Kinds
    <3>3. Wf(v[1])' = None => Wf(v[1]) = None
      BY <1>5, <1>8 DEF Half
    <3>4. HeldFiles
      BY DEF RefInv, FilePart
    <3> QED  BY ONLY v \in Half, <3>1, <3>2, <3>3, <3>4, HeldKept
  <2> QED  BY <2>1, <2>2
<1>9. HeldFiles'
  BY <1>8 DEF HeldFiles
<1> QED  BY <1>6, <1>7, <1>9, EntriesKept, EndsKept DEF RefInv, FilePart

LEMMA HeldGiven ==
  ASSUME CallInv, FilePart, NEW p \in Process, NEW b \in BOOLEAN, NEW f \in File,
         f = pfile[<<p, b>>], b => Rf(p) = None, ftable' = [ftable EXCEPT ![f] = NoFile],
         pfile' = [pfile EXCEPT ![<<p, b>>] = None], UNCHANGED ofile
  PROVE  FilePart'
<1> DEFINE y == <<p, b>>
<1>1. /\ y \in Half /\ DOMAIN pfile = Half /\ DOMAIN ftable = File /\ f # None /\ f = pfile[y]
      /\ pfile' = [pfile EXCEPT ![y] = None]
  BY ConstFacts DEF CallInv, Kinds, Half
<1>2. ftable[f].ref = 1 /\ \A v \in Half : pfile[v] = f => v = y
  <2> HIDE DEF y
  <2> QED  BY <1>1, HeldFileKnown
<1>3. NoFile.ref = 0
  BY DEF NoFile
<1>4. ASSUME NEW v \in Half, v # y, pfile[v] # None
      PROVE  Wf(v[1])' = None => Wf(v[1]) = None
  <2>1. PICK q \in Process, c \in BOOLEAN : v = <<q, c>>
    BY DEF Half
  <2>2. q # p \/ b = FALSE
    BY <1>4, <2>1 DEF Rf
  <2>3. Wf(q)' = Wf(q)
    BY <1>1, <2>2 DEF Wf, Half
  <2> QED  BY <2>1, <2>3
<1> HIDE DEF y
<1>5. Counted'
  <2>1. ftable'[f].ref = 0 /\ \A g \in File \ {f} : ftable'[g].ref = ftable[g].ref
    BY <1>1, <1>3
  <2> QED  BY <1>1, <1>2, <2>1, HalfDrops
<1>6. ASSUME NEW v \in Half, pfile'[v] # None PROVE HeldFile(v)'
  <2>1. v # y /\ pfile'[v] = pfile[v] /\ pfile[v] # None
    BY <1>1, <1>6
  <2>2. ftable'[pfile[v]] = ftable[pfile[v]]
    BY <1>1, <1>2, <2>1 DEF CallInv, Kinds
  <2>3. Wf(v[1])' = None => Wf(v[1]) = None
    BY <1>4, <2>1
  <2>4. HeldFiles
    BY DEF FilePart
  <2> QED  BY ONLY v \in Half, <2>1, <2>2, <2>3, <2>4, HeldKept
<1> QED  BY <1>5, <1>6 DEF FilePart, HeldFiles

LEMMA FileGiven ==
  ASSUME CallInv, RefInv, NEW p \in Process, FilePart', NEW f \in File, ftable[f].type = "none",
         ftable' = [ftable EXCEPT ![f] = NoFile],
         NEW to, pc' = [pc EXCEPT ![p] = to], pc[p] # "pipeclose", to # "pipeclose",
         UNCHANGED <<ip, other, iref, request, readopen, writeopen>>
  PROVE  RefInv'
<1>1. NoFile.type = "none" /\ DOMAIN ftable = File
  BY DEF NoFile, CallInv, Kinds
<1>2. SameEntries /\ SamePipeFiles
  BY <1>1 DEF SameEntries, SamePipeFiles
<1>3. SameClosing
  BY OneStepCloses
<1> QED  BY <1>2, <1>3, EntriesKept, EndsKept DEF RefInv

(* The last file of a pipe's end goes; its close has still to reach it.    *)
LEMMA EndGoes ==
  ASSUME CallInv, EndPart, NEW p \in Process, NEW f \in File, ftable[f].type = "pipe",
         ftable' = [ftable EXCEPT ![f] = NoFile],
         request' = [request EXCEPT ![p] =
           [pipe |-> ftable[f].obj, writable |-> ftable[f].writable]],
         pc' = [pc EXCEPT ![p] = "pipeclose"], pc[p] # "pipeclose",
         UNCHANGED <<readopen, writeopen>>
  PROVE  EndPart'
<1> DEFINE q == ftable[f].obj
           b == ftable[f].writable
<1>1. NoFile.type = "none" /\ DOMAIN ftable = File /\ DOMAIN request = Process /\ DOMAIN pc = Process
  BY DEF NoFile, CallInv, Kinds
<1>2. request' = [request EXCEPT ![p] = [pipe |-> q, writable |-> b]]
  OBVIOUS
<1>3. /\ pc'[p] = "pipeclose" /\ request'[p].pipe = q /\ request'[p].writable = b
      /\ \A v \in Process \ {p} : pc'[v] = pc[v] /\ request'[v] = request[v]
  BY <1>1, <1>2
<1>4. ASSUME NEW v, NEW c
      PROVE  /\ v = q /\ c = b =>
                  /\ f \notin Ends(v, c)' /\ Ends(v, c) = Ends(v, c)' \cup {f}
                  /\ p \notin Closing(v, c) /\ Closing(v, c)' = Closing(v, c) \cup {p}
             /\ ~(v = q /\ c = b) => /\ Ends(v, c)' = Ends(v, c)
                                     /\ Closing(v, c)' = Closing(v, c)
  <2>1. /\ v = q /\ c = b => f \notin Ends(v, c)' /\ Ends(v, c) = Ends(v, c)' \cup {f}
        /\ ~(v = q /\ c = b) => Ends(v, c)' = Ends(v, c)
    BY <1>1 DEF Ends
  <2> HIDE DEF q, b
  <2>2. /\ v = q /\ c = b => p \notin Closing(v, c) /\ Closing(v, c)' = Closing(v, c) \cup {p}
        /\ ~(v = q /\ c = b) => Closing(v, c)' = Closing(v, c)
    BY <1>3 DEF Closing
  <2> QED  BY <2>1, <2>2
<1> HIDE DEF q, b
<1>5. ASSUME NEW v \in Pipe, NEW c \in BOOLEAN
      PROVE  Cardinality(Ends(v, c)') + Cardinality(Closing(v, c)')
               = Cardinality(Ends(v, c)) + Cardinality(Closing(v, c))
  <2>1. CASE v = q /\ c = b
    <3>1. IsFiniteSet(Ends(v, c)')
      <4>1. Ends(v, c)' \in SUBSET File
        BY DEF Ends
      <4> QED  BY <4>1, FileSubset
    <3>2. /\ Cardinality(Ends(v, c)) = Cardinality(Ends(v, c)') + 1
          /\ Cardinality(Ends(v, c)') \in Nat
      BY <1>4, <2>1, <3>1, Grows
    <3>3. /\ Cardinality(Closing(v, c)') = Cardinality(Closing(v, c)) + 1
          /\ Cardinality(Closing(v, c)) \in Nat
      BY <1>4, <2>1, EndsFinite, Grows
    <3> QED  BY <3>2, <3>3
  <2>2. CASE ~(v = q /\ c = b)
    BY <1>4, <2>2
  <2> QED  BY <2>1, <2>2
<1> QED  BY <1>5 DEF EndPart

LEMMA PipeEndGiven ==
  ASSUME CallInv, RefInv, NEW p \in Process, FilePart', NEW f \in File, ftable[f].type = "pipe",
         ftable' = [ftable EXCEPT ![f] = NoFile],
         request' = [request EXCEPT ![p] =
           [pipe |-> ftable[f].obj, writable |-> ftable[f].writable]],
         pc' = [pc EXCEPT ![p] = "pipeclose"], pc[p] # "pipeclose",
         UNCHANGED <<ip, other, iref, readopen, writeopen>>
  PROVE  RefInv'
<1>1. NoFile.type = "none" /\ DOMAIN ftable = File
  BY DEF NoFile, CallInv, Kinds
<1>2. SameEntries
  BY <1>1 DEF SameEntries
<1>3. EndPart'
  BY EndGoes DEF RefInv
<1> QED  BY <1>2, <1>3, EntriesKept DEF RefInv

LEMMA RefsPipeFirstFile ==
  ASSUME CallInv, RefInv, NEW p \in Process, PipeFirstFile(p) PROVE RefInv'
<1>1. /\ FreeFiles # {} /\ pc[p] = "user"
      /\ ftable' = [ftable EXCEPT ![Least(FreeFiles)] = NewFile("none", None, FALSE)]
      /\ pfile' = [pfile EXCEPT ![<<p, FALSE>>] = Least(FreeFiles)]
      /\ pc' = [pc EXCEPT ![p] = "pipealloc"]
      /\ UNCHANGED <<ip, other, iref, ofile, request, readopen, writeopen>>
  BY DEF PipeFirstFile, Running, pipeVars, pipeState, inodeVars, icacheVars, argVars
<1>2. pfile[<<p, FALSE>>] = None
  BY <1>1 DEF CallInv, Shape, PipeShape, Rf
<1> QED  BY <1>1, <1>2, RefsPipeTakes

LEMMA RefsPipeNoPage ==
  ASSUME CallInv, RefInv, NEW p \in Process, PipeNoPage(p) PROVE RefInv'
<1>1. /\ FreeFiles # {} /\ pc[p] = "pipealloc"
      /\ ftable' = [ftable EXCEPT ![Least(FreeFiles)] = NewFile("none", None, FALSE)]
      /\ pfile' = [pfile EXCEPT ![<<p, TRUE>>] = Least(FreeFiles)]
      /\ pc' = [pc EXCEPT ![p] = "pipefail"]
      /\ UNCHANGED <<ip, other, iref, ofile, request, readopen, writeopen>>
  BY DEF PipeNoPage, Move, pipeVars, pipeState, inodeVars, icacheVars, argVars
<1>2. pfile[<<p, TRUE>>] = None
  BY <1>1 DEF CallInv, Shape, PipeShape, Wf
<1> QED  BY <1>1, <1>2, RefsPipeTakes

LEMMA RefsPipeNoFile ==
  ASSUME CallInv, RefInv, NEW p \in Process, PipeNoFile(p) PROVE RefInv'
<1>1. /\ pc[p] = "pipealloc" /\ pc' = [pc EXCEPT ![p] = "user"]
      /\ ftable' = [ftable EXCEPT ![Rf(p)] = NoFile]
      /\ pfile' = [pfile EXCEPT ![<<p, FALSE>>] = None]
      /\ UNCHANGED <<ip, other, iref, ofile, request, readopen, writeopen>>
  BY DEF PipeNoFile, Move, Rf, pipeVars, pipeState, inodeVars, icacheVars, argVars
<1>2. <<p, FALSE>> \in Half /\ Rf(p) # None /\ Wf(p) = None
  BY <1>1 DEF CallInv, Shape, PipeShape, Half
<1>3. Rf(p) \in File /\ Rf(p) = pfile[<<p, FALSE>>]
  BY <1>2 DEF CallInv, Kinds, Rf
<1>4. ftable[Rf(p)].type = "none"
  BY <1>2 DEF RefInv, FilePart, HeldFiles, HeldFile, Rf
<1>5. FilePart'
  BY <1>1, <1>3, HeldGiven DEF RefInv
<1> QED  BY <1>1, <1>3, <1>4, <1>5, FileGiven

LEMMA RefsPipeCloses ==
  ASSUME CallInv, RefInv, NEW p \in Process, PipeCloses(p) PROVE RefInv'
<1>1. PICK second \in BOOLEAN : \E f \in File :
        /\ f = pfile[<<p, second>>] /\ ftable[f].ref = 1
        /\ pc[p] = "pipefail" /\ p \notin exiting
        /\ IF second THEN Rf(p) = None ELSE Wf(p) # None
        /\ pfile' = [pfile EXCEPT ![<<p, second>>] = None]
        /\ ftable' = [ftable EXCEPT ![f] = NoFile]
        /\ \/ /\ ftable[f].type = "none" /\ UNCHANGED request
              /\ pc' = [pc EXCEPT ![p] = IF second THEN "user" ELSE "pipefail"]
           \/ /\ ftable[f].type = "pipe"
              /\ request' = [request EXCEPT ![p] =
                   [pipe |-> ftable[f].obj, writable |-> ftable[f].writable]]
              /\ pc' = [pc EXCEPT ![p] = "pipeclose"]
        /\ UNCHANGED <<exiting, killed, pipeState, ip, diskVars, icacheVars, other, name,
                       raced, consoleVars, ofile, contentVars, workload>>
  BY PipeClosesIs DEF RefInv, FilePart
<1>2. PICK f \in File :
        /\ f = pfile[<<p, second>>]
        /\ pc[p] = "pipefail"
        /\ IF second THEN Rf(p) = None ELSE Wf(p) # None
        /\ pfile' = [pfile EXCEPT ![<<p, second>>] = None]
        /\ ftable' = [ftable EXCEPT ![f] = NoFile]
        /\ \/ /\ ftable[f].type = "none" /\ UNCHANGED request
              /\ pc' = [pc EXCEPT ![p] = IF second THEN "user" ELSE "pipefail"]
           \/ /\ ftable[f].type = "pipe"
              /\ request' = [request EXCEPT ![p] =
                   [pipe |-> ftable[f].obj, writable |-> ftable[f].writable]]
              /\ pc' = [pc EXCEPT ![p] = "pipeclose"]
        /\ UNCHANGED <<ip, other, iref, readopen, writeopen, ofile>>
  BY <1>1 DEF pipeState, icacheVars
<1>3. FilePart'
  BY <1>2, HeldGiven DEF RefInv
<1>4. CASE ftable[f].type = "none"
  <2>1. PICK to \in {"user", "pipefail"} : pc' = [pc EXCEPT ![p] = to]
    BY <1>2, <1>4
  <2>2. UNCHANGED request
    BY <1>2, <1>4
  <2> QED  BY <1>2, <1>3, <1>4, <2>1, <2>2, FileGiven
<1>5. CASE ftable[f].type = "pipe"
  <2>1. /\ request' = [request EXCEPT ![p] =
             [pipe |-> ftable[f].obj, writable |-> ftable[f].writable]]
        /\ pc' = [pc EXCEPT ![p] = "pipeclose"]
    BY <1>2, <1>5
  <2> QED  BY <1>2, <1>3, <1>5, <2>1, PipeEndGiven
<1> QED  BY <1>2, <1>4, <1>5

LEMMA RefsOpenFile ==
  ASSUME CallInv, RefInv, NEW p \in Process, OpenFile(p) PROVE RefInv'
<1> DEFINE f == Least(FreeFiles)
           g == Least(FreeFds(p))
           x == NewFile("inode", ip[p], TRUE)
           t == ip[p]
<1>1. /\ f \in File /\ ftable[f].ref = 0 /\ g \in FD /\ ofile[p][g] = None
      /\ ofile' = [ofile EXCEPT ![p][g] = f] /\ ftable' = [ftable EXCEPT ![f] = x]
      /\ ip' = [ip EXCEPT ![p] = None]
      /\ pc' = [pc EXCEPT ![p] = "user"] /\ pc[p] = "opened"
      /\ UNCHANGED <<other, iref, pfile, request, readopen, writeopen>>
  BY LeastFile, LeastFd DEF OpenFile, Move, pipeVars, pipeState
<1>2. /\ DOMAIN ftable = File /\ DOMAIN ip = Process /\ ftable[f].type = "none" /\ t \in Slot
  BY <1>1, Has DEF CallInv, Kinds, FileShape, InodeCall
<1>3. \A v \in Half : pfile[v] # f
  BY <1>1, FreeFileKnown DEF RefInv
<1>4. x.ref = 1 /\ x.type = "inode" /\ x.obj = t
  BY DEF NewFile
<1> HIDE DEF f, g, x
<1>5. FilePart'
  <2>1. x.ref = ftable[f].ref + 1
    BY <1>1, <1>4
  <2> QED  BY ONLY CallInv, RefInv, p \in Process, <1>1, <1>3, <2>1, FdTakes DEF RefInv
<1>6. SamePipeFiles /\ SameClosing
  <2>1. SamePipeFiles
    BY <1>1, <1>2, <1>4 DEF SamePipeFiles
  <2> QED  BY <1>1, <2>1, OneStepCloses
<1>7. ASSUME NEW s \in Slot
      PROVE  iref[s] = Cardinality(FilesOn(s)') + Count(Process, ip', s) + Count(Process, other, s)
  <2>1. iref[s] = Cardinality(FilesOn(s)) + Count(Process, ip, s) + Count(Process, other, s)
    BY DEF RefInv, EntryPart
  <2>2. /\ Cardinality(FilesOn(s)) \in Nat /\ Count(Process, ip, s) \in Nat
        /\ Count(Process, other, s) \in Nat
    BY EntryTypes DEF RefInv
  <2>3. s # None /\ t # None
    BY <1>2, ConstFacts
  <2>4. ip'[p] = None /\ ip[p] = t /\ \A q \in Process : q # p => ip[q] = ip'[q]
    BY <1>1, <1>2
  <2>5. /\ s = t => Count(Process, ip', s) = Count(Process, ip, s) - 1
        /\ s # t => Count(Process, ip, s) = Count(Process, ip', s)
    <3> HIDE DEF t
    <3> QED  BY ONLY <2>3, <2>4, p \in Process, CountTaken
  <2>6. CASE s = t
    <3>1. f \notin FilesOn(s) /\ FilesOn(s)' = FilesOn(s) \cup {f}
      BY <1>1, <1>2, <1>4, <2>6 DEF FilesOn
    <3>2. Cardinality(FilesOn(s)') = Cardinality(FilesOn(s)) + 1
      BY <3>1, FilesFinite, Grows
    <3> QED  BY <2>1, <2>2, <2>5, <2>6, <3>2
  <2>7. CASE s # t
    <3>1. FilesOn(s)' = FilesOn(s)
      BY <1>1, <1>2, <1>4, <2>7 DEF FilesOn
    <3> QED  BY <2>1, <2>5, <2>7, <3>1
  <2> QED  BY <2>6, <2>7
<1>8. EntryPart'
  <2>1. \A s \in Slot : /\ Count(Process, ip, s)' = Count(Process, ip', s)
                        /\ Count(Process, other, s)' = Count(Process, other, s)
    BY <1>1 DEF Count
  <2> QED  BY <1>1, <1>7, <2>1 DEF EntryPart
<1> QED  BY <1>1, <1>5, <1>6, <1>8, EndsKept DEF RefInv

(* close(), by itself or in exit()                                         *)
LEMMA RefsCloseFd ==
  ASSUME CallInv, RefInv, NEW p \in Process, NEW fd \in FD, CloseFd(p, fd),
         pc[p] \in {"user", "exiting"}
  PROVE  RefInv'
<1> DEFINE f == ofile[p][fd]
<1>1. /\ f # None /\ ofile' = [ofile EXCEPT ![p][fd] = None] /\ Fileclose(p, f, Return(p))
      /\ UNCHANGED <<other, iref, pfile, readopen, writeopen>>
  BY DEF CloseFd, icacheVars, pipeState
<1>2. /\ f \in File /\ ftable[f].ref \in Nat /\ ftable[f].ref > 0
      /\ ftable[f] \in FileEntry /\ DOMAIN ftable = File /\ DOMAIN ip = Process /\ ip[p] = None
      /\ DOMAIN request = Process /\ DOMAIN pc = Process /\ FileShape(f)
  BY <1>1, OpenFileKnown, Has DEF RefInv, CallInv, Kinds, InodeCall
<1>0. ofile[p][fd] = f
  OBVIOUS
<1> HIDE DEF f
<1>5. Return(p) # "pipeclose" /\ pc[p] # "pipeclose"
  BY Returns
<1>3. CASE ftable[f].ref > 1
  <2> DEFINE x == [ftable[f] EXCEPT !.ref = @ - 1]
  <2>1. /\ ftable' = [ftable EXCEPT ![f] = x] /\ pc' = [pc EXCEPT ![p] = Return(p)]
        /\ UNCHANGED <<request, ip>>
    BY <1>1, <1>3 DEF Fileclose
  <2>2. /\ x.ref = ftable[f].ref - 1 /\ x.type = ftable[f].type /\ x.obj = ftable[f].obj
        /\ x.writable = ftable[f].writable
    BY <1>2 DEF FileEntry
  <2> HIDE DEF x
  <2>3. FilePart'
    BY ONLY <1>0, <1>1, <1>2, <2>1, <2>2, CallInv, RefInv, p \in Process, fd \in FD, FdDrops
    DEF RefInv
  <2>4. SameEntries /\ SamePipeFiles
    BY <1>1, <1>2, <2>1, <2>2 DEF SameEntries, SamePipeFiles
  <2>5. SameClosing
    BY <1>5, <2>1, OneStepCloses
  <2> QED  BY <1>1, <2>3, <2>4, <2>5, EntriesKept, EndsKept DEF RefInv
<1>4. CASE ~(ftable[f].ref > 1)
  <2> DEFINE x == NoFile
  <2>1. /\ ftable' = [ftable EXCEPT ![f] = x]
        /\ \/ /\ ftable[f].type = "none"
              /\ pc' = [pc EXCEPT ![p] = Return(p)]
              /\ UNCHANGED <<request, ip>>
           \/ /\ ftable[f].type = "pipe"
              /\ request' = [request EXCEPT ![p] =
                   [pipe |-> ftable[f].obj, writable |-> ftable[f].writable]]
              /\ pc' = [pc EXCEPT ![p] = "pipeclose"] /\ UNCHANGED ip
           \/ /\ ftable[f].type = "inode"
              /\ ip' = [ip EXCEPT ![p] = ftable[f].obj]
              /\ pc' = [pc EXCEPT ![p] = "put"]
              /\ UNCHANGED request
    BY <1>1, <1>4 DEF Fileclose
  <2>2. x.ref = ftable[f].ref - 1 /\ x.type = "none"
    BY <1>2, <1>4 DEF NoFile
  <2> HIDE DEF x
  <2>3. FilePart'
    BY ONLY <1>0, <1>1, <1>2, <2>1, <2>2, CallInv, RefInv, p \in Process, fd \in FD, FdDrops
    DEF RefInv
  <2>6. CASE ftable[f].type = "none"
    <3>1. pc' = [pc EXCEPT ![p] = Return(p)] /\ UNCHANGED <<request, ip>>
      BY <2>1, <2>6
    <3>2. ftable' = [ftable EXCEPT ![f] = NoFile]
      BY <2>1 DEF x
    <3> QED  BY <1>1, <1>2, <1>5, <2>3, <2>6, <3>1, <3>2, FileGiven
  <2>4. CASE ftable[f].type = "pipe"
    <3>1. /\ request' = [request EXCEPT ![p] =
               [pipe |-> ftable[f].obj, writable |-> ftable[f].writable]]
          /\ pc' = [pc EXCEPT ![p] = "pipeclose"] /\ UNCHANGED ip
      BY <2>1, <2>4
    <3>2. ftable' = [ftable EXCEPT ![f] = NoFile]
      BY <2>1 DEF x
    <3> QED  BY <1>1, <1>2, <1>5, <2>3, <2>4, <3>1, <3>2, PipeEndGiven
  <2>5. CASE ftable[f].type = "inode"
    <3> DEFINE t == ftable[f].obj
    <3>1. /\ ip' = [ip EXCEPT ![p] = t] /\ pc' = [pc EXCEPT ![p] = "put"] /\ UNCHANGED request
          /\ t \in Slot
      BY <1>2, <2>1, <2>5 DEF FileShape
    <3>2. SamePipeFiles /\ SameClosing
      <4>1. SamePipeFiles
        BY <1>2, <2>1, <2>2, <2>5 DEF SamePipeFiles
      <4> QED  BY <3>1, <4>1, OneStepCloses
    <3>3. ASSUME NEW s
          PROVE  /\ s = t => f \notin FilesOn(s)' /\ FilesOn(s) = FilesOn(s)' \cup {f}
                 /\ s # t => FilesOn(s)' = FilesOn(s)
      BY <1>2, <2>1, <2>2, <2>5 DEF FilesOn
    <3> HIDE DEF t
    <3>4. ASSUME NEW s \in Slot
          PROVE  iref[s] = Cardinality(FilesOn(s)') + Count(Process, ip', s)
                             + Count(Process, other, s)
      <4>1. iref[s] = Cardinality(FilesOn(s)) + Count(Process, ip, s) + Count(Process, other, s)
        BY DEF RefInv, EntryPart
      <4>2. /\ Cardinality(FilesOn(s)) \in Nat /\ Count(Process, ip, s) \in Nat
            /\ Count(Process, other, s) \in Nat
        BY EntryTypes DEF RefInv
      <4>3. s # None /\ t # None
        BY <3>1, ConstFacts
      <4>4. ip[p] = None /\ ip'[p] = t /\ \A q \in Process : q # p => ip'[q] = ip[q]
        BY <1>2, <3>1
      <4>5. /\ s = t => Count(Process, ip', s) = Count(Process, ip, s) + 1
            /\ s # t => Count(Process, ip', s) = Count(Process, ip, s)
        BY ONLY <4>3, <4>4, p \in Process, CountTaken
      <4>6. CASE s = t
        <5>1. IsFiniteSet(FilesOn(s)')
          <6>1. FilesOn(s)' \in SUBSET File
            BY DEF FilesOn
          <6> QED  BY <6>1, FileSubset
        <5>2. /\ Cardinality(FilesOn(s)) = Cardinality(FilesOn(s)') + 1
              /\ Cardinality(FilesOn(s)') \in Nat
          BY <3>3, <4>6, <5>1, Grows
        <5> QED  BY <4>1, <4>2, <4>5, <4>6, <5>2
      <4>7. CASE s # t
        BY <3>3, <4>1, <4>5, <4>7
      <4> QED  BY <4>6, <4>7
    <3>5. EntryPart'
      <4>1. \A s \in Slot : /\ Count(Process, ip, s)' = Count(Process, ip', s)
                            /\ Count(Process, other, s)' = Count(Process, other, s)
        BY <1>1 DEF Count
      <4> QED  BY <1>1, <3>4, <4>1 DEF EntryPart
    <3> QED  BY <1>1, <2>3, <3>2, <3>5, EndsKept DEF RefInv
  <2> QED  BY <2>1, <2>4, <2>5, <2>6
<1> QED  BY <1>3, <1>4

LEMMA RefsClose ==
  ASSUME CallInv, RefInv, NEW p \in Process, \/ \E fd \in FD : Close(p, fd)
                                             \/ ExitCloses(p)
  PROVE  RefInv'
<1>1. CASE \E fd \in FD : Close(p, fd)
  BY <1>1, RefsCloseFd DEF Close, Running
<1>2. CASE ExitCloses(p)
  BY <1>2, RefsCloseFd, LeastOpen DEF ExitCloses
<1> QED  BY <1>1, <1>2

(* pipeclose()                                                             *)
LEMMA RefsPipeclose ==
  ASSUME CallInv, RefInv, NEW p \in Process, Pipeclose(p),
         UNCHANGED <<inodeVars, consoleVars, fileVars>>
  PROVE  RefInv'
<1> DEFINE q == request[p].pipe
           b == request[p].writable
           f == CloseWakes(q, b)
<1>1. /\ pc[p] = "pipeclose" /\ pc' = [f EXCEPT ![p] = Return(p)]
      /\ writeopen' = IF b THEN writeopen \ {q} ELSE writeopen
      /\ readopen' = IF b THEN readopen ELSE readopen \ {q}
      /\ request' = [request EXCEPT ![p] = NoRequest]
  BY DEF Pipeclose
<1>2. b \in BOOLEAN /\ q \in Pipe /\ DOMAIN request = Process
  BY <1>1 DEF CallInv, Kinds, Shape
<1>3. /\ f \in [Process -> Label]
      /\ \A x \in Process : f[x] = pc[x] \/ (pc[x] \in Sleeping /\ f[x] \in Woke)
  BY <1>2, WakesOnly DEF CallInv
<1>4. p \in Closing(q, b)
  BY <1>1 DEF Closing
<1> HIDE DEF q, b, f
<1>5. /\ pc'[p] # "pipeclose"
      /\ \A x \in Process \ {p} : /\ pc'[x] = "pipeclose" <=> pc[x] = "pipeclose"
                                  /\ request'[x] = request[x]
  BY <1>1, <1>2, <1>3, Returns DEF Sleeping, Woke
<1>6. ASSUME NEW v, NEW c
      PROVE  /\ v = q /\ c = b => p \notin Closing(v, c)' /\ Closing(v, c) = Closing(v, c)' \cup {p}
             /\ ~(v = q /\ c = b) => Closing(v, c)' = Closing(v, c)
  BY <1>1, <1>5 DEF Closing, q, b
<1>7. ASSUME NEW v \in Pipe, NEW c \in BOOLEAN
      PROVE  Cardinality(Ends(v, c)) + Cardinality(Closing(v, c)')
               = IF v \in (IF c THEN writeopen' ELSE readopen') THEN 1 ELSE 0
  <2>1. Cardinality(Ends(v, c)) + Cardinality(Closing(v, c))
          = IF v \in (IF c THEN writeopen ELSE readopen) THEN 1 ELSE 0
    BY DEF RefInv, EndPart
  <2>2. CASE v = q /\ c = b
    <3>1. IsFiniteSet(Closing(v, c)')
      <4>1. Closing(v, c)' \in SUBSET Process
        BY DEF Closing
      <4> QED  BY <4>1, ProcessSubset
    <3>2. /\ Cardinality(Closing(v, c)) = Cardinality(Closing(v, c)') + 1
          /\ Cardinality(Closing(v, c)') \in Nat
      BY <1>6, <2>2, <3>1, Grows
    <3>3. Cardinality(Ends(v, c)) \in Nat
      BY EndsFinite
    <3>4. v \notin (IF c THEN writeopen' ELSE readopen')
      BY <1>1, <2>2
    <3> QED  BY <2>1, <3>2, <3>3, <3>4
  <2>3. CASE ~(v = q /\ c = b)
    <3>1. v \in (IF c THEN writeopen' ELSE readopen')
            <=> v \in (IF c THEN writeopen ELSE readopen)
      BY <1>1, <1>2, <2>3
    <3> QED  BY <1>6, <2>1, <2>3, <3>1
  <2> QED  BY <2>2, <2>3
<1>8. UNCHANGED <<ftable, ofile, pfile, ip, other, iref>>
  BY DEF inodeVars, icacheVars, argVars, fileVars
<1>9. EndPart'
  <2>1. \A v, c : Ends(v, c)' = Ends(v, c)
    BY <1>8 DEF Ends
  <2> QED  BY <1>7, <2>1 DEF EndPart
<1>10. SameEntries
  BY <1>8 DEF SameEntries
<1> QED  BY <1>8, <1>9, <1>10, EntriesKept, FilesKept DEF RefInv

(* pipe(): what it makes of its two files, and its two descriptors         *)
PipeFiles(p, f, g, q, x, y) ==
  /\ f = Rf(p) /\ Wf(p) = None
  /\ ftable[f].ref = 1 /\ ftable[f].type = "none" /\ f # Console
  /\ \A v \in Half : pfile[v] = f => v = <<p, FALSE>>
  /\ \A v \in Process : \A b \in FD : ofile[v][b] # f
  /\ ftable[g].ref = 0 /\ ftable[g].type = "none" /\ g # f /\ g = Least(FreeFiles)
  /\ \A v \in Half : pfile[v] # g
  /\ x.ref = 1 /\ x.type = "pipe" /\ x.obj = q /\ x.writable = FALSE
  /\ y.ref = 1 /\ y.type = "pipe" /\ y.obj = q /\ y.writable = TRUE
  /\ ftable' = [ftable EXCEPT ![f] = x, ![g] = y]
  /\ q \notin readopen /\ readopen' = readopen \cup {q}
  /\ q \notin writeopen /\ writeopen' = writeopen \cup {q}

LEMMA PipeFilesAre ==
  ASSUME CallInv, RefInv, NEW p \in Process, pc[p] = "pipealloc", FreeFiles # {},
         Pipealloc(Rf(p), Least(FreeFiles))
  PROVE  \E f, g \in File : \E q \in Pipe : \E x, y : PipeFiles(p, f, g, q, x, y)
<1> DEFINE f == Rf(p)
           g == Least(FreeFiles)
           u == <<p, FALSE>>
<1>1. PICK q \in Pipe :
        /\ CreatePipe(q)
        /\ ftable' = [ftable EXCEPT ![f] = NewFile("pipe", q, FALSE),
                                    ![g] = NewFile("pipe", q, TRUE)]
  BY DEF Pipealloc
<1>2. f = pfile[u] /\ f # None /\ Wf(p) = None /\ u \in Half /\ u[1] = p
  BY DEF CallInv, Shape, PipeShape, Rf, Half
<1>3. g \in File /\ ftable[g].ref = 0 /\ g = Least(FreeFiles)
  BY LeastFile
<1>4. /\ f \in File /\ ftable[f].ref = 1 /\ HeldFile(u) /\ f # Console
      /\ \A v \in Half : pfile[v] = f => v = u
      /\ \A v \in Process : \A b \in FD : ofile[v][b] # f
  <2> HIDE DEF f, u
  <2> QED  BY <1>2, HeldFileKnown DEF RefInv
<1>5. ftable[f].type = "none"
  BY <1>2, <1>4 DEF HeldFile
<1>6. ftable[g].type = "none" /\ g # f /\ \A v \in Half : pfile[v] # g
  <2> HIDE DEF f, g
  <2> QED  BY <1>3, <1>4, FreeFileKnown DEF RefInv
<1>7. /\ q \notin readopen /\ readopen' = readopen \cup {q}
      /\ q \notin writeopen /\ writeopen' = writeopen \cup {q}
  BY <1>1 DEF CreatePipe, Allocated
<1> DEFINE x == NewFile("pipe", q, FALSE)
           y == NewFile("pipe", q, TRUE)
<1>8. /\ x.ref = 1 /\ x.type = "pipe" /\ x.obj = q /\ x.writable = FALSE
      /\ y.ref = 1 /\ y.type = "pipe" /\ y.obj = q /\ y.writable = TRUE
  BY DEF NewFile
<1>9. f = Rf(p) /\ ftable' = [ftable EXCEPT ![f] = x, ![g] = y]
  BY <1>1
<1>10. \A v \in Half : pfile[v] = f => v = <<p, FALSE>>
  BY <1>4
<1> HIDE DEF f, g, u, x, y
<1>11. PipeFiles(p, f, g, q, x, y)
  BY <1>2, <1>3, <1>4, <1>5, <1>6, <1>7, <1>8, <1>9, <1>10 DEF PipeFiles
<1> QED  BY <1>3, <1>4, <1>11

LEMMA PipeFilesEnds ==
  ASSUME CallInv, RefInv, NEW p \in Process, NEW f \in File, NEW g \in File, NEW q \in Pipe,
         NEW x, NEW y, PipeFiles(p, f, g, q, x, y), SameClosing, UNCHANGED <<ip, other, iref>>
  PROVE  EntryPart' /\ EndPart'
<1>1. DOMAIN ftable = File
  BY DEF CallInv, Kinds
<1>2. SameEntries
  BY <1>1 DEF SameEntries, PipeFiles
<1>3. ASSUME NEW v \in Pipe, NEW b \in BOOLEAN
      PROVE  Cardinality(Ends(v, b)') + Cardinality(Closing(v, b)')
               = IF v \in (IF b THEN writeopen' ELSE readopen') THEN 1 ELSE 0
  <2>1. Cardinality(Ends(v, b)) + Cardinality(Closing(v, b))
          = IF v \in (IF b THEN writeopen ELSE readopen) THEN 1 ELSE 0
    BY DEF RefInv, EndPart
  <2>2. Closing(v, b)' = Closing(v, b)
    BY DEF SameClosing, Closing
  <2>3. /\ Cardinality(Ends(v, b)) \in Nat /\ IsFiniteSet(Ends(v, b))
        /\ Cardinality(Closing(v, b)) \in Nat
    BY EndsFinite
  <2>4. CASE v = q
    <3> DEFINE u == IF b THEN g ELSE f
    <3>1. u \notin Ends(v, b) /\ Ends(v, b)' = Ends(v, b) \cup {u}
      BY <1>1, <2>4 DEF Ends, PipeFiles
    <3> HIDE DEF u
    <3>2. Cardinality(Ends(v, b)') = Cardinality(Ends(v, b)) + 1
      BY <2>3, <3>1, Grows
    <3>3. /\ v \in (IF b THEN writeopen' ELSE readopen')
          /\ v \notin (IF b THEN writeopen ELSE readopen)
      BY <2>4 DEF PipeFiles
    <3> QED  BY <2>1, <2>2, <2>3, <3>2, <3>3
  <2>5. CASE v # q
    <3>1. Ends(v, b)' = Ends(v, b)
      BY <1>1, <2>5 DEF Ends, PipeFiles
    <3>2. /\ v \in (IF b THEN writeopen' ELSE readopen')
               <=> v \in (IF b THEN writeopen ELSE readopen)
      BY <2>5 DEF PipeFiles
    <3> QED  BY <2>1, <2>2, <3>1, <3>2
  <2> QED  BY <2>4, <2>5
<1>4. EndPart'
  BY <1>3 DEF EndPart
<1> QED  BY <1>2, <1>4, EntriesKept DEF RefInv

LEMMA RefsPipeNoFds ==
  ASSUME CallInv, RefInv, NEW p \in Process, PipeNoFds(p) PROVE RefInv'
<1>1. /\ pc[p] = "pipealloc" /\ pc' = [pc EXCEPT ![p] = "pipefail"] /\ FreeFiles # {}
      /\ Pipealloc(Rf(p), Least(FreeFiles))
      /\ pfile' = [pfile EXCEPT ![<<p, TRUE>>] = Least(FreeFiles)]
      /\ UNCHANGED <<ip, other, iref, ofile>>
  BY DEF PipeNoFds, Move, Rf, inodeVars, icacheVars, argVars
<1>2. UNCHANGED request
  BY <1>1 DEF Pipealloc, CreatePipe
<1>3. PICK f, g \in File : \E q \in Pipe : \E x, y : PipeFiles(p, f, g, q, x, y)
  BY <1>1, PipeFilesAre
<1>4. PICK q \in Pipe : \E x, y : PipeFiles(p, f, g, q, x, y)
  BY <1>3
<1>5. PICK x, y : PipeFiles(p, f, g, q, x, y)
  BY <1>4
<1>6. SameClosing
  BY <1>1, <1>2, OneStepCloses
<1>7. EntryPart' /\ EndPart'
  BY <1>1, <1>5, <1>6, PipeFilesEnds
<1> DEFINE u == <<p, TRUE>>
<1>8. /\ u \in Half /\ pfile[u] = None /\ pfile' = [pfile EXCEPT ![u] = g] /\ g # None
      /\ DOMAIN ftable = File /\ DOMAIN pfile = Half /\ f # g
  BY <1>1, <1>5, ConstFacts DEF PipeFiles, Wf, Half, CallInv, Kinds
<1>9. /\ ftable'[g].ref = 1 /\ ftable'[g].type = "pipe"
      /\ ftable'[f].ref = 1 /\ ftable'[f].type = "pipe" /\ ftable[f].ref = 1 /\ ftable[g].ref = 0
      /\ \A h \in File \ {f, g} : ftable'[h] = ftable[h]
  BY <1>5, <1>8 DEF PipeFiles
<1>10. Wf(p)' = g /\ \A v \in Process \ {p} : Wf(v)' = Wf(v)
  BY <1>8 DEF Wf, Half
<1>11. u[1] = p /\ \A v \in Half : pfile[v] = f => v[1] = p
  <2>1. u[1] = p /\ <<p, FALSE>>[1] = p
    OBVIOUS
  <2>2. \A v \in Half : pfile[v] = f => v = <<p, FALSE>>
    BY <1>5 DEF PipeFiles
  <2> QED  BY <2>1, <2>2
<1> HIDE DEF u
<1>12. Counted'
  <2>1. ftable'[g].ref = 1 /\ \A h \in File \ {g} : ftable'[h].ref = ftable[h].ref
    BY <1>9
  <2>2. FilePart
    BY DEF RefInv
  <2> QED  BY <1>1, <1>8, <1>9, <2>1, <2>2, HalfTakes
<1>13. ASSUME NEW v \in Half, pfile'[v] # None PROVE HeldFile(v)'
  <2>1. CASE v = u
    BY <1>8, <1>9, <1>10, <1>11, <2>1 DEF HeldFile
  <2>2. CASE v # u
    <3>1. pfile'[v] = pfile[v] /\ pfile[v] # None /\ pfile[v] \in File /\ pfile[v] # g
      BY <1>5, <1>8, <1>13, <2>2 DEF CallInv, Kinds, PipeFiles
    <3>2. CASE pfile[v] = f
      BY <1>8, <1>9, <1>10, <1>11, <3>1, <3>2 DEF HeldFile
    <3>3. CASE pfile[v] # f
      <4>1. ftable'[pfile[v]] = ftable[pfile[v]]
        BY <1>9, <3>1, <3>3
      <4>2. Wf(v[1])' = None => Wf(v[1]) = None
        BY <1>8, <1>10 DEF Half
      <4>3. HeldFiles
        BY DEF RefInv, FilePart
      <4> QED  BY ONLY v \in Half, <3>1, <4>1, <4>2, <4>3, HeldKept
    <3> QED  BY <3>2, <3>3
  <2> QED  BY <2>1, <2>2
<1>14. HeldFiles'
  BY <1>13 DEF HeldFiles
<1> QED  BY <1>7, <1>12, <1>14 DEF RefInv, FilePart

LEMMA RefsPipeMade ==
  ASSUME CallInv, RefInv, NEW p \in Process, PipeMade(p) PROVE RefInv'
<1> DEFINE c == Least(FreeFds(p))
           d == Least(FreeFds(p) \ {c})
           u == <<p, FALSE>>
<1>1. /\ pc[p] = "pipealloc" /\ pc' = [pc EXCEPT ![p] = "user"] /\ FreeFiles # {}
      /\ Pipealloc(Rf(p), Least(FreeFiles)) /\ Cardinality(FreeFds(p)) >= 2
      /\ ofile' = [ofile EXCEPT ![p][c] = Rf(p), ![p][d] = Least(FreeFiles)]
      /\ pfile' = [pfile EXCEPT ![u] = None]
      /\ UNCHANGED <<ip, other, iref>>
  BY DEF PipeMade, Move, Rf, inodeVars, icacheVars, argVars
<1>2. UNCHANGED request
  BY <1>1 DEF Pipealloc, CreatePipe
<1>3. PICK f, g \in File : \E q \in Pipe : \E x, y : PipeFiles(p, f, g, q, x, y)
  BY <1>1, PipeFilesAre
<1>4. PICK q \in Pipe : \E x, y : PipeFiles(p, f, g, q, x, y)
  BY <1>3
<1>5. PICK x, y : PipeFiles(p, f, g, q, x, y)
  BY <1>4
<1>6. SameClosing
  BY <1>1, <1>2, OneStepCloses
<1>7. EntryPart' /\ EndPart'
  BY <1>1, <1>5, <1>6, PipeFilesEnds
<1>8. c \in FD /\ d \in FD /\ c # d /\ ofile[p][c] = None /\ ofile[p][d] = None
  BY <1>1, TwoFreeFds DEF FreeFds
<1>9. /\ ofile \in [Process -> [FD -> File \cup {None}]] /\ f # None /\ g # None
      /\ DOMAIN ftable = File /\ DOMAIN pfile = Half /\ u \in Half
  BY ConstFacts DEF CallInv, Kinds, Half
<1>10. ofile' = [ofile EXCEPT ![p][c] = f, ![p][d] = g] /\ f = pfile[u] /\ Wf(p) = None
  BY <1>1, <1>5 DEF PipeFiles, Rf
<1>11. /\ ftable'[g].ref = 1 /\ ftable'[f].ref = 1 /\ ftable[f].ref = 1 /\ ftable[g].ref = 0
       /\ f # g /\ \A h \in File \ {f, g} : ftable'[h] = ftable[h]
  BY <1>5, <1>9 DEF PipeFiles
<1>12. /\ \A v \in Half : pfile[v] = f => v = u
       /\ \A v \in Half : pfile[v] # g
       /\ \A v \in Process : \A b \in FD : ofile[v][b] # f
  BY <1>5 DEF PipeFiles
<1>13. \A v \in Process : Wf(v)' = Wf(v)
  BY <1>1, <1>9 DEF Wf, Half
<1>14. ASSUME NEW v \in Half PROVE v[1] \in Process /\ (v[1] = p => v = u \/ pfile[v] = None)
  <2>1. PICK t \in Process, b \in BOOLEAN : v = <<t, b>>
    BY DEF Half
  <2>2. v[1] = t /\ (t = p => b = TRUE \/ v = u)
    BY <2>1
  <2>3. t = p /\ b = TRUE => pfile[v] = None
    BY <1>10, <2>1 DEF Wf
  <2> QED  BY <2>2, <2>3
<1>15. \A v \in Process : \A b \in FD : ofile[v][b] # g
  <2>1. FilePart
    BY DEF RefInv
  <2> QED  BY ONLY CallInv, <1>11, <2>1, g \in File, FreeFileKnown
<1> HIDE DEF c, d, u
<1>16. ASSUME NEW h \in File
       PROVE  ftable'[h].ref = Cardinality(Fds(ofile', h)) + Count(Half, pfile', h)
                                 + (IF h = Console THEN 1 ELSE 0)
  <2>1. ftable[h].ref = Cardinality(Fds(ofile, h)) + Count(Half, pfile, h)
                          + (IF h = Console THEN 1 ELSE 0)
    BY DEF RefInv, FilePart, Counted
  <2>2. Cardinality(Fds(ofile, h)) \in Nat /\ Count(Half, pfile, h) \in Nat /\ h # None
    BY FileTypes, ConstFacts
  <2>3. pfile'[u] = None /\ pfile[u] = f /\ \A v \in Half : v # u => pfile[v] = pfile'[v]
    BY <1>1, <1>9, <1>10
  <2>4. /\ h = f => Count(Half, pfile', h) = Count(Half, pfile, h) - 1
        /\ h # f => Count(Half, pfile, h) = Count(Half, pfile', h)
    <3>1. f # None /\ h # None /\ u \in Half
      BY <1>9, <2>2
    <3> HIDE DEF Half
    <3> QED  BY ONLY <2>3, <3>1, HalfMoved
  <2>5. \A v \in Process : \A b \in FD :
          ofile'[v][b] = IF v = p /\ b = d THEN g ELSE IF v = p /\ b = c THEN f ELSE ofile[v][b]
    BY <1>8, <1>9, <1>10
  <2>6. CASE h = f
    <3>1. <<p, c>> \notin Fds(ofile, h) /\ Fds(ofile', h) = Fds(ofile, h) \cup {<<p, c>>}
      BY <1>8, <1>9, <1>11, <1>12, <2>5, <2>6 DEF Fds
    <3>2. Cardinality(Fds(ofile', h)) = Cardinality(Fds(ofile, h)) + 1
      BY ONLY <3>1, FdsMore
    <3>3. ftable'[h].ref = ftable[h].ref
      BY <1>11, <2>6
    <3> QED  BY <2>1, <2>2, <2>4, <2>6, <3>2, <3>3
  <2>7. CASE h = g
    <3>1. <<p, d>> \notin Fds(ofile, h) /\ Fds(ofile', h) = Fds(ofile, h) \cup {<<p, d>>}
      BY <1>8, <1>9, <1>11, <1>15, <2>5, <2>7 DEF Fds
    <3>2. Cardinality(Fds(ofile', h)) = Cardinality(Fds(ofile, h)) + 1
      BY ONLY <3>1, FdsMore
    <3>3. ftable'[h].ref = ftable[h].ref + 1 /\ h # f
      BY <1>11, <2>7
    <3> QED  BY <2>1, <2>2, <2>4, <2>7, <3>2, <3>3
  <2>8. CASE h # f /\ h # g
    <3>1. \A v \in Process : \A b \in FD : ofile'[v][b] = h <=> ofile[v][b] = h
      BY ONLY <1>8, <2>2, <2>5, <2>8
    <3>2. Cardinality(Fds(ofile', h)) = Cardinality(Fds(ofile, h))
      BY ONLY <3>1, FdsSame
    <3>3. ftable'[h].ref = ftable[h].ref
      BY <1>11, <2>8
    <3> QED  BY <2>1, <2>4, <2>8, <3>2, <3>3
  <2> QED  BY <2>6, <2>7, <2>8
<1>17. Counted'
  BY <1>16, CountsThen
<1>18. ASSUME NEW v \in Half, pfile'[v] # None PROVE HeldFile(v)'
  <2>1. v # u /\ pfile'[v] = pfile[v] /\ pfile[v] # None /\ pfile[v] # f /\ pfile[v] # g
    BY <1>1, <1>9, <1>12, <1>18
  <2>2. ftable'[pfile[v]] = ftable[pfile[v]]
    BY <1>11, <2>1 DEF CallInv, Kinds
  <2>3. Wf(v[1])' = None => Wf(v[1]) = None
    BY <1>13, <1>14
  <2>4. HeldFiles
    BY DEF RefInv, FilePart
  <2> QED  BY ONLY v \in Half, <2>1, <2>2, <2>3, <2>4, HeldKept
<1>19. HeldFiles'
  BY <1>18 DEF HeldFiles
<1> QED  BY <1>7, <1>17, <1>19 DEF RefInv, FilePart

(* fork(): the child's descriptors are those of its parent.                *)
LEMMA Joined ==
  ASSUME NEW A, IsFiniteSet(A), NEW B, IsFiniteSet(B), A \cap B = {}, NEW C, C = A \cup B
  PROVE  IsFiniteSet(C) /\ Cardinality(C) = Cardinality(A) + Cardinality(B)
<1>1. Cardinality(A \cap B) = 0
  BY FS_EmptySet
<1>2. Cardinality(A) \in Nat /\ Cardinality(B) \in Nat
  BY FS_CardinalityType
<1>3. /\ IsFiniteSet(A \cup B)
      /\ Cardinality(A \cup B) = Cardinality(A) + Cardinality(B) - Cardinality(A \cap B)
  BY FS_Union
<1> QED  BY <1>1, <1>2, <1>3

LEMMA Row ==
  ASSUME NEW c, NEW D, IsFiniteSet(D)
  PROVE  IsFiniteSet({c} \X D) /\ Cardinality({c} \X D) = Cardinality(D)
<1>1. IsFiniteSet({c}) /\ Cardinality({c}) = 1
  BY FS_Singleton
<1>2. Cardinality({c} \X D) = Cardinality({c}) * Cardinality(D)
  BY <1>1, FS_Product
<1>3. Cardinality(D) \in Nat
  BY FS_CardinalityType
<1>4. Cardinality({c} \X D) = Cardinality(D)
  BY <1>1, <1>2, <1>3
<1> QED  BY <1>1, <1>4, FS_Product

LEMMA RefsFork ==
  ASSUME CallInv, RefInv, NEW p \in Process, NEW child \in Process, Fork(p, child)
  PROVE  RefInv'
<1> DEFINE D(g) == {fd \in FD : ofile[p][fd] = g}
<1>1. /\ pc[child] = "dead" /\ pc' = [pc EXCEPT ![child] = "user"]
      /\ ofile' = [ofile EXCEPT ![child] = ofile[p]] /\ ftable' = Shared(p)
      /\ UNCHANGED <<ip, other, iref, pfile, request, readopen, writeopen>>
  BY DEF Fork, Running, pipeVars, pipeState, inodeVars, icacheVars, argVars
<1>2. /\ ofile \in [Process -> [FD -> File \cup {None}]] /\ ofile[child] = NoFd
      /\ ftable \in [File -> FileEntry]
  BY <1>1 DEF CallInv, Kinds, Shape
<1>3. ASSUME NEW g
      PROVE  IsFiniteSet(D(g)) /\ Cardinality(D(g)) \in Nat
  <2>1. D(g) \in SUBSET FD
    OBVIOUS
  <2> QED  BY <2>1, FdFinite, FS_Subset, FS_CardinalityType
<1>4. ASSUME NEW g \in File
      PROVE  /\ ftable'[g].ref = ftable[g].ref + Cardinality(D(g))
             /\ ftable'[g].type = ftable[g].type /\ ftable'[g].obj = ftable[g].obj
             /\ ftable'[g].writable = ftable[g].writable
             /\ Cardinality(D(g)) = 0 => ftable'[g] = ftable[g]
  <2> DEFINE n == Cardinality(D(g))
             x == [ftable[g] EXCEPT !.ref = @ + n]
  <2>1. ftable'[g] = x
    BY <1>1 DEF Shared
  <2>2. ftable[g] \in FileEntry /\ n \in Nat
    BY <1>2, <1>3
  <2> HIDE DEF n
  <2>3. /\ x.ref = ftable[g].ref + n /\ x.type = ftable[g].type /\ x.obj = ftable[g].obj
        /\ x.writable = ftable[g].writable
        /\ n = 0 => x = ftable[g]
    BY <2>2 DEF FileEntry
  <2> HIDE DEF x
  <2> QED  BY <2>1, <2>3 DEF n
<1>5. SameEntries /\ SamePipeFiles /\ SameClosing
  <2>1. SameEntries /\ SamePipeFiles
    BY <1>1, <1>4 DEF SameEntries, SamePipeFiles
  <2> QED  BY <1>1, <2>1, OneStepCloses
<1>6. ASSUME NEW g \in File
      PROVE  Cardinality(Fds(ofile', g)) = Cardinality(Fds(ofile, g)) + Cardinality(D(g))
  <2> DEFINE A == Fds(ofile, g)
             B == {child} \X D(g)
             C == Fds(ofile', g)
  <2>1. IsFiniteSet(A) /\ IsFiniteSet(B) /\ Cardinality(B) = Cardinality(D(g))
    <3>1. IsFiniteSet(D(g))
      BY <1>3
    <3> HIDE DEF D
    <3> QED  BY <3>1, FdsFinite, Row
  <2>2. \A fd \in FD : ofile[child][fd] # g
    BY <1>2, ConstFacts DEF NoFd
  <2>3. \A q \in Process : ofile'[q] = IF q = child THEN ofile[p] ELSE ofile[q]
    BY <1>1, <1>2
  <2>4. A \cap B = {}
    BY <2>2 DEF Fds
  <2>5. C = A \cup B
    BY <2>2, <2>3 DEF Fds
  <2> HIDE DEF A, B, C
  <2>6. Cardinality(C) = Cardinality(A) + Cardinality(B)
    BY ONLY <2>1, <2>4, <2>5, Joined
  <2> QED  BY <2>1, <2>6 DEF A, C
<1>7. ASSUME NEW g \in File
      PROVE  ftable'[g].ref = Cardinality(Fds(ofile', g)) + Count(Half, pfile', g)
                                + (IF g = Console THEN 1 ELSE 0)
  <2>1. ftable[g].ref = Cardinality(Fds(ofile, g)) + Count(Half, pfile, g)
                          + (IF g = Console THEN 1 ELSE 0)
    BY DEF RefInv, FilePart, Counted
  <2>2. Cardinality(Fds(ofile, g)) \in Nat /\ Count(Half, pfile, g) \in Nat
    BY FileTypes
  <2>3. Cardinality(D(g)) \in Nat
    BY <1>3
  <2>4. Count(Half, pfile', g) = Count(Half, pfile, g)
    BY <1>1
  <2> HIDE DEF D
  <2> QED  BY <1>4, <1>6, <2>1, <2>2, <2>3, <2>4
<1>8. ASSUME NEW v \in Half, pfile'[v] # None PROVE HeldFile(v)'
  <2>1. pfile[v] # None /\ pfile'[v] = pfile[v] /\ (Wf(v[1])' = None => Wf(v[1]) = None)
    BY <1>1, <1>8 DEF Wf
  <2>2. pfile[v] \in File /\ \A d \in FD : ofile[p][d] # pfile[v]
    BY <2>1, HeldFileKnown DEF RefInv
  <2>3. D(pfile[v]) = {}
    BY <2>2
  <2>4. Cardinality(D(pfile[v])) = 0
    BY <2>3, FS_EmptySet
  <2> HIDE DEF D
  <2>5. ftable'[pfile[v]] = ftable[pfile[v]]
    BY <1>4, <2>2, <2>4
  <2>6. HeldFiles
    BY DEF RefInv, FilePart
  <2> QED  BY ONLY v \in Half, <2>1, <2>5, <2>6, HeldKept
<1>9. FilePart'
  <2>1. Counted'
    BY <1>7, CountsThen
  <2>2. HeldFiles'
    BY <1>8 DEF HeldFiles
  <2> QED  BY <2>1, <2>2 DEF FilePart
<1> QED  BY <1>1, <1>5, <1>9, EntriesKept, EndsKept DEF RefInv

-----------------------------------------------------------------------------
(* References: the start, every step                                       *)

LEMMA CountNone ==
  ASSUME NEW g, NEW u, \A q \in Process : g[q] # u PROVE Count(Process, g, u) = 0
<1>1. {q \in Process : g[q] = u} = {}
  OBVIOUS
<1> QED  BY <1>1, FS_EmptySet DEF Count

LEMMA FdsNone ==
  ASSUME NEW o, NEW f, \A q \in Process : \A c \in FD : o[q][c] # f
  PROVE  Cardinality(Fds(o, f)) = 0
<1>1. Fds(o, f) = {}
  BY DEF Fds
<1> QED  BY <1>1, FS_EmptySet

LEMMA FdsColumn ==
  ASSUME NEW S, IsFiniteSet(S), S \subseteq Process, NEW o, NEW f, NEW d \in FD,
         \A q \in Process : \A c \in FD : o[q][c] = f <=> q \in S /\ c = d
  PROVE  Cardinality(Fds(o, f)) = Cardinality(S)
<1>1. IsFiniteSet({d}) /\ Cardinality({d}) = 1
  BY FS_Singleton
<1>2. Cardinality(S \X {d}) = Cardinality(S) * Cardinality({d})
  BY <1>1, FS_Product
<1>3. Cardinality(S) \in Nat
  BY FS_CardinalityType
<1>4. Fds(o, f) = S \X {d}
  BY DEF Fds
<1> QED  BY <1>1, <1>2, <1>3, <1>4

LEMMA CountNoHalf ==
  ASSUME NEW u, u # None, \A v \in Half : pfile[v] = None PROVE Count(Half, pfile, u) = 0
<1>1. {v \in Half : pfile[v] = u} = {}
  OBVIOUS
<1> QED  BY <1>1, FS_EmptySet DEF Count

LEMMA RefsInit == Init => RefInv
<1> SUFFICES ASSUME Init PROVE RefInv
  OBVIOUS
<1>1. /\ \A v \in Half : pfile[v] = None
      /\ \A q \in Process : ip[q] = None /\ other[q] = None
      /\ \A q \in Process : pc[q] # "pipeclose"
      /\ readopen = {} /\ writeopen = {}
  BY DEF Init, InitPipes, InitInodes, Half
<1>2. /\ \A f \in File : Count(Half, pfile, f) = 0
      /\ \A s \in Slot : Count(Process, ip, s) = 0 /\ Count(Process, other, s) = 0
  BY <1>1, CountNone, CountNoHalf, ConstFacts
<1>3. NoFile.ref = 0 /\ NoFile.type = "none"
  BY DEF NoFile
<1>4. IsFiniteSet(Process) /\ Cardinality(Process) \in Nat /\ First \in Process
  BY ProcessAssumption, ProcessCount
<1> SUFFICES /\ \A f \in File : ftable[f].ref =
                  Cardinality(Fds(ofile, f)) + (IF f = Console THEN 1 ELSE 0)
             /\ \A s \in Slot : iref[s] = Cardinality(FilesOn(s))
             /\ \A f \in File : ftable[f].type # "pipe"
  <2>1. FilePart
    <3>1. ASSUME NEW f \in File
          PROVE  ftable[f].ref = Cardinality(Fds(ofile, f)) + Count(Half, pfile, f)
                                   + (IF f = Console THEN 1 ELSE 0)
      <4>1. Cardinality(Fds(ofile, f)) \in Nat /\ Count(Half, pfile, f) = 0
        BY <1>2, FdsFinite
      <4>2. ftable[f].ref = Cardinality(Fds(ofile, f)) + (IF f = Console THEN 1 ELSE 0)
        OBVIOUS
      <4> QED  BY <4>1, <4>2
    <3> QED  BY <1>1, <3>1 DEF FilePart, Counted, HeldFiles
  <2>2. EntryPart
    <3>1. \A s \in Slot : Cardinality(FilesOn(s)) \in Nat
      BY FilesFinite
    <3> QED  BY <1>2, <3>1 DEF EntryPart
  <2>3. EndPart
    <3>1. \A q, b : Ends(q, b) = {} /\ Closing(q, b) = {}
      BY <1>1 DEF Ends, Closing
    <3>2. \A q, b : Cardinality(Ends(q, b)) = 0 /\ Cardinality(Closing(q, b)) = 0
      BY <3>1, FS_EmptySet
    <3> QED  BY <1>1, <3>2 DEF EndPart
  <2> QED  BY <2>1, <2>2, <2>3 DEF RefInv
<1>5. ASSUME NEW n \in Nat, ftable = InitialFiles(n), \A s \in Slot : iref[s] = 0,
             n = Cardinality(Fds(ofile, Console)),
             \A f \in File \ {Console} : Cardinality(Fds(ofile, f)) = 0
      PROVE  /\ \A f \in File : ftable[f].ref =
                  Cardinality(Fds(ofile, f)) + (IF f = Console THEN 1 ELSE 0)
             /\ \A s \in Slot : iref[s] = Cardinality(FilesOn(s))
             /\ \A f \in File : ftable[f].type # "pipe"
  <2>1. \A f \in File : /\ ftable[f].type \in {"none", "device"}
                        /\ ftable[f].ref = IF f = Console THEN n + 1 ELSE 0
    BY <1>3, <1>5, FirstFiles
  <2>2. \A s \in Slot : FilesOn(s) = {}
    BY <2>1 DEF FilesOn
  <2>3. \A s \in Slot : Cardinality(FilesOn(s)) = 0
    BY <2>2, FS_EmptySet
  <2> QED  BY <1>5, <2>1, <2>3
<1>6. CASE workload = "pipes"
  <2> DEFINE a == [NoFd EXCEPT ![0] = Console]
  <2>1. /\ ftable = InitialFiles(1)
        /\ ofile = [q \in Process |-> IF q = First THEN a ELSE NoFd]
        /\ \A s \in Slot : iref[s] = 0
    BY <1>6 DEF Init, InitInodes
  <2>2. \A c \in FD : NoFd[c] = None /\ a[c] = IF c = 0 THEN Console ELSE None
    BY ConstFacts DEF NoFd
  <2> HIDE DEF a
  <2>3. \A q \in Process : \A c \in FD :
          ofile[q][c] = IF c = 0 /\ q = First THEN Console ELSE None
    BY <2>1, <2>2
  <2>4. \A f \in File \ {Console} : Cardinality(Fds(ofile, f)) = 0
    BY <2>3, ConstFacts, FdsNone
  <2>5. IsFiniteSet({First}) /\ Cardinality({First}) = 1 /\ {First} \subseteq Process
    BY <1>4, FS_Singleton
  <2>6. \A q \in Process : \A c \in FD : ofile[q][c] = Console <=> q \in {First} /\ c = 0
    BY <2>3, ConstFacts
  <2>7. Cardinality(Fds(ofile, Console)) = Cardinality({First})
    BY ONLY <2>5, <2>6, ConstFacts, FdsColumn
  <2> QED  BY <1>5, <2>1, <2>4, <2>5, <2>7
<1>7. CASE workload \in {"names", "console"}
  <2>1. /\ ftable = InitialFiles(Cardinality(Process))
        /\ ofile = [q \in Process |-> [NoFd EXCEPT ![0] = Console]]
        /\ \A s \in Slot : iref[s] = 0
    BY <1>7 DEF Init, InitInodes
  <2>2. \A q \in Process : \A c \in FD : ofile[q][c] = IF c = 0 THEN Console ELSE None
    BY <2>1 DEF NoFd
  <2>3. \A f \in File \ {Console} : Cardinality(Fds(ofile, f)) = 0
    BY <2>2, ConstFacts, FdsNone
  <2>4. \A q \in Process : \A c \in FD : ofile[q][c] = Console <=> q \in Process /\ c = 0
    BY <2>2, ConstFacts
  <2>5. Cardinality(Fds(ofile, Console)) = Cardinality(Process)
    BY ONLY <1>4, <2>4, ConstFacts, FdsColumn
  <2> QED  BY <1>4, <1>5, <2>1, <2>3, <2>5
<1>8. CASE workload = "contents"
  <2> DEFINE x == [NewFile("inode", 1, TRUE) EXCEPT !.ref = Cardinality(Process)]
             y == [NewFile("inode", 2, TRUE) EXCEPT !.ref = Cardinality(Process) - 1]
             a == [NoFd EXCEPT ![0] = 1]
             b == [NoFd EXCEPT ![0] = 1, ![1] = 2]
  <2>1. /\ ftable = [InitialFiles(0) EXCEPT ![1] = x, ![2] = y]
        /\ ofile = [q \in Process |-> IF q = First THEN a ELSE b]
        /\ \A s \in Slot : iref[s] = IF s \in {1, 2} THEN 1 ELSE 0
    BY <1>8 DEF Init, InitInodes
  <2>2. /\ x.ref = Cardinality(Process) /\ x.type = "inode" /\ x.obj = 1
        /\ y.ref = Cardinality(Process) - 1 /\ y.type = "inode" /\ y.obj = 2
    BY DEF NewFile
  <2>3. /\ \A c \in FD : a[c] = IF c = 0 THEN 1 ELSE None
        /\ \A c \in FD : b[c] = IF c = 0 THEN 1 ELSE IF c = 1 THEN 2 ELSE None
    BY ConstFacts DEF NoFd
  <2> HIDE DEF x, y, a, b
  <2>4. \A q \in Process : \A c \in FD :
          ofile[q][c] = IF c = 0 THEN 1 ELSE IF c = 1 /\ q # First THEN 2 ELSE None
    BY <2>1, <2>3
  <2>5. Cardinality(Fds(ofile, 1)) = Cardinality(Process)
    <3>1. \A q \in Process : \A c \in FD : ofile[q][c] = 1 <=> q \in Process /\ c = 0
      BY <2>4, ConstFacts
    <3> QED  BY ONLY <1>4, <3>1, ConstFacts, FdsColumn
  <2>6. Cardinality(Fds(ofile, 2)) = Cardinality(Process) - 1
    <3>1. \A q \in Process : \A c \in FD :
            ofile[q][c] = 2 <=> q \in Process \ {First} /\ c = 1
      BY <2>4, ConstFacts
    <3>2. /\ IsFiniteSet(Process \ {First})
          /\ Cardinality(Process \ {First}) = Cardinality(Process) - 1
      BY <1>4, FS_RemoveElement
    <3>3. Process \ {First} \subseteq Process
      OBVIOUS
    <3>4. Cardinality(Fds(ofile, 2)) = Cardinality(Process \ {First})
      BY ONLY <3>1, <3>2, <3>3, ConstFacts, FdsColumn
    <3> QED  BY <3>2, <3>4
  <2>7. \A f \in File \ {1, 2} : Cardinality(Fds(ofile, f)) = 0
    BY <2>4, ConstFacts, FdsNone
  <2>8. \A f \in File : /\ f = 1 => ftable[f] = x
                        /\ f = 2 => ftable[f] = y
                        /\ f \notin {1, 2} => ftable[f] = InitialFiles(0)[f]
    BY <2>1, FirstFiles
  <2>9. \A f \in File \ {1, 2} : /\ ftable[f].type \in {"none", "device"}
                                 /\ ftable[f].ref = IF f = Console THEN 1 ELSE 0
    BY <1>3, <2>8, FirstFiles
  <2>10. FilesOn(1) = {1} /\ FilesOn(2) = {2} /\ \A s \in Slot \ {1, 2} : FilesOn(s) = {}
    <3>1. \A f \in File : /\ ftable[f].type = "inode" <=> f \in {1, 2}
                          /\ f \in {1, 2} => ftable[f].obj = f
      BY <2>2, <2>8, <2>9
    <3>2. ASSUME NEW s PROVE \A f \in File : f \in FilesOn(s) <=> f \in {1, 2} /\ f = s
      BY <3>1 DEF FilesOn
    <3>3. \A s : FilesOn(s) \subseteq File
      BY DEF FilesOn
    <3>4. ASSUME NEW s \in File, s \in {1, 2} PROVE FilesOn(s) = {s}
      <4>1. \A f \in File : f \in FilesOn(s) <=> f = s
        BY <3>2, <3>4
      <4> QED  BY <3>3, <4>1
    <3>5. FilesOn(1) = {1} /\ FilesOn(2) = {2}
      BY <3>4, ConstFacts
    <3>6. \A s \in Slot \ {1, 2} : FilesOn(s) = {}
      BY <3>2, <3>3
    <3> QED  BY <3>4, <3>5, <3>6
  <2>11. \A s \in Slot : iref[s] = Cardinality(FilesOn(s))
    <3>1. /\ Cardinality(FilesOn(1)) = 1 /\ Cardinality(FilesOn(2)) = 1
          /\ \A s \in Slot \ {1, 2} : Cardinality(FilesOn(s)) = 0
      BY <2>10, FS_Singleton, FS_EmptySet
    <3> QED  BY <2>1, <3>1
  <2>12. \A f \in File : ftable[f].ref =
           Cardinality(Fds(ofile, f)) + (IF f = Console THEN 1 ELSE 0)
    <3> TAKE f \in File
    <3>1. CASE f = 1
      BY <1>4, <2>2, <2>5, <2>8, <3>1, ConstFacts
    <3>2. CASE f = 2
      BY <1>4, <2>2, <2>6, <2>8, <3>2, ConstFacts
    <3>3. CASE f \notin {1, 2}
      BY <2>7, <2>9, <3>3
    <3> QED  BY <3>1, <3>2, <3>3
  <2> QED  BY <2>2, <2>8, <2>9, <2>11, <2>12
<1> QED  BY <1>6, <1>7, <1>8 DEF Init

LEMMA RefsStep == CallInv /\ RefInv /\ [Next]_vars => RefInv'
<1> SUFFICES ASSUME CallInv, RefInv, [Next]_vars PROVE RefInv'
  OBVIOUS
<1>1. ASSUME NEW p \in Process, Descriptors(p) PROVE RefInv'
  BY <1>1, RefsDup, RefsClose, QuietCalls DEF Descriptors
<1>2. ASSUME NEW p \in Process, OnPipe(p) PROVE RefInv'
  BY <1>2, QuietPipeStep, RefsPipeclose DEF OnPipe, PipeStep
<1>3. ASSUME NEW p \in Process, OnInode(p) PROVE RefInv'
  BY <1>3, RefsInode
<1>4. ASSUME NEW p \in Process, OnContents(p) PROVE RefInv'
  BY <1>4, QuietWriteStep DEF OnContents
<1>5. ASSUME NEW p \in Process, MakePipe(p) PROVE RefInv'
  BY <1>5, RefsPipeFirstFile, RefsPipeNoFile, RefsPipeNoPage, RefsPipeMade, RefsPipeNoFds,
     RefsPipeCloses DEF MakePipe
<1>6. ASSUME NEW p \in Process, OpenFile(p) \/ OpenFails(p) PROVE RefInv'
  BY <1>6, RefsOpenFile, QuietLife
<1>7. ASSUME NEW p \in Process, Life(p) PROVE RefInv'
  BY <1>7, QuietLife, RefsClose, RefsFork DEF Life
<1>8. CASE Keyboard \/ \E p \in Process : OnConsole(p)
  BY <1>8, QuietConsole DEF OnConsole, Keyboard
<1>9. CASE UNCHANGED vars
  <2>1. /\ UNCHANGED <<ftable, ofile, pfile, ip, other, iref, readopen, writeopen>>
        /\ UNCHANGED <<pc, request>>
    BY <1>9 DEF vars, callVars, pipeVars, pipeState, inodeVars, icacheVars, argVars, fileVars
  <2> QED  BY <2>1, QuietRefs DEF SameClosing
<1> QED  BY <1>1, <1>2, <1>3, <1>4, <1>5, <1>6, <1>7, <1>8, <1>9 DEF Next

(* The two invariants need each other.                                     *)
LEMMA CallsAndRefs == Spec => [](CallInv /\ RefInv)
<1>1. Init => CallInv /\ RefInv
  BY CallInit, RefsInit
<1>2. CallInv /\ RefInv /\ [Next]_vars => (CallInv /\ RefInv)'
  BY CallStep, RefsStep DEF RefInv, FilePart
<1> QED  BY <1>1, <1>2, PTL DEF Spec

(* CallInv holds in every reachable state: where each call is determines   *)
(* its arguments and which locks it holds, and nobody else holds any.      *)
THEOREM CallsKeepShape == Spec => []CallInv
<1> QED  BY CallsAndRefs, PTL

(* OnlyDirectoryPutsDeadlock, for any number of processes and inodes: the  *)
(* locks of fs.c are taken in an order (the directory before an inode), so *)
(* that no set of processes waits for itself, but for unlink() and         *)
(* create(), which put the directory while they hold the inode's lock.     *)
THEOREM NoOtherDeadlock == Spec => []OnlyDirectoryPutsDeadlock
<1>1. CallInv => OnlyDirectoryPutsDeadlock
  <2> SUFFICES ASSUME CallInv, NEW S \in (SUBSET Process) \ {{}},
                      \A p \in S : WaitsForOneOf(p, S)
               PROVE  \E p \in S : pc[p] \in {"created", "unlinked"}
    BY DEF OnlyDirectoryPutsDeadlock
  <2> SUFFICES ASSUME \A p \in S : pc[p] \notin {"created", "unlinked"}
               PROVE  FALSE
    OBVIOUS
  <2>0. S # {} /\ S \subseteq Process
    OBVIOUS
  <2>1. ASSUME NEW p \in S, pc[p] \in HoldsInode \cup {"writei"} PROVE FALSE
    <3>1. LockWanted(p) = {}
      BY <2>1 DEF LockWanted, HoldsInode
    <3> QED  BY <3>1 DEF WaitsForOneOf
  <2>2. ASSUME NEW p \in S, pc[p] \in {"create", "unlink", "link_taken"} PROVE FALSE
    <3>1. LockWanted(p) \subseteq Slot
      BY <2>2, Has DEF LockWanted, InodeCall
    <3>2. PICK l \in Slot : locked[l] \in S
      BY <3>1 DEF WaitsForOneOf
    <3>3. Holds(locked[l], l)
      BY <3>2 DEF CallInv, LocksOf
    <3> QED  BY <2>1, <3>2, <3>3 DEF Holds
  <2>3. PICK p \in S : TRUE
    BY <2>0
  <2>4. PICK l \in LockWanted(p) : locked[l] \in S
    BY DEF WaitsForOneOf
  <2>5. l \in Slot \cup {Root}
    BY <2>4, Has DEF LockWanted, InodeCall
  <2>6. CASE l = Root
    BY <2>2, <2>4, <2>6 DEF CallInv, LocksOf, HoldsRoot
  <2>7. CASE l \in Slot
    BY <2>1, <2>4, <2>7 DEF CallInv, LocksOf, Holds
  <2> QED  BY <2>5, <2>6, <2>7
<1> QED  BY <1>1, CallsKeepShape, PTL

(* RefCounts, for any tables and any number of processes: the reference    *)
(* count of an open file is the number of its descriptors, of the calls of *)
(* pipe() that have it and, of the console, init's; an icache entry's is   *)
(* the number of files and calls that have it; and an end of a pipe is     *)
(* open while one file has it or one call is about to close it.            *)
THEOREM ReferencesCounted == Spec => []RefCounts
<1> QED  BY CallsAndRefs, RefInvIsRefCounts, PTL

-----------------------------------------------------------------------------
(***************************************************************************)
(* Names                                                                   *)
(***************************************************************************)

-----------------------------------------------------------------------------
(* What holds of names, inodes and their entries                           *)

DiskInode == [type : BOOLEAN, nlink : Int]

(* An entry in use is the only one of its inode; what it has read of it is *)
(* what is on the disk.                                                    *)
Cached ==
  /\ dinode \in [Inum -> DiskInode] /\ dir \in [Name -> Inum \cup {None}]
  /\ \A s \in Slot : iref[s] > 0 =>
       /\ inum[s] \in Inum
       /\ copy[s] # None => copy[s] = dinode[inum[s]] /\ dinode[inum[s]].type
  /\ \A s, t \in Slot : iref[s] > 0 /\ iref[t] > 0 /\ inum[s] = inum[t] => s = t

(* The names an inode has, and those that calls are about to give or take  *)
Owes == {"unlinked", "link_dir", "link_taken", "link_back"}
owed == [p \in Process |-> IF pc[p] \in Owes THEN inum[ip[p]] ELSE None]
Links == \A i \in Inum : dinode[i].nlink = Count(Name, dir, i) + Count(Process, owed, i)

Typed ==
  /\ \A n \in Name : dir[n] # None => dinode[dir[n]].type
  /\ \A s \in Slot : Relied(s) => dinode[inum[s]].type

(* What calls have found out on their way and still rely on                *)
ReadIn == {"opened", "created", "unlinked", "link_dir", "link_taken", "link_back", "put", "free"}
Progress(p) ==
  /\ pc[p] = "create" =>
       /\ dinode[inum[ip[p]]].nlink = 0 /\ dir[name[p]] = None
       /\ \A q \in Process \ {p} : ip[q] = ip[p] => pc[q] = "drop"
       /\ \A q \in Process : other[q] # ip[p]
       /\ \A f \in File : ftable[f].type = "inode" => ftable[f].obj # ip[p]
  /\ pc[p] = "unlink" => dir[name[p]] = inum[ip[p]]
  /\ pc[p] = "free" => iref[ip[p]] = 1 /\ dinode[inum[ip[p]]].nlink = 0
  /\ pc[p] = "link_taken" => \E n \in Name : dir[n] = inum[other[p]]
  /\ pc[p] \in ReadIn => copy[ip[p]] # None
ReadFiles == \A f \in File : ftable[f].type = "inode" => copy[ftable[f].obj] # None

(* Why an inode is allocated                                               *)
Kept == \A i \in Inum :
  \/ ~dinode[i].type \/ i \in raced
  \/ \E n \in Name : dir[n] = i
  \/ \E s \in Slot : inum[s] = i /\ Relied(s)

NameInv == Cached /\ Links /\ Typed /\ ReadFiles /\ Kept /\ \A p \in Process : Progress(p)

-----------------------------------------------------------------------------
(* What the counts of references say                                       *)

LEMMA CountMember ==
  ASSUME NEW g, NEW u, NEW p \in Process, g[p] = u
  PROVE  /\ Count(Process, g, u) > 0
         /\ \A q \in Process : g[q] = u /\ q # p => Count(Process, g, u) > 1
<1> DEFINE A == {x \in Process : g[x] = u}
<1>1. IsFiniteSet(A)
  <2>1. A \in SUBSET Process
    OBVIOUS
  <2> QED  BY <2>1, ProcessAssumption, FS_Subset
<1>2. p \in A /\ \A q \in Process : g[q] = u => q \in A
  OBVIOUS
<1> HIDE DEF A
<1>3. Cardinality(A) > 0 /\ \A y \in A : y # p => Cardinality(A) > 1
  BY ONLY <1>1, <1>2, Member
<1> QED  BY <1>2, <1>3 DEF A, Count

LEMMA EntryUsed ==
  ASSUME CallInv, RefInv, NEW s \in Slot
  PROVE  /\ iref[s] \in Nat
         /\ \A p \in Process : ip[p] = s \/ other[p] = s => iref[s] > 0
         /\ \A f \in File : ftable[f].type = "inode" /\ ftable[f].obj = s => iref[s] > 0
         /\ \A p \in Process : ip[p] = s /\ iref[s] = 1 =>
              /\ \A q \in Process : (q # p => ip[q] # s) /\ other[q] # s
              /\ \A f \in File : ftable[f].type = "inode" => ftable[f].obj # s
<1> DEFINE a == Cardinality(FilesOn(s))
           b == Count(Process, ip, s)
           c == Count(Process, other, s)
<1>1. a \in Nat /\ b \in Nat /\ c \in Nat /\ iref[s] \in Nat
  BY EntryTypes DEF RefInv
<1>2. iref[s] = a + b + c
  BY DEF RefInv, EntryPart
<1>3. \A f \in File : ftable[f].type = "inode" /\ ftable[f].obj = s => a > 0
  <2> TAKE f \in File
  <2> SUFFICES ASSUME ftable[f].type = "inode", ftable[f].obj = s PROVE a > 0
    OBVIOUS
  <2>1. f \in FilesOn(s)
    BY DEF FilesOn
  <2> QED  BY <2>1, FilesFinite, Member
<1>4. \A p \in Process : ip[p] = s =>
        b > 0 /\ \A q \in Process : ip[q] = s /\ q # p => b > 1
  BY CountMember
<1>5. \A p \in Process : other[p] = s => c > 0
  BY CountMember
<1> HIDE DEF a, b, c
<1>6. \A p \in Process : ip[p] = s \/ other[p] = s => iref[s] > 0
  BY <1>1, <1>2, <1>4, <1>5
<1>7. \A f \in File : ftable[f].type = "inode" /\ ftable[f].obj = s => iref[s] > 0
  BY <1>1, <1>2, <1>3
<1>8. ASSUME NEW p \in Process, ip[p] = s, iref[s] = 1
      PROVE  /\ \A q \in Process : (q # p => ip[q] # s) /\ other[q] # s
             /\ \A f \in File : ftable[f].type = "inode" => ftable[f].obj # s
  <2>1. a = 0 /\ b = 1 /\ c = 0
    BY <1>1, <1>2, <1>4, <1>8
  <2> QED  BY <1>3, <1>4, <1>5, <1>8, <2>1
<1> QED  BY <1>1, <1>6, <1>7, <1>8

(* Changing a function in one place                                        *)
Is(x, u) == IF x = u THEN 1 ELSE 0
Changed(T, g, h, t, u) == Count(T, h, u) = Count(T, g, u) + Is(h[t], u) - Is(g[t], u)

LEMMA CountSet ==
  ASSUME NEW T, IsFiniteSet(T), NEW g, NEW h, NEW t \in T, \A x \in T \ {t} : h[x] = g[x], NEW u
  PROVE  Changed(T, g, h, t, u)
<1>1. Count(T, g, u) \in Nat /\ Count(T, h, u) \in Nat
  BY CountType
<1>2. CASE g[t] # u /\ h[t] = u
  <2>1. \A x \in T : x # t => (h[x] = u <=> g[x] = u)
    OBVIOUS
  <2>2. Count(T, h, u) = Count(T, g, u) + 1
    BY ONLY <1>2, <2>1, IsFiniteSet(T), t \in T, CountMore
  <2> QED  BY <1>1, <1>2, <2>2 DEF Is, Changed
<1>3. CASE g[t] = u /\ h[t] # u
  <2>1. \A x \in T : x # t => (g[x] = u <=> h[x] = u)
    OBVIOUS
  <2>2. Count(T, g, u) = Count(T, h, u) + 1
    BY ONLY <1>3, <2>1, IsFiniteSet(T), t \in T, CountMore
  <2> QED  BY <1>1, <1>3, <2>2 DEF Is, Changed
<1>4. CASE g[t] = u <=> h[t] = u
  <2>1. \A x \in T : h[x] = u <=> g[x] = u
    BY <1>4
  <2>2. Count(T, h, u) = Count(T, g, u)
    BY ONLY <2>1, CountSame
  <2> QED  BY <1>1, <1>4, <2>2 DEF Is, Changed
<1> QED  BY <1>2, <1>3, <1>4

LEMMA LinksStep ==
  ASSUME Links, NEW p \in Process, NEW n \in Name,
         \A q \in Process \ {p} : owed'[q] = owed[q],
         \A m \in Name \ {n} : dir'[m] = dir[m],
         \A i \in Inum : dinode'[i].nlink = dinode[i].nlink + Is(dir'[n], i) - Is(dir[n], i)
                                              + Is(owed'[p], i) - Is(owed[p], i)
  PROVE  Links'
<1> SUFFICES ASSUME NEW i \in Inum
             PROVE  dinode'[i].nlink = Count(Name, dir, i)' + Count(Process, owed, i)'
  BY DEF Links
<1>1. IsFiniteSet(Name) /\ IsFiniteSet(Process)
  BY ProcessAssumption, InodeAssumption
<1>2. Count(Name, dir', i) = Count(Name, dir, i) + Is(dir'[n], i) - Is(dir[n], i)
  <2>1. \A m \in Name \ {n} : dir'[m] = dir[m]
    OBVIOUS
  <2>2. Changed(Name, dir, dir', n, i)
    BY ONLY <1>1, <2>1, n \in Name, CountSet
  <2> QED  BY <2>2 DEF Changed
<1>3. Count(Process, owed', i) = Count(Process, owed, i) + Is(owed'[p], i) - Is(owed[p], i)
  <2>1. \A q \in Process \ {p} : owed'[q] = owed[q]
    OBVIOUS
  <2>2. Changed(Process, owed, owed', p, i)
    BY ONLY <1>1, <2>1, p \in Process, CountSet
  <2> QED  BY <2>2 DEF Changed
<1>4. Count(Name, dir, i)' = Count(Name, dir', i) /\ Count(Process, owed, i)' = Count(Process, owed', i)
  BY DEF Count
<1>5. dinode[i].nlink = Count(Name, dir, i) + Count(Process, owed, i)
  BY DEF Links
<1>6. dinode'[i].nlink = dinode[i].nlink + Is(dir'[n], i) - Is(dir[n], i)
                                         + Is(owed'[p], i) - Is(owed[p], i)
  OBVIOUS
<1>7. \A x : Is(x, i) \in Int
  BY DEF Is
<1>8. Count(Name, dir, i) \in Nat /\ Count(Process, owed, i) \in Nat
  BY <1>1, CountType
<1> QED  BY <1>2, <1>3, <1>4, <1>5, <1>6, <1>7, <1>8

(* A call that uses an entry of icache                                     *)
LEMMA Using ==
  ASSUME CallInv, RefInv, NameInv, NEW p \in Process, pc[p] \in InodeCall
  PROVE  /\ ip[p] \in Slot /\ iref[ip[p]] > 0 /\ inum[ip[p]] \in Inum
         /\ pc[p] # "drop" => dinode[inum[ip[p]]].type
         /\ \A s \in Slot : iref[s] > 0 /\ inum[s] = inum[ip[p]] => s = ip[p]
<1>1. ip[p] \in Slot
  BY Has
<1>2. iref[ip[p]] > 0
  BY <1>1, EntryUsed
<1>3. pc[p] # "drop" => Relied(ip[p])
  BY DEF Relied
<1> QED  BY <1>1, <1>2, <1>3 DEF NameInv, Cached, Typed

LEMMA ReliedUsed ==
  ASSUME CallInv, RefInv, NameInv, NEW s \in Slot, Relied(s)
  PROVE  iref[s] > 0 /\ inum[s] \in Inum /\ dinode[inum[s]].type
<1>1. iref[s] > 0
  BY EntryUsed DEF Relied
<1> QED  BY <1>1 DEF NameInv, Cached, Typed

(* Steps of a call on its inode, whether or not it holds the directory     *)
OnItsInode(p, to) ==
  /\ UNCHANGED <<inum, iref, ip, other, ftable, raced>>
  /\ pc' = [pc EXCEPT ![p] = to] /\ \A q \in Process \ {p} : name'[q] = name[q]
  /\ pc[p] \in InodeCall \ {"drop"} /\ to \in InodeCall \ {"drop"}
  /\ dinode' \in [Inum -> DiskInode] /\ dir' \in [Name -> Inum \cup {None}]
  /\ \A s \in Slot \ {ip[p]} : copy'[s] = copy[s]
  /\ \A i \in Inum \ {inum[ip[p]]} : dinode'[i] = dinode[i]
  /\ copy'[ip[p]] # None => copy'[ip[p]] = dinode'[inum[ip[p]]]
  /\ copy[ip[p]] # None => copy'[ip[p]] # None
  /\ dinode'[inum[ip[p]]].type
  /\ \A n \in Name : \/ dir'[n] = dir[n]
                     \/ (dir[n] = None /\ dir'[n] = inum[ip[p]])
                     \/ (dir[n] = inum[ip[p]] /\ dir'[n] = None)
  /\ \A q \in Process \ {p} : pc[q] \in HoldsRoot => dir' = dir

NameInvBut(p) ==
  /\ Cached /\ Typed /\ ReadFiles /\ Kept
  /\ \A q \in Process \ {p} : Progress(q)

LEMMA OnItsInodeKeeps ==
  ASSUME CallInv, RefInv, NameInv, NEW p \in Process, NEW to, OnItsInode(p, to)
  PROVE  NameInvBut(p)'
<1> DEFINE s == ip[p]
           i == inum[s]
<1>1. /\ s \in Slot /\ iref[s] > 0 /\ i \in Inum
      /\ \A t \in Slot : iref[t] > 0 /\ inum[t] = i => t = s
  BY Using DEF OnItsInode
<1>2. /\ UNCHANGED <<inum, iref, ip, other, ftable, raced>>
      /\ \A q \in Process \ {p} : name'[q] = name[q] /\ pc'[q] = pc[q]
      /\ pc[p] \in InodeCall \ {"drop"} /\ pc'[p] \in InodeCall \ {"drop"}
      /\ dinode' \in [Inum -> DiskInode] /\ dir' \in [Name -> Inum \cup {None}]
      /\ \A t \in Slot \ {s} : copy'[t] = copy[t]
      /\ \A j \in Inum \ {i} : dinode'[j] = dinode[j]
      /\ copy'[s] # None => copy'[s] = dinode'[i]
      /\ copy[s] # None => copy'[s] # None
      /\ dinode'[i].type
      /\ \A n \in Name : \/ dir'[n] = dir[n] \/ (dir[n] = None /\ dir'[n] = i)
                         \/ (dir[n] = i /\ dir'[n] = None)
      /\ \A q \in Process \ {p} : pc[q] \in HoldsRoot => dir' = dir
  BY DEF OnItsInode, CallInv, Kinds
<1> HIDE DEF s, i
<1>3. Cached'
  <2>1. ASSUME NEW t \in Slot, iref[t] > 0, t # s
        PROVE  inum[t] \in Inum \ {i} /\ copy'[t] = copy[t] /\ dinode'[inum[t]] = dinode[inum[t]]
    BY <1>1, <1>2, <2>1 DEF NameInv, Cached
  <2>2. ASSUME NEW t \in Slot, iref'[t] > 0
        PROVE  /\ inum'[t] \in Inum
               /\ copy'[t] # None => copy'[t] = dinode'[inum'[t]] /\ dinode'[inum'[t]].type
    <3>1. CASE t = s
      BY <1>1, <1>2, <3>1 DEF i
    <3>2. CASE t # s
      BY <1>2, <2>1, <2>2, <3>2 DEF NameInv, Cached
    <3> QED  BY <3>1, <3>2
  <2>3. \A t, u \in Slot : iref'[t] > 0 /\ iref'[u] > 0 /\ inum'[t] = inum'[u] => t = u
    BY <1>2 DEF NameInv, Cached
  <2> QED  BY <1>2, <2>2, <2>3 DEF Cached
<1>4. \A t \in Slot : Relied(t)' <=> Relied(t)
  BY <1>2 DEF Relied
<1>5. Typed'
  <2>1. \A j \in Inum : dinode[j].type => dinode'[j].type
    BY <1>2
  <2>2. \A n \in Name : dir[n] # None => dir[n] \in Inum /\ dinode[dir[n]].type
    BY DEF NameInv, Cached, Typed
  <2>3. \A n \in Name : dir'[n] # None => dinode'[dir'[n]].type
    BY <1>2, <2>1, <2>2
  <2>4. \A t \in Slot : Relied(t)' => dinode'[inum'[t]].type
    BY <1>2, <1>4, <2>1, ReliedUsed
  <2> QED  BY <2>3, <2>4 DEF Typed
<1>6. ReadFiles'
  BY <1>1, <1>2 DEF NameInv, ReadFiles, CallInv, FileShape
<1>7. Kept'
  <2>1. Relied(s) /\ inum[s] = i
    BY <1>2 DEF Relied, s, i
  <2>2. ASSUME NEW j \in Inum, j # i
        PROVE  \/ ~dinode'[j].type \/ j \in raced'
               \/ \E n \in Name : dir'[n] = j
               \/ \E t \in Slot : inum'[t] = j /\ Relied(t)'
    <3>1. \A n \in Name : dir[n] = j => dir'[n] = j
      BY <1>2, <2>2, ConstFacts
    <3> QED  BY <1>2, <1>4, <2>2, <3>1 DEF NameInv, Kept
  <2> QED  BY <1>1, <1>2, <1>4, <2>1, <2>2 DEF Kept
<1>8. ASSUME NEW q \in Process, q # p PROVE Progress(q)'
  <2> USE <1>8
  <2>1. /\ Progress(q) /\ pc'[q] = pc[q] /\ name'[q] = name[q]
    BY <1>2 DEF NameInv
  <2>2. CASE pc[q] = "create"
    <3>1. ip[q] # s
      BY <1>2, <2>1, <2>2 DEF Progress, s
    <3>2. ip[q] \in Slot /\ inum[ip[q]] # i /\ inum[ip[q]] \in Inum
      BY <1>1, <2>2, <3>1, Using DEF InodeCall
    <3>3. dinode'[inum[ip[q]]] = dinode[inum[ip[q]]] /\ dir' = dir
      BY <1>2, <2>2, <3>2 DEF HoldsRoot
    <3>4. \A x \in Process : ip[x] = ip[q] => pc'[x] = pc[x]
      BY <1>2, <3>1 DEF s
    <3> QED  BY <1>2, <2>1, <2>2, <3>3, <3>4 DEF Progress, ReadIn
  <2>3. CASE pc[q] \in {"unlink", "link_taken"}
    <3>1. dir' = dir
      BY <1>2, <2>3 DEF HoldsRoot
    <3>2. pc[q] = "link_taken" => copy'[ip[q]] # None
      BY <1>2, <2>1, Has DEF Progress, ReadIn, InodeCall
    <3> QED  BY <1>2, <2>1, <2>3, <3>1, <3>2 DEF Progress, ReadIn
  <2>4. CASE pc[q] = "free"
    <3>1. ip[q] # s
      BY <1>2, <2>1, <2>4, Has, EntryUsed DEF Progress, s, InodeCall
    <3>2. ip[q] \in Slot /\ inum[ip[q]] # i /\ inum[ip[q]] \in Inum
      BY <1>1, <2>4, <3>1, Using DEF InodeCall
    <3> QED  BY <1>2, <2>1, <2>4, <3>1, <3>2 DEF Progress, ReadIn
  <2>5. CASE pc[q] \notin {"create", "unlink", "link_taken", "free"}
    <3>1. pc[q] \in ReadIn => copy'[ip[q]] # None
      BY <1>2, <2>1, Has DEF Progress, ReadIn, InodeCall
    <3> QED  BY <1>2, <2>1, <2>5, <3>1 DEF Progress
  <2> QED  BY <2>2, <2>3, <2>4, <2>5
<1> QED  BY <1>3, <1>5, <1>6, <1>7, <1>8 DEF NameInvBut

Owing(at) == IF at \in Owes THEN 1 ELSE 0

LEMMA OnItsInodeStep ==
  ASSUME CallInv, RefInv, NameInv, NEW p \in Process, NEW to, OnItsInode(p, to),
         NEW n \in Name, \A m \in Name \ {n} : dir'[m] = dir[m],
         dinode'[inum[ip[p]]].nlink = dinode[inum[ip[p]]].nlink
           + Is(dir'[n], inum[ip[p]]) - Is(dir[n], inum[ip[p]]) + Owing(to) - Owing(pc[p]),
         Progress(p)'
  PROVE  NameInv'
<1>1. NameInvBut(p)'
  BY OnItsInodeKeeps
<1> DEFINE i == inum[ip[p]]
<1>2. i \in Inum /\ pc[p] \in InodeCall
  BY Using DEF OnItsInode
<1>3. /\ \A q \in Process \ {p} : pc'[q] = pc[q]
      /\ pc'[p] = to /\ UNCHANGED <<inum, ip>>
  BY DEF OnItsInode, CallInv, Kinds
<1>4. \A q \in Process \ {p} : owed'[q] = owed[q]
  BY <1>3 DEF owed
<1>5. owed[p] = (IF pc[p] \in Owes THEN i ELSE None) /\ owed'[p] = (IF to \in Owes THEN i ELSE None)
  BY <1>3 DEF owed
<1>6. /\ \A j \in Inum \ {i} : dinode'[j] = dinode[j]
      /\ \/ dir'[n] = dir[n] \/ (dir[n] = None /\ dir'[n] = i) \/ (dir[n] = i /\ dir'[n] = None)
  BY DEF OnItsInode
<1>7. \A j \in Inum : j # None /\ dinode[j].nlink \in Int
  BY ConstFacts DEF NameInv, Cached, DiskInode
<1> HIDE DEF i
<1>8. \A j \in Inum : dinode'[j].nlink = dinode[j].nlink + Is(dir'[n], j) - Is(dir[n], j)
                                          + Is(owed'[p], j) - Is(owed[p], j)
  <2>1. ASSUME NEW j \in Inum, j # i
        PROVE  dinode'[j].nlink = dinode[j].nlink + Is(dir'[n], j) - Is(dir[n], j)
                                          + Is(owed'[p], j) - Is(owed[p], j)
    <3>1. dinode'[j] = dinode[j] /\ Is(dir'[n], j) = Is(dir[n], j) /\ Is(owed'[p], j) = Is(owed[p], j)
      BY <1>5, <1>6, <1>7, <2>1 DEF Is
    <3>2. Is(dir[n], j) \in Int /\ Is(owed[p], j) \in Int
      BY DEF Is
    <3> QED  BY <1>7, <3>1, <3>2
  <2>2. dinode'[i].nlink = dinode[i].nlink + Is(dir'[n], i) - Is(dir[n], i)
                                          + Is(owed'[p], i) - Is(owed[p], i)
    <3>1. Is(owed'[p], i) = Owing(to) /\ Is(owed[p], i) = Owing(pc[p])
      BY <1>2, <1>5, <1>7 DEF Is, Owing
    <3> QED  BY <3>1 DEF i
  <2> QED  BY <2>1, <2>2
<1>9. Links'
  <2>1. \A m \in Name \ {n} : dir'[m] = dir[m]
    OBVIOUS
  <2>2. Links
    BY DEF NameInv
  <2> QED  BY ONLY <1>4, <1>8, <2>1, <2>2, p \in Process, n \in Name, LinksStep
<1> QED  BY <1>1, <1>9 DEF NameInv, NameInvBut

(* An entry of a call as it is when it is locked                           *)
LEMMA FoundIn ==
  ASSUME CallInv, RefInv, NameInv, NEW p \in Process, pc[p] \in InodeCall \ {"drop"}
  PROVE  /\ Found(ip[p]) = dinode[inum[ip[p]]] /\ Found(ip[p]).type
         /\ Found(ip[p]) \in DiskInode
         /\ copy[ip[p]] # None => copy[ip[p]] = dinode[inum[ip[p]]]
<1>1. /\ ip[p] \in Slot /\ iref[ip[p]] > 0 /\ inum[ip[p]] \in Inum
      /\ dinode[inum[ip[p]]].type
  BY Using
<1> QED  BY <1>1 DEF NameInv, Cached, Found

(* What a copy has, so that None is none                                   *)
LEMMA NotNone == ASSUME NEW x, x \in DiskInode, x.nlink \in Nat PROVE x # None
BY InodeAssumption DEF DiskInode

(* Link counts are natural, and at least one where a call owes a link      *)
LEMMA LinkCounts ==
  ASSUME NameInv, NEW i \in Inum
  PROVE  /\ dinode[i].nlink \in Nat
         /\ \A n \in Name : dir[n] = i => dinode[i].nlink > 0
         /\ \A p \in Process : owed[p] = i => dinode[i].nlink > 0
         /\ dinode[i].nlink = Count(Name, dir, i) + Count(Process, owed, i)
<1>1. IsFiniteSet(Name) /\ IsFiniteSet(Process)
  BY ProcessAssumption, InodeAssumption
<1>2. dinode[i].nlink = Count(Name, dir, i) + Count(Process, owed, i)
  BY DEF NameInv, Links
<1>3. Count(Name, dir, i) \in Nat /\ Count(Process, owed, i) \in Nat
  BY <1>1, CountType
<1>4. \A p \in Process : owed[p] = i => Count(Process, owed, i) > 0
  BY CountMember
<1>5. ASSUME NEW n \in Name, dir[n] = i PROVE Count(Name, dir, i) > 0
  <2> DEFINE A == {x \in Name : dir[x] = i}
  <2>1. A \in SUBSET Name /\ n \in A
    BY <1>5
  <2> HIDE DEF A
  <2>2. Cardinality(A) > 0
    BY ONLY <2>1, <1>1, FS_Subset, Member
  <2> QED  BY <2>2 DEF A, Count
<1> QED  BY <1>2, <1>3, <1>4, <1>5

(* What a call finds when it has locked its inode                          *)
LEMMA InHand ==
  ASSUME CallInv, RefInv, NameInv, NEW p \in Process, pc[p] \in InodeCall \ {"drop"}
  PROVE  /\ ip[p] \in Slot /\ inum[ip[p]] \in Inum /\ inum[ip[p]] # None
         /\ Found(ip[p]) = dinode[inum[ip[p]]]
         /\ dinode[inum[ip[p]]] \in DiskInode /\ dinode[inum[ip[p]]].type
         /\ dinode[inum[ip[p]]].nlink \in Nat /\ dinode[inum[ip[p]]] # None
         /\ owed[p] = inum[ip[p]] => dinode[inum[ip[p]]].nlink > 0
         /\ copy[ip[p]] # None => copy[ip[p]] = dinode[inum[ip[p]]]
         /\ pc[p] \in Named => name[p] \in Name
<1>1. /\ ip[p] \in Slot /\ inum[ip[p]] \in Inum /\ dinode[inum[ip[p]]].type
      /\ pc[p] \in Named => name[p] \in Name
  BY Using, Has
<1>2. /\ Found(ip[p]) = dinode[inum[ip[p]]] /\ Found(ip[p]) \in DiskInode
      /\ copy[ip[p]] # None => copy[ip[p]] = dinode[inum[ip[p]]]
  BY FoundIn
<1>3. /\ dinode[inum[ip[p]]].nlink \in Nat
      /\ owed[p] = inum[ip[p]] => dinode[inum[ip[p]]].nlink > 0
  BY <1>1, LinkCounts
<1>4. dinode[inum[ip[p]]] # None
  BY <1>2, <1>3, NotNone
<1>5. inum[ip[p]] # None
  BY <1>1, ConstFacts
<1> QED  BY <1>1, <1>2, <1>3, <1>4, <1>5

LEMMA SomeName == Name # {}
<1>1. Cardinality({}) = 0
  BY FS_EmptySet
<1> QED  BY ONLY <1>1, FilesAssumption

(* Steps that change neither the directory nor what is on the disk         *)
LEMMA ReadOnlyStep ==
  ASSUME CallInv, RefInv, NameInv, NEW p \in Process, NEW to,
         pc[p] \in InodeCall \ {"drop"}, to \in InodeCall \ {"drop"},
         pc[p] \in Owes <=> to \in Owes,
         UNCHANGED <<dinode, dir, inum, iref, argVars, ftable, raced>>,
         pc' = [pc EXCEPT ![p] = to],
         \A s \in Slot \ {ip[p]} : copy'[s] = copy[s],
         copy'[ip[p]] \in {copy[ip[p]], Found(ip[p])},
         Progress(p)'
  PROVE  NameInv'
<1>1. /\ dinode \in [Inum -> DiskInode] /\ dir \in [Name -> Inum \cup {None}]
      /\ UNCHANGED <<dinode, dir, inum, iref, ip, other, name, ftable, raced>>
  BY DEF NameInv, Cached, argVars
<1>2. /\ ip[p] \in Slot /\ inum[ip[p]] \in Inum /\ dinode[inum[ip[p]]].type
      /\ Found(ip[p]) = dinode[inum[ip[p]]]
      /\ copy[ip[p]] # None => copy[ip[p]] = dinode[inum[ip[p]]]
      /\ dinode[inum[ip[p]]].nlink \in Nat /\ dinode[inum[ip[p]]] \in DiskInode
  BY <1>1, Using, FoundIn, LinkCounts
<1>3. dinode[inum[ip[p]]] # None
  BY <1>2, NotNone
<1>4. OnItsInode(p, to)
  BY <1>1, <1>2, <1>3 DEF OnItsInode
<1>5. PICK n \in Name : TRUE
  BY SomeName
<1>6. Owing(to) = Owing(pc[p]) /\ Owing(to) \in Int /\ \A x, u : Is(x, u) \in Int
  BY DEF Owing, Is
<1>7. dinode'[inum[ip[p]]].nlink = dinode[inum[ip[p]]].nlink
           + Is(dir'[n], inum[ip[p]]) - Is(dir[n], inum[ip[p]]) + Owing(to) - Owing(pc[p])
  BY <1>1, <1>2, <1>6
<1>8. \A m \in Name \ {n} : dir'[m] = dir[m]
  BY <1>1
<1> QED  BY <1>4, <1>7, <1>8, OnItsInodeStep

LEMMA NamesOpenLock ==
  ASSUME CallInv, RefInv, NameInv, NEW p \in Process, OpenLock(p), FilesSame PROVE NameInv'
<1>1. /\ pc[p] = "open" /\ pc' = [pc EXCEPT ![p] = "opened"]
      /\ UNCHANGED <<dinode, dir, inum, iref, argVars, ftable, raced>>
      /\ copy' = [copy EXCEPT ![ip[p]] = Found(ip[p])]
  BY DEF OpenLock, FilesSame, diskVars
<1>2. ip[p] \in Slot /\ DOMAIN copy = Slot /\ Found(ip[p]) # None /\ pc'[p] = "opened"
  BY <1>1, Using, FoundIn, LinkCounts, NotNone DEF InodeCall, CallInv, Kinds
<1>3. Progress(p)'
  BY <1>1, <1>2 DEF Progress, argVars
<1> QED  BY <1>1, <1>2, <1>3, ReadOnlyStep DEF InodeCall, Owes

LEMMA NamesCreatePutDir ==
  ASSUME CallInv, RefInv, NameInv, NEW p \in Process, CreatePutDir(p), FilesSame PROVE NameInv'
<1>1. /\ pc[p] = "created" /\ pc' = [pc EXCEPT ![p] = "opened"]
      /\ UNCHANGED <<dinode, dir, inum, iref, argVars, ftable, raced, copy>>
  BY DEF CreatePutDir, Move, FilesSame, diskVars, inodeVars, icacheVars
<1>2. copy[ip[p]] # None /\ pc'[p] = "opened"
  BY <1>1 DEF NameInv, Progress, ReadIn, CallInv, Kinds
<1>3. Progress(p)'
  BY <1>1, <1>2 DEF Progress, argVars
<1> QED  BY <1>1, <1>3, ReadOnlyStep DEF InodeCall, Owes

LEMMA NamesIputFrees ==
  ASSUME CallInv, RefInv, NameInv, NEW p \in Process, IputFrees(p), FilesSame PROVE NameInv'
<1>1. /\ pc[p] = "put" /\ pc' = [pc EXCEPT ![p] = "free"]
      /\ UNCHANGED <<dinode, dir, inum, iref, argVars, ftable, raced, copy>>
      /\ copy[ip[p]] # None /\ copy[ip[p]].nlink = 0 /\ iref[ip[p]] = 1
  BY DEF IputFrees, Move, FilesSame, diskVars, inodeVars, icacheVars, Linkless, LastReference
<1>2. copy[ip[p]] = dinode[inum[ip[p]]] /\ pc'[p] = "free"
  BY <1>1, FoundIn DEF InodeCall, CallInv, Kinds
<1>3. Progress(p)'
  BY <1>1, <1>2 DEF Progress, argVars
<1> QED  BY <1>1, <1>3, ReadOnlyStep DEF InodeCall, Owes

LEMMA NamesOpenFails ==
  ASSUME CallInv, RefInv, NameInv, NEW p \in Process, OpenFails(p) PROVE NameInv'
<1>1. /\ pc[p] = "opened" /\ pc' = [pc EXCEPT ![p] = "put"]
      /\ UNCHANGED <<dinode, dir, inum, iref, argVars, ftable, raced, copy>>
  BY DEF OpenFails, Move, diskVars, fileVars
<1>2. copy[ip[p]] # None /\ pc'[p] = "put"
  BY <1>1 DEF NameInv, Progress, ReadIn, CallInv, Kinds
<1>3. Progress(p)'
  BY <1>1, <1>2 DEF Progress, argVars
<1> QED  BY <1>1, <1>3, ReadOnlyStep DEF InodeCall, Owes

(* Steps that change the link count and the directory                      *)
LEMMA NamesCreateLink ==
  ASSUME CallInv, RefInv, NameInv, NEW p \in Process, CreateLink(p), FilesSame PROVE NameInv'
<1> DEFINE i == inum[ip[p]]
           di == [Found(ip[p]) EXCEPT !.nlink = 1]
           n == name[p]
<1>1. /\ pc[p] = "create" /\ pc' = [pc EXCEPT ![p] = "created"]
      /\ UNCHANGED <<inum, iref, ip, other, ftable, raced>>
      /\ copy' = [copy EXCEPT ![ip[p]] = di] /\ dinode' = [dinode EXCEPT ![i] = di]
      /\ dir' = [dir EXCEPT ![n] = i] /\ name' = [name EXCEPT ![p] = None]
  BY DEF CreateLink, FilesSame, Update
<1>2. /\ ip[p] \in Slot /\ i \in Inum /\ n \in Name /\ dir[n] = None
      /\ dinode[i].nlink = 0 /\ i # None
      /\ Found(ip[p]) = dinode[i] /\ dinode[i] \in DiskInode /\ dinode[i].type
  <2>1. Progress(p)
    BY DEF NameInv
  <2> QED  BY <1>1, <2>1, InHand DEF InodeCall, Named, Progress
<1>3. di \in DiskInode /\ di.type /\ di.nlink = 1 /\ di # None
  <2>1. di \in DiskInode /\ di.type /\ di.nlink = 1
    BY <1>2 DEF DiskInode
  <2> HIDE DEF di
  <2> QED  BY <2>1, NotNone
<1> HIDE DEF di, i, n
<1>4. /\ pc'[p] = "created" /\ copy'[ip[p]] = di /\ dinode'[i] = di /\ dir'[n] = i
      /\ dinode' \in [Inum -> DiskInode] /\ dir' \in [Name -> Inum \cup {None}]
      /\ \A s \in Slot \ {ip[p]} : copy'[s] = copy[s]
      /\ \A j \in Inum \ {i} : dinode'[j] = dinode[j]
      /\ \A m \in Name \ {n} : dir'[m] = dir[m]
      /\ \A q \in Process \ {p} : name'[q] = name[q]
  BY <1>1, <1>2, <1>3 DEF NameInv, Cached, CallInv, Kinds
<1>5. \A q \in Process \ {p} : pc[q] \notin HoldsRoot
  BY <1>1 DEF CallInv, LocksOf, HoldsRoot
<1>6. OnItsInode(p, "created")
  BY <1>1, <1>2, <1>3, <1>4, <1>5 DEF OnItsInode, InodeCall, i
<1>7. Progress(p)'
  BY <1>1, <1>3, <1>4 DEF Progress
<1>8. dinode'[i].nlink = dinode[i].nlink + Is(dir'[n], i) - Is(dir[n], i)
        + Owing("created") - Owing(pc[p])
  BY <1>1, <1>2, <1>3, <1>4 DEF Is, Owing, Owes
<1> QED  BY <1>2, <1>4, <1>6, <1>7, <1>8, OnItsInodeStep DEF i

LEMMA NamesUnlinkErase ==
  ASSUME CallInv, RefInv, NameInv, NEW p \in Process, UnlinkErase(p), FilesSame PROVE NameInv'
<1> DEFINE i == inum[ip[p]]
           n == name[p]
<1>1. /\ pc[p] = "unlink" /\ pc' = [pc EXCEPT ![p] = "unlinked"]
      /\ UNCHANGED <<inum, iref, ip, other, ftable, raced, dinode>>
      /\ copy' = [copy EXCEPT ![ip[p]] = Found(ip[p])]
      /\ dir' = [dir EXCEPT ![n] = None] /\ name' = [name EXCEPT ![p] = None]
  BY DEF UnlinkErase, FilesSame
<1>2. /\ ip[p] \in Slot /\ i \in Inum /\ n \in Name /\ dir[n] = i /\ i # None
      /\ Found(ip[p]) = dinode[i] /\ dinode[i] \in DiskInode /\ dinode[i].type
      /\ dinode[i].nlink \in Nat /\ dinode[i] # None
  <2>1. Progress(p)
    BY DEF NameInv
  <2> QED  BY <1>1, <2>1, InHand DEF InodeCall, Named, Progress
<1> HIDE DEF i, n
<1>4. /\ pc'[p] = "unlinked" /\ copy'[ip[p]] = dinode[i] /\ dir'[n] = None
      /\ dinode' \in [Inum -> DiskInode] /\ dir' \in [Name -> Inum \cup {None}]
      /\ \A s \in Slot \ {ip[p]} : copy'[s] = copy[s]
      /\ \A m \in Name \ {n} : dir'[m] = dir[m]
      /\ \A q \in Process \ {p} : name'[q] = name[q]
  BY <1>1, <1>2 DEF NameInv, Cached, CallInv, Kinds
<1>5. \A q \in Process \ {p} : pc[q] \notin HoldsRoot
  BY <1>1 DEF CallInv, LocksOf, HoldsRoot
<1>6. OnItsInode(p, "unlinked")
  BY <1>1, <1>2, <1>4, <1>5 DEF OnItsInode, InodeCall, i
<1>7. Progress(p)'
  BY <1>1, <1>2, <1>4 DEF Progress
<1>8. dinode'[i].nlink = dinode[i].nlink + Is(dir'[n], i) - Is(dir[n], i)
        + Owing("unlinked") - Owing(pc[p])
  BY <1>1, <1>2, <1>4 DEF Is, Owing, Owes
<1> QED  BY <1>2, <1>4, <1>6, <1>7, <1>8, OnItsInodeStep DEF i

LEMMA NamesLinkName ==
  ASSUME CallInv, RefInv, NameInv, NEW p \in Process, LinkName(p), FilesSame PROVE NameInv'
<1> DEFINE i == inum[ip[p]]
           n == name[p]
<1>1. /\ pc[p] = "link_dir" /\ pc' = [pc EXCEPT ![p] = "put"] /\ locked[Root] = None
      /\ UNCHANGED <<inum, iref, ip, other, ftable, raced, dinode, copy>> /\ dir[n] = None
      /\ dir' = [dir EXCEPT ![n] = i] /\ name' = [name EXCEPT ![p] = None]
  BY DEF LinkName, Move, CanLock, FilesSame, icacheVars
<1>2. /\ ip[p] \in Slot /\ i \in Inum /\ n \in Name /\ i # None
      /\ copy[ip[p]] = dinode[i] /\ dinode[i].type /\ dinode[i].nlink \in Nat
      /\ copy[ip[p]] # None
  <2>1. Progress(p)
    BY DEF NameInv
  <2> QED  BY <1>1, <2>1, InHand
           DEF InodeCall, Named, Progress, ReadIn
<1> HIDE DEF i, n
<1>4. /\ pc'[p] = "put" /\ dir'[n] = i
      /\ dinode' \in [Inum -> DiskInode] /\ dir' \in [Name -> Inum \cup {None}]
      /\ \A m \in Name \ {n} : dir'[m] = dir[m]
      /\ \A q \in Process \ {p} : name'[q] = name[q]
  BY <1>1, <1>2 DEF NameInv, Cached, CallInv, Kinds
<1>5. \A q \in Process \ {p} : pc[q] \notin HoldsRoot
  BY <1>1, ConstFacts DEF CallInv, LocksOf, HoldsRoot
<1>6. OnItsInode(p, "put")
  BY <1>1, <1>2, <1>4, <1>5 DEF OnItsInode, InodeCall, i
<1>7. Progress(p)'
  BY <1>1, <1>2, <1>4 DEF Progress
<1>8. dinode'[i].nlink = dinode[i].nlink + Is(dir'[n], i) - Is(dir[n], i)
        + Owing("put") - Owing(pc[p])
  BY <1>1, <1>2, <1>4 DEF Is, Owing, Owes
<1> QED  BY <1>2, <1>4, <1>6, <1>7, <1>8, OnItsInodeStep DEF i

(* Calls that change only the link count, by one                           *)
LEMMA LinkCountStep ==
  ASSUME CallInv, RefInv, NameInv, NEW p \in Process, NEW to, NEW k \in {-1, 1},
         pc[p] \in InodeCall \ {"drop"}, to \in {"put", "link_dir"},
         k = Owing(to) - Owing(pc[p]),
         UNCHANGED <<dir, inum, iref, argVars, ftable, raced>>,
         pc' = [pc EXCEPT ![p] = to], Update(ip[p], Linked(ip[p], k))
  PROVE  NameInv'
<1> DEFINE i == inum[ip[p]]
           di == Linked(ip[p], k)
<1>1. /\ UNCHANGED <<inum, iref, ip, other, name, dir, ftable, raced>>
      /\ copy' = [copy EXCEPT ![ip[p]] = di] /\ dinode' = [dinode EXCEPT ![i] = di]
  BY DEF Update, argVars
<1>2. /\ ip[p] \in Slot /\ i \in Inum /\ i # None
      /\ Found(ip[p]) = dinode[i] /\ dinode[i] \in DiskInode /\ dinode[i].type
      /\ dinode[i].nlink \in Nat
      /\ owed[p] = i => dinode[i].nlink > 0
  BY InHand
<1>3. dinode[i].nlink + k \in Nat
  <2>1. CASE pc[p] \in Owes
    BY <1>2, <2>1 DEF owed
  <2>2. CASE pc[p] \notin Owes
    BY <1>2, <2>2 DEF Owing
  <2> QED  BY <2>1, <2>2
<1>4. di \in DiskInode /\ di.type /\ di.nlink = dinode[i].nlink + k /\ di # None
  <2>1. di \in DiskInode /\ di.type /\ di.nlink = dinode[i].nlink + k
    BY <1>2, <1>3 DEF DiskInode, Linked
  <2> HIDE DEF di
  <2> QED  BY <1>3, <2>1, NotNone
<1> HIDE DEF di, i
<1>5. /\ pc'[p] = to /\ copy'[ip[p]] = di /\ dinode'[i] = di
      /\ dinode' \in [Inum -> DiskInode] /\ dir' \in [Name -> Inum \cup {None}]
      /\ \A s \in Slot \ {ip[p]} : copy'[s] = copy[s]
      /\ \A j \in Inum \ {i} : dinode'[j] = dinode[j]
  BY <1>1, <1>2, <1>4 DEF NameInv, Cached, CallInv, Kinds
<1>6. OnItsInode(p, to)
  BY <1>1, <1>2, <1>4, <1>5 DEF OnItsInode, InodeCall, i
<1>7. Progress(p)'
  BY <1>1, <1>4, <1>5 DEF Progress
<1>8. PICK n \in Name : TRUE
  BY SomeName
<1>9. dinode'[i].nlink = dinode[i].nlink + Is(dir'[n], i) - Is(dir[n], i)
        + Owing(to) - Owing(pc[p])
  <2>1. Is(dir[n], i) \in Int /\ Owing(to) \in Int /\ Owing(pc[p]) \in Int
    BY DEF Is, Owing
  <2> QED  BY <1>1, <1>2, <1>4, <1>5, <2>1
<1>10. \A m \in Name \ {n} : dir'[m] = dir[m]
  BY <1>1
<1> QED  BY <1>6, <1>7, <1>9, <1>10, OnItsInodeStep DEF i

LEMMA NamesLinkCount ==
  ASSUME CallInv, RefInv, NameInv, NEW p \in Process, FilesSame,
         UnlinkDrop(p) \/ LinkCount(p) \/ LinkBack(p)
  PROVE  NameInv'
<1>1. UNCHANGED <<dir, inum, iref, argVars, ftable, raced>>
  BY DEF UnlinkDrop, LinkCount, LinkBack, FilesSame
<1>2. CASE LinkCount(p)
  <2>1. pc[p] = "link" /\ pc' = [pc EXCEPT ![p] = "link_dir"] /\ Update(ip[p], Linked(ip[p], 1))
    BY <1>2 DEF LinkCount, Move
  <2>2. Owing("link_dir") - Owing(pc[p]) = 1
    BY <2>1 DEF Owing, Owes
  <2> QED  BY <1>1, <2>1, <2>2, LinkCountStep DEF InodeCall
<1>3. CASE UnlinkDrop(p) \/ LinkBack(p)
  <2>1. /\ pc[p] \in {"unlinked", "link_back"} /\ pc' = [pc EXCEPT ![p] = "put"]
        /\ Update(ip[p], Linked(ip[p], -1))
    BY <1>3 DEF UnlinkDrop, LinkBack, Move
  <2>2. Owing("put") - Owing(pc[p]) = -1
    BY <2>1 DEF Owing, Owes
  <2> QED  BY <1>1, <2>1, <2>2, LinkCountStep DEF InodeCall
<1> QED  BY <1>2, <1>3

-----------------------------------------------------------------------------
(* iput()                                                                  *)

(* An inode whose last references are all being put, and which has no      *)
(* name, was seen with the other references by each of those who put them. *)
LEMMA NamesIputKeeps ==
  ASSUME CallInv, RefInv, NameInv, NEW p \in Process, IputKeeps(p), FilesSame PROVE NameInv'
<1> DEFINE s == ip[p]
           i == inum[s]
<1>1. /\ pc[p] = "put" /\ pc' = [pc EXCEPT ![p] = "drop"]
      /\ UNCHANGED <<inum, iref, ip, other, name, ftable, dinode, dir, copy>>
      /\ ~(Linkless(s) /\ iref[s] = 1)
      /\ raced' = IF Linkless(s) /\ Putting(s) # {p} /\ iref[s] = Cardinality(Putting(s))
                  THEN raced \cup {i} ELSE raced
  BY DEF IputKeeps, Move, FilesSame, diskVars, icacheVars, argVars, LastReference
<1>2. /\ pc'[p] = "drop" /\ \A q \in Process \ {p} : pc'[q] = pc[q]
  BY <1>1 DEF CallInv, Kinds
<1>3. /\ s \in Slot /\ i \in Inum /\ iref[s] > 0 /\ copy[s] # None /\ copy[s] = dinode[i]
      /\ \A t \in Slot : iref[t] > 0 /\ inum[t] = i => t = s
  <2>1. Progress(p)
    BY DEF NameInv
  <2> QED  BY <1>1, <2>1, InHand, Using DEF InodeCall, Progress, ReadIn
<1>0. s' = s
  BY <1>1
<1> HIDE DEF i, s
<1>4. \A q \in Process : owed'[q] = owed[q]
  BY <1>1, <1>2 DEF owed, Owes
<1>5. Links'
  <2>1. \A j : Count(Process, owed', j) = Count(Process, owed, j) /\ Count(Name, dir', j) = Count(Name, dir, j)
    BY <1>1, <1>4 DEF Count
  <2> QED  BY <1>1, <2>1 DEF NameInv, Links, Count
<1>6. Cached' /\ ReadFiles'
  BY <1>1 DEF NameInv, Cached, ReadFiles
<1>7. \A t \in Slot : Relied(t)' => Relied(t)
  BY <1>1, <1>2 DEF Relied
<1>8. Typed'
  BY <1>1, <1>7 DEF NameInv, Typed
<1>9. \A q \in Process : Progress(q)'
  <2>1. Progress(p)'
    BY <1>2 DEF Progress, ReadIn
  <2>2. ASSUME NEW q \in Process, q # p PROVE Progress(q)'
    <3>1. Progress(q) /\ pc'[q] = pc[q] /\ \A x \in Process : pc[x] = "drop" => pc'[x] = "drop"
      BY <1>1, <1>2, <2>2 DEF NameInv
    <3> QED  BY <1>1, <3>1 DEF Progress
  <2> QED  BY <2>1, <2>2
<1>10. \A t \in Slot : t # s /\ Relied(t) => Relied(t)'
  BY <1>1, <1>2 DEF Relied, s
<1>11. Kept'
  <2> SUFFICES ASSUME NEW j \in Inum, dinode[j].type, j \notin raced',
                      \A n \in Name : dir[n] # j, \A t \in Slot : ~(inum[t] = j /\ Relied(t)')
               PROVE  FALSE
    BY <1>1 DEF Kept
  <2>1. j \notin raced
    BY <1>1
  <2>2. \E t \in Slot : inum[t] = j /\ Relied(t)
    BY <2>1 DEF NameInv, Kept
  <2>3. j = i /\ ~Relied(s)'
    <3>1. PICK t \in Slot : inum[t] = j /\ Relied(t)
      BY <2>2
    <3>2. ~Relied(t)'
      BY <3>1
    <3>3. t = s
      BY <1>10, <3>1, <3>2
    <3> QED  BY <1>0, <3>1, <3>2, <3>3 DEF i
  <2>4. /\ \A f \in File : ~(ftable[f].type = "inode" /\ ftable[f].obj = s)
        /\ \A q \in Process : (ip[q] = s => pc'[q] = "drop") /\ other[q] # s
    <3>1. ftable' = ftable /\ ip' = ip /\ other' = other
      BY <1>1
    <3> QED  BY <1>0, <2>3, <3>1, Zenon DEF Relied
  <2>5. \A q \in Process : ip[q] = s => pc[q] \in {"put", "drop"}
    BY <1>1, <1>2, <2>4
  <2>6. dinode[i].nlink = 0
    <3>1. \A q \in Process : owed[q] # i
      <4> SUFFICES ASSUME NEW q \in Process, owed[q] = i PROVE FALSE
        OBVIOUS
      <4>1. pc[q] \in Owes /\ inum[ip[q]] = i
        BY <1>3, ConstFacts DEF owed
      <4>2. ip[q] = s
        BY <1>3, <4>1, Using DEF Owes, InodeCall
      <4> QED  BY <2>5, <4>1, <4>2 DEF Owes
    <3>2. \A n \in Name : dir[n] # i
      BY <2>3
    <3>3. Count(Process, owed, i) = 0 /\ Count(Name, dir, i) = 0
      BY <3>1, <3>2, FS_EmptySet DEF Count
    <3> QED  BY <1>3, <3>3 DEF NameInv, Links
  <2>7. Linkless(s) /\ iref[s] # 1
    BY <1>1, <1>3, <2>6 DEF Linkless
  <2>8. iref[s] = Cardinality(Putting(s))
    <3>1. FilesOn(s) = {} /\ {q \in Process : other[q] = s} = {} /\ {q \in Process : ip[q] = s} = Putting(s)
      BY <2>4, <2>5 DEF FilesOn, Putting
    <3>2. Cardinality({}) = 0
      BY FS_EmptySet
    <3>3. Cardinality(FilesOn(s)) = 0 /\ Count(Process, other, s) = 0
          /\ Count(Process, ip, s) = Cardinality(Putting(s))
      BY <3>1, <3>2 DEF Count
    <3>4. iref[s] = Cardinality(FilesOn(s)) + Count(Process, ip, s) + Count(Process, other, s)
      BY <1>3 DEF RefInv, EntryPart
    <3>5. iref[s] \in Nat /\ Count(Process, ip, s) \in Nat
      BY <1>3, EntryUsed, CountType, ProcessAssumption
    <3> QED  BY <3>3, <3>4, <3>5
  <2>9. Putting(s) # {p}
    BY <2>7, <2>8, FS_Singleton
  <2> QED  BY <1>1, <2>3, <2>7, <2>8, <2>9
<1> QED  BY <1>5, <1>6, <1>8, <1>9, <1>11 DEF NameInv

(* iput() frees an inode that has no name and nobody else a reference to.  *)
LEMMA NamesIputTruncates ==
  ASSUME CallInv, RefInv, NameInv, NEW p \in Process, IputTruncates(p), FilesSame PROVE NameInv'
<1> DEFINE s == ip[p]
           i == inum[s]
<1>1. /\ pc[p] = "free" /\ pc' = [pc EXCEPT ![p] = "drop"]
      /\ UNCHANGED <<inum, iref, ip, other, name, ftable, dir>>
      /\ dinode' = [dinode EXCEPT ![i] = Unallocated] /\ copy' = [copy EXCEPT ![s] = None]
      /\ raced' = raced \ {i}
  BY DEF IputTruncates, Move, FilesSame, argVars, Invalid
<1>2. /\ s \in Slot /\ i \in Inum /\ iref[s] = 1 /\ dinode[i].nlink = 0
      /\ \A t \in Slot : iref[t] > 0 /\ inum[t] = i => t = s
  <2>1. Progress(p)
    BY DEF NameInv
  <2> QED  BY <1>1, <2>1, Using DEF InodeCall, Progress
<1>3. /\ \A q \in Process : (q # p => ip[q] # s) /\ other[q] # s
      /\ \A f \in File : ftable[f].type = "inode" => ftable[f].obj # s
  BY <1>2, EntryUsed
<1>4. (\A n \in Name : dir[n] # i) /\ \A q \in Process : owed[q] # i
  BY <1>2, LinkCounts
<1>0. s' = s
  BY <1>1
<1>5. s = ip[p] /\ i = inum[s]
  OBVIOUS
<1> HIDE DEF i, s
<1>6. /\ pc'[p] = "drop" /\ \A q \in Process \ {p} : pc'[q] = pc[q]
      /\ copy'[s] = None /\ \A t \in Slot \ {s} : copy'[t] = copy[t]
      /\ dinode'[i] = Unallocated /\ \A j \in Inum \ {i} : dinode'[j] = dinode[j]
      /\ dinode' \in [Inum -> DiskInode] /\ dir \in [Name -> Inum \cup {None}]
  <2>1. Unallocated \in DiskInode
    BY DEF Unallocated, DiskInode
  <2> QED  BY <1>1, <1>2, <2>1 DEF CallInv, Kinds, NameInv, Cached
<1>7. Cached'
  <2>1. ASSUME NEW t \in Slot, iref'[t] > 0
        PROVE  /\ inum'[t] \in Inum
               /\ copy'[t] # None => copy'[t] = dinode'[inum'[t]] /\ dinode'[inum'[t]].type
    BY <1>1, <1>2, <1>6, <2>1 DEF NameInv, Cached
  <2>2. \A t, u \in Slot : iref'[t] > 0 /\ iref'[u] > 0 /\ inum'[t] = inum'[u] => t = u
    BY <1>1 DEF NameInv, Cached
  <2> QED  BY <1>1, <1>6, <2>1, <2>2 DEF Cached
<1>8. \A q \in Process : owed'[q] = owed[q]
  BY <1>1, <1>6 DEF owed, Owes
<1>9. Links'
  <2>1. \A j : Count(Process, owed', j) = Count(Process, owed, j)
    BY <1>8 DEF Count
  <2>2. \A j \in Inum : dinode'[j].nlink = dinode[j].nlink
    BY <1>2, <1>6 DEF Unallocated
  <2> QED  BY <1>1, <2>1, <2>2 DEF NameInv, Links, Count
<1>10. \A t \in Slot : Relied(t)' <=> Relied(t) /\ t # s
  BY <1>0, <1>1, <1>3, <1>5, <1>6 DEF Relied
<1>11. Typed'
  <2>1. \A n \in Name : dir'[n] # None => dinode'[dir'[n]].type
    BY <1>1, <1>4, <1>6 DEF NameInv, Typed
  <2>2. ASSUME NEW t \in Slot, Relied(t)' PROVE dinode'[inum'[t]].type
    <3>1. Relied(t) /\ t # s
      BY <1>10, <2>2
    <3>2. iref[t] > 0 /\ inum[t] \in Inum /\ dinode[inum[t]].type
      BY <3>1, ReliedUsed
    <3> QED  BY <1>1, <1>2, <1>6, <3>1, <3>2
  <2> QED  BY <2>1, <2>2 DEF Typed
<1>12. ReadFiles'
  <2>1. \A f \in File : ftable[f].type = "inode" => ftable[f].obj \in Slot \ {s}
    BY <1>3 DEF CallInv, FileShape
  <2> QED  BY <1>1, <1>6, <2>1 DEF NameInv, ReadFiles
<1>13. Kept'
  <2>1. ~dinode'[i].type
    BY <1>6 DEF Unallocated
  <2>2. ASSUME NEW j \in Inum, j # i
        PROVE  \/ ~dinode'[j].type \/ j \in raced'
               \/ \E n \in Name : dir'[n] = j
               \/ \E t \in Slot : inum'[t] = j /\ Relied(t)'
    <3>1. \A t \in Slot : inum[t] = j /\ Relied(t) => inum'[t] = j /\ Relied(t)'
      BY <1>1, <1>5, <1>10, <2>2
    <3> QED  BY <1>1, <1>6, <2>2, <3>1 DEF NameInv, Kept
  <2> QED  BY <2>1, <2>2 DEF Kept
<1>14. \A q \in Process : Progress(q)'
  <2>1. Progress(p)'
    BY <1>6 DEF Progress, ReadIn
  <2>2. ASSUME NEW q \in Process, q # p PROVE Progress(q)'
    <3>1. Progress(q) /\ pc'[q] = pc[q] /\ ip[q] # s
      BY <1>3, <1>6, <2>2 DEF NameInv
    <3>2. pc[q] \in InodeCall => ip[q] \in Slot \ {s} /\ inum[ip[q]] \in Inum \ {i}
      BY <1>2, <3>1, Using
    <3>3. \A x \in Process : ip[x] # s => pc'[x] = pc[x]
      BY <1>5, <1>6
    <3> QED  BY <1>1, <1>6, <3>1, <3>2, <3>3 DEF Progress, InodeCall, ReadIn
  <2> QED  BY <2>1, <2>2
<1> QED  BY <1>7, <1>9, <1>11, <1>12, <1>13, <1>14 DEF NameInv

(* iput() gives up the reference.                                          *)
LEMMA NamesIputDrops ==
  ASSUME CallInv, RefInv, NameInv, NEW p \in Process, IputDrops(p), FilesSame PROVE NameInv'
<1> DEFINE s == ip[p]
<1>1. /\ pc[p] = "drop" /\ pc' = [pc EXCEPT ![p] = Return(p)]
      /\ UNCHANGED <<other, name, ftable, dir, dinode, copy, raced>>
      /\ iref' = [iref EXCEPT ![s] = @ - 1] /\ ip' = [ip EXCEPT ![p] = None]
      /\ inum' = [inum EXCEPT ![s] = IF iref[s] = 1 THEN None ELSE @]
  BY DEF IputDrops, Move, FilesSame, diskVars
<1>2. s \in Slot /\ iref[s] > 0 /\ iref[s] \in Nat /\ other[p] = None /\ Return(p) \in {"exiting", "user"}
  BY <1>1, Using, EntryUsed, Has, Returns DEF InodeCall
<1>3. iref[s] = 1 =>
        /\ \A q \in Process : (q # p => ip[q] # s) /\ other[q] # s
        /\ \A f \in File : ftable[f].type = "inode" => ftable[f].obj # s
  BY <1>2, EntryUsed
<1>4. s = ip[p]
  OBVIOUS
<1> HIDE DEF s
<1>5. /\ pc'[p] \in {"exiting", "user"} /\ \A q \in Process \ {p} : pc'[q] = pc[q] /\ ip'[q] = ip[q]
      /\ ip'[p] = None /\ \A t \in Slot \ {s} : iref'[t] = iref[t] /\ inum'[t] = inum[t]
      /\ iref'[s] = iref[s] - 1 /\ inum'[s] = IF iref[s] = 1 THEN None ELSE inum[s]
  BY <1>1, <1>2 DEF CallInv, Kinds
<1>6. \A t \in Slot : (t = s /\ iref[s] = 1 /\ iref'[t] = 0) \/ (inum'[t] = inum[t])
  BY <1>2, <1>5
<1>7. Cached'
  <2>1. \A t \in Slot : iref'[t] > 0 => iref[t] > 0 /\ inum'[t] = inum[t]
    BY <1>2, <1>5
  <2> QED  BY <1>1, <2>1 DEF NameInv, Cached
<1>8. \A q \in Process : owed'[q] = owed[q]
  <2>1. owed'[p] = owed[p]
    BY <1>1, <1>5 DEF owed, Owes
  <2>2. ASSUME NEW q \in Process, q # p PROVE owed'[q] = owed[q]
    <3>1. pc[q] \in Owes => ip[q] \in Slot /\ inum'[ip[q]] = inum[ip[q]]
      BY <1>3, <1>6, <2>2, Has DEF Owes, InodeCall
    <3> QED  BY <1>5, <2>2, <3>1 DEF owed
  <2> QED  BY <2>1, <2>2
<1>9. Links'
  <2>1. \A j : Count(Process, owed', j) = Count(Process, owed, j)
    BY <1>8 DEF Count
  <2> QED  BY <1>1, <2>1 DEF NameInv, Links, Count
<1>10. \A t \in Slot : (Relied(t)' <=> Relied(t)) /\ (Relied(t) => inum'[t] = inum[t])
  <2> TAKE t \in Slot
  <2>1. t # None
    BY ConstFacts
  <2>2. (ip'[p] = t /\ pc'[p] # "drop") <=> (ip[p] = t /\ pc[p] # "drop")
    BY <1>1, <1>5, <2>1
  <2>3. \A q \in Process : (ip'[q] = t /\ pc'[q] # "drop") <=> (ip[q] = t /\ pc[q] # "drop")
    BY <1>5, <2>2
  <2>4. Relied(t)' <=> Relied(t)
    BY <1>1, <2>3 DEF Relied
  <2>5. Relied(t) => inum'[t] = inum[t]
    BY <1>1, <1>3, <1>4, <1>6 DEF Relied
  <2> QED  BY <2>4, <2>5
<1>11. Typed' /\ Kept' /\ ReadFiles'
  BY <1>1, <1>10 DEF NameInv, Typed, Kept, ReadFiles
<1>12. \A q \in Process : Progress(q)'
  <2>1. Progress(p)'
    BY <1>5 DEF Progress, ReadIn
  <2>2. ASSUME NEW q \in Process, q # p PROVE Progress(q)'
    <3>1. Progress(q) /\ pc'[q] = pc[q] /\ ip'[q] = ip[q]
      BY <1>5, <2>2 DEF NameInv
    <3>2. pc[q] \in InodeCall => ip[q] \in Slot /\ inum'[ip[q]] = inum[ip[q]]
      BY <1>3, <1>6, <2>2, Has
    <3>3. pc[q] = "link_taken" => inum'[other[q]] = inum[other[q]]
      BY <1>3, <1>6, Has
    <3>4. pc[q] = "free" => iref'[ip[q]] = iref[ip[q]]
      BY <1>3, <1>5, <2>2, <3>1, <3>2 DEF Progress, InodeCall
    <3>5. pc[q] \in InodeCall =>
            \A x \in Process : ip'[x] = ip[q] => ip[x] = ip[q] /\ pc'[x] = pc[x]
      BY <1>5, <3>2, ConstFacts
    <3> QED  BY <1>1, <3>1, <3>2, <3>3, <3>4, <3>5 DEF Progress, InodeCall, ReadIn
  <2> QED  BY <2>1, <2>2
<1> QED  BY <1>7, <1>9, <1>11, <1>12 DEF NameInv

(* dirlink() puts an inode that has a name.                                *)
LEMMA NamesLinkPutOther ==
  ASSUME CallInv, RefInv, NameInv, NEW p \in Process, LinkPutOther(p), FilesSame PROVE NameInv'
<1> DEFINE s == other[p]
<1>1. /\ pc[p] = "link_taken" /\ pc' = [pc EXCEPT ![p] = "link_back"]
      /\ UNCHANGED <<inum, ip, name, ftable, dir, dinode, copy, raced>>
      /\ iref' = [iref EXCEPT ![s] = @ - 1] /\ other' = [other EXCEPT ![p] = None]
  BY DEF LinkPutOther, Move, FilesSame, diskVars
<1>2. s \in Slot /\ iref[s] > 0 /\ iref[s] \in Nat
  BY <1>1, Has, EntryUsed
<1>3. copy[ip[p]] # None /\ \E n \in Name : dir[n] = inum[s]
  BY <1>1 DEF NameInv, Progress, ReadIn
<1>4. iref[s] = 1 => \A q \in Process : ip[q] # s
  BY <1>2, EntryUsed
<1>5. s = other[p]
  OBVIOUS
<1> HIDE DEF s
<1>6. /\ pc'[p] = "link_back" /\ other'[p] = None
      /\ \A q \in Process \ {p} : pc'[q] = pc[q] /\ other'[q] = other[q]
      /\ iref'[s] = iref[s] - 1 /\ \A t \in Slot \ {s} : iref'[t] = iref[t]
  BY <1>1, <1>2 DEF CallInv, Kinds
<1>7. Cached'
  <2>1. \A t \in Slot : iref'[t] > 0 => iref[t] > 0
    BY <1>2, <1>6
  <2> QED  BY <1>1, <2>1 DEF NameInv, Cached
<1>8. \A q \in Process : owed'[q] = owed[q]
  BY <1>1, <1>6 DEF owed, Owes
<1>9. Links'
  <2>1. \A j : Count(Process, owed', j) = Count(Process, owed, j)
    BY <1>8 DEF Count
  <2> QED  BY <1>1, <2>1 DEF NameInv, Links, Count
<1>10. \A t \in Slot : (Relied(t)' => Relied(t)) /\ (Relied(t) /\ t # s => Relied(t)')
  <2> TAKE t \in Slot
  <2>1. t # None
    BY ConstFacts
  <2>2. \A q \in Process : (ip'[q] = t /\ pc'[q] # "drop") <=> (ip[q] = t /\ pc[q] # "drop")
    BY <1>1, <1>6
  <2>3. Relied(t)' => Relied(t)
    BY <1>1, <1>6, <2>1, <2>2 DEF Relied
  <2>4. Relied(t) /\ t # s => Relied(t)'
    BY <1>1, <1>5, <1>6, <2>2 DEF Relied
  <2> QED  BY <2>3, <2>4
<1>11. Typed' /\ ReadFiles'
  BY <1>1, <1>10 DEF NameInv, Typed, ReadFiles
<1>12. Kept'
  BY <1>1, <1>3, <1>10 DEF NameInv, Kept
<1>13. \A q \in Process : Progress(q)'
  <2>1. Progress(p)'
    BY <1>1, <1>3, <1>6 DEF Progress
  <2>2. ASSUME NEW q \in Process, q # p PROVE Progress(q)'
    <3>1. Progress(q) /\ pc'[q] = pc[q] /\ pc[q] \notin HoldsRoot
      BY <1>1, <1>6, <2>2 DEF NameInv, CallInv, LocksOf, HoldsRoot
    <3>2. pc[q] = "free" => ip[q] \in Slot /\ iref'[ip[q]] = iref[ip[q]]
      BY <1>4, <1>6, <3>1, Has DEF Progress, InodeCall
    <3> QED  BY <1>1, <3>1, <3>2 DEF Progress, HoldsRoot, ReadIn
  <2> QED  BY <2>1, <2>2
<1> QED  BY <1>7, <1>9, <1>11, <1>12, <1>13 DEF NameInv

-----------------------------------------------------------------------------
(* iget()                                                                  *)

LEMMA IgetGives ==
  ASSUME CallInv, RefInv, NameInv, NEW i \in Inum, CanIget(i), Iget(i), NEW s, s = Entry(i)
  PROVE  /\ s \in Slot /\ inum'[s] = i /\ iref'[s] = iref[s] + 1 /\ iref[s] \in Nat
         /\ iref[s] > 0 => inum[s] = i /\ copy'[s] = copy[s]
         /\ iref[s] = 0 => copy'[s] = None
         /\ \A t \in Slot \ {s} : /\ inum'[t] = inum[t] /\ iref'[t] = iref[t] /\ copy'[t] = copy[t]
                                  /\ ~(iref[t] > 0 /\ inum[t] = i)
<1>1. s \in Slot /\ (s \in Hits(i) \/ (Hits(i) = {} /\ s \in Vacant))
  BY EntryIn
<1>2. /\ inum' = [inum EXCEPT ![s] = i] /\ iref' = [iref EXCEPT ![s] = @ + 1]
      /\ copy' = [copy EXCEPT ![s] = IF Hits(i) # {} THEN copy[s] ELSE None]
  BY DEF Iget, Recycled
<1>3. /\ inum'[s] = i /\ iref'[s] = iref[s] + 1 /\ iref[s] \in Nat
      /\ \A t \in Slot \ {s} : inum'[t] = inum[t] /\ iref'[t] = iref[t] /\ copy'[t] = copy[t]
  BY <1>1, <1>2, EntryUsed DEF CallInv, Kinds
<1>4. (iref[s] > 0 => inum[s] = i /\ copy'[s] = copy[s]) /\ (iref[s] = 0 => copy'[s] = None)
  <2>1. copy'[s] = IF Hits(i) # {} THEN copy[s] ELSE None
    BY <1>1, <1>2 DEF CallInv, Kinds
  <2> QED  BY <1>1, <1>3, <2>1 DEF Hits, Vacant
<1>6. \A t \in Slot \ {s} : ~(iref[t] > 0 /\ inum[t] = i)
  BY <1>1 DEF Hits, NameInv, Cached
<1> QED  BY ONLY <1>1, <1>3, <1>4, <1>6

(* A call takes the entry of an inode that has a name, while nobody has    *)
(* the directory locked.                                                   *)
Takes(p, i, s) ==
  \/ /\ pc[p] = "user" /\ pc'[p] \in {"open", "unlink", "link"} /\ ip[p] = None /\ ip'[p] = s
     /\ other'[p] = other[p]
  \/ /\ pc[p] = "link_dir" /\ pc'[p] = "link_taken" /\ ip'[p] = ip[p]
     /\ other[p] = None /\ other'[p] = s

LEMMA NamesTakes ==
  ASSUME CallInv, RefInv, NameInv, NEW p \in Process, NEW i \in Inum, NEW s,
         CanIget(i), Iget(i), s = Entry(i), Takes(p, i, s),
         UNCHANGED <<dinode, dir, raced, ftable>>, \E n \in Name : dir[n] = i,
         \A q \in Process \ {p} : /\ pc'[q] = pc[q] /\ ip'[q] = ip[q] /\ other'[q] = other[q]
                                  /\ name'[q] = name[q] /\ pc[q] \notin HoldsRoot,
         pc'[p] = "unlink" => dir[name'[p]] = i
  PROVE  NameInv'
<1>1. /\ s \in Slot /\ inum'[s] = i /\ iref'[s] = iref[s] + 1 /\ iref[s] \in Nat
      /\ iref[s] > 0 => inum[s] = i /\ copy'[s] = copy[s]
      /\ iref[s] = 0 => copy'[s] = None
      /\ \A t \in Slot \ {s} : /\ inum'[t] = inum[t] /\ iref'[t] = iref[t] /\ copy'[t] = copy[t]
                               /\ ~(iref[t] > 0 /\ inum[t] = i)
  BY IgetGives
<1>2. \A t \in Slot : iref[t] \in Nat /\ (iref[t] > 0 => inum'[t] = inum[t] /\ copy'[t] = copy[t])
  BY <1>1, EntryUsed
<1>3. dinode[i].type /\ dinode[i].nlink > 0 /\ i # None
  BY LinkCounts, ConstFacts DEF NameInv, Typed
<1>4. Cached'
  <2>1. ASSUME NEW t \in Slot, iref'[t] > 0
        PROVE  /\ inum'[t] \in Inum
               /\ copy'[t] # None => copy'[t] = dinode'[inum'[t]] /\ dinode'[inum'[t]].type
    <3>1. CASE iref[t] > 0
      BY <1>2, <3>1 DEF NameInv, Cached
    <3>2. CASE ~(iref[t] > 0)
      BY <1>1, <1>2, <2>1, <3>2
    <3> QED  BY <3>1, <3>2
  <2>2. \A t, u \in Slot : iref'[t] > 0 /\ iref'[u] > 0 /\ inum'[t] = inum'[u] => t = u
    BY <1>1 DEF NameInv, Cached
  <2> QED  BY <2>1, <2>2 DEF NameInv, Cached
<1>5. \A q \in Process : (pc[q] \in Owes <=> pc'[q] \in Owes) /\ (pc[q] \in Owes => ip'[q] = ip[q])
  BY DEF Takes, Owes
<1>6. \A q \in Process : pc[q] \in InodeCall => /\ ip[q] \in Slot /\ iref[ip[q]] > 0
                                                /\ inum'[ip[q]] = inum[ip[q]] /\ copy'[ip[q]] = copy[ip[q]]
  BY <1>2, Using
<1>7. Links'
  <2>1. \A q \in Process : owed'[q] = owed[q]
    BY <1>5, <1>6 DEF owed, Owes, InodeCall
  <2>2. \A j : Count(Process, owed', j) = Count(Process, owed, j)
    BY <2>1 DEF Count
  <2> QED  BY <2>2 DEF NameInv, Links, Count
<1>8. \A t \in Slot : Relied(t)' <=> Relied(t) \/ t = s
  <2> TAKE t \in Slot
  <2>1. t # None
    BY ConstFacts
  <2>2. \A q \in Process \ {p} : ((ip'[q] = t /\ pc'[q] # "drop") \/ other'[q] = t)
                             <=> ((ip[q] = t /\ pc[q] # "drop") \/ other[q] = t)
    OBVIOUS
  <2>3. ((ip'[p] = t /\ pc'[p] # "drop") \/ other'[p] = t)
          <=> ((ip[p] = t /\ pc[p] # "drop") \/ other[p] = t \/ t = s)
    BY <2>1 DEF Takes
  <2> QED  BY <2>2, <2>3 DEF Relied
<1>9. Typed'
  <2>1. \A t \in Slot : Relied(t) => dinode[inum'[t]].type
    BY <1>2, ReliedUsed
  <2> QED  BY <1>1, <1>3, <1>8, <2>1 DEF NameInv, Typed
<1>10. Kept'
  BY <1>2, <1>8, ReliedUsed DEF NameInv, Kept
<1>11. ReadFiles'
  <2>1. \A f \in File : ftable[f].type = "inode" => ftable[f].obj \in Slot /\ iref[ftable[f].obj] > 0
    BY EntryUsed DEF CallInv, FileShape
  <2> QED  BY <1>2, <2>1 DEF NameInv, ReadFiles
<1>12. \A q \in Process : Progress(q)'
  <2>1. Progress(p)'
    BY <1>1, <1>6 DEF NameInv, Progress, Takes, ReadIn, InodeCall
  <2>2. ASSUME NEW q \in Process, q # p PROVE Progress(q)'
    <3>1. Progress(q) /\ pc'[q] = pc[q] /\ pc[q] \notin HoldsRoot /\ ip'[q] = ip[q]
      BY <2>2 DEF NameInv
    <3>2. pc[q] = "free" => iref'[ip[q]] = iref[ip[q]]
      BY <1>1, <1>3, <1>6, <3>1 DEF Progress, InodeCall
    <3> QED  BY <1>6, <3>1, <3>2 DEF Progress, HoldsRoot, ReadIn, InodeCall
  <2> QED  BY <2>1, <2>2
<1> QED  BY <1>4, <1>7, <1>9, <1>10, <1>11, <1>12 DEF NameInv

LEMMA NamesLookup ==
  ASSUME CallInv, RefInv, NameInv, NEW p \in Process, FilesSame, NEW n \in Name, NEW m \in Name,
         OpenLookup(p, n) \/ UnlinkLookup(p, n) \/ LinkLookup(p, n, m)
  PROVE  NameInv'
<1> DEFINE i == dir[n]
           s == Entry(i)
<1>1. PICK to \in {"open", "unlink", "link"} :
        Lookup(p, n, "user", to) /\ (to = "unlink" => name' = [name EXCEPT ![p] = n])
  BY DEF OpenLookup, UnlinkLookup, LinkLookup
<1>2. /\ pc[p] = "user" /\ pc' = [pc EXCEPT ![p] = to] /\ locked[Root] = None
      /\ dir[n] # None /\ CanIget(i) /\ Iget(i) /\ ip' = [ip EXCEPT ![p] = s]
      /\ UNCHANGED <<dinode, dir, other, raced, ftable>>
  BY <1>1 DEF Lookup, Move, CanLock, FilesSame, diskVars
<1>3. i \in Inum /\ ip[p] = None
  BY <1>2, Has DEF NameInv, Cached, InodeCall
<1>4. \A q \in Process \ {p} : name'[q] = name[q]
  BY DEF OpenLookup, UnlinkLookup, LinkLookup, CallInv, Kinds
<1>5. \A q \in Process \ {p} : /\ pc'[q] = pc[q] /\ ip'[q] = ip[q] /\ other'[q] = other[q]
                               /\ name'[q] = name[q] /\ pc[q] \notin HoldsRoot
  BY <1>2, <1>4, ConstFacts DEF CallInv, Kinds, LocksOf
<1>6. pc'[p] = to /\ ip'[p] = s
  BY <1>2 DEF CallInv, Kinds
<1>7. Takes(p, i, s)
  BY <1>2, <1>3, <1>6 DEF Takes
<1>8. pc'[p] = "unlink" => dir[name'[p]] = i
  BY <1>1, <1>6 DEF CallInv, Kinds
<1>9. CanIget(i) /\ Iget(i) /\ s = Entry(i) /\ UNCHANGED <<dinode, dir, raced, ftable>>
      /\ \E x \in Name : dir[x] = i
  BY <1>2
<1> HIDE DEF i, s
<1> QED  BY <1>3, <1>5, <1>7, <1>8, <1>9, NamesTakes

LEMMA NamesLinkTaken ==
  ASSUME CallInv, RefInv, NameInv, NEW p \in Process, LinkTaken(p), FilesSame PROVE NameInv'
<1> DEFINE n == name[p]
           i == dir[n]
           s == Entry(i)
<1>2. /\ pc[p] = "link_dir" /\ pc' = [pc EXCEPT ![p] = "link_taken"] /\ locked[Root] = None
      /\ dir[n] # None /\ CanIget(i) /\ Iget(i) /\ other' = [other EXCEPT ![p] = s]
      /\ name' = [name EXCEPT ![p] = None]
      /\ UNCHANGED <<dinode, dir, ip, raced, ftable>>
  BY DEF LinkTaken, Move, CanLock, FilesSame, diskVars
<1>3. n \in Name /\ other[p] = None
  BY <1>2, Has DEF Named
<1>4. i \in Inum
  BY <1>2, <1>3 DEF NameInv, Cached
<1>5. \A q \in Process \ {p} : /\ pc'[q] = pc[q] /\ ip'[q] = ip[q] /\ other'[q] = other[q]
                               /\ name'[q] = name[q] /\ pc[q] \notin HoldsRoot
  BY <1>2, ConstFacts DEF CallInv, Kinds, LocksOf
<1>6. pc'[p] = "link_taken" /\ other'[p] = s
  BY <1>2 DEF CallInv, Kinds
<1>7. Takes(p, i, s) /\ pc'[p] # "unlink"
  BY <1>2, <1>3, <1>6 DEF Takes
<1>9. CanIget(i) /\ Iget(i) /\ s = Entry(i) /\ UNCHANGED <<dinode, dir, raced, ftable>>
      /\ \E x \in Name : dir[x] = i
  BY <1>2, <1>3
<1> HIDE DEF i, s, n
<1> QED  BY <1>4, <1>5, <1>7, <1>9, NamesTakes

(* ialloc(): an inode that is not allocated has no name and no call relies *)
(* on it, but its last reference may still be on its way back.             *)
LEMMA NamesCreateIalloc ==
  ASSUME CallInv, RefInv, NameInv, NEW p \in Process, NEW n \in Name, CreateIalloc(p, n), FilesSame
  PROVE  NameInv'
<1> DEFINE i == Least(Unused)
           s == Entry(i)
           di == [type |-> TRUE, nlink |-> 0]
<1>1. /\ pc[p] = "user" /\ pc' = [pc EXCEPT ![p] = "create"] /\ locked[Root] = None
      /\ dir[n] = None /\ Unused # {} /\ CanIget(i) /\ Iget(i) /\ s = Entry(i)
      /\ dinode' = [dinode EXCEPT ![i] = di]
      /\ ip' = [ip EXCEPT ![p] = s] /\ name' = [name EXCEPT ![p] = n]
      /\ UNCHANGED <<dir, other, raced, ftable>>
  BY DEF CreateIalloc, Move, CanLock, FilesSame
<1>2. i \in Inum /\ ~dinode[i].type /\ i # None
  <2>1. Unused \in SUBSET Nat
    BY ConstFacts DEF Unused
  <2>2. i \in Unused
    BY <1>1, <2>1, LeastIn
  <2> QED  BY <2>2, ConstFacts DEF Unused
<1>3. ip[p] = None /\ other[p] = None
  BY <1>1, Has DEF InodeCall
<1>4. di \in DiskInode /\ di.type /\ di.nlink = 0
  BY DEF DiskInode
<1> HIDE DEF i, s, di
<1>5. /\ s \in Slot /\ inum'[s] = i /\ iref'[s] = iref[s] + 1 /\ iref[s] \in Nat
      /\ iref[s] > 0 => inum[s] = i /\ copy'[s] = copy[s]
      /\ iref[s] = 0 => copy'[s] = None
      /\ \A t \in Slot \ {s} : /\ inum'[t] = inum[t] /\ iref'[t] = iref[t] /\ copy'[t] = copy[t]
                               /\ ~(iref[t] > 0 /\ inum[t] = i)
  BY <1>1, <1>2, IgetGives
<1>6. copy'[s] = None
  BY <1>2, <1>5 DEF NameInv, Cached
<1>7. /\ pc'[p] = "create" /\ ip'[p] = s /\ name'[p] = n
      /\ \A q \in Process \ {p} : /\ pc'[q] = pc[q] /\ ip'[q] = ip[q] /\ name'[q] = name[q]
                                  /\ pc[q] \notin HoldsRoot
      /\ dinode'[i] = di /\ \A j \in Inum \ {i} : dinode'[j] = dinode[j]
      /\ dinode' \in [Inum -> DiskInode]
  BY <1>1, <1>2, <1>4, ConstFacts DEF CallInv, Kinds, LocksOf, NameInv, Cached
<1>8. ~Relied(s)
  BY <1>2, <1>5, ReliedUsed
<1>9. /\ \A q \in Process : (ip[q] = s => pc[q] = "drop") /\ other[q] # s
      /\ \A f \in File : ftable[f].type = "inode" => ftable[f].obj # s
  BY <1>8 DEF Relied
<1>10. \A q \in Process \ {p} : pc[q] \in InodeCall /\ pc[q] # "drop" =>
         /\ ip[q] \in Slot \ {s} /\ inum'[ip[q]] = inum[ip[q]] /\ copy'[ip[q]] = copy[ip[q]]
         /\ iref'[ip[q]] = iref[ip[q]] /\ inum[ip[q]] \in Inum \ {i}
  BY <1>2, <1>5, <1>9, Using
<1>11. Cached'
  <2>1. ASSUME NEW t \in Slot, iref'[t] > 0
        PROVE  /\ inum'[t] \in Inum
               /\ copy'[t] # None => copy'[t] = dinode'[inum'[t]] /\ dinode'[inum'[t]].type
    <3>1. CASE t = s
      BY <1>2, <1>5, <1>6, <3>1
    <3>2. CASE t # s
      BY <1>5, <1>7, <2>1, <3>2 DEF NameInv, Cached
    <3> QED  BY <3>1, <3>2
  <2>2. \A t, u \in Slot : iref'[t] > 0 /\ iref'[u] > 0 /\ inum'[t] = inum'[u] => t = u
    BY <1>5 DEF NameInv, Cached
  <2>3. dir' \in [Name -> Inum \cup {None}]
    BY <1>1 DEF NameInv, Cached
  <2> QED  BY <1>7, <2>1, <2>2, <2>3 DEF Cached
<1>12. Links'
  <2>1. \A q \in Process : owed'[q] = owed[q]
    BY <1>1, <1>7, <1>10 DEF owed, Owes, InodeCall
  <2>2. \A j : Count(Process, owed', j) = Count(Process, owed, j)
    BY <2>1 DEF Count
  <2>3. dinode[i].nlink = 0
    <3>1. \A x \in Name : dir[x] # i
      BY <1>2 DEF NameInv, Typed
    <3>2. \A q \in Process : owed[q] # i
      BY <1>1, <1>2, <1>10 DEF owed, Owes, InodeCall
    <3>3. Count(Process, owed, i) = 0 /\ Count(Name, dir, i) = 0
      BY <3>1, <3>2, FS_EmptySet DEF Count
    <3> QED  BY <1>2, <3>3 DEF NameInv, Links
  <2>4. \A j \in Inum : dinode'[j].nlink = dinode[j].nlink
    BY <1>4, <1>7, <2>3
  <2> QED  BY <1>1, <2>2, <2>4 DEF NameInv, Links, Count
<1>13. \A t \in Slot : Relied(t)' <=> Relied(t) \/ t = s
  <2> TAKE t \in Slot
  <2>1. t # None
    BY ConstFacts
  <2>2. (ip'[p] = t /\ pc'[p] # "drop") <=> ((ip[p] = t /\ pc[p] # "drop") \/ t = s)
    BY <1>1, <1>3, <1>7, <2>1
  <2>3. \A q \in Process \ {p} : (ip'[q] = t /\ pc'[q] # "drop") <=> (ip[q] = t /\ pc[q] # "drop")
    BY <1>7
  <2> QED  BY <1>1, <2>2, <2>3 DEF Relied
<1>14. Typed'
  <2>1. \A x \in Name : dir'[x] # None => dinode'[dir'[x]].type
    BY <1>1, <1>2, <1>7 DEF NameInv, Cached, Typed
  <2>2. ASSUME NEW t \in Slot, Relied(t)' PROVE dinode'[inum'[t]].type
    <3>1. CASE t = s
      BY <1>4, <1>5, <1>7, <3>1
    <3>2. CASE t # s
      <4>1. Relied(t)
        BY <1>13, <2>2, <3>2
      <4>2. inum[t] \in Inum /\ dinode[inum[t]].type
        BY <4>1, ReliedUsed
      <4> QED  BY <1>2, <1>5, <1>7, <3>2, <4>2
    <3> QED  BY <3>1, <3>2
  <2> QED  BY <2>1, <2>2 DEF Typed
<1>15. Kept'
  <2>1. \A t \in Slot : Relied(t) => Relied(t)' /\ inum'[t] = inum[t]
    BY <1>5, <1>8, <1>13
  <2>2. ASSUME NEW j \in Inum
        PROVE  \/ ~dinode'[j].type \/ j \in raced'
               \/ \E x \in Name : dir'[x] = j
               \/ \E t \in Slot : inum'[t] = j /\ Relied(t)'
    <3>1. CASE j = i
      BY <1>5, <1>13, <3>1
    <3>2. CASE j # i
      BY <1>1, <1>7, <2>1, <3>2 DEF NameInv, Kept
    <3> QED  BY <3>1, <3>2
  <2> QED  BY <2>2 DEF Kept
<1>16. ReadFiles'
  <2>1. \A f \in File : ftable[f].type = "inode" => ftable[f].obj \in Slot \ {s}
    BY <1>9 DEF CallInv, FileShape
  <2> QED  BY <1>1, <1>5, <2>1 DEF NameInv, ReadFiles
<1>17. \A q \in Process : Progress(q)'
  <2>1. Progress(p)'
    <3>1. dinode'[inum'[ip'[p]]].nlink = 0 /\ dir'[name'[p]] = None
      BY <1>1, <1>4, <1>5, <1>7
    <3>2. \A q \in Process \ {p} : ip'[q] = ip'[p] => pc'[q] = "drop"
      BY <1>7, <1>9
    <3>3. \A q \in Process : other'[q] # ip'[p]
      BY <1>1, <1>7, <1>9
    <3>4. \A f \in File : ftable'[f].type = "inode" => ftable'[f].obj # ip'[p]
      BY <1>1, <1>7, <1>9
    <3> QED  BY <1>7, <3>1, <3>2, <3>3, <3>4 DEF Progress, ReadIn
  <2>2. ASSUME NEW q \in Process, q # p PROVE Progress(q)'
    <3>1. Progress(q) /\ pc'[q] = pc[q] /\ ip'[q] = ip[q] /\ pc[q] \notin HoldsRoot
      BY <1>7, <2>2 DEF NameInv
    <3> QED  BY <1>7, <1>10, <2>2, <3>1 DEF Progress, HoldsRoot, ReadIn, InodeCall
  <2> QED  BY <2>1, <2>2
<1> QED  BY <1>11, <1>12, <1>14, <1>15, <1>16, <1>17 DEF NameInv

-----------------------------------------------------------------------------
(* Names: steps of files, pipes and the console                            *)

(* No call is at another place in Inode than before.                       *)
Quiet ==
  /\ SameEntries /\ UNCHANGED <<dinode, dir, inum, copy, name, raced>>
  /\ \A q \in Process : pc[q] \in InodeCall => pc'[q] = pc[q]

LEMMA QuietNames == ASSUME CallInv, CallInv', NameInv, Quiet PROVE NameInv'
<1>1. /\ UNCHANGED <<dinode, dir, inum, copy, name, raced, ip, other, iref>>
      /\ \A f \in File : /\ ftable'[f].type = "inode" <=> ftable[f].type = "inode"
                         /\ ftable[f].type = "inode" => ftable'[f].obj = ftable[f].obj
  BY DEF Quiet, SameEntries
<1>2. \A q \in Process : /\ pc[q] \in InodeCall <=> ip[q] # None
                         /\ pc'[q] \in InodeCall <=> ip[q] # None
                         /\ pc[q] \in InodeCall => pc'[q] = pc[q]
  BY <1>1 DEF Quiet, CallInv, Shape, Args
<1>3. \A s \in Slot : Relied(s)' <=> Relied(s)
  <2> TAKE s \in Slot
  <2>1. \A q \in Process : (ip[q] = s /\ pc'[q] # "drop") <=> (ip[q] = s /\ pc[q] # "drop")
    BY <1>2, ConstFacts
  <2> QED  BY <1>1, <2>1 DEF Relied
<1>4. \A q \in Process : \/ pc'[q] = pc[q]
                         \/ pc[q] \notin InodeCall /\ pc'[q] \notin InodeCall
  BY <1>2
<1>5. Cached' /\ Typed' /\ ReadFiles' /\ Kept'
  BY <1>1, <1>3 DEF NameInv, Cached, Typed, ReadFiles, Kept
<1>6. Links'
  <2>1. \A q \in Process : owed'[q] = owed[q]
    BY <1>1, <1>4 DEF owed, Owes, InodeCall
  <2>2. \A i : Count(Process, owed, i)' = Count(Process, owed, i)
    BY <2>1 DEF Count
  <2> QED  BY <1>1, <2>2 DEF NameInv, Links, Count
<1>7. ASSUME NEW q \in Process PROVE Progress(q)'
  <2>1. Progress(q)
    BY DEF NameInv
  <2>2. CASE pc'[q] = pc[q]
    <3>1. \A x \in Process : ip[x] = ip[q] /\ pc[q] \in InodeCall => pc'[x] = pc[x]
      BY <1>2
    <3> QED  BY <1>1, <2>1, <2>2, <3>1 DEF Progress, ReadIn, InodeCall
  <2>3. CASE pc'[q] \notin InodeCall
    BY <2>3 DEF Progress, ReadIn, InodeCall
  <2> QED  BY <1>4, <2>2, <2>3
<1> QED  BY <1>5, <1>6, <1>7 DEF NameInv

LEMMA QuietWake ==
  ASSUME NEW p \in Process, NEW f \in [Process -> Label], NEW to,
         \A q \in Process : f[q] = pc[q] \/ (pc[q] \in Sleeping /\ f[q] \in Woke),
         pc' = [f EXCEPT ![p] = to], pc[p] \notin InodeCall
  PROVE  \A q \in Process : pc[q] \in InodeCall => pc'[q] = pc[q]
BY DEF Sleeping, InodeCall

LEMMA NamesOnPipe ==
  ASSUME CallInv, CallInv', RefInv, NameInv, NEW p \in Process, OnPipe(p) PROVE NameInv'
<1> DEFINE q == request[p].pipe
           b == request[p].writable
<1>1. \/ /\ pc[p] \in {"read", "write"}
         /\ \E f \in {WakeReaders(q), WakeWriters(q), pc} :
              \E to \in {"user", "read_sleep", "write_sleep"} : pc' = [f EXCEPT ![p] = to]
      \/ pc[p] = "pipeclose" /\ pc' = [CloseWakes(q, b) EXCEPT ![p] = Return(p)]
  BY DEF OnPipe, PipeStep, Pipewrite, PipereadSleeps, PipereadFails, Piperead, Pipeclose
<1>2. pc[p] \notin InodeCall /\ (pc[p] = "pipeclose" => b \in BOOLEAN)
  BY <1>1 DEF InodeCall, CallInv, Shape
<1>3. \A f \in {WakeReaders(q), WakeWriters(q), pc, CloseWakes(q, TRUE), CloseWakes(q, FALSE)} :
        /\ f \in [Process -> Label]
        /\ \A x \in Process : f[x] = pc[x] \/ (pc[x] \in Sleeping /\ f[x] \in Woke)
  BY WakesOnly DEF CallInv
<1> HIDE DEF q, b
<1>4. PICK f \in [Process -> Label] :
        /\ \A x \in Process : f[x] = pc[x] \/ (pc[x] \in Sleeping /\ f[x] \in Woke)
        /\ \E to : pc' = [f EXCEPT ![p] = to]
  BY <1>1, <1>2, <1>3
<1>5. PICK to : pc' = [f EXCEPT ![p] = to]
  BY <1>4
<1>6. \A x \in Process : pc[x] \in InodeCall => pc'[x] = pc[x]
  <2>1. f \in [Process -> Label]
    OBVIOUS
  <2> QED  BY ONLY p \in Process, <2>1, <1>2, <1>4, <1>5, QuietWake
<1>7. Quiet
  BY <1>6 DEF OnPipe, Quiet, SameEntries, inodeVars, diskVars, icacheVars, argVars, fileVars
<1> QED  BY <1>7, QuietNames

LEMMA NamesConsole ==
  ASSUME CallInv, CallInv', NameInv, Keyboard \/ \E p \in Process : OnConsole(p) PROVE NameInv'
<1>1. UNCHANGED <<inodeVars, fileVars>>
  BY DEF Keyboard, OnConsole
<1>2. \/ pc' = pc \/ pc' = WakeConsole
      \/ \E p \in Process : pc[p] = "cread" /\ \E to : pc' = [pc EXCEPT ![p] = to]
  BY DEF Keyboard, OnConsole, ConsoleIntr, Backspace, KillLine, Type, callVars, Consoleread
<1>3. \A x \in Process : pc[x] \in InodeCall => pc'[x] = pc[x]
  BY <1>2, WakesOnly DEF CallInv, Kinds, Sleeping, InodeCall
<1>4. Quiet
  BY <1>1, <1>3 DEF Quiet, SameEntries, inodeVars, diskVars, icacheVars, argVars, fileVars
<1> QED  BY <1>4, QuietNames

LEMMA NamesCalls ==
  ASSUME CallInv, CallInv', NameInv, NEW p \in Process, NEW fd \in FD,
         \/ \E n \in Counts : Read(p, fd, n)
         \/ \E n \in ConsoleCounts : ReadConsole(p, fd, n)
         \/ \E s \in Writes : Write(p, fd, s)
         \/ \E n \in FileCounts : ReadFile(p, fd, n) \/ WriteFile(p, fd, n)
  PROVE  NameInv'
<1>1. UNCHANGED <<ftable, inodeVars>>
  BY DEF Read, Write, PipeCall, ReadConsole, ReadFile, WriteFile, Fileread, FilewriteCall,
         fileVars
<1>2. pc[p] = "user" /\ \E to \in {"user", "read", "write", "cread", "filewrite"} :
        pc' = [pc EXCEPT ![p] = to]
  BY DEF Read, Write, PipeCall, ReadConsole, ReadFile, WriteFile, Fileread, FilewriteCall,
         Running, Move, callVars, CallInv, Kinds
<1>3. \A x \in Process : pc[x] \in InodeCall => pc'[x] = pc[x]
  BY <1>2 DEF InodeCall
<1>4. Quiet
  BY <1>1, <1>3 DEF Quiet, SameEntries, inodeVars, diskVars, icacheVars, argVars
<1> QED  BY <1>4, QuietNames

LEMMA NamesOnContents ==
  ASSUME CallInv, CallInv', NameInv, NEW p \in Process, OnContents(p) PROVE NameInv'
<1>1. UNCHANGED <<ftable, inum, iref, dinode, dir, copy, ip, other, name, raced>>
  BY DEF OnContents, WriteStep, WriteiBegins, WriteiFails, WriteiIndirect, WriteiBlock, WriteiEnds,
         inodeVars, icacheVars, argVars, diskVars
<1>2. pc[p] \in InWrite /\ \E to : pc' = [pc EXCEPT ![p] = to]
  BY DEF OnContents, WriteStep, WriteiBegins, WriteiFails, WriteiIndirect, WriteiBlock, WriteiEnds,
         Move, InWrite, callVars, CallInv, Kinds
<1>3. \A x \in Process : pc[x] \in InodeCall => pc'[x] = pc[x]
  BY <1>2 DEF InodeCall, InWrite
<1>4. Quiet
  BY <1>1, <1>3 DEF Quiet, SameEntries
<1> QED  BY <1>4, QuietNames

LEMMA NamesProcesses ==
  ASSUME CallInv, CallInv', NameInv, NEW p \in Process,
         Exit(p) \/ ExitEnds(p) \/ \E q \in Process : Kill(p, q)
  PROVE  NameInv'
<1>1. UNCHANGED <<ftable, inodeVars>>
  BY DEF Exit, ExitEnds, Kill, fileVars
<1>2. \E q \in Process : pc[q] \notin InodeCall /\ \E to : pc' = [pc EXCEPT ![q] = to]
  BY DEF Exit, ExitEnds, Kill, Move, Awake, InPipeCall, InConsoleRead, Running, InodeCall
<1>3. \A x \in Process : pc[x] \in InodeCall => pc'[x] = pc[x]
  BY <1>2
<1>4. Quiet
  BY <1>1, <1>3 DEF Quiet, SameEntries, inodeVars, diskVars, icacheVars, argVars
<1> QED  BY <1>4, QuietNames

LEMMA QuietOne ==
  ASSUME CallInv, CallInv', NameInv, NEW p \in Process, NEW to, pc' = [pc EXCEPT ![p] = to],
         pc[p] \notin InodeCall, SameEntries, UNCHANGED <<dinode, dir, inum, copy, name, raced>>
  PROVE  NameInv'
<1>1. \A q \in Process : pc[q] \in InodeCall => pc'[q] = pc[q]
  BY DEF CallInv, Kinds
<1>2. Quiet
  BY <1>1 DEF Quiet
<1> QED  BY <1>2, QuietNames

LEMMA NamesDup ==
  ASSUME CallInv, CallInv', RefInv, NameInv, NEW p \in Process, NEW fd \in FD, Dup(p, fd)
  PROVE  NameInv'
<1> DEFINE f == ofile[p][fd]
           x == [ftable[f] EXCEPT !.ref = @ + 1]
<1>1. /\ f # None /\ ftable' = [ftable EXCEPT ![f] = x] /\ UNCHANGED <<pc, inodeVars>>
  BY DEF Dup, Filedup, callVars
<1>2. f \in File
  BY <1>1, OpenFileKnown DEF RefInv
<1>3. ftable[f] \in FileEntry /\ DOMAIN ftable = File
  BY <1>2 DEF CallInv, Kinds
<1>4. x.type = ftable[f].type /\ x.obj = ftable[f].obj
  BY <1>3 DEF FileEntry
<1> HIDE DEF f, x
<1>5. Quiet
  BY <1>1, <1>3, <1>4 DEF Quiet, SameEntries, inodeVars, diskVars, icacheVars, argVars
<1> QED  BY <1>5, QuietNames

(* pipe() keeps files of inodes as they are.                               *)
LEMMA EntriesMakePipe ==
  ASSUME CallInv, RefInv, NEW p \in Process, MakePipe(p)
  PROVE  /\ SameEntries /\ UNCHANGED <<dinode, dir, inum, copy, name, raced>>
         /\ pc[p] \in {"user", "pipealloc", "pipefail"}
         /\ \E to \in {"user", "pipealloc", "pipefail", "pipeclose"} :
              pc' = [pc EXCEPT ![p] = to]
<1> DEFINE new == Least(FreeFiles)
           x == NewFile("none", None, FALSE)
<1>0. x.type = "none" /\ NoFile.type = "none" /\ DOMAIN ftable = File
  BY DEF NewFile, NoFile, CallInv, Kinds
<1>1. CASE PipeFirstFile(p) \/ PipeNoPage(p)
  <2>1. /\ ftable' = [ftable EXCEPT ![new] = x] /\ FreeFiles # {} /\ UNCHANGED inodeVars
        /\ pc[p] \in {"user", "pipealloc"}
        /\ \E to \in {"pipealloc", "pipefail"} : pc' = [pc EXCEPT ![p] = to]
    BY <1>1 DEF PipeFirstFile, PipeNoPage, Running, Move
  <2>2. new \in File /\ ftable[new].type = "none"
    BY <2>1, LeastFile DEF CallInv, FileShape
  <2> HIDE DEF new, x
  <2>3. SameEntries
    BY <1>0, <2>1, <2>2 DEF SameEntries, inodeVars, icacheVars, argVars
  <2>4. UNCHANGED <<dinode, dir, inum, copy, name, raced>>
    BY <2>1 DEF inodeVars, diskVars, icacheVars, argVars
  <2> QED  BY <2>1, <2>3, <2>4
<1>2. CASE PipeNoFile(p)
  <2> DEFINE f == Rf(p)
  <2>1. /\ pc[p] = "pipealloc" /\ pc' = [pc EXCEPT ![p] = "user"]
        /\ ftable' = [ftable EXCEPT ![f] = NoFile] /\ UNCHANGED inodeVars
    BY <1>2 DEF PipeNoFile, Move, Rf
  <2>2. ftable[f].type = "none"
    <3>1. <<p, FALSE>> \in Half /\ Rf(p) # None /\ Wf(p) = None
      BY <2>1 DEF CallInv, Shape, PipeShape, Half
    <3> QED  BY <3>1 DEF RefInv, FilePart, HeldFiles, HeldFile, Rf
  <2> HIDE DEF f
  <2>3. SameEntries
    BY <1>0, <2>1, <2>2 DEF SameEntries, inodeVars, icacheVars, argVars
  <2>4. UNCHANGED <<dinode, dir, inum, copy, name, raced>>
    BY <2>1 DEF inodeVars, diskVars, icacheVars, argVars
  <2> QED  BY <2>1, <2>3, <2>4
<1>3. CASE PipeMade(p) \/ PipeNoFds(p)
  <2>1. /\ pc[p] = "pipealloc" /\ \E to \in {"user", "pipefail"} : pc' = [pc EXCEPT ![p] = to]
        /\ FreeFiles # {} /\ Pipealloc(Rf(p), Least(FreeFiles)) /\ UNCHANGED inodeVars
    BY <1>3 DEF PipeMade, PipeNoFds, Move, Rf
  <2>2. PICK f, g \in File : \E q \in Pipe : \E y, z : PipeFiles(p, f, g, q, y, z)
    BY <2>1, PipeFilesAre
  <2>3. PICK q \in Pipe : \E y, z : PipeFiles(p, f, g, q, y, z)
    BY <2>2
  <2>4. PICK y, z : PipeFiles(p, f, g, q, y, z)
    BY <2>3
  <2>5. /\ ftable[f].type = "none" /\ ftable[g].type = "none" /\ y.type = "pipe" /\ z.type = "pipe"
        /\ ftable' = [ftable EXCEPT ![f] = y, ![g] = z]
    BY <2>4 DEF PipeFiles
  <2>6. SameEntries
    BY <1>0, <2>1, <2>5 DEF SameEntries, inodeVars, icacheVars, argVars
  <2>7. UNCHANGED <<dinode, dir, inum, copy, name, raced>>
    BY <2>1 DEF inodeVars, diskVars, icacheVars, argVars
  <2> QED  BY <2>1, <2>6, <2>7
<1>4. CASE PipeCloses(p)
  <2>1. PICK f \in File :
          /\ pc[p] = "pipefail" /\ ftable' = [ftable EXCEPT ![f] = NoFile]
          /\ ftable[f].type \in {"none", "pipe"}
          /\ \E to \in {"user", "pipefail", "pipeclose"} : pc' = [pc EXCEPT ![p] = to]
          /\ UNCHANGED <<ip, diskVars, icacheVars, other, name, raced>>
    <3>1. PICK second \in BOOLEAN : \E f \in File :
            /\ f = pfile[<<p, second>>] /\ ftable[f].ref = 1
            /\ pc[p] = "pipefail" /\ p \notin exiting
            /\ IF second THEN Rf(p) = None ELSE Wf(p) # None
            /\ pfile' = [pfile EXCEPT ![<<p, second>>] = None]
            /\ ftable' = [ftable EXCEPT ![f] = NoFile]
            /\ \/ /\ ftable[f].type = "none" /\ UNCHANGED request
                  /\ pc' = [pc EXCEPT ![p] = IF second THEN "user" ELSE "pipefail"]
               \/ /\ ftable[f].type = "pipe"
                  /\ request' = [request EXCEPT ![p] =
                       [pipe |-> ftable[f].obj, writable |-> ftable[f].writable]]
                  /\ pc' = [pc EXCEPT ![p] = "pipeclose"]
            /\ UNCHANGED <<exiting, killed, pipeState, ip, diskVars, icacheVars, other, name,
                           raced, consoleVars, ofile, contentVars, workload>>
      BY <1>4, PipeClosesIs DEF RefInv, FilePart
    <3> QED  BY <3>1
  <2>2. UNCHANGED <<ip, other, iref, dinode, dir, inum, copy, name, raced>>
    BY <2>1 DEF diskVars, icacheVars
  <2>3. SameEntries
    BY <1>0, <2>1, <2>2 DEF SameEntries
  <2> QED  BY <2>1, <2>2, <2>3
<1> QED  BY <1>1, <1>2, <1>3, <1>4 DEF MakePipe

LEMMA NamesMakePipe ==
  ASSUME CallInv, CallInv', RefInv, NameInv, NEW p \in Process, MakePipe(p) PROVE NameInv'
<1>1. pc[p] \notin InodeCall
  BY EntriesMakePipe DEF InodeCall
<1> QED  BY <1>1, EntriesMakePipe, QuietOne

LEMMA FilesFork ==
  ASSUME CallInv, NEW p \in Process, NEW child \in Process, Fork(p, child)
  PROVE  \A f \in File : ftable'[f].type = ftable[f].type /\ ftable'[f].obj = ftable[f].obj
<1> TAKE f \in File
<1> DEFINE n == Cardinality({fd \in FD : ofile[p][fd] = f})
           x == [ftable[f] EXCEPT !.ref = @ + n]
<1>1. ftable'[f] = x
  BY DEF Fork, Shared
<1>2. ftable[f] \in FileEntry
  BY DEF CallInv, Kinds
<1> HIDE DEF n
<1>3. x.type = ftable[f].type /\ x.obj = ftable[f].obj
  BY <1>2 DEF FileEntry
<1> HIDE DEF x
<1> QED  BY <1>1, <1>3

LEMMA NamesFork ==
  ASSUME CallInv, CallInv', NameInv, NEW p \in Process, NEW child \in Process, Fork(p, child)
  PROVE  NameInv'
<1>1. /\ pc[child] = "dead" /\ pc' = [pc EXCEPT ![child] = "user"]
      /\ ftable' = Shared(p) /\ UNCHANGED inodeVars
  BY DEF Fork
<1>2. \A f \in File : ftable'[f].type = ftable[f].type /\ ftable'[f].obj = ftable[f].obj
  BY FilesFork
<1>3. SameEntries
  BY <1>1, <1>2 DEF SameEntries, inodeVars, icacheVars, argVars
<1>4. UNCHANGED <<dinode, dir, inum, copy, name, raced>> /\ pc[child] \notin InodeCall
  BY <1>1 DEF inodeVars, diskVars, icacheVars, argVars, InodeCall
<1> QED  BY <1>1, <1>3, <1>4, QuietOne

(* A reference to entry s goes from a call to a new file, or from a file   *)
(* that is closed to the call that closes it.                              *)
Handed(p, f, s) ==
  /\ s \in Slot /\ copy[s] # None
  /\ UNCHANGED <<dinode, dir, inum, iref, copy, other, name, raced>>
  /\ \A g \in File \ {f} : ftable'[g] = ftable[g]
  /\ \A q \in Process \ {p} : pc'[q] = pc[q] /\ ip'[q] = ip[q]
  /\ \/ /\ pc[p] = "opened" /\ ip[p] = s /\ pc'[p] = "user" /\ ip'[p] = None
        /\ ftable[f].type # "inode" /\ ftable'[f].type = "inode" /\ ftable'[f].obj = s
     \/ /\ pc[p] \in {"user", "exiting"} /\ ip[p] = None /\ pc'[p] = "put" /\ ip'[p] = s
        /\ ftable[f].type = "inode" /\ ftable[f].obj = s /\ ftable'[f].type # "inode"

LEMMA NamesHanded ==
  ASSUME CallInv, NameInv, NEW p \in Process, NEW f \in File, NEW s, Handed(p, f, s)
  PROVE  NameInv'
<1>1. /\ s \in Slot /\ copy[s] # None
      /\ UNCHANGED <<dinode, dir, inum, iref, copy, other, name, raced>>
      /\ \A g \in File \ {f} : ftable'[g] = ftable[g]
      /\ \A q \in Process \ {p} : pc'[q] = pc[q] /\ ip'[q] = ip[q]
  BY DEF Handed
<1>2. \/ /\ pc[p] = "opened" /\ ip[p] = s /\ pc'[p] = "user" /\ ip'[p] = None
         /\ ftable[f].type # "inode" /\ ftable'[f].type = "inode" /\ ftable'[f].obj = s
      \/ /\ pc[p] \in {"user", "exiting"} /\ ip[p] = None /\ pc'[p] = "put" /\ ip'[p] = s
         /\ ftable[f].type = "inode" /\ ftable[f].obj = s /\ ftable'[f].type # "inode"
  BY DEF Handed
<1>3. \A t \in Slot : Relied(t)' <=> Relied(t)
  <2> TAKE t \in Slot
  <2> DEFINE A == \E g \in File : ftable[g].type = "inode" /\ ftable[g].obj = t
             B == \E q \in Process : (ip[q] = t /\ pc[q] # "drop") \/ other[q] = t
  <2>1. t # None
    BY ConstFacts
  <2>2. CASE t = s
    <3>1. Relied(t) /\ Relied(t)'
      BY <1>2, <2>2 DEF Relied
    <3> QED  BY <3>1
  <2>3. CASE t # s
    <3>1. A <=> A'
      BY <1>1, <1>2, <2>3
    <3>2. B <=> B'
      BY <1>1, <1>2, <2>1, <2>3
    <3> QED  BY <3>1, <3>2 DEF Relied
  <2> QED  BY <2>2, <2>3
<1>4. Cached' /\ Typed' /\ Kept'
  BY <1>1, <1>3 DEF NameInv, Cached, Typed, Kept
<1>5. ReadFiles'
  BY <1>1, <1>2 DEF NameInv, ReadFiles
<1>6. Links'
  <2>1. pc[p] \notin Owes /\ pc'[p] \notin Owes
    BY <1>2 DEF Owes
  <2>2. \A q \in Process : owed'[q] = owed[q]
    BY <1>1, <2>1 DEF owed
  <2>3. \A i : Count(Process, owed, i)' = Count(Process, owed, i)
    BY <2>2 DEF Count
  <2> QED  BY <1>1, <2>3 DEF NameInv, Links, Count
<1>7. ASSUME NEW q \in Process PROVE Progress(q)'
  <2>1. CASE q = p
    BY <1>1, <1>2, <2>1 DEF Progress, ReadIn
  <2>2. CASE q # p
    <3>1. Progress(q) /\ pc'[q] = pc[q] /\ ip'[q] = ip[q]
      BY <1>1, <2>2 DEF NameInv
    <3>2. CASE pc[q] = "create"
      <4>1. ip[q] \in Slot /\ ip[q] # None
        BY <3>2, Has, ConstFacts DEF InodeCall
      <4>2. ip[q] # s
        BY <1>2, <2>2, <3>1, <3>2 DEF Progress
      <4>3. /\ \A x \in Process \ {q} : ip'[x] = ip'[q] => pc'[x] = "drop"
            /\ \A g \in File : ftable'[g].type = "inode" => ftable'[g].obj # ip'[q]
        BY <1>1, <1>2, <2>2, <3>1, <3>2, <4>1, <4>2 DEF Progress
      <4> QED  BY <1>1, <3>1, <3>2, <4>3 DEF Progress, ReadIn
    <3>3. CASE pc[q] # "create"
      BY <1>1, <3>1, <3>3 DEF Progress
    <3> QED  BY <3>2, <3>3
  <2> QED  BY <2>1, <2>2
<1> QED  BY <1>4, <1>5, <1>6, <1>7 DEF NameInv

LEMMA NamesOpenFile ==
  ASSUME CallInv, NameInv, NEW p \in Process, OpenFile(p) PROVE NameInv'
<1> DEFINE f == Least(FreeFiles)
           x == NewFile("inode", ip[p], TRUE)
           s == ip[p]
<1>1. /\ f \in File /\ ftable[f].ref = 0 /\ ftable' = [ftable EXCEPT ![f] = x]
      /\ ip' = [ip EXCEPT ![p] = None] /\ pc' = [pc EXCEPT ![p] = "user"] /\ pc[p] = "opened"
      /\ UNCHANGED <<dinode, dir, inum, iref, copy, other, name, raced>>
  BY LeastFile DEF OpenFile, Move, diskVars
<1>2. /\ DOMAIN ftable = File /\ DOMAIN ip = Process /\ DOMAIN pc = Process
      /\ ftable[f].type = "none" /\ s \in Slot
  BY <1>1, Has DEF CallInv, Kinds, FileShape, InodeCall
<1>3. x.type = "inode" /\ x.obj = s
  BY DEF NewFile
<1>4. copy[s] # None
  BY <1>1 DEF NameInv, Progress, ReadIn
<1>5. ip[p] = s
  OBVIOUS
<1> HIDE DEF f, x, s
<1>6. Handed(p, f, s)
  BY <1>1, <1>2, <1>3, <1>4, <1>5 DEF Handed
<1> QED  BY <1>1, <1>6, NamesHanded

LEMMA NamesCloseFd ==
  ASSUME CallInv, CallInv', RefInv, NameInv, NEW p \in Process, NEW fd \in FD, CloseFd(p, fd),
         pc[p] \in {"user", "exiting"}
  PROVE  NameInv'
<1> DEFINE f == ofile[p][fd]
<1>1. /\ f # None /\ Fileclose(p, f, Return(p))
      /\ UNCHANGED <<dinode, dir, inum, iref, copy, other, name, raced>>
  BY DEF CloseFd, icacheVars, diskVars
<1>2. /\ f \in File /\ ftable[f].ref \in Nat /\ ftable[f] \in FileEntry /\ DOMAIN ftable = File
      /\ DOMAIN ip = Process /\ ip[p] = None /\ DOMAIN pc = Process /\ FileShape(f)
      /\ pc[p] \notin InodeCall
  BY <1>1, OpenFileKnown, Has DEF RefInv, CallInv, Kinds, InodeCall
<1> HIDE DEF f
<1>3. CASE ftable[f].ref > 1
  <2> DEFINE x == [ftable[f] EXCEPT !.ref = @ - 1]
  <2>1. /\ ftable' = [ftable EXCEPT ![f] = x] /\ pc' = [pc EXCEPT ![p] = Return(p)]
        /\ UNCHANGED ip
    BY <1>1, <1>3 DEF Fileclose
  <2>2. x.type = ftable[f].type /\ x.obj = ftable[f].obj
    BY <1>2 DEF FileEntry
  <2> HIDE DEF x
  <2>3. SameEntries
    BY <1>1, <1>2, <2>1, <2>2 DEF SameEntries
  <2> QED  BY <1>1, <1>2, <2>1, <2>3, QuietOne
<1>4. CASE ~(ftable[f].ref > 1) /\ ftable[f].type \in {"none", "pipe"}
  <2>1. /\ ftable' = [ftable EXCEPT ![f] = NoFile] /\ UNCHANGED ip
        /\ \E to \in {"pipeclose", Return(p)} : pc' = [pc EXCEPT ![p] = to]
    BY <1>1, <1>4 DEF Fileclose
  <2>2. SameEntries
    BY <1>1, <1>2, <1>4, <2>1 DEF SameEntries, NoFile
  <2> QED  BY <1>1, <1>2, <2>1, <2>2, QuietOne
<1>5. CASE ~(ftable[f].ref > 1) /\ ftable[f].type \notin {"none", "pipe"}
  <2> DEFINE s == ftable[f].obj
  <2>1. /\ ftable' = [ftable EXCEPT ![f] = NoFile] /\ pc' = [pc EXCEPT ![p] = "put"]
        /\ ip' = [ip EXCEPT ![p] = s] /\ ftable[f].type = "inode"
    BY <1>1, <1>5 DEF Fileclose
  <2>2. s \in Slot /\ copy[s] # None
    BY <1>2, <2>1 DEF FileShape, NameInv, ReadFiles
  <2>3. ftable[f].obj = s /\ NoFile.type # "inode"
    BY DEF NoFile
  <2> HIDE DEF s
  <2>4. Handed(p, f, s)
    BY <1>1, <1>2, <2>1, <2>2, <2>3 DEF Handed
  <2> QED  BY <1>2, <2>4, NamesHanded
<1> QED  BY <1>3, <1>4, <1>5

LEMMA NamesClose ==
  ASSUME CallInv, CallInv', RefInv, NameInv, NEW p \in Process,
         (\E fd \in FD : Close(p, fd)) \/ ExitCloses(p)
  PROVE  NameInv'
<1>1. CASE \E fd \in FD : Close(p, fd)
  BY <1>1, NamesCloseFd DEF Close, Running
<1>2. CASE ExitCloses(p)
  BY <1>2, NamesCloseFd, LeastOpen DEF ExitCloses
<1> QED  BY <1>1, <1>2

-----------------------------------------------------------------------------
(* Names: the start, every step                                            *)

LEMMA NamesInode ==
  ASSUME CallInv, RefInv, NameInv, NEW p \in Process, OnInode(p) PROVE NameInv'
<1>0. UNCHANGED <<ftable, ofile, pfile, writing, request>>
  BY DEF OnInode, pipeVars
<1>1. CASE InodeStep(p)
  <2>1. FilesSame
    BY <1>0, <1>1 DEF FilesSame, InodeStep, OpenLock, CreateLink, CreatePutDir, UnlinkErase,
       UnlinkDrop, LinkCount, LinkName, LinkTaken, LinkPutOther, LinkBack, IputFrees, IputKeeps,
       IputTruncates, IputDrops
  <2> QED  BY <1>1, <2>1, NamesOpenLock, NamesCreateLink, NamesCreatePutDir, NamesUnlinkErase,
         NamesLinkCount, NamesLinkName, NamesLinkTaken, NamesLinkPutOther, NamesIputFrees,
         NamesIputKeeps, NamesIputTruncates, NamesIputDrops DEF InodeStep
<1>2. CASE \E n \in Name : OpenLookup(p, n) \/ CreateIalloc(p, n) \/ UnlinkLookup(p, n)
  <2>1. FilesSame
    BY <1>0, <1>2 DEF FilesSame, OpenLookup, CreateIalloc, UnlinkLookup, Lookup
  <2> QED  BY <1>2, <2>1, NamesLookup, NamesCreateIalloc
<1>3. CASE \E o, n \in Name : LinkLookup(p, o, n)
  <2>1. FilesSame
    BY <1>0, <1>3 DEF FilesSame, LinkLookup, Lookup
  <2> QED  BY <1>3, <2>1, NamesLookup
<1> QED  BY <1>1, <1>2, <1>3 DEF OnInode, PathCall

LEMMA NamesStart ==
  ASSUME NEW S, S \subseteq Inum, S \subseteq Slot, InitInodes(S),
         \E d \in [Name -> S \cup {None}] :
           \A i \in S : \E n \in Name : d[n] = i /\ \A m \in Name \ {n} : d[m] # i,
         \A p \in Process : pc[p] \in {"user", "dead"},
         \A f \in File : ftable[f].type = "inode" => ftable[f].obj \in S
  PROVE  NameInv
<1> DEFINE P(d) == \A i \in S : \E n \in Name : d[n] = i /\ \A m \in Name \ {n} : d[m] # i
<1>1. dir \in [Name -> S \cup {None}] /\ P(dir)
  <2>1. dir = CHOOSE d \in [Name -> S \cup {None}] : P(d)
    BY DEF InitInodes
  <2>2. \E d \in [Name -> S \cup {None}] : P(d)
    OBVIOUS
  <2> HIDE DEF P
  <2> QED  BY <2>1, <2>2
<1>2. /\ \A i \in Inum : dinode[i] = IF i \in S THEN [type |-> TRUE, nlink |-> 1] ELSE Unallocated
      /\ DOMAIN dinode = Inum /\ dinode = [i \in Inum |-> dinode[i]]
      /\ \A s \in Slot : /\ inum[s] = IF s \in S THEN s ELSE None
                         /\ iref[s] = IF s \in S THEN 1 ELSE 0
                         /\ copy[s] = IF s \in S THEN dinode[s] ELSE None
      /\ \A p \in Process : ip[p] = None /\ other[p] = None
  BY DEF InitInodes
<1>3. \A i \in Inum : /\ dinode[i] \in DiskInode /\ (dinode[i].type <=> i \in S)
                      /\ dinode[i].nlink = IF i \in S THEN 1 ELSE 0
                      /\ i \in S => dinode[i] # None
  <2> DEFINE x == [type |-> TRUE, nlink |-> 1]
  <2>1. /\ x \in DiskInode /\ x.type /\ x.nlink = 1
        /\ Unallocated \in DiskInode /\ ~Unallocated.type /\ Unallocated.nlink = 0
    BY DEF DiskInode, Unallocated
  <2>2. x # None
    <3> HIDE DEF x
    <3> QED  BY <2>1, NotNone
  <2>3. \A i \in Inum : dinode[i] = IF i \in S THEN x ELSE Unallocated
    BY <1>2
  <2> HIDE DEF x
  <2> QED  BY <2>1, <2>2, <2>3
<1>4. Cached
  <2>1. dinode \in [Inum -> DiskInode] /\ dir \in [Name -> Inum \cup {None}]
    <3>1. dinode \in [Inum -> DiskInode]
      BY <1>2, <1>3, Zenon
    <3>2. dir \in [Name -> Inum \cup {None}]
      BY <1>1
    <3> QED  BY <3>1, <3>2
  <2>2. \A s \in Slot : iref[s] > 0 => s \in S /\ inum[s] = s /\ copy[s] = dinode[s]
    BY <1>2
  <2>3. \A s \in Slot : iref[s] > 0 =>
          /\ inum[s] \in Inum
          /\ copy[s] # None => copy[s] = dinode[inum[s]] /\ dinode[inum[s]].type
    BY <1>3, <2>2
  <2> QED  BY <2>1, <2>2, <2>3 DEF Cached
<1>5. Links
  <2> SUFFICES ASSUME NEW i \in Inum
               PROVE  dinode[i].nlink = Count(Name, dir, i) + Count(Process, owed, i)
    BY DEF Links
  <2>1. Count(Process, owed, i) = 0
    <3>1. \A q \in Process : owed[q] # i
      BY ConstFacts DEF owed, Owes
    <3> QED  BY ONLY <3>1, CountNone
  <2>2. CASE i \in S
    <3>1. PICK n \in Name : dir[n] = i /\ \A m \in Name \ {n} : dir[m] # i
      BY <1>1, <2>2
    <3>2. {m \in Name : dir[m] = i} = {n}
      BY <3>1
    <3>3. Count(Name, dir, i) = 1
      BY <3>2, FS_Singleton DEF Count
    <3> QED  BY <1>3, <2>1, <2>2, <3>3
  <2>3. CASE i \notin S
    <3>1. {m \in Name : dir[m] = i} = {}
      BY <1>1, <2>3, ConstFacts
    <3>2. Count(Name, dir, i) = 0
      BY <3>1, FS_EmptySet DEF Count
    <3> QED  BY <1>3, <2>1, <2>3, <3>2
  <2> QED  BY <2>2, <2>3
<1>6. \A s \in Slot : Relied(s) => s \in S
  BY <1>2, ConstFacts DEF Relied
<1>7. Typed
  BY <1>1, <1>2, <1>3, <1>6 DEF Typed
<1>8. Kept
  BY <1>1, <1>3 DEF Kept
<1>9. ReadFiles
  BY <1>2, <1>3 DEF ReadFiles
<1>10. \A p \in Process : Progress(p)
  BY DEF Progress, ReadIn
<1> QED  BY <1>4, <1>5, <1>7, <1>8, <1>9, <1>10 DEF NameInv

LEMMA TwoNames == \E a, b \in Name : a # b
<1>1. IsFiniteSet(Name) /\ Cardinality(Name) > 1
  BY InodeAssumption, FilesAssumption
<1>2. PICK a \in Name : TRUE
  BY SomeName
<1>3. Name # {a}
  <2>1. Cardinality({a}) = 1
    BY FS_Singleton
  <2> QED  BY <1>1, <2>1
<1> QED  BY <1>2, <1>3

LEMMA NamesInit == Init => NameInv
<1> SUFFICES ASSUME Init PROVE NameInv
  OBVIOUS
<1>1. CASE workload = "contents"
  <2> DEFINE S == {1, 2}
             x == [NewFile("inode", 1, TRUE) EXCEPT !.ref = Cardinality(Process)]
             y == [NewFile("inode", 2, TRUE) EXCEPT !.ref = Cardinality(Process) - 1]
  <2>1. /\ InitInodes(S) /\ \A p \in Process : pc[p] \in {"user", "dead"}
        /\ ftable = [InitialFiles(0) EXCEPT ![1] = x, ![2] = y]
    BY <1>1 DEF Init
  <2>2. x.obj = 1 /\ y.obj = 2
    BY DEF NewFile
  <2>3. \A f \in File : ftable[f].type = "inode" => ftable[f].obj \in S
    <3> HIDE DEF x, y
    <3>1. NoFile.type # "inode"
      BY DEF NoFile
    <3>2. \A f \in File : /\ f = 1 => ftable[f] = x
                          /\ f = 2 => ftable[f] = y
                          /\ f \notin {1, 2} => ftable[f] = InitialFiles(0)[f]
      BY <2>1, FirstFiles
    <3>3. \A f \in File \ {1, 2} : ftable[f].type # "inode"
      BY <3>1, <3>2, FirstFiles
    <3> QED  BY <2>2, <3>2, <3>3
  <2>4. \E d \in [Name -> S \cup {None}] :
          \A i \in S : \E n \in Name : d[n] = i /\ \A m \in Name \ {n} : d[m] # i
    <3>1. PICK a, b \in Name : a # b
      BY TwoNames
    <3> DEFINE d == [n \in Name |-> IF n = a THEN 1 ELSE IF n = b THEN 2 ELSE None]
    <3>2. /\ d \in [Name -> S \cup {None}] /\ d[a] = 1 /\ d[b] = 2
          /\ \A m \in Name : (d[m] = 1 => m = a) /\ (d[m] = 2 => m = b)
      BY <3>1, ConstFacts
    <3> HIDE DEF d
    <3>3. \A i \in S : \E n \in Name : d[n] = i /\ \A m \in Name \ {n} : d[m] # i
      BY <3>2
    <3> QED  BY <3>2, <3>3
  <2>5. S \subseteq Inum /\ S \subseteq Slot
    BY FilesAssumption, ConstFacts
  <2> HIDE DEF S, x, y
  <2> QED  BY <2>1, <2>3, <2>4, <2>5, NamesStart
<1>2. CASE workload # "contents"
  <2> DEFINE S == {}
  <2>1. /\ InitInodes(S) /\ \A p \in Process : pc[p] \in {"user", "dead"}
        /\ \E n \in Nat : ftable = InitialFiles(n)
    BY <1>2, ProcessCount DEF Init
  <2>2. \A f \in File : ftable[f].type = "inode" => ftable[f].obj \in S
    <3>1. NoFile.type # "inode"
      BY DEF NoFile
    <3> QED  BY <2>1, <3>1, FirstFiles
  <2>3. \E d \in [Name -> S \cup {None}] :
          \A i \in S : \E n \in Name : d[n] = i /\ \A m \in Name \ {n} : d[m] # i
    <3>1. [n \in Name |-> None] \in [Name -> S \cup {None}]
      OBVIOUS
    <3> QED  BY <3>1
  <2>4. S \subseteq Inum /\ S \subseteq Slot
    OBVIOUS
  <2> HIDE DEF S
  <2> QED  BY <2>1, <2>2, <2>3, <2>4, NamesStart
<1> QED  BY <1>1, <1>2

LEMMA NamesStep == CallInv /\ CallInv' /\ RefInv /\ NameInv /\ [Next]_vars => NameInv'
<1> SUFFICES ASSUME CallInv, CallInv', RefInv, NameInv, [Next]_vars PROVE NameInv'
  OBVIOUS
<1>1. ASSUME NEW p \in Process, Descriptors(p) PROVE NameInv'
  BY <1>1, NamesDup, NamesClose, NamesCalls DEF Descriptors
<1>2. ASSUME NEW p \in Process, OnPipe(p) PROVE NameInv'
  BY <1>2, NamesOnPipe
<1>3. ASSUME NEW p \in Process, OnInode(p) PROVE NameInv'
  BY <1>3, NamesInode
<1>4. ASSUME NEW p \in Process, OnContents(p) PROVE NameInv'
  BY <1>4, NamesOnContents
<1>5. ASSUME NEW p \in Process, MakePipe(p) PROVE NameInv'
  BY <1>5, NamesMakePipe
<1>6. ASSUME NEW p \in Process, OpenFile(p) \/ OpenFails(p) PROVE NameInv'
  BY <1>6, NamesOpenFile, NamesOpenFails
<1>7. ASSUME NEW p \in Process, Life(p) PROVE NameInv'
  BY <1>7, NamesProcesses, NamesClose, NamesFork DEF Life
<1>8. CASE Keyboard \/ \E p \in Process : OnConsole(p)
  BY <1>8, NamesConsole
<1>9. CASE UNCHANGED vars
  <2>1. Quiet
    BY <1>9 DEF vars, callVars, inodeVars, diskVars, icacheVars, argVars, fileVars, Quiet,
       SameEntries
  <2> QED  BY <2>1, QuietNames
<1> QED  BY <1>1, <1>2, <1>3, <1>4, <1>5, <1>6, <1>7, <1>8, <1>9 DEF Next

-----------------------------------------------------------------------------
(* What the invariant says of Files                                        *)

LEMMA OwedAre ==
  ASSUME NEW i \in Inum
  PROVE  Count(Process, owed, i) = Cardinality(NameGone(i)) + Cardinality(NameToCome(i))
<1> DEFINE A == NameGone(i)
           B == NameToCome(i)
           C == {p \in Process : owed[p] = i}
<1>1. IsFiniteSet(A) /\ IsFiniteSet(B)
  <2>1. A \in SUBSET Process /\ B \in SUBSET Process
    BY DEF NameGone, NameToCome
  <2> QED  BY <2>1, ProcessAssumption, FS_Subset
<1>2. A \cap B = {}
  BY DEF NameGone, NameToCome
<1>3. C = A \cup B
  BY ConstFacts DEF NameGone, NameToCome, owed, Owes
<1> HIDE DEF A, B, C
<1>4. Cardinality(C) = Cardinality(A) + Cardinality(B)
  BY ONLY <1>1, <1>2, <1>3, Joined
<1> QED  BY <1>4 DEF A, B, C, Count

LEMMA NameInvNames == ASSUME CallInv, RefInv, NameInv PROVE NamesAndLinks
<1>1. ASSUME NEW i \in Inum
      PROVE  dinode[i].nlink = Cardinality({n \in Name : dir[n] = i})
               + Cardinality(NameGone(i)) + Cardinality(NameToCome(i))
  <2>1. /\ Cardinality(NameGone(i)) \in Nat /\ Cardinality(NameToCome(i)) \in Nat
        /\ Count(Name, dir, i) \in Nat
    <3>1. NameGone(i) \in SUBSET Process /\ NameToCome(i) \in SUBSET Process
      BY DEF NameGone, NameToCome
    <3>2. IsFiniteSet(Name) /\ IsFiniteSet(Process)
      BY InodeAssumption, ProcessAssumption
    <3> QED  BY <3>1, <3>2, FS_Subset, FS_CardinalityType, CountType
  <2>2. dinode[i].nlink = Count(Name, dir, i) + Count(Process, owed, i)
    BY DEF NameInv, Links
  <2>3. dinode[i].nlink = Count(Name, dir, i)
               + Cardinality(NameGone(i)) + Cardinality(NameToCome(i))
    BY <2>1, <2>2, OwedAre
  <2> QED  BY <2>3 DEF Count
<1>2. ASSUME NEW p \in Process, pc[p] = "unlink"
      PROVE  ~NoType(ip[p]) /\ Found(ip[p]).nlink >= 1
  <2>1. /\ ip[p] \in Slot /\ inum[ip[p]] \in Inum
        /\ Found(ip[p]) = dinode[inum[ip[p]]] /\ dinode[inum[ip[p]]].type
        /\ dinode[inum[ip[p]]].nlink \in Nat /\ name[p] \in Name
    BY <1>2, InHand DEF InodeCall, Named
  <2>2. dir[name[p]] = inum[ip[p]]
    BY <1>2 DEF NameInv, Progress
  <2>3. dinode[inum[ip[p]]].nlink > 0
    BY <2>1, <2>2, LinkCounts
  <2> QED  BY <2>1, <2>3 DEF NoType
<1>3. \A s \in Slot : iref[s] > 0 /\ copy[s] # None => copy[s] = dinode[inum[s]]
  BY DEF NameInv, Cached
<1> QED  BY <1>1, <1>2, <1>3 DEF NameInv, Typed, Cached, NamesAndLinks

LEMMA NameInvKept == ASSUME CallInv, RefInv, NameInv PROVE OnlyRacingPutsLeak
BY ReliedUsed DEF NameInv, Kept, OnlyRacingPutsLeak

LEMMA AllNames == Spec => [](CallInv /\ RefInv /\ NameInv)
<1>1. Init => CallInv /\ RefInv /\ NameInv
  BY CallInit, RefsInit, NamesInit
<1>2. CallInv /\ RefInv /\ NameInv /\ [Next]_vars => (CallInv /\ RefInv /\ NameInv)'
  BY CallStep, RefsStep, NamesStep DEF RefInv, FilePart
<1> QED  BY <1>1, <1>2, PTL DEF Spec

(* NamesAndLinks, for any number of processes, inodes, entries and names:  *)
(* link counts are right but for calls between a name and its count, no    *)
(* name, open file or call is left with an inode that is not allocated,    *)
(* an inode has one entry, which agrees with the disk, and unlink() never  *)
(* finds a link count below one.                                           *)
THEOREM LinksAreNames == Spec => []NamesAndLinks
<1>1. CallInv /\ RefInv /\ NameInv => NamesAndLinks
  BY NameInvNames
<1> QED  BY <1>1, AllNames, PTL

(* OnlyRacingPutsLeak, likewise: an inode that has no names any more and   *)
(* is in no entry is freed, unless its last references raced in iput().    *)
THEOREM InodesAreFreed == Spec => []OnlyRacingPutsLeak
<1>1. CallInv /\ RefInv /\ NameInv => OnlyRacingPutsLeak
  BY NameInvKept
<1> QED  BY <1>1, AllNames, PTL
=============================================================================
