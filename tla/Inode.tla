-------------------------------- MODULE Inode --------------------------------
(***************************************************************************)
(* Inodes (fs.c) and the calls that create, look up, link and unlink them  *)
(* (sysfile.c): plain files in one directory.  A call that only locks and  *)
(* unlocks one object, or does something while it holds one lock that      *)
(* nobody can see before it lets go, is one step; where a process waits    *)
(* for a lock while it holds another, there are two.  That a sleeper on a  *)
(* sleep lock is woken is checked in BufferCache; here a process that must *)
(* wait has no step.  The directory itself is never freed, so references   *)
(* to it are not counted; its lock is.  Contents of files are left out.    *)
(* Where the code panics (no free inode, no free entry) a call has no step.*)
(***************************************************************************)
EXTENDS Call

CONSTANTS
  NINODE,        \* entries of icache
  Inum,          \* inodes on the disk
  Name           \* names in the directory

ASSUME InodeAssumption ==
  /\ NINODE \in Nat \ {0} /\ IsFiniteSet(Inum) /\ Inum \subseteq Nat
  /\ IsFiniteSet(Name)
  /\ None \notin Inum \cup Name \cup Process \cup 1 .. NINODE
  /\ None \notin [type : BOOLEAN, nlink : Nat]

Slot == 1 .. NINODE
Root == 0                  \* the lock of the directory's inode

VARIABLES
  dinode,        \* on disk, per inode: allocated (type # 0), nlink
  dir,           \* on disk, per name: an inode, or None
  inum, iref,    \* icache: which inode an entry is for, ip->ref
  copy,          \* icache: what ilock() read; None while ip->valid is 0
  locked,        \* ip->lock: who holds it
  ip, other,     \* per process: the entries its call refers to
  name,          \* per process: the last element of the path its call changes
  raced          \* history: inodes whose last references were put at the same time

diskVars == <<dinode, dir>>
icacheVars == <<inum, iref, copy, locked>>
argVars == <<ip, other, name>>
inodeVars == <<diskVars, icacheVars, argVars, raced>>

Unallocated == [type |-> FALSE, nlink |-> 0]

(* The inodes of Open are there, each with a name and an open file.        *)
InitInodes(Open) ==
  /\ dinode = [i \in Inum |->
       IF i \in Open THEN [type |-> TRUE, nlink |-> 1] ELSE Unallocated]
  /\ dir = CHOOSE d \in [Name -> Open \cup {None}] :
       \A i \in Open : \E n \in Name : d[n] = i /\ \A m \in Name \ {n} : d[m] # i
  /\ inum = [s \in Slot |-> IF s \in Open THEN s ELSE None]
  /\ iref = [s \in Slot |-> IF s \in Open THEN 1 ELSE 0]
  /\ copy = [s \in Slot |-> IF s \in Open THEN dinode[s] ELSE None]
  /\ locked = [s \in Slot \cup {Root} |-> None]
  /\ ip = [p \in Process |-> None] /\ other = [p \in Process |-> None]
  /\ name = [p \in Process |-> None]
  /\ raced = {}

-----------------------------------------------------------------------------
(* iget(): the entry for inode i, or the first that is free                *)
Hits(i) == {s \in Slot : iref[s] > 0 /\ inum[s] = i}
Vacant == {s \in Slot : iref[s] = 0}
CanIget(i) == Hits(i) \cup Vacant # {}
Entry(i) == IF Hits(i) # {} THEN Least(Hits(i)) ELSE Least(Vacant)

Recycled(i) == IF Hits(i) # {} THEN copy[Entry(i)] ELSE None

Iget(i) ==
  /\ inum' = [inum EXCEPT ![Entry(i)] = i]
  /\ iref' = [iref EXCEPT ![Entry(i)] = @ + 1]
  /\ copy' = [copy EXCEPT ![Entry(i)] = Recycled(i)]

(* ilock(): what its caller finds in the inode.  That this is never an     *)
(* unallocated one, where ilock() panics, is part of NamesAndLinks.        *)
CanLock(s) == locked[s] = None
Found(s) == IF copy[s] = None THEN dinode[inum[s]] ELSE copy[s]
NoType(s) == ~Found(s).type

(* A change of the inode in entry s, which iupdate() writes through.       *)
Update(s, di) ==
  /\ copy' = [copy EXCEPT ![s] = di]
  /\ dinode' = [dinode EXCEPT ![inum[s]] = di]

Linked(s, n) == [Found(s) EXCEPT !.nlink = @ + n]

-----------------------------------------------------------------------------
(* open() of a name that is there, with or without O_CREATE                *)

Lookup(p, n, at, to) ==
  /\ Move(p, at, to) /\ CanLock(Root)
  /\ dir[n] # None /\ CanIget(dir[n]) /\ Iget(dir[n])
  /\ ip' = [ip EXCEPT ![p] = Entry(dir[n])]
  /\ UNCHANGED <<diskVars, other, raced, exiting, killed>>

OpenLookup(p, n) == Lookup(p, n, "user", "open") /\ UNCHANGED <<locked, name>>

OpenLock(p) ==
  /\ pc[p] = "open" /\ CanLock(ip[p])
  /\ locked' = [locked EXCEPT ![ip[p]] = p]
  /\ copy' = [copy EXCEPT ![ip[p]] = Found(ip[p])]
  /\ pc' = [pc EXCEPT ![p] = "opened"]
  /\ UNCHANGED <<diskVars, inum, iref, argVars, raced, exiting, killed>>

(* create(): the directory stays locked while the new inode is locked      *)

Unused == {i \in Inum : ~dinode[i].type}

CreateIalloc(p, n) ==
  /\ Move(p, "user", "create") /\ CanLock(Root) /\ dir[n] = None
  /\ Unused # {} /\ CanIget(Least(Unused)) /\ Iget(Least(Unused))
  /\ dinode' = [dinode EXCEPT ![Least(Unused)] = [type |-> TRUE, nlink |-> 0]]
  /\ ip' = [ip EXCEPT ![p] = Entry(Least(Unused))]
  /\ name' = [name EXCEPT ![p] = n]
  /\ locked' = [locked EXCEPT ![Root] = p]
  /\ UNCHANGED <<dir, other, raced, exiting, killed>>

CreateLink(p) ==
  /\ pc[p] = "create" /\ CanLock(ip[p])
  /\ Update(ip[p], [Found(ip[p]) EXCEPT !.nlink = 1])
  /\ dir' = [dir EXCEPT ![name[p]] = inum[ip[p]]]
  /\ locked' = [locked EXCEPT ![ip[p]] = p, ![Root] = None]
  /\ name' = [name EXCEPT ![p] = None]
  /\ pc' = [pc EXCEPT ![p] = "created"]
  /\ UNCHANGED <<inum, iref, ip, other, raced, exiting, killed>>

(* iput() of the directory, which locks it again                           *)
CreatePutDir(p) ==
  /\ Move(p, "created", "opened") /\ CanLock(Root)
  /\ UNCHANGED <<inodeVars, exiting, killed>>

-----------------------------------------------------------------------------
(* unlink()                                                                *)

UnlinkLookup(p, n) ==
  /\ Lookup(p, n, "user", "unlink")
  /\ name' = [name EXCEPT ![p] = n]
  /\ locked' = [locked EXCEPT ![Root] = p]

UnlinkErase(p) ==
  /\ pc[p] = "unlink" /\ CanLock(ip[p])
  /\ copy' = [copy EXCEPT ![ip[p]] = Found(ip[p])]
  /\ dir' = [dir EXCEPT ![name[p]] = None]
  /\ locked' = [locked EXCEPT ![ip[p]] = p, ![Root] = None]
  /\ name' = [name EXCEPT ![p] = None]
  /\ pc' = [pc EXCEPT ![p] = "unlinked"]
  /\ UNCHANGED <<dinode, inum, iref, ip, other, raced, exiting, killed>>

(* iput() of the directory with the inode locked, then the link count      *)
UnlinkDrop(p) ==
  /\ Move(p, "unlinked", "put") /\ CanLock(Root)
  /\ Update(ip[p], Linked(ip[p], -1))
  /\ locked' = [locked EXCEPT ![ip[p]] = None]
  /\ UNCHANGED <<dir, inum, iref, argVars, raced, exiting, killed>>

-----------------------------------------------------------------------------
(* link(): the link count first, then the name                             *)

LinkLookup(p, o, n) ==
  Lookup(p, o, "user", "link") /\ name' = [name EXCEPT ![p] = n] /\ UNCHANGED locked

StillLocked(p) == [locked EXCEPT ![ip[p]] = p]    \* mutant: the directory under ip->lock
Unlocked(p) == locked

LinkCount(p) ==
  /\ Move(p, "link", "link_dir") /\ CanLock(ip[p])
  /\ Update(ip[p], Linked(ip[p], 1))
  /\ locked' = Unlocked(p)
  /\ UNCHANGED <<dir, inum, iref, argVars, raced, exiting, killed>>

LinkName(p) ==
  /\ Move(p, "link_dir", "put") /\ CanLock(Root) /\ dir[name[p]] = None
  /\ dir' = [dir EXCEPT ![name[p]] = inum[ip[p]]]
  /\ name' = [name EXCEPT ![p] = None]
  /\ UNCHANGED <<dinode, icacheVars, ip, other, raced, exiting, killed>>

(* The name is taken: dirlink() looks up and puts the inode that has it.   *)
LinkTaken(p) ==
  /\ Move(p, "link_dir", "link_taken") /\ CanLock(Root)
  /\ dir[name[p]] # None /\ CanIget(dir[name[p]]) /\ Iget(dir[name[p]])
  /\ other' = [other EXCEPT ![p] = Entry(dir[name[p]])]
  /\ name' = [name EXCEPT ![p] = None]
  /\ locked' = [locked EXCEPT ![Root] = p]
  /\ UNCHANGED <<diskVars, ip, raced, exiting, killed>>

(* That inode has a name, so that this iput() never frees it.              *)
LinkPutOther(p) ==
  /\ Move(p, "link_taken", "link_back") /\ CanLock(other[p])
  /\ iref' = [iref EXCEPT ![other[p]] = @ - 1]
  /\ other' = [other EXCEPT ![p] = None]
  /\ locked' = [locked EXCEPT ![Root] = None]
  /\ UNCHANGED <<diskVars, inum, copy, ip, name, raced, exiting, killed>>

LinkBack(p) ==
  /\ Move(p, "link_back", "put") /\ CanLock(ip[p])
  /\ Update(ip[p], Linked(ip[p], -1))
  /\ UNCHANGED <<dir, inum, iref, locked, argVars, raced, exiting, killed>>

-----------------------------------------------------------------------------
(* iput(): the decision, the freeing, and the reference, which goes last   *)

LastOfAny(s) == TRUE                              \* mutant: does not look at ip->ref
LastAfterDrop(s) == iref[s] = 0                   \* mutant: as if ip->ref had been dropped
LastReference(s) == iref[s] = 1

Linkless(s) == copy[s] # None /\ copy[s].nlink = 0

IputFrees(p) ==
  /\ Move(p, "put", "free") /\ CanLock(ip[p]) /\ Linkless(ip[p]) /\ LastReference(ip[p])
  /\ locked' = [locked EXCEPT ![ip[p]] = p]
  /\ UNCHANGED <<diskVars, inum, iref, copy, argVars, raced, exiting, killed>>

Putting(s) == {q \in Process : ip[q] = s /\ pc[q] \in {"put", "drop"}}

IputKeeps(p) ==
  /\ Move(p, "put", "drop") /\ CanLock(ip[p])
  /\ ~(Linkless(ip[p]) /\ LastReference(ip[p]))
  /\ raced' = IF /\ Linkless(ip[p]) /\ Putting(ip[p]) # {p}
                 /\ iref[ip[p]] = Cardinality(Putting(ip[p]))
              THEN raced \cup {inum[ip[p]]} ELSE raced
  /\ UNCHANGED <<diskVars, icacheVars, argVars, exiting, killed>>

Invalid(s) == None

IputTruncates(p) ==
  /\ Move(p, "free", "drop")
  /\ dinode' = [dinode EXCEPT ![inum[ip[p]]] = Unallocated]
  /\ copy' = [copy EXCEPT ![ip[p]] = Invalid(ip[p])]
  /\ locked' = [locked EXCEPT ![ip[p]] = None]
  /\ raced' = raced \ {inum[ip[p]]}
  /\ UNCHANGED <<dir, inum, iref, argVars, exiting, killed>>

(* A vacant entry keeps its copy, but nobody looks for an inode in it.     *)
IputDrops(p) ==
  /\ Move(p, "drop", Return(p))
  /\ iref' = [iref EXCEPT ![ip[p]] = @ - 1]
  /\ inum' = [inum EXCEPT ![ip[p]] = IF iref[ip[p]] = 1 THEN None ELSE @]
  /\ ip' = [ip EXCEPT ![p] = None]
  /\ UNCHANGED <<diskVars, copy, locked, other, name, raced, exiting, killed>>

-----------------------------------------------------------------------------
PathCall(p) ==
  \/ \E n \in Name : OpenLookup(p, n) \/ CreateIalloc(p, n) \/ UnlinkLookup(p, n)
  \/ \E o, n \in Name : LinkLookup(p, o, n)

InodeStep(p) ==
  \/ OpenLock(p) \/ CreateLink(p) \/ CreatePutDir(p)
  \/ UnlinkErase(p) \/ UnlinkDrop(p)
  \/ LinkCount(p) \/ LinkName(p) \/ LinkTaken(p) \/ LinkPutOther(p) \/ LinkBack(p)
  \/ IputFrees(p) \/ IputKeeps(p) \/ IputTruncates(p) \/ IputDrops(p)

InodesTypeOK ==
  /\ dinode \in [Inum -> [type : BOOLEAN, nlink : Nat]]
  /\ dir \in [Name -> Inum \cup {None}]
  /\ inum \in [Slot -> Inum \cup {None}] /\ iref \in [Slot -> Nat]
  /\ \A s \in Slot : copy[s] = None \/ copy[s] \in [type : BOOLEAN, nlink : Nat]
  /\ locked \in [Slot \cup {Root} -> Process \cup {None}]
  /\ ip \in [Process -> Slot \cup {None}] /\ other \in [Process -> Slot \cup {None}]
  /\ name \in [Process -> Name \cup {None}]
=============================================================================
