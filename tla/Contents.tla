------------------------------ MODULE Contents ------------------------------
(***************************************************************************)
(* The contents of plain files (fs.c, file.c): which blocks of the disk    *)
(* hold a file, and how reads and writes move through it.  What the bytes  *)
(* are is left out: a block that belongs to one file holds what was        *)
(* written there.  write() is cut where the inode is locked and wherever a *)
(* block is taken from the bitmap.  Where the code panics (no free block)  *)
(* it has no step.                                                         *)
(***************************************************************************)
EXTENDS Inode

CONSTANTS
  BSIZE,                   \* bytes of a block
  NDIRECT, NINDIRECT,      \* blocks that the inode, the indirect block can name
  LOGSIZE,
  DataBlock,               \* blocks that files can have
  NFILE                    \* open files in the system

ASSUME ContentsAssumption ==
  /\ BSIZE \in Nat \ {0} /\ NDIRECT \in Nat /\ NINDIRECT \in Nat
  /\ LOGSIZE \in Nat /\ LOGSIZE >= 6
  /\ DataBlock \subseteq Nat /\ IsFiniteSet(DataBlock) /\ None \notin DataBlock
  /\ NFILE \in Nat \ {0}

File == 1 .. NFILE
MAXFILE == NDIRECT + NINDIRECT

VARIABLES
  used,          \* the bitmap
  addrs,         \* per inode: its blocks in order, None where there is none
  indirect,      \* per inode: its indirect block, or None
  size,          \* per inode
  off,           \* per open file: f->off
  writing        \* per process in filewrite(): its file and inode, the bytes to go,
                 \* those of this call of writei(), and where they go

blockVars == <<used, addrs, indirect, size>>
contentVars == <<blockVars, off, writing>>

NotWriting == [file |-> None, slot |-> None, n |-> 0, chunk |-> 0, pos |-> 0]
NoAddrs == [k \in 0 .. MAXFILE - 1 |-> None]

InitContents ==
  /\ used = {} /\ addrs = [i \in Inum |-> NoAddrs] /\ indirect = [i \in Inum |-> None]
  /\ size = [i \in Inum |-> 0]
  /\ off = [f \in File |-> 0] /\ writing = [p \in Process |-> NotWriting]

-----------------------------------------------------------------------------
(* balloc(): the search and the mark are one step, under the bitmap's lock *)
Balloc == DataBlock \ used # {} /\ used' = used \cup {Least(DataBlock \ used)}

(* bmap(): block k of inode i, taken if it is not there                    *)
NeedsIndirect(i, k) == k >= NDIRECT /\ indirect[i] = None

BmapIndirect(i, k) ==
  /\ NeedsIndirect(i, k) /\ Balloc
  /\ indirect' = [indirect EXCEPT ![i] = Least(DataBlock \ used)]
  /\ UNCHANGED addrs

Bmap(i, k) ==
  /\ ~NeedsIndirect(i, k)
  /\ \/ addrs[i][k] # None /\ UNCHANGED <<used, addrs>>
     \/ /\ addrs[i][k] = None /\ Balloc
        /\ addrs' = [addrs EXCEPT ![i][k] = Least(DataBlock \ used)]
  /\ UNCHANGED indirect

Direct(i) == {addrs[i][k] : k \in 0 .. NDIRECT - 1} \ {None}
ThroughIndirect(i) ==
  IF indirect[i] = None THEN {}
  ELSE {addrs[i][k] : k \in NDIRECT .. MAXFILE - 1} \ {None}

Blocks(i) == Direct(i) \cup ThroughIndirect(i) \cup ({indirect[i]} \ {None})

AllButIndirect(i) == Direct(i) \cup ThroughIndirect(i)    \* mutant: that block is kept
Truncated(i) == Blocks(i)

Itrunc(i) ==
  /\ used' = used \ Truncated(i)
  /\ addrs' = [addrs EXCEPT ![i] = NoAddrs]
  /\ indirect' = [indirect EXCEPT ![i] = None]
  /\ size' = [size EXCEPT ![i] = 0]

-----------------------------------------------------------------------------
(* read(): fileread() and readi()                                          *)
Fileread(f, s, n) ==
  /\ CanLock(s) /\ off[f] <= size[inum[s]]
  /\ off' = [off EXCEPT ![f] = Least({@ + n, size[inum[s]]})]
  /\ UNCHANGED <<blockVars, writing>>

(* write(): filewrite() in pieces, each a transaction                      *)
MaxChunk == ((LOGSIZE - 1 - 1 - 2) \div 2) * BSIZE

FilewriteCall(p, f, s, n) ==
  /\ Move(p, "user", "filewrite")
  /\ writing' = [writing EXCEPT ![p] = [NotWriting EXCEPT !.file = f, !.slot = s, !.n = n]]
  /\ UNCHANGED <<exiting, killed, inodeVars, blockVars, off>>

WFile(p) == writing[p].file
WSlot(p) == writing[p].slot
Piece(p) == Least({writing[p].n, MaxChunk})
MayWrite(p) ==
  /\ off[WFile(p)] <= size[inum[WSlot(p)]]
  /\ off[WFile(p)] + Piece(p) <= MAXFILE * BSIZE

WriteiBegins(p) ==
  /\ Move(p, "filewrite", "writei") /\ CanLock(WSlot(p)) /\ MayWrite(p)
  /\ locked' = [locked EXCEPT ![WSlot(p)] = p]
  /\ writing' = [writing EXCEPT ![p].chunk = Piece(p), ![p].pos = off[WFile(p)]]
  /\ UNCHANGED <<exiting, killed, diskVars, inum, iref, copy, argVars, raced, blockVars, off>>

(* What earlier pieces have written stays.                                 *)
WriteiFails(p) ==
  /\ Move(p, "filewrite", "user") /\ CanLock(WSlot(p)) /\ ~MayWrite(p)
  /\ writing' = [writing EXCEPT ![p] = NotWriting]
  /\ UNCHANGED <<exiting, killed, inodeVars, blockVars, off>>

Position(p) == writing[p].pos \div BSIZE
InBlock(p) == Least({writing[p].chunk, BSIZE - (writing[p].pos % BSIZE)})

WriteiIndirect(p) ==
  /\ pc[p] = "writei" /\ writing[p].chunk > 0
  /\ BmapIndirect(inum[WSlot(p)], Position(p))
  /\ UNCHANGED <<callVars, inodeVars, size, off, writing>>

WriteiBlock(p) ==
  /\ pc[p] = "writei" /\ writing[p].chunk > 0
  /\ Bmap(inum[WSlot(p)], Position(p))
  /\ writing' = [writing EXCEPT ![p].chunk = @ - InBlock(p), ![p].pos = @ + InBlock(p),
                                ![p].n = @ - InBlock(p)]
  /\ UNCHANGED <<callVars, inodeVars, size, off>>

WriteiEnds(p) ==
  /\ pc[p] = "writei" /\ writing[p].chunk = 0
  /\ LET i == inum[WSlot(p)] IN size' = [size EXCEPT ![i] = Greatest({@, writing[p].pos})]
  /\ off' = [off EXCEPT ![WFile(p)] = writing[p].pos]
  /\ locked' = [locked EXCEPT ![WSlot(p)] = None]
  /\ IF writing[p].n = 0
     THEN /\ pc' = [pc EXCEPT ![p] = "user"]
          /\ writing' = [writing EXCEPT ![p] = NotWriting]
     ELSE /\ pc' = [pc EXCEPT ![p] = "filewrite"]
          /\ writing' = [writing EXCEPT ![p].pos = 0]
  /\ UNCHANGED <<exiting, killed, diskVars, inum, iref, copy, argVars, raced, used, addrs,
                 indirect>>

WriteStep(p) ==
  WriteiBegins(p) \/ WriteiFails(p) \/ WriteiIndirect(p) \/ WriteiBlock(p) \/ WriteiEnds(p)

-----------------------------------------------------------------------------
ContentsTypeOK ==
  /\ used \subseteq DataBlock
  /\ addrs \in [Inum -> [0 .. MAXFILE - 1 -> DataBlock \cup {None}]]
  /\ indirect \in [Inum -> DataBlock \cup {None}]
  /\ size \in [Inum -> 0 .. MAXFILE * BSIZE] /\ off \in [File -> Nat]

(* The blocks of a file are as many as its size needs, its indirect block  *)
(* included, and marked in use; no block is in two places, and none is     *)
(* marked that no file has.                                                *)
BlocksMatchSizes ==
  /\ \A i \in Inum :
       /\ \A k \in 0 .. MAXFILE - 1 : addrs[i][k] # None <=> k * BSIZE < size[i]
       /\ indirect[i] # None <=> NDIRECT * BSIZE < size[i]
       /\ ~dinode[i].type => size[i] = 0
  /\ used = UNION {Blocks(i) : i \in Inum}
  /\ \A i, j \in Inum : i # j => Blocks(i) \cap Blocks(j) = {}
  /\ \A i \in Inum : indirect[i] # None => indirect[i] \notin Direct(i) \cup ThroughIndirect(i)
  /\ \A i \in Inum : \A k, m \in 0 .. MAXFILE - 1 :
       addrs[i][k] = addrs[i][m] /\ addrs[i][k] # None => k = m
=============================================================================
