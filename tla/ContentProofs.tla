---------------------------- MODULE ContentProofs ---------------------------
(***************************************************************************)
(* Theorems about Files that rest on its names (FilesProofs): which blocks *)
(* a file has, the map of blocks in use, sizes and offsets; and what pipes *)
(* and the console hold, and who sleeps on them.                           *)
(***************************************************************************)
EXTENDS FilesProofs, SequenceTheorems

-----------------------------------------------------------------------------
(* Positions in a file and the blocks they are in                          *)

LEMMA SizeFacts ==
  /\ BSIZE \in Nat /\ BSIZE > 0 /\ NDIRECT \in Nat /\ MAXFILE \in Nat /\ NDIRECT <= MAXFILE
  /\ MAXFILE * BSIZE \in Nat /\ MaxChunk \in Nat
<1>1. /\ BSIZE \in Nat /\ BSIZE > 0 /\ NDIRECT \in Nat /\ NINDIRECT \in Nat
      /\ LOGSIZE \in Nat /\ LOGSIZE >= 6
  BY ContentsAssumption
<1>2. MAXFILE \in Nat /\ NDIRECT <= MAXFILE
  BY <1>1 DEF MAXFILE
<1>3. (LOGSIZE - 1 - 1 - 2) \div 2 \in Nat
  BY <1>1
<1>4. \A m \in Nat : m * BSIZE \in Nat
  BY <1>1
<1> QED  BY <1>1, <1>2, <1>3, <1>4 DEF MaxChunk

(* Block k of a file starts below x: a file of size x has it.              *)
Below(k, x) == k * BSIZE < x

LEMMA Multiples ==
  ASSUME NEW B \in Nat, NEW j \in Nat, NEW k \in Nat, j < k
  PROVE  j * B + B <= k * B /\ j * B \in Nat /\ k * B \in Nat
<1>1. PICK d \in Nat : k = j + 1 + d
  <2>1. k - j - 1 \in Nat /\ k = j + 1 + (k - j - 1)
    OBVIOUS
  <2> QED  BY <2>1
<1>2. k * B = j * B + B + d * B
  BY <1>1
<1>3. d * B \in Nat /\ j * B \in Nat /\ k * B \in Nat
  OBVIOUS
<1> QED  BY <1>2, <1>3

LEMMA BelowIs ==
  ASSUME NEW k \in Nat, NEW x \in Nat, NEW y \in Nat
  PROVE  /\ ~Below(k, 0)
         /\ Below(k, x) /\ x <= y => Below(k, y)
         /\ \A j \in Nat : Below(k, x) /\ j <= k => Below(j, x)
         /\ Below(k, x) /\ x <= MAXFILE * BSIZE => k < MAXFILE
<1> DEFINE m == k * BSIZE
<1>1. m \in Nat /\ BSIZE \in Nat /\ BSIZE > 0 /\ MAXFILE \in Nat /\ MAXFILE * BSIZE \in Nat
  BY SizeFacts
<1>2. ~Below(k, 0) /\ (Below(k, x) /\ x <= y => Below(k, y))
  <2>1. \A z : Below(k, z) <=> m < z
    BY DEF Below
  <2> HIDE DEF m
  <2> QED  BY <1>1, <2>1
<1>3. ASSUME NEW j \in Nat, Below(k, x), j <= k PROVE Below(j, x)
  <2>1. CASE j = k
    BY <1>3, <2>1
  <2>2. CASE j < k
    <3>1. j * BSIZE + BSIZE <= k * BSIZE /\ j * BSIZE \in Nat /\ k * BSIZE \in Nat
      BY <1>1, <2>2, Multiples
    <3> DEFINE n == j * BSIZE
    <3>2. n + BSIZE <= m /\ n \in Nat /\ m < x
      BY <1>3, <3>1 DEF Below
    <3> HIDE DEF n, m
    <3>3. n < x
      BY <1>1, <3>2
    <3> QED  BY <3>3 DEF n, Below
  <2> QED  BY <1>3, <2>1, <2>2
<1>4. ASSUME Below(k, x), x <= MAXFILE * BSIZE PROVE k < MAXFILE
  <2> SUFFICES ASSUME MAXFILE <= k PROVE FALSE
    BY <1>1
  <2> DEFINE n == MAXFILE * BSIZE
  <2>1. n <= m
    <3>1. CASE MAXFILE = k
      BY <1>1, <3>1
    <3>2. CASE MAXFILE < k
      <4>1. MAXFILE * BSIZE + BSIZE <= k * BSIZE
        BY <1>1, <3>2, Multiples
      <4>2. n + BSIZE <= m /\ n \in Nat
        BY <1>1, <4>1
      <4> HIDE DEF n, m
      <4> QED  BY <1>1, <4>2
    <3> QED  BY <1>1, <3>1, <3>2
  <2>2. m < x /\ x <= n /\ n \in Nat
    BY <1>1, <1>4 DEF Below
  <2> HIDE DEF n, m
  <2> QED  BY <1>1, <2>1, <2>2
<1> QED  BY <1>2, <1>3, <1>4

LEMMA LeastOfTwo ==
  ASSUME NEW a \in Nat, NEW b \in Nat
  PROVE  Least({a, b}) \in {a, b} /\ Least({a, b}) <= a /\ Least({a, b}) <= b
<1>1. {a, b} \in SUBSET Nat /\ {a, b} # {}
  OBVIOUS
<1> QED  BY ONLY <1>1, LeastIn

LEMMA GreatestOfTwo ==
  ASSUME NEW a \in Nat, NEW b \in Nat
  PROVE  Greatest({a, b}) \in {a, b} /\ a <= Greatest({a, b}) /\ b <= Greatest({a, b})
<1>1. \E x \in {a, b} : \A y \in {a, b} : x >= y
  <2>1. CASE a >= b
    <3> WITNESS a \in {a, b}
    <3> QED  BY <2>1
  <2>2. CASE b >= a
    <3> WITNESS b \in {a, b}
    <3> QED  BY <2>2
  <2> QED  BY <2>1, <2>2
<1>2. Greatest({a, b}) \in {a, b} /\ \A y \in {a, b} : Greatest({a, b}) >= y
  BY <1>1, Zenon DEF Greatest
<1> QED  BY <1>2

(* A piece of a write that stays in one block                              *)
InOneBlock(x, c, n, k) ==
  /\ n \in Nat /\ n > 0 /\ n <= c /\ k \in Nat
  /\ \A j \in Nat : Below(j, x + n) <=> Below(j, x) \/ j = k
  /\ \A j \in Nat : j <= k => Below(j, x + c)

LEMMA BlockOf ==
  ASSUME NEW x \in Nat, NEW c \in Nat, c > 0, NEW n,
         n = Least({c, BSIZE - (x % BSIZE)}), NEW k, k = x \div BSIZE
  PROVE  InOneBlock(x, c, n, k)
<1> DEFINE B == BSIZE
           m == x % B
           start == k * B
<1>1. B \in Nat /\ B > 0
  BY SizeFacts
<1>2. k \in Nat /\ m \in Nat /\ m < B /\ x = start + m /\ start \in Nat
  BY <1>1
<1>3. n = Least({c, B - m}) /\ \A j : Below(j, x + n) <=> j * B < x + n
  BY DEF Below
<1>4. /\ \A y : Below(k, y) <=> start < y
      /\ \A j \in Nat : j < k => j * B + B <= start /\ j * B \in Nat
      /\ \A j \in Nat : k < j => start + B <= j * B /\ j * B \in Nat
  BY <1>1, <1>2, Multiples DEF Below
<1>5. \A j, y : Below(j, y) <=> j * B < y
  BY DEF Below
<1> HIDE DEF B, m, start
<1>6. n \in {c, B - m} /\ n <= c /\ n <= B - m
  <2>1. B - m \in Nat
    BY <1>1, <1>2
  <2> QED  BY <1>3, <2>1, LeastOfTwo
<1>7. n \in Nat /\ n > 0 /\ n <= c
  BY <1>1, <1>2, <1>6
<1>8. Below(k, x + n)
  <2>1. start < x + n
    BY <1>2, <1>7
  <2> QED  BY <1>4, <2>1
<1>9. ASSUME NEW j \in Nat, j < k PROVE Below(j, x) /\ Below(j, x + n)
  <2> DEFINE y == j * B
  <2>1. y + B <= start /\ y \in Nat
    BY <1>4, <1>9
  <2>2. Below(j, x) <=> y < x
    BY <1>5
  <2>3. Below(j, x + n) <=> y < x + n
    BY <1>5
  <2> HIDE DEF y
  <2>4. y < x /\ y < x + n
    BY <1>1, <1>2, <1>7, <2>1
  <2> QED  BY <2>2, <2>3, <2>4
<1>10. ASSUME NEW j \in Nat, k < j PROVE ~Below(j, x) /\ ~Below(j, x + n)
  <2> DEFINE y == j * B
  <2>1. start + B <= y /\ y \in Nat
    BY <1>4, <1>10
  <2>2. Below(j, x) <=> y < x
    BY <1>5
  <2>3. Below(j, x + n) <=> y < x + n
    BY <1>5
  <2> HIDE DEF y
  <2>4. ~(y < x) /\ ~(y < x + n)
    BY <1>1, <1>2, <1>6, <1>7, <2>1
  <2> QED  BY <2>2, <2>3, <2>4
<1>11. ASSUME NEW j \in Nat PROVE Below(j, x + n) <=> Below(j, x) \/ j = k
  <2>1. j < k \/ j = k \/ k < j
    BY <1>2
  <2>2. ~(k < k)
    BY <1>2
  <2> QED  BY <1>8, <1>9, <1>10, <2>1, <2>2
<1>12. ASSUME NEW j \in Nat, j <= k PROVE Below(j, x + c)
  <2>1. Below(j, x + n)
    <3>1. j = k \/ j < k
      BY <1>2, <1>12
    <3> QED  BY <1>8, <1>9, <3>1
  <2>2. x + n \in Nat /\ x + c \in Nat /\ x + n <= x + c
    BY <1>7
  <2> QED  BY ONLY <2>1, <2>2, j \in Nat, BelowIs
<1> QED  BY <1>2, <1>7, <1>11, <1>12 DEF InOneBlock

-----------------------------------------------------------------------------
(* What holds of blocks, sizes and offsets                                 *)

(* The places a block can be in an inode: its addresses and, as the last   *)
(* of them, the one of the indirect block                                  *)
Index == 0 .. MAXFILE - 1
Place == 0 .. MAXFILE
Held(i, k) == IF k = MAXFILE THEN indirect[i] ELSE addrs[i][k]

BlockTypes ==
  /\ used \subseteq DataBlock
  /\ addrs \in [Inum -> [Index -> DataBlock \cup {None}]]
  /\ indirect \in [Inum -> DataBlock \cup {None}]
  /\ size \in [Inum -> 0 .. MAXFILE * BSIZE] /\ off \in [File -> Nat]

(* A block is marked in use as long as it is in one place, and is in no    *)
(* other.                                                                  *)
Owned ==
  /\ \A i \in Inum : \A k \in Place : Held(i, k) # None => Held(i, k) \in used
  /\ \A b \in used : \E i \in Inum : \E k \in Place : Held(i, k) = b
  /\ \A i, j \in Inum : \A k, m \in Place :
       Held(i, k) # None /\ Held(i, k) = Held(j, m) => i = j /\ k = m

(* An inode has the blocks its size needs; while a process writes to it,   *)
(* also those of what is written so far.  The indirect block comes first.  *)
WritesTo(p, i) == pc[p] = "writei" /\ inum[WSlot(p)] = i
Settled(i) ==
  /\ \A k \in Index : addrs[i][k] # None <=> Below(k, size[i])
  /\ indirect[i] # None <=> Below(NDIRECT, size[i])
Partial(p, i) ==
  /\ \A k \in Index : addrs[i][k] # None <=> Below(k, size[i]) \/ Below(k, writing[p].pos)
  /\ Below(NDIRECT, size[i]) \/ Below(NDIRECT, writing[p].pos) => indirect[i] # None
  /\ indirect[i] # None =>
       Below(NDIRECT, size[i]) \/ Below(NDIRECT, writing[p].pos + writing[p].chunk)
Laid == \A i \in Inum :
  /\ (\A p \in Process : ~WritesTo(p, i)) => Settled(i)
  /\ \A p \in Process : WritesTo(p, i) => Partial(p, i)

Sized ==
  /\ \A i \in Inum : ~dinode[i].type => size[i] = 0
  /\ \A f \in File : ftable[f].type = "inode" => off[f] <= size[inum[ftable[f].obj]]

(* A process in write() has the file open, and its numbers stay in range.  *)
Numbers(x) ==
  /\ x.n \in Nat /\ x.chunk \in Nat /\ x.pos \in Nat
  /\ x.chunk <= x.n /\ x.pos + x.chunk <= MAXFILE * BSIZE
Writer(p) == pc[p] \in InWrite =>
  /\ \E fd \in FD : ofile[p][fd] = WFile(p)
  /\ ftable[WFile(p)].type = "inode" /\ ftable[WFile(p)].obj = WSlot(p)
  /\ Numbers(writing[p])
  /\ pc[p] = "filewrite" => writing[p].chunk = 0 /\ writing[p].pos = 0

BlockInv == BlockTypes /\ Owned /\ Laid /\ Sized /\ \A p \in Process : Writer(p)

AllInv == CallInv /\ RefInv /\ NameInv

(* The inode of an open file                                               *)
FilesUse == \A f \in File : ftable[f].type = "inode" =>
  LET s == ftable[f].obj IN
    /\ s \in Slot /\ iref[s] > 0 /\ inum[s] \in Inum /\ dinode[inum[s]].type

LEMMA FileUses == AllInv => FilesUse
<1> SUFFICES ASSUME AllInv, NEW f \in File, ftable[f].type = "inode", NEW s, s = ftable[f].obj
             PROVE  s \in Slot /\ iref[s] > 0 /\ inum[s] \in Inum /\ dinode[inum[s]].type
  BY DEF FilesUse
<1>1. s \in Slot /\ Relied(s)
  BY DEF AllInv, CallInv, FileShape, Relied
<1> QED  BY <1>1, ReliedUsed DEF AllInv

(* The entry of the inode that a process writes to                         *)
WritersUse == \A p \in Process : pc[p] \in InWrite =>
  /\ WFile(p) \in File /\ WSlot(p) \in Slot /\ iref[WSlot(p)] > 0
  /\ inum[WSlot(p)] \in Inum /\ dinode[inum[WSlot(p)]].type

LEMMA WriterUses == ASSUME AllInv, \A p \in Process : Writer(p) PROVE WritersUse
<1> SUFFICES ASSUME NEW p \in Process, pc[p] \in InWrite
             PROVE  /\ WFile(p) \in File /\ WSlot(p) \in Slot /\ iref[WSlot(p)] > 0
                    /\ inum[WSlot(p)] \in Inum /\ dinode[inum[WSlot(p)]].type
  BY DEF WritersUse
<1>1. ftable[WFile(p)].type = "inode" /\ ftable[WFile(p)].obj = WSlot(p)
  BY DEF Writer
<1>2. WFile(p) \in File /\ WSlot(p) \in Slot
  BY DEF AllInv, CallInv, Shape
<1> QED  BY <1>1, <1>2, FileUses DEF FilesUse

-----------------------------------------------------------------------------
(* Steps that leave blocks alone                                           *)

SameWriter(p) ==
  \/ pc[p] \notin InWrite /\ pc'[p] \notin InWrite
  \/ pc[p] # "writei" /\ pc'[p] # "writei" /\ Writer(p)'
  \/ /\ pc'[p] = pc[p] /\ writing'[p] = writing[p] /\ ofile'[p] = ofile[p]
     /\ ftable'[WFile(p)].type = ftable[WFile(p)].type
     /\ ftable'[WFile(p)].obj = ftable[WFile(p)].obj

(* An entry that stays in use keeps its inode; a file is open or new.      *)
SameInodes ==
  /\ \A s \in Slot : iref[s] > 0 /\ iref'[s] > 0 => inum'[s] = inum[s]
  /\ \A i \in Inum : dinode[i].type => dinode'[i].type
SameFiles == \A f \in File : ftable'[f].type = "inode" =>
  \/ ftable[f].type = "inode" /\ ftable'[f].obj = ftable[f].obj /\ off'[f] = off[f]
  \/ off'[f] = 0

QuietBlocks ==
  /\ UNCHANGED blockVars /\ off' \in [File -> Nat]
  /\ SameInodes /\ SameFiles /\ \A p \in Process : SameWriter(p)

LEMMA BlocksQuiet == ASSUME AllInv, AllInv', BlockInv, QuietBlocks PROVE BlockInv'
<1>1. UNCHANGED <<used, addrs, indirect, size>>
  BY DEF QuietBlocks, blockVars
<1>2. FilesUse /\ FilesUse' /\ WritersUse
  <2>1. FilesUse /\ WritersUse
    BY FileUses, WriterUses DEF BlockInv
  <2>2. FilesUse'
    BY FileUses, PTL
  <2> QED  BY <2>1, <2>2
<1>3. BlockTypes'
  BY <1>1 DEF BlockInv, BlockTypes, QuietBlocks
<1>4. Owned'
  BY <1>1 DEF BlockInv, Owned, Held
<1>5. \A p \in Process : Writer(p)'
  <2> TAKE p \in Process
  <2>1. Writer(p) /\ SameWriter(p)
    BY DEF BlockInv, QuietBlocks
  <2> QED  BY <2>1 DEF Writer, SameWriter, WFile, WSlot
<1>6. ASSUME NEW p \in Process
      PROVE  \/ pc[p] # "writei" /\ pc'[p] # "writei"
             \/ /\ pc'[p] = pc[p] /\ writing'[p] = writing[p]
                /\ inum'[WSlot(p)] = inum[WSlot(p)]
  <2>1. CASE pc[p] # "writei" /\ pc'[p] # "writei"
    BY <2>1
  <2>2. CASE ~(pc[p] # "writei" /\ pc'[p] # "writei")
    <3>1. pc'[p] = pc[p] /\ pc[p] \in InWrite /\ writing'[p] = writing[p]
          /\ ftable'[WFile(p)].type = ftable[WFile(p)].type
          /\ ftable'[WFile(p)].obj = ftable[WFile(p)].obj
      BY <2>2 DEF QuietBlocks, SameWriter, InWrite
    <3>2. ftable[WFile(p)].type = "inode" /\ ftable[WFile(p)].obj = WSlot(p)
      BY <3>1 DEF BlockInv, Writer
    <3>3. WFile(p) \in File /\ WSlot(p) \in Slot /\ iref[WSlot(p)] > 0
      BY <1>2, <3>1 DEF WritersUse
    <3>4. iref'[WSlot(p)] > 0
      BY <1>2, <3>1, <3>2, <3>3 DEF FilesUse
    <3> QED  BY <3>1, <3>3, <3>4 DEF QuietBlocks, SameInodes
  <2> QED  BY <2>1, <2>2
<1>7. \A i \in Inum : \A p \in Process : WritesTo(p, i)' <=> WritesTo(p, i)
  BY <1>6 DEF WritesTo, WSlot
<1>8. Laid'
  <2> SUFFICES ASSUME NEW i \in Inum
               PROVE  /\ (\A p \in Process : ~WritesTo(p, i)') => Settled(i)'
                      /\ \A p \in Process : WritesTo(p, i)' => Partial(p, i)'
    BY DEF Laid
  <2>1. /\ (\A p \in Process : ~WritesTo(p, i)) => Settled(i)
        /\ \A p \in Process : WritesTo(p, i) => Partial(p, i)
    BY DEF BlockInv, Laid
  <2>2. Settled(i) => Settled(i)'
    BY <1>1 DEF Settled
  <2>3. ASSUME NEW p \in Process, WritesTo(p, i) PROVE Partial(p, i) => Partial(p, i)'
    <3>1. writing'[p] = writing[p]
      BY <1>6, <2>3 DEF WritesTo
    <3> QED  BY <1>1, <3>1 DEF Partial
  <2> QED  BY <1>7, <2>1, <2>2, <2>3
<1>9. Sized'
  <2>1. \A i \in Inum : ~dinode'[i].type => size'[i] = 0
    BY <1>1 DEF BlockInv, Sized, QuietBlocks, SameInodes
  <2>2. ASSUME NEW f \in File, ftable'[f].type = "inode"
        PROVE  off'[f] <= size'[inum'[ftable'[f].obj]]
    <3>1. /\ ftable'[f].obj \in Slot /\ iref'[ftable'[f].obj] > 0 /\ inum'[ftable'[f].obj] \in Inum
      BY <1>2, <2>2 DEF FilesUse
    <3>2. size'[inum'[ftable'[f].obj]] >= 0
      <4>1. size[inum'[ftable'[f].obj]] \in 0 .. MAXFILE * BSIZE
        BY <3>1 DEF BlockInv, BlockTypes
      <4> QED  BY <1>1, <4>1
    <3>3. CASE off'[f] = 0
      BY <3>2, <3>3
    <3>4. CASE off'[f] # 0
      <4>1. ftable[f].type = "inode" /\ ftable'[f].obj = ftable[f].obj /\ off'[f] = off[f]
        BY <2>2, <3>4 DEF QuietBlocks, SameFiles
      <4>2. iref[ftable[f].obj] > 0 /\ inum'[ftable[f].obj] = inum[ftable[f].obj]
        BY <1>2, <3>1, <4>1 DEF FilesUse, QuietBlocks, SameInodes
      <4> QED  BY <1>1, <4>1, <4>2 DEF BlockInv, Sized
    <3> QED  BY <3>3, <3>4
  <2> QED  BY <2>1, <2>2 DEF Sized
<1> QED  BY <1>3, <1>4, <1>5, <1>8, <1>9 DEF BlockInv

(* Steps that concern neither inodes nor writes                            *)
OutOfWrites == \A x \in Process :
  \/ pc[x] \notin InWrite /\ pc'[x] \notin InWrite
  \/ pc'[x] = pc[x] /\ ofile'[x] = ofile[x]

LEMMA BlocksStill ==
  ASSUME AllInv, AllInv', BlockInv, SameEntries, OutOfWrites,
         UNCHANGED <<blockVars, off, writing, inum, dinode>>
  PROVE  BlockInv'
<1>1. ASSUME NEW x \in Process PROVE SameWriter(x)
  <2>1. CASE pc[x] \notin InWrite /\ pc'[x] \notin InWrite
    BY <2>1 DEF SameWriter
  <2>2. CASE pc[x] \in InWrite /\ pc'[x] = pc[x] /\ ofile'[x] = ofile[x]
    <3>1. WFile(x) \in File /\ ftable[WFile(x)].type = "inode"
      BY <2>2, WriterUses DEF WritersUse, BlockInv, Writer
    <3>2. ftable'[WFile(x)].type = "inode" /\ ftable'[WFile(x)].obj = ftable[WFile(x)].obj
      BY <3>1 DEF SameEntries
    <3> QED  BY <2>2, <3>1, <3>2 DEF SameWriter
  <2> QED  BY <2>1, <2>2 DEF OutOfWrites
<1>2. SameInodes /\ SameFiles /\ off' \in [File -> Nat]
  BY DEF SameInodes, SameFiles, SameEntries, BlockInv, BlockTypes
<1> QED  BY <1>1, <1>2, BlocksQuiet DEF QuietBlocks

LEMMA BlocksOutside ==
  ASSUME AllInv, AllInv', BlockInv, UNCHANGED <<ftable, ofile, inodeVars, contentVars>>,
         \A x \in Process : pc'[x] = pc[x] \/ (pc[x] \notin InWrite /\ pc'[x] \notin InWrite)
  PROVE  BlockInv'
<1>1. SameEntries /\ OutOfWrites /\ UNCHANGED <<blockVars, off, writing, inum, dinode>>
  BY DEF SameEntries, OutOfWrites, inodeVars, diskVars, icacheVars, argVars, contentVars
<1> QED  BY <1>1, BlocksStill

LEMMA BlocksOnPipe ==
  ASSUME AllInv, AllInv', BlockInv, NEW p \in Process, OnPipe(p) PROVE BlockInv'
<1> DEFINE q == request[p].pipe
           b == request[p].writable
<1>1. \/ /\ pc[p] \in {"read", "write"}
         /\ \E f \in {WakeReaders(q), WakeWriters(q), pc} :
              \E to \in {"user", "read_sleep", "write_sleep"} : pc' = [f EXCEPT ![p] = to]
      \/ /\ pc[p] = "pipeclose" /\ b \in BOOLEAN
         /\ \E to \in {"user", "exiting", "pipefail"} : pc' = [CloseWakes(q, b) EXCEPT ![p] = to]
  BY Returns DEF OnPipe, PipeStep, Pipewrite, PipereadSleeps, PipereadFails, Piperead, Pipeclose,
     AllInv, CallInv, Shape
<1>2. \A f \in {WakeReaders(q), WakeWriters(q), pc, CloseWakes(q, TRUE), CloseWakes(q, FALSE)} :
        /\ f \in [Process -> Label]
        /\ \A x \in Process : f[x] = pc[x] \/ (pc[x] \in Sleeping /\ f[x] \in Woke)
  BY WakesOnly DEF AllInv, CallInv
<1> HIDE DEF q, b
<1>3. PICK f \in [Process -> Label] :
        /\ \A x \in Process : f[x] = pc[x] \/ (pc[x] \in Sleeping /\ f[x] \in Woke)
        /\ \E to \in {"user", "read_sleep", "write_sleep", "exiting", "pipefail"} :
             pc' = [f EXCEPT ![p] = to]
  BY <1>1, <1>2
<1>4. \A x \in Process : pc'[x] = pc[x] \/ (pc[x] \notin InWrite /\ pc'[x] \notin InWrite)
  BY <1>1, <1>3 DEF InWrite, Sleeping, Woke
<1>5. UNCHANGED <<ftable, ofile, inodeVars, contentVars>>
  BY DEF OnPipe, fileVars
<1> QED  BY <1>4, <1>5, BlocksOutside

LEMMA BlocksConsole ==
  ASSUME AllInv, AllInv', BlockInv, Keyboard \/ \E p \in Process : OnConsole(p) PROVE BlockInv'
<1>1. UNCHANGED <<ftable, ofile, inodeVars, contentVars>>
  BY DEF Keyboard, OnConsole, fileVars
<1>2. \/ pc' = pc \/ pc' = WakeConsole
      \/ \E p \in Process : pc[p] = "cread" /\ \E to \in {"user", "cread_sleep"} :
           pc' = [pc EXCEPT ![p] = to]
  BY DEF Keyboard, OnConsole, ConsoleIntr, Backspace, KillLine, Type, callVars, Consoleread, Move
<1>3. \A x \in Process : pc'[x] = pc[x] \/ (pc[x] \notin InWrite /\ pc'[x] \notin InWrite)
  BY <1>2, WakesOnly DEF AllInv, CallInv, Kinds, Sleeping, Woke, InWrite
<1> QED  BY <1>1, <1>3, BlocksOutside

LEMMA BlocksCalls ==
  ASSUME AllInv, AllInv', BlockInv, NEW p \in Process, NEW fd \in FD,
         \/ \E n \in Counts : Read(p, fd, n)
         \/ \E n \in ConsoleCounts : ReadConsole(p, fd, n)
         \/ \E s \in Writes : Write(p, fd, s)
  PROVE  BlockInv'
<1>1. UNCHANGED <<ftable, ofile, inodeVars, contentVars>>
  BY DEF Read, Write, PipeCall, ReadConsole, fileVars
<1>2. pc[p] = "user" /\ \E to \in {"read", "write", "cread"} : pc' = [pc EXCEPT ![p] = to]
  BY DEF Read, Write, PipeCall, ReadConsole, Move
<1>3. \A x \in Process : pc'[x] = pc[x] \/ (pc[x] \notin InWrite /\ pc'[x] \notin InWrite)
  BY <1>2 DEF AllInv, CallInv, Kinds, InWrite
<1> QED  BY <1>1, <1>3, BlocksOutside

LEMMA BlocksProcesses ==
  ASSUME AllInv, AllInv', BlockInv, NEW p \in Process,
         Exit(p) \/ ExitEnds(p) \/ OpenFails(p) \/ \E q \in Process : Kill(p, q)
  PROVE  BlockInv'
<1>1. \/ UNCHANGED <<ftable, ofile, inodeVars, contentVars>>
      \/ OpenFails(p)
  BY DEF Exit, ExitEnds, Kill, fileVars
<1>2. \E q \in Process : pc[q] \notin InWrite /\
        \E to \in {pc[q], "exiting", "dead", "put", "read", "write", "cread"} :
          pc' = [pc EXCEPT ![q] = to]
  BY DEF Exit, ExitEnds, OpenFails, Kill, Move, Awake, InPipeCall, InConsoleRead, InWrite
<1>3. \A x \in Process : pc'[x] = pc[x] \/ (pc[x] \notin InWrite /\ pc'[x] \notin InWrite)
  BY <1>2 DEF AllInv, CallInv, Kinds, InWrite
<1>4. CASE OpenFails(p)
  <2>1. SameEntries /\ OutOfWrites /\ UNCHANGED <<blockVars, off, writing, inum, dinode>>
    BY <1>3, <1>4 DEF OpenFails, SameEntries, OutOfWrites, diskVars, argVars, fileVars, contentVars
  <2> QED  BY <2>1, BlocksStill
<1> QED  BY <1>1, <1>3, <1>4, BlocksOutside

LEMMA BlocksDup ==
  ASSUME AllInv, AllInv', BlockInv, NEW p \in Process, NEW fd \in FD, Dup(p, fd)
  PROVE  BlockInv'
<1> DEFINE f == ofile[p][fd]
           x == [ftable[f] EXCEPT !.ref = @ + 1]
<1>1. /\ f # None /\ ftable' = [ftable EXCEPT ![f] = x] /\ pc[p] = "user"
      /\ \E c : ofile' = [ofile EXCEPT ![p][c] = f]
      /\ UNCHANGED <<pc, inodeVars, contentVars>>
  BY DEF Dup, Filedup, callVars, Running
<1>2. f \in File
  BY <1>1, OpenFileKnown DEF AllInv, RefInv
<1>3. ftable[f] \in FileEntry /\ DOMAIN ftable = File /\ DOMAIN ofile = Process
  BY <1>2 DEF AllInv, CallInv, Kinds
<1>4. x.type = ftable[f].type /\ x.obj = ftable[f].obj
  BY <1>3 DEF FileEntry
<1> HIDE DEF f, x
<1>5. SameEntries /\ UNCHANGED <<blockVars, off, writing, inum, dinode>>
  BY <1>1, <1>3, <1>4 DEF SameEntries, inodeVars, diskVars, icacheVars, argVars, contentVars
<1>6. OutOfWrites
  BY <1>1, <1>3 DEF OutOfWrites, InWrite
<1> QED  BY <1>5, <1>6, BlocksStill

LEMMA BlocksFork ==
  ASSUME AllInv, AllInv', BlockInv, NEW p \in Process, NEW child \in Process, Fork(p, child)
  PROVE  BlockInv'
<1>1. /\ pc[child] = "dead" /\ pc' = [pc EXCEPT ![child] = "user"]
      /\ ofile' = [ofile EXCEPT ![child] = ofile[p]]
      /\ ftable' = Shared(p) /\ UNCHANGED <<inodeVars, contentVars>>
  BY DEF Fork
<1>2. \A f \in File : ftable'[f].type = ftable[f].type /\ ftable'[f].obj = ftable[f].obj
  BY FilesFork DEF AllInv
<1>3. SameEntries /\ UNCHANGED <<blockVars, off, writing, inum, dinode>>
  BY <1>1, <1>2 DEF SameEntries, inodeVars, diskVars, icacheVars, argVars, contentVars
<1>4. OutOfWrites
  BY <1>1 DEF OutOfWrites, AllInv, CallInv, Kinds, InWrite
<1> QED  BY <1>3, <1>4, BlocksStill

LEMMA BlocksMakePipe ==
  ASSUME AllInv, AllInv', BlockInv, NEW p \in Process, MakePipe(p) PROVE BlockInv'
<1>1. /\ SameEntries /\ UNCHANGED <<dinode, inum>> /\ pc[p] \in {"user", "pipealloc", "pipefail"}
      /\ \E to \in {"user", "pipealloc", "pipefail", "pipeclose"} : pc' = [pc EXCEPT ![p] = to]
  BY EntriesMakePipe DEF AllInv
<1>2. /\ UNCHANGED <<blockVars, off, writing>>
      /\ \A q \in Process \ {p} : ofile'[q] = ofile[q]
  BY DEF MakePipe, PipeFirstFile, PipeNoFile, PipeNoPage, PipeMade, PipeNoFds, PipeCloses, AllInv,
         CallInv, Kinds, contentVars
<1>3. OutOfWrites
  BY <1>1, <1>2 DEF OutOfWrites, AllInv, CallInv, Kinds, InWrite
<1> QED  BY <1>1, <1>2, <1>3, BlocksStill

LEMMA BlocksCloseFd ==
  ASSUME AllInv, AllInv', BlockInv, NEW p \in Process, NEW fd \in FD, CloseFd(p, fd),
         pc[p] \in {"user", "exiting"}
  PROVE  BlockInv'
<1> DEFINE f == ofile[p][fd]
<1>1. /\ f # None /\ ofile' = [ofile EXCEPT ![p][fd] = None] /\ Fileclose(p, f, Return(p))
      /\ UNCHANGED <<blockVars, off, writing, inum, iref, dinode>>
  BY DEF CloseFd, icacheVars, diskVars, contentVars
<1>2. /\ f \in File /\ ftable[f].ref \in Nat /\ ftable[f].ref > 0
      /\ ftable[f] \in FileEntry /\ DOMAIN ftable = File /\ DOMAIN ofile = Process
      /\ pc \in [Process -> Label]
      /\ ftable[f].ref = 1 => \A q \in Process : \A c \in FD : ofile[q][c] = f => q = p
  BY <1>1, OpenFileKnown DEF AllInv, RefInv, CallInv, Kinds
<1> HIDE DEF f
<1>3. pc' \in [Process -> Label] /\ \E to \in {"user", "exiting", "pipeclose", "put"} :
        pc' = [pc EXCEPT ![p] = to]
  BY <1>1, <1>2, Returns DEF Fileclose, Label, AllInv
<1>4. \A q \in Process \ {p} : pc'[q] = pc[q] /\ ofile'[q] = ofile[q]
  BY <1>1, <1>2, <1>3
<1>5. pc[p] \notin InWrite /\ pc'[p] \notin InWrite
  BY <1>2, <1>3 DEF InWrite
<1>6. \/ \A g \in File : ftable'[g].type = ftable[g].type /\ ftable'[g].obj = ftable[g].obj
      \/ /\ ftable[f].ref = 1 /\ ftable'[f].type = "none"
         /\ \A g \in File \ {f} : ftable'[g] = ftable[g]
  <2>1. CASE ftable[f].ref > 1
    <3> DEFINE x == [ftable[f] EXCEPT !.ref = @ - 1]
    <3>1. ftable' = [ftable EXCEPT ![f] = x]
      BY <1>1, <2>1 DEF Fileclose
    <3>2. x.type = ftable[f].type /\ x.obj = ftable[f].obj
      BY <1>2 DEF FileEntry
    <3> HIDE DEF x
    <3> QED  BY <1>2, <3>1, <3>2
  <2>2. CASE ~(ftable[f].ref > 1)
    <3>1. ftable' = [ftable EXCEPT ![f] = NoFile] /\ ftable[f].ref = 1
      BY <1>1, <1>2, <2>2 DEF Fileclose
    <3> QED  BY <1>2, <3>1 DEF NoFile
  <2> QED  BY <2>1, <2>2
<1>7. ASSUME NEW q \in Process PROVE SameWriter(q)
  <2>1. CASE pc[q] \in InWrite /\ q # p
    <3>1. PICK c \in FD : ofile[q][c] = WFile(q)
      BY <2>1 DEF BlockInv, Writer
    <3>2. WFile(q) \in File
      BY <2>1 DEF AllInv, CallInv, Shape
    <3>3. /\ ftable'[WFile(q)].type = ftable[WFile(q)].type
          /\ ftable'[WFile(q)].obj = ftable[WFile(q)].obj
      BY <1>2, <1>6, <2>1, <3>1, <3>2
    <3> QED  BY <1>1, <1>4, <2>1, <3>3 DEF SameWriter
  <2>2. CASE pc[q] \notin InWrite \/ q = p
    BY <1>4, <1>5, <2>2 DEF SameWriter
  <2> QED  BY <2>1, <2>2
<1>8. SameInodes /\ SameFiles /\ off' \in [File -> Nat]
  BY <1>1, <1>6 DEF SameInodes, SameFiles, BlockInv, BlockTypes
<1> QED  BY <1>1, <1>7, <1>8, BlocksQuiet DEF QuietBlocks

LEMMA BlocksClose ==
  ASSUME AllInv, AllInv', BlockInv, NEW p \in Process,
         (\E fd \in FD : Close(p, fd)) \/ ExitCloses(p)
  PROVE  BlockInv'
<1>1. CASE \E fd \in FD : Close(p, fd)
  BY <1>1, BlocksCloseFd DEF Close, Running
<1>2. CASE ExitCloses(p)
  BY <1>2, BlocksCloseFd, LeastOpen DEF ExitCloses
<1> QED  BY <1>1, <1>2

(* open(): nobody had the file, and its offset is 0.                       *)
LEMMA BlocksOpenFile ==
  ASSUME AllInv, AllInv', BlockInv, NEW p \in Process, OpenFile(p) PROVE BlockInv'
<1> DEFINE f == Least(FreeFiles)
           x == NewFile("inode", ip[p], TRUE)
<1>1. /\ f \in File /\ ftable[f].ref = 0 /\ ftable' = [ftable EXCEPT ![f] = x]
      /\ off' = [off EXCEPT ![f] = 0]
      /\ \E c \in FD : ofile' = [ofile EXCEPT ![p][c] = f]
      /\ pc' = [pc EXCEPT ![p] = "user"] /\ pc[p] = "opened"
      /\ UNCHANGED <<blockVars, writing, inum, iref, dinode>>
  BY LeastFile, LeastFd DEF OpenFile, Move, diskVars
<1>2. /\ DOMAIN ftable = File /\ DOMAIN ofile = Process /\ DOMAIN pc = Process
      /\ off \in [File -> Nat] /\ \A q \in Process : \A d \in FD : ofile[q][d] # f
  BY <1>1, FreeFileKnown DEF AllInv, RefInv, CallInv, Kinds, BlockInv, BlockTypes
<1> HIDE DEF f, x
<1>3. ASSUME NEW q \in Process PROVE SameWriter(q)
  <2>1. CASE pc[q] \in InWrite
    <3>1. q # p /\ WFile(q) # f /\ WFile(q) \in File
      BY <1>1, <1>2, <2>1 DEF InWrite, BlockInv, Writer, AllInv, CallInv, Shape
    <3> QED  BY <1>1, <1>2, <2>1, <3>1 DEF SameWriter
  <2>2. CASE pc[q] \notin InWrite
    BY <1>1, <1>2, <2>2 DEF SameWriter, InWrite
  <2> QED  BY <2>1, <2>2
<1>4. SameInodes /\ SameFiles /\ off' \in [File -> Nat]
  BY <1>1, <1>2 DEF SameInodes, SameFiles
<1> QED  BY <1>1, <1>3, <1>4, BlocksQuiet DEF QuietBlocks

-----------------------------------------------------------------------------
(* Calls on inodes                                                         *)

LEMMA IgetKeeps ==
  ASSUME AllInv, NEW i \in Inum, CanIget(i), Iget(i)
  PROVE  \A s \in Slot : iref[s] > 0 => inum'[s] = inum[s]
<1> DEFINE t == Entry(i)
<1>1. t = Entry(i)
  OBVIOUS
<1> HIDE DEF t
<1>2. /\ inum'[t] = i /\ (iref[t] > 0 => inum[t] = i)
      /\ \A s \in Slot \ {t} : inum'[s] = inum[s]
  BY <1>1, IgetGives DEF AllInv
<1> QED  BY <1>2

LEMMA UpdateKeeps ==
  ASSUME AllInv, NEW p \in Process, pc[p] \in InodeCall \ {"drop"}, NEW n,
         \/ Update(ip[p], [Found(ip[p]) EXCEPT !.nlink = n])
         \/ Update(ip[p], Linked(ip[p], n))
  PROVE  \A i \in Inum : dinode[i].type => dinode'[i].type
<1> DEFINE d == Found(ip[p])
           x == [d EXCEPT !.nlink = n]
           y == [d EXCEPT !.nlink = @ + n]
           j == inum[ip[p]]
<1>1. d \in DiskInode /\ d.type /\ dinode \in [Inum -> DiskInode]
  BY FoundIn DEF AllInv, NameInv, Cached
<1>2. dinode' = [dinode EXCEPT ![j] = x] \/ dinode' = [dinode EXCEPT ![j] = y]
  BY DEF Update, Linked
<1> HIDE DEF d, j
<1>3. x.type /\ y.type
  BY <1>1 DEF DiskInode
<1> HIDE DEF x, y
<1> QED  BY <1>1, <1>2, <1>3

InodeUse == {"user", "exiting"} \cup InodeCall

LEMMA InodeKeeps ==
  ASSUME AllInv, NEW p \in Process, OnInode(p), pc[p] # "free"
  PROVE  SameInodes /\ pc[p] \in InodeUse /\ \E to \in InodeUse : pc' = [pc EXCEPT ![p] = to]
<1>1. CASE \/ OpenLock(p) \/ CreatePutDir(p) \/ UnlinkErase(p) \/ LinkName(p) \/ IputKeeps(p)
           \/ LinkPutOther(p)
  BY <1>1 DEF SameInodes, InodeUse, InodeCall, Move, OpenLock, CreatePutDir, UnlinkErase, LinkName,
     IputKeeps, LinkPutOther, inodeVars, diskVars, icacheVars
<1>2. CASE IputFrees(p) \/ IputTruncates(p)
  BY <1>2 DEF SameInodes, InodeUse, InodeCall, Move, IputFrees, IputTruncates, diskVars
<1>3. CASE CreateLink(p) \/ UnlinkDrop(p) \/ LinkCount(p) \/ LinkBack(p)
  <2>1. /\ pc[p] \in InodeCall \ {"drop"}
        /\ \/ Update(ip[p], [Found(ip[p]) EXCEPT !.nlink = 1])
           \/ \E n \in {1, -1} : Update(ip[p], Linked(ip[p], n))
        /\ UNCHANGED <<inum, iref>>
    BY <1>3 DEF CreateLink, UnlinkDrop, LinkCount, LinkBack, Move, InodeCall
  <2>2. \A i \in Inum : dinode[i].type => dinode'[i].type
    BY <2>1, UpdateKeeps
  <2>3. pc[p] \in InodeUse /\ \E to \in InodeUse : pc' = [pc EXCEPT ![p] = to]
    BY <1>3 DEF CreateLink, UnlinkDrop, LinkCount, LinkBack, Move, InodeUse, InodeCall
  <2> QED  BY <2>1, <2>2, <2>3 DEF SameInodes
<1>4. CASE IputDrops(p)
  <2> DEFINE t == ip[p]
  <2>1. /\ pc[p] = "drop" /\ pc' = [pc EXCEPT ![p] = Return(p)] /\ UNCHANGED dinode
        /\ iref' = [iref EXCEPT ![t] = @ - 1]
        /\ inum' = [inum EXCEPT ![t] = IF iref[t] = 1 THEN None ELSE @]
    BY <1>4 DEF IputDrops, Move, diskVars
  <2>2. t \in Slot /\ DOMAIN iref = Slot /\ DOMAIN inum = Slot
    BY <2>1, Has DEF AllInv, CallInv, Kinds, InodeCall
  <2> HIDE DEF t
  <2>3. \A s \in Slot : iref[s] > 0 /\ iref'[s] > 0 => inum'[s] = inum[s]
    BY <2>1, <2>2
  <2>4. CallInv
    BY DEF AllInv
  <2> QED  BY <2>1, <2>3, <2>4, Returns DEF SameInodes, InodeUse, InodeCall
<1>5. CASE \E n \in Name :
             OpenLookup(p, n) \/ UnlinkLookup(p, n) \/ \E m \in Name : LinkLookup(p, n, m)
  <2>1. PICK n \in Name : \E to \in {"open", "unlink", "link"} : Lookup(p, n, "user", to)
    BY <1>5 DEF OpenLookup, UnlinkLookup, LinkLookup
  <2> DEFINE i == dir[n]
  <2>2. /\ pc[p] = "user" /\ \E to \in {"open", "unlink", "link"} : pc' = [pc EXCEPT ![p] = to]
        /\ i # None /\ CanIget(i) /\ Iget(i) /\ UNCHANGED dinode
    BY <2>1 DEF Lookup, Move, diskVars
  <2>3. i \in Inum
    BY <2>2 DEF AllInv, NameInv, Cached
  <2> HIDE DEF i
  <2> QED  BY <2>2, <2>3, IgetKeeps DEF SameInodes, InodeUse, InodeCall
<1>6. CASE LinkTaken(p)
  <2> DEFINE i == dir[name[p]]
  <2>1. /\ pc[p] = "link_dir" /\ pc' = [pc EXCEPT ![p] = "link_taken"]
        /\ i # None /\ CanIget(i) /\ Iget(i) /\ UNCHANGED dinode
    BY <1>6 DEF LinkTaken, Move, diskVars
  <2>2. i \in Inum
    BY <2>1, Has DEF AllInv, NameInv, Cached, Named
  <2> HIDE DEF i
  <2> QED  BY <2>1, <2>2, IgetKeeps DEF SameInodes, InodeUse, InodeCall
<1>7. CASE \E n \in Name : CreateIalloc(p, n)
  <2> DEFINE i == Least(Unused)
             x == [type |-> TRUE, nlink |-> 0]
  <2>1. /\ pc[p] = "user" /\ pc' = [pc EXCEPT ![p] = "create"]
        /\ Unused # {} /\ CanIget(i) /\ Iget(i) /\ dinode' = [dinode EXCEPT ![i] = x]
    BY <1>7 DEF CreateIalloc, Move
  <2>2. i \in Inum /\ dinode \in [Inum -> DiskInode]
    <3>1. Unused \in SUBSET Nat
      BY ConstFacts DEF Unused
    <3>2. i \in Unused
      BY ONLY <2>1, <3>1, LeastIn
    <3> QED  BY <3>2 DEF Unused, AllInv, NameInv, Cached
  <2>3. x.type
    OBVIOUS
  <2> HIDE DEF i, x
  <2> QED  BY <2>1, <2>2, <2>3, IgetKeeps DEF SameInodes, InodeUse, InodeCall
<1> QED  BY <1>1, <1>2, <1>3, <1>4, <1>5, <1>6, <1>7 DEF OnInode, InodeStep, PathCall

LEMMA BlocksInode ==
  ASSUME AllInv, AllInv', BlockInv, NEW p \in Process, OnInode(p), pc[p] # "free"
  PROVE  BlockInv'
<1>1. UNCHANGED <<ftable, ofile, off, writing, blockVars>>
  BY DEF OnInode
<1>2. SameInodes /\ pc[p] \in InodeUse /\ \E to \in InodeUse : pc' = [pc EXCEPT ![p] = to]
  BY InodeKeeps
<1>3. \A x \in Process : SameWriter(x)
  BY <1>1, <1>2 DEF SameWriter, AllInv, CallInv, Kinds, InodeUse, InodeCall, InWrite
<1>4. SameFiles /\ off' \in [File -> Nat]
  BY <1>1 DEF SameFiles, BlockInv, BlockTypes
<1> QED  BY <1>1, <1>2, <1>3, <1>4, BlocksQuiet DEF QuietBlocks

(* The places of the blocks of an inode, when it has what its size needs   *)
LEMMA BlocksAre ==
  ASSUME NEW i, Settled(i), size[i] \in Nat
  PROVE  \A b : b \in Blocks(i) <=> b # None /\ \E k \in Place : Held(i, k) = b
<1>1. MAXFILE \in Nat /\ NDIRECT \in Nat /\ NDIRECT <= MAXFILE
  BY SizeFacts
<1>2. \A k \in Index : NDIRECT <= k /\ addrs[i][k] # None => indirect[i] # None
  <2> TAKE k \in Index
  <2> SUFFICES ASSUME NDIRECT <= k, addrs[i][k] # None PROVE indirect[i] # None
    OBVIOUS
  <2>1. k \in Nat /\ Below(k, size[i])
    BY <1>1 DEF Index, Settled
  <2>2. Below(NDIRECT, size[i])
    BY ONLY <1>1, <2>1, NDIRECT <= k, size[i] \in Nat, BelowIs
  <2> QED  BY <2>2 DEF Settled
<1>3. \A b : b \in Blocks(i) =>  b # None /\ \E k \in Place : Held(i, k) = b
  <2> SUFFICES ASSUME NEW b, b \in Blocks(i)
               PROVE  b # None /\ \E k \in Place : Held(i, k) = b
    OBVIOUS
  <2>1. b # None
    BY DEF Blocks, Direct, ThroughIndirect
  <2>2. CASE b = indirect[i]
    <3>1. MAXFILE \in Place /\ Held(i, MAXFILE) = b
      BY <1>1, <2>2 DEF Place, Held
    <3> QED  BY <2>1, <3>1
  <2>3. CASE \E k \in Index : b = addrs[i][k]
    <3>1. PICK k \in Index : b = addrs[i][k]
      BY <2>3
    <3>2. k \in Place /\ k # MAXFILE
      BY <1>1 DEF Index, Place
    <3>3. Held(i, k) = b
      BY <3>1, <3>2 DEF Held
    <3> QED  BY <2>1, <3>2, <3>3
  <2>4. 0 .. NDIRECT - 1 \subseteq Index /\ NDIRECT .. MAXFILE - 1 \subseteq Index
    BY <1>1 DEF Index
  <2> QED  BY <2>2, <2>3, <2>4 DEF Blocks, Direct, ThroughIndirect
<1>4. ASSUME NEW b, b # None, NEW k \in Place, Held(i, k) = b PROVE b \in Blocks(i)
  <2>1. CASE k = MAXFILE
    BY <1>4, <2>1 DEF Held, Blocks
  <2>2. CASE k # MAXFILE
    <3>1. k \in Index /\ addrs[i][k] = b /\ (k \in 0 .. NDIRECT - 1 \/ k \in NDIRECT .. MAXFILE - 1)
      BY <1>1, <1>4, <2>2 DEF Place, Index, Held
    <3>2. k \in NDIRECT .. MAXFILE - 1 => indirect[i] # None
      BY <1>1, <1>2, <1>4, <3>1
    <3> QED  BY <1>4, <3>1, <3>2 DEF Blocks, Direct, ThroughIndirect
  <2> QED  BY <2>1, <2>2
<1> QED  BY <1>3, <1>4

(* Nobody has an inode open, or writes to it, while its last reference     *)
(* frees it.                                                               *)
LEMMA FreedAlone ==
  ASSUME AllInv, BlockInv, NEW p \in Process, pc[p] = "free", NEW i, i = inum[ip[p]]
  PROVE  /\ i \in Inum /\ \A q \in Process : ~WritesTo(q, i)
         /\ \A f \in File : ftable[f].type = "inode" => inum[ftable[f].obj] # i
<1>1. /\ ip[p] \in Slot /\ i \in Inum
      /\ \A s \in Slot : iref[s] > 0 /\ inum[s] = i => s = ip[p]
  BY Using DEF AllInv, InodeCall
<1>2. iref[ip[p]] = 1
  BY DEF AllInv, NameInv, Progress
<1>3. \A f \in File : ftable[f].type = "inode" => ftable[f].obj # ip[p]
  BY <1>1, <1>2, EntryUsed DEF AllInv
<1>4. \A f \in File : ftable[f].type = "inode" => inum[ftable[f].obj] # i
  BY <1>1, <1>3, FileUses DEF FilesUse
<1>5. \A q \in Process : ~WritesTo(q, i)
  <2> SUFFICES ASSUME NEW q \in Process, WritesTo(q, i) PROVE FALSE
    OBVIOUS
  <2>1. pc[q] \in InWrite /\ inum[WSlot(q)] = i
    BY DEF WritesTo, InWrite
  <2>2. WFile(q) \in File /\ ftable[WFile(q)].type = "inode" /\ ftable[WFile(q)].obj = WSlot(q)
    BY <2>1 DEF BlockInv, Writer, AllInv, CallInv, Shape
  <2> QED  BY <1>4, <2>1, <2>2
<1> QED  BY <1>1, <1>4, <1>5

LEMMA BlocksFreed ==
  ASSUME AllInv, AllInv', BlockInv, NEW p \in Process, OnInode(p), pc[p] = "free",
         NEW i, i = inum[ip[p]]
  PROVE  BlockInv'
<1>1. /\ Itrunc(i) /\ UNCHANGED <<ftable, ofile, off, writing>>
      /\ UNCHANGED inum /\ pc' = [pc EXCEPT ![p] = "drop"]
      /\ dinode' = [dinode EXCEPT ![i] = Unallocated]
  BY DEF OnInode, InodeStep, PathCall, OpenLookup, CreateIalloc, UnlinkLookup, LinkLookup, Lookup,
     OpenLock, CreateLink, CreatePutDir, UnlinkErase, UnlinkDrop, LinkCount, LinkName, LinkTaken,
     LinkPutOther, LinkBack, IputFrees, IputKeeps, IputTruncates, IputDrops, Move
<1>2. /\ i \in Inum /\ \A q \in Process : ~WritesTo(q, i)
      /\ \A f \in File : ftable[f].type = "inode" => inum[ftable[f].obj] # i
  BY FreedAlone
<1>3. BlockTypes /\ Owned /\ Laid /\ Sized /\ \A q \in Process : Writer(q)
  BY DEF BlockInv
<1>4. /\ used' = used \ Blocks(i) /\ addrs' = [addrs EXCEPT ![i] = NoAddrs]
      /\ indirect' = [indirect EXCEPT ![i] = None] /\ size' = [size EXCEPT ![i] = 0]
  BY <1>1 DEF Itrunc, Truncated
<1>5. Settled(i) /\ size[i] \in Nat /\ MAXFILE * BSIZE \in Nat /\ 0 \in 0 .. MAXFILE * BSIZE
  BY <1>2, <1>3, SizeFacts DEF Laid, BlockTypes
<1>6. \A b : b \in Blocks(i) <=> b # None /\ \E k \in Place : Held(i, k) = b
  BY <1>5, BlocksAre
<1>7. NoAddrs \in [Index -> DataBlock \cup {None}] /\ \A k \in Index : NoAddrs[k] = None
  BY DEF NoAddrs, Index
<1>8. BlockTypes'
  BY <1>1, <1>2, <1>3, <1>4, <1>5, <1>7 DEF BlockTypes
<1>9. /\ \A k \in Place : Held(i, k)' = None
      /\ \A j \in Inum \ {i} : /\ addrs'[j] = addrs[j] /\ indirect'[j] = indirect[j]
                               /\ size'[j] = size[j] /\ \A k : Held(j, k)' = Held(j, k)
      /\ size'[i] = 0 /\ indirect'[i] = None /\ \A k \in Index : addrs'[i][k] = None
  <2>1. /\ addrs'[i] = NoAddrs /\ indirect'[i] = None /\ size'[i] = 0
        /\ \A j \in Inum \ {i} :
             addrs'[j] = addrs[j] /\ indirect'[j] = indirect[j] /\ size'[j] = size[j]
    BY <1>2, <1>3, <1>4 DEF BlockTypes
  <2>2. \A k \in Place : k # MAXFILE => k \in Index
    BY SizeFacts DEF Place, Index
  <2> QED  BY <1>7, <2>1, <2>2 DEF Held
<1>10. Owned'
  <2>1. \A j \in Inum : \A k \in Place : Held(j, k)' # None => j # i /\ Held(j, k)' = Held(j, k)
    BY <1>9
  <2>2. ASSUME NEW j \in Inum, NEW k \in Place, Held(j, k)' # None PROVE Held(j, k)' \in used'
    <3>1. j # i /\ Held(j, k)' = Held(j, k) /\ Held(j, k) \in used
      BY <1>3, <2>1, <2>2 DEF Owned
    <3>2. Held(j, k) \notin Blocks(i)
      BY <1>2, <1>3, <1>6, <2>2, <3>1 DEF Owned
    <3> QED  BY <1>4, <3>1, <3>2
  <2>3. ASSUME NEW b \in used' PROVE \E j \in Inum : \E k \in Place : Held(j, k)' = b
    <3>1. b \in used /\ b \notin Blocks(i) /\ b # None
      BY <1>3, <1>4, ConstFacts DEF BlockTypes
    <3>2. PICK j \in Inum, k \in Place : Held(j, k) = b
      BY <1>3, <3>1 DEF Owned
    <3>3. j # i
      BY <1>6, <3>1, <3>2
    <3> QED  BY <1>9, <3>2, <3>3
  <2>4. \A j, h \in Inum : \A k, m \in Place :
          Held(j, k)' # None /\ Held(j, k)' = Held(h, m)' => j = h /\ k = m
    BY <1>3, <2>1 DEF Owned
  <2> QED  BY <2>2, <2>3, <2>4 DEF Owned
<1>11. \A j \in Inum : \A q \in Process : WritesTo(q, j)' <=> WritesTo(q, j)
  <2>1. \A q \in Process : pc'[q] = "writei" <=> pc[q] = "writei"
    BY <1>1 DEF AllInv, CallInv, Kinds
  <2> QED  BY <1>1, <2>1 DEF WritesTo, WSlot
<1>12. Laid'
  <2>1. Settled(i)'
    <3>1. \A k \in Nat : ~Below(k, 0)
      BY BelowIs
    <3>2. \A k \in Index : k \in Nat
      BY SizeFacts DEF Index
    <3> QED  BY <1>9, <3>1, <3>2, SizeFacts DEF Settled
  <2>2. ASSUME NEW j \in Inum \ {i} PROVE Settled(j) => Settled(j)'
    BY <1>9 DEF Settled
  <2>3. ASSUME NEW j \in Inum \ {i}, NEW q \in Process PROVE Partial(q, j) => Partial(q, j)'
    BY <1>1, <1>9 DEF Partial
  <2> QED  BY <1>2, <1>3, <1>11, <2>1, <2>2, <2>3 DEF Laid
<1>13. Sized'
  <2>1. \A j \in Inum \ {i} : dinode'[j] = dinode[j]
    BY <1>1, <1>2 DEF AllInv, NameInv, Cached
  <2>2. \A f \in File : ftable[f].type = "inode" => inum[ftable[f].obj] \in Inum
    BY FileUses DEF FilesUse
  <2> QED  BY <1>1, <1>2, <1>3, <1>9, <2>1, <2>2 DEF Sized
<1>14. \A q \in Process : Writer(q)'
  <2>1. \A q \in Process : pc'[q] = pc[q] \/ pc'[q] \notin InWrite
    BY <1>1 DEF AllInv, CallInv, Kinds, InWrite
  <2> QED  BY <1>1, <1>3, <2>1 DEF Writer, WFile, WSlot
<1> QED  BY <1>8, <1>10, <1>12, <1>13, <1>14 DEF BlockInv

-----------------------------------------------------------------------------
(* Reads and writes of plain files                                         *)

LEMMA BlocksReadFile ==
  ASSUME AllInv, BlockInv, NEW p \in Process, NEW fd \in FD, NEW n \in FileCounts,
         ReadFile(p, fd, n)
  PROVE  BlockInv'
<1> DEFINE f == ofile[p][fd]
           m == size[inum[ftable[f].obj]]
           x == Least({off[f] + n, m})
<1>1. /\ f # None /\ ftable[f].type = "inode" /\ off' = [off EXCEPT ![f] = x]
      /\ UNCHANGED <<pc, blockVars, writing, ftable, ofile, inum, dinode>>
  BY DEF ReadFile, PlainFile, Fileread, callVars, inodeVars, diskVars, icacheVars
<1>2. BlockTypes /\ Owned /\ Laid /\ Sized /\ \A q \in Process : Writer(q)
  BY DEF BlockInv
<1>3. f \in File /\ n \in Nat /\ off \in [File -> Nat] /\ off[f] \in Nat
  BY <1>1, <1>2, FilesAssumption DEF BlockTypes, AllInv, CallInv, Kinds
<1>4. m \in Nat
  <2>1. inum[ftable[f].obj] \in Inum
    BY <1>1, <1>3, FileUses DEF FilesUse
  <2> QED  BY <1>2, <2>1 DEF BlockTypes
<1>5. x \in Nat /\ x <= m
  <2> DEFINE y == off[f] + n
  <2>1. y \in Nat
    BY <1>3
  <2> HIDE DEF y, m
  <2>2. Least({y, m}) \in {y, m} /\ Least({y, m}) <= m
    BY <1>4, <2>1, LeastOfTwo
  <2> QED  BY <1>4, <2>1, <2>2 DEF y
<1> HIDE DEF x
<1>6. Sized'
  BY <1>1, <1>2, <1>3, <1>5 DEF Sized, blockVars
<1>7. BlockTypes' /\ Owned'
  BY <1>1, <1>2, <1>3, <1>5 DEF BlockTypes, Owned, Held, blockVars
<1>8. Laid'
  <2>1. \A i \in Inum : \A q \in Process :
          /\ WritesTo(q, i)' <=> WritesTo(q, i)
          /\ Settled(i) => Settled(i)'
          /\ Partial(q, i) => Partial(q, i)'
    BY <1>1 DEF WritesTo, WSlot, Settled, Partial, blockVars
  <2> QED  BY <1>2, <2>1 DEF Laid
<1>9. \A q \in Process : Writer(q)'
  BY <1>1, <1>2 DEF Writer, WFile, WSlot
<1> QED  BY <1>6, <1>7, <1>8, <1>9 DEF BlockInv

LEMMA BlocksWriteFile ==
  ASSUME AllInv, AllInv', BlockInv, NEW p \in Process, NEW fd \in FD, NEW n \in FileCounts,
         WriteFile(p, fd, n)
  PROVE  BlockInv'
<1> DEFINE f == ofile[p][fd]
           s == ftable[f].obj
           x == [NotWriting EXCEPT !.file = f, !.slot = s, !.n = n]
<1>1. /\ f # None /\ ftable[f].type = "inode" /\ pc[p] = "user"
      /\ pc' = [pc EXCEPT ![p] = "filewrite"] /\ writing' = [writing EXCEPT ![p] = x]
      /\ UNCHANGED <<blockVars, off, ftable, ofile, inum, iref, dinode>>
  BY DEF WriteFile, PlainFile, FilewriteCall, Move, inodeVars, diskVars, icacheVars
<1>2. /\ DOMAIN pc = Process /\ DOMAIN writing = Process /\ n \in Nat
  BY FilesAssumption DEF AllInv, CallInv, Kinds
<1>3. x.file = f /\ x.slot = s /\ x.n = n /\ x.chunk = 0 /\ x.pos = 0
  BY DEF NotWriting
<1>4. ftable[f].obj = s /\ ofile[p][fd] = f
  OBVIOUS
<1> HIDE DEF f, s, x
<1>5. writing'[p] = x /\ pc'[p] = "filewrite"
  BY <1>1, <1>2
<1>6. Numbers(x)
  BY <1>2, <1>3, SizeFacts DEF Numbers
<1>7. Writer(p)'
  BY <1>1, <1>3, <1>4, <1>5, <1>6 DEF Writer, WFile, WSlot
<1>8. \A q \in Process : SameWriter(q)
  BY <1>1, <1>2, <1>5, <1>7 DEF SameWriter
<1>9. SameInodes /\ SameFiles /\ off' \in [File -> Nat]
  BY <1>1 DEF SameInodes, SameFiles, BlockInv, BlockTypes
<1> QED  BY <1>1, <1>8, <1>9, BlocksQuiet DEF QuietBlocks

(* An inode that can be locked, or is locked by p, is written by no other. *)
LEMMA WritesAlone ==
  ASSUME AllInv, BlockInv, NEW p \in Process, pc[p] \in InWrite, NEW i, i = inum[WSlot(p)],
         locked[WSlot(p)] \in {None, p}
  PROVE  i \in Inum /\ \A q \in Process \ {p} : ~WritesTo(q, i)
<1>1. WritersUse
  BY WriterUses DEF BlockInv
<1>2. WSlot(p) \in Slot /\ iref[WSlot(p)] > 0 /\ i \in Inum
  BY <1>1 DEF WritersUse
<1>3. ASSUME NEW q \in Process \ {p}, WritesTo(q, i) PROVE FALSE
  <2>1. pc[q] = "writei" /\ inum[WSlot(q)] = i /\ WSlot(q) \in Slot /\ iref[WSlot(q)] > 0
    BY <1>1, <1>3 DEF WritersUse, WritesTo, InWrite
  <2>2. WSlot(q) = WSlot(p)
    BY <1>2, <2>1 DEF AllInv, NameInv, Cached
  <2>3. locked[WSlot(q)] = q
    BY <2>1 DEF AllInv, CallInv, LocksOf, Holds
  <2> QED  BY <2>2, <2>3, ConstFacts
<1> QED  BY <1>2, <1>3

(* A step of the one process that writes to inode i                        *)
Lays(p, i) ==
  /\ UNCHANGED <<inum, iref, dinode, ftable, ofile>>
  /\ \A q \in Process \ {p} : pc'[q] = pc[q] /\ writing'[q] = writing[q] /\ ~WritesTo(q, i)
  /\ \A j \in Inum \ {i} : addrs'[j] = addrs[j] /\ indirect'[j] = indirect[j] /\ size'[j] = size[j]
  /\ pc'[p] # "user" => WSlot(p)' = WSlot(p) /\ WFile(p)' = WFile(p)
  /\ \/ pc'[p] = "writei" /\ Partial(p, i)'
     \/ pc'[p] \in {"user", "filewrite"} /\ Settled(i)'

LEMMA LaysDown ==
  ASSUME AllInv, BlockInv, NEW p \in Process, pc[p] \in InWrite, NEW i \in Inum, i = inum[WSlot(p)],
         Lays(p, i)
  PROVE  Laid'
<1>1. /\ inum' = inum
      /\ \A q \in Process \ {p} : pc'[q] = pc[q] /\ writing'[q] = writing[q] /\ ~WritesTo(q, i)
      /\ \A j \in Inum \ {i} :
           addrs'[j] = addrs[j] /\ indirect'[j] = indirect[j] /\ size'[j] = size[j]
      /\ pc'[p] # "user" => WSlot(p)' = WSlot(p)
      /\ \/ pc'[p] = "writei" /\ Partial(p, i)'
         \/ pc'[p] \in {"user", "filewrite"} /\ Settled(i)'
  BY DEF Lays
<1>2. \A j \in Inum : \A q \in Process \ {p} : WritesTo(q, j)' <=> WritesTo(q, j)
  BY <1>1 DEF WritesTo, WSlot
<1>3. \A j \in Inum \ {i} : ~WritesTo(p, j) /\ ~WritesTo(p, j)'
  BY <1>1 DEF WritesTo
<1>4. WritesTo(p, i)' <=> pc'[p] = "writei"
  BY <1>1 DEF WritesTo
<1>5. \A j \in Inum \ {i} : /\ Settled(j) => Settled(j)'
                            /\ \A q \in Process \ {p} : Partial(q, j) => Partial(q, j)'
  BY <1>1 DEF Settled, Partial
<1>6. Laid
  BY DEF BlockInv
<1>7. \A j \in Inum \ {i} : /\ (\A q \in Process : ~WritesTo(q, j)') => Settled(j)'
                            /\ \A q \in Process : WritesTo(q, j)' => Partial(q, j)'
  BY <1>2, <1>3, <1>5, <1>6 DEF Laid
<1>8. /\ (\A q \in Process : ~WritesTo(q, i)') => Settled(i)'
      /\ \A q \in Process : WritesTo(q, i)' => Partial(q, i)'
  BY <1>1, <1>2, <1>4
<1> QED  BY <1>7, <1>8 DEF Laid

(* The other parts, for a step of p that writes to inode i                 *)
LEMMA LaysRest ==
  ASSUME AllInv, BlockInv, NEW p \in Process, pc[p] \in InWrite, NEW i \in Inum, i = inum[WSlot(p)],
         Lays(p, i), BlockTypes', Owned', pc'[p] # "user" => Numbers(writing'[p]),
         pc'[p] = "filewrite" => writing'[p].chunk = 0 /\ writing'[p].pos = 0,
         \A j \in Inum : size[j] <= size'[j],
         \A f \in File : off'[f] = off[f] \/ (f = WFile(p) /\ off'[f] <= size'[i])
  PROVE  BlockInv'
<1>1. Laid'
  BY LaysDown
<1>2. /\ UNCHANGED <<inum, dinode, ftable, ofile>>
      /\ \A q \in Process \ {p} : pc'[q] = pc[q] /\ writing'[q] = writing[q]
      /\ \A j \in Inum \ {i} : size'[j] = size[j]
      /\ pc'[p] # "user" => WSlot(p)' = WSlot(p) /\ WFile(p)' = WFile(p)
  BY DEF Lays
<1>3. /\ FilesUse /\ dinode[i].type /\ Writer(p) /\ Sized /\ \A j \in Inum : size[j] \in Nat
      /\ \A j \in Inum : size'[j] \in Nat
      /\ \A f \in File : off[f] \in Nat /\ off'[f] \in Nat
  <2>1. WritersUse /\ Writer(p) /\ Sized /\ BlockTypes /\ MAXFILE * BSIZE \in Nat
    BY WriterUses, SizeFacts DEF BlockInv
  <2>2. \A j \in Inum : size[j] \in Nat /\ size'[j] \in Nat
    BY <2>1 DEF BlockTypes
  <2> QED  BY <2>1, <2>2, FileUses DEF WritersUse, BlockTypes
<1>4. ftable[WFile(p)].type = "inode" /\ ftable[WFile(p)].obj = WSlot(p)
  BY <1>3 DEF Writer
<1>5. Sized'
  <2>1. \A j \in Inum : ~dinode[j].type => size'[j] = 0
    BY <1>2, <1>3 DEF Sized
  <2>2. ASSUME NEW f \in File, ftable[f].type = "inode"
        PROVE  off'[f] <= size'[inum[ftable[f].obj]]
    <3>1. inum[ftable[f].obj] \in Inum
      BY <1>3, <2>2 DEF FilesUse
    <3>2. off[f] <= size[inum[ftable[f].obj]]
      BY <1>3, <2>2 DEF Sized
    <3>3. CASE off'[f] = off[f]
      <4> DEFINE a == size[inum[ftable[f].obj]]
                 b == size'[inum[ftable[f].obj]]
      <4>1. a \in Nat /\ b \in Nat /\ a <= b /\ off[f] <= a /\ off[f] \in Nat
        BY <1>3, <3>1, <3>2
      <4> HIDE DEF a, b
      <4>2. off[f] <= b
        BY <4>1
      <4> QED  BY <3>3, <4>2 DEF b
    <3>4. CASE f = WFile(p) /\ off'[f] <= size'[i]
      BY <1>4, <3>4
    <3> QED  BY <3>3, <3>4
  <2> QED  BY <1>2, <2>1, <2>2 DEF Sized
<1>6. ASSUME NEW q \in Process PROVE Writer(q)'
  <2>1. CASE q = p
    <3>1. CASE pc'[p] = "user"
      BY <2>1, <3>1 DEF Writer, InWrite
    <3>2. CASE pc'[p] # "user"
      <4>1. (\E fd \in FD : ofile[p][fd] = WFile(p))
        BY <1>3 DEF Writer
      <4> QED  BY <1>2, <1>4, <2>1, <3>2, <4>1 DEF Writer
    <3> QED  BY <3>1, <3>2
  <2>2. CASE q # p
    <3>1. Writer(q) /\ pc'[q] = pc[q] /\ writing'[q] = writing[q]
      BY <1>2, <2>2 DEF BlockInv
    <3> QED  BY <1>2, <3>1 DEF Writer, WFile, WSlot
  <2> QED  BY <2>1, <2>2
<1> QED  BY <1>1, <1>5, <1>6 DEF BlockInv

LEMMA BlocksWriteiFails ==
  ASSUME AllInv, AllInv', BlockInv, NEW p \in Process, OnContents(p), WriteiFails(p)
  PROVE  BlockInv'
<1>1. /\ pc[p] = "filewrite" /\ pc' = [pc EXCEPT ![p] = "user"]
      /\ \A q \in Process \ {p} : writing'[q] = writing[q]
      /\ UNCHANGED <<blockVars, off, inum, iref, dinode, ftable, ofile>>
  BY DEF OnContents, WriteiFails, Move, inodeVars, diskVars, icacheVars, AllInv, CallInv, Kinds
<1>2. pc'[p] = "user" /\ \A q \in Process \ {p} : pc'[q] = pc[q]
  BY <1>1 DEF AllInv, CallInv, Kinds
<1>3. \A q \in Process : SameWriter(q)
  BY <1>1, <1>2 DEF SameWriter, Writer, InWrite
<1>4. SameInodes /\ SameFiles /\ off' \in [File -> Nat]
  BY <1>1 DEF SameInodes, SameFiles, BlockInv, BlockTypes
<1> QED  BY <1>1, <1>3, <1>4, BlocksQuiet DEF QuietBlocks

(* What p has when it writes                                               *)
LEMMA WriterHas ==
  ASSUME AllInv, BlockInv, NEW p \in Process, pc[p] \in InWrite
  PROVE  /\ DOMAIN writing = Process /\ DOMAIN pc = Process
         /\ DOMAIN writing[p] = {"file", "slot", "n", "chunk", "pos"}
         /\ Numbers(writing[p]) /\ inum[WSlot(p)] \in Inum
         /\ WFile(p) \in File /\ off[WFile(p)] \in Nat /\ WSlot(p) \in Slot
         /\ off[WFile(p)] <= size[inum[WSlot(p)]] /\ size[inum[WSlot(p)]] \in Nat
         /\ pc[p] = "writei" => locked[WSlot(p)] = p /\ Partial(p, inum[WSlot(p)])
         /\ pc[p] = "filewrite" => writing[p].chunk = 0 /\ writing[p].pos = 0
<1>1. Writer(p) /\ BlockTypes /\ Laid /\ Sized /\ WritersUse
  BY WriterUses DEF BlockInv
<1>2. WFile(p) \in File /\ WSlot(p) \in Slot /\ inum[WSlot(p)] \in Inum
  BY <1>1 DEF WritersUse
<1>3. /\ off[WFile(p)] \in Nat /\ off[WFile(p)] <= size[inum[WSlot(p)]]
      /\ size[inum[WSlot(p)]] \in Nat
  BY <1>1, <1>2, SizeFacts DEF Writer, BlockTypes, Sized
<1>4. /\ DOMAIN writing = Process /\ DOMAIN pc = Process
      /\ DOMAIN writing[p] = {"file", "slot", "n", "chunk", "pos"}
  BY DEF AllInv, CallInv, Kinds, Shape, NotWriting
<1>5. pc[p] = "writei" => locked[WSlot(p)] = p /\ Partial(p, inum[WSlot(p)])
  BY <1>1, <1>2 DEF AllInv, CallInv, LocksOf, Holds, Laid, WritesTo
<1> QED  BY <1>1, <1>2, <1>3, <1>4, <1>5 DEF Writer

LEMMA BlocksWriteiBegins ==
  ASSUME AllInv, BlockInv, NEW p \in Process, OnContents(p), WriteiBegins(p),
         NEW i, i = inum[WSlot(p)]
  PROVE  BlockInv'
<1> DEFINE c == Piece(p)
           x == off[WFile(p)]
<1>1. /\ pc[p] = "filewrite" /\ pc' = [pc EXCEPT ![p] = "writei"] /\ locked[WSlot(p)] = None
      /\ x + c <= MAXFILE * BSIZE
      /\ writing' = [writing EXCEPT ![p].chunk = c, ![p].pos = x]
      /\ UNCHANGED <<blockVars, off, inum, iref, dinode, ftable, ofile>>
  BY DEF OnContents, WriteiBegins, Move, CanLock, MayWrite, diskVars
<1>2. /\ i \in Inum /\ \A q \in Process \ {p} : ~WritesTo(q, i)
      /\ pc[p] \in InWrite
  BY <1>1, WritesAlone DEF InWrite
<1>3. /\ DOMAIN writing = Process /\ DOMAIN pc = Process
      /\ DOMAIN writing[p] = {"file", "slot", "n", "chunk", "pos"}
      /\ Numbers(writing[p])
      /\ x \in Nat /\ x <= size[i] /\ size[i] \in Nat
  BY <1>2, WriterHas
<1>4. c \in Nat /\ c <= writing[p].n
  <2>1. writing[p].n \in Nat /\ MaxChunk \in Nat
    BY <1>3, SizeFacts DEF Numbers
  <2> QED  BY <2>1, LeastOfTwo DEF Piece
<1> HIDE DEF c, x
<1>5. /\ pc'[p] = "writei" /\ \A q \in Process \ {p} : pc'[q] = pc[q] /\ writing'[q] = writing[q]
      /\ writing'[p].chunk = c /\ writing'[p].pos = x /\ writing'[p].n = writing[p].n
      /\ WSlot(p)' = WSlot(p) /\ WFile(p)' = WFile(p)
  BY <1>1, <1>3 DEF WSlot, WFile
<1>6. Settled(i)
  <2>1. ~WritesTo(p, i)
    BY <1>1 DEF WritesTo
  <2> QED  BY <1>2, <2>1 DEF BlockInv, Laid
<1>7. Partial(p, i)'
  <2>1. \A k \in Nat : Below(k, x) => Below(k, size[i])
    BY ONLY <1>3, BelowIs
  <2>2. UNCHANGED <<addrs, indirect, size>> /\ NDIRECT \in Nat /\ \A k \in Index : k \in Nat
    BY <1>1, SizeFacts DEF blockVars, Index
  <2>3. /\ \A k \in Index : addrs[i][k] # None <=> Below(k, size[i]) \/ Below(k, x)
        /\ Below(NDIRECT, size[i]) \/ Below(NDIRECT, x) => indirect[i] # None
        /\ indirect[i] # None => Below(NDIRECT, size[i])
    BY <1>6, <2>1, <2>2 DEF Settled
  <2> QED  BY <1>5, <2>2, <2>3 DEF Partial
<1>8. Lays(p, i)
  BY <1>1, <1>2, <1>5, <1>7 DEF Lays, blockVars
<1>9. Numbers(writing'[p])
  BY <1>1, <1>3, <1>4, <1>5 DEF Numbers
<1>10. /\ BlockTypes' /\ Owned' /\ pc'[p] # "filewrite"
       /\ \A j \in Inum : size[j] <= size'[j]
       /\ \A f \in File : off'[f] = off[f]
  <2>1. MAXFILE * BSIZE \in Nat
    BY SizeFacts
  <2> QED  BY <1>1, <1>5, <2>1 DEF BlockInv, BlockTypes, Owned, Held, blockVars
<1> QED  BY <1>2, <1>8, <1>9, <1>10, LaysRest

(* balloc(): a block that was in no place goes to one that had none.       *)
Marked(b, i, k) ==
  /\ b \in DataBlock /\ b \notin used /\ used' = used \cup {b}
  /\ Held(i, k) = None /\ Held(i, k)' = b
  /\ \A j \in Inum : \A m \in Place : <<j, m>> # <<i, k>> => Held(j, m)' = Held(j, m)

LEMMA OwnedTaken ==
  ASSUME BlockTypes, Owned, NEW i \in Inum, NEW k \in Place, NEW b, Marked(b, i, k)
  PROVE  Owned'
<1>1. /\ b \notin used /\ b # None /\ used' = used \cup {b}
      /\ Held(i, k) = None /\ Held(i, k)' = b
      /\ \A j \in Inum : \A m \in Place : ~(j = i /\ m = k) => Held(j, m)' = Held(j, m)
  BY ConstFacts DEF Marked
<1>2. \A j \in Inum : \A m \in Place : Held(j, m)' # None => Held(j, m)' \in used'
  BY <1>1 DEF Owned
<1>3. \A c \in used' : \E j \in Inum : \E m \in Place : Held(j, m)' = c
  <2> TAKE c \in used'
  <2>1. CASE c = b
    BY <1>1, <2>1
  <2>2. CASE c \in used
    <3>1. PICK j \in Inum, m \in Place : Held(j, m) = c
      BY <2>2 DEF Owned
    <3>2. c # None
      BY <2>2, ConstFacts DEF BlockTypes
    <3>3. ~(j = i /\ m = k)
      BY <1>1, <3>1, <3>2
    <3> QED  BY <1>1, <3>1, <3>3
  <2> QED  BY <1>1, <2>1, <2>2
<1>4. \A j, h \in Inum : \A m, n \in Place :
        Held(j, m)' # None /\ Held(j, m)' = Held(h, n)' => j = h /\ m = n
  <2> SUFFICES ASSUME NEW j \in Inum, NEW h \in Inum, NEW m \in Place, NEW n \in Place,
                      Held(j, m)' # None, Held(j, m)' = Held(h, n)'
               PROVE  j = h /\ m = n
    OBVIOUS
  <2>1. \A y \in Inum : \A z \in Place : ~(y = i /\ z = k) => Held(y, z)' # b
    BY <1>1 DEF Owned
  <2> QED  BY <1>1, <2>1 DEF Owned
<1> QED  BY <1>2, <1>3, <1>4 DEF Owned

LEMMA BallocTakes ==
  ASSUME BlockTypes, Balloc, NEW b, b = Least(DataBlock \ used)
  PROVE  b \in DataBlock /\ b \notin used /\ b # None /\ used' = used \cup {b}
<1>1. DataBlock \ used \in SUBSET Nat /\ DataBlock \ used # {}
  BY ContentsAssumption DEF Balloc
<1>2. b \in DataBlock \ used
  BY <1>1, LeastIn
<1> QED  BY <1>2, ConstFacts DEF Balloc

(* What bmap() is asked for                                                *)
LEMMA PositionIn ==
  ASSUME NEW p, Numbers(writing[p]), writing[p].chunk > 0
  PROVE  /\ InOneBlock(writing[p].pos, writing[p].chunk, InBlock(p), Position(p))
         /\ Position(p) \in Index
<1> DEFINE x == writing[p].pos
           c == writing[p].chunk
           k == Position(p)
           n == InBlock(p)
<1>1. x \in Nat /\ c \in Nat /\ c > 0 /\ x + c <= MAXFILE * BSIZE
  BY DEF Numbers
<1>2. n = Least({c, BSIZE - (x % BSIZE)}) /\ k = x \div BSIZE
  BY DEF InBlock, Position
<1> HIDE DEF x, c, k, n
<1>3. InOneBlock(x, c, n, k)
  BY ONLY <1>1, <1>2, BlockOf
<1>4. k \in Nat /\ Below(k, x + c) /\ x + c \in Nat
  BY <1>1, <1>3 DEF InOneBlock
<1>5. k < MAXFILE
  BY ONLY <1>1, <1>4, BelowIs
<1>6. k \in Index
  BY <1>4, <1>5, SizeFacts DEF Index
<1> QED  BY <1>3, <1>6 DEF x, c, k, n

LEMMA BlocksWriteiIndirect ==
  ASSUME AllInv, BlockInv, NEW p \in Process, OnContents(p), WriteiIndirect(p),
         NEW i, i = inum[WSlot(p)]
  PROVE  BlockInv'
<1> DEFINE b == Least(DataBlock \ used)
           k == Position(p)
           x == writing[p].pos
           c == writing[p].chunk
<1>1. /\ pc[p] = "writei" /\ c > 0 /\ NDIRECT <= k /\ indirect[i] = None
      /\ Balloc /\ indirect' = [indirect EXCEPT ![i] = b]
      /\ UNCHANGED <<pc, addrs, size, off, writing, inum, iref, dinode, ftable, ofile>>
  BY DEF OnContents, WriteiIndirect, BmapIndirect, NeedsIndirect, callVars, inodeVars, diskVars,
     icacheVars
<1>2. pc[p] \in InWrite /\ Numbers(writing[p]) /\ locked[WSlot(p)] = p /\ Partial(p, i)
  BY <1>1, WriterHas DEF InWrite
<1>3. i \in Inum /\ \A q \in Process \ {p} : ~WritesTo(q, i)
  BY <1>2, WritesAlone
<1>4. BlockTypes /\ Owned
  BY DEF BlockInv
<1>5. b \in DataBlock /\ b \notin used /\ b # None /\ used' = used \cup {b}
  BY <1>1, <1>4, BallocTakes
<1>6. InOneBlock(x, c, InBlock(p), k)
  BY <1>1, <1>2, PositionIn
<1>7. Below(NDIRECT, x + c)
  BY <1>1, <1>6, SizeFacts DEF InOneBlock
<1> HIDE DEF b, k
<1>8. indirect'[i] = b /\ \A j \in Inum \ {i} : indirect'[j] = indirect[j]
  BY <1>1, <1>3, <1>4 DEF BlockTypes
<1>9. MAXFILE \in Place /\ Marked(b, i, MAXFILE)
  <2>1. MAXFILE \in Place
    BY SizeFacts DEF Place
  <2> QED  BY <1>1, <1>3, <1>5, <1>8, <2>1 DEF Marked, Held
<1>10. Owned'
  BY <1>3, <1>4, <1>9, OwnedTaken
<1>11. BlockTypes'
  BY <1>1, <1>3, <1>4, <1>5, SizeFacts DEF BlockTypes
<1>12. Partial(p, i)'
  BY <1>1, <1>2, <1>5, <1>7, <1>8 DEF Partial
<1>13. Lays(p, i)
  BY <1>1, <1>3, <1>8, <1>12 DEF Lays, WSlot, WFile
<1>14. /\ Numbers(writing'[p]) /\ pc'[p] # "filewrite"
       /\ \A j \in Inum : size[j] <= size'[j]
       /\ \A f \in File : off'[f] = off[f]
  BY <1>1, <1>2, <1>4, SizeFacts DEF BlockTypes
<1> QED  BY <1>2, <1>3, <1>10, <1>11, <1>13, <1>14, LaysRest

LEMMA BlocksWriteiBlock ==
  ASSUME AllInv, BlockInv, NEW p \in Process, OnContents(p), WriteiBlock(p),
         NEW i, i = inum[WSlot(p)], NEW k, k = Position(p), NEW n, n = InBlock(p),
         NEW x, x = writing[p].pos, NEW c, c = writing[p].chunk
  PROVE  BlockInv'
<1> DEFINE b == Least(DataBlock \ used)
<1>1. /\ pc[p] = "writei" /\ c > 0 /\ ~(k >= NDIRECT /\ indirect[i] = None)
      /\ \/ addrs[i][k] # None /\ UNCHANGED <<used, addrs>>
         \/ addrs[i][k] = None /\ Balloc /\ addrs' = [addrs EXCEPT ![i][k] = b]
      /\ writing' = [writing EXCEPT ![p].chunk = @ - n, ![p].pos = @ + n, ![p].n = @ - n]
      /\ UNCHANGED <<pc, indirect, size, off, inum, iref, dinode, ftable, ofile>>
  BY DEF OnContents, WriteiBlock, Bmap, NeedsIndirect, callVars, inodeVars, diskVars, icacheVars
<1>2. /\ pc[p] \in InWrite /\ Numbers(writing[p]) /\ locked[WSlot(p)] = p /\ Partial(p, i)
      /\ DOMAIN writing = Process /\ DOMAIN writing[p] = {"file", "slot", "n", "chunk", "pos"}
  BY <1>1, WriterHas DEF InWrite
<1>3. i \in Inum /\ \A q \in Process \ {p} : ~WritesTo(q, i)
  BY <1>2, WritesAlone
<1>4. BlockTypes /\ Owned
  BY DEF BlockInv
<1>5. InOneBlock(x, c, n, k) /\ k \in Index
  BY <1>1, <1>2, PositionIn
<1>6. /\ writing'[p].chunk = c - n /\ writing'[p].pos = x + n /\ writing'[p].n = writing[p].n - n
      /\ \A q \in Process \ {p} : writing'[q] = writing[q]
      /\ WSlot(p)' = WSlot(p) /\ WFile(p)' = WFile(p)
  BY <1>1, <1>2 DEF WSlot, WFile
<1>7. Numbers(writing'[p]) /\ (x + n) + (c - n) = x + c /\ x \in Nat
  BY <1>2, <1>5, <1>6, SizeFacts DEF Numbers, InOneBlock
<1>8. /\ addrs'[i][k] # None /\ \A m \in Index \ {k} : addrs'[i][m] = addrs[i][m]
      /\ \A j \in Inum \ {i} : addrs'[j] = addrs[j]
      /\ BlockTypes' /\ Owned'
  <2>1. CASE addrs[i][k] # None /\ UNCHANGED <<used, addrs>>
    BY <1>1, <1>4, <2>1 DEF BlockTypes, Owned, Held
  <2>2. CASE addrs[i][k] = None /\ Balloc /\ addrs' = [addrs EXCEPT ![i][k] = b]
    <3>1. b \in DataBlock /\ b \notin used /\ b # None /\ used' = used \cup {b}
      BY <1>4, <2>2, BallocTakes
    <3> HIDE DEF b
    <3>2. addrs \in [Inum -> [Index -> DataBlock \cup {None}]]
      BY <1>4 DEF BlockTypes
    <3>3. /\ addrs'[i][k] = b /\ \A m \in Index \ {k} : addrs'[i][m] = addrs[i][m]
          /\ \A j \in Inum \ {i} : addrs'[j] = addrs[j]
          /\ addrs' \in [Inum -> [Index -> DataBlock \cup {None}]]
      BY <1>3, <1>5, <2>2, <3>1, <3>2
    <3>4. k \in Place /\ k # MAXFILE /\ \A m \in Place : m # MAXFILE => m \in Index
      BY <1>5, SizeFacts DEF Index, Place
    <3>5. Marked(b, i, k)
      <4>1. Held(i, k) = None /\ Held(i, k)' = b
        BY <2>2, <3>3, <3>4 DEF Held
      <4>2. ASSUME NEW j \in Inum, NEW m \in Place, ~(j = i /\ m = k) PROVE Held(j, m)' = Held(j, m)
        BY <1>1, <3>3, <3>4, <4>2 DEF Held
      <4> QED  BY <3>1, <4>1, <4>2 DEF Marked
    <3>6. Owned'
      BY <1>3, <1>4, <3>4, <3>5, OwnedTaken
    <3>7. BlockTypes'
      BY <1>1, <1>4, <3>1, <3>3 DEF BlockTypes
    <3> QED  BY <3>1, <3>3, <3>6, <3>7
  <2> QED  BY <1>1, <2>1, <2>2
<1>9. Partial(p, i)'
  <2>1. NDIRECT \in Nat /\ \A m \in Index : m \in Nat
    BY SizeFacts DEF Index
  <2>2. \A j \in Nat : Below(j, x + n) <=> Below(j, x) \/ j = k
    BY <1>5 DEF InOneBlock
  <2>3. /\ \A m \in Index : addrs[i][m] # None <=> Below(m, size[i]) \/ Below(m, x)
        /\ Below(NDIRECT, size[i]) \/ Below(NDIRECT, x) => indirect[i] # None
        /\ indirect[i] # None => Below(NDIRECT, size[i]) \/ Below(NDIRECT, x + c)
    BY <1>2 DEF Partial
  <2>4. \A m \in Index : addrs'[i][m] # None <=> Below(m, size[i]) \/ Below(m, x + n)
    BY <1>5, <1>8, <2>1, <2>2, <2>3
  <2>5. Below(NDIRECT, size[i]) \/ Below(NDIRECT, x + n) => indirect[i] # None
    <3>1. NDIRECT = k => k >= NDIRECT
      BY <2>1
    <3> QED  BY <1>1, <2>1, <2>2, <2>3, <3>1
  <2> QED  BY <1>1, <1>6, <1>7, <2>3, <2>4, <2>5 DEF Partial
<1>10. Lays(p, i)
  BY <1>1, <1>3, <1>6, <1>8, <1>9 DEF Lays
<1>11. /\ pc'[p] # "filewrite"
       /\ \A j \in Inum : size[j] <= size'[j]
       /\ \A f \in File : off'[f] = off[f]
  BY <1>1, <1>4, SizeFacts DEF BlockTypes
<1> QED  BY <1>2, <1>3, <1>7, <1>8, <1>10, <1>11, LaysRest

LEMMA BlocksWriteiEnds ==
  ASSUME AllInv, BlockInv, NEW p \in Process, OnContents(p), WriteiEnds(p),
         NEW i, i = inum[WSlot(p)], NEW x, x = writing[p].pos
  PROVE  BlockInv'
<1> DEFINE f == WFile(p)
           z == Greatest({size[i], x})
<1>1. /\ pc[p] = "writei" /\ writing[p].chunk = 0
      /\ size' = [size EXCEPT ![i] = z] /\ off' = [off EXCEPT ![f] = x]
      /\ \/ /\ pc' = [pc EXCEPT ![p] = "user"]
            /\ writing' = [writing EXCEPT ![p] = NotWriting]
         \/ /\ pc' = [pc EXCEPT ![p] = "filewrite"]
            /\ writing' = [writing EXCEPT ![p].pos = 0]
      /\ UNCHANGED <<used, addrs, indirect, inum, iref, dinode, ftable, ofile>>
  BY DEF OnContents, WriteiEnds, diskVars
<1>2. /\ pc[p] \in InWrite /\ Numbers(writing[p]) /\ locked[WSlot(p)] = p /\ Partial(p, i)
      /\ DOMAIN writing = Process /\ DOMAIN writing[p] = {"file", "slot", "n", "chunk", "pos"}
      /\ DOMAIN pc = Process /\ size[i] \in Nat
  BY <1>1, WriterHas DEF InWrite
<1>3. i \in Inum /\ \A q \in Process \ {p} : ~WritesTo(q, i)
  BY <1>2, WritesAlone
<1>4. BlockTypes /\ Owned
  BY DEF BlockInv
<1>5. x \in Nat /\ x <= MAXFILE * BSIZE /\ MAXFILE * BSIZE \in Nat /\ x + writing[p].chunk = x
  BY <1>1, <1>2, SizeFacts DEF Numbers
<1>6. z \in {size[i], x} /\ size[i] <= z /\ x <= z
  BY <1>2, <1>5, GreatestOfTwo
<1> HIDE DEF f, z
<1>7. z \in Nat /\ z \in 0 .. MAXFILE * BSIZE
  <2>1. size[i] \in 0 .. MAXFILE * BSIZE
    BY <1>3, <1>4 DEF BlockTypes
  <2> QED  BY <1>5, <1>6, <2>1
<1>8. /\ size'[i] = z /\ \A j \in Inum \ {i} : size'[j] = size[j]
      /\ \A g \in File : off'[g] = off[g] \/ (g = f /\ off'[g] = x)
      /\ BlockTypes' /\ Owned'
  <2>1. size \in [Inum -> 0 .. MAXFILE * BSIZE] /\ off \in [File -> Nat]
    BY <1>4 DEF BlockTypes
  <2>2. /\ size' \in [Inum -> 0 .. MAXFILE * BSIZE] /\ size'[i] = z
        /\ \A j \in Inum \ {i} : size'[j] = size[j]
    BY <1>1, <1>3, <1>7, <2>1
  <2>3. /\ off' \in [File -> Nat]
        /\ \A g \in File : off'[g] = off[g] \/ (g = f /\ off'[g] = x)
    BY <1>1, <1>5, <2>1
  <2>4. BlockTypes'
    BY <1>1, <1>4, <2>2, <2>3 DEF BlockTypes
  <2>5. Owned'
    BY <1>1, <1>4 DEF Owned, Held
  <2> QED  BY <2>2, <2>3, <2>4, <2>5
<1>9. /\ pc'[p] \in {"user", "filewrite"}
      /\ \A q \in Process \ {p} : pc'[q] = pc[q] /\ writing'[q] = writing[q]
  BY <1>1, <1>2
<1>10. pc'[p] = "filewrite" =>
         /\ writing'[p].pos = 0 /\ writing'[p].chunk = 0 /\ writing'[p].n = writing[p].n
         /\ WSlot(p)' = WSlot(p) /\ WFile(p)' = f
  BY <1>1, <1>2 DEF WSlot, WFile, f
<1>11. pc'[p] # "user" => Numbers(writing'[p])
  BY <1>2, <1>5, <1>9, <1>10 DEF Numbers
<1>12. Settled(i)'
  <2>1. \A k \in Nat : Below(k, z) <=> Below(k, size[i]) \/ Below(k, x)
    BY ONLY <1>2, <1>5, <1>6, <1>7, BelowIs
  <2>2. NDIRECT \in Nat /\ \A k \in Index : k \in Nat
    BY SizeFacts DEF Index
  <2> QED  BY <1>1, <1>2, <1>5, <1>8, <2>1, <2>2 DEF Partial, Settled
<1>13. Lays(p, i)
  BY <1>1, <1>3, <1>8, <1>9, <1>10, <1>12 DEF Lays, f
<1>14. \A j \in Inum : size[j] <= size'[j]
  <2>1. \A j \in Inum : size[j] \in Nat
    BY <1>4, <1>5 DEF BlockTypes
  <2> QED  BY <1>6, <1>8, <2>1
<1>15. \A g \in File : off'[g] = off[g] \/ (g = WFile(p) /\ off'[g] <= size'[i])
  BY <1>6, <1>8 DEF f
<1> QED  BY <1>2, <1>3, <1>8, <1>9, <1>10, <1>11, <1>13, <1>14, <1>15, LaysRest

LEMMA BlocksOnContents ==
  ASSUME AllInv, AllInv', BlockInv, NEW p \in Process, OnContents(p) PROVE BlockInv'
BY BlocksWriteiBegins, BlocksWriteiFails, BlocksWriteiIndirect, BlocksWriteiBlock, BlocksWriteiEnds
   DEF OnContents, WriteStep

-----------------------------------------------------------------------------
(* The start, every step, and what follows                                 *)

LEMMA BlocksInit == Init => BlockInv
<1> SUFFICES ASSUME Init PROVE BlockInv
  OBVIOUS
<1>1. /\ used = {} /\ addrs = [i \in Inum |-> NoAddrs] /\ indirect = [i \in Inum |-> None]
      /\ size = [i \in Inum |-> 0] /\ off = [f \in File |-> 0]
      /\ \A p \in Process : pc[p] \in {"user", "dead"}
  BY DEF Init, InitContents
<1>2. NoAddrs \in [Index -> DataBlock \cup {None}] /\ \A k \in Index : NoAddrs[k] = None
  BY DEF NoAddrs, Index
<1>3. 0 \in 0 .. MAXFILE * BSIZE /\ 0 \in Nat /\ NDIRECT \in Nat /\ \A k \in Index : k \in Nat
  BY SizeFacts DEF Index
<1>4. BlockTypes
  BY <1>1, <1>2, <1>3 DEF BlockTypes
<1>5. Owned
  <2>1. \A k \in Place : k # MAXFILE => k \in Index
    BY SizeFacts DEF Place, Index
  <2>2. \A i \in Inum : \A k \in Place : Held(i, k) = None
    BY <1>1, <1>2, <2>1 DEF Held
  <2> QED  BY <1>1, <2>2 DEF Owned
<1>6. Laid
  <2>1. \A k \in Nat : ~Below(k, 0)
    BY BelowIs
  <2>2. \A i \in Inum : Settled(i)
    BY <1>1, <1>2, <1>3, <2>1 DEF Settled
  <2> QED  BY <1>1, <2>2 DEF Laid, WritesTo
<1>7. Sized
  <2>1. AllInv
    BY CallInit, RefsInit, NamesInit DEF AllInv
  <2>2. \A f \in File : ftable[f].type = "inode" => inum[ftable[f].obj] \in Inum
    BY <2>1, FileUses DEF FilesUse
  <2> QED  BY <1>1, <2>2 DEF Sized
<1>8. \A p \in Process : Writer(p)
  BY <1>1 DEF Writer, InWrite
<1> QED  BY <1>4, <1>5, <1>6, <1>7, <1>8 DEF BlockInv

LEMMA BlocksStep == AllInv /\ AllInv' /\ BlockInv /\ [Next]_vars => BlockInv'
<1> SUFFICES ASSUME AllInv, AllInv', BlockInv, [Next]_vars PROVE BlockInv'
  OBVIOUS
<1>1. ASSUME NEW p \in Process, Descriptors(p) PROVE BlockInv'
  BY <1>1, BlocksDup, BlocksClose, BlocksCalls, BlocksReadFile, BlocksWriteFile DEF Descriptors
<1>2. ASSUME NEW p \in Process, OnPipe(p) PROVE BlockInv'
  BY <1>2, BlocksOnPipe
<1>3. ASSUME NEW p \in Process, OnInode(p) PROVE BlockInv'
  BY <1>3, BlocksInode, BlocksFreed
<1>4. ASSUME NEW p \in Process, OnContents(p) PROVE BlockInv'
  BY <1>4, BlocksOnContents
<1>5. ASSUME NEW p \in Process, MakePipe(p) PROVE BlockInv'
  BY <1>5, BlocksMakePipe
<1>6. ASSUME NEW p \in Process, OpenFile(p) \/ OpenFails(p) PROVE BlockInv'
  BY <1>6, BlocksOpenFile, BlocksProcesses
<1>7. ASSUME NEW p \in Process, Life(p) PROVE BlockInv'
  BY <1>7, BlocksProcesses, BlocksClose, BlocksFork DEF Life
<1>8. CASE Keyboard \/ \E p \in Process : OnConsole(p)
  BY <1>8, BlocksConsole
<1>9. CASE UNCHANGED vars
  <2>1. UNCHANGED <<pc, ftable, ofile, inodeVars, contentVars>>
    BY <1>9 DEF vars, callVars, fileVars
  <2> QED  BY <2>1, BlocksOutside
<1> QED  BY <1>1, <1>2, <1>3, <1>4, <1>5, <1>6, <1>7, <1>8, <1>9 DEF Next

(* BlocksMatchSizes, of the allocated and the free inodes                  *)
LEMMA BlockInvMatches ==
  ASSUME AllInv, BlockInv, \A p \in Process : pc[p] # "writei" PROVE BlocksMatchSizes
<1>1. BlockTypes /\ Owned /\ Laid /\ Sized
  BY DEF BlockInv
<1>2. \A i \in Inum : Settled(i) /\ size[i] \in Nat
  BY <1>1, SizeFacts DEF Laid, WritesTo, BlockTypes
<1>3. ASSUME NEW i \in Inum, NEW b
      PROVE  b \in Blocks(i) <=> b # None /\ \E k \in Place : Held(i, k) = b
  BY <1>2, BlocksAre
<1>4. \A k \in Index : k \in Place /\ k # MAXFILE /\ \A i : Held(i, k) = addrs[i][k]
  BY SizeFacts DEF Index, Place, Held
<1>5. MAXFILE \in Place /\ \A i : Held(i, MAXFILE) = indirect[i]
  BY SizeFacts DEF Place, Held
<1>6. \A i \in Inum :
        /\ \A k \in 0 .. MAXFILE - 1 : addrs[i][k] # None <=> k * BSIZE < size[i]
        /\ indirect[i] # None <=> NDIRECT * BSIZE < size[i]
        /\ ~dinode[i].type => size[i] = 0
  BY <1>1, <1>2 DEF Settled, Below, Sized, Index
<1>7. used = UNION {Blocks(i) : i \in Inum}
  <2>1. ASSUME NEW b \in used PROVE \E i \in Inum : b \in Blocks(i)
    <3>1. b # None
      BY <1>1, ConstFacts DEF BlockTypes
    <3> QED  BY <1>1, <1>3, <3>1 DEF Owned
  <2>2. ASSUME NEW i \in Inum, NEW b \in Blocks(i) PROVE b \in used
    BY <1>1, <1>3 DEF Owned
  <2> QED  BY <2>1, <2>2
<1>8. \A i, j \in Inum : i # j => Blocks(i) \cap Blocks(j) = {}
  BY <1>1, <1>3 DEF Owned
<1>9. \A i \in Inum : indirect[i] # None => indirect[i] \notin Direct(i) \cup ThroughIndirect(i)
  <2> SUFFICES ASSUME NEW i \in Inum, indirect[i] # None,
                      indirect[i] \in Direct(i) \cup ThroughIndirect(i)
               PROVE  FALSE
    OBVIOUS
  <2>1. PICK k \in Index : addrs[i][k] = indirect[i]
    BY SizeFacts DEF Direct, ThroughIndirect, Index
  <2> QED  BY <1>1, <1>4, <1>5, <2>1 DEF Owned
<1>10. \A i \in Inum : \A k, m \in 0 .. MAXFILE - 1 :
         addrs[i][k] = addrs[i][m] /\ addrs[i][k] # None => k = m
  <2>1. Index = 0 .. MAXFILE - 1
    BY DEF Index
  <2> QED  BY <1>1, <1>4, <2>1 DEF Owned
<1> QED  BY <1>6, <1>7, <1>8, <1>9, <1>10 DEF BlocksMatchSizes

(* With no call in progress nobody owes a name or relies on an entry.      *)
LEMMA RestIsOrder == ASSUME AllInv, BlockInv PROVE OrderAtRest
<1> SUFFICES ASSUME \A p \in Process : ~InTransaction(p)
             PROVE  /\ BlocksMatchSizes
                    /\ \A i \in Inum : dinode[i].nlink = Cardinality({n \in Name : dir[n] = i})
                    /\ \A i \in Inum : dinode[i].type /\ dinode[i].nlink = 0 =>
                         Opened(i) \/ i \in raced
                   
                    /\ \A f \in File :
                         ftable[f].type = "inode" => off[f] <= size[inum[ftable[f].obj]]
  BY DEF OrderAtRest
<1>1. \A p \in Process : pc[p] \notin InodeCall /\ pc[p] \notin Owes /\ pc[p] # "writei"
  BY DEF InTransaction, InodeCall, Owes
<1>2. BlocksMatchSizes
  BY <1>1, BlockInvMatches
<1>3. ASSUME NEW i \in Inum PROVE dinode[i].nlink = Count(Name, dir, i)
  <2>1. \A q \in Process : owed[q] # i
    BY <1>1, ConstFacts DEF owed
  <2>2. Count(Process, owed, i) = 0
    BY ONLY <2>1, CountNone
  <2>3. NameInv
    BY DEF AllInv
  <2>4. dinode[i].nlink \in Nat /\ dinode[i].nlink = Count(Name, dir, i) + Count(Process, owed, i)
    BY <2>3, LinkCounts
  <2>5. Count(Name, dir, i) \in Nat
    BY InodeAssumption, CountType
  <2> QED  BY <2>2, <2>4, <2>5
<1>4. ASSUME NEW i \in Inum, dinode[i].type, dinode[i].nlink = 0, i \notin raced PROVE Opened(i)
  <2>1. \A n \in Name : dir[n] # i
    BY <1>4, LinkCounts DEF AllInv
  <2>2. PICK s \in Slot : inum[s] = i /\ Relied(s)
    BY <1>4, <2>1 DEF AllInv, NameInv, Kept
  <2>3. \A p \in Process : ip[p] = None /\ other[p] = None
    BY <1>1, Has DEF AllInv, InodeCall
  <2> QED  BY <2>2, <2>3, ConstFacts DEF Relied, Opened
<1>5. Sized
  BY DEF BlockInv
<1> QED  BY <1>2, <1>3, <1>4, <1>5 DEF Sized, Count

LEMMA AllBlocks == Spec => [](AllInv /\ BlockInv)
<1>1. Init => BlockInv
  BY BlocksInit
<1>2. AllInv /\ AllInv' /\ BlockInv /\ [Next]_vars => BlockInv'
  BY BlocksStep
<1>3. CallInv /\ RefInv /\ NameInv => AllInv
  BY DEF AllInv
<1> QED  BY <1>1, <1>2, <1>3, AllNames, PTL DEF Spec

(* OrderAtRest, for any number of processes, inodes, blocks and names and  *)
(* sizes of files: whenever no call is in progress, and so in what a crash *)
(* leaves behind, files have exactly the blocks they need and share none,  *)
(* nothing else is marked in use, each link is a name, and an inode        *)
(* without names is open or its last references raced.                     *)
THEOREM RestInOrder == Spec => []OrderAtRest
<1>1. AllInv /\ BlockInv => OrderAtRest
  BY RestIsOrder
<1> QED  BY <1>1, AllBlocks, PTL

-----------------------------------------------------------------------------
(* Rings: how far apart two positions are, and the position k further      *)

Gap(W, i, j) == (j + W - i) % W
Further(W, i, k) == (i + k) % W

LEMMA Modulo ==
  ASSUME NEW W \in Nat, W > 0, NEW x \in Nat, x < W + W
  PROVE  x % W = IF x < W THEN x ELSE x - W
<1> DEFINE m == x % W
           d == x \div W
           t == d * W
<1>1. d \in Nat /\ m \in Nat /\ m < W /\ x = t + m /\ t \in Nat
  OBVIOUS
<1>2. d = 0 => t = 0
  BY <1>1
<1>3. d = 1 => t = W
  BY <1>1
<1>4. d > 1 => t >= W + W
  <2> SUFFICES ASSUME d > 1 PROVE t >= W + W
    OBVIOUS
  <2>1. 1 * W + W <= d * W
    <3>1. 1 \in Nat /\ d \in Nat /\ 1 < d
      BY <1>1
    <3> HIDE DEF d
    <3> QED  BY <3>1, Multiples
  <2> QED  BY <1>1, <2>1
<1> HIDE DEF m, d, t
<1>5. d = 0 \/ d = 1 \/ d > 1
  BY <1>1
<1>6. m = IF x < W THEN x ELSE x - W
  BY <1>1, <1>2, <1>3, <1>4, <1>5
<1> QED  BY <1>6 DEF m

LEMMA GapIs ==
  ASSUME NEW W \in Nat, W > 0, NEW i \in 0 .. W - 1, NEW j \in 0 .. W - 1
  PROVE  Gap(W, i, j) = IF i <= j THEN j - i ELSE j + W - i
<1> DEFINE x == j + W - i
<1>1. x \in Nat /\ x < W + W /\ (x < W <=> ~(i <= j)) /\ x - W = j - i
  OBVIOUS
<1>2. Gap(W, i, j) = x % W
  BY DEF Gap
<1> HIDE DEF x
<1>3. x % W = IF x < W THEN x ELSE x - W
  BY <1>1, Modulo
<1>4. x = j + W - i
  BY DEF x
<1> QED  BY <1>1, <1>2, <1>3, <1>4

LEMMA FurtherIs ==
  ASSUME NEW W \in Nat, W > 0, NEW i \in 0 .. W - 1, NEW k \in 0 .. W
  PROVE  Further(W, i, k) = IF i + k < W THEN i + k ELSE i + k - W
<1> DEFINE x == i + k
<1>1. x \in Nat /\ x < W + W
  OBVIOUS
<1>2. Further(W, i, k) = x % W
  BY DEF Further
<1> HIDE DEF x
<1>3. x % W = IF x < W THEN x ELSE x - W
  BY <1>1, Modulo
<1>4. x = i + k
  BY DEF x
<1> QED  BY <1>1, <1>2, <1>3, <1>4

LEMMA FurtherNone ==
  ASSUME NEW W \in Nat, W > 0, NEW i \in 0 .. W - 1 PROVE Further(W, i, 0) = i
<1>1. 0 \in 0 .. W
  OBVIOUS
<1>2. Further(W, i, 0) = IF i + 0 < W THEN i + 0 ELSE i + 0 - W
  BY <1>1, FurtherIs
<1> QED  BY <1>2

LEMMA GapRange ==
  ASSUME NEW W \in Nat, W > 0, NEW i \in 0 .. W - 1, NEW j \in 0 .. W - 1
  PROVE  Gap(W, i, j) \in 0 .. W - 1 /\ (Gap(W, i, j) = 0 <=> i = j)
BY GapIs

(* The second of two positions moves away, the first one comes closer, the *)
(* second one goes back.                                                   *)
LEMMA SecondMoves ==
  ASSUME NEW W \in Nat, W > 0, NEW i \in 0 .. W - 1, NEW j \in 0 .. W - 1,
         NEW k \in Nat, Gap(W, i, j) + k < W
  PROVE  Further(W, j, k) \in 0 .. W - 1 /\ Gap(W, i, Further(W, j, k)) = Gap(W, i, j) + k
<1>1. Gap(W, i, j) = IF i <= j THEN j - i ELSE j + W - i
  BY GapIs
<1>2. k \in 0 .. W
  BY <1>1
<1>3. Further(W, j, k) = IF j + k < W THEN j + k ELSE j + k - W
  BY <1>2, FurtherIs
<1> DEFINE m == Further(W, j, k)
<1>4. m \in 0 .. W - 1 /\ m = IF j + k < W THEN j + k ELSE j + k - W
  BY <1>2, <1>3
<1> HIDE DEF m
<1>5. Gap(W, i, m) = IF i <= m THEN m - i ELSE m + W - i
  BY <1>4, GapIs
<1>6. Gap(W, i, m) = Gap(W, i, j) + k
  BY <1>1, <1>2, <1>4, <1>5
<1> QED  BY <1>4, <1>6 DEF m

LEMMA FirstMoves ==
  ASSUME NEW W \in Nat, W > 0, NEW i \in 0 .. W - 1, NEW j \in 0 .. W - 1,
         NEW k \in Nat, k <= Gap(W, i, j)
  PROVE  Further(W, i, k) \in 0 .. W - 1 /\ Gap(W, Further(W, i, k), j) = Gap(W, i, j) - k
<1>1. Gap(W, i, j) = IF i <= j THEN j - i ELSE j + W - i
  BY GapIs
<1>2. k \in 0 .. W
  BY <1>1
<1>3. Further(W, i, k) = IF i + k < W THEN i + k ELSE i + k - W
  BY <1>2, FurtherIs
<1> DEFINE m == Further(W, i, k)
<1>4. m \in 0 .. W - 1 /\ m = IF i + k < W THEN i + k ELSE i + k - W
  BY <1>2, <1>3
<1> HIDE DEF m
<1>5. Gap(W, m, j) = IF m <= j THEN j - m ELSE j + W - m
  BY <1>4, GapIs
<1>6. Gap(W, m, j) = Gap(W, i, j) - k
  BY <1>1, <1>2, <1>4, <1>5
<1> QED  BY <1>4, <1>6 DEF m

LEMMA SecondBack ==
  ASSUME NEW W \in Nat, W > 0, NEW i \in 0 .. W - 1, NEW j \in 0 .. W - 1, i # j
  PROVE  /\ Further(W, j, W - 1) \in 0 .. W - 1
         /\ Gap(W, i, Further(W, j, W - 1)) = Gap(W, i, j) - 1
<1>1. Gap(W, i, j) = IF i <= j THEN j - i ELSE j + W - i
  BY GapIs
<1>2. W - 1 \in 0 .. W
  OBVIOUS
<1>3. Further(W, j, W - 1) = IF j + (W - 1) < W THEN j + (W - 1) ELSE j + (W - 1) - W
  BY <1>2, FurtherIs
<1> DEFINE m == Further(W, j, W - 1)
<1>4. m \in 0 .. W - 1 /\ m = IF j = 0 THEN W - 1 ELSE j - 1
  BY <1>3
<1> HIDE DEF m
<1>5. Gap(W, i, m) = IF i <= m THEN m - i ELSE m + W - i
  BY <1>4, GapIs
<1>6. Gap(W, i, m) = Gap(W, i, j) - 1
  BY <1>1, <1>4, <1>5
<1> QED  BY <1>4, <1>6 DEF m

LEMMA GapAt ==
  ASSUME NEW W \in Nat, W > 0, NEW i \in 0 .. W - 1, NEW j \in 0 .. W - 1, NEW k \in 0 .. W - 1
  PROVE  j = Further(W, i, k) <=> Gap(W, i, j) = k
<1>1. Gap(W, i, j) = IF i <= j THEN j - i ELSE j + W - i
  BY GapIs
<1>2. k \in 0 .. W
  OBVIOUS
<1>3. Further(W, i, k) = IF i + k < W THEN i + k ELSE i + k - W
  BY <1>2, FurtherIs
<1> QED  BY <1>1, <1>3

-----------------------------------------------------------------------------
(* Pipes: who sleeps on one, and what is in it                             *)

PipeCalls == {"read", "read_sleep", "write", "write_sleep"}
Asked(p) ==
  /\ pc[p] \in {"read", "read_sleep"} => request[p] \in [pipe : Pipe, count : Nat]
  /\ pc[p] \in {"write", "write_sleep"} => request[p] \in [pipe : Pipe, bytes : Seq(Byte)]
PipeSleeper(p) ==
  /\ pc[p] = "read_sleep" =>
       /\ request[p].pipe \in writeopen
       /\ Empty(request[p].pipe) \/ request[p].pipe \in unannounced
  /\ pc[p] = "write_sleep" => request[p].pipe \in readopen /\ Full(request[p].pipe)
PipeInv == PipesTypeOK /\ \A p \in Process : Asked(p) /\ PipeSleeper(p)

LEMMA PipeFacts ==
  /\ PIPESIZE \in Nat /\ PIPESIZE > 0 /\ Wrap \in Nat /\ Wrap > 0 /\ PIPESIZE < Wrap
  /\ Byte # {} /\ Writes \subseteq Seq(Byte) /\ Counts \subseteq Nat
BY PipeAssumption

LEMMA FullAt ==
  ASSUME NEW i \in 0 .. Wrap - 1, NEW j \in 0 .. Wrap - 1
  PROVE  j = (i + PIPESIZE) % Wrap <=> Gap(Wrap, i, j) = PIPESIZE
<1>1. Wrap \in Nat /\ Wrap > 0 /\ PIPESIZE \in 0 .. Wrap - 1
  BY PipeFacts
<1>2. j = Further(Wrap, i, PIPESIZE) <=> Gap(Wrap, i, j) = PIPESIZE
  BY <1>1, GapAt
<1> QED  BY <1>2 DEF Further

LEMMA AmountIs ==
  ASSUME NEW q, nread[q] \in 0 .. Wrap - 1, nwrite[q] \in 0 .. Wrap - 1
  PROVE  /\ Amount(q) = Gap(Wrap, nread[q], nwrite[q]) /\ Amount(q) \in 0 .. Wrap - 1
         /\ Empty(q) <=> Amount(q) = 0
         /\ Full(q) <=> Amount(q) = PIPESIZE
<1>1. Amount(q) = Gap(Wrap, nread[q], nwrite[q])
  BY DEF Amount, Gap
<1>2. Gap(Wrap, nread[q], nwrite[q]) \in 0 .. Wrap - 1
      /\ (Gap(Wrap, nread[q], nwrite[q]) = 0 <=> nread[q] = nwrite[q])
  <2>1. Wrap \in Nat /\ Wrap > 0
    BY PipeFacts
  <2> QED  BY <2>1, GapRange
<1>3. Full(q) <=> Gap(Wrap, nread[q], nwrite[q]) = PIPESIZE
  BY FullAt DEF Full
<1> QED  BY <1>1, <1>2, <1>3 DEF Empty

(* A step that leaves pipes as they are and puts nobody to sleep on one    *)
PipeWaits == {"read_sleep", "write_sleep"}
LEMMA PipesKept ==
  ASSUME PipeInv, UNCHANGED pipeState,
         \A x \in Process : \/ pc'[x] = pc[x] /\ request'[x] = request[x]
                            \/ pc'[x] \notin PipeWaits /\ Asked(x)'
  PROVE  PipeInv'
<1>1. PipesTypeOK'
  BY DEF PipeInv, PipesTypeOK, pipeState, Amount
<1>2. ASSUME NEW x \in Process PROVE Asked(x)' /\ PipeSleeper(x)'
  <2>1. CASE pc'[x] = pc[x] /\ request'[x] = request[x]
    BY <2>1 DEF PipeInv, Asked, PipeSleeper, pipeState, Empty, Full
  <2>2. CASE pc'[x] \notin PipeWaits /\ Asked(x)'
    BY <2>2 DEF PipeWaits, PipeSleeper
  <2> QED  BY <2>1, <2>2
<1> QED  BY <1>1, <1>2 DEF PipeInv

(* Nobody is in a call on a pipe in the end who was not in it before.      *)
LEMMA PipesAside ==
  ASSUME PipeInv, UNCHANGED pipeState,
         \A x \in Process : \/ pc'[x] = pc[x] /\ request'[x] = request[x]
                            \/ pc'[x] \notin PipeCalls
                            \/ pc[x] = "read_sleep" /\ pc'[x] = "read" /\ request'[x] = request[x]
                            \/ pc[x] = "write_sleep" /\ pc'[x] = "write" /\ request'[x] = request[x]
  PROVE  PipeInv'
<1>1. ASSUME NEW x \in Process
      PROVE  \/ pc'[x] = pc[x] /\ request'[x] = request[x]
             \/ pc'[x] \notin PipeWaits /\ Asked(x)'
  BY DEF PipeWaits, PipeCalls, PipeInv, Asked
<1> QED  BY <1>1, PipesKept

LEMMA WokenAre ==
  ASSUME NEW q, NEW from, NEW to, NEW x \in Process
  PROVE  Woken(q, from, to)[x] = IF pc[x] = from /\ request[x].pipe = q THEN to ELSE pc[x]
BY DEF Woken

LEMMA PipesPipeclose ==
  ASSUME CallInv, PipeInv, NEW p \in Process, Pipeclose(p),
         NEW q, q = request[p].pipe, NEW b, b = request[p].writable
  PROVE  PipeInv'
<1>1. pc[p] = "pipeclose" /\ q \in Pipe /\ b \in BOOLEAN /\ DOMAIN request = Process
  BY DEF Pipeclose, CallInv, Shape, Kinds
<1>2. /\ writeopen' = IF b THEN writeopen \ {q} ELSE writeopen
      /\ readopen' = IF b THEN readopen ELSE readopen \ {q}
      /\ \E to \in {"user", "exiting", "pipefail"} : pc' = [CloseWakes(q, b) EXCEPT ![p] = to]
      /\ IF q \in readopen' \cup writeopen' THEN UNCHANGED <<data, nread, nwrite>> ELSE Freed(q)
      /\ unannounced' = (IF b THEN unannounced \ {q} ELSE unannounced)
      /\ request' = [request EXCEPT ![p] = NoRequest]
  BY Returns DEF Pipeclose
<1>3. /\ pc'[p] \notin PipeCalls
      /\ \A x \in Process \ {p} : request'[x] = request[x] /\ pc'[x] = CloseWakes(q, b)[x]
  BY <1>1, <1>2 DEF PipeCalls, CloseWakes, WakeReaders, WakeWriters, Woken
<1>4. PipesTypeOK'
  <2>1. CASE q \in readopen' \cup writeopen'
    BY <1>2, <2>1 DEF PipeInv, PipesTypeOK, Amount
  <2>2. CASE q \notin readopen' \cup writeopen'
    <3>1. Freed(q)
      BY <1>2, <2>2
    <3>2. EmptyData \in [0 .. PIPESIZE - 1 -> Byte] /\ 0 \in 0 .. Wrap - 1
      BY PipeFacts DEF EmptyData
    <3>3. /\ data' \in [Pipe -> [0 .. PIPESIZE - 1 -> Byte]]
          /\ nread' \in [Pipe -> 0 .. Wrap - 1] /\ nwrite' \in [Pipe -> 0 .. Wrap - 1]
      BY <3>1, <3>2 DEF Freed, PipeInv, PipesTypeOK
    <3>4. \A x \in Pipe \ {q} : Amount(x)' = Amount(x)
      BY <3>1 DEF Freed, Amount
    <3>5. Amount(q)' = 0
      <4>1. nread'[q] = 0 /\ nwrite'[q] = 0
        BY <1>1, <3>1 DEF Freed, PipeInv, PipesTypeOK
      <4>2. Gap(Wrap, 0, 0) = 0
        BY PipeFacts, GapIs
      <4>3. Amount(q)' = Gap(Wrap, nread'[q], nwrite'[q])
        BY DEF Amount, Gap
      <4> QED  BY <4>1, <4>2, <4>3
    <3>6. /\ readopen' \subseteq Pipe /\ writeopen' \subseteq Pipe /\ unannounced' \subseteq Pipe
      BY <1>2 DEF PipeInv, PipesTypeOK
    <3>7. ASSUME NEW x \in Pipe PROVE Amount(x)' <= PIPESIZE
      <4>1. CASE x = q
        <5>1. 0 <= PIPESIZE
          BY PipeFacts
        <5> QED  BY <3>5, <4>1, <5>1
      <4>2. CASE x # q
        <5>1. Amount(x)' = Amount(x) /\ Amount(x) <= PIPESIZE
          BY <3>4, <4>2 DEF PipeInv, PipesTypeOK
        <5> QED  BY <5>1
      <4> QED  BY <4>1, <4>2
    <3> QED  BY <3>3, <3>6, <3>7 DEF PipesTypeOK
  <2> QED  BY <2>1, <2>2
<1>5. ASSUME NEW x \in Process \ {p} PROVE Asked(x)' /\ PipeSleeper(x)'
  <2>1. request'[x] = request[x] /\ pc'[x] = CloseWakes(q, b)[x]
    BY <1>3
  <2>2. \/ pc'[x] = pc[x]
           /\ ~(pc[x] = (IF b THEN "read_sleep" ELSE "write_sleep") /\ request[x].pipe = q)
        \/ pc[x] = "read_sleep" /\ pc'[x] = "read"
        \/ pc[x] = "write_sleep" /\ pc'[x] = "write"
    BY <1>1, <2>1, WokenAre DEF CloseWakes, WakeReaders, WakeWriters
  <2>3. Asked(x)'
    BY <2>1, <2>2 DEF PipeInv, Asked
  <2>4. ASSUME pc'[x] \in PipeWaits PROVE PipeSleeper(x)'
    <3> SUFFICES ASSUME NEW s, s = request[x].pipe PROVE PipeSleeper(x)'
      OBVIOUS
    <3>1. pc'[x] = pc[x] /\ PipeSleeper(x) /\ s \in Pipe
      BY <2>2, <2>4 DEF PipeWaits, PipeInv, Asked
    <3>2. CASE s # q
      <4>1. /\ s \in writeopen' <=> s \in writeopen
            /\ s \in readopen' <=> s \in readopen
            /\ s \in unannounced' <=> s \in unannounced
            /\ nread'[s] = nread[s] /\ nwrite'[s] = nwrite[s]
        BY <1>1, <1>2, <3>1, <3>2 DEF Freed, PipeInv, PipesTypeOK
      <4> QED  BY <2>1, <3>1, <4>1 DEF PipeSleeper, Empty, Full
    <3>3. CASE s = q
      <4>1. CASE b
        <5>1. pc[x] = "write_sleep" /\ q \in readopen'
          BY <1>2, <2>2, <2>4, <3>1, <3>3, <4>1 DEF PipeSleeper, PipeWaits
        <5>2. UNCHANGED <<data, nread, nwrite>>
          BY <1>2, <5>1
        <5> QED  BY <2>1, <3>1, <3>3, <5>1, <5>2 DEF PipeSleeper, Full
      <4>2. CASE ~b
        <5>1. pc[x] = "read_sleep" /\ q \in writeopen'
          BY <1>2, <2>2, <2>4, <3>1, <3>3, <4>2 DEF PipeSleeper, PipeWaits
        <5>2. UNCHANGED <<data, nread, nwrite, unannounced>>
          BY <1>2, <4>2, <5>1
        <5> QED  BY <2>1, <3>1, <3>3, <5>1, <5>2 DEF PipeSleeper, Empty
      <4> QED  BY <4>1, <4>2
    <3> QED  BY <3>2, <3>3
  <2> QED  BY <2>3, <2>4 DEF PipeSleeper, PipeWaits
<1>6. Asked(p)' /\ PipeSleeper(p)'
  BY <1>3 DEF Asked, PipeSleeper, PipeCalls
<1> QED  BY <1>4, <1>5, <1>6 DEF PipeInv

(* The bytes that pipewrite() copies at once fill the pipe or are all.     *)
LEMMA FitsIs ==
  ASSUME PipesTypeOK, NEW q \in Pipe, NEW s \in Seq(Byte), NEW k, k = Fits(q, s)
  PROVE  /\ k \in 0 .. Len(s) /\ k <= PIPESIZE - Amount(q)
         /\ SubSeq(s, k + 1, Len(s)) \in Seq(Byte)
         /\ SubSeq(s, k + 1, Len(s)) # <<>> => k = PIPESIZE - Amount(q)
<1>1. Amount(q) \in Nat /\ Amount(q) <= PIPESIZE /\ PIPESIZE \in Nat
  <2>1. nread[q] \in 0 .. Wrap - 1 /\ nwrite[q] \in 0 .. Wrap - 1 /\ Amount(q) <= PIPESIZE
    BY DEF PipesTypeOK
  <2>2. Amount(q) \in 0 .. Wrap - 1
    BY <2>1, AmountIs
  <2> QED  BY <2>1, <2>2, PipeFacts
<1>2. Len(s) \in Nat /\ PIPESIZE - Amount(q) \in Nat
  BY <1>1
<1>3. k \in {Len(s), PIPESIZE - Amount(q)} /\ k <= Len(s) /\ k <= PIPESIZE - Amount(q)
  BY <1>2, LeastOfTwo DEF Fits
<1>4. k \in 0 .. Len(s)
  BY <1>1, <1>2, <1>3
<1>5. SubSeq(s, k + 1, Len(s)) \in Seq(Byte)
  BY <1>4
<1>6. k = Len(s) => SubSeq(s, k + 1, Len(s)) = <<>>
  OBVIOUS
<1> QED  BY <1>3, <1>4, <1>5, <1>6

LEMMA FilledIs ==
  ASSUME PipesTypeOK, NEW q \in Pipe, NEW s \in Seq(Byte), NEW k \in 0 .. Len(s)
  PROVE  Filled(q, s, k) \in [0 .. PIPESIZE - 1 -> Byte]
<1>1. ASSUME NEW j \in 0 .. PIPESIZE - 1
      PROVE  Filled(q, s, k)[j] \in Byte
  <2>1. CASE \E i \in 1 .. k : (nwrite[q] + i - 1) % PIPESIZE = j
    <3> DEFINE i == CHOOSE i \in 1 .. k : (nwrite[q] + i - 1) % PIPESIZE = j
    <3>1. i \in 1 .. k
      BY <2>1
    <3>2. Filled(q, s, k)[j] = s[i]
      BY <2>1 DEF Filled
    <3> HIDE DEF i
    <3> QED  BY <3>1, <3>2
  <2>2. CASE ~\E i \in 1 .. k : (nwrite[q] + i - 1) % PIPESIZE = j
    BY <2>2 DEF Filled, PipesTypeOK
  <2> QED  BY <2>1, <2>2
<1> QED  BY <1>1 DEF Filled

(* pipewrite() as the others see it                                        *)
WriteEnds(p, q, k) ==
  \/ /\ pc'[p] = "user" /\ \A x \in Process \ {p} : pc'[x] = WakeReaders(q)[x]
     /\ unannounced' = unannounced \ {q}
  \/ /\ pc'[p] = "user" /\ \A x \in Process \ {p} : pc'[x] = pc[x]
     /\ unannounced' = IF k > 0 THEN unannounced \cup {q} ELSE unannounced
  \/ /\ pc'[p] = "write_sleep" /\ \A x \in Process \ {p} : pc'[x] = WakeReaders(q)[x]
     /\ request'[p] \in [pipe : Pipe, bytes : Seq(Byte)] /\ request'[p].pipe = q
     /\ k = PIPESIZE - Amount(q) /\ q \in readopen
     /\ unannounced' = unannounced \ {q}
LEMMA PipewriteIs ==
  ASSUME CallInv, PipeInv, NEW p \in Process, Pipewrite(p),
         NEW q, q = request[p].pipe, NEW s, s = request[p].bytes, NEW k, k = Fits(q, s)
  PROVE  /\ q \in Pipe /\ s \in Seq(Byte) /\ k \in 0 .. Len(s) /\ k <= PIPESIZE - Amount(q)
         /\ data' = [data EXCEPT ![q] = Filled(q, s, k)]
         /\ nwrite' = [nwrite EXCEPT ![q] = Further(Wrap, @, k)]
         /\ UNCHANGED <<nread, readopen, writeopen>>
         /\ WriteEnds(p, q, k)
         /\ \A x \in Process \ {p} : request'[x] = request[x]
<1>1. pc[p] = "write" /\ pc \in [Process -> Label] /\ DOMAIN request = Process
  BY DEF Pipewrite, CallInv, Kinds
<1>2. request[p] \in [pipe : Pipe, bytes : Seq(Byte)]
  BY <1>1 DEF PipeInv, Asked
<1>3. q \in Pipe /\ s \in Seq(Byte) /\ request[p] = [pipe |-> q, bytes |-> s]
  BY <1>2
<1> DEFINE rest == SubSeq(s, k + 1, Len(s))
<1>4. /\ k \in 0 .. Len(s) /\ k <= PIPESIZE - Amount(q) /\ rest \in Seq(Byte)
      /\ rest # <<>> => k = PIPESIZE - Amount(q)
  BY <1>3, FitsIs DEF PipeInv
<1>5. /\ data' = [data EXCEPT ![q] = Filled(q, s, k)]
      /\ nwrite' = [nwrite EXCEPT ![q] = (@ + k) % Wrap]
      /\ \/ /\ pc' = [WakeReaders(q) EXCEPT ![p] = "user"]
            /\ request' = [request EXCEPT ![p] = NoRequest]
            /\ unannounced' = unannounced \ {q}
         \/ /\ pc' = [pc EXCEPT ![p] = "user"]
            /\ request' = [request EXCEPT ![p] = NoRequest]
            /\ unannounced' = IF k > 0 THEN unannounced \cup {q} ELSE unannounced
         \/ /\ rest # <<>> /\ q \in readopen
            /\ pc' = [WakeReaders(q) EXCEPT ![p] = "write_sleep"]
            /\ request' = [request EXCEPT ![p] = [@ EXCEPT !.bytes = rest]]
            /\ unannounced' = unannounced \ {q}
      /\ UNCHANGED <<nread, readopen, writeopen>>
  BY DEF Pipewrite
<1> DEFINE y == [request[p] EXCEPT !.bytes = rest]
<1>6. y.pipe = q /\ y \in [pipe : Pipe, bytes : Seq(Byte)]
  BY <1>2, <1>3, <1>4
<1>7. nwrite' = [nwrite EXCEPT ![q] = Further(Wrap, @, k)]
  BY <1>5 DEF Further
<1> HIDE DEF rest, y
<1>8. /\ DOMAIN WakeReaders(q) = Process
      /\ \A x \in Process \ {p} : request'[x] = request[x]
  BY <1>1, <1>5 DEF WakeReaders, Woken
<1>9. WriteEnds(p, q, k)
  BY <1>1, <1>4, <1>5, <1>6, <1>8 DEF WriteEnds, y
<1> QED  BY <1>3, <1>4, <1>5, <1>7, <1>8, <1>9

LEMMA PipesPipewrite ==
  ASSUME CallInv, PipeInv, NEW p \in Process, Pipewrite(p) PROVE PipeInv'
<1> SUFFICES ASSUME NEW q, q = request[p].pipe, NEW s, s = request[p].bytes,
                    NEW k, k = Fits(q, s)
             PROVE  PipeInv'
  OBVIOUS
<1>1. /\ q \in Pipe /\ s \in Seq(Byte) /\ k \in 0 .. Len(s) /\ k <= PIPESIZE - Amount(q)
      /\ data' = [data EXCEPT ![q] = Filled(q, s, k)]
      /\ nwrite' = [nwrite EXCEPT ![q] = Further(Wrap, @, k)]
      /\ UNCHANGED <<nread, readopen, writeopen>>
      /\ WriteEnds(p, q, k)
      /\ \A x \in Process \ {p} : request'[x] = request[x]
  BY PipewriteIs
<1>2. PipesTypeOK /\ Filled(q, s, k) \in [0 .. PIPESIZE - 1 -> Byte]
  BY <1>1, FilledIs DEF PipeInv
<1>3. /\ nread[q] \in 0 .. Wrap - 1 /\ nwrite[q] \in 0 .. Wrap - 1 /\ k \in Nat
      /\ Amount(q) \in Nat /\ Amount(q) = Gap(Wrap, nread[q], nwrite[q])
      /\ Gap(Wrap, nread[q], nwrite[q]) + k < Wrap
  <2>1. nread[q] \in 0 .. Wrap - 1 /\ nwrite[q] \in 0 .. Wrap - 1
    BY <1>1, <1>2 DEF PipesTypeOK
  <2>2. Amount(q) = Gap(Wrap, nread[q], nwrite[q]) /\ Amount(q) \in 0 .. Wrap - 1
    BY <2>1, AmountIs
  <2> QED  BY <1>1, <2>1, <2>2, PipeFacts
<1>4. /\ Further(Wrap, nwrite[q], k) \in 0 .. Wrap - 1
      /\ Gap(Wrap, nread[q], Further(Wrap, nwrite[q], k)) = Gap(Wrap, nread[q], nwrite[q]) + k
  BY <1>3, PipeFacts, SecondMoves
<1>5. nwrite'[q] \in 0 .. Wrap - 1 /\ nread'[q] \in 0 .. Wrap - 1 /\ Amount(q)' = Amount(q) + k
  <2>1. nwrite'[q] = Further(Wrap, nwrite[q], k) /\ nread'[q] = nread[q]
    BY <1>1, <1>2 DEF PipesTypeOK
  <2>2. Amount(q)' = Gap(Wrap, nread'[q], nwrite'[q])
    BY DEF Amount, Gap
  <2> QED  BY <1>3, <1>4, <2>1, <2>2
<1>6. \A x \in Pipe \ {q} : nwrite'[x] = nwrite[x] /\ nread'[x] = nread[x] /\ Amount(x)' = Amount(x)
  BY <1>1, <1>2 DEF PipesTypeOK, Amount
<1>7. PipesTypeOK'
  <2>1. data' \in [Pipe -> [0 .. PIPESIZE - 1 -> Byte]]
    BY <1>1, <1>2 DEF PipesTypeOK
  <2>2. nread' \in [Pipe -> 0 .. Wrap - 1] /\ nwrite' \in [Pipe -> 0 .. Wrap - 1]
    BY <1>1, <1>2, <1>4 DEF PipesTypeOK
  <2>3. readopen' \subseteq Pipe /\ writeopen' \subseteq Pipe /\ unannounced' \subseteq Pipe
    BY <1>1, <1>2 DEF PipesTypeOK, WriteEnds
  <2>4. ASSUME NEW x \in Pipe PROVE Amount(x)' <= PIPESIZE
    <3>1. CASE x = q
      <4>1. Amount(q) + k <= PIPESIZE
        BY <1>1, <1>3, PipeFacts
      <4> QED  BY <1>5, <3>1, <4>1
    <3>2. CASE x # q
      <4>1. Amount(x)' = Amount(x) /\ Amount(x) <= PIPESIZE
        BY <1>2, <1>6, <3>2 DEF PipesTypeOK
      <4> QED  BY <4>1
    <3> QED  BY <3>1, <3>2
  <2> QED  BY <2>1, <2>2, <2>3, <2>4 DEF PipesTypeOK
<1>8. /\ Full(q)' <=> Amount(q)' = PIPESIZE
      /\ Full(q) <=> Amount(q) = PIPESIZE
      /\ k = 0 => (Empty(q)' <=> Empty(q))
  <2>1. Full(q)' <=> Amount(q)' = PIPESIZE
    <3>1. Amount(q)' = Gap(Wrap, nread'[q], nwrite'[q])
      BY DEF Amount, Gap
    <3> QED  BY <1>5, <3>1, FullAt DEF Full
  <2>2. Full(q) <=> Amount(q) = PIPESIZE
    BY <1>3, AmountIs
  <2>3. k = 0 => nwrite'[q] = nwrite[q] /\ nread'[q] = nread[q]
    <3>1. ASSUME k = 0 PROVE Further(Wrap, nwrite[q], k) = nwrite[q]
      BY <1>3, <3>1, PipeFacts, FurtherNone
    <3> QED  BY <1>1, <1>2, <3>1 DEF PipesTypeOK
  <2> QED  BY <2>1, <2>2, <2>3 DEF Empty
<1>9. ASSUME NEW x \in Process \ {p} PROVE Asked(x)' /\ PipeSleeper(x)'
  <2>1. request'[x] = request[x]
    BY <1>1
  <2> DEFINE on == WakeReaders(q)[x]
  <2>0. on = IF pc[x] = "read_sleep" /\ request[x].pipe = q THEN "read" ELSE pc[x]
    BY WokenAre DEF WakeReaders
  <2> HIDE DEF on
  <2>2. \/ pc'[x] = pc[x]
        \/ pc[x] = "read_sleep" /\ pc'[x] = "read"
    BY <1>1, <2>0 DEF on, WriteEnds
  <2>3. Asked(x)'
    BY <2>1, <2>2 DEF PipeInv, Asked
  <2>4. ASSUME NEW t, t = request[x].pipe, pc'[x] \in PipeWaits PROVE PipeSleeper(x)'
    <3>1. pc'[x] = pc[x] /\ PipeSleeper(x) /\ t \in Pipe
      BY <2>2, <2>4 DEF PipeWaits, PipeInv, Asked
    <3>2. CASE t # q
      <4>1. /\ t \in unannounced' <=> t \in unannounced
            /\ nread'[t] = nread[t] /\ nwrite'[t] = nwrite[t]
        BY <1>1, <1>6, <3>1, <3>2 DEF WriteEnds
      <4> QED  BY <1>1, <2>1, <2>4, <3>1, <4>1 DEF PipeSleeper, Empty, Full
    <3>3. CASE t = q /\ pc[x] = "write_sleep"
      <4>1. Full(q) /\ q \in readopen
        BY <2>4, <3>1, <3>3 DEF PipeSleeper
      <4>2. k = 0 /\ Amount(q)' = PIPESIZE
        BY <1>1, <1>3, <1>5, <1>8, <4>1, PipeFacts
      <4>3. Full(q)'
        BY <1>8, <4>2
      <4> QED  BY <1>1, <2>1, <2>4, <3>1, <3>3, <4>1, <4>3 DEF PipeSleeper
    <3>4. CASE t = q /\ pc[x] = "read_sleep"
      <4>1. q \in writeopen /\ (Empty(q) \/ q \in unannounced)
        BY <2>4, <3>1, <3>4 DEF PipeSleeper
      <4>2. unannounced' = (IF k > 0 THEN unannounced \cup {q} ELSE unannounced)
        BY <1>1, <2>0, <2>4, <3>1, <3>4 DEF on, WriteEnds
      <4>3. CASE k > 0
        <5>1. q \in unannounced'
          BY <4>2, <4>3
        <5> QED  BY <1>1, <2>1, <2>4, <3>1, <3>4, <4>1, <5>1 DEF PipeSleeper
      <4>4. CASE k = 0
        <5>1. unannounced' = unannounced
          BY <4>2, <4>4
        <5>2. Empty(q)' \/ q \in unannounced'
          BY <1>8, <4>1, <4>4, <5>1
        <5> QED  BY <1>1, <2>1, <2>4, <3>1, <3>4, <4>1, <5>2 DEF PipeSleeper
      <4> QED  BY <1>1, <4>3, <4>4
    <3> QED  BY <2>4, <3>1, <3>2, <3>3, <3>4 DEF PipeWaits
  <2> QED  BY <2>3, <2>4 DEF PipeSleeper, PipeWaits
<1>10. Asked(p)' /\ PipeSleeper(p)'
  <2>1. CASE pc'[p] = "user"
    BY <2>1 DEF Asked, PipeSleeper
  <2>2. CASE pc'[p] = "write_sleep"
    <3>1. /\ request'[p] \in [pipe : Pipe, bytes : Seq(Byte)] /\ request'[p].pipe = q
          /\ k = PIPESIZE - Amount(q) /\ q \in readopen
      BY <1>1, <2>2 DEF WriteEnds
    <3>2. Amount(q)' = PIPESIZE
      BY <1>3, <1>5, <3>1, PipeFacts
    <3>3. Full(q)'
      BY <1>8, <3>2
    <3> QED  BY <1>1, <2>2, <3>1, <3>3 DEF Asked, PipeSleeper
  <2> QED  BY <1>1, <2>1, <2>2 DEF WriteEnds
<1> QED  BY <1>7, <1>9, <1>10 DEF PipeInv

LEMMA PipesPipereadSleeps ==
  ASSUME CallInv, PipeInv, NEW p \in Process, PipereadSleeps(p) \/ PipereadFails(p) PROVE PipeInv'
<1>1. /\ UNCHANGED pipeState /\ pc[p] = "read" /\ DOMAIN request = Process
      /\ \A x \in Process \ {p} : pc'[x] = pc[x] /\ request'[x] = request[x]
  BY DEF PipereadSleeps, PipereadFails, pipeVars, CallInv, Kinds
<1>2. CASE PipereadFails(p)
  <2>1. pc'[p] = "user"
    BY <1>2 DEF PipereadFails, CallInv, Kinds
  <2>2. \A x \in Process :
          \/ pc'[x] = pc[x] /\ request'[x] = request[x]
          \/ pc'[x] \notin PipeWaits /\ Asked(x)'
    BY <1>1, <2>1 DEF Asked, PipeWaits
  <2> QED  BY ONLY PipeInv, <1>1, <2>2, PipesKept
<1>3. CASE PipereadSleeps(p)
  <2>1. /\ pc'[p] = "read_sleep" /\ request' = request
        /\ Empty(request[p].pipe) /\ request[p].pipe \in writeopen
    BY <1>3 DEF PipereadSleeps, pipeVars, MustWaitForBytes, CallInv, Kinds
  <2>2. PipesTypeOK'
    BY <1>1 DEF PipeInv, PipesTypeOK, pipeState, Amount
  <2>3. ASSUME NEW x \in Process PROVE Asked(x)' /\ PipeSleeper(x)'
    <3>1. CASE x = p
      BY <1>1, <2>1, <3>1 DEF PipeInv, Asked, PipeSleeper, pipeState, Empty, Full
    <3>2. CASE x # p
      BY <1>1, <2>1, <3>2 DEF PipeInv, Asked, PipeSleeper, pipeState, Empty, Full
    <3> QED  BY <3>1, <3>2
  <2> QED  BY <2>2, <2>3 DEF PipeInv
<1> QED  BY <1>2, <1>3

LEMMA PipesPiperead ==
  ASSUME CallInv, PipeInv, NEW p \in Process, Piperead(p) PROVE PipeInv'
<1> SUFFICES ASSUME NEW q, q = request[p].pipe, NEW k, k = Taken(q, request[p].count)
             PROVE  PipeInv'
  OBVIOUS
<1>1. /\ pc[p] = "read" /\ ~(Empty(q) /\ q \in writeopen) /\ DOMAIN request = Process
      /\ nread' = [nread EXCEPT ![q] = Further(Wrap, @, k)]
      /\ pc' = [WakeWriters(q) EXCEPT ![p] = "user"]
      /\ request' = [request EXCEPT ![p] = NoRequest]
      /\ UNCHANGED <<data, nwrite, readopen, writeopen, unannounced>>
  BY DEF Piperead, MustWaitForBytes, CallInv, Kinds, Further
<1>2. PipesTypeOK /\ q \in Pipe /\ request[p].count \in Nat
  BY <1>1 DEF PipeInv, Asked
<1>3. nread[q] \in 0 .. Wrap - 1 /\ nwrite[q] \in 0 .. Wrap - 1 /\ Amount(q) <= PIPESIZE
  BY <1>2 DEF PipesTypeOK
<1>4. Amount(q) = Gap(Wrap, nread[q], nwrite[q]) /\ Amount(q) \in 0 .. Wrap - 1
  BY <1>3, AmountIs
<1>5. k \in Nat /\ k <= Gap(Wrap, nread[q], nwrite[q])
  <2>1. Amount(q) \in Nat
    BY <1>4
  <2> QED  BY <1>2, <1>4, <2>1, LeastOfTwo DEF Taken
<1>6. /\ Further(Wrap, nread[q], k) \in 0 .. Wrap - 1
      /\ Gap(Wrap, Further(Wrap, nread[q], k), nwrite[q]) = Gap(Wrap, nread[q], nwrite[q]) - k
  <2>1. Wrap \in Nat /\ Wrap > 0
    BY PipeFacts
  <2> QED  BY <1>3, <1>5, <2>1, FirstMoves
<1>7. Amount(q)' = Amount(q) - k
  <2>1. nread'[q] = Further(Wrap, nread[q], k) /\ nwrite'[q] = nwrite[q]
    BY <1>1, <1>2 DEF PipesTypeOK
  <2>2. Amount(q)' = Gap(Wrap, nread'[q], nwrite'[q])
    BY DEF Amount, Gap
  <2> QED  BY <1>4, <1>6, <2>1, <2>2
<1>8. PipesTypeOK'
  <2>1. /\ data' \in [Pipe -> [0 .. PIPESIZE - 1 -> Byte]]
        /\ nread' \in [Pipe -> 0 .. Wrap - 1] /\ nwrite' \in [Pipe -> 0 .. Wrap - 1]
    BY <1>1, <1>2, <1>6 DEF PipesTypeOK
  <2>2. readopen' \subseteq Pipe /\ writeopen' \subseteq Pipe /\ unannounced' \subseteq Pipe
    BY <1>1, <1>2 DEF PipesTypeOK
  <2>3. ASSUME NEW x \in Pipe PROVE Amount(x)' <= PIPESIZE
    <3>1. CASE x = q
      <4>1. Amount(q) - k <= PIPESIZE
        BY <1>3, <1>4, <1>5, PipeFacts
      <4> QED  BY <1>7, <3>1, <4>1
    <3>2. CASE x # q
      <4>1. Amount(x)' = Amount(x) /\ Amount(x) <= PIPESIZE
        BY <1>1, <1>2, <3>2 DEF PipesTypeOK, Amount
      <4> QED  BY <4>1
    <3> QED  BY <3>1, <3>2
  <2> QED  BY <2>1, <2>2, <2>3 DEF PipesTypeOK
<1>9. ASSUME NEW x \in Process \ {p} PROVE Asked(x)' /\ PipeSleeper(x)'
  <2> DEFINE on == WakeWriters(q)[x]
  <2>1. on = IF pc[x] = "write_sleep" /\ request[x].pipe = q THEN "write" ELSE pc[x]
    BY WokenAre DEF WakeWriters
  <2>2. request'[x] = request[x] /\ pc'[x] = on
    BY <1>1 DEF WakeWriters, Woken
  <2> HIDE DEF on
  <2>3. Asked(x)'
    BY <2>1, <2>2 DEF PipeInv, Asked
  <2>4. ASSUME NEW t, t = request[x].pipe, pc'[x] \in PipeWaits PROVE PipeSleeper(x)'
    <3>1. pc'[x] = pc[x] /\ PipeSleeper(x) /\ t \in Pipe
      BY <2>1, <2>2, <2>4 DEF PipeWaits, PipeInv, Asked
    <3>2. CASE t # q
      <4>1. nread'[t] = nread[t] /\ nwrite'[t] = nwrite[t]
        BY <1>1, <1>2, <3>1, <3>2 DEF PipesTypeOK
      <4> QED  BY <1>1, <2>2, <2>4, <3>1, <4>1 DEF PipeSleeper, Empty, Full
    <3>3. CASE t = q
      <4>1. pc[x] = "read_sleep"
        BY <2>1, <2>2, <2>4, <3>3 DEF PipeWaits
      <4>2. q \in writeopen /\ q \in unannounced
        BY <1>1, <2>4, <3>1, <3>3, <4>1 DEF PipeSleeper
      <4> QED  BY <1>1, <2>2, <2>4, <3>1, <3>3, <4>1, <4>2 DEF PipeSleeper
    <3> QED  BY <3>2, <3>3
  <2> QED  BY <2>3, <2>4 DEF PipeSleeper, PipeWaits
<1>10. Asked(p)' /\ PipeSleeper(p)'
  <2>1. pc'[p] = "user"
    BY <1>1 DEF WakeWriters, Woken
  <2> QED  BY <2>1 DEF Asked, PipeSleeper
<1> QED  BY <1>8, <1>9, <1>10 DEF PipeInv

(* Where pipe() gets its page, it goes back to the program or on to the    *)
(* cleanup.                                                                *)
TakesPage(p) == PipeMade(p) \/ PipeNoFds(p)

LEMMA PageTaken ==
  ASSUME CallInv, NEW p \in Process, TakesPage(p)
  PROVE  /\ pc[p] = "pipealloc" /\ FreeFiles # {} /\ Pipealloc(Rf(p), Least(FreeFiles))
         /\ \E to \in {"user", "pipefail"} : pc' = [pc EXCEPT ![p] = to]
         /\ UNCHANGED consoleVars
         /\ \A x \in Process \ {p} : ofile'[x] = ofile[x]
BY DEF TakesPage, PipeMade, PipeNoFds, Move, Rf, CallInv, Kinds

(* A new pipe is empty, and nobody sleeps on a page that was not a pipe.   *)
LEMMA PipesPipeMade ==
  ASSUME CallInv, PipeInv, NEW p \in Process, TakesPage(p) PROVE PipeInv'
<1>1. PICK q \in Pipe :
        /\ q \notin readopen \cup writeopen
        /\ readopen' = readopen \cup {q} /\ writeopen' = writeopen \cup {q}
        /\ nread' = [nread EXCEPT ![q] = 0] /\ nwrite' = [nwrite EXCEPT ![q] = 0]
        /\ UNCHANGED <<data, unannounced, request>>
  BY PageTaken DEF Pipealloc, CreatePipe, Allocated
<1>2. /\ pc[p] = "pipealloc" /\ pc'[p] \in {"user", "pipefail"}
      /\ \A x \in Process \ {p} : pc'[x] = pc[x]
  BY PageTaken DEF CallInv, Kinds
<1>3. PipesTypeOK
  BY DEF PipeInv
<1>4. PipesTypeOK'
  <2>1. /\ data' \in [Pipe -> [0 .. PIPESIZE - 1 -> Byte]]
        /\ nread' \in [Pipe -> 0 .. Wrap - 1] /\ nwrite' \in [Pipe -> 0 .. Wrap - 1]
    BY <1>1, <1>3, PipeFacts DEF PipesTypeOK
  <2>2. readopen' \subseteq Pipe /\ writeopen' \subseteq Pipe /\ unannounced' \subseteq Pipe
    BY <1>1, <1>3 DEF PipesTypeOK
  <2>3. ASSUME NEW x \in Pipe PROVE Amount(x)' <= PIPESIZE
    <3>1. CASE x = q
      <4>1. nread'[q] = 0 /\ nwrite'[q] = 0
        BY <1>1, <1>3 DEF PipesTypeOK
      <4>2. Gap(Wrap, 0, 0) = 0
        BY PipeFacts, GapIs
      <4>3. Amount(x)' = Gap(Wrap, nread'[x], nwrite'[x])
        BY DEF Amount, Gap
      <4> QED  BY <3>1, <4>1, <4>2, <4>3, PipeFacts
    <3>2. CASE x # q
      <4>1. Amount(x)' = Amount(x) /\ Amount(x) <= PIPESIZE
        BY <1>1, <1>3, <3>2 DEF PipesTypeOK, Amount
      <4> QED  BY <4>1
    <3> QED  BY <3>1, <3>2
  <2> QED  BY <2>1, <2>2, <2>3 DEF PipesTypeOK
<1>5. ASSUME NEW x \in Process PROVE Asked(x)' /\ PipeSleeper(x)'
  <2>1. CASE x = p
    BY <1>2, <2>1 DEF Asked, PipeSleeper
  <2>2. CASE x # p
    <3>1. pc'[x] = pc[x] /\ request'[x] = request[x]
      BY <1>1, <1>2, <2>2
    <3>2. Asked(x)'
      BY <3>1 DEF PipeInv, Asked
    <3>3. ASSUME NEW t, t = request[x].pipe, pc'[x] \in PipeWaits PROVE PipeSleeper(x)'
      <4>1. PipeSleeper(x) /\ t \in Pipe /\ t \in readopen \cup writeopen
        BY <3>1, <3>3 DEF PipeInv, Asked, PipeSleeper, PipeWaits
      <4>2. t # q
        BY <1>1, <4>1
      <4>3. nread'[t] = nread[t] /\ nwrite'[t] = nwrite[t]
        BY <1>1, <1>3, <4>1, <4>2 DEF PipesTypeOK
      <4> QED  BY <1>1, <3>1, <3>3, <4>1, <4>3 DEF PipeSleeper, Empty, Full
    <3> QED  BY <3>2, <3>3 DEF PipeSleeper, PipeWaits
  <2> QED  BY <2>1, <2>2
<1> QED  BY <1>4, <1>5 DEF PipeInv

-----------------------------------------------------------------------------
(* The console: where its indices are, and who waits for a line            *)

Ring ==
  /\ Distance(r, w) + Distance(w, e) = Distance(r, e) /\ Distance(r, e) <= INPUT_BUF
  /\ Distance(r, e) = INPUT_BUF => w = e
ConsoleInv ==
  /\ ConsoleTypeOK /\ Ring
  /\ \A p \in Process : pc[p] = "cread_sleep" => r = w

RingIndex == 0 .. InputWrap - 1

LEMMA ConsoleFacts ==
  /\ INPUT_BUF \in Nat /\ INPUT_BUF > 0 /\ InputWrap \in Nat /\ InputWrap > 0
  /\ INPUT_BUF < InputWrap
BY ConsoleAssumption

LEMMA WrapFacts == InputWrap \in Nat /\ InputWrap > 0
BY ConsoleFacts

LEMMA DistanceIs ==
  ASSUME NEW i \in RingIndex, NEW j \in RingIndex
  PROVE  /\ Distance(i, j) = Gap(InputWrap, i, j) /\ Distance(i, j) \in Nat
         /\ Distance(i, j) < InputWrap
         /\ Distance(i, j) = 0 <=> i = j
<1>1. Distance(i, j) = Gap(InputWrap, i, j)
  BY DEF Distance, Gap
<1>2. Gap(InputWrap, i, j) \in 0 .. InputWrap - 1 /\ (Gap(InputWrap, i, j) = 0 <=> i = j)
  BY WrapFacts, GapRange DEF RingIndex
<1> QED  BY <1>1, <1>2, WrapFacts

(* Distances from i, when j moves on by k, when i does, when j goes back   *)
LEMMA DistanceOn ==
  ASSUME NEW i \in RingIndex, NEW j \in RingIndex, NEW k \in Nat, Distance(i, j) + k < InputWrap
  PROVE  Later(j, k) \in RingIndex /\ Distance(i, Later(j, k)) = Distance(i, j) + k
<1>1. Distance(i, j) = Gap(InputWrap, i, j) /\ Later(j, k) = Further(InputWrap, j, k)
  BY DEF Distance, Gap, Later, Further
<1>2. Gap(InputWrap, i, j) + k < InputWrap
  BY <1>1
<1>3. /\ Further(InputWrap, j, k) \in 0 .. InputWrap - 1
      /\ Gap(InputWrap, i, Further(InputWrap, j, k)) = Gap(InputWrap, i, j) + k
  BY <1>2, WrapFacts, SecondMoves DEF RingIndex
<1>4. Distance(i, Later(j, k)) = Gap(InputWrap, i, Later(j, k))
  BY DEF Distance, Gap
<1> QED  BY <1>1, <1>3, <1>4 DEF RingIndex

LEMMA DistanceLess ==
  ASSUME NEW i \in RingIndex, NEW j \in RingIndex, NEW k \in Nat, k <= Distance(i, j)
  PROVE  Later(i, k) \in RingIndex /\ Distance(Later(i, k), j) = Distance(i, j) - k
<1>1. Distance(i, j) = Gap(InputWrap, i, j) /\ Later(i, k) = Further(InputWrap, i, k)
  BY DEF Distance, Gap, Later, Further
<1>2. k <= Gap(InputWrap, i, j)
  BY <1>1
<1>3. /\ Further(InputWrap, i, k) \in 0 .. InputWrap - 1
      /\ Gap(InputWrap, Further(InputWrap, i, k), j) = Gap(InputWrap, i, j) - k
  BY <1>2, WrapFacts, FirstMoves DEF RingIndex
<1>4. Distance(Later(i, k), j) = Gap(InputWrap, Later(i, k), j)
  BY DEF Distance, Gap
<1> QED  BY <1>1, <1>3, <1>4 DEF RingIndex

LEMMA DistanceBack ==
  ASSUME NEW i \in RingIndex, NEW j \in RingIndex, i # j
  PROVE  /\ Later(j, InputWrap - 1) \in RingIndex
         /\ Distance(i, Later(j, InputWrap - 1)) = Distance(i, j) - 1
<1> DEFINE k == InputWrap - 1
<1>1. /\ Distance(i, j) = Gap(InputWrap, i, j) /\ Later(j, k) = Further(InputWrap, j, k)
      /\ Distance(i, Later(j, k)) = Gap(InputWrap, i, Later(j, k))
  BY DEF Distance, Gap, Later, Further
<1>2. /\ Further(InputWrap, j, InputWrap - 1) \in 0 .. InputWrap - 1
      /\ Gap(InputWrap, i, Further(InputWrap, j, InputWrap - 1)) = Gap(InputWrap, i, j) - 1
  BY WrapFacts, SecondBack DEF RingIndex
<1> HIDE DEF k
<1>3. /\ Further(InputWrap, j, k) \in 0 .. InputWrap - 1
      /\ Gap(InputWrap, i, Further(InputWrap, j, k)) = Gap(InputWrap, i, j) - 1
  BY <1>2 DEF k
<1>4. Later(j, k) \in RingIndex /\ Distance(i, Later(j, k)) = Distance(i, j) - 1
  BY <1>1, <1>3 DEF RingIndex
<1> QED  BY <1>4 DEF k

LEMMA DistanceNone == ASSUME NEW i \in RingIndex PROVE Later(i, 0) = i
<1>1. Later(i, 0) = Further(InputWrap, i, 0)
  BY DEF Later, Further
<1> QED  BY <1>1, WrapFacts, FurtherNone DEF RingIndex

(* A step that leaves the ring as it is, and puts nobody to sleep on it    *)
LEMMA ConsoleKept ==
  ASSUME ConsoleInv, UNCHANGED inputVars, reading' \in [Process -> [target : Nat, n : Nat]],
         \A x \in Process : pc'[x] = "cread_sleep" => pc[x] = "cread_sleep"
  PROVE  ConsoleInv'
BY DEF ConsoleInv, ConsoleTypeOK, Ring, inputVars, Distance

LEMMA ConsoleAt ==
  ASSUME ConsoleInv
  PROVE  /\ r \in RingIndex /\ w \in RingIndex /\ e \in RingIndex
         /\ Distance(r, w) \in Nat /\ Distance(w, e) \in Nat /\ Distance(r, e) \in Nat
         /\ Distance(r, w) + Distance(w, e) = Distance(r, e) /\ Distance(r, e) <= INPUT_BUF
         /\ Distance(r, e) < InputWrap
         /\ Distance(r, e) = INPUT_BUF => w = e
<1>1. r \in RingIndex /\ w \in RingIndex /\ e \in RingIndex
  BY DEF ConsoleInv, ConsoleTypeOK, RingIndex
<1>2. Distance(r, w) \in Nat /\ Distance(w, e) \in Nat /\ Distance(r, e) \in Nat
  BY <1>1, DistanceIs
<1> QED  BY <1>1, <1>2, ConsoleFacts DEF ConsoleInv, Ring

LEMMA ConsoleBackspace == ASSUME ConsoleInv, Backspace PROVE ConsoleInv'
<1>1. e # w /\ e' = Later(e, InputWrap - 1) /\ UNCHANGED <<buf, r, w, reading, pc>>
  BY DEF Backspace, MayErase, callVars
<1>2. /\ e' \in RingIndex /\ Distance(w, e') = Distance(w, e) - 1
      /\ Distance(r, e') = Distance(r, e) - 1
  <2>1. Distance(w, e) # 0 /\ Distance(r, e) # 0
    BY <1>1, ConsoleAt, DistanceIs
  <2>2. r # e
    BY <2>1, ConsoleAt, DistanceIs
  <2> QED  BY <1>1, <2>2, ConsoleAt, DistanceBack
<1>3. Ring'
  <2>1. /\ Distance(r, w) + Distance(w, e') = Distance(r, e') /\ Distance(r, e') <= INPUT_BUF
        /\ Distance(r, e') # INPUT_BUF
    BY <1>2, ConsoleAt, ConsoleFacts
  <2>2. /\ Distance(r, w)' = Distance(r, w) /\ Distance(w, e)' = Distance(w, e')
        /\ Distance(r, e)' = Distance(r, e')
    BY <1>1 DEF Distance
  <2> QED  BY <2>1, <2>2 DEF Ring
<1> QED  BY <1>1, <1>2, <1>3 DEF ConsoleInv, ConsoleTypeOK, RingIndex

LEMMA GreatestIn ==
  ASSUME NEW n \in Nat, NEW S \in SUBSET (1 .. n), S # {}
  PROVE  Greatest(S) \in S /\ \A x \in S : Greatest(S) >= x
<1> DEFINE T == {n - x : x \in S}
<1>1. T \in SUBSET Nat /\ T # {}
  <2>1. \A x \in S : n - x \in Nat
    OBVIOUS
  <2> QED  BY <2>1
<1> HIDE DEF T
<1>2. Least(T) \in T /\ \A y \in T : Least(T) <= y
  BY <1>1, LeastIn
<1>3. PICK m \in S : Least(T) = n - m
  BY <1>2 DEF T
<1>4. \A x \in S : m >= x
  <2> SUFFICES ASSUME NEW x \in S PROVE m >= x
    OBVIOUS
  <2>1. n - x \in T
    BY DEF T
  <2>2. n - m <= n - x
    BY <1>2, <1>3, <2>1
  <2> QED  BY <2>2
<1> QED  BY <1>4 DEF Greatest

LEMMA ConsoleKillLine == ASSUME ConsoleInv, KillLine PROVE ConsoleInv'
<1> DEFINE newlines == {k \in DOMAIN Edited : Edited[k] = "newline"}
           m == IF newlines = {} THEN 0 ELSE Greatest(newlines)
<1>1. e # w /\ e' = Later(w, m) /\ UNCHANGED <<buf, r, w, reading, pc>>
  BY DEF KillLine, callVars
<1>2. newlines \in SUBSET (1 .. Distance(w, e))
  BY DEF Edited, Between
<1>3. m \in Nat /\ m <= Distance(w, e)
  <2> HIDE DEF newlines
  <2>1. CASE newlines = {}
    BY <2>1, ConsoleAt
  <2>2. CASE newlines # {}
    <3>1. Greatest(newlines) \in newlines
      BY <1>2, <2>2, ConsoleAt, GreatestIn
    <3>2. Greatest(newlines) \in 1 .. Distance(w, e)
      BY <1>2, <3>1
    <3> QED  BY <2>2, <3>2, ConsoleAt
  <2> QED  BY <2>1, <2>2
<1> HIDE DEF m
<1>4. /\ e' \in RingIndex /\ Distance(w, e') = m
      /\ Distance(r, e') = Distance(r, w) + m
  <2>1. Distance(w, w) = 0
    BY ConsoleAt, DistanceIs
  <2>2. Distance(w, w) + m < InputWrap /\ Distance(r, w) + m < InputWrap
    BY <1>3, <2>1, ConsoleAt, WrapFacts
  <2>3. e' \in RingIndex /\ Distance(w, e') = Distance(w, w) + m
    BY <1>1, <1>3, <2>2, ConsoleAt, DistanceOn
  <2>4. Distance(r, e') = Distance(r, w) + m
    BY <1>1, <1>3, <2>2, ConsoleAt, DistanceOn
  <2> QED  BY <1>3, <2>1, <2>3, <2>4
<1>5. Ring'
  <2>1. Distance(r, e) # INPUT_BUF
    BY <1>1, ConsoleAt
  <2>2. /\ Distance(r, w) + Distance(w, e') = Distance(r, e') /\ Distance(r, e') <= INPUT_BUF
        /\ Distance(r, e') # INPUT_BUF
    BY <1>3, <1>4, <2>1, ConsoleAt, ConsoleFacts
  <2>3. /\ Distance(r, w)' = Distance(r, w) /\ Distance(w, e)' = Distance(w, e')
        /\ Distance(r, e)' = Distance(r, e')
    BY <1>1 DEF Distance
  <2> QED  BY <2>2, <2>3 DEF Ring
<1> QED  BY <1>1, <1>4, <1>5 DEF ConsoleInv, ConsoleTypeOK, RingIndex

LEMMA ConsoleWakes == \A x \in Process : WakeConsole[x] # "cread_sleep"
BY DEF WakeConsole

LEMMA ConsoleType == ASSUME ConsoleInv, NEW c \in Character, Type(c) PROVE ConsoleInv'
<1>1. /\ Distance(r, e) < INPUT_BUF /\ buf' = [buf EXCEPT ![e % INPUT_BUF] = c]
      /\ e' = Later(e, 1) /\ UNCHANGED <<r, reading>>
      /\ \/ EndsLine(c) /\ w' = e' /\ pc' = WakeConsole
         \/ ~EndsLine(c) /\ UNCHANGED <<w, pc>>
  BY DEF Type
<1>2. buf' \in [0 .. INPUT_BUF - 1 -> Character]
  <2>1. e % INPUT_BUF \in 0 .. INPUT_BUF - 1
    BY ConsoleAt, ConsoleFacts DEF RingIndex
  <2> QED  BY <1>1, <2>1 DEF ConsoleInv, ConsoleTypeOK
<1>3. e' \in RingIndex /\ Distance(r, e') = Distance(r, e) + 1
  <2>1. Distance(r, e) + 1 < InputWrap
    BY <1>1, ConsoleAt, ConsoleFacts
  <2> QED  BY <1>1, <2>1, ConsoleAt, DistanceOn
<1>4. w' \in RingIndex /\ (w' = w \/ w' = e')
  BY <1>1, <1>3, ConsoleAt
<1>5. Ring'
  <2>1. CASE w' = e'
    <3>1. Distance(e', e') = 0
      BY <1>3, DistanceIs
    <3>2. /\ Distance(r, w)' = Distance(r, e')
          /\ Distance(w, e)' = 0 /\ Distance(r, e)' = Distance(r, e')
      BY <1>1, <2>1, <3>1 DEF Distance
    <3>3. Distance(r, e') \in Nat /\ Distance(r, e') <= INPUT_BUF
      BY <1>1, <1>3, ConsoleAt, ConsoleFacts
    <3> QED  BY <2>1, <3>2, <3>3 DEF Ring
  <2>2. CASE ~EndsLine(c) /\ w' = w
    <3>1. Distance(r, e) + 1 # INPUT_BUF
      BY <2>2 DEF EndsLine
    <3>2. Distance(w, e') = Distance(w, e) + 1
      <4>1. Distance(w, e) + 1 < InputWrap
        BY <1>1, ConsoleAt, ConsoleFacts
      <4> QED  BY <1>1, <4>1, ConsoleAt, DistanceOn
    <3>3. /\ Distance(r, w) + Distance(w, e') = Distance(r, e') /\ Distance(r, e') <= INPUT_BUF
          /\ Distance(r, e') # INPUT_BUF
      BY <1>1, <1>3, <3>1, <3>2, ConsoleAt, ConsoleFacts
    <3>4. /\ Distance(r, w)' = Distance(r, w) /\ Distance(w, e)' = Distance(w, e')
          /\ Distance(r, e)' = Distance(r, e')
      BY <1>1, <2>2 DEF Distance
    <3> QED  BY <3>3, <3>4 DEF Ring
  <2> QED  BY <1>1, <2>1, <2>2
<1>6. \A p \in Process : pc'[p] = "cread_sleep" => r' = w'
  BY <1>1, ConsoleWakes DEF ConsoleInv
<1> QED  BY <1>1, <1>2, <1>3, <1>4, <1>5, <1>6 DEF ConsoleInv, ConsoleTypeOK, RingIndex

(* What consoleread() takes out of the ring                                *)
LEMMA GetsIs ==
  ASSUME ConsoleInv, NEW n \in Nat, NEW k, k = Gets(n)
  PROVE  /\ k \in Nat /\ k <= n /\ k <= Distance(r, w)
         /\ Stops(n) = {} => k = n \/ k = Distance(r, w)
         /\ Stops(n) = {} /\ k > 0 => Delivered[k] # "eof"
<1>1. Distance(r, w) \in Nat
  BY ConsoleAt
<1>2. Len(Delivered) = Distance(r, w)
  BY <1>1 DEF Delivered, Between
<1> DEFINE m == Reach(n)
<1>3. m \in {n, Distance(r, w)} /\ m <= n /\ m <= Distance(r, w) /\ m \in Nat
  BY <1>1, <1>2, LeastOfTwo DEF Reach
<1>4. Stops(n) = {j \in 1 .. m : Delivered[j] \in LineEnd}
  BY DEF Stops
<1>5. k = IF Stops(n) = {} THEN m ELSE Least(Stops(n))
  BY DEF Gets
<1> HIDE DEF m
<1>6. CASE Stops(n) = {}
  <2>1. k = m
    BY <1>5, <1>6
  <2>2. k > 0 => Delivered[k] \notin LineEnd
    BY <1>3, <1>4, <1>6, <2>1
  <2> QED  BY <1>3, <1>6, <2>1, <2>2 DEF LineEnd
<1>7. CASE Stops(n) # {}
  <2>1. Stops(n) \in SUBSET Nat
    BY <1>4
  <2>2. k \in Stops(n)
    BY <1>5, <1>7, <2>1, LeastIn
  <2>3. k \in 1 .. m
    BY <1>4, <2>2
  <2> QED  BY <1>1, <1>3, <1>7, <2>3
<1> QED  BY <1>6, <1>7

LEMMA ConsoleConsoleread ==
  ASSUME ConsoleInv, CallInv, NEW p \in Process, Consoleread(p) PROVE ConsoleInv'
<1> SUFFICES ASSUME NEW n, n = reading[p].n, NEW k, k = Gets(n) PROVE ConsoleInv'
  OBVIOUS
<1> DEFINE m == IF LeavesEof(p, k) THEN k - 1 ELSE k
<1>1. /\ r' = Later(r, m) /\ UNCHANGED <<buf, w, e>>
      /\ \/ /\ pc' = [pc EXCEPT ![p] = "user"]
            /\ reading' = [reading EXCEPT ![p] = NotReading]
         \/ /\ k # n /\ Stops(n) = {} /\ pc' = [pc EXCEPT ![p] = "cread_sleep"]
            /\ reading' = [reading EXCEPT ![p] = [@ EXCEPT !.n = n - k]]
  BY DEF Consoleread
<1>2. reading \in [Process -> [target : Nat, n : Nat]] /\ n \in Nat /\ pc \in [Process -> Label]
  BY DEF ConsoleInv, ConsoleTypeOK, CallInv, Kinds
<1>3. /\ k \in Nat /\ k <= n /\ k <= Distance(r, w)
      /\ Stops(n) = {} => k = n \/ k = Distance(r, w)
      /\ Stops(n) = {} /\ k > 0 => Delivered[k] # "eof"
  BY <1>2, GetsIs
<1>4. m \in Nat /\ m <= Distance(r, w) /\ (Stops(n) = {} => m = k) /\ (k = 0 => m = 0)
  <2>1. LeavesEof(p, k) => k > 0 /\ Delivered[k] = "eof"
    BY DEF LeavesEof
  <2>2. CASE LeavesEof(p, k)
    <3>1. m = k - 1
      BY <2>2
    <3> HIDE DEF m
    <3> QED  BY <1>3, <2>1, <2>2, <3>1, ConsoleAt
  <2>3. CASE ~LeavesEof(p, k)
    BY <1>3, <2>3
  <2> QED  BY <2>2, <2>3
<1> DEFINE rest == [reading[p] EXCEPT !.n = n - k]
<1>5. rest \in [target : Nat, n : Nat]
  BY <1>2, <1>3
<1> HIDE DEF m, rest
<1>6. reading' \in [Process -> [target : Nat, n : Nat]]
  <2>1. NotReading \in [target : Nat, n : Nat]
    BY DEF NotReading
  <2> QED  BY <1>1, <1>2, <1>5, <2>1 DEF rest
<1>7. /\ r' \in RingIndex /\ Distance(r', w) = Distance(r, w) - m
      /\ Distance(r', e) = Distance(r, e) - m
  <2>1. m <= Distance(r, e)
    BY <1>4, ConsoleAt
  <2> QED  BY <1>1, <1>4, <2>1, ConsoleAt, DistanceLess
<1>8. Ring'
  <2>1. /\ Distance(r', w) + Distance(w, e) = Distance(r', e) /\ Distance(r', e) <= INPUT_BUF
        /\ Distance(r', e) = INPUT_BUF => w = e
    BY <1>4, <1>7, ConsoleAt, ConsoleFacts
  <2>2. /\ Distance(r, w)' = Distance(r', w) /\ Distance(w, e)' = Distance(w, e)
        /\ Distance(r, e)' = Distance(r', e)
    BY <1>1 DEF Distance
  <2> QED  BY <1>1, <2>1, <2>2 DEF Ring
<1>9. ASSUME NEW x \in Process, pc'[x] = "cread_sleep" PROVE r' = w'
  <2>1. CASE r = w
    <3>1. Distance(r, w) = 0
      BY <2>1, ConsoleAt, DistanceIs
    <3>2. m = 0
      BY <1>3, <1>4, <3>1
    <3> QED  BY <1>1, <2>1, <3>2, ConsoleAt, DistanceNone
  <2>2. CASE x = p
    <3>1. m = Distance(r, w)
      BY <1>1, <1>2, <1>3, <1>4, <1>9, <2>2
    <3>2. Distance(r', w) = 0
      BY <1>7, <3>1, ConsoleAt
    <3> QED  BY <1>1, <1>7, <3>2, ConsoleAt, DistanceIs
  <2>3. CASE x # p
    BY <1>1, <1>2, <1>9, <2>1, <2>3 DEF ConsoleInv
  <2> QED  BY <2>2, <2>3
<1> QED  BY <1>1, <1>6, <1>7, <1>8, <1>9, ConsoleAt DEF ConsoleInv, ConsoleTypeOK, RingIndex

-----------------------------------------------------------------------------
(* Pipes and the console: every step                                       *)

StreamInv == PipeInv /\ ConsoleInv

(* A step beside them: who is in a call on a pipe or waits for the console *)
(* was so before it.                                                       *)
Beside ==
  /\ UNCHANGED <<pipeState, consoleVars>>
  /\ \A x \in Process : \/ pc'[x] = pc[x] /\ request'[x] = request[x]
                        \/ pc'[x] \notin PipeCalls \cup {"cread_sleep"}

LEMMA StreamsBeside == ASSUME StreamInv, Beside PROVE StreamInv'
<1>1. PipeInv'
  <2>1. /\ UNCHANGED pipeState
        /\ \A x \in Process : \/ pc'[x] = pc[x] /\ request'[x] = request[x]
                              \/ pc'[x] \notin PipeCalls
    BY DEF Beside
  <2> QED  BY <2>1, PipesAside DEF StreamInv
<1>2. ConsoleInv'
  <2>1. /\ UNCHANGED inputVars /\ reading' \in [Process -> [target : Nat, n : Nat]]
        /\ \A x \in Process : pc'[x] = "cread_sleep" => pc[x] = "cread_sleep"
    BY DEF Beside, consoleVars, StreamInv, ConsoleInv, ConsoleTypeOK
  <2> QED  BY <2>1, ConsoleKept DEF StreamInv
<1> QED  BY <1>1, <1>2 DEF StreamInv

LEMMA BesideOne ==
  ASSUME CallInv, UNCHANGED <<pipeVars, consoleVars>>, NEW p \in Process,
         NEW to \in Label, to \notin PipeCalls \cup {"cread_sleep"},
         pc' = [pc EXCEPT ![p] = to]
  PROVE  Beside
BY DEF Beside, pipeVars, CallInv, Kinds

LEMMA BesideInode == ASSUME AllInv, NEW p \in Process, OnInode(p) PROVE Beside
<1>1. UNCHANGED <<pipeVars, consoleVars>>
  BY DEF OnInode
<1>2. PICK to \in InodeUse \cup {"drop"} : pc' = [pc EXCEPT ![p] = to]
  <2>1. CASE pc[p] = "free"
    BY <2>1 DEF OnInode, InodeStep, PathCall, OpenLock, CreateLink, CreatePutDir, UnlinkErase,
       UnlinkDrop, LinkCount, LinkName, LinkTaken, LinkPutOther, LinkBack, IputFrees, IputKeeps,
       IputTruncates, IputDrops, Move, OpenLookup, CreateIalloc, UnlinkLookup, LinkLookup, Lookup
  <2>2. CASE pc[p] # "free"
    BY <2>2, InodeKeeps
  <2> QED  BY <2>1, <2>2
<1>3. to \in Label /\ to \notin PipeCalls \cup {"cread_sleep"}
  BY DEF InodeUse, InodeCall, Label, PipeCalls
<1>4. CallInv
  BY DEF AllInv
<1> QED  BY ONLY <1>1, <1>2, <1>3, <1>4, p \in Process, BesideOne

LEMMA BesideOnContents == ASSUME CallInv, NEW p \in Process, OnContents(p) PROVE Beside
<1>1. UNCHANGED <<pipeVars, consoleVars>>
  BY DEF OnContents
<1>2. pc' = pc \/ \E to \in {"user", "filewrite", "writei"} : pc' = [pc EXCEPT ![p] = to]
  BY DEF OnContents, WriteStep, WriteiBegins, WriteiFails, WriteiIndirect, WriteiBlock, WriteiEnds,
     Move, callVars
<1> QED  BY <1>1, <1>2 DEF Beside, pipeVars, PipeCalls, CallInv, Kinds

LEMMA BesideProcesses ==
  ASSUME CallInv, NEW p \in Process,
         \/ OpenFile(p) \/ OpenFails(p) \/ Exit(p) \/ ExitEnds(p)
         \/ PipeFirstFile(p) \/ PipeNoFile(p) \/ PipeNoPage(p)
         \/ \E child \in Process : Fork(p, child)
         \/ \E fd \in FD :
              \/ Dup(p, fd) \/ \E n \in FileCounts : ReadFile(p, fd, n) \/ WriteFile(p, fd, n)
  PROVE  Beside
<1>1. UNCHANGED <<pipeVars, consoleVars>>
  BY DEF OpenFile, OpenFails, Exit, ExitEnds, PipeFirstFile, PipeNoFile, PipeNoPage, Fork, Dup,
         ReadFile, WriteFile
<1>2. \/ UNCHANGED pc
      \/ \E q \in Process : \E to \in {"user", "put", "exiting", "dead", "pipealloc", "pipefail",
                                     "filewrite"} :
           pc' = [pc EXCEPT ![q] = to]
  BY DEF OpenFile, OpenFails, Exit, ExitEnds, PipeFirstFile, PipeNoFile, PipeNoPage, Fork, Dup,
     ReadFile, WriteFile, FilewriteCall, Move, callVars
<1> QED  BY <1>1, <1>2 DEF Beside, pipeVars, PipeCalls, CallInv, Kinds

LEMMA BesideClose ==
  ASSUME CallInv, NEW p \in Process, ExitCloses(p) \/ \E fd \in FD : Close(p, fd) PROVE Beside
<1>1. PICK fd : CloseFd(p, fd)
  BY DEF ExitCloses, Close
<1>2. /\ UNCHANGED <<pipeState, consoleVars>> /\ Fileclose(p, ofile[p][fd], Return(p))
  BY <1>1 DEF CloseFd
<1>3. /\ \E to \in {"user", "exiting", "pipefail", "pipeclose", "put"} :
           pc' = [pc EXCEPT ![p] = to]
      /\ \A x \in Process \ {p} : request'[x] = request[x]
  BY <1>2, Returns DEF Fileclose, CallInv, Kinds
<1> QED  BY <1>2, <1>3 DEF Beside, PipeCalls, CallInv, Kinds

(* The cleanup of pipe() frees one of the two files.                       *)
GivesBack(p, second) ==
  /\ pfile[<<p, second>>] \in File
  /\ ftable' = [ftable EXCEPT ![pfile[<<p, second>>]] = NoFile]
  /\ UNCHANGED <<pipeState, consoleVars>>
  /\ \E to \in {"user", "pipefail", "pipeclose"} : pc' = [pc EXCEPT ![p] = to]
  /\ \A x \in Process \ {p} : request'[x] = request[x]

LEMMA CleanupGivesBack ==
  ASSUME CallInv, RefInv, NEW p \in Process, PipeCloses(p)
  PROVE  \E second \in BOOLEAN : GivesBack(p, second)
<1>1. HeldFiles
  BY DEF RefInv, FilePart
<1>2. PICK second \in BOOLEAN : \E f \in File :
           /\ f = pfile[<<p, second>>] /\ ftable[f].ref = 1
           /\ pc[p] = "pipefail" /\ p \notin exiting
           /\ IF second THEN Rf(p) = None ELSE Wf(p) # None
           /\ pfile' = [pfile EXCEPT ![<<p, second>>] = None]
           /\ ftable' = [ftable EXCEPT ![f] = NoFile]
           /\ \/ /\ ftable[f].type = "none" /\ UNCHANGED request
                 /\ pc' = [pc EXCEPT ![p] = IF second THEN "user" ELSE "pipefail"]
              \/ /\ ftable[f].type = "pipe"
                 /\ request' = [request EXCEPT ![p] =
                      [pipe |-> ftable[f].obj, writable |-> ftable[f].writable]]
                 /\ pc' = [pc EXCEPT ![p] = "pipeclose"]
           /\ UNCHANGED <<exiting, killed, pipeState, ip, diskVars, icacheVars, other, name,
                          raced, consoleVars, ofile, contentVars, workload>>
  BY <1>1, PipeClosesIs
<1>3. /\ pfile[<<p, second>>] \in File
      /\ ftable' = [ftable EXCEPT ![pfile[<<p, second>>]] = NoFile]
      /\ UNCHANGED <<pipeState, consoleVars>>
  BY <1>2
<1>4. \E to \in {"user", "pipefail", "pipeclose"} : pc' = [pc EXCEPT ![p] = to]
  BY <1>2
<1>5. \A x \in Process \ {p} : request'[x] = request[x]
  BY <1>2 DEF CallInv, Kinds
<1>6. GivesBack(p, second)
  BY <1>3, <1>4, <1>5 DEF GivesBack
<1> QED  BY <1>6

LEMMA BesidePipeCloses ==
  ASSUME CallInv, RefInv, NEW p \in Process, PipeCloses(p) PROVE Beside
<1>1. PICK second \in BOOLEAN : GivesBack(p, second)
  BY CleanupGivesBack
<1> QED  BY <1>1 DEF GivesBack, Beside, PipeCalls, CallInv, Kinds

LEMMA StreamsKill ==
  ASSUME CallInv, StreamInv, NEW p \in Process, NEW q \in Process, Kill(p, q) PROVE StreamInv'
<1>1. /\ UNCHANGED <<pipeVars, consoleVars>>
      /\ pc' = [pc EXCEPT ![q] = IF @ \in DOMAIN Awake THEN Awake[@] ELSE @]
  BY DEF Kill
<1>2. \A x \in Process : \/ pc'[x] = pc[x]
                         \/ pc[x] = "read_sleep" /\ pc'[x] = "read"
                         \/ pc[x] = "write_sleep" /\ pc'[x] = "write"
                         \/ pc[x] = "cread_sleep" /\ pc'[x] = "cread"
  BY <1>1 DEF Awake, CallInv, Kinds
<1>3. PipeInv'
  <2>1. /\ UNCHANGED pipeState
        /\ \A x \in Process :
             \/ pc'[x] = pc[x] /\ request'[x] = request[x]
             \/ pc'[x] \notin PipeCalls
             \/ pc[x] = "read_sleep" /\ pc'[x] = "read" /\ request'[x] = request[x]
             \/ pc[x] = "write_sleep" /\ pc'[x] = "write" /\ request'[x] = request[x]
    BY <1>1, <1>2 DEF pipeVars, PipeCalls
  <2> QED  BY <2>1, PipesAside DEF StreamInv
<1>4. ConsoleInv'
  <2>1. /\ UNCHANGED inputVars /\ reading' \in [Process -> [target : Nat, n : Nat]]
        /\ \A x \in Process : pc'[x] = "cread_sleep" => pc[x] = "cread_sleep"
    BY <1>1, <1>2 DEF consoleVars, StreamInv, ConsoleInv, ConsoleTypeOK
  <2> QED  BY <2>1, ConsoleKept DEF StreamInv
<1> QED  BY <1>3, <1>4 DEF StreamInv

LEMMA StreamsCalls ==
  ASSUME CallInv, CallInv', RefInv, StreamInv, NEW p \in Process, NEW fd \in FD,
         \/ \E n \in Counts : Read(p, fd, n)
         \/ \E n \in ConsoleCounts : ReadConsole(p, fd, n)
         \/ \E s \in Writes : Write(p, fd, s)
  PROVE  StreamInv'
<1>1. /\ UNCHANGED <<pipeState, inputVars>> /\ pc[p] = "user"
      /\ \E to \in {"read", "write", "cread"} : pc' = [pc EXCEPT ![p] = to]
      /\ \A x \in Process \ {p} : request'[x] = request[x]
  BY DEF Read, Write, ReadConsole, PipeCall, Move, pipeVars, consoleVars, CallInv, Kinds
<1>2. ASSUME NEW writable, NEW to, PipeCall(p, fd, writable, to)
      PROVE  ftable[ofile[p][fd]].obj \in Pipe
  <2>1. ofile[p][fd] # None /\ ftable[ofile[p][fd]].type = "pipe"
    BY <1>2 DEF PipeCall
  <2>2. ofile[p][fd] \in File
    BY <2>1, OpenFileKnown DEF RefInv
  <2> QED  BY <2>1, <2>2 DEF CallInv, FileShape
<1>3. Asked(p)' \/ pc'[p] = "cread"
  <2>1. CASE \E n \in Counts : Read(p, fd, n)
    <3>1. PICK n \in Counts : Read(p, fd, n)
      BY <2>1
    <3>2. /\ pc'[p] = "read"
          /\ request'[p] = [pipe |-> ftable[ofile[p][fd]].obj, count |-> n]
      BY <3>1 DEF Read, PipeCall, Move, CallInv, Kinds
    <3>3. ftable[ofile[p][fd]].obj \in Pipe /\ n \in Nat
      BY <1>2, <3>1, PipeFacts DEF Read
    <3> QED  BY <3>2, <3>3 DEF Asked
  <2>2. CASE \E s \in Writes : Write(p, fd, s)
    <3>1. PICK s \in Writes : Write(p, fd, s)
      BY <2>2
    <3>2. /\ pc'[p] = "write"
          /\ request'[p] = [pipe |-> ftable[ofile[p][fd]].obj, bytes |-> s]
      BY <3>1 DEF Write, PipeCall, Move, CallInv, Kinds
    <3>3. ftable[ofile[p][fd]].obj \in Pipe /\ s \in Seq(Byte)
      BY <1>2, <3>1, PipeFacts DEF Write
    <3> QED  BY <3>2, <3>3 DEF Asked
  <2>3. CASE \E n \in ConsoleCounts : ReadConsole(p, fd, n)
    BY <2>3 DEF ReadConsole, Move, CallInv, Kinds
  <2> QED  BY <2>1, <2>2, <2>3
<1>4. PipeInv'
  <2>1. \A x \in Process :
          \/ pc'[x] = pc[x] /\ request'[x] = request[x]
          \/ pc'[x] \notin PipeWaits /\ Asked(x)'
    BY <1>1, <1>3 DEF PipeWaits, Asked, CallInv, Kinds
  <2> QED  BY <1>1, <2>1, PipesKept DEF StreamInv
<1>5. ConsoleInv'
  <2>1. reading' \in [Process -> [target : Nat, n : Nat]]
    <3>1. reading \in [Process -> [target : Nat, n : Nat]] /\ ConsoleCounts \subseteq Nat
      BY FilesAssumption DEF StreamInv, ConsoleInv, ConsoleTypeOK
    <3>2. \/ reading' = reading
          \/ \E n \in ConsoleCounts : reading' = [reading EXCEPT ![p] = [target |-> n, n |-> n]]
      BY DEF Read, Write, ReadConsole, PipeCall, consoleVars
    <3> QED  BY <3>1, <3>2
  <2>2. \A x \in Process : pc'[x] = "cread_sleep" => pc[x] = "cread_sleep"
    BY <1>1 DEF CallInv, Kinds
  <2> QED  BY <1>1, <2>1, <2>2, ConsoleKept DEF StreamInv
<1> QED  BY <1>4, <1>5 DEF StreamInv

LEMMA StreamsPipeMade ==
  ASSUME CallInv, StreamInv, NEW p \in Process, TakesPage(p) PROVE StreamInv'
<1>1. PipeInv'
  BY PipesPipeMade DEF StreamInv
<1>2. UNCHANGED consoleVars /\ \E to \in {"user", "pipefail"} : pc' = [pc EXCEPT ![p] = to]
  BY PageTaken
<1>3. /\ UNCHANGED inputVars /\ reading' \in [Process -> [target : Nat, n : Nat]]
      /\ \A x \in Process : pc'[x] = "cread_sleep" => pc[x] = "cread_sleep"
  BY <1>2 DEF consoleVars, StreamInv, ConsoleInv, ConsoleTypeOK, CallInv, Kinds
<1> QED  BY <1>1, <1>3, ConsoleKept DEF StreamInv

LEMMA StreamsOnPipe ==
  ASSUME CallInv, StreamInv, NEW p \in Process, OnPipe(p) PROVE StreamInv'
<1>1. PipeInv'
  BY PipesPipeclose, PipesPipewrite, PipesPipereadSleeps, PipesPiperead
  DEF OnPipe, PipeStep, StreamInv
<1> DEFINE q == request[p].pipe
           b == request[p].writable
<1>2. \/ /\ pc[p] \in {"read", "write"}
         /\ \E f \in {WakeReaders(q), WakeWriters(q), pc} :
              \E to \in {"user", "read_sleep", "write_sleep"} : pc' = [f EXCEPT ![p] = to]
      \/ /\ pc[p] = "pipeclose" /\ b \in BOOLEAN
         /\ \E to \in {"user", "exiting", "pipefail"} : pc' = [CloseWakes(q, b) EXCEPT ![p] = to]
  BY Returns DEF OnPipe, PipeStep, Pipewrite, PipereadSleeps, PipereadFails, Piperead, Pipeclose,
     CallInv, Shape
<1>3. \A f \in {WakeReaders(q), WakeWriters(q), pc, CloseWakes(q, TRUE), CloseWakes(q, FALSE)} :
        /\ f \in [Process -> Label]
        /\ \A x \in Process : f[x] = pc[x] \/ (pc[x] \in Sleeping /\ f[x] \in Woke)
  BY WakesOnly DEF CallInv
<1> HIDE DEF q, b
<1>4. \A x \in Process : pc'[x] = "cread_sleep" => pc[x] = "cread_sleep"
  <2>1. PICK f \in [Process -> Label] :
          /\ \A x \in Process : f[x] = pc[x] \/ (pc[x] \in Sleeping /\ f[x] \in Woke)
          /\ \E to \in {"user", "read_sleep", "write_sleep", "exiting", "pipefail"} :
             pc' = [f EXCEPT ![p] = to]
    BY <1>2, <1>3
  <2> QED  BY <2>1 DEF Sleeping, Woke
<1>5. UNCHANGED inputVars /\ reading' \in [Process -> [target : Nat, n : Nat]]
  BY DEF OnPipe, consoleVars, StreamInv, ConsoleInv, ConsoleTypeOK
<1> QED  BY <1>1, <1>4, <1>5, ConsoleKept DEF StreamInv

LEMMA StreamsOnConsole ==
  ASSUME CallInv, StreamInv, Keyboard \/ \E p \in Process : OnConsole(p) PROVE StreamInv'
<1>1. ConsoleInv'
  BY ConsoleBackspace, ConsoleKillLine, ConsoleType, ConsoleConsoleread
  DEF Keyboard, ConsoleIntr, OnConsole, StreamInv
<1>2. UNCHANGED pipeVars
  BY DEF Keyboard, OnConsole
<1>3. \A x \in Process : pc'[x] = pc[x] \/ pc'[x] \notin PipeCalls
  <2>1. CASE Keyboard
    <3>1. pc' = pc \/ pc' = WakeConsole
      BY <2>1 DEF Keyboard, ConsoleIntr, Backspace, KillLine, Type, callVars
    <3> QED  BY <3>1 DEF WakeConsole, PipeCalls
  <2>2. CASE \E p \in Process : OnConsole(p)
    BY <2>2 DEF OnConsole, Consoleread, CallInv, Kinds, PipeCalls
  <2> QED  BY <2>1, <2>2
<1>4. PipeInv'
  <2>1. /\ UNCHANGED pipeState
        /\ \A x \in Process : \/ pc'[x] = pc[x] /\ request'[x] = request[x]
                              \/ pc'[x] \notin PipeCalls
    BY <1>2, <1>3 DEF pipeVars
  <2> QED  BY <2>1, PipesAside DEF StreamInv
<1> QED  BY <1>1, <1>4 DEF StreamInv

LEMMA StreamsInit == Init => StreamInv
<1> SUFFICES ASSUME Init PROVE StreamInv
  OBVIOUS
<1>1. /\ InitPipes /\ InitConsole
      /\ \A p \in Process : pc[p] \in {"user", "dead"}
  BY DEF Init
<1>2. Gap(Wrap, 0, 0) = 0
  BY PipeFacts, GapIs
<1>3. PipesTypeOK
  <2>1. EmptyData \in [0 .. PIPESIZE - 1 -> Byte] /\ 0 \in 0 .. Wrap - 1
    BY PipeFacts DEF EmptyData
  <2>2. \A q \in Pipe : Amount(q) = 0
    BY <1>1, <1>2 DEF InitPipes, Amount, Gap
  <2> QED  BY <1>1, <2>1, <2>2, PipeFacts DEF InitPipes, PipesTypeOK
<1>4. PipeInv
  BY <1>1, <1>3 DEF PipeInv, Asked, PipeSleeper
<1>5. ConsoleTypeOK /\ r = w /\ w = e
  <2>1. 0 \in 0 .. InputWrap - 1
    BY ConsoleFacts
  <2> QED  BY <1>1, <2>1 DEF InitConsole, ConsoleTypeOK, Character, NotReading
<1>6. Ring
  <2>1. Distance(r, w) = 0 /\ Distance(w, e) = 0 /\ Distance(r, e) = 0
    BY <1>5, DistanceIs DEF ConsoleTypeOK, RingIndex
  <2> QED  BY <1>5, <2>1, ConsoleFacts DEF Ring
<1> QED  BY <1>4, <1>5, <1>6 DEF StreamInv, ConsoleInv

LEMMA StreamsStep == AllInv /\ AllInv' /\ StreamInv /\ [Next]_vars => StreamInv'
<1> SUFFICES ASSUME AllInv, AllInv', StreamInv, [Next]_vars PROVE StreamInv'
  OBVIOUS
<1>0. CallInv /\ CallInv' /\ RefInv
  BY DEF AllInv
<1>1. ASSUME NEW p \in Process, Descriptors(p) PROVE StreamInv'
  BY <1>0, <1>1, BesideProcesses, BesideClose, StreamsBeside, StreamsCalls DEF Descriptors
<1>2. ASSUME NEW p \in Process, OnPipe(p) \/ MakePipe(p) PROVE StreamInv'
  BY <1>0, <1>2, StreamsOnPipe, StreamsPipeMade, BesideProcesses, BesidePipeCloses, StreamsBeside
  DEF MakePipe, TakesPage
<1>3. ASSUME NEW p \in Process, OnInode(p) \/ OnContents(p) PROVE StreamInv'
  BY <1>0, <1>3, BesideInode, BesideOnContents, StreamsBeside
<1>4. ASSUME NEW p \in Process, OpenFile(p) \/ OpenFails(p) \/ Life(p) PROVE StreamInv'
  BY <1>0, <1>4, BesideProcesses, BesideClose, StreamsBeside, StreamsKill DEF Life
<1>5. CASE Keyboard \/ \E p \in Process : OnConsole(p)
  BY <1>0, <1>5, StreamsOnConsole
<1>6. CASE UNCHANGED vars
  <2>1. Beside
    BY <1>6 DEF Beside, vars, callVars, pipeVars
  <2> QED  BY <2>1, StreamsBeside
<1> QED  BY <1>1, <1>2, <1>3, <1>4, <1>5, <1>6 DEF Next

LEMMA StreamSleepers == ASSUME StreamInv PROVE NoStrandedSleeper
<1> SUFFICES ASSUME NEW p \in Process, pc[p] = "cread_sleep"
             PROVE  Delivered = <<>> /\ Len(Edited) < INPUT_BUF
  BY DEF NoStrandedSleeper, StreamInv, PipeInv, PipeSleeper
<1>1. ConsoleInv /\ r = w
  BY DEF StreamInv, ConsoleInv
<1>2. Distance(r, w) = 0
  BY <1>1, ConsoleAt, DistanceIs
<1>3. Delivered = <<>>
  BY <1>2 DEF Delivered, Between
<1>4. Distance(w, e) \in Nat /\ Distance(w, e) < INPUT_BUF
  <2>1. CASE w = e
    BY <1>1, <2>1, ConsoleAt, ConsoleFacts, DistanceIs
  <2>2. CASE w # e
    BY <1>1, <1>2, <2>2, ConsoleAt, ConsoleFacts
  <2> QED  BY <2>1, <2>2
<1>5. Len(Edited) = Distance(w, e)
  BY <1>4 DEF Edited, Between
<1> QED  BY <1>3, <1>4, <1>5

LEMMA AllStreams == Spec => []StreamInv
<1>1. Init => StreamInv
  BY StreamsInit
<1>2. AllInv /\ AllInv' /\ StreamInv /\ [Next]_vars => StreamInv'
  BY StreamsStep
<1> QED  BY <1>1, <1>2, AllBlocks, PTL DEF Spec

(* NoStrandedSleeper, for pipes and a console ring of any size and any     *)
(* number of processes that read, write, close, fork and kill: nobody      *)
(* sleeps on a pipe or on the console while there is what it waits for,    *)
(* but for the pipe whose last writer gave up without wakeup().            *)
THEOREM SleepersAreWoken == Spec => []NoStrandedSleeper
<1>1. StreamInv => NoStrandedSleeper
  BY StreamSleepers
<1> QED  BY <1>1, AllStreams, PTL

-----------------------------------------------------------------------------
(* What a ring holds: positions count modulo W, the ring has N places, and *)
(* N divides W.                                                            *)

LEMMA Remainder ==
  ASSUME NEW N \in Nat, N > 0, NEW a \in Nat, NEW m \in 0 .. N - 1
  PROVE  (a * N + m) % N = m
<1> DEFINE x == a * N + m
           c == x \div N
           n == x % N
<1>1. a * N \in Nat /\ c * N \in Nat
  <2>1. \A y \in Nat : y * N \in Nat
    OBVIOUS
  <2>2. x \in Nat
    BY <2>1
  <2> HIDE DEF x
  <2>3. c \in Nat
    BY <2>2
  <2> QED  BY <2>1, <2>3
<1>2. x \in Nat /\ c \in Nat
  <2>1. x \in Nat
    BY <1>1
  <2> HIDE DEF x
  <2> QED  BY <2>1
<1>3. n \in 0 .. N - 1 /\ x = c * N + n
  <2> HIDE DEF x
  <2> QED  BY <1>2
<1>4. x = a * N + m
  OBVIOUS
<1> HIDE DEF x, c, n
<1>5. ~(c < a)
  <2> SUFFICES ASSUME c < a PROVE FALSE
    OBVIOUS
  <2>1. c * N + N <= a * N
    BY <1>2, Multiples
  <2> QED  BY <1>1, <1>3, <1>4, <2>1
<1>6. ~(a < c)
  <2> SUFFICES ASSUME a < c PROVE FALSE
    OBVIOUS
  <2>1. a * N + N <= c * N
    BY <1>2, Multiples
  <2> QED  BY <1>1, <1>3, <1>4, <2>1
<1>7. a = c
  BY <1>2, <1>5, <1>6
<1>8. n = m
  BY <1>1, <1>3, <1>4, <1>7
<1> QED  BY <1>8 DEF n, x

LEMMA WholeTurns ==
  ASSUME NEW N \in Nat, N > 0, NEW d \in Nat, NEW y \in Nat
  PROVE  (y + d * N) % N = y % N /\ y + d * N \in Nat
<1> DEFINE c == y \div N
           m == y % N
<1>1. c \in Nat /\ m \in 0 .. N - 1 /\ y = c * N + m
  OBVIOUS
<1> HIDE DEF c, m
<1>2. y + d * N = (c + d) * N + m
  BY <1>1
<1>3. ((c + d) * N + m) % N = m
  <2>1. c + d \in Nat
    BY <1>1
  <2> DEFINE a == c + d
  <2> HIDE DEF a
  <2>2. (a * N + m) % N = m
    BY <1>1, <2>1, Remainder DEF a
  <2> QED  BY <2>2 DEF a
<1>4. y + d * N \in Nat
  OBVIOUS
<1> QED  BY <1>2, <1>3, <1>4 DEF m

(* Sizes of a ring and of its counters                                     *)
Turns(N, W) == N \in Nat /\ N > 0 /\ W \in Nat /\ W > 0 /\ W % N = 0

LEMMA FurtherPlace ==
  ASSUME NEW N, NEW W, Turns(N, W), NEW i \in 0 .. W - 1, NEW k \in 0 .. W, NEW m \in Nat
  PROVE  (Further(W, i, k) + m) % N = (i + k + m) % N
<1>1. N \in Nat /\ N > 0 /\ W \in Nat /\ W > 0 /\ W % N = 0
  BY DEF Turns
<1>2. Further(W, i, k) = IF i + k < W THEN i + k ELSE i + k - W
  BY <1>1, FurtherIs
<1>3. CASE i + k < W
  BY <1>2, <1>3
<1>4. CASE ~(i + k < W)
  <2> DEFINE d == W \div N
             y == i + k - W + m
  <2>1. d \in Nat /\ W = d * N
    BY <1>1
  <2>2. y \in Nat
    BY <1>1, <1>4
  <2>3. y = Further(W, i, k) + m /\ y + W = i + k + m
    BY <1>1, <1>2, <1>4
  <2> HIDE DEF d, y
  <2>4. (y + d * N) % N = y % N
    BY <1>1, <2>1, <2>2, WholeTurns
  <2> QED  BY <2>1, <2>3, <2>4
<1> QED  BY <1>3, <1>4

LEMMA PlacesDiffer ==
  ASSUME NEW N \in Nat, N > 0, NEW x \in Nat, NEW i \in 0 .. N - 1, NEW j \in 0 .. N - 1,
         (x + i) % N = (x + j) % N
  PROVE  i = j
<1> DEFINE a == x \div N
           c == x % N
<1>1. a \in Nat /\ c \in 0 .. N - 1 /\ x = c + a * N
  OBVIOUS
<1> HIDE DEF a, c
<1>2. ASSUME NEW k \in 0 .. N - 1 PROVE (x + k) % N = Further(N, c, k)
  <2>1. ((c + k) + a * N) % N = (c + k) % N
    <3>1. c + k \in Nat
      BY <1>1
    <3> DEFINE y == c + k
    <3> HIDE DEF y
    <3>2. (y + a * N) % N = y % N
      BY <1>1, <3>1, WholeTurns DEF y
    <3> QED  BY <3>2 DEF y
  <2>2. x + k = (c + k) + a * N
    <3>1. a * N \in Nat
      BY <1>1
    <3> QED  BY <1>1, <3>1
  <2> QED  BY <2>1, <2>2 DEF Further
<1> DEFINE t == Further(N, c, i)
<1>3. t = Further(N, c, i) /\ t = Further(N, c, j)
  BY <1>2
<1>4. t \in 0 .. N - 1
  BY <1>1 DEF Further
<1> HIDE DEF t
<1>5. Gap(N, c, t) = i /\ Gap(N, c, t) = j
  BY <1>1, <1>3, <1>4, GapAt
<1> QED  BY <1>5

(* Where the k-th entry from position i on is                              *)
RingPlace(N, i, k) == (i + k - 1) % N

LEMMA PlaceFurther ==
  ASSUME NEW N, NEW W, Turns(N, W), NEW i \in 0 .. W - 1, NEW k \in 0 .. W,
         NEW m \in Nat, m > 0
  PROVE  RingPlace(N, Further(W, i, k), m) = RingPlace(N, i, k + m)
<1>1. m - 1 \in Nat /\ W \in Nat /\ Further(W, i, k) \in Int
  BY DEF Turns, Further
<1>2. (Further(W, i, k) + (m - 1)) % N = (i + k + (m - 1)) % N
  BY <1>1, FurtherPlace
<1>3. Further(W, i, k) + (m - 1) = Further(W, i, k) + m - 1 /\ i + k + (m - 1) = i + (k + m) - 1
  BY <1>1
<1> QED  BY <1>2, <1>3 DEF RingPlace

LEMMA PlacesApart ==
  ASSUME NEW N \in Nat, N > 0, NEW x \in Nat, NEW i \in 1 .. N, NEW j \in 1 .. N, i # j
  PROVE  RingPlace(N, x, i) # RingPlace(N, x, j)
<1> DEFINE a == i - 1
           b == j - 1
<1>1. a \in 0 .. N - 1 /\ b \in 0 .. N - 1 /\ a # b /\ x + i - 1 = x + a /\ x + j - 1 = x + b
  OBVIOUS
<1> HIDE DEF a, b
<1>2. (x + a) % N # (x + b) % N
  BY <1>1, PlacesDiffer
<1> QED  BY <1>1, <1>2 DEF RingPlace

(* The entries of ring f from position i up to position j, oldest first    *)
InRing(N, W, f, i, j) == [k \in 1 .. Gap(W, i, j) |-> f[RingPlace(N, i, k)]]

LEMMA PlaceInside ==
  ASSUME NEW N \in Nat, N > 0, NEW i \in Nat, NEW k \in Nat, k > 0
  PROVE  RingPlace(N, i, k) \in 0 .. N - 1
<1> DEFINE y == i + k - 1
<1>1. y \in Nat
  OBVIOUS
<1> HIDE DEF y
<1>2. y % N \in 0 .. N - 1
  BY <1>1
<1> QED  BY <1>2 DEF y, RingPlace

(* s lists n entries of ring f, from position i on.                        *)
Lists(s, n, N, f, i, S) ==
  /\ s \in Seq(S) /\ Len(s) = n
  /\ \A k \in 1 .. n : s[k] = f[RingPlace(N, i, k)]

LEMMA HeldIs ==
  ASSUME NEW N, NEW W, Turns(N, W), NEW i \in 0 .. W - 1, NEW j \in 0 .. W - 1,
         NEW S, NEW f \in [0 .. N - 1 -> S]
  PROVE  Lists(InRing(N, W, f, i, j), Gap(W, i, j), N, f, i, S)
<1>1. N \in Nat /\ N > 0 /\ W \in Nat /\ W > 0
  BY DEF Turns
<1>2. Gap(W, i, j) \in 0 .. W - 1
  BY <1>1, GapRange
<1>3. ASSUME NEW k \in 1 .. Gap(W, i, j) PROVE RingPlace(N, i, k) \in 0 .. N - 1
  <2>1. k \in Nat /\ k > 0 /\ i \in Nat
    BY <1>1, <1>2
  <2> QED  BY <1>1, <2>1, PlaceInside
<1> DEFINE s == InRing(N, W, f, i, j)
           n == Gap(W, i, j)
<1>4. s = [k \in 1 .. n |-> f[RingPlace(N, i, k)]]
  BY DEF InRing
<1> HIDE DEF s, n
<1>5. n \in Nat /\ \A k \in 1 .. n : f[RingPlace(N, i, k)] \in S
  BY <1>2, <1>3 DEF n
<1>6. s \in [1 .. n -> S]
  BY <1>4, <1>5
<1>7. s \in Seq(S) /\ Len(s) = n
  BY <1>5, <1>6
<1>8. \A k \in 1 .. n : s[k] = f[RingPlace(N, i, k)]
  BY <1>4
<1>9. Lists(s, n, N, f, i, S)
  BY <1>7, <1>8 DEF Lists
<1> QED  BY <1>9 DEF s, n

(* The first position moves: the oldest entries are gone.                  *)
LEMMA HeldFront ==
  ASSUME NEW N, NEW W, Turns(N, W), NEW i \in 0 .. W - 1, NEW j \in 0 .. W - 1,
         NEW S, NEW f \in [0 .. N - 1 -> S], NEW k \in 0 .. Gap(W, i, j)
  PROVE  InRing(N, W, f, Further(W, i, k), j)
           = SubSeq(InRing(N, W, f, i, j), k + 1, Len(InRing(N, W, f, i, j)))
<1>1. N \in Nat /\ N > 0 /\ W \in Nat /\ W > 0
  BY DEF Turns
<1>2. Gap(W, i, j) \in 0 .. W - 1
  BY <1>1, GapRange
<1>3. k \in Nat /\ k <= Gap(W, i, j) /\ k \in 0 .. W
  BY <1>1, <1>2
<1> DEFINE m == Further(W, i, k)
           n == Gap(W, i, j)
           s == InRing(N, W, f, i, j)
           t == InRing(N, W, f, m, j)
<1>4. m \in 0 .. W - 1 /\ Gap(W, m, j) = n - k
  BY <1>1, <1>3, FirstMoves
<1>5. \A y \in Nat : y > 0 => RingPlace(N, m, y) = RingPlace(N, i, k + y)
  BY <1>3, PlaceFurther
<1> HIDE DEF m
<1>6. Lists(s, n, N, f, i, S)
  BY HeldIs
<1>7. Lists(t, n - k, N, f, m, S)
  BY <1>4, HeldIs
<1> HIDE DEF n, s, t
<1> USE DEF Lists
<1>8. n \in Nat /\ k <= n
  BY <1>2, <1>3 DEF n
<1> DEFINE u == SubSeq(s, k + 1, n)
<1>9. u \in Seq(S) /\ Len(u) = n - k /\ \A x \in 1 .. n - k : u[x] = s[k + x]
  <2>1. \A x \in k + 1 .. n : s[x] \in S
    <3>1. k + 1 .. n \subseteq 1 .. n
      BY <1>3, <1>8
    <3> QED  BY <1>6, <1>8, <3>1, LenProperties
  <2>2. k + 1 \in Int /\ n \in Int
    BY <1>3, <1>8
  <2>3. /\ u \in Seq(S)
        /\ Len(u) = IF k + 1 <= n THEN n - (k + 1) + 1 ELSE 0
        /\ \A x \in 1 .. n - (k + 1) + 1 : u[x] = s[k + 1 + x - 1]
    BY <2>1, <2>2, SubSeqProperties
  <2> HIDE DEF u
  <2> QED  BY <1>3, <1>8, <2>3
<1> HIDE DEF u
<1>10. ASSUME NEW x \in 1 .. n - k PROVE t[x] = u[x]
  <2>1. x \in Nat /\ x > 0 /\ k + x \in 1 .. n
    BY <1>3, <1>8
  <2> QED  BY <1>5, <1>6, <1>7, <1>9, <2>1
<1>11. t = u
  BY <1>7, <1>9, <1>10, SeqEqual
<1> QED  BY <1>6, <1>11 DEF m, n, s, t, u

(* What is held up to a position and from there on                         *)
LEMMA HeldJoins ==
  ASSUME NEW N, NEW W, Turns(N, W),
         NEW i \in 0 .. W - 1, NEW j \in 0 .. W - 1, NEW m \in 0 .. W - 1,
         NEW S, NEW f \in [0 .. N - 1 -> S], Gap(W, i, j) + Gap(W, j, m) = Gap(W, i, m)
  PROVE  InRing(N, W, f, i, m) = InRing(N, W, f, i, j) \o InRing(N, W, f, j, m)
<1>1. N \in Nat /\ N > 0 /\ W \in Nat /\ W > 0
  BY DEF Turns
<1> DEFINE n == Gap(W, i, j)
           c == Gap(W, j, m)
           s == InRing(N, W, f, i, j)
           t == InRing(N, W, f, j, m)
           u == InRing(N, W, f, i, m)
<1>2. n \in 0 .. W - 1 /\ c \in 0 .. W - 1 /\ Gap(W, i, m) = n + c
  BY <1>1, GapRange
<1>3. j = Further(W, i, n)
  BY <1>1, <1>2, GapAt
<1>4. Lists(s, n, N, f, i, S)
  BY HeldIs
<1>5. Lists(t, c, N, f, j, S)
  BY HeldIs
<1>6. Lists(u, n + c, N, f, i, S)
  BY <1>2, HeldIs
<1> HIDE DEF n, c, s, t, u
<1> USE DEF Lists
<1>7. n \in Nat /\ c \in Nat /\ n \in 0 .. W
  BY <1>1, <1>2
<1>8. \A y \in Nat : y > 0 => RingPlace(N, j, y) = RingPlace(N, i, n + y)
  BY <1>3, <1>7, PlaceFurther
<1>9. /\ s \o t \in Seq(S) /\ Len(s \o t) = n + c
      /\ \A x \in 1 .. n + c : (s \o t)[x] = IF x <= n THEN s[x] ELSE t[x - n]
  BY <1>4, <1>5, ConcatProperties
<1>10. ASSUME NEW x \in 1 .. n + c PROVE u[x] = (s \o t)[x]
  <2>1. CASE x <= n
    <3>1. x \in 1 .. n
      BY <1>7, <2>1
    <3> QED  BY <1>4, <1>6, <1>9, <2>1, <3>1
  <2>2. CASE ~(x <= n)
    <3>1. x - n \in 1 .. c /\ x - n \in Nat /\ x - n > 0 /\ n + (x - n) = x
      BY <1>7, <2>2
    <3>2. RingPlace(N, j, x - n) = RingPlace(N, i, x)
      BY <1>8, <3>1
    <3> QED  BY <1>5, <1>6, <1>9, <2>2, <3>1, <3>2
  <2> QED  BY <2>1, <2>2
<1>11. u = s \o t
  BY <1>6, <1>9, <1>10, SeqEqual
<1> QED  BY <1>11 DEF s, t, u

(* The ring may change where nothing is held.                              *)
LEMMA HeldSame ==
  ASSUME NEW N, NEW W, NEW f, NEW g, NEW i, NEW j,
         \A k \in 1 .. Gap(W, i, j) : g[RingPlace(N, i, k)] = f[RingPlace(N, i, k)]
  PROVE  InRing(N, W, g, i, j) = InRing(N, W, f, i, j)
BY DEF InRing

(* A place beyond what is held, and within one turn of the ring            *)
LEMMA Beyond ==
  ASSUME NEW N, NEW W, Turns(N, W), NEW i \in 0 .. W - 1, NEW j \in 0 .. W - 1,
         NEW k \in 1 .. Gap(W, i, j), NEW c \in Nat, c > 0, Gap(W, i, j) + c <= N
  PROVE  RingPlace(N, i, k) # RingPlace(N, j, c)
<1>1. N \in Nat /\ N > 0 /\ W \in Nat /\ W > 0
  BY DEF Turns
<1> DEFINE n == Gap(W, i, j)
<1>2. n \in 0 .. W - 1
  BY <1>1, GapRange
<1>3. j = Further(W, i, n)
  BY <1>1, <1>2, GapAt
<1> HIDE DEF n
<1>4. n \in 0 .. W /\ n \in Nat /\ n + c \in 1 .. N /\ k \in 1 .. N /\ k # n + c
  BY <1>1, <1>2 DEF n
<1>5. RingPlace(N, j, c) = RingPlace(N, i, n + c)
  BY <1>3, <1>4, PlaceFurther
<1>6. RingPlace(N, i, k) # RingPlace(N, i, n + c)
  <2> DEFINE y == n + c
  <2>1. y \in 1 .. N /\ k # y /\ i \in Nat
    BY <1>4
  <2> HIDE DEF y
  <2>2. RingPlace(N, i, k) # RingPlace(N, i, y)
    BY <1>1, <1>4, <2>1, PlacesApart
  <2> QED  BY <2>2 DEF y
<1> QED  BY <1>5, <1>6

(* Ring g is f with the first k entries of s from position j on.           *)
PutAt(N, f, g, j, s, k) ==
  /\ \A x \in 1 .. k : g[RingPlace(N, j, x)] = s[x]
  /\ \A y \in 0 .. N - 1 : (\A x \in 1 .. k : RingPlace(N, j, x) # y) => g[y] = f[y]

(* Entries put behind those that are held, in the places that are free     *)
LEMMA RingAppends ==
  ASSUME NEW N, NEW W, Turns(N, W), N < W, NEW i \in 0 .. W - 1, NEW j \in 0 .. W - 1,
         NEW S, NEW f \in [0 .. N - 1 -> S], NEW g \in [0 .. N - 1 -> S],
         NEW s \in Seq(S), NEW k \in 0 .. Len(s), Gap(W, i, j) + k <= N, PutAt(N, f, g, j, s, k)
  PROVE  InRing(N, W, g, i, Further(W, j, k)) = InRing(N, W, f, i, j) \o SubSeq(s, 1, k)
<1> SUFFICES ASSUME NEW m, m = Further(W, j, k), NEW n, n = Gap(W, i, j)
             PROVE  InRing(N, W, g, i, m) = InRing(N, W, f, i, j) \o SubSeq(s, 1, k)
  OBVIOUS
<1>1. W \in Nat /\ W > 0 /\ N \in Nat /\ N > 0
  BY DEF Turns
<1>2. n \in 0 .. W - 1
  BY <1>1, GapRange
<1>3. n \in Nat /\ k \in Nat /\ n + k <= N /\ n + k < W
  BY <1>1, <1>2
<1>4. m \in 0 .. W - 1 /\ Gap(W, i, m) = n + k
  BY <1>1, <1>3, SecondMoves
<1>5. Gap(W, j, m) = k
  <2>1. k \in 0 .. W - 1
    BY <1>1, <1>3
  <2> QED  BY <1>1, <1>4, <2>1, GapAt
<1>6. InRing(N, W, g, i, m) = InRing(N, W, g, i, j) \o InRing(N, W, g, j, m)
  <2>1. Gap(W, i, j) + Gap(W, j, m) = Gap(W, i, m)
    BY <1>4, <1>5
  <2>2. i \in 0 .. W - 1 /\ j \in 0 .. W - 1 /\ g \in [0 .. N - 1 -> S]
    OBVIOUS
  <2> QED  BY ONLY Turns(N, W), <1>4, <2>1, <2>2, HeldJoins
<1>7. InRing(N, W, g, i, j) = InRing(N, W, f, i, j)
  <2>1. ASSUME NEW x \in 1 .. n PROVE g[RingPlace(N, i, x)] = f[RingPlace(N, i, x)]
    <3>1. x \in Nat /\ x > 0 /\ i \in Nat
      BY <1>1, <1>3
    <3>2. RingPlace(N, i, x) \in 0 .. N - 1
      BY <1>1, <3>1, PlaceInside
    <3>3. ASSUME NEW y \in 1 .. k PROVE RingPlace(N, j, y) # RingPlace(N, i, x)
      <4>1. y \in Nat /\ y > 0
        BY <1>3
      <4>2. n + y <= N
        BY <1>1, <1>3, <4>1
      <4>3. x \in 1 .. Gap(W, i, j) /\ Gap(W, i, j) + y <= N
        BY <4>2
      <4> QED  BY <4>1, <4>3, Beyond
    <3> QED  BY <3>2, <3>3 DEF PutAt
  <2>2. \A x \in 1 .. Gap(W, i, j) : g[RingPlace(N, i, x)] = f[RingPlace(N, i, x)]
    BY <2>1
  <2> QED  BY <2>2 DEF InRing
<1>8. InRing(N, W, g, j, m) = SubSeq(s, 1, k)
  <2> DEFINE t == InRing(N, W, g, j, m)
             u == SubSeq(s, 1, k)
  <2>1. Lists(t, k, N, g, j, S)
    BY <1>4, <1>5, HeldIs
  <2>2. u \in Seq(S) /\ Len(u) = k /\ \A x \in 1 .. k : u[x] = s[x]
    OBVIOUS
  <2> HIDE DEF t, u
  <2>3. t \in Seq(S) /\ Len(t) = Len(u) /\ \A x \in 1 .. Len(t) : t[x] = u[x]
    BY <2>1, <2>2 DEF Lists, PutAt
  <2>4. t = u
    BY <2>2, <2>3, SeqEqual
  <2> QED  BY <2>4 DEF t, u
<1> QED  BY <1>6, <1>7, <1>8

-----------------------------------------------------------------------------
(* The console delivers lines                                              *)

LEMMA ConsoleTurns == Turns(INPUT_BUF, InputWrap)
BY ConsoleAssumption DEF Turns

Input(f, i, j) == InRing(INPUT_BUF, InputWrap, f, i, j)

LEMMA InputIs ==
  /\ Delivered = Input(buf, r, w) /\ Edited = Input(buf, w, e)
  /\ Delivered' = Input(buf', r', w')
BY DEF Delivered, Edited, Between, Distance, Input, InRing, RingPlace, Gap

LEMMA InputGap == \A i, j : Distance(i, j) = Gap(InputWrap, i, j)
BY DEF Distance, Gap

(* What is delivered and what is edited make up the ring.                  *)
LEMMA InputJoins ==
  ASSUME NEW i \in RingIndex, NEW j \in RingIndex, NEW m \in RingIndex,
         NEW f \in [0 .. INPUT_BUF - 1 -> Character],
         Distance(i, j) + Distance(j, m) = Distance(i, m)
  PROVE  Input(f, i, m) = Input(f, i, j) \o Input(f, j, m)
<1>1. Gap(InputWrap, i, j) + Gap(InputWrap, j, m) = Gap(InputWrap, i, m)
  BY InputGap
<1>2. i \in 0 .. InputWrap - 1 /\ j \in 0 .. InputWrap - 1 /\ m \in 0 .. InputWrap - 1
  BY DEF RingIndex
<1> QED  BY <1>1, <1>2, ConsoleTurns, HeldJoins DEF Input

LEMMA TypeDelivers ==
  ASSUME ConsoleInv, ConsoleInv', NEW c \in Character, Type(c)
  PROVE  Delivered' = Delivered \/ Delivered' = Delivered \o Edited \o <<c>>
<1>1. /\ Distance(r, e) < INPUT_BUF /\ buf' = [buf EXCEPT ![e % INPUT_BUF] = c]
      /\ e' = Later(e, 1) /\ r' = r /\ (w' = e' \/ w' = w)
  BY DEF Type
<1>2. /\ buf \in [0 .. INPUT_BUF - 1 -> Character] /\ buf' \in [0 .. INPUT_BUF - 1 -> Character]
      /\ r \in RingIndex /\ w \in RingIndex /\ e \in RingIndex /\ e' \in RingIndex
  BY DEF ConsoleInv, ConsoleTypeOK, RingIndex
<1>3. Distance(r, e') = Distance(r, e) + 1 /\ Distance(e, e') = 1
  <2>1. Distance(r, e) + 1 < InputWrap /\ 0 + 1 < InputWrap
    BY <1>1, ConsoleAt, ConsoleFacts
  <2>2. Distance(e, e) = 0
    BY <1>2, DistanceIs
  <2> QED  BY <1>1, <1>2, <2>1, <2>2, DistanceOn
<1>4. ASSUME NEW k \in 1 .. Distance(r, e)
      PROVE  buf'[RingPlace(INPUT_BUF, r, k)] = buf[RingPlace(INPUT_BUF, r, k)]
  <2>1. RingPlace(INPUT_BUF, r, k) # RingPlace(INPUT_BUF, e, 1)
    <3>1. r \in 0 .. InputWrap - 1 /\ e \in 0 .. InputWrap - 1
      BY <1>2 DEF RingIndex
    <3>2. k \in 1 .. Gap(InputWrap, r, e) /\ Gap(InputWrap, r, e) + 1 <= INPUT_BUF
      BY <1>1, InputGap, ConsoleAt, ConsoleFacts
    <3>3. 1 \in Nat /\ 1 > 0
      OBVIOUS
    <3> QED  BY <3>1, <3>2, <3>3, ConsoleTurns, Beyond
  <2>2. RingPlace(INPUT_BUF, e, 1) = e % INPUT_BUF
    <3>1. e + 1 - 1 = e
      BY <1>2 DEF RingIndex
    <3> QED  BY <3>1 DEF RingPlace
  <2> QED  BY <1>1, <1>2, <2>1, <2>2
<1>5. Input(buf', r, e) = Input(buf, r, e)
  <2>1. \A k \in 1 .. Gap(InputWrap, r, e) :
          buf'[RingPlace(INPUT_BUF, r, k)] = buf[RingPlace(INPUT_BUF, r, k)]
    BY <1>4, InputGap
  <2> QED  BY <2>1, HeldSame DEF Input
<1>6. CASE w' = e'
  <2>1. Delivered' = Input(buf', r, e) \o Input(buf', e, e')
    <3>1. Distance(r, e) + Distance(e, e') = Distance(r, e')
      BY <1>3
    <3>2. Input(buf', r, e') = Input(buf', r, e) \o Input(buf', e, e')
      BY <1>2, <3>1, InputJoins
    <3> QED  BY <1>1, <1>6, <3>2, InputIs
  <2>2. Input(buf, r, e) = Delivered \o Edited
    BY <1>2, ConsoleAt, InputJoins, InputIs
  <2>3. Input(buf', e, e') = <<c>>
    <3> DEFINE s == Input(buf', e, e')
    <3>1. Lists(s, 1, INPUT_BUF, buf', e, Character)
      <4>1. e \in 0 .. InputWrap - 1 /\ e' \in 0 .. InputWrap - 1
        BY <1>2 DEF RingIndex
      <4>2. Lists(s, Gap(InputWrap, e, e'), INPUT_BUF, buf', e, Character)
        BY <1>2, <4>1, ConsoleTurns, HeldIs DEF Input
      <4> QED  BY <1>3, <4>2, InputGap
    <3>2. buf'[RingPlace(INPUT_BUF, e, 1)] = c
      <4>1. e + 1 - 1 = e
        BY <1>2 DEF RingIndex
      <4>2. e % INPUT_BUF \in 0 .. INPUT_BUF - 1
        BY <1>2, ConsoleFacts DEF RingIndex
      <4> QED  BY <1>1, <1>2, <4>1, <4>2 DEF RingPlace
    <3> HIDE DEF s
    <3>3. s \in Seq(Character) /\ Len(s) = 1 /\ s[1] = c
      BY <3>1, <3>2 DEF Lists
    <3>4. s = <<c>>
      BY <3>3
    <3> QED  BY <3>4 DEF s
  <2> QED  BY <1>5, <2>1, <2>2, <2>3
<1>7. CASE w' = w
  <2>1. \A k \in 1 .. Gap(InputWrap, r, w) :
          buf'[RingPlace(INPUT_BUF, r, k)] = buf[RingPlace(INPUT_BUF, r, k)]
    <3>1. 1 .. Distance(r, w) \subseteq 1 .. Distance(r, e)
      BY ConsoleAt
    <3> QED  BY <1>4, <3>1, InputGap
  <2>2. Input(buf', r, w) = Input(buf, r, w)
    BY <2>1, HeldSame DEF Input
  <2> QED  BY <1>1, <1>7, <2>2, InputIs
<1> QED  BY <1>1, <1>6, <1>7

(* consoleread() takes from the front.                                     *)
LEMMA ReadTakes ==
  ASSUME ConsoleInv, NEW p \in Process, Consoleread(p)
  PROVE  \E m \in 0 .. Distance(r, w) : r' = Later(r, m) /\ UNCHANGED <<buf, w>>
<1> SUFFICES ASSUME NEW n, n = reading[p].n, NEW k, k = Gets(n)
             PROVE  \E m \in 0 .. Distance(r, w) : r' = Later(r, m) /\ UNCHANGED <<buf, w>>
  OBVIOUS
<1>1. r' = Later(r, IF LeavesEof(p, k) THEN k - 1 ELSE k) /\ UNCHANGED <<buf, w>>
  BY DEF Consoleread
<1>2. n \in Nat
  BY DEF ConsoleInv, ConsoleTypeOK
<1>3. k \in Nat /\ k <= Distance(r, w) /\ Distance(r, w) \in Nat
  BY <1>2, GetsIs, ConsoleAt
<1>4. k \in 0 .. Distance(r, w) /\ (k > 0 => k - 1 \in 0 .. Distance(r, w))
  BY <1>3
<1>5. LeavesEof(p, k) => k > 0
  BY DEF LeavesEof
<1> QED  BY <1>1, <1>4, <1>5

LEMMA ReadDelivers ==
  ASSUME ConsoleInv, NEW p \in Process, Consoleread(p)
  PROVE  \/ Delivered' = Delivered
         \/ \E k \in DOMAIN Delivered : Delivered' = SubSeq(Delivered, k + 1, Len(Delivered))
<1>1. PICK m \in 0 .. Distance(r, w) : r' = Later(r, m) /\ UNCHANGED <<buf, w>>
  BY ReadTakes
<1>2. /\ buf \in [0 .. INPUT_BUF - 1 -> Character]
      /\ r \in 0 .. InputWrap - 1 /\ w \in 0 .. InputWrap - 1 /\ r \in RingIndex
  BY DEF ConsoleInv, ConsoleTypeOK, RingIndex
<1>3. Delivered' = SubSeq(Delivered, m + 1, Len(Delivered))
  <2>1. m \in 0 .. Gap(InputWrap, r, w)
    BY InputGap
  <2>2. Input(buf, Further(InputWrap, r, m), w)
          = SubSeq(Input(buf, r, w), m + 1, Len(Input(buf, r, w)))
    BY <1>2, <2>1, ConsoleTurns, HeldFront DEF Input
  <2>3. r' = Further(InputWrap, r, m)
    BY <1>1 DEF Later, Further
  <2> QED  BY <1>1, <2>2, <2>3, InputIs
<1>4. CASE m = 0
  <2>1. r' = r
    BY <1>1, <1>2, <1>4, DistanceNone
  <2> QED  BY <1>1, <2>1, InputIs
<1>5. CASE m # 0
  <2>1. Lists(Delivered, Distance(r, w), INPUT_BUF, buf, r, Character)
    BY <1>2, ConsoleTurns, HeldIs, InputIs, InputGap DEF Input
  <2>2. m \in DOMAIN Delivered
    <3>1. m \in 1 .. Len(Delivered)
      BY <1>5, <2>1, ConsoleAt DEF Lists
    <3> QED  BY <2>1, <3>1 DEF Lists
  <2> QED  BY <1>3, <2>2
<1> QED  BY <1>4, <1>5

(* Nothing else touches the ring.                                          *)
LEMMA RingElsewhere ==
  ASSUME NEW p \in Process,
         \/ Descriptors(p) \/ MakePipe(p) \/ OnPipe(p) \/ OnInode(p) \/ OnContents(p)
         \/ OpenFile(p) \/ OpenFails(p) \/ Life(p)
  PROVE  UNCHANGED inputVars
<1>1. CASE Descriptors(p)
  BY <1>1 DEF Descriptors, Dup, Close, CloseFd, Read, ReadConsole, Write, PipeCall, ReadFile,
     WriteFile, consoleVars
<1>2. CASE MakePipe(p) \/ OnPipe(p) \/ OnInode(p) \/ OnContents(p)
  BY <1>2 DEF MakePipe, PipeFirstFile, PipeNoFile, PipeNoPage, PipeMade, PipeNoFds, PipeCloses,
     OnPipe, OnInode, OnContents, consoleVars
<1>3. CASE OpenFile(p) \/ OpenFails(p) \/ Life(p)
  BY <1>3 DEF OpenFile, OpenFails, Life, Exit, ExitCloses, CloseFd, ExitEnds, Fork, Kill,
              consoleVars
<1> QED  BY <1>1, <1>2, <1>3

DeliversStep ==
  \/ Delivered' = Delivered
  \/ \E c \in Character : Delivered' = Delivered \o Edited \o <<c>>
  \/ \E k \in DOMAIN Delivered : Delivered' = SubSeq(Delivered, k + 1, Len(Delivered))

LEMMA EveryStepDelivers ==
  StreamInv /\ StreamInv' /\ [Next]_vars => [DeliversStep]_inputVars
<1> SUFFICES ASSUME StreamInv, StreamInv', [Next]_vars PROVE DeliversStep \/ UNCHANGED inputVars
  OBVIOUS
<1>1. CASE Keyboard
  <2>1. CASE Backspace \/ KillLine
    <3>1. Delivered' = Delivered
      <4>1. UNCHANGED <<buf, r, w>>
        BY <2>1 DEF Backspace, KillLine
      <4> QED  BY <4>1, InputIs
    <3> QED  BY <3>1 DEF DeliversStep
  <2>2. CASE \E c \in Character : Type(c)
    BY <2>2, TypeDelivers DEF DeliversStep, StreamInv
  <2> QED  BY <1>1, <2>1, <2>2 DEF Keyboard, ConsoleIntr
<1>2. CASE \E p \in Process : OnConsole(p)
  BY <1>2, ReadDelivers DEF OnConsole, DeliversStep, StreamInv
<1>3. CASE UNCHANGED vars
  BY <1>3 DEF vars, consoleVars
<1> QED  BY <1>1, <1>2, <1>3, RingElsewhere DEF Next

(* ConsoleDelivers, for a ring of any size: readers see whole lines in the *)
(* order they were finished; editing, a ring that is full and indices that *)
(* wrap around change nothing of what has been delivered.                  *)
THEOREM LinesDelivered == Spec => ConsoleDelivers
<1>1. StreamInv /\ StreamInv' /\ [Next]_vars => [DeliversStep]_inputVars
  BY EveryStepDelivers
<1> QED  BY <1>1, AllStreams, PTL DEF Spec, ConsoleDelivers, DeliversStep

-----------------------------------------------------------------------------
(* Who is in a call on a pipe has a descriptor of that end of it.          *)

WriteCalls == {"write", "write_sleep"}
UsesEnd(p) == pc[p] \in PipeCalls =>
  \E fd \in FD : ofile[p][fd] \in Ends(request[p].pipe, pc[p] \in WriteCalls)
PipeUsers == \A p \in Process : UsesEnd(p)

SameFile(f) == /\ ftable'[f].type = ftable[f].type /\ ftable'[f].obj = ftable[f].obj
               /\ ftable'[f].writable = ftable[f].writable
KeepsFiles(x) == /\ ofile'[x] = ofile[x]
                 /\ \A fd \in FD : ofile[x][fd] \in File => SameFile(ofile[x][fd])
StaysIn(x) == /\ pc[x] \in PipeCalls /\ request'[x].pipe = request[x].pipe
              /\ (pc'[x] \in WriteCalls) = (pc[x] \in WriteCalls)

LEMMA UsersKept ==
  ASSUME PipeUsers,
         \A x \in Process : pc'[x] \notin PipeCalls \/ (StaysIn(x) /\ KeepsFiles(x))
  PROVE  PipeUsers'
<1> SUFFICES ASSUME NEW x \in Process, pc'[x] \in PipeCalls PROVE UsesEnd(x)'
  BY DEF PipeUsers, UsesEnd
<1>1. StaysIn(x) /\ KeepsFiles(x)
  OBVIOUS
<1>2. PICK fd \in FD : ofile[x][fd] \in Ends(request[x].pipe, pc[x] \in WriteCalls)
  BY <1>1 DEF PipeUsers, UsesEnd, StaysIn
<1>3. SameFile(ofile[x][fd]) /\ ofile'[x][fd] = ofile[x][fd]
  BY <1>1, <1>2 DEF KeepsFiles, Ends
<1>4. ofile'[x][fd] \in Ends(request[x].pipe, pc[x] \in WriteCalls)'
  BY <1>1, <1>2, <1>3 DEF Ends, SameFile, StaysIn
<1> QED  BY <1>4 DEF UsesEnd

(* The files of a call: a step of another process that takes or gives back *)
(* a file that nobody else has leaves them alone.                          *)
LEMMA UsersBeside ==
  ASSUME CallInv, PipeUsers, Beside, NEW p \in Process, pc[p] \notin PipeCalls,
         NEW F \in SUBSET File,
         \A x \in Process \ {p} : pc[x] \in PipeCalls => ofile'[x] = ofile[x],
         \A g \in File \ F : SameFile(g),
         \A x \in Process \ {p} : \A fd \in FD : ofile[x][fd] \notin F
  PROVE  PipeUsers'
<1>1. ASSUME NEW x \in Process, pc'[x] \in PipeCalls PROVE StaysIn(x) /\ KeepsFiles(x)
  <2>1. pc'[x] = pc[x] /\ request'[x] = request[x] /\ x # p
    BY <1>1 DEF Beside
  <2> QED  BY <1>1, <2>1 DEF StaysIn, KeepsFiles
<1> QED  BY <1>1, UsersKept

LEMMA UsersAlone ==
  ASSUME PipeUsers, Beside, UNCHANGED <<ofile, ftable>> PROVE PipeUsers'
<1>1. ASSUME NEW x \in Process, pc'[x] \in PipeCalls PROVE StaysIn(x) /\ KeepsFiles(x)
  BY <1>1 DEF Beside, StaysIn, KeepsFiles, SameFile
<1> QED  BY <1>1, UsersKept

LEMMA UsersFork ==
  ASSUME CallInv, PipeUsers, NEW p \in Process, NEW child \in Process, Fork(p, child)
  PROVE  PipeUsers'
<1>1. pc[child] = "dead" /\ ofile' = [ofile EXCEPT ![child] = ofile[p]] /\ ftable' = Shared(p)
  BY DEF Fork
<1>2. ASSUME NEW f \in File PROVE SameFile(f)
  <2> DEFINE n == Cardinality({fd \in FD : ofile[p][fd] = f})
             x == [ftable[f] EXCEPT !.ref = @ + n]
  <2>1. ftable'[f] = x
    BY <1>1 DEF Shared
  <2>2. ftable[f] \in FileEntry
    BY DEF CallInv, Kinds
  <2> HIDE DEF n
  <2>3. x.type = ftable[f].type /\ x.obj = ftable[f].obj /\ x.writable = ftable[f].writable
    BY <2>2 DEF FileEntry
  <2> HIDE DEF x
  <2> QED  BY <2>1, <2>3 DEF SameFile
<1>3. Beside
  BY BesideProcesses
<1>4. /\ pc[child] \notin PipeCalls /\ {} \in SUBSET File
      /\ \A x \in Process \ {child} : pc[x] \in PipeCalls => ofile'[x] = ofile[x]
      /\ \A g \in File \ {} : SameFile(g)
      /\ \A x \in Process \ {child} : \A fd \in FD : ofile[x][fd] \notin {}
  BY <1>1, <1>2 DEF PipeCalls, CallInv, Kinds
<1> QED  BY <1>3, <1>4, UsersBeside

LEMMA UsersDup ==
  ASSUME CallInv, RefInv, PipeUsers, NEW p \in Process, NEW fd \in FD, Dup(p, fd)
  PROVE  PipeUsers'
<1> DEFINE f == ofile[p][fd]
           x == [ftable[f] EXCEPT !.ref = @ + 1]
<1>1. /\ f # None /\ ftable' = [ftable EXCEPT ![f] = x] /\ pc[p] = "user"
      /\ \E c : ofile' = [ofile EXCEPT ![p][c] = f]
  BY DEF Dup, Filedup, Running
<1>2. f \in File
  BY <1>1, OpenFileKnown DEF RefInv
<1>3. ftable[f] \in FileEntry /\ DOMAIN ftable = File /\ DOMAIN ofile = Process
  BY <1>2 DEF CallInv, Kinds
<1>4. x.type = ftable[f].type /\ x.obj = ftable[f].obj /\ x.writable = ftable[f].writable
  BY <1>3 DEF FileEntry
<1> HIDE DEF f, x
<1>5. Beside
  BY BesideProcesses
<1>6. /\ pc[p] \notin PipeCalls /\ {} \in SUBSET File
      /\ \A v \in Process \ {p} : pc[v] \in PipeCalls => ofile'[v] = ofile[v]
      /\ \A g \in File \ {} : SameFile(g)
      /\ \A v \in Process \ {p} : \A c \in FD : ofile[v][c] \notin {}
  BY <1>1, <1>3, <1>4 DEF PipeCalls, SameFile
<1> QED  BY <1>5, <1>6, UsersBeside

LEMMA UsersNewFile ==
  ASSUME CallInv, RefInv, PipeUsers, NEW p \in Process,
         PipeFirstFile(p) \/ PipeNoPage(p) \/ OpenFile(p)
  PROVE  PipeUsers'
<1>1. Beside
  BY BesideProcesses
<1>2. /\ pc[p] \in {"user", "pipealloc", "opened"}
      /\ \A x \in Process \ {p} : ofile'[x] = ofile[x]
  BY DEF PipeFirstFile, PipeNoPage, OpenFile, Running, Move, CallInv, Kinds
<1> DEFINE f == Least(FreeFiles)
<1>3. FreeFiles # {} /\ \E y : ftable' = [ftable EXCEPT ![f] = y]
  BY DEF PipeFirstFile, PipeNoPage, OpenFile
<1>4. f \in File /\ ftable[f].ref = 0
  BY <1>3, LeastFile
<1> HIDE DEF f
<1>5. \A x \in Process : \A fd \in FD : ofile[x][fd] # f
  BY <1>4, FreeFileKnown DEF RefInv
<1>6. /\ pc[p] \notin PipeCalls /\ {f} \in SUBSET File
      /\ \A x \in Process \ {p} : pc[x] \in PipeCalls => ofile'[x] = ofile[x]
      /\ \A g \in File \ {f} : SameFile(g)
      /\ \A x \in Process \ {p} : \A fd \in FD : ofile[x][fd] \notin {f}
  BY <1>2, <1>3, <1>4, <1>5 DEF PipeCalls, SameFile, CallInv, Kinds
<1> QED  BY <1>1, <1>6, UsersBeside

(* The files pipe() gives back are on nobody's descriptors.                *)
LEMMA UsersGiveBack ==
  ASSUME CallInv, RefInv, PipeUsers, NEW p \in Process, PipeNoFile(p) \/ PipeCloses(p)
  PROVE  PipeUsers'
<1>1. Beside
  BY BesideProcesses, BesidePipeCloses
<1>2. pc[p] \in {"pipealloc", "pipefail"} /\ UNCHANGED ofile
  BY DEF PipeNoFile, PipeCloses, Move
<1>3. PICK v \in Half : /\ pfile[v] # None
                        /\ ftable' = [ftable EXCEPT ![pfile[v]] = NoFile]
  <2>1. CASE PipeNoFile(p)
    <3>1. /\ pc[p] = "pipealloc" /\ ftable' = [ftable EXCEPT ![pfile[<<p, FALSE>>]] = NoFile]
          /\ <<p, FALSE>> \in Half
      BY <2>1 DEF PipeNoFile, Move, Half
    <3>2. pfile[<<p, FALSE>>] # None
      BY <3>1 DEF CallInv, Shape, PipeShape, Rf
    <3> QED  BY <3>1, <3>2
  <2>2. CASE PipeCloses(p)
    <3>1. PICK second \in BOOLEAN : GivesBack(p, second)
      BY <2>2, CleanupGivesBack
    <3>2. pfile[<<p, second>>] # None /\ <<p, second>> \in Half
      BY <3>1, ConstFacts DEF GivesBack, Half
    <3> QED  BY <3>1, <3>2 DEF GivesBack
  <2> QED  BY <2>1, <2>2
<1> DEFINE f == pfile[v]
<1>4. f \in File /\ \A x \in Process : \A fd \in FD : ofile[x][fd] # f
  BY <1>3, HeldFileKnown DEF RefInv
<1> HIDE DEF f
<1>5. /\ pc[p] \notin PipeCalls /\ {f} \in SUBSET File
      /\ \A x \in Process \ {p} : pc[x] \in PipeCalls => ofile'[x] = ofile[x]
      /\ \A g \in File \ {f} : SameFile(g)
      /\ \A x \in Process \ {p} : \A fd \in FD : ofile[x][fd] \notin {f}
  BY <1>2, <1>3, <1>4 DEF f, PipeCalls, SameFile, CallInv, Kinds
<1> QED  BY <1>1, <1>5, UsersBeside

LEMMA UsersClose ==
  ASSUME CallInv, RefInv, PipeUsers, NEW p \in Process,
         ExitCloses(p) \/ \E fd \in FD : Close(p, fd)
  PROVE  PipeUsers'
<1>1. PICK fd \in FD : CloseFd(p, fd)
  BY LeastOpen DEF ExitCloses, Close
<1>2. pc[p] \in {"user", "exiting"} /\ Beside
  BY BesideClose DEF ExitCloses, Close, Running
<1> DEFINE f == ofile[p][fd]
<1>3. f # None /\ ofile' = [ofile EXCEPT ![p][fd] = None] /\ Fileclose(p, f, Return(p))
  BY <1>1 DEF CloseFd
<1>4. /\ f \in File /\ ftable[f].ref \in Nat /\ ftable[f].ref > 0
      /\ ftable[f].ref = 1 => \A q \in Process : \A c \in FD : ofile[q][c] = f => q = p
  BY <1>3, OpenFileKnown DEF RefInv
<1>5. ftable[f] \in FileEntry /\ DOMAIN ftable = File /\ DOMAIN ofile = Process
  BY <1>4 DEF CallInv, Kinds
<1> HIDE DEF f
<1>6. /\ pc[p] \notin PipeCalls
      /\ \A x \in Process \ {p} : pc[x] \in PipeCalls => ofile'[x] = ofile[x]
  BY <1>2, <1>3, <1>5 DEF PipeCalls
<1>7. CASE ftable[f].ref > 1
  <2> DEFINE y == [ftable[f] EXCEPT !.ref = @ - 1]
  <2>1. ftable' = [ftable EXCEPT ![f] = y]
    BY <1>3, <1>7 DEF Fileclose
  <2>2. y.type = ftable[f].type /\ y.obj = ftable[f].obj /\ y.writable = ftable[f].writable
    BY <1>5 DEF FileEntry
  <2> HIDE DEF y
  <2>3. /\ {} \in SUBSET File /\ \A g \in File \ {} : SameFile(g)
        /\ \A x \in Process \ {p} : \A c \in FD : ofile[x][c] \notin {}
    BY <1>5, <2>1, <2>2 DEF SameFile
  <2> QED  BY <1>2, <1>6, <2>3, UsersBeside
<1>8. CASE ~(ftable[f].ref > 1)
  <2>1. ftable' = [ftable EXCEPT ![f] = NoFile] /\ ftable[f].ref = 1
    BY <1>3, <1>4, <1>8 DEF Fileclose
  <2>2. /\ {f} \in SUBSET File /\ \A g \in File \ {f} : SameFile(g)
        /\ \A x \in Process \ {p} : \A c \in FD : ofile[x][c] \notin {f}
    BY <1>4, <1>5, <2>1 DEF SameFile
  <2> QED  BY <1>2, <1>6, <2>2, UsersBeside
<1> QED  BY <1>7, <1>8

LEMMA UsersPipeMade ==
  ASSUME CallInv, RefInv, PipeUsers, NEW p \in Process, TakesPage(p) PROVE PipeUsers'
<1>1. /\ pc[p] = "pipealloc" /\ FreeFiles # {} /\ Pipealloc(Rf(p), Least(FreeFiles))
      /\ \E to \in {"user", "pipefail"} : pc' = [pc EXCEPT ![p] = to]
      /\ \A x \in Process \ {p} : ofile'[x] = ofile[x]
  BY PageTaken
<1>2. UNCHANGED request
  BY <1>1 DEF Pipealloc, CreatePipe
<1>3. \E f, g \in File : \E q \in Pipe : \E x, y : PipeFiles(p, f, g, q, x, y)
  BY <1>1, PipeFilesAre
<1>4. PICK f, g \in File : \E q \in Pipe : \E x, y : PipeFiles(p, f, g, q, x, y)
  BY <1>3
<1>a. PICK q \in Pipe : \E x, y : PipeFiles(p, f, g, q, x, y)
  BY <1>4
<1>b. PICK x, y : PipeFiles(p, f, g, q, x, y)
  BY <1>a
<1>5. /\ \A v \in Process : \A b \in FD : ofile[v][b] # f
      /\ ftable[g].ref = 0
      /\ ftable' = [ftable EXCEPT ![f] = x, ![g] = y]
  BY <1>b DEF PipeFiles
<1>6. \A v \in Process : \A b \in FD : ofile[v][b] # g
  BY <1>5, FreeFileKnown DEF RefInv
<1>7. \A h \in File \ {f, g} : SameFile(h)
  BY <1>5 DEF SameFile, CallInv, Kinds
<1>8. ASSUME NEW v \in Process, pc'[v] \in PipeCalls PROVE StaysIn(v) /\ KeepsFiles(v)
  <2>1. v # p /\ pc'[v] = pc[v] /\ request'[v] = request[v] /\ ofile'[v] = ofile[v]
    BY <1>1, <1>2, <1>8 DEF PipeCalls, CallInv, Kinds
  <2> QED  BY <1>5, <1>6, <1>7, <1>8, <2>1 DEF StaysIn, KeepsFiles
<1> QED  BY <1>8, UsersKept

LEMMA UsersCalls ==
  ASSUME CallInv, RefInv, PipeUsers, NEW p \in Process, NEW fd \in FD,
         \/ \E n \in Counts : Read(p, fd, n)
         \/ \E n \in ConsoleCounts : ReadConsole(p, fd, n)
         \/ \E s \in Writes : Write(p, fd, s)
  PROVE  PipeUsers'
<1>1. /\ UNCHANGED <<ofile, ftable>>
      /\ \A x \in Process \ {p} : pc'[x] = pc[x] /\ request'[x] = request[x]
  BY DEF Read, ReadConsole, Write, PipeCall, Move, fileVars, pipeVars, CallInv, Kinds
<1>2. ASSUME NEW x \in Process \ {p} PROVE UsesEnd(x)'
  BY <1>1 DEF PipeUsers, UsesEnd, Ends
<1>3. UsesEnd(p)'
  <2>1. CASE \E n \in ConsoleCounts : ReadConsole(p, fd, n)
    <3>1. pc'[p] = "cread"
      BY <2>1 DEF ReadConsole, Move, CallInv, Kinds
    <3> QED  BY <3>1 DEF UsesEnd, PipeCalls
  <2>2. CASE \E n \in Counts : Read(p, fd, n)
    <3> DEFINE f == ofile[p][fd]
    <3>1. /\ pc'[p] = "read" /\ request'[p].pipe = ftable[f].obj
          /\ f # None /\ ftable[f].type = "pipe" /\ ftable[f].writable = FALSE
      BY <2>2 DEF Read, PipeCall, Move, CallInv, Kinds
    <3>2. f \in File
      BY <3>1, OpenFileKnown DEF RefInv
    <3>3. (pc[p] \in WriteCalls)' = FALSE
      BY <3>1 DEF WriteCalls
    <3>4. f \in Ends(request[p].pipe, pc[p] \in WriteCalls)'
      BY <1>1, <3>1, <3>2, <3>3 DEF Ends
    <3> QED  BY <1>1, <3>4 DEF UsesEnd
  <2>3. CASE \E s \in Writes : Write(p, fd, s)
    <3> DEFINE f == ofile[p][fd]
    <3>1. /\ pc'[p] = "write" /\ request'[p].pipe = ftable[f].obj
          /\ f # None /\ ftable[f].type = "pipe" /\ ftable[f].writable = TRUE
      BY <2>3 DEF Write, PipeCall, Move, CallInv, Kinds
    <3>2. f \in File
      BY <3>1, OpenFileKnown DEF RefInv
    <3>3. f \in Ends(request[p].pipe, pc[p] \in WriteCalls)'
      BY <1>1, <3>1, <3>2 DEF Ends, WriteCalls
    <3> QED  BY <1>1, <3>3 DEF UsesEnd
  <2> QED  BY <2>1, <2>2, <2>3
<1> QED  BY <1>2, <1>3 DEF PipeUsers

LEMMA UsersOnPipe ==
  ASSUME CallInv, PipeUsers, NEW p \in Process, OnPipe(p) PROVE PipeUsers'
<1> SUFFICES ASSUME NEW q, q = request[p].pipe, NEW b, b = request[p].writable PROVE PipeUsers'
  OBVIOUS
<1>1. UNCHANGED <<ofile, ftable>>
  BY DEF OnPipe, fileVars
<1>2. \/ /\ pc[p] = "read" /\ pc' = [pc EXCEPT ![p] = "read_sleep"] /\ UNCHANGED request
      \/ /\ pc[p] \in {"read", "write"}
         /\ \E f \in {WakeReaders(q), WakeWriters(q), pc} : pc' = [f EXCEPT ![p] = "user"]
         /\ request' = [request EXCEPT ![p] = NoRequest]
      \/ /\ pc[p] = "write" /\ pc' = [WakeReaders(q) EXCEPT ![p] = "write_sleep"]
         /\ \E s : request' = [request EXCEPT ![p].bytes = s]
      \/ /\ pc[p] = "pipeclose" /\ request' = [request EXCEPT ![p] = NoRequest]
         /\ \E f \in {WakeReaders(q), WakeWriters(q), pc} :
              \E to \in {"user", "exiting", "pipefail"} : pc' = [f EXCEPT ![p] = to]
  BY Returns DEF OnPipe, PipeStep, Pipewrite, PipereadSleeps, PipereadFails, Piperead, Pipeclose,
     CloseWakes, pipeVars
<1>3. DOMAIN pc = Process /\ DOMAIN request = Process
  BY DEF CallInv, Kinds
<1>4. \A f \in {WakeReaders(q), WakeWriters(q), pc} :
        /\ DOMAIN f = Process
        /\ \A x \in Process : \/ f[x] = pc[x]
                              \/ pc[x] = "read_sleep" /\ f[x] = "read"
                              \/ pc[x] = "write_sleep" /\ f[x] = "write"
  BY <1>3 DEF WakeReaders, WakeWriters, Woken
<1>5. ASSUME NEW x \in Process \ {p} PROVE pc'[x] \in PipeCalls => StaysIn(x)
  <2>1. /\ request'[x] = request[x]
        /\ \/ pc'[x] = pc[x]
           \/ pc[x] = "read_sleep" /\ pc'[x] = "read"
           \/ pc[x] = "write_sleep" /\ pc'[x] = "write"
    BY <1>2, <1>3, <1>4
  <2> QED  BY <2>1 DEF StaysIn, PipeCalls, WriteCalls
<1>6. pc'[p] \in PipeCalls => StaysIn(p)
  <2> SUFFICES ASSUME pc'[p] \in PipeCalls PROVE StaysIn(p)
    OBVIOUS
  <2>1. CASE pc[p] = "read" /\ pc' = [pc EXCEPT ![p] = "read_sleep"] /\ UNCHANGED request
    BY <1>3, <2>1 DEF StaysIn, PipeCalls, WriteCalls
  <2>2. CASE /\ pc[p] = "write" /\ pc' = [WakeReaders(q) EXCEPT ![p] = "write_sleep"]
             /\ \E s : request' = [request EXCEPT ![p].bytes = s]
    <3>1. PICK s : request' = [request EXCEPT ![p].bytes = s]
      BY <2>2
    <3> DEFINE y == [request[p] EXCEPT !.bytes = s]
    <3>2. request'[p] = y
      BY <1>3, <3>1
    <3>3. y.pipe = request[p].pipe
      BY SMT
    <3> HIDE DEF y
    <3>4. pc'[p] = "write_sleep"
      BY <1>4, <2>2
    <3> QED  BY <2>2, <3>2, <3>3, <3>4 DEF StaysIn, PipeCalls, WriteCalls
  <2>3. CASE \E f \in {WakeReaders(q), WakeWriters(q), pc} :
               \E to \in {"user", "exiting", "pipefail"} : pc' = [f EXCEPT ![p] = to]
    BY <1>4, <2>3 DEF PipeCalls
  <2> QED  BY <1>2, <2>1, <2>2, <2>3
<1>7. \A x \in Process : KeepsFiles(x)
  BY <1>1 DEF KeepsFiles, SameFile
<1> QED  BY <1>5, <1>6, <1>7, UsersKept

LEMMA UsersOther ==
  ASSUME CallInv, PipeUsers,
         \/ Keyboard
         \/ \E p \in Process : OnConsole(p) \/ \E q \in Process : Kill(p, q)
  PROVE  PipeUsers'
<1>1. UNCHANGED <<ofile, ftable, request>>
  BY DEF Keyboard, OnConsole, Kill, fileVars, pipeVars
<1>2. \A x \in Process : \/ pc'[x] = pc[x]
                         \/ pc'[x] \notin PipeCalls
                         \/ pc[x] = "read_sleep" /\ pc'[x] = "read"
                         \/ pc[x] = "write_sleep" /\ pc'[x] = "write"
  <2>1. CASE Keyboard
    <3>1. pc' = pc \/ pc' = WakeConsole
      BY <2>1 DEF Keyboard, ConsoleIntr, Backspace, KillLine, Type, callVars
    <3> QED  BY <3>1 DEF WakeConsole, PipeCalls
  <2>2. CASE \E p \in Process : OnConsole(p)
    BY <2>2 DEF OnConsole, Consoleread, CallInv, Kinds, PipeCalls
  <2>3. CASE \E p \in Process : \E q \in Process : Kill(p, q)
    BY <2>3 DEF Kill, Awake, CallInv, Kinds, PipeCalls
  <2> QED  BY <2>1, <2>2, <2>3
<1>3. ASSUME NEW x \in Process, pc'[x] \in PipeCalls PROVE StaysIn(x) /\ KeepsFiles(x)
  BY <1>1, <1>2, <1>3 DEF StaysIn, KeepsFiles, SameFile, PipeCalls, WriteCalls
<1> QED  BY <1>3, UsersKept

LEMMA UsersStep ==
  ASSUME AllInv, PipeUsers, [Next]_vars PROVE PipeUsers'
<1>0. CallInv /\ RefInv
  BY DEF AllInv
<1>1. ASSUME NEW p \in Process,
             OnInode(p) \/ OnContents(p) \/ OpenFails(p) \/ Exit(p) \/ ExitEnds(p)
      PROVE  PipeUsers'
  <2>1. UNCHANGED <<ofile, ftable>>
    BY <1>1 DEF OnInode, OnContents, OpenFails, Exit, ExitEnds, fileVars
  <2> QED  BY <1>0, <1>1, <2>1, BesideInode, BesideOnContents, BesideProcesses, UsersAlone
<1>2. ASSUME NEW p \in Process, NEW fd \in FD,
             \E n \in FileCounts : ReadFile(p, fd, n) \/ WriteFile(p, fd, n)
      PROVE  PipeUsers'
  <2>1. UNCHANGED <<ofile, ftable>>
    BY <1>2 DEF ReadFile, WriteFile
  <2>2. Beside
    BY <1>0, <1>2, BesideProcesses
  <2> QED  BY <2>1, <2>2, UsersAlone
<1>3. ASSUME NEW p \in Process, Descriptors(p) PROVE PipeUsers'
  BY <1>0, <1>2, <1>3, UsersDup, UsersClose, UsersCalls DEF Descriptors
<1>4. ASSUME NEW p \in Process, MakePipe(p) \/ OpenFile(p) \/ OnPipe(p) PROVE PipeUsers'
  BY <1>0, <1>4, UsersNewFile, UsersGiveBack, UsersPipeMade, UsersOnPipe DEF MakePipe, TakesPage
<1>5. ASSUME NEW p \in Process, Life(p) PROVE PipeUsers'
  BY <1>0, <1>1, <1>5, UsersClose, UsersFork, UsersOther DEF Life
<1>6. CASE Keyboard \/ \E p \in Process : OnConsole(p)
  BY <1>0, <1>6, UsersOther
<1>7. CASE UNCHANGED vars
  <2>1. Beside /\ UNCHANGED <<ofile, ftable>>
    BY <1>7 DEF Beside, vars, callVars, pipeVars, fileVars
  <2> QED  BY <2>1, UsersAlone
<1> QED  BY <1>1, <1>3, <1>4, <1>5, <1>6, <1>7 DEF Next

-----------------------------------------------------------------------------
(* Pipes are channels                                                      *)

Stored(q) == InRing(PIPESIZE, Wrap, data[q], nread[q], nwrite[q])
Idle == \A q \in Pipe : ~Allocated(q) => Empty(q)
ChannelInv == PipeUsers /\ Idle

LEMMA ContentsIs ==
  /\ Contents = [q \in Pipe |-> Stored(q)] /\ Contents' = [q \in Pipe |-> Stored(q)']
BY DEF Contents, Stored, InRing, Amount, Gap, RingPlace

LEMMA PipeTurns == Turns(PIPESIZE, Wrap)
BY PipeAssumption DEF Turns

LEMMA StoredIs ==
  ASSUME PipesTypeOK, NEW q \in Pipe
  PROVE  Stored(q) \in Seq(Byte) /\ Len(Stored(q)) = Amount(q) /\ Amount(q) \in 0 .. PIPESIZE
<1>1. /\ nread[q] \in 0 .. Wrap - 1 /\ nwrite[q] \in 0 .. Wrap - 1
      /\ data[q] \in [0 .. PIPESIZE - 1 -> Byte] /\ Amount(q) <= PIPESIZE
  BY DEF PipesTypeOK
<1>2. Lists(Stored(q), Gap(Wrap, nread[q], nwrite[q]), PIPESIZE, data[q], nread[q], Byte)
  BY <1>1, PipeTurns, HeldIs DEF Stored
<1>3. Amount(q) = Gap(Wrap, nread[q], nwrite[q]) /\ Amount(q) \in 0 .. Wrap - 1
  BY <1>1, AmountIs
<1>4. Amount(q) \in 0 .. PIPESIZE
  BY <1>1, <1>3, PipeFacts
<1> QED  BY <1>2, <1>3, <1>4 DEF Lists

LEMMA EmptyStored ==
  ASSUME PipesTypeOK, NEW q \in Pipe PROVE Empty(q) <=> Stored(q) = <<>>
<1>1. nread[q] \in 0 .. Wrap - 1 /\ nwrite[q] \in 0 .. Wrap - 1
  BY DEF PipesTypeOK
<1>2. Empty(q) <=> Amount(q) = 0
  BY <1>1, AmountIs
<1>3. Stored(q) \in Seq(Byte) /\ Len(Stored(q)) = Amount(q)
  BY StoredIs
<1> HIDE DEF Stored
<1>4. Stored(q) = <<>> <=> Len(Stored(q)) = 0
  BY <1>3
<1> QED  BY <1>2, <1>3, <1>4

(* pipewrite() puts the bytes behind each other, and touches no others.    *)
LEMMA FilledAt ==
  ASSUME PipesTypeOK, NEW q \in Pipe, NEW s, NEW k \in 0 .. PIPESIZE, NEW x \in 1 .. k
  PROVE  Filled(q, s, k)[RingPlace(PIPESIZE, nwrite[q], x)] = s[x]
<1>1. /\ PIPESIZE \in Nat /\ PIPESIZE > 0 /\ nwrite[q] \in Nat /\ x \in Nat /\ x > 0
      /\ 1 .. k \subseteq 1 .. PIPESIZE
  BY PipeFacts DEF PipesTypeOK
<1> DEFINE j == RingPlace(PIPESIZE, nwrite[q], x)
           i == CHOOSE i \in 1 .. k : (nwrite[q] + i - 1) % PIPESIZE = j
<1>2. j \in 0 .. PIPESIZE - 1
  BY <1>1, PlaceInside
<1>3. (nwrite[q] + x - 1) % PIPESIZE = j
  BY DEF RingPlace
<1> HIDE DEF j
<1>4. i \in 1 .. k /\ (nwrite[q] + i - 1) % PIPESIZE = j
  BY <1>3
<1>5. Filled(q, s, k)[j] = s[i]
  BY <1>2, <1>3 DEF Filled
<1> HIDE DEF i
<1>6. i = x
  <2> SUFFICES ASSUME i # x PROVE FALSE
    OBVIOUS
  <2>1. i \in 1 .. PIPESIZE /\ x \in 1 .. PIPESIZE
    BY <1>1, <1>4
  <2>2. RingPlace(PIPESIZE, nwrite[q], i) # RingPlace(PIPESIZE, nwrite[q], x)
    BY <1>1, <2>1, PlacesApart
  <2> QED  BY <1>3, <1>4, <2>2 DEF RingPlace
<1> QED  BY <1>5, <1>6 DEF j

LEMMA FilledElse ==
  ASSUME NEW q, NEW s, NEW k, NEW j \in 0 .. PIPESIZE - 1,
         \A i \in 1 .. k : RingPlace(PIPESIZE, nwrite[q], i) # j
  PROVE  Filled(q, s, k)[j] = data[q][j]
BY DEF Filled, RingPlace

(* pipewrite(): its first bytes go behind those that are there.            *)
LEMMA WriteAppends ==
  ASSUME CallInv, PipeInv, PipeInv', NEW p \in Process, Pipewrite(p),
         NEW q, q = request[p].pipe, NEW s, s = request[p].bytes, NEW k, k = Fits(q, s)
  PROVE  /\ q \in Pipe /\ s \in Seq(Byte) /\ k \in 0 .. Len(s)
         /\ Stored(q)' = Stored(q) \o SubSeq(s, 1, k)
         /\ \A x \in Pipe \ {q} : Stored(x)' = Stored(x)
<1>1. /\ q \in Pipe /\ s \in Seq(Byte) /\ k \in 0 .. Len(s) /\ k <= PIPESIZE - Amount(q)
      /\ data' = [data EXCEPT ![q] = Filled(q, s, k)]
      /\ nwrite' = [nwrite EXCEPT ![q] = Further(Wrap, @, k)]
      /\ UNCHANGED <<nread, readopen, writeopen>>
  BY PipewriteIs
<1>2. PipesTypeOK /\ PipesTypeOK'
  BY DEF PipeInv
<1>3. \A x \in Pipe \ {q} : Stored(x)' = Stored(x)
  BY <1>1, <1>2 DEF Stored, PipesTypeOK
<1>4. Stored(q)' = Stored(q) \o SubSeq(s, 1, k)
  <2> DEFINE i == nread[q]
             j == nwrite[q]
             f == data[q]
             g == Filled(q, s, k)
  <2>1. Stored(q) = InRing(PIPESIZE, Wrap, f, i, j)
    BY DEF Stored
  <2>2. Stored(q)' = InRing(PIPESIZE, Wrap, g, i, Further(Wrap, j, k))
    <3>1. nread'[q] = i /\ nwrite'[q] = Further(Wrap, j, k) /\ data'[q] = g
      BY <1>1, <1>2 DEF PipesTypeOK
    <3> HIDE DEF i, j, g
    <3> QED  BY <3>1 DEF Stored
  <2>3. /\ i \in 0 .. Wrap - 1 /\ j \in 0 .. Wrap - 1
        /\ f \in [0 .. PIPESIZE - 1 -> Byte] /\ g \in [0 .. PIPESIZE - 1 -> Byte]
    BY <1>1, <1>2, FilledIs DEF PipesTypeOK
  <2>4. Gap(Wrap, i, j) + k <= PIPESIZE /\ k \in 0 .. PIPESIZE
    <3>1. Amount(q) = Gap(Wrap, i, j) /\ Amount(q) \in 0 .. Wrap - 1
      BY <2>3, AmountIs
    <3> HIDE DEF i, j
    <3> QED  BY <1>1, <3>1, PipeFacts
  <2>5. PutAt(PIPESIZE, f, g, j, s, k)
    <3>1. \A x \in 1 .. k : g[RingPlace(PIPESIZE, j, x)] = s[x]
      BY <1>1, <1>2, <2>4, FilledAt
    <3>2. \A y \in 0 .. PIPESIZE - 1 :
            (\A x \in 1 .. k : RingPlace(PIPESIZE, j, x) # y) => g[y] = f[y]
      BY FilledElse
    <3> QED  BY <3>1, <3>2 DEF PutAt
  <2>6. PIPESIZE < Wrap /\ s \in Seq(Byte) /\ k \in 0 .. Len(s)
    BY <1>1, PipeFacts
  <2> HIDE DEF i, j, f, g
  <2>7. InRing(PIPESIZE, Wrap, g, i, Further(Wrap, j, k))
          = InRing(PIPESIZE, Wrap, f, i, j) \o SubSeq(s, 1, k)
    BY ONLY <2>3, <2>4, <2>5, <2>6, PipeTurns, RingAppends
  <2> QED  BY <2>1, <2>2, <2>7
<1> QED  BY <1>1, <1>3, <1>4

(* piperead(): takes the first ones.                                       *)
LEMMA ReadAdvances ==
  ASSUME CallInv, PipeInv, NEW p \in Process, Piperead(p),
         NEW q, q = request[p].pipe, NEW k, k = Taken(q, request[p].count)
  PROVE  /\ q \in Pipe /\ k \in 0 .. Len(Stored(q)) /\ Stored(q) \in Seq(Byte)
         /\ Stored(q)' = SubSeq(Stored(q), k + 1, Len(Stored(q)))
         /\ \A x \in Pipe \ {q} : Stored(x)' = Stored(x)
<1>1. /\ pc[p] = "read" /\ nread' = [nread EXCEPT ![q] = Further(Wrap, @, k)]
      /\ UNCHANGED <<data, nwrite>>
  BY DEF Piperead, Further
<1>2. PipesTypeOK /\ q \in Pipe /\ request[p].count \in Nat
  BY <1>1 DEF PipeInv, Asked
<1>3. /\ nread[q] \in 0 .. Wrap - 1 /\ nwrite[q] \in 0 .. Wrap - 1
      /\ data[q] \in [0 .. PIPESIZE - 1 -> Byte] /\ DOMAIN nread = Pipe
  BY <1>2 DEF PipesTypeOK
<1>4. Amount(q) = Gap(Wrap, nread[q], nwrite[q]) /\ Amount(q) \in Nat
  <2>1. Amount(q) = Gap(Wrap, nread[q], nwrite[q]) /\ Amount(q) \in 0 .. Wrap - 1
    BY <1>3, AmountIs
  <2> QED  BY <2>1
<1>5. k \in Nat /\ k <= Amount(q)
  BY <1>2, <1>4, LeastOfTwo DEF Taken
<1>6. Stored(q)' = SubSeq(Stored(q), k + 1, Len(Stored(q)))
  <2>1. k \in 0 .. Gap(Wrap, nread[q], nwrite[q])
    BY <1>4, <1>5
  <2>2. InRing(PIPESIZE, Wrap, data[q], Further(Wrap, nread[q], k), nwrite[q])
          = SubSeq(Stored(q), k + 1, Len(Stored(q)))
    <3> SUFFICES ASSUME NEW i, i = nread[q], NEW j, j = nwrite[q], NEW f, f = data[q]
                 PROVE  InRing(PIPESIZE, Wrap, f, Further(Wrap, i, k), j)
                          = SubSeq(InRing(PIPESIZE, Wrap, f, i, j), k + 1,
                                   Len(InRing(PIPESIZE, Wrap, f, i, j)))
      BY DEF Stored
    <3>1. /\ i \in 0 .. Wrap - 1 /\ j \in 0 .. Wrap - 1 /\ f \in [0 .. PIPESIZE - 1 -> Byte]
          /\ k \in 0 .. Gap(Wrap, i, j)
      BY <1>3, <2>1
    <3> QED  BY ONLY <3>1, PipeTurns, HeldFront
  <2>3. nread'[q] = Further(Wrap, nread[q], k) /\ nwrite'[q] = nwrite[q] /\ data'[q] = data[q]
    BY <1>1, <1>2, <1>3
  <2> QED  BY <2>2, <2>3 DEF Stored
<1>7. \A x \in Pipe \ {q} : Stored(x)' = Stored(x)
  BY <1>1, <1>3 DEF Stored
<1>8. Stored(q) \in Seq(Byte) /\ k \in 0 .. Len(Stored(q))
  <2>1. Stored(q) \in Seq(Byte) /\ Len(Stored(q)) = Amount(q)
    BY <1>2, StoredIs
  <2> QED  BY <1>5, <2>1
<1> QED  BY <1>2, <1>6, <1>7, <1>8

(* Who is in a call has the end it uses, and nobody closes an end twice.   *)
LEMMA EndHeld ==
  ASSUME AllInv, NEW q \in Pipe, NEW b \in BOOLEAN, Ends(q, b) # {} \/ Closing(q, b) # {}
  PROVE  q \in (IF b THEN writeopen ELSE readopen)
<1> DEFINE m == Cardinality(Ends(q, b))
           n == Cardinality(Closing(q, b))
<1>1. m \in Nat /\ n \in Nat
  BY EndsFinite
<1>2. m > 0 \/ n > 0
  <2>1. \A y \in Ends(q, b) : m > 0
    BY EndsFinite, Member
  <2>2. \A y \in Closing(q, b) : n > 0
    BY EndsFinite, Member
  <2> QED  BY <2>1, <2>2
<1>3. m + n = IF q \in (IF b THEN writeopen ELSE readopen) THEN 1 ELSE 0
  BY DEF AllInv, RefInv, EndPart
<1> HIDE DEF m, n
<1> QED  BY <1>1, <1>2, <1>3

LEMMA UserHasEnd ==
  ASSUME AllInv, PipeInv, PipeUsers, NEW p \in Process, pc[p] \in PipeCalls,
         NEW q, q = request[p].pipe
  PROVE  q \in (IF pc[p] \in WriteCalls THEN writeopen ELSE readopen)
<1>1. q \in Pipe
  BY DEF PipeInv, Asked, PipeCalls
<1>2. PICK fd \in FD : ofile[p][fd] \in Ends(q, pc[p] \in WriteCalls)
  BY DEF PipeUsers, UsesEnd
<1>3. CASE pc[p] \in WriteCalls
  <2>1. ofile[p][fd] \in Ends(q, TRUE)
    BY <1>2, <1>3 DEF Ends
  <2> QED  BY <1>1, <1>3, <2>1, EndHeld
<1>4. CASE pc[p] \notin WriteCalls
  <2>1. ofile[p][fd] \in Ends(q, FALSE)
    <3>1. (pc[p] \in WriteCalls) = FALSE
      BY <1>4
    <3> QED  BY <1>2, <3>1
  <2> QED  BY <1>1, <1>4, <2>1, EndHeld
<1> QED  BY <1>3, <1>4

StoredTypes == \A x \in Pipe :
  /\ Stored(x) \in Seq(Byte) /\ Len(Stored(x)) <= PIPESIZE
  /\ Empty(x) <=> Stored(x) = <<>>
LEMMA StoredHas == PipesTypeOK => StoredTypes
<1> SUFFICES ASSUME PipesTypeOK, NEW x \in Pipe
             PROVE  /\ Stored(x) \in Seq(Byte) /\ Len(Stored(x)) <= PIPESIZE
                    /\ Empty(x) <=> Stored(x) = <<>>
  BY DEF StoredTypes
<1> QED  BY StoredIs, EmptyStored, PipeFacts
LEMMA StoredLater == PipesTypeOK' => StoredTypes'
BY StoredHas, PTL

(* What a step does to the channel, and that free pages stay empty         *)
ChannelStep == (Fifo!Next \/ UNCHANGED Fifo!vars) /\ Idle'

LEMMA ChannelPipewrite ==
  ASSUME AllInv, PipeInv, PipeInv', ChannelInv, NEW p \in Process, Pipewrite(p) PROVE ChannelStep
<1> SUFFICES ASSUME NEW q, q = request[p].pipe, NEW s, s = request[p].bytes,
                    NEW k, k = Fits(q, s)
             PROVE  ChannelStep
  OBVIOUS
<1>0. CallInv /\ PipesTypeOK /\ PipesTypeOK'
  BY DEF AllInv, PipeInv
<1>1. /\ q \in Pipe /\ s \in Seq(Byte) /\ k \in 0 .. Len(s)
      /\ Stored(q)' = Stored(q) \o SubSeq(s, 1, k)
      /\ \A x \in Pipe \ {q} : Stored(x)' = Stored(x)
  BY <1>0, WriteAppends
<1>2. q \in writeopen /\ UNCHANGED <<readopen, writeopen>>
  BY UserHasEnd DEF Pipewrite, PipeCalls, WriteCalls, ChannelInv
<1>3. /\ Stored(q) \in Seq(Byte) /\ Stored(q)' \in Seq(Byte) /\ Len(Stored(q)') <= PIPESIZE
      /\ \A x \in Pipe : Empty(x)' <=> Stored(x)' = <<>>
      /\ \A x \in Pipe : Empty(x) <=> Stored(x) = <<>>
  BY <1>0, <1>1, StoredHas, StoredLater DEF StoredTypes
<1>4. Idle'
  BY <1>1, <1>2, <1>3 DEF Idle, Allocated, ChannelInv
<1> DEFINE u == Stored(q)
           v == Stored(q)'
<1>5. Contents' = [Contents EXCEPT ![q] = v]
  BY <1>1, ContentsIs
<1>6. Contents[q] = u /\ Contents'[q] = v
  BY <1>1, ContentsIs
<1>7. u \in Seq(Byte) /\ v = u \o SubSeq(s, 1, k) /\ SubSeq(s, 1, k) \in Seq(Byte)
      /\ Len(SubSeq(s, 1, k)) = k /\ Len(v) <= PIPESIZE /\ k \in Nat
  BY <1>1, <1>3
<1> HIDE DEF u, v
<1>8. Len(v) = Len(u) + k /\ SubSeq(v, 1, Len(u)) = u
  BY <1>7, SubSeqOfConcat1
<1>9. CASE k > 0
  <2>1. Len(v) \in Len(u) + 1 .. PIPESIZE
    BY <1>7, <1>8, <1>9, PipeFacts
  <2>2. Fifo!Put(q)
    BY <1>2, <1>5, <1>6, <1>8, <2>1 DEF Fifo!Put
  <2> QED  BY <1>1, <1>4, <2>2 DEF ChannelStep, Fifo!Next
<1>10. CASE k = 0
  <2>1. v = u
    BY <1>7, <1>8, <1>10
  <2>2. Contents' = Contents
    BY <1>5, <1>6, <2>1, ContentsIs
  <2> QED  BY <1>2, <1>4, <2>2 DEF ChannelStep, Fifo!vars
<1> QED  BY <1>7, <1>9, <1>10

LEMMA ChannelPiperead ==
  ASSUME AllInv, PipeInv, PipeInv', ChannelInv, NEW p \in Process, Piperead(p) PROVE ChannelStep
<1> SUFFICES ASSUME NEW q, q = request[p].pipe, NEW k, k = Taken(q, request[p].count)
             PROVE  ChannelStep
  OBVIOUS
<1>0. CallInv /\ PipesTypeOK /\ PipesTypeOK'
  BY DEF AllInv, PipeInv
<1>1. /\ q \in Pipe /\ k \in 0 .. Len(Stored(q)) /\ Stored(q) \in Seq(Byte)
      /\ Stored(q)' = SubSeq(Stored(q), k + 1, Len(Stored(q)))
      /\ \A x \in Pipe \ {q} : Stored(x)' = Stored(x)
  BY <1>0, ReadAdvances
<1>2. q \in readopen /\ UNCHANGED <<readopen, writeopen>>
  BY UserHasEnd DEF Piperead, PipeCalls, WriteCalls, ChannelInv
<1>3. /\ \A x \in Pipe : Empty(x)' <=> Stored(x)' = <<>>
      /\ \A x \in Pipe : Empty(x) <=> Stored(x) = <<>>
  BY <1>0, StoredHas, StoredLater DEF StoredTypes
<1>4. Idle'
  BY <1>1, <1>2, <1>3 DEF Idle, Allocated, ChannelInv
<1> DEFINE u == Stored(q)
<1>5. Contents' = [Contents EXCEPT ![q] = SubSeq(u, k + 1, Len(u))] /\ Contents[q] = u
  BY <1>1, ContentsIs
<1>6. u \in Seq(Byte) /\ k \in 0 .. Len(u)
  BY <1>1
<1> HIDE DEF u
<1>7. CASE k > 0
  <2>1. k \in 1 .. Len(u)
    BY <1>6, <1>7
  <2>2. Fifo!Get(q)
    BY <1>2, <1>5, <2>1 DEF Fifo!Get
  <2> QED  BY <1>1, <1>4, <2>2 DEF ChannelStep, Fifo!Next
<1>8. CASE k = 0
  <2>1. SubSeq(u, k + 1, Len(u)) = u
    BY <1>6, <1>8
  <2>2. Contents' = Contents
    BY <1>5, <2>1, ContentsIs
  <2> QED  BY <1>2, <1>4, <2>2 DEF ChannelStep, Fifo!vars
<1> QED  BY <1>6, <1>7, <1>8

LEMMA ChannelPipeclose ==
  ASSUME AllInv, PipeInv, PipeInv', ChannelInv, NEW p \in Process, Pipeclose(p) PROVE ChannelStep
<1> SUFFICES ASSUME NEW q, q = request[p].pipe, NEW b, b = request[p].writable PROVE ChannelStep
  OBVIOUS
<1>0. PipesTypeOK /\ StoredTypes /\ StoredTypes'
  BY StoredHas, StoredLater DEF PipeInv
<1>1. pc[p] = "pipeclose" /\ q \in Pipe /\ b \in BOOLEAN
  BY DEF Pipeclose, AllInv, CallInv, Shape
<1>2. /\ writeopen' = IF b THEN writeopen \ {q} ELSE writeopen
      /\ readopen' = IF b THEN readopen ELSE readopen \ {q}
      /\ IF q \in readopen' \cup writeopen' THEN UNCHANGED <<data, nread, nwrite>> ELSE Freed(q)
  BY DEF Pipeclose
<1>3. q \in (IF b THEN writeopen ELSE readopen)
  <2>1. p \in Closing(q, b)
    BY <1>1 DEF Closing
  <2> QED  BY <1>1, <2>1, EndHeld
<1>4. CASE q \in readopen' \cup writeopen'
  <2>1. UNCHANGED <<data, nread, nwrite>>
    BY <1>2, <1>4
  <2>2. Contents' = Contents
    BY <2>1, ContentsIs DEF Stored
  <2>3. q \in readopen \cap writeopen
    BY <1>2, <1>3, <1>4
  <2>4. Fifo!CloseOne(q)
    BY <1>2, <2>2, <2>3 DEF Fifo!CloseOne
  <2>5. Idle'
    BY <1>2, <1>4, <2>1 DEF Idle, Allocated, Empty, ChannelInv
  <2> QED  BY <1>1, <2>4, <2>5 DEF ChannelStep, Fifo!Next
<1>5. CASE q \notin readopen' \cup writeopen'
  <2>1. Freed(q) /\ nread \in [Pipe -> 0 .. Wrap - 1] /\ nwrite \in [Pipe -> 0 .. Wrap - 1]
        /\ DOMAIN data = Pipe
    BY <1>0, <1>2, <1>5 DEF PipesTypeOK
  <2>2. /\ Empty(q)'
        /\ \A x \in Pipe \ {q} :
             nread'[x] = nread[x] /\ nwrite'[x] = nwrite[x] /\ data'[x] = data[x]
    BY <1>1, <2>1 DEF Freed, Empty
  <2>3. Stored(q)' = <<>> /\ \A x \in Pipe \ {q} : Stored(x)' = Stored(x)
    BY <1>0, <1>1, <2>2 DEF StoredTypes, Stored
  <2>4. Contents' = [Contents EXCEPT ![q] = <<>>]
    BY <1>1, <2>3, ContentsIs
  <2>5. /\ q \in readopen \cup writeopen /\ q \notin readopen \cap writeopen
        /\ readopen' = readopen \ {q} /\ writeopen' = writeopen \ {q}
    BY <1>2, <1>3, <1>5
  <2>6. Fifo!CloseLast(q)
    BY <2>4, <2>5 DEF Fifo!CloseLast
  <2>7. Idle'
    BY <2>2, <2>5 DEF Idle, Allocated, Empty, ChannelInv
  <2> QED  BY <1>1, <2>6, <2>7 DEF ChannelStep, Fifo!Next
<1> QED  BY <1>4, <1>5

LEMMA ChannelPipeMade ==
  ASSUME AllInv, PipeInv, PipeInv', ChannelInv, NEW p \in Process, TakesPage(p)
  PROVE  ChannelStep
<1>1. PICK q \in Pipe :
        /\ q \notin readopen \cup writeopen
        /\ readopen' = readopen \cup {q} /\ writeopen' = writeopen \cup {q}
        /\ nread' = [nread EXCEPT ![q] = 0] /\ nwrite' = [nwrite EXCEPT ![q] = 0]
        /\ UNCHANGED data
  BY PageTaken DEF AllInv, Pipealloc, CreatePipe, Allocated
<1>2. PipesTypeOK /\ StoredTypes /\ StoredTypes'
  BY StoredHas, StoredLater DEF PipeInv
<1>3. /\ Empty(q) /\ Empty(q)'
      /\ \A x \in Pipe \ {q} : nread'[x] = nread[x] /\ nwrite'[x] = nwrite[x]
  BY <1>1, <1>2 DEF ChannelInv, Idle, Allocated, Empty, PipesTypeOK
<1>4. Stored(q) = <<>> /\ Stored(q)' = <<>> /\ \A x \in Pipe \ {q} : Stored(x)' = Stored(x)
  BY <1>1, <1>2, <1>3 DEF StoredTypes, Stored
<1>5. Contents' = Contents /\ Contents[q] = <<>>
  BY <1>1, <1>4, ContentsIs
<1>6. Fifo!Create(q)
  BY <1>1, <1>5 DEF Fifo!Create
<1>7. Idle'
  BY <1>1, <1>3 DEF ChannelInv, Idle, Allocated, Empty
<1> QED  BY <1>6, <1>7 DEF ChannelStep, Fifo!Next

LEMMA ChannelStill == ASSUME ChannelInv, UNCHANGED pipeState PROVE ChannelStep
<1>1. Contents' = Contents
  BY ContentsIs DEF pipeState, Stored
<1> QED  BY <1>1 DEF ChannelStep, Fifo!vars, pipeState, ChannelInv, Idle, Allocated, Empty

LEMMA PipesElsewhere ==
  ASSUME NEW p \in Process,
         \/ Descriptors(p) \/ OnInode(p) \/ OnContents(p) \/ OnConsole(p)
         \/ PipeFirstFile(p) \/ PipeNoFile(p) \/ PipeNoPage(p) \/ PipeCloses(p)
         \/ OpenFile(p) \/ OpenFails(p) \/ Life(p)
  PROVE  UNCHANGED pipeState
<1>1. CASE Descriptors(p)
  BY <1>1 DEF Descriptors, Dup, Close, CloseFd, Read, ReadConsole, Write, PipeCall, ReadFile,
     WriteFile, pipeVars
<1>2. CASE \/ PipeFirstFile(p) \/ PipeNoFile(p) \/ PipeNoPage(p) \/ PipeCloses(p)
           \/ OnInode(p) \/ OnContents(p) \/ OnConsole(p)
  BY <1>2 DEF PipeFirstFile, PipeNoFile, PipeNoPage, PipeCloses, OnInode, OnContents, OnConsole,
     pipeVars
<1>3. CASE OpenFile(p) \/ OpenFails(p) \/ Life(p)
  BY <1>3 DEF OpenFile, OpenFails, Life, Exit, ExitCloses, CloseFd, ExitEnds, Fork, Kill, pipeVars
<1> QED  BY <1>1, <1>2, <1>3

LEMMA EveryChannelStep ==
  ASSUME AllInv, StreamInv, StreamInv', ChannelInv, [Next]_vars PROVE ChannelStep
<1>1. PipeInv /\ PipeInv'
  BY DEF StreamInv
<1>2. ASSUME NEW p \in Process, OnPipe(p) PROVE ChannelStep
  <2>1. CASE PipereadSleeps(p) \/ PipereadFails(p)
    BY <2>1, ChannelStill DEF PipereadSleeps, PipereadFails, pipeVars
  <2> QED  BY <1>1, <1>2, <2>1, ChannelPipeclose, ChannelPipewrite, ChannelPiperead
           DEF OnPipe, PipeStep
<1>3. ASSUME NEW p \in Process, TakesPage(p) PROVE ChannelStep
  BY <1>1, <1>3, ChannelPipeMade
<1>4. CASE Keyboard \/ UNCHANGED vars
  BY <1>4, ChannelStill DEF Keyboard, vars, pipeVars
<1> QED  BY <1>2, <1>3, <1>4, PipesElsewhere, ChannelStill DEF Next, MakePipe, TakesPage

LEMMA ChannelInit == Init => ChannelInv /\ Fifo!Init
<1> SUFFICES ASSUME Init PROVE ChannelInv /\ Fifo!Init
  OBVIOUS
<1>1. InitPipes /\ \A p \in Process : pc[p] \in {"user", "dead"}
  BY DEF Init
<1>2. PipeUsers /\ Idle /\ \A q \in Pipe : Empty(q)
  BY <1>1 DEF InitPipes, PipeUsers, UsesEnd, PipeCalls, Idle, Empty
<1>3. StoredTypes
  BY StreamsInit, StoredHas DEF StreamInv, PipeInv
<1>4. Contents = [q \in Pipe |-> <<>>]
  BY <1>2, <1>3, ContentsIs DEF StoredTypes
<1> QED  BY <1>1, <1>2, <1>4 DEF ChannelInv, Fifo!Init, InitPipes

LEMMA AllChannels == Spec => []ChannelInv
<1>1. Init => ChannelInv
  BY ChannelInit
<1>2. AllInv /\ StreamInv /\ StreamInv' /\ ChannelInv /\ [Next]_vars => ChannelInv'
  BY EveryChannelStep, UsersStep DEF ChannelInv, ChannelStep
<1> QED  BY <1>1, <1>2, AllBlocks, AllStreams, PTL DEF Spec

(* PipesAreChannels, for any number of pipes of any size: whatever readers,*)
(* writers, forks, closes and kills there are, a pipe is a bounded queue   *)
(* of bytes from pipe() to the close of its last end; only who has an end  *)
(* open uses it, and counters that wrap around lose and repeat no byte.    *)
THEOREM PipesDeliver == Spec => PipesAreChannels
<1>1. Init => Fifo!Init
  BY ChannelInit
<1>2. AllInv /\ StreamInv /\ StreamInv' /\ ChannelInv /\ [Next]_vars => [Fifo!Next]_(Fifo!vars)
  BY EveryChannelStep DEF ChannelStep
<1> QED  BY <1>1, <1>2, AllBlocks, AllStreams, AllChannels, PTL
         DEF Spec, PipesAreChannels, Fifo!Spec

(* What Channel leaves open: the bytes that a pipewrite() puts into its    *)
(* pipe are the first ones of those it has still to write, in their order, *)
(* as many as there is room for, and it touches no other pipe.             *)
BytesOfWriters == [][\A p \in Process : \A q \in Pipe :
  (pc[p] = "write" /\ request[p].pipe = q /\ Pipewrite(p)) =>
    /\ Stored(q)' = Stored(q) \o SubSeq(request[p].bytes, 1, Fits(q, request[p].bytes))
    /\ \A x \in Pipe \ {q} : Stored(x)' = Stored(x)]_vars

THEOREM WritersAreHeard == Spec => BytesOfWriters
<1>1. AllInv /\ StreamInv /\ StreamInv' /\ [Next]_vars =>
        [\A p \in Process : \A q \in Pipe :
          (pc[p] = "write" /\ request[p].pipe = q /\ Pipewrite(p)) =>
            /\ Stored(q)' = Stored(q) \o SubSeq(request[p].bytes, 1, Fits(q, request[p].bytes))
            /\ \A x \in Pipe \ {q} : Stored(x)' = Stored(x)]_vars
  BY WriteAppends DEF AllInv, StreamInv
<1> QED  BY <1>1, AllBlocks, AllStreams, PTL DEF Spec, BytesOfWriters

-----------------------------------------------------------------------------
(* That every variable keeps a value of its kind: what is left of TypeOK   *)
(* are the entries of the icache, vacant ones included, and killed.        *)

OnDisk == [type : BOOLEAN, nlink : Nat]
SlotsTyped ==
  /\ inum \in [Slot -> Inum \cup {None}] /\ iref \in [Slot -> Nat]
  /\ \A s \in Slot : copy[s] = None \/ copy[s] \in OnDisk
KilledTyped == killed \in [Process -> BOOLEAN]

InodesTyped == dinode \in [Inum -> OnDisk]

LEMMA DiskTyped == NameInv => InodesTyped
<1> SUFFICES ASSUME NameInv PROVE InodesTyped
  OBVIOUS
<1>1. dinode \in [Inum -> DiskInode] /\ \A i \in Inum : dinode[i].nlink \in Nat
  BY LinkCounts DEF NameInv, Cached
<1> QED  BY <1>1 DEF DiskInode, OnDisk, InodesTyped

LEMMA DiskTypedLater == NameInv' => InodesTyped'
BY DiskTyped, PTL

RefsNat == \A s \in Slot : iref[s] \in Nat
LEMMA RefsAreNat == EntryPart => RefsNat
BY EntryTypes DEF RefsNat
LEMMA RefsAreNatLater == EntryPart' => RefsNat'
BY RefsAreNat, PTL

LEMMA SlotsChange ==
  ASSUME CallInv, SlotsTyped, RefsNat',
         \/ UNCHANGED inum
         \/ \E s \in Slot : \E i \in Inum \cup {None} : inum' = [inum EXCEPT ![s] = i],
         \/ UNCHANGED iref
         \/ \E s \in Slot : \/ iref' = [iref EXCEPT ![s] = @ + 1]
                            \/ iref' = [iref EXCEPT ![s] = @ - 1],
         \/ UNCHANGED copy
         \/ \E s \in Slot : \E c \in OnDisk \cup {None} : copy' = [copy EXCEPT ![s] = c]
  PROVE  SlotsTyped'
<1>1. inum' \in [Slot -> Inum \cup {None}]
  BY DEF SlotsTyped
<1>2. iref' \in [Slot -> Nat]
  <2>1. CASE UNCHANGED iref
    BY <2>1 DEF SlotsTyped
  <2>2. ASSUME NEW s \in Slot, NEW n \in Int, iref' = [iref EXCEPT ![s] = n]
        PROVE  iref' \in [Slot -> Nat]
    <3>1. iref'[s] = n
      BY <2>2 DEF SlotsTyped
    <3> QED  BY <2>2, <3>1 DEF SlotsTyped, RefsNat
  <2>3. \A s \in Slot : iref[s] + 1 \in Int /\ iref[s] - 1 \in Int
    BY DEF SlotsTyped
  <2> QED  BY <2>1, <2>2, <2>3
<1>3. \A s \in Slot : copy'[s] = None \/ copy'[s] \in OnDisk
  BY DEF SlotsTyped, CallInv, Kinds
<1> QED  BY <1>1, <1>2, <1>3 DEF SlotsTyped

(* Steps on the entry of a call's inode that neither take nor drop it      *)
LEMMA SlotsInHand ==
  ASSUME AllInv, AllInv', SlotsTyped, NEW p \in Process, pc[p] \in InodeCall \ {"drop"},
         UNCHANGED inum,
         UNCHANGED iref,
         \/ UNCHANGED copy
         \/ copy' = [copy EXCEPT ![ip[p]] = Found(ip[p])]
         \/ copy' = [copy EXCEPT ![ip[p]] = None]
         \/ \E di : Update(ip[p], di)
  PROVE  SlotsTyped'
<1>1. ip[p] \in Slot /\ inum[ip[p]] \in Inum /\ Found(ip[p]) = dinode[inum[ip[p]]]
  BY InHand DEF AllInv
<1>2. dinode \in [Inum -> OnDisk] /\ dinode' \in [Inum -> OnDisk]
  BY DiskTyped, DiskTypedLater DEF AllInv, InodesTyped
<1>3. RefsNat'
  BY RefsAreNatLater DEF AllInv, RefInv
<1>4. CallInv
  BY DEF AllInv
<1>5. ASSUME NEW di, Update(ip[p], di) PROVE copy' = [copy EXCEPT ![ip[p]] = di] /\ di \in OnDisk
  <2>1. dinode' = [dinode EXCEPT ![inum[ip[p]]] = di]
    BY <1>5 DEF Update
  <2>2. dinode'[inum[ip[p]]] = di
    BY <1>1, <1>2, <2>1
  <2> QED  BY <1>1, <1>2, <1>5, <2>2 DEF Update
<1>6. \/ UNCHANGED copy
      \/ \E s \in Slot : \E c \in OnDisk \cup {None} : copy' = [copy EXCEPT ![s] = c]
  BY <1>1, <1>2, <1>5
<1> QED  BY ONLY SlotsTyped, <1>3, <1>4, <1>6, UNCHANGED inum, UNCHANGED iref, SlotsChange

LEMMA SlotsIget ==
  ASSUME AllInv, AllInv', SlotsTyped, NEW i \in Inum, CanIget(i), Iget(i)
  PROVE  SlotsTyped'
<1> DEFINE s == Entry(i)
<1>1. s \in Slot
  BY EntryIn
<1>2. /\ inum' = [inum EXCEPT ![s] = i] /\ iref' = [iref EXCEPT ![s] = @ + 1]
      /\ copy' = [copy EXCEPT ![s] = Recycled(i)] /\ Recycled(i) \in {copy[s], None}
  BY DEF Iget, Recycled
<1>3. copy[s] \in OnDisk \cup {None}
  BY <1>1 DEF SlotsTyped
<1> HIDE DEF s
<1>4. CallInv /\ RefsNat'
  BY RefsAreNatLater DEF AllInv, RefInv
<1>5. \E t \in Slot : \E j \in Inum \cup {None} : inum' = [inum EXCEPT ![t] = j]
  BY <1>1, <1>2
<1>6. \E t \in Slot : iref' = [iref EXCEPT ![t] = @ + 1]
  BY <1>1, <1>2
<1>7. \E t \in Slot : \E c \in OnDisk \cup {None} : copy' = [copy EXCEPT ![t] = c]
  BY <1>1, <1>2, <1>3
<1> QED  BY ONLY SlotsTyped, <1>4, <1>5, <1>6, <1>7, SlotsChange

LEMMA SlotsInode ==
  ASSUME AllInv, AllInv', SlotsTyped, NEW p \in Process, OnInode(p) PROVE SlotsTyped'
<1>0. CallInv /\ RefsNat'
  BY RefsAreNatLater DEF AllInv, RefInv
<1>1. CASE \/ OpenLock(p) \/ CreateLink(p) \/ CreatePutDir(p) \/ UnlinkErase(p) \/ UnlinkDrop(p)
           \/ LinkCount(p) \/ LinkName(p) \/ LinkBack(p)
           \/ IputFrees(p) \/ IputKeeps(p) \/ IputTruncates(p)
  <2>1. /\ pc[p] \in InodeCall \ {"drop"} /\ UNCHANGED <<inum, iref>>
        /\ \/ UNCHANGED copy
           \/ copy' = [copy EXCEPT ![ip[p]] = Found(ip[p])]
           \/ copy' = [copy EXCEPT ![ip[p]] = None]
           \/ \E di : Update(ip[p], di)
    BY <1>1 DEF InodeCall, Move, OpenLock, CreateLink, CreatePutDir, UnlinkErase, UnlinkDrop,
       LinkCount, LinkName, LinkBack, IputFrees, IputKeeps, IputTruncates, Invalid, inodeVars,
       icacheVars
  <2> QED  BY <2>1, SlotsInHand
<1>2. CASE LinkPutOther(p)
  <2>1. other[p] \in Slot /\ iref' = [iref EXCEPT ![other[p]] = @ - 1] /\ UNCHANGED <<inum, copy>>
    BY <1>2, Has DEF AllInv, LinkPutOther, Move
  <2>2. \E s \in Slot : iref' = [iref EXCEPT ![s] = @ - 1]
    BY <2>1
  <2> QED  BY <1>0, <2>1, <2>2, SlotsChange
<1>3. CASE IputDrops(p)
  <2> DEFINE s == ip[p]
             i == IF iref[s] = 1 THEN None ELSE inum[s]
  <2>1. s \in Slot /\ i \in Inum \cup {None}
    BY <1>3, Has DEF AllInv, IputDrops, Move, InodeCall, SlotsTyped
  <2>2. /\ iref' = [iref EXCEPT ![s] = @ - 1] /\ inum' = [inum EXCEPT ![s] = i]
        /\ UNCHANGED copy
    BY <1>3 DEF IputDrops
  <2> HIDE DEF s, i
  <2>3. \E t \in Slot : iref' = [iref EXCEPT ![t] = @ - 1]
    BY <2>1, <2>2
  <2>4. \E t \in Slot : \E j \in Inum \cup {None} : inum' = [inum EXCEPT ![t] = j]
    BY <2>1, <2>2
  <2> QED  BY <1>0, <2>2, <2>3, <2>4, SlotsChange
<1>4. CASE \E n \in Name :
             OpenLookup(p, n) \/ UnlinkLookup(p, n) \/ \E m \in Name : LinkLookup(p, n, m)
  <2>1. PICK n \in Name : \E to \in {"open", "unlink", "link"} : Lookup(p, n, "user", to)
    BY <1>4 DEF OpenLookup, UnlinkLookup, LinkLookup
  <2>2. CanIget(dir[n]) /\ Iget(dir[n]) /\ dir[n] \in Inum
    BY <2>1 DEF Lookup, AllInv, NameInv, Cached
  <2> QED  BY <2>2, SlotsIget
<1>5. CASE LinkTaken(p)
  <2>1. CanIget(dir[name[p]]) /\ Iget(dir[name[p]]) /\ dir[name[p]] \in Inum
    BY <1>5, Has DEF LinkTaken, Move, Named, AllInv, NameInv, Cached
  <2> QED  BY <2>1, SlotsIget
<1>6. CASE \E n \in Name : CreateIalloc(p, n)
  <2> DEFINE i == Least(Unused)
  <2>1. Unused # {} /\ CanIget(i) /\ Iget(i)
    BY <1>6 DEF CreateIalloc
  <2>2. Unused \in SUBSET Nat
    BY ConstFacts DEF Unused
  <2>3. i \in Unused
    BY ONLY <2>1, <2>2, LeastIn
  <2>4. i \in Inum
    BY <2>3 DEF Unused
  <2> HIDE DEF i
  <2> QED  BY <2>1, <2>4, SlotsIget
<1> QED  BY <1>1, <1>2, <1>3, <1>4, <1>5, <1>6 DEF OnInode, InodeStep, PathCall

(* The rest of the steps leaves the entries alone, and killed but where a  *)
(* process is killed or ends.                                              *)
SlotsAlone == UNCHANGED <<inum, iref, copy>>
LEMMA KeepsSlots == ASSUME SlotsTyped, SlotsAlone PROVE SlotsTyped'
BY DEF SlotsTyped, SlotsAlone

LEMMA AloneStep ==
  ASSUME [Next]_vars, ~\E p \in Process : OnInode(p) PROVE SlotsAlone
<1> USE DEF SlotsAlone, inodeVars, icacheVars
<1>1. ASSUME NEW p \in Process, Descriptors(p) \/ MakePipe(p) PROVE SlotsAlone
  BY <1>1 DEF Descriptors, Dup, Close, CloseFd, Read, Write, PipeCall, ReadConsole, ReadFile,
     Fileread, WriteFile, FilewriteCall, MakePipe, PipeFirstFile, PipeNoFile, PipeNoPage, PipeMade,
     PipeNoFds, PipeCloses
<1>2. ASSUME NEW p \in Process, OnPipe(p) \/ OnConsole(p) \/ OnContents(p) PROVE SlotsAlone
  BY <1>2 DEF OnPipe, OnConsole, OnContents, WriteStep, WriteiBegins, WriteiFails, WriteiIndirect,
     WriteiBlock, WriteiEnds
<1>3. ASSUME NEW p \in Process, OpenFile(p) \/ OpenFails(p) \/ Life(p) PROVE SlotsAlone
  BY <1>3 DEF OpenFile, OpenFails, Life, Exit, ExitCloses, CloseFd, ExitEnds, Fork, Kill
<1>4. CASE Keyboard \/ UNCHANGED vars
  BY <1>4 DEF Keyboard, vars
<1> QED  BY <1>1, <1>2, <1>3, <1>4 DEF Next

LEMMA KilledStep == ASSUME KilledTyped, [Next]_vars PROVE KilledTyped'
<1> USE DEF KilledTyped
<1>1. ASSUME NEW p \in Process, Descriptors(p) \/ MakePipe(p) PROVE KilledTyped'
  BY <1>1 DEF Descriptors, Dup, Close, CloseFd, Read, Write, PipeCall, ReadConsole, ReadFile,
     Fileread, WriteFile, FilewriteCall, MakePipe, PipeFirstFile, PipeNoFile, PipeNoPage, PipeMade,
     PipeNoFds, PipeCloses, callVars
<1>2. ASSUME NEW p \in Process, OnPipe(p) \/ OnConsole(p) \/ OnContents(p) PROVE KilledTyped'
  BY <1>2 DEF OnPipe, PipeStep, Pipeclose, Pipewrite, PipereadSleeps, PipereadFails, Piperead,
     OnConsole, Consoleread, OnContents, WriteStep, WriteiBegins, WriteiFails, WriteiIndirect,
     WriteiBlock, WriteiEnds, callVars
<1>3. ASSUME NEW p \in Process, OnInode(p) PROVE KilledTyped'
  BY <1>3 DEF OnInode, InodeStep, PathCall, OpenLookup, UnlinkLookup, LinkLookup, Lookup,
     CreateIalloc, OpenLock, CreateLink, CreatePutDir, UnlinkErase, UnlinkDrop, LinkCount,
     LinkName, LinkTaken, LinkPutOther, LinkBack, IputFrees, IputKeeps, IputTruncates, IputDrops
<1>4. ASSUME NEW p \in Process, OpenFile(p) \/ OpenFails(p) \/ Life(p) PROVE KilledTyped'
  BY <1>4 DEF OpenFile, OpenFails, Life, Exit, ExitCloses, CloseFd, ExitEnds, Fork, Kill
<1>5. CASE Keyboard \/ UNCHANGED vars
  BY <1>5 DEF Keyboard, ConsoleIntr, Backspace, KillLine, Type, vars, callVars
<1> QED  BY <1>1, <1>2, <1>3, <1>4, <1>5 DEF Next

KindInv == SlotsTyped /\ KilledTyped

LEMMA KindsInit == Init => KindInv
<1> SUFFICES ASSUME Init PROVE KindInv
  OBVIOUS
<1>1. KilledTyped
  BY DEF Init, KilledTyped
<1>2. ASSUME NEW S \in SUBSET Inum, InitInodes(S) PROVE SlotsTyped
  <2>1. /\ inum = [s \in Slot |-> IF s \in S THEN s ELSE None]
        /\ iref = [s \in Slot |-> IF s \in S THEN 1 ELSE 0]
        /\ copy = [s \in Slot |-> IF s \in S THEN dinode[s] ELSE None]
        /\ dinode = [i \in Inum |-> IF i \in S THEN [type |-> TRUE, nlink |-> 1] ELSE Unallocated]
    BY <1>2 DEF InitInodes
  <2>2. \A s \in S : dinode[s] \in OnDisk
    BY <2>1 DEF OnDisk
  <2> QED  BY <2>1, <2>2 DEF SlotsTyped
<1>3. {1, 2} \in SUBSET Inum
  BY FilesAssumption
<1> QED  BY <1>1, <1>2, <1>3 DEF Init, KindInv

LEMMA AllKinds == Spec => []KindInv
<1>1. AllInv /\ AllInv' /\ KindInv /\ [Next]_vars => KindInv'
  <2> SUFFICES ASSUME AllInv, AllInv', KindInv, [Next]_vars PROVE KindInv'
    OBVIOUS
  <2>1. SlotsTyped'
    BY SlotsInode, AloneStep, KeepsSlots DEF KindInv
  <2> QED  BY <2>1, KilledStep DEF KindInv
<1> QED  BY <1>1, KindsInit, AllBlocks, PTL DEF Spec

(* Every variable of Files keeps a value of its kind: no call leaves a     *)
(* count below zero, an index outside its ring or a reference to nothing.  *)
THEOREM TypeCorrect == Spec => []TypeOK
<1>1. AllInv /\ BlockInv /\ StreamInv /\ KindInv => TypeOK
  <2> SUFFICES ASSUME AllInv, BlockInv, StreamInv, KindInv PROVE TypeOK
    OBVIOUS
  <2>1. CallInv /\ Kinds /\ NameInv /\ SlotsTyped /\ KilledTyped /\ BlockTypes
    BY DEF AllInv, CallInv, BlockInv, KindInv
  <2>2. InodesTypeOK
    BY <2>1, DiskTyped DEF InodesTypeOK, InodesTyped, Kinds, NameInv, Cached, SlotsTyped, OnDisk
  <2>3. ContentsTypeOK
    BY <2>1 DEF ContentsTypeOK, BlockTypes, Index
  <2>4. PipesTypeOK /\ ConsoleTypeOK
    BY DEF StreamInv, PipeInv, ConsoleInv
  <2>5. \A f \in File :
          /\ ftable[f].ref \in Nat /\ ftable[f].writable \in BOOLEAN
          /\ ftable[f].type = "pipe" => ftable[f].obj \in Pipe
          /\ ftable[f].type = "inode" => ftable[f].obj \in Slot
          /\ ftable[f].type \in {"none", "device"} => ftable[f].obj = None
    BY <2>1 DEF CallInv, FileShape, Kinds, FileEntry
  <2>6. pfile \in [Process \X BOOLEAN -> File \cup {None}]
    BY <2>1 DEF Kinds, Half
  <2> QED  BY <2>1, <2>2, <2>3, <2>4, <2>5, <2>6 DEF TypeOK, Kinds, KilledTyped
<1> QED  BY <1>1, AllBlocks, AllStreams, AllKinds, PTL
=============================================================================
