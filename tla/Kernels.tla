------------------------------- MODULE Kernels -------------------------------
(***************************************************************************)
(* The memory of the kernels of labs 3 and 4.                              *)
(***************************************************************************)
EXTENDS Shm, Stack

Next == \E p \in Process : MemoryCall(p) \/ ShmCall(p) \/ PageFault(p)

Spec == Init /\ [][Next]_vars

-----------------------------------------------------------------------------
Mappings == {x \in Process \X Page : pages[x[1]][x[2]] \in Frame}
MappedFrames == {pages[x[1]][x[2]] : x \in Mappings}
PrivateMappings == {x \in Mappings : pages[x[1]][x[2]] \notin shared}
Directories == {p \in Process : pgdir[p] # None}
PrivateFrames == (MappedFrames \ shared) \cup {pgdir[p] : p \in Directories}

(* A frame is free, or the page or the page directory of one process, or   *)
(* shared and in use, or lost.  So no process reads or writes memory of    *)
(* another that was not shared with it.  Only shared frames are ever freed *)
(* while in use: by a process that ends, shrinks or calls exec() while     *)
(* another has the page or the table still has it.                         *)
FramesAccounted ==
  /\ misfreed = {} =>
       /\ free \cup PrivateFrames \cup shared \cup lost = Frame
       /\ Cardinality(free) + Cardinality(PrivateMappings) + Cardinality(Directories)
            + Cardinality(shared) + Cardinality(lost) = Cardinality(Frame)
       /\ \A f \in shared : f \in MappedFrames \/ InTable(f)
  /\ misfreed # {} => kernel = "lab4"

(* What sz says a process has is what it has.  In lab 4 it has exactly the *)
(* pages below sz, of which it may use all but the guard below its stack,  *)
(* unless shm_open() skipped one.  In lab 3 it may use the page its stack  *)
(* begins with, and has the pages below sz if some program has been run in *)
(* its slot; in one that only fork() has used, page faults take them away. *)
SizeIsMapped == \A p \in Process : Runs(p) =>
  IF kernel = "lab4"
  THEN /\ Mapped(p) \subseteq 0 .. sz[p] - 1
       /\ "not mapped" \in misused \/ 0 .. sz[p] - 1 \subseteq Mapped(p)
       /\ guard[p] = {PROGRAM}
  ELSE /\ TOP - 1 \notin guard[p]
       /\ my_sp[p] = -1 \/ 0 .. sz[p] - 1 \subseteq Mapped(p)

(* The lab 4 kernel panics over memory only if shm_open() mapped address 0 *)
(* or nothing, or has made a process as large as user space: then the next *)
(* page it maps is the kernel's, and past KERNBASE so are those that       *)
(* fork() copies and sbrk() frees.  The lab 3 kernel panics when stack     *)
(* pages are not used from the top down, or the heap has grown into them.  *)
PanicsExplained ==
  /\ panic = "kfree" => "no frame" \in misused \/ \E p \in Process : sz[p] > TOP
  /\ panic = "remap" => kernel = "lab3" \/ \E p \in Process : sz[p] >= TOP
  /\ panic = "clearpteu" => kernel = "lab3"
  /\ panic \in NotThere => kernel = "lab3" \/ "not mapped" \in misused
=============================================================================
