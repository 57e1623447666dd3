-------------------------------- MODULE Call --------------------------------
(***************************************************************************)
(* Where each process is in its system call.  The modules of the objects   *)
(* that calls work on (Pipe, Inode, Console) share it, and Files puts them *)
(* together.                                                               *)
(***************************************************************************)
EXTENDS Integers, Sequences, FiniteSets

CONSTANTS
  Process,
  None           \* no file, no inode, no name, no copy, nobody

ASSUME ProcessAssumption == IsFiniteSet(Process) /\ Process # {}

VARIABLES
  pc,            \* in user mode ("user"), somewhere in a call, or no process ("dead")
  exiting,       \* processes in exit(), on their way through their files
  killed,        \* p->killed
  pfile          \* the files a process has got in pipe(), the end to read and the end
                 \* to write (TRUE), until they are on descriptors or given back

callVars == <<pc, exiting, killed>>

(* Where a call goes when it returns: back to the loop of exit(), to the   *)
(* cleanup of pipe(), which has its second file still to close, or to the  *)
(* user, where trap() makes a killed process exit.                         *)
Return(p) ==
  CASE p \in exiting -> "exiting"
    [] p \notin exiting /\ pfile[<<p, TRUE>>] # None -> "pipefail"
    [] OTHER -> "user"

Least(S) == CHOOSE x \in S : \A y \in S : x <= y
Greatest(S) == CHOOSE x \in S : \A y \in S : x >= y

Move(p, from, to) == pc[p] = from /\ pc' = [pc EXCEPT ![p] = to]
=============================================================================
