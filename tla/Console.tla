------------------------------- MODULE Console -------------------------------
(***************************************************************************)
(* Console input (console.c): a ring of characters with three indices.     *)
(* What is between r and w has been delivered to readers, what is between  *)
(* w and e is still being edited.  A step is one critical section of       *)
(* cons.lock: a character that comes in, or what a reader does until it    *)
(* returns or sleeps.  The indices are unsigned and wrap around; InputWrap *)
(* stands for 2^32, a multiple of INPUT_BUF.                               *)
(***************************************************************************)
EXTENDS Call

CONSTANTS INPUT_BUF, InputWrap

ASSUME ConsoleAssumption ==
  /\ INPUT_BUF \in Nat \ {0}
  /\ InputWrap \in Nat /\ InputWrap > INPUT_BUF /\ InputWrap % INPUT_BUF = 0

VARIABLES
  buf, r, w, e,  \* input
  reading        \* per process in consoleread(): its target, and n, the bytes to go

inputVars == <<buf, r, w, e>>
consoleVars == <<inputVars, reading>>

Character == {"letter", "newline", "eof"}
LineEnd == {"newline", "eof"}
NotReading == [target |-> 0, n |-> 0]

InitConsole ==
  /\ buf = [i \in 0 .. INPUT_BUF - 1 |-> "letter"] /\ r = 0 /\ w = 0 /\ e = 0
  /\ reading = [p \in Process |-> NotReading]

Distance(i, j) == (j + InputWrap - i) % InputWrap
Later(i, k) == (i + k) % InputWrap
Between(i, j) == [k \in 1 .. Distance(i, j) |-> buf[(i + k - 1) % INPUT_BUF]]
Delivered == Between(r, w)
Edited == Between(w, e)

-----------------------------------------------------------------------------
(* consoleintr()                                                           *)

WakeConsole == [p \in Process |-> IF pc[p] = "cread_sleep" THEN "cread" ELSE pc[p]]

EndsLine(c) == c \in LineEnd \/ Distance(r, e) + 1 = INPUT_BUF

Type(c) ==
  /\ Distance(r, e) < INPUT_BUF
  /\ buf' = [buf EXCEPT ![e % INPUT_BUF] = c]
  /\ e' = Later(e, 1)
  /\ IF EndsLine(c) THEN w' = e' /\ pc' = WakeConsole ELSE UNCHANGED <<w, pc>>
  /\ UNCHANGED <<r, reading, exiting, killed>>

MayEraseAll == e # r                              \* mutant: input.r for input.w
MayErase == e # w

Backspace ==
  /\ MayErase
  /\ e' = Later(e, InputWrap - 1)
  /\ UNCHANGED <<callVars, buf, r, w, reading>>

KillLine ==
  /\ e # w
  /\ LET newlines == {k \in DOMAIN Edited : Edited[k] = "newline"} IN
       e' = Later(w, IF newlines = {} THEN 0 ELSE Greatest(newlines))
  /\ UNCHANGED <<callVars, buf, r, w, reading>>

-----------------------------------------------------------------------------
(* consoleread(): goes on until it has n bytes, a newline or an end of     *)
(* file, and sleeps where there is nothing to read.  An end of file that   *)
(* comes after other bytes is left for the next call.                      *)

Reach(n) == Least({n, Len(Delivered)})
Stops(n) == {k \in 1 .. Reach(n) : Delivered[k] \in LineEnd}
Gets(n) == IF Stops(n) = {} THEN Reach(n) ELSE Least(Stops(n))
LeavesEof(p, k) ==
  /\ k > 0 /\ Delivered[k] = "eof"
  /\ reading[p].n - (k - 1) < reading[p].target

Consoleread(p) ==
  /\ pc[p] = "cread"
  /\ LET n == reading[p].n
         k == Gets(n) IN
       /\ r' = Later(r, IF LeavesEof(p, k) THEN k - 1 ELSE k)
       /\ IF k = n \/ Stops(n) # {} \/ killed[p]
          THEN /\ pc' = [pc EXCEPT ![p] = "user"]
               /\ reading' = [reading EXCEPT ![p] = NotReading]
          ELSE /\ pc' = [pc EXCEPT ![p] = "cread_sleep"]
               /\ reading' = [reading EXCEPT ![p].n = n - k]
  /\ UNCHANGED <<exiting, killed, buf, w, e>>

ConsoleIntr == Backspace \/ KillLine \/ \E c \in Character : Type(c)

InConsoleRead(p) == pc[p] \in {"cread", "cread_sleep"}

ConsoleTypeOK ==
  /\ buf \in [0 .. INPUT_BUF - 1 -> Character]
  /\ r \in 0 .. InputWrap - 1 /\ w \in 0 .. InputWrap - 1 /\ e \in 0 .. InputWrap - 1
  /\ reading \in [Process -> [target : Nat, n : Nat]]
=============================================================================
