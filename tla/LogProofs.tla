------------------------------ MODULE LogProofs ------------------------------
(***************************************************************************)
(* The safety properties of Log, proved for logs, disks and numbers of     *)
(* callers of any size.                                                    *)
(*                                                                         *)
(* The heart of it is that begin_op()'s reservation is enough, although    *)
(* nothing counts how much of it a call has used.  Used is that count: the *)
(* blocks that callers have written and that are in the log, counted once  *)
(* for each caller that wrote them.                                        *)
(***************************************************************************)
EXTENDS Log, FiniteSetTheorems, FunctionTheorems, SequenceTheorems, TLAPS

Used == {x \in InCall \X Home : x[2] \in wrote[x[1]] \cap Entries(lh)}

(* What is in the log and what callers may still add to it has room.       *)
Reserved == Len(lh) + outstanding * MAXOPBLOCKS - Cardinality(Used) <= LOGSIZE

(* Where a caller is says what it has locked and written.                  *)
Writing ==
  \A p \in Caller :
    /\ Cardinality(wrote[p]) <= MAXOPBLOCKS /\ IsFiniteSet(wrote[p])
    /\ pc[p] \in {"log", "panic"} <=> hold[p] # NoBlock
    /\ hold[p] # NoBlock => hold[p] \in wrote[p]
    /\ p \notin InCall => wrote[p] = {}

(* The log is empty but while calls are in progress, it is being committed *)
(* or recovered; and the work that empties it is where phase says.         *)
Working ==
  /\ committing => phase \in {"write_log", "install", "done"}
  /\ ~committing => phase \in {"idle", "boot", "install"}
  /\ Recovering => InCall = {}
  /\ Recovering => \A p \in Caller : pc[p] = "out"
  /\ (phase = "idle" /\ outstanding = 0) \/ phase \in {"boot", "done"} => lh = <<>>
  /\ tail <= Len(lh)

IInv ==
  /\ TypeOK /\ CommitAlone /\ NoStrandedWaiter
  /\ Writing /\ Reserved /\ Working

-----------------------------------------------------------------------------
(* A relation in which each of P has at most n partners has at most n      *)
(* times as many pairs as P has elements: the partners of each can be      *)
(* numbered, which makes pairs of P and a number out of the relation.      *)
Partners(R, B, p) == {b \in B : <<p, b>> \in R}

LEMMA Numbering ==
  ASSUME NEW S, IsFiniteSet(S), NEW n \in Nat, Cardinality(S) <= n
  PROVE  \E f \in [S -> 1 .. n] : \A b, c \in S : f[b] = f[c] => b = c
<1>1. PICK k \in Nat : k = Cardinality(S) /\ k <= n /\ ExistsBijection(1 .. k, S)
  BY FS_CardinalityType
<1>2. PICK f : f \in Bijection(S, 1 .. k)
  BY <1>1, Fun_ExistsBijSymmetric DEF ExistsBijection
<1>3. f \in [S -> 1 .. k] /\ f \in Injection(S, 1 .. k)
  BY <1>2, Fun_BijectionProperties
<1>4. \A b, c \in S : f[b] = f[c] => b = c
  BY <1>3, Fun_InjectionProperties
<1>5. f \in [S -> 1 .. n]
  BY <1>1, <1>3
<1> QED  BY <1>4, <1>5

LEMMA PartnersBound ==
  ASSUME NEW P, IsFiniteSet(P), NEW B, NEW n \in Nat, NEW R \in SUBSET (P \X B),
         \A p \in P : IsFiniteSet(Partners(R, B, p)) /\ Cardinality(Partners(R, B, p)) <= n
  PROVE  IsFiniteSet(R) /\ Cardinality(R) <= Cardinality(P) * n
<1> DEFINE number(p) == CHOOSE f \in [Partners(R, B, p) -> 1 .. n] :
             \A b, c \in Partners(R, B, p) : f[b] = f[c] => b = c
           h == [r \in R |-> <<r[1], number(r[1])[r[2]]>>]
<1>1. ASSUME NEW p \in P
      PROVE  /\ number(p) \in [Partners(R, B, p) -> 1 .. n]
             /\ \A b, c \in Partners(R, B, p) : number(p)[b] = number(p)[c] => b = c
  BY Numbering
<1> HIDE DEF number
<1>2. ASSUME NEW r \in R
      PROVE  r[1] \in P /\ r[2] \in Partners(R, B, r[1]) /\ r = <<r[1], r[2]>>
  BY DEF Partners
<1>3. h \in [R -> P \X (1 .. n)]
  BY <1>1, <1>2
<1>4. \A r, s \in R : h[r] = h[s] => r = s
  <2> SUFFICES ASSUME NEW r \in R, NEW s \in R, h[r] = h[s] PROVE r = s
    OBVIOUS
  <2>1. r[1] = s[1] /\ number(r[1])[r[2]] = number(s[1])[s[2]]
    OBVIOUS
  <2>2. r[2] = s[2]
    BY <1>1, <1>2, <2>1
  <2> QED  BY <1>2, <2>1, <2>2
<1> HIDE DEF h
<1>5. h \in Injection(R, P \X (1 .. n))
  BY <1>3, <1>4, Fun_IsInj
<1>6. IsFiniteSet(P \X (1 .. n)) /\ Cardinality(P \X (1 .. n)) = Cardinality(P) * n
  <2>1. IsFiniteSet(1 .. n) /\ Cardinality(1 .. n) = n
    BY FS_Interval
  <2> QED  BY <2>1, FS_Product
<1> QED  BY <1>5, <1>6, FS_Injection

LEMMA ConstFacts ==
  /\ MAXOPBLOCKS \in Nat /\ LOGSIZE \in Nat /\ NLOG \in Nat /\ NHOME \in Nat
  /\ MAXOPBLOCKS >= 1 /\ LOGSIZE >= 1 /\ NLOG >= 1 /\ NHOME >= 1
  /\ MAXOPBLOCKS <= LOGSIZE /\ 1 .. LOGSIZE \subseteq DiskBlock
  /\ NoBlock \notin Home /\ Home \subseteq DiskBlock /\ Home \subseteq Nat
  /\ Zero \in Data /\ Absent \notin Data
  /\ Cardinality(Caller) \in Nat
  BY SizeAssumption, DataAssumption, CallerAssumption, FS_CardinalityType
     DEF NoBlock, Home, DiskBlock

LEMMA InCallFinite ==
  /\ IsFiniteSet(InCall) /\ Cardinality(InCall) \in 0 .. Cardinality(Caller)
  /\ IsFiniteSet(InCall') /\ Cardinality(InCall') \in 0 .. Cardinality(Caller)
<1>1. IsFiniteSet(Caller) /\ InCall \subseteq Caller /\ InCall' \subseteq Caller
  BY CallerAssumption DEF InCall
<1>2. \A S \in SUBSET Caller :
        IsFiniteSet(S) /\ Cardinality(S) \in Nat /\ Cardinality(S) <= Cardinality(Caller)
  BY <1>1, FS_Subset, FS_CardinalityType
<1>3. Cardinality(Caller) \in Nat
  BY <1>1, FS_CardinalityType
<1> QED  BY <1>1, <1>2, <1>3

(* What a caller has used is part of what it has written.                  *)
LEMMA UsedFinite ==
  Writing =>
    /\ IsFiniteSet(Used) /\ Cardinality(Used) \in Nat
    /\ Cardinality(Used) <= Cardinality(InCall) * MAXOPBLOCKS
<1> SUFFICES ASSUME Writing
             PROVE  /\ IsFiniteSet(Used) /\ Cardinality(Used) \in Nat
                    /\ Cardinality(Used) <= Cardinality(InCall) * MAXOPBLOCKS
  OBVIOUS
<1>1. ASSUME NEW p \in InCall
      PROVE  /\ IsFiniteSet(Partners(Used, Home, p))
             /\ Cardinality(Partners(Used, Home, p)) <= MAXOPBLOCKS
  <2>1. p \in Caller /\ Partners(Used, Home, p) \subseteq wrote[p]
    BY <1>1 DEF Partners, Used, InCall
  <2>2. IsFiniteSet(wrote[p]) /\ Cardinality(wrote[p]) <= MAXOPBLOCKS
    BY <2>1 DEF Writing
  <2>3. Cardinality(wrote[p]) \in Nat
    BY <2>2, FS_CardinalityType
  <2>4. /\ IsFiniteSet(Partners(Used, Home, p))
        /\ Cardinality(Partners(Used, Home, p)) <= Cardinality(wrote[p])
    BY <2>1, <2>2, FS_Subset
  <2>5. Cardinality(Partners(Used, Home, p)) \in Nat
    BY <2>4, FS_CardinalityType
  <2> QED  BY <2>2, <2>3, <2>4, <2>5, ConstFacts
<1>2. Used \subseteq InCall \X Home
  BY DEF Used
<1>3. IsFiniteSet(Used) /\ Cardinality(Used) <= Cardinality(InCall) * MAXOPBLOCKS
  BY <1>1, <1>2, InCallFinite, ConstFacts, PartnersBound
<1> QED  BY <1>3, FS_CardinalityType

LEMMA UsedFinitePrimed ==
  (Writing =>
     /\ IsFiniteSet(Used) /\ Cardinality(Used) \in Nat
     /\ Cardinality(Used) <= Cardinality(InCall) * MAXOPBLOCKS)'
  BY UsedFinite, PTL

(* Steps that change neither the log nor who is in a call and what it has  *)
(* written.                                                                *)
LEMMA SameUse ==
  ASSUME IInv, UNCHANGED <<lh, outstanding, wrote>>, InCall' = InCall
  PROVE  Reserved'
<1>1. Used' = Used
  BY DEF Used
<1> QED  BY <1>1 DEF IInv, Reserved

-----------------------------------------------------------------------------
(* Actions                                                                 *)

LEMMA InitInv == Init => IInv
<1> SUFFICES ASSUME Init PROVE IInv
  OBVIOUS
<1> USE ConstFacts DEF Init
<1>1. InCall = {} /\ Used = {}
  BY DEF InCall, Used
<1>2. TypeOK
  <2>1. Cardinality(Caller) \in Nat
    BY CallerAssumption, FS_CardinalityType
  <2>2. lh \in Seq(Home) /\ head \in Seq(Home) /\ Len(lh) = 0 /\ Len(head) = 0
    BY EmptySeq
  <2>3. /\ disk \in [DiskBlock -> Data] /\ cache \in [Home -> Data \cup {Absent}]
        /\ pc \in [Caller -> Counter] /\ hold \in [Caller -> Home \cup {NoBlock}]
        /\ wrote \in [Caller -> SUBSET Home]
    BY DEF Counter
  <2>4. Len(lh) <= LOGSIZE /\ Len(head) <= LOGSIZE
    BY <2>2
  <2>5. outstanding \in 0 .. Cardinality(Caller) /\ tail \in 0 .. LOGSIZE
    BY <2>1
  <2>6. committing \in BOOLEAN /\ phase \in Phase /\ dirty \subseteq Home
    BY DEF Phase
  <2> QED  BY <2>2, <2>3, <2>4, <2>5, <2>6 DEF TypeOK
<1>3. CommitAlone /\ NoStrandedWaiter
  BY <1>1, FS_EmptySet DEF CommitAlone, NoStrandedWaiter
<1>4. Writing
  BY FS_EmptySet DEF Writing
<1>5. Reserved
  BY <1>1, FS_EmptySet, EmptySeq DEF Reserved
<1>6. Working
  BY <1>1, EmptySeq DEF Working
<1> QED  BY <1>2, <1>3, <1>4, <1>5, <1>6 DEF IInv

LEMMA CrashStep ==
  ASSUME IInv, Crash PROVE IInv'
<1> USE ConstFacts DEF IInv, Crash
<1>1. InCall' = {} /\ Used' = {}
  BY DEF InCall, Used
<1>2. TypeOK'
  <2>1. Cardinality(Caller) \in Nat
    BY CallerAssumption, FS_CardinalityType
  <2>2. <<>> \in Seq(Home) /\ Len(<<>>) = 0
    BY EmptySeq
  <2>3. /\ (cache \in [Home -> Data \cup {Absent}])'
        /\ (pc \in [Caller -> Counter])' /\ (hold \in [Caller -> Home \cup {NoBlock}])'
        /\ (wrote \in [Caller -> SUBSET Home])'
    BY DEF Counter
  <2>4. (lh \in Seq(Home) /\ Len(lh) <= LOGSIZE)'
    BY <2>2
  <2>5. (outstanding \in 0 .. Cardinality(Caller) /\ tail \in 0 .. LOGSIZE)'
    BY <2>1
  <2>6. (committing \in BOOLEAN /\ phase \in Phase /\ dirty \subseteq Home)'
    BY DEF Phase
  <2>7. (/\ head \in Seq(Home) /\ Len(head) <= LOGSIZE /\ disk \in [DiskBlock -> Data])'
    BY DEF TypeOK, diskVars
  <2> QED  BY <2>3, <2>4, <2>5, <2>6, <2>7 DEF TypeOK
<1>3. CommitAlone' /\ NoStrandedWaiter'
  BY <1>1, FS_EmptySet DEF CommitAlone, NoStrandedWaiter
<1>4. Writing'
  BY FS_EmptySet DEF Writing, InCall
<1>5. Reserved'
  BY <1>1, FS_EmptySet, EmptySeq DEF Reserved
<1>6. Working'
  BY <1>1, EmptySeq DEF Working, Recovering
<1> QED  BY <1>2, <1>3, <1>4, <1>5, <1>6

(* The reservation is what begin_op() checks.                              *)
LEMMA BeginStep ==
  ASSUME IInv, NEW p \in Caller, Begin(p) PROVE IInv'
<1> USE ConstFacts DEF IInv, Begin
<1>1. /\ p \notin InCall /\ InCall' = InCall \cup {p}
      /\ Cardinality(InCall') = Cardinality(InCall) + 1
  <2>1. p \notin InCall /\ InCall' = InCall \cup {p}
    BY DEF TypeOK, InCall
  <2> QED  BY <2>1, InCallFinite, FS_AddElement
<1>2. Used' = Used
  <2>1. wrote[p] = {} /\ wrote' = wrote /\ lh' = lh
    BY <1>1 DEF Writing
  <2> QED  BY <1>1, <2>1 DEF Used
<1>3. TypeOK'
  BY <1>1, InCallFinite DEF TypeOK, CommitAlone, Counter, diskVars, workVars, bufVars
<1>4. CommitAlone'
  BY <1>1 DEF CommitAlone, TypeOK, MustWait
<1>5. NoStrandedWaiter'
  BY DEF NoStrandedWaiter, TypeOK, Short, MustWait
<1>6. Writing'
  BY <1>1 DEF Writing, TypeOK, InCall
<1>7. Reserved'
  BY <1>2, UsedFinite DEF Reserved, TypeOK, MustWait, Short
<1>8. Working'
  BY <1>1 DEF Working, TypeOK, Recovering, workVars, MustWait
<1> QED  BY <1>3, <1>4, <1>5, <1>6, <1>7, <1>8

LEMMA BeginWaitsStep ==
  ASSUME IInv, NEW p \in Caller, BeginWaits(p) PROVE IInv'
<1> USE ConstFacts DEF IInv, BeginWaits
<1>1. InCall' = InCall
  BY DEF TypeOK, InCall
<1>2. TypeOK'
  BY DEF TypeOK, Counter, diskVars, logVars, workVars, bufVars
<1>3. CommitAlone'
  BY <1>1 DEF CommitAlone, TypeOK, logVars
<1>4. NoStrandedWaiter'
  <2>1. committing \/ (Short /\ outstanding > 0)
    BY EmptySeq DEF TypeOK, Working, Recovering, MustWait, Short, Phase
  <2> QED  BY <2>1 DEF NoStrandedWaiter, TypeOK, Short, logVars
<1>5. Writing'
  BY <1>1 DEF Writing, TypeOK, InCall
<1>6. Reserved'
  BY <1>1, SameUse DEF logVars
<1>7. Working'
  BY <1>1 DEF Working, TypeOK, Recovering, workVars, logVars
<1> QED  BY <1>2, <1>3, <1>4, <1>5, <1>6, <1>7

(* Writing more of the log's blocks only adds to what is used.             *)
LEMMA ModifyStep ==
  ASSUME IInv, NEW p \in Caller, NEW b \in Home, NEW v \in Data, Modify(p, b, v)
  PROVE  IInv'
<1> USE ConstFacts DEF IInv, Modify
<1>1. InCall' = InCall /\ p \in InCall
  BY DEF TypeOK, InCall
<1>2. TypeOK'
  BY DEF TypeOK, Counter, diskVars, logVars, workVars
<1>3. CommitAlone'
  BY <1>1 DEF CommitAlone, TypeOK, logVars
<1>4. NoStrandedWaiter'
  BY DEF NoStrandedWaiter, TypeOK, Short, logVars
<1>5. Writing'
  <2>1. IsFiniteSet(wrote[p] \cup {b})
    BY FS_AddElement DEF Writing
  <2> QED  BY <1>1, <2>1 DEF Writing, TypeOK
<1>6. Reserved'
  <2>1. Used \subseteq Used'
    BY <1>1 DEF Used, TypeOK, logVars
  <2>2. /\ IsFiniteSet(Used) /\ Cardinality(Used) \in Nat
        /\ IsFiniteSet(Used') /\ Cardinality(Used') \in Nat
    BY <1>2, <1>5, UsedFinite, UsedFinitePrimed
  <2>3. Cardinality(Used) <= Cardinality(Used')
    BY <2>1, <2>2, FS_Subset
  <2> QED  BY <2>2, <2>3 DEF Reserved, TypeOK, logVars
<1>7. Working'
  BY <1>1 DEF Working, TypeOK, Recovering, workVars, logVars
<1> QED  BY <1>2, <1>3, <1>4, <1>5, <1>6, <1>7

(* A block that is new in the log uses up some of its caller's reservation *)
(* and there was some left, since what all have used is less than all may. *)
LEMMA LogWriteStep ==
  ASSUME IInv, NEW p \in Caller, LogWrite(p) PROVE IInv'
<1> USE ConstFacts DEF IInv, LogWrite
<1> DEFINE b == hold[p]
<1>1. InCall' = InCall /\ p \in InCall /\ b \in Home /\ b \in wrote[p]
  BY DEF TypeOK, InCall, Writing
<1>2. /\ lh' \in Seq(Home)
      /\ b \in Entries(lh) => lh' = lh
      /\ b \notin Entries(lh) => Len(lh') = Len(lh) + 1
      /\ Entries(lh') = Entries(lh) \cup {b}
  <2>1. CASE b \in Entries(lh)
    BY <2>1 DEF Logged, TypeOK
  <2>2. CASE b \notin Entries(lh)
    <3>1. lh' = Append(lh, b) /\ lh \in Seq(Home)
      BY <2>2 DEF Logged, TypeOK
    <3>2. /\ lh' \in Seq(Home) /\ Len(lh') = Len(lh) + 1 /\ Len(lh) \in Nat
          /\ \A i \in 1 .. Len(lh) : lh'[i] = lh[i]
          /\ lh'[Len(lh) + 1] = b
      BY <1>1, <3>1, AppendProperties, LenProperties
    <3>3. DOMAIN lh = 1 .. Len(lh) /\ DOMAIN lh' = 1 .. Len(lh) + 1
      BY <3>1, <3>2, LenProperties
    <3>4. Entries(lh') = Entries(lh) \cup {b}
      BY <3>2, <3>3 DEF Entries
    <3> QED  BY <2>2, <3>2, <3>4
  <2> QED  BY <2>1, <2>2
<1>3. Used \subseteq Used' /\ <<p, b>> \in Used'
  BY <1>1, <1>2 DEF Used
<1>4. b \notin Entries(lh) => <<p, b>> \notin Used
  BY DEF Used
<1>5. Writing'
  BY <1>1 DEF Writing, TypeOK
<1>6. Cardinality(InCall') = outstanding' /\ outstanding \in Nat
  BY <1>1 DEF CommitAlone, TypeOK
<1>7. /\ IsFiniteSet(Used) /\ Cardinality(Used) \in Nat
      /\ IsFiniteSet(Used') /\ Cardinality(Used') \in Nat
      /\ Cardinality(Used') <= outstanding' * MAXOPBLOCKS
  BY <1>5, <1>6, UsedFinite, UsedFinitePrimed
<1>8. Cardinality(Used) <= Cardinality(Used')
  BY <1>3, <1>7, FS_Subset
<1>9. b \notin Entries(lh) => Cardinality(Used) + 1 <= Cardinality(Used')
  <2> SUFFICES ASSUME b \notin Entries(lh) PROVE Cardinality(Used) + 1 <= Cardinality(Used')
    OBVIOUS
  <2>1. Cardinality(Used \cup {<<p, b>>}) = Cardinality(Used) + 1 /\ IsFiniteSet(Used \cup {<<p, b>>})
    BY <1>4, <1>7, FS_AddElement
  <2>2. Used \cup {<<p, b>>} \subseteq Used'
    BY <1>3
  <2> QED  BY <1>7, <2>1, <2>2, FS_Subset
<1>10. Reserved'
  BY <1>2, <1>7, <1>8, <1>9, LenProperties DEF Reserved, TypeOK
<1>11. Len(lh') \in Nat /\ Len(lh') <= LOGSIZE
  <2>1. Len(lh') \in Nat
    BY <1>2, LenProperties
  <2>2. outstanding' * MAXOPBLOCKS \in Nat
    BY <1>6
  <2> QED  BY <1>7, <1>10, <2>1, <2>2 DEF Reserved
<1>12. TypeOK'
  BY <1>1, <1>2, <1>11 DEF TypeOK, Counter, diskVars, workVars, Pinned
<1>13. CommitAlone'
  BY <1>1 DEF CommitAlone, TypeOK
<1>14. NoStrandedWaiter'
  BY <1>2, LenProperties DEF NoStrandedWaiter, TypeOK, Short
<1>15. Working'
  BY <1>1, <1>2, <1>6, LenProperties, FS_EmptySet, InCallFinite
     DEF Working, TypeOK, Recovering, workVars, CommitAlone, Phase
<1> QED  BY <1>5, <1>10, <1>12, <1>13, <1>14, <1>15

(* A caller that leaves gives back all its reservation, used or not.       *)
LEMMA EndStep ==
  ASSUME IInv, NEW p \in Caller, End(p) PROVE IInv'
<1> USE ConstFacts DEF IInv, End, WakeAtEnd, Wakeup
<1> DEFINE Mine == {x \in Used : x[1] = p}
<1>1. /\ p \in InCall /\ InCall' = InCall \ {p}
      /\ Cardinality(InCall') = Cardinality(InCall) - 1
      /\ ~committing
  <2>1. p \in InCall /\ InCall' = InCall \ {p}
    BY DEF TypeOK, InCall
  <2> QED  BY <2>1, InCallFinite, FS_RemoveElement DEF CommitAlone
<1>2. Used' = Used \ Mine
  BY <1>1 DEF Used, TypeOK, InCall
<1>3. IsFiniteSet(Mine) /\ Cardinality(Mine) \in Nat /\ Cardinality(Mine) <= MAXOPBLOCKS
  <2>1. Mine \subseteq {p} \X Home
    BY DEF Used
  <2>2. Partners(Mine, Home, p) \subseteq wrote[p]
    BY DEF Partners, Used
  <2>3. IsFiniteSet(wrote[p]) /\ Cardinality(wrote[p]) <= MAXOPBLOCKS
    BY DEF Writing
  <2> HIDE DEF Mine
  <2>4. /\ IsFiniteSet(Partners(Mine, Home, p))
        /\ Cardinality(Partners(Mine, Home, p)) <= MAXOPBLOCKS
    BY <2>2, <2>3, FS_Subset, FS_CardinalityType
  <2>5. IsFiniteSet({p}) /\ Cardinality({p}) = 1
    BY FS_Singleton
  <2>6. IsFiniteSet(Mine) /\ Cardinality(Mine) <= 1 * MAXOPBLOCKS
    BY <2>1, <2>4, <2>5, PartnersBound
  <2> QED  BY <2>6, FS_CardinalityType
<1>4. Cardinality(Used') = Cardinality(Used) - Cardinality(Mine) /\ Cardinality(Used) \in Nat
  <2>1. IsFiniteSet(Used) /\ Cardinality(Used) \in Nat
    BY UsedFinite
  <2>2. Used \cap Mine = Mine
    OBVIOUS
  <2> QED  BY <1>2, <2>1, <2>2, FS_Difference
<1>5. TypeOK'
  BY DEF TypeOK, Counter, diskVars, workVars, bufVars
<1>6. CommitAlone'
  BY <1>1 DEF CommitAlone, TypeOK
<1>7. NoStrandedWaiter'
  BY DEF NoStrandedWaiter, TypeOK
<1>8. Writing'
  BY <1>1, FS_EmptySet DEF Writing, TypeOK, InCall
<1>9. Reserved'
  <2> HIDE DEF Mine
  <2>1. outstanding \in Nat /\ Len(lh) \in Nat
    BY LenProperties DEF TypeOK
  <2>2. outstanding' * MAXOPBLOCKS = outstanding * MAXOPBLOCKS - MAXOPBLOCKS
    BY <2>1
  <2>3. outstanding * MAXOPBLOCKS \in Nat /\ lh' = lh
    BY <2>1
  <2> QED  BY <1>3, <1>4, <2>1, <2>2, <2>3 DEF Reserved
<1>10. Working'
  BY <1>1 DEF Working, TypeOK, Recovering, workVars
<1> QED  BY <1>5, <1>6, <1>7, <1>8, <1>9, <1>10

(* The last caller was alone.                                              *)
LEMMA EndLastStep ==
  ASSUME IInv, NEW p \in Caller, EndLast(p) PROVE IInv'
<1> USE ConstFacts DEF IInv, EndLast
<1>1. InCall = {p} /\ InCall' = {} /\ Used' = {} /\ ~committing
  <2>1. p \in InCall /\ InCall' = InCall \ {p}
    BY DEF TypeOK, InCall
  <2>2. \E q : InCall = {q}
    BY InCallFinite, FS_Singleton DEF CommitAlone
  <2> QED  BY <2>1, <2>2 DEF CommitAlone, Used
<1>2. TypeOK'
  BY DEF TypeOK, Counter, Phase, diskVars, bufVars
<1>3. CommitAlone'
  BY <1>1, FS_EmptySet DEF CommitAlone, TypeOK
<1>4. NoStrandedWaiter'
  BY DEF NoStrandedWaiter, TypeOK
<1>5. Writing'
  BY <1>1, FS_EmptySet DEF Writing, TypeOK, InCall
<1>6. Reserved'
  BY <1>1, FS_EmptySet, LenProperties DEF Reserved, TypeOK
<1>7. Working'
  BY <1>1 DEF Working, TypeOK, Recovering
<1> QED  BY <1>2, <1>3, <1>4, <1>5, <1>6, <1>7

(* The buffer cache on its own                                             *)
LEMMA BufferStep ==
  ASSUME IInv, Buffer PROVE IInv'
<1> USE ConstFacts DEF IInv
<1>1. PICK b \in Home : Fill(b) \/ Recycle(b)
  BY DEF Buffer
<1>2. UNCHANGED <<diskVars, logVars, workVars, dirty, callVars>> /\ InCall' = InCall
  BY <1>1 DEF Fill, Recycle, InCall, callVars
<1>3. TypeOK'
  <2>1. cache' \in [Home -> Data \cup {Absent}]
    BY <1>1 DEF Fill, Recycle, TypeOK
  <2> QED  BY <1>2, <2>1 DEF TypeOK, diskVars, logVars, workVars, callVars
<1>4. CommitAlone' /\ NoStrandedWaiter' /\ Writing'
  BY <1>2 DEF CommitAlone, NoStrandedWaiter, Short, Writing, logVars, callVars
<1>5. Reserved'
  BY <1>2, SameUse DEF logVars, callVars
<1>6. Working'
  BY <1>2 DEF Working, Recovering, logVars, workVars, callVars
<1> QED  BY <1>3, <1>4, <1>5, <1>6

-----------------------------------------------------------------------------
(* commit() and recovery                                                   *)

(* The blocks they copy are in range, so their contents are data.          *)
LEMMA ContentIsData ==
  ASSUME TypeOK, NEW k \in DiskBlock PROVE Content(k) \in Data
  BY ConstFacts DEF TypeOK, Content

LEMMA CopyStep ==
  ASSUME IInv, WriteLog \/ Install PROVE IInv'
<1> USE ConstFacts DEF IInv
<1>1. /\ tail < Len(lh) /\ tail' = tail + 1 /\ UNCHANGED <<head, logVars, phase, callVars>>
      /\ \E k, l \in DiskBlock : Bwrite(k, Content(l))
  <2>1. tail + 1 \in 1 .. Len(lh) /\ Len(lh) \in Nat /\ tail < Len(lh)
    BY LenProperties DEF TypeOK, WriteLog, Install
  <2>2. tail + 1 \in DiskBlock /\ lh[tail + 1] \in DiskBlock
    <3>1. tail + 1 \in 1 .. LOGSIZE
      BY <2>1 DEF TypeOK
    <3>2. lh[tail + 1] \in Home
      BY <2>1, ElementOfSeq DEF TypeOK
    <3> QED  BY <3>1, <3>2
  <2> QED  BY <2>1, <2>2 DEF WriteLog, Install
<1>2. InCall' = InCall
  BY <1>1 DEF InCall, callVars
<1>3. TypeOK'
  <2>1. PICK k \in DiskBlock, l \in DiskBlock : Bwrite(k, Content(l))
    BY <1>1
  <2>2. /\ disk' \in [DiskBlock -> Data] /\ cache' \in [Home -> Data \cup {Absent}]
        /\ dirty' \subseteq Home
    BY <2>1, ContentIsData DEF TypeOK, Bwrite
  <2>3. tail' \in 0 .. LOGSIZE
    BY <1>1, LenProperties DEF TypeOK
  <2> QED  BY <1>1, <2>2, <2>3 DEF TypeOK, logVars, callVars
<1>4. CommitAlone' /\ NoStrandedWaiter' /\ Writing'
  BY <1>1, <1>2 DEF CommitAlone, NoStrandedWaiter, Short, Writing, logVars, callVars
<1>5. Reserved'
  BY <1>1, <1>2, SameUse DEF logVars, callVars
<1>6. Working'
  BY <1>1, <1>2, LenProperties DEF Working, Recovering, logVars, callVars, TypeOK
<1> QED  BY <1>3, <1>4, <1>5, <1>6

LEMMA WriteHeadStep ==
  ASSUME IInv, WriteHead PROVE IInv'
<1> USE ConstFacts DEF IInv, WriteHead
<1>1. InCall' = InCall /\ committing
  BY DEF InCall, callVars, Working
<1>2. TypeOK'
  BY DEF TypeOK, Phase, logVars, bufVars, callVars
<1>3. CommitAlone' /\ NoStrandedWaiter' /\ Writing'
  BY <1>1 DEF CommitAlone, NoStrandedWaiter, Short, Writing, logVars, callVars
<1>4. Reserved'
  BY <1>1, SameUse DEF logVars, callVars
<1>5. Working'
  BY <1>1, LenProperties DEF Working, Recovering, logVars, callVars, TypeOK
<1> QED  BY <1>2, <1>3, <1>4, <1>5

(* During recovery and commit nobody is in a call.                         *)
LEMMA QuietReserved ==
  ASSUME IInv, InCall' = {}, outstanding' = 0, Len(lh') \in Nat, Len(lh') <= LOGSIZE
  PROVE  Reserved'
<1>1. Used' = {}
  BY DEF Used
<1> QED  BY <1>1, FS_EmptySet, ConstFacts DEF Reserved

LEMMA ReadHeadStep ==
  ASSUME IInv, ReadHead PROVE IInv'
<1> USE ConstFacts DEF IInv, ReadHead
<1>1. /\ InCall' = {} /\ InCall = {} /\ ~committing /\ outstanding = 0
      /\ \A p \in Caller : pc[p] = "out"
  BY FS_EmptySet DEF Working, InCall, callVars, Recovering, CommitAlone
<1>2. Len(head) \in Nat /\ Len(head) <= LOGSIZE
  BY LenProperties DEF TypeOK
<1>3. TypeOK'
  BY <1>2 DEF TypeOK, Phase, diskVars, bufVars, callVars
<1>4. CommitAlone' /\ NoStrandedWaiter' /\ Writing'
  BY <1>1 DEF CommitAlone, NoStrandedWaiter, Writing, callVars
<1>5. Reserved'
  BY <1>1, <1>2, QuietReserved
<1>6. Working'
  BY <1>1, <1>2 DEF Working, Recovering, callVars
<1> QED  BY <1>3, <1>4, <1>5, <1>6

LEMMA ClearStep ==
  ASSUME IInv, Clear PROVE IInv'
<1> USE ConstFacts DEF IInv, Clear, Installed
<1>1. InCall' = {} /\ InCall = {} /\ outstanding = 0
  BY FS_EmptySet DEF Working, InCall, callVars, Recovering, CommitAlone
<1>2. ~committing => \A p \in Caller : pc[p] = "out"
  BY DEF Working, Recovering
<1>3. lh' \in Seq(Home) /\ head' \in Seq(Home) /\ Len(lh') = 0 /\ Len(head') = 0
  BY EmptySeq
<1>4. TypeOK'
  BY <1>3 DEF TypeOK, Phase, bufVars, callVars
<1>5. CommitAlone' /\ NoStrandedWaiter' /\ Writing'
  BY <1>1, <1>2 DEF CommitAlone, NoStrandedWaiter, Writing, callVars
<1>6. Reserved'
  BY <1>1, <1>3, QuietReserved
<1>7. Working'
  BY <1>1, <1>2, <1>3 DEF Working, Recovering, callVars
<1> QED  BY <1>4, <1>5, <1>6, <1>7

LEMMA CommittedStep ==
  ASSUME IInv, Committed PROVE IInv'
<1> USE ConstFacts DEF IInv, Committed, Wakeup
<1>1. InCall' = {} /\ InCall = {} /\ outstanding = 0
  <2>1. InCall = {} /\ outstanding = 0
    BY FS_EmptySet DEF Working, CommitAlone
  <2> QED  BY <2>1 DEF InCall, TypeOK
<1>2. TypeOK'
  BY DEF TypeOK, Phase, Counter, diskVars, bufVars
<1>3. CommitAlone' /\ NoStrandedWaiter'
  BY <1>1 DEF CommitAlone, NoStrandedWaiter, TypeOK
<1>4. Writing'
  BY <1>1 DEF Writing, TypeOK, InCall
<1>5. Reserved'
  BY <1>1, QuietReserved, LenProperties DEF TypeOK
<1>6. Working'
  BY <1>1 DEF Working, Recovering
<1> QED  BY <1>2, <1>3, <1>4, <1>5, <1>6

LEMMA StutterStep ==
  ASSUME IInv, UNCHANGED vars PROVE IInv'
<1> USE DEF IInv, vars, diskVars, logVars, workVars, bufVars, callVars
<1>1. InCall' = InCall
  BY DEF InCall
<1>2. TypeOK' /\ CommitAlone' /\ NoStrandedWaiter' /\ Writing' /\ Working'
  BY <1>1 DEF TypeOK, CommitAlone, NoStrandedWaiter, Short, Writing, Working, Recovering
<1> QED  BY <1>1, <1>2, SameUse

LEMMA NextStep ==
  ASSUME IInv, [Next]_vars PROVE IInv'
<1>1. ASSUME NEW p \in Caller, Call(p) PROVE IInv'
  BY <1>1, BeginStep, BeginWaitsStep, EndStep, EndLastStep, LogWriteStep, ModifyStep DEF Call
<1>2. CASE Work
  BY <1>2, ReadHeadStep, CopyStep, WriteHeadStep, ClearStep, CommittedStep DEF Work
<1> QED  BY <1>1, <1>2, BufferStep, CrashStep, StutterStep DEF Next

(* The inductive invariant holds in every reachable state.                 *)
THEOREM Invariance == Spec => []IInv
  BY InitInv, NextStep, PTL DEF Spec

-----------------------------------------------------------------------------
(* The results.                                                            *)

(* Every variable keeps to its type; above all, the header in memory and   *)
(* the one on disk never have more entries than struct logheader.          *)
THEOREM TypeCorrect == Spec => []TypeOK
<1>1. IInv => TypeOK
  BY DEF IInv
<1> QED  BY <1>1, Invariance, PTL

(* A commit never runs beside a call or another commit.                    *)
THEOREM CommitsAlone == Spec => []CommitAlone
<1>1. IInv => CommitAlone
  BY DEF IInv
<1> QED  BY <1>1, Invariance, PTL

(* No caller that sleeps in begin_op() is forgotten.                       *)
THEOREM WaitersWoken == Spec => []NoStrandedWaiter
<1>1. IInv => NoStrandedWaiter
  BY DEF IInv
<1> QED  BY <1>1, Invariance, PTL

-----------------------------------------------------------------------------
(* The region.  mkfs makes it of LOGSIZE blocks, the header included       *)
(* (mkfs.c:25): a full log has one block more than the region has room     *)
(* for.  log_write() refuses to outgrow it, but looks at the length of the *)
(* log before it takes log.lock.                                           *)

Fits == LogFits /\ Len(head) <= NLOG - 1

(* No two callers are between that look and the lock.                      *)
CheckedAlone == \A p, q \in Caller : pc[p] = "log" /\ pc[q] = "log" => p = q

(* Who has looked will find the room that was seen.                        *)
RoomLeft == (\E p \in Caller : pc[p] = "log") => Len(lh) <= NLOG - 2

LEMMA FitsInit == Init => Fits /\ RoomLeft
  BY ConstFacts DEF Init, Fits, LogFits, RoomLeft

LEMMA HeadFitsNext ==
  ASSUME IInv, Fits, [Next]_vars PROVE Len(head') <= NLOG - 1
<1>1. head' \in {head, lh, <<>>}
  BY DEF Next, Call, Begin, BeginWaits, End, EndLast, LogWrite, Modify, Buffer, Fill, Recycle,
         Work, ReadHead, WriteLog, WriteHead, Install, Clear, Committed, Crash, diskVars, vars
<1> QED  BY <1>1, ConstFacts DEF Fits, LogFits

(* Appending makes the log longer by one block at most.                    *)
LEMMA LoggedLength ==
  ASSUME TypeOK, NEW b \in Home
  PROVE  Len(lh) \in Nat /\ Len(Logged(b)) <= Len(lh) + 1
<1>1. lh \in Seq(Home) /\ Len(lh) \in Nat /\ Len(Append(lh, b)) = Len(lh) + 1
  BY AppendProperties, LenProperties DEF TypeOK
<1> QED  BY <1>1 DEF Logged

LEMMA RoomNext ==
  ASSUME IInv, Fits, RoomLeft, CheckedAlone, [Next]_vars PROVE LogFits' /\ RoomLeft'
<1> USE ConstFacts
<1>0. TypeOK /\ Len(lh) \in Nat
  BY LenProperties DEF IInv, TypeOK
<1>1. ASSUME NEW p \in Caller, Call(p) PROVE LogFits' /\ RoomLeft'
  <2>1. CASE LogWrite(p)
    <3>1. hold[p] \in Home /\ pc[p] = "log"
      BY <2>1 DEF LogWrite, IInv, Writing, TypeOK
    <3>2. Len(lh') <= NLOG - 1
      <4>1. Len(lh) <= NLOG - 2
        BY <3>1 DEF RoomLeft
      <4>2. lh' = Logged(hold[p])
        BY <2>1 DEF LogWrite
      <4>3. Len(lh') <= Len(lh) + 1 /\ lh' \in Seq(Home)
        BY <1>0, <3>1, <4>2, LoggedLength, NextStep, <1>1 DEF Next, IInv, TypeOK
      <4> QED  BY <1>0, <4>1, <4>3, LenProperties
    <3>3. \A q \in Caller : pc'[q] # "log"
      BY <2>1, <3>1 DEF LogWrite, CheckedAlone, IInv, TypeOK
    <3> QED  BY <3>2, <3>3 DEF LogFits, RoomLeft
  <2>2. CASE \E b \in Home, v \in Data : Modify(p, b, v)
    <3>1. lh' = lh /\ pc' = [pc EXCEPT ![p] = IF Refused THEN "panic" ELSE "log"]
      BY <2>2 DEF Modify, logVars
    <3>2. CASE Refused
      <4>1. \A q \in Caller : pc'[q] = "log" => pc[q] = "log"
        BY <1>0, <3>1, <3>2 DEF TypeOK
      <4> QED  BY <3>1, <4>1 DEF LogFits, RoomLeft, Fits
    <3>3. CASE ~Refused
      BY <1>0, <3>1, <3>3 DEF Refused, LogFits, RoomLeft, Fits
    <3> QED  BY <3>2, <3>3
  <2>3. CASE Begin(p) \/ BeginWaits(p) \/ End(p) \/ EndLast(p)
    <3>1. lh' = lh /\ \A q \in Caller : pc'[q] = "log" => pc[q] = "log"
      BY <1>0, <2>3
         DEF Begin, BeginWaits, End, EndLast, WakeAtEnd, Wakeup, logVars, TypeOK
    <3> QED  BY <3>1 DEF LogFits, RoomLeft, Fits
  <2> QED  BY <1>1, <2>1, <2>2, <2>3 DEF Call
<1>2. CASE Buffer \/ UNCHANGED vars
  <2>1. UNCHANGED <<lh, pc>>
    BY <1>2 DEF Buffer, Fill, Recycle, vars, logVars, callVars
  <2> QED  BY <2>1 DEF LogFits, RoomLeft, Fits
<1>3. CASE Work
  <2>1. lh' \in {lh, head, <<>>}
    BY <1>3 DEF Work, ReadHead, WriteLog, WriteHead, Install, Clear, Committed, logVars
  <2>2. \A q \in Caller : pc'[q] # "log"
    <3>1. InCall = {}
      BY <1>3, ConstFacts DEF IInv, Working, CommitAlone, Recovering, TypeOK, Phase,
         Work, ReadHead, WriteLog, WriteHead, Install, Clear, Installed, Committed
    <3>2. \A q \in Caller : pc'[q] \in {pc[q], "out", "begin"}
      BY <1>0, <1>3 DEF Work, ReadHead, WriteLog, WriteHead, Install, Clear, Committed, Wakeup,
         callVars, TypeOK
    <3> QED  BY <3>1, <3>2 DEF InCall
  <2> QED  BY <1>0, <2>1, <2>2 DEF LogFits, RoomLeft, Fits
<1>4. CASE Crash
  BY <1>4 DEF Crash, LogFits, RoomLeft
<1> QED  BY <1>1, <1>2, <1>3, <1>4 DEF Next

(* While no two callers are past log_write()'s checks at once, the log     *)
(* never outgrows its region, of mkfs's size or any other.                 *)
THEOREM LogStaysInRegion == Spec /\ []CheckedAlone => []LogFits
<1>1. IInv /\ Fits /\ [Next]_vars => (Len(head) <= NLOG - 1)'
  BY HeadFitsNext
<1>2. IInv /\ Fits /\ RoomLeft /\ CheckedAlone /\ [Next]_vars => LogFits' /\ RoomLeft'
  BY RoomNext
<1>3. Fits <=> LogFits /\ Len(head) <= NLOG - 1
  BY DEF Fits
<1> QED  BY <1>1, <1>2, <1>3, FitsInit, Invariance, PTL DEF Spec

(* In a region with a block for every entry it never does, however many    *)
(* callers look at once.                                                   *)
THEOREM LargerRegionSuffices ==
  ASSUME LOGSIZE <= NLOG - 1 PROVE Spec => []LogFits
<1>1. IInv => LogFits
  BY ConstFacts, LenProperties DEF IInv, TypeOK, LogFits
<1> QED  BY <1>1, Invariance, PTL

-----------------------------------------------------------------------------
(* The log implements atomic groups of updates (AtomicDisk), as long as it *)
(* stays in its region.  What is needed beyond the invariants above is     *)
(* which copies of a block agree: the buffer, the log's and the one at     *)
(* home.                                                                   *)

Distinct(s) == \A i, j \in DOMAIN s : s[i] = s[j] => i = j

(* The header on disk is that of memory while the log is copied home, and  *)
(* empty while the log is not valid.                                       *)
Headers ==
  /\ Distinct(lh) /\ Distinct(head)
  /\ phase = "install" => head = lh
  /\ phase \in {"idle", "write_log", "done"} => head = <<>>
  /\ phase \in {"idle", "boot", "done"} => tail = 0

(* A buffer is as its block on disk, unless it is pinned or being changed; *)
(* and only blocks of the log that are not at home yet are pinned.         *)
Buffers ==
  /\ \A b \in Home : cache[b] # Absent /\ b \notin dirty /\ ~Locked(b) => cache[b] = disk[b]
  /\ phase # "install" => dirty \subseteq Entries(lh)
  /\ phase = "install" => dirty \subseteq {lh[i] : i \in tail + 1 .. Len(lh)}

(* What has been copied is the same on both sides.                         *)
Copies ==
  /\ phase = "write_log" => \A i \in 1 .. tail : disk[i] = Content(lh[i])
  /\ phase = "install" /\ committing => \A i \in 1 .. Len(lh) : disk[i] = Content(lh[i])
  /\ phase = "install" => \A i \in 1 .. tail : disk[lh[i]] = disk[i]

CopyInv == Headers /\ Buffers /\ Copies

LEMMA LogFacts ==
  ASSUME Fits, TypeOK
  PROVE  /\ Len(lh) \in Nat /\ DOMAIN lh = 1 .. Len(lh)
         /\ \A i \in 1 .. Len(lh) : i \in Nat /\ i \notin Home /\ i \in DiskBlock /\ lh[i] \in Home
         /\ Len(head) \in Nat /\ DOMAIN head = 1 .. Len(head)
         /\ \A i \in 1 .. Len(head) : i \in Nat /\ i \notin Home /\ i \in DiskBlock /\ head[i] \in Home
         /\ tail \in Nat /\ outstanding \in Nat
<1>1. \A s \in Seq(Home) : Len(s) <= NLOG - 1 =>
        /\ Len(s) \in Nat /\ DOMAIN s = 1 .. Len(s)
        /\ \A i \in 1 .. Len(s) : i \in Nat /\ i \notin Home /\ i \in DiskBlock /\ s[i] \in Home
  <2> SUFFICES ASSUME NEW s \in Seq(Home), Len(s) <= NLOG - 1
               PROVE  /\ Len(s) \in Nat /\ DOMAIN s = 1 .. Len(s)
                      /\ \A i \in 1 .. Len(s) :
                           i \in Nat /\ i \notin Home /\ i \in DiskBlock /\ s[i] \in Home
    OBVIOUS
  <2>1. Len(s) \in Nat /\ DOMAIN s = 1 .. Len(s) /\ \A i \in 1 .. Len(s) : s[i] \in Home
    BY LenProperties, ElementOfSeq
  <2> QED  BY <2>1, ConstFacts DEF Home, DiskBlock
<1> QED  BY <1>1, ConstFacts DEF TypeOK, Fits, LogFits

(* Nobody has a buffer locked during recovery and commit.                  *)
LEMMA QuietLocks ==
  ASSUME IInv, NEW b \in Home PROVE Locked(b) => phase = "idle"
  BY ConstFacts DEF IInv, Writing, Working, CommitAlone, Locked, InCall, Recovering, TypeOK, Phase

LEMMA CopyInit == Init => CopyInv
<1> SUFFICES ASSUME Init PROVE CopyInv
  OBVIOUS
<1> USE DEF Init
<1>1. Headers
  BY DEF Headers, Distinct
<1>2. Buffers /\ Copies
  BY DEF Buffers, Copies
<1> QED  BY <1>1, <1>2 DEF CopyInv

LEMMA CopyCrash ==
  ASSUME CopyInv, Crash PROVE CopyInv'
<1> USE DEF CopyInv, Crash, diskVars
<1>1. Headers'
  BY DEF Headers, Distinct
<1>2. Buffers' /\ Copies'
  BY DEF Buffers, Copies
<1> QED  BY <1>1, <1>2

(* begin_op() and most of end_op() concern neither disk nor buffers.       *)
LEMMA CopySame ==
  ASSUME CopyInv, UNCHANGED <<diskVars, lh, committing, workVars, bufVars, hold>>
  PROVE  CopyInv'
<1> USE DEF CopyInv, diskVars, workVars, bufVars
<1>1. Headers'
  BY DEF Headers
<1>2. Buffers' /\ Copies'
  BY DEF Buffers, Copies, Locked, Content
<1> QED  BY <1>1, <1>2

LEMMA CopyEndLast ==
  ASSUME Fits, IInv, CopyInv, NEW p \in Caller, EndLast(p) PROVE CopyInv'
<1> USE DEF CopyInv, EndLast, diskVars, bufVars
<1>1. phase = "idle" /\ tail = 0
  BY FS_EmptySet DEF IInv, Working, CommitAlone, Recovering, TypeOK, Headers, InCall
<1>2. Headers'
  BY <1>1 DEF Headers
<1>3. Buffers'
  BY <1>1 DEF Buffers, Locked
<1>4. Copies'
  BY <1>1 DEF Copies
<1> QED  BY <1>2, <1>3, <1>4

LEMMA CopyModify ==
  ASSUME Fits, IInv, CopyInv, NEW p \in Caller, NEW b \in Home, NEW v \in Data,
         Modify(p, b, v)
  PROVE  CopyInv' /\ ~Recovering /\ ~Recovering'
<1> USE ConstFacts DEF CopyInv, Modify, diskVars, logVars, workVars
<1>1. phase = "idle" /\ p \in InCall
  BY DEF IInv, Working, CommitAlone, Recovering, InCall, TypeOK, Phase
<1>2. Headers' /\ Copies' /\ ~Recovering /\ ~Recovering'
  BY <1>1 DEF Headers, Copies, Recovering
<1>3. \A c \in Home : Locked(c) \/ c = b => Locked(c)'
  <2>1. hold[p] = NoBlock
    BY DEF IInv, Writing
  <2> QED  BY <2>1 DEF Locked, IInv, TypeOK
<1>4. Buffers'
  BY <1>1, <1>3 DEF Buffers, IInv, TypeOK
<1> QED  BY <1>2, <1>4

(* The buffer is locked until the block is in the log, then it is pinned.  *)
LEMMA CopyLogWrite ==
  ASSUME Fits, IInv, CopyInv, NEW p \in Caller, LogWrite(p) PROVE CopyInv'
<1> USE ConstFacts DEF CopyInv, LogWrite, diskVars, workVars
<1> DEFINE b == hold[p]
<1>1. phase = "idle" /\ p \in InCall /\ b \in Home
  BY DEF IInv, Working, CommitAlone, Recovering, InCall, TypeOK, Phase, Writing
<1>2. Distinct(lh)' /\ Entries(lh') = Entries(lh) \cup {b}
  <2>1. CASE b \in Entries(lh)
    BY <2>1 DEF Logged, Headers, Entries
  <2>2. CASE b \notin Entries(lh)
    <3>1. lh' = Append(lh, b) /\ lh \in Seq(Home)
      BY <2>2 DEF Logged, IInv, TypeOK
    <3>2. /\ Len(lh') = Len(lh) + 1 /\ Len(lh) \in Nat /\ lh'[Len(lh) + 1] = b
          /\ \A i \in 1 .. Len(lh) : lh'[i] = lh[i]
      BY <1>1, <3>1, AppendProperties, LenProperties
    <3>3. DOMAIN lh = 1 .. Len(lh) /\ DOMAIN lh' = 1 .. Len(lh) + 1
      BY <1>1, <3>1, <3>2, AppendProperties, LenProperties
    <3> QED  BY <2>2, <3>2, <3>3 DEF Distinct, Entries, Headers
  <2> QED  BY <2>1, <2>2
<1>3. Headers' /\ Copies'
  BY <1>1, <1>2 DEF Headers, Copies
<1>4. \A c \in Home : Locked(c) => Locked(c)' \/ c = b
  BY DEF Locked, IInv, TypeOK
<1>5. Buffers'
  BY <1>1, <1>2, <1>4 DEF Buffers, Pinned
<1> QED  BY <1>3, <1>5

(* The buffer cache changes no contents.                                   *)
LEMMA BufferContent ==
  ASSUME IInv, CopyInv, Buffer
  PROVE  /\ \A b \in Home : Content(b)' = Content(b)
         /\ \A b \in Home : cache'[b] \in {cache[b], disk[b], Absent}
         /\ UNCHANGED <<diskVars, logVars, workVars, dirty, callVars>>
<1>1. PICK b \in Home : Fill(b) \/ Recycle(b)
  BY DEF Buffer
<1>2. UNCHANGED <<diskVars, logVars, workVars, dirty, callVars>>
  BY <1>1 DEF Fill, Recycle
<1>3. CASE Fill(b)
  BY <1>2, <1>3, ConstFacts DEF Fill, Content, IInv, TypeOK, diskVars
<1>4. CASE Recycle(b)
  BY <1>2, <1>4, ConstFacts DEF Recycle, Content, IInv, TypeOK, diskVars, CopyInv, Buffers
<1> QED  BY <1>1, <1>2, <1>3, <1>4

LEMMA CopyBuffer ==
  ASSUME Fits, IInv, CopyInv, Buffer PROVE CopyInv'
<1> USE BufferContent DEF CopyInv, diskVars, logVars, workVars, callVars
<1>1. Headers'
  BY DEF Headers
<1>2. Buffers'
  BY DEF Buffers, Locked
<1>3. Copies'
  <2>1. \A i \in 1 .. Len(lh) : Content(lh[i])' = Content(lh[i])
    BY LogFacts DEF IInv
  <2>2. \A i \in 1 .. tail : i \in 1 .. Len(lh)
    BY LogFacts DEF IInv, Working
  <2> QED  BY <2>1, <2>2 DEF Copies
<1> QED  BY <1>1, <1>2, <1>3

-----------------------------------------------------------------------------
(* Copying: a block of the log is none of the file system's.               *)

LEMMA CopyWriteLog ==
  ASSUME Fits, IInv, CopyInv, WriteLog
  PROVE  CopyInv' /\ \A b \in Home : disk'[b] = disk[b] /\ Content(b)' = Content(b)
<1> USE ConstFacts DEF CopyInv, logVars, callVars
<1> DEFINE k == tail + 1
<1>1. /\ phase = "write_log" /\ phase' = "write_log" /\ tail' = k /\ UNCHANGED <<lh, hold, head>>
      /\ k \in 1 .. Len(lh) /\ k \notin Home /\ k \in DiskBlock /\ lh[k] \in Home
      /\ disk' = [disk EXCEPT ![k] = Content(lh[k])] /\ cache' = cache
      /\ dirty' = dirty
  BY LogFacts DEF WriteLog, Bwrite, IInv, TypeOK
<1> HIDE DEF k
<1>2. \A b \in Home : disk'[b] = disk[b] /\ Content(b)' = Content(b)
  BY <1>1 DEF Content, IInv, TypeOK
<1>3. Headers'
  BY <1>1 DEF Headers
<1>4. Buffers'
  BY <1>1, <1>2 DEF Buffers, Locked
<1>5. Copies'
  <2>1. ASSUME NEW i \in 1 .. tail' PROVE disk'[i] = Content(lh[i])'
    <3>1. i \in 1 .. Len(lh) /\ (i = k \/ i \in 1 .. tail) /\ i \in DiskBlock /\ lh[i] \in Home
      BY <1>1, LogFacts DEF IInv, k
    <3>2. Content(lh[i])' = Content(lh[i])
      BY <1>1, <1>2, <3>1
    <3> QED  BY <1>1, <3>1, <3>2 DEF Copies, IInv, TypeOK
  <2> QED  BY <1>1, <2>1 DEF Copies
<1> QED  BY <1>2, <1>3, <1>4, <1>5

LEMMA CopyInstall ==
  ASSUME Fits, IInv, CopyInv, Install
  PROVE  /\ CopyInv'
         /\ \A i \in 1 .. Len(lh) : disk'[i] = disk[i]
         /\ \A b \in Home \ Entries(lh) : disk'[b] = disk[b]
         /\ committing => \A b \in Home : Content(b)' = Content(b)
<1> USE ConstFacts DEF CopyInv, logVars, callVars
<1> DEFINE k == lh[tail + 1]
<1>1. /\ phase = "install" /\ phase' = "install" /\ tail' = tail + 1
      /\ tail + 1 \in 1 .. Len(lh) /\ tail + 1 \notin Home /\ k \in Home /\ k \in DiskBlock
      /\ UNCHANGED <<lh, hold, head, committing>>
      /\ disk' = [disk EXCEPT ![k] = disk[tail + 1]]
      /\ cache' = [cache EXCEPT ![k] = disk[tail + 1]] /\ dirty' = dirty \ {k}
  <2>1. tail + 1 \in 1 .. Len(lh) /\ tail + 1 \notin Home /\ k \in Home /\ k \in DiskBlock
    <3>1. tail + 1 \in 1 .. Len(lh)
      BY LogFacts DEF Install, IInv
    <3> QED  BY <3>1, LogFacts DEF IInv
  <2>2. Content(tail + 1) = disk[tail + 1]
    BY <2>1 DEF Content
  <2> QED  BY <2>1, <2>2 DEF Install, Bwrite
<1>2. \A i \in 1 .. Len(lh) : disk'[i] = disk[i]
  BY <1>1, LogFacts DEF IInv, TypeOK
<1>3. \A b \in Home \ {k} : disk'[b] = disk[b] /\ cache'[b] = cache[b]
  BY <1>1 DEF IInv, TypeOK
<1>4. disk[tail + 1] \in Data /\ disk'[k] = disk[tail + 1] /\ cache'[k] = disk[tail + 1]
  BY <1>1, LogFacts DEF IInv, TypeOK
<1>5. ASSUME committing, NEW b \in Home PROVE Content(b)' = Content(b)
  <2>1. CASE b = k
    BY <1>1, <1>4, <1>5, <2>1 DEF Copies, Content
  <2>2. CASE b # k
    BY <1>3, <2>2 DEF Content
  <2> QED  BY <2>1, <2>2
<1>6. Headers'
  BY <1>1 DEF Headers
<1>7. Buffers'
  <2>1. \A b \in Home : cache'[b] # Absent /\ b \notin dirty' /\ ~Locked(b)' => cache'[b] = disk'[b]
    BY <1>1, <1>3, <1>4 DEF Buffers, Locked
  <2>2. dirty' \subseteq {lh[i] : i \in tail' + 1 .. Len(lh)}
    BY <1>1, LogFacts DEF Buffers, IInv
  <2> QED  BY <1>1, <2>1, <2>2 DEF Buffers
<1>8. Copies'
  <2>1. ASSUME committing, NEW i \in 1 .. Len(lh) PROVE disk'[i] = Content(lh[i])'
    BY <1>1, <1>2, <1>5, <2>1, LogFacts DEF Copies, IInv
  <2>2. ASSUME NEW i \in 1 .. tail + 1 PROVE disk'[lh[i]] = disk'[i]
    <3>1. i \in 1 .. Len(lh) /\ lh[i] \in Home /\ (i = tail + 1 \/ i \in 1 .. tail)
      BY <1>1, LogFacts DEF IInv
    <3>2. CASE i = tail + 1
      BY <1>1, <1>2, <1>4, <3>1, <3>2
    <3>3. CASE i \in 1 .. tail
      <4>1. lh[i] # k
        BY <1>1, <3>1, <3>3, LogFacts DEF Headers, Distinct, IInv
      <4> QED  BY <1>1, <1>2, <1>3, <3>1, <3>3, <4>1 DEF Copies
    <3> QED  BY <3>1, <3>2, <3>3
  <2> QED  BY <1>1, <2>1, <2>2 DEF Copies
<1> QED  BY <1>1, <1>2, <1>3, <1>5, <1>6, <1>7, <1>8 DEF Entries

LEMMA CopyWriteHead ==
  ASSUME Fits, IInv, CopyInv, WriteHead PROVE CopyInv'
<1> USE ConstFacts DEF CopyInv, WriteHead, logVars, bufVars, callVars
<1>1. Headers'
  BY DEF Headers
<1>2. Buffers'
  BY LogFacts DEF Buffers, Locked, Entries, IInv
<1>3. Copies'
  BY LogFacts DEF Copies, Content, IInv
<1> QED  BY <1>1, <1>2, <1>3

LEMMA CopyReadHead ==
  ASSUME Fits, IInv, CopyInv, ReadHead PROVE CopyInv'
<1> USE ConstFacts DEF CopyInv, ReadHead, diskVars, bufVars, callVars
<1>1. lh = <<>> /\ ~committing
  BY DEF IInv, Working
<1>2. Headers'
  BY DEF Headers
<1>3. Buffers'
  BY <1>1 DEF Buffers, Locked, Entries
<1>4. Copies'
  BY <1>1 DEF Copies
<1> QED  BY <1>2, <1>3, <1>4

LEMMA CopyClear ==
  ASSUME Fits, IInv, CopyInv, Clear PROVE CopyInv' /\ dirty = {}
<1> USE ConstFacts DEF CopyInv, Clear, Installed, bufVars, callVars
<1>1. dirty = {}
  BY LogFacts DEF Buffers, IInv
<1>2. Headers'
  BY DEF Headers, Distinct
<1>3. Buffers'
  BY <1>1 DEF Buffers, Locked
<1>4. Copies'
  BY DEF Copies
<1> QED  BY <1>1, <1>2, <1>3, <1>4

LEMMA CopyCommitted ==
  ASSUME Fits, IInv, CopyInv, Committed PROVE CopyInv' /\ dirty = {}
<1> USE ConstFacts DEF CopyInv, Committed, diskVars, bufVars
<1>1. dirty = {}
  BY DEF Buffers, IInv, Working, Entries
<1>2. Headers'
  BY DEF Headers
<1>3. Buffers'
  BY <1>1 DEF Buffers, Locked
<1>4. Copies'
  BY DEF Copies
<1> QED  BY <1>1, <1>2, <1>3, <1>4

LEMMA CopyNext ==
  ASSUME Fits, IInv, CopyInv, [Next]_vars PROVE CopyInv'
<1>1. ASSUME NEW p \in Caller, Call(p) PROVE CopyInv'
  <2>1. CASE Begin(p) \/ BeginWaits(p) \/ End(p)
    BY <2>1, CopySame DEF Begin, BeginWaits, End, logVars
  <2> QED  BY <1>1, <2>1, CopyEndLast, CopyLogWrite, CopyModify DEF Call
<1>2. CASE Work
  BY <1>2, CopyReadHead, CopyWriteLog, CopyWriteHead, CopyInstall, CopyClear, CopyCommitted
     DEF Work
<1>3. CASE UNCHANGED vars
  BY <1>3, CopySame DEF vars, logVars, callVars
<1> QED  BY <1>1, <1>2, <1>3, CopyBuffer, CopyCrash DEF Next

-----------------------------------------------------------------------------
(* The refinement                                                          *)

(* What recovery would find, with the header as it is.                     *)
LEMMA RecoveredAt ==
  ASSUME Fits, IInv, CopyInv, NEW b \in Home
  PROVE  /\ \A i \in 1 .. Len(head) : head[i] = b => Recovered[b] = disk[i]
         /\ b \notin Entries(head) => Recovered[b] = disk[b]
<1>1. ASSUME NEW i \in 1 .. Len(head), head[i] = b PROVE Recovered[b] = disk[i]
  <2>1. i \in DOMAIN head /\ b \in Entries(head)
    BY <1>1, LogFacts DEF IInv, Entries
  <2>2. (CHOOSE j \in DOMAIN head : head[j] = b) = i
    BY <1>1, <2>1 DEF CopyInv, Headers, Distinct
  <2> QED  BY <2>1, <2>2 DEF Recovered
<1> QED  BY <1>1 DEF Recovered

(* It depends on the header, the log and the blocks that are not in it.    *)
LEMMA RecoveredSame ==
  ASSUME Fits, IInv, CopyInv, head' = head,
         \A i \in 1 .. Len(head) : disk'[i] = disk[i],
         \A b \in Home \ Entries(head) : disk'[b] = disk[b]
  PROVE  Recovered' = Recovered
<1>1. ASSUME NEW b \in Home, b \in Entries(head)
      PROVE  disk'[CHOOSE i \in DOMAIN head : head[i] = b]
               = disk[CHOOSE i \in DOMAIN head : head[i] = b]
  <2>1. (CHOOSE i \in DOMAIN head : head[i] = b) \in 1 .. Len(head)
    BY <1>1, LogFacts DEF IInv, Entries
  <2> QED  BY <2>1
<1> QED  BY <1>1 DEF Recovered

(* Where nothing is pinned or locked, readers see what is on the disk.     *)
LEMMA CleanContent ==
  ASSUME IInv, CopyInv, dirty = {}, phase # "idle", NEW b \in Home
  PROVE  Content(b) = disk[b]
  BY QuietLocks DEF CopyInv, Buffers, Content

LEMMA SeenSame ==
  ASSUME Recovered' = Recovered, Recovering' = Recovering,
         ~Recovering => \A b \in Home : Content(b)' = Content(b)
  PROVE  Seen' = Seen
  BY DEF Seen

(* Steps on a disk that stays as it is, with the header as it is.          *)
LEMMA DiskSame ==
  ASSUME UNCHANGED diskVars PROVE Recovered' = Recovered
  BY DEF Recovered, diskVars

LEMMA RefInit == Init => Promise!Init
<1> SUFFICES ASSUME Init PROVE Promise!Init
  OBVIOUS
<1> USE ConstFacts DEF Init
<1>1. Recovered = [b \in Home |-> Zero]
  BY DEF Recovered, Entries
<1>2. Seen = Recovered
  BY <1>1 DEF Seen, Recovering
<1>3. InCall = {}
  BY DEF InCall
<1> QED  BY <1>1, <1>2, <1>3 DEF Promise!Init

LEMMA RefCrash ==
  ASSUME Crash PROVE Promise!Crash
<1>1. Recovered' = Recovered
  BY DiskSame DEF Crash
<1>2. Seen' = Recovered'
  BY DEF Crash, Seen, Recovering, Recovered
<1>3. InCall' = {} /\ committing' = FALSE
  BY DEF Crash, InCall
<1> QED  BY <1>1, <1>2, <1>3 DEF Promise!Crash

LEMMA RefBegin ==
  ASSUME IInv, NEW p \in Caller, Begin(p) PROVE Promise!Begin(p)
<1>1. p \notin InCall /\ InCall' = InCall \cup {p}
  BY DEF IInv, TypeOK, InCall, Begin
<1>2. ~committing /\ committing' = committing
  BY DEF Begin, MustWait
<1>3. Recovered' = Recovered /\ Recovering' = Recovering
  BY DiskSame DEF Begin, Recovering, workVars
<1>4. Seen' = Seen
  BY <1>3, SeenSame DEF Begin, Content, diskVars, bufVars
<1> QED  BY <1>1, <1>2, <1>3, <1>4 DEF Promise!Begin

LEMMA RefBeginWaits ==
  ASSUME IInv, NEW p \in Caller, BeginWaits(p) PROVE UNCHANGED Promise!vars
<1>1. InCall' = InCall
  BY DEF IInv, TypeOK, InCall, BeginWaits
<1>2. committing' = committing
  BY DEF BeginWaits, logVars
<1>3. Recovered' = Recovered /\ Recovering' = Recovering
  BY DiskSame DEF BeginWaits, Recovering, workVars, logVars
<1>4. Seen' = Seen
  BY <1>3, SeenSame DEF BeginWaits, Content, diskVars, bufVars
<1> QED  BY <1>1, <1>2, <1>3, <1>4 DEF Promise!vars

LEMMA RefEnd ==
  ASSUME IInv, NEW p \in Caller, End(p) \/ EndLast(p) PROVE Promise!End(p)
<1>1. p \in InCall /\ InCall' = InCall \ {p}
  BY DEF IInv, TypeOK, InCall, End, EndLast, WakeAtEnd, Wakeup
<1>2. committing' = (InCall' = {}) /\ ~Recovering /\ ~Recovering'
  <2>1. Cardinality(InCall) = outstanding /\ committing = FALSE /\ ~Recovering
    BY <1>1 DEF IInv, CommitAlone, Working, TypeOK
  <2>2. Cardinality(InCall') = Cardinality(InCall) - 1 /\ Cardinality(InCall) \in Nat
    BY <1>1, InCallFinite, FS_RemoveElement
  <2>3. Cardinality(InCall') = 0 <=> InCall' = {}
    BY InCallFinite, FS_EmptySet
  <2>4. CASE End(p)
    <3>1. InCall' # {}
      BY <2>1, <2>2, <2>3, <2>4 DEF End
    <3>2. committing' = FALSE /\ ~Recovering'
      BY <2>1, <2>4 DEF End, Recovering, workVars
    <3> QED  BY <2>1, <3>1, <3>2
  <2>5. CASE EndLast(p)
    <3>1. InCall' = {}
      BY <2>1, <2>2, <2>3, <2>5 DEF EndLast
    <3>2. committing' = TRUE /\ ~Recovering'
      BY <2>5 DEF EndLast, Recovering
    <3> QED  BY <2>1, <3>1, <3>2
  <2> QED  BY <2>4, <2>5
<1>3. Recovered' = Recovered
  BY DiskSame DEF End, EndLast
<1>4. Seen' = Seen
  <2>1. \A b \in Home : Content(b)' = Content(b)
    BY DEF End, EndLast, Content, diskVars, bufVars
  <2>2. ~Recovering
    BY <1>1 DEF IInv, Working
  <2> QED  BY <1>2, <2>1, <2>2 DEF Seen
<1> QED  BY <1>1, <1>2, <1>3, <1>4 DEF Promise!End

LEMMA RefModify ==
  ASSUME Fits, IInv, CopyInv, NEW p \in Caller, NEW b \in Home, NEW v \in Data,
         Modify(p, b, v)
  PROVE  Promise!Update(p, b, v)
<1>1. p \in InCall /\ InCall' = InCall
  BY DEF IInv, TypeOK, InCall, Modify
<1>2. Recovered' = Recovered /\ committing' = committing
  BY DiskSame DEF Modify, logVars
<1>3. Seen' = [Seen EXCEPT ![b] = v]
  <2>1. ~Recovering /\ ~Recovering'
    BY CopyModify
  <2>2. \A c \in Home : Content(c)' = IF c = b THEN v ELSE Content(c)
    BY ConstFacts DEF Modify, Content, IInv, TypeOK, diskVars
  <2> QED  BY <2>1, <2>2 DEF Seen
<1> QED  BY <1>1, <1>2, <1>3 DEF Promise!Update

LEMMA RefLogWrite ==
  ASSUME IInv, NEW p \in Caller, LogWrite(p) PROVE UNCHANGED Promise!vars
<1>1. InCall' = InCall /\ committing' = committing
  BY DEF IInv, TypeOK, InCall, LogWrite
<1>2. Recovered' = Recovered /\ Recovering' = Recovering
  BY DiskSame DEF LogWrite, Recovering, workVars
<1>3. Seen' = Seen
  BY <1>2, SeenSame DEF LogWrite, Content, diskVars
<1> QED  BY <1>1, <1>2, <1>3 DEF Promise!vars

LEMMA RefBuffer ==
  ASSUME IInv, CopyInv, Buffer PROVE UNCHANGED Promise!vars
<1>1. UNCHANGED <<diskVars, logVars, workVars, callVars>>
  BY BufferContent
<1>2. InCall' = InCall /\ committing' = committing
  BY <1>1 DEF InCall, callVars, logVars
<1>3. Recovered' = Recovered /\ Recovering' = Recovering
  BY <1>1, DiskSame DEF Recovering, logVars, workVars
<1>4. Seen' = Seen
  BY <1>3, SeenSame, BufferContent
<1> QED  BY <1>2, <1>3, <1>4 DEF Promise!vars

(* The header on disk is empty: what is in the log region does not count.  *)
LEMMA RefWriteLog ==
  ASSUME Fits, IInv, CopyInv, WriteLog PROVE UNCHANGED Promise!vars
<1>1. InCall' = InCall /\ committing' = committing /\ phase' = phase /\ head' = head
  BY DEF WriteLog, InCall, callVars, logVars
<1>2. head = <<>>
  BY DEF WriteLog, CopyInv, Headers
<1>3. Recovered' = Recovered
  BY <1>1, <1>2, RecoveredSame, CopyWriteLog, EmptySeq
<1>4. Seen' = Seen
  BY <1>1, <1>3, SeenSame, CopyWriteLog DEF Recovering
<1> QED  BY <1>1, <1>3, <1>4 DEF Promise!vars

(* From here on recovery finds what the calls see.                         *)
LEMMA RefWriteHead ==
  ASSUME Fits, IInv, CopyInv, WriteHead PROVE Promise!Commit
<1>1. /\ InCall' = InCall /\ committing /\ committing' = committing
      /\ ~Recovering /\ ~Recovering'
  BY DEF WriteHead, InCall, callVars, logVars, IInv, Working, Recovering
<1>2. \A b \in Home : Content(b)' = Content(b)
  BY DEF WriteHead, Content, bufVars
<1>3. Seen' = Seen /\ \A b \in Home : Seen[b] = Content(b)
  BY <1>1, <1>2 DEF Seen
<1>4. \A b \in Home : Recovered'[b] = Content(b)
  <2> SUFFICES ASSUME NEW b \in Home PROVE Recovered'[b] = Content(b)
    OBVIOUS
  <2>1. head' = lh /\ disk' = disk /\ tail = Len(lh)
    BY DEF WriteHead
  <2>2. CASE b \in Entries(lh)
    <3>1. (CHOOSE i \in DOMAIN lh : lh[i] = b) \in 1 .. Len(lh)
          /\ lh[CHOOSE i \in DOMAIN lh : lh[i] = b] = b
      BY <2>2, LogFacts DEF IInv, Entries
    <3>2. disk[CHOOSE i \in DOMAIN lh : lh[i] = b] = Content(b)
      BY <2>1, <3>1 DEF WriteHead, CopyInv, Copies
    <3> QED  BY <2>1, <2>2, <3>2 DEF Recovered
  <2>3. CASE b \notin Entries(lh)
    <3>1. ~Locked(b) /\ b \notin dirty
      BY <2>3, QuietLocks DEF WriteHead, CopyInv, Buffers
    <3>2. Content(b) = disk[b]
      BY <3>1 DEF Content, CopyInv, Buffers
    <3> QED  BY <2>1, <2>3, <3>2 DEF Recovered
  <2> QED  BY <2>2, <2>3
<1>5. Recovered' = Seen
  BY <1>1, <1>3, <1>4 DEF Recovered, Seen
<1> QED  BY <1>1, <1>3, <1>5 DEF Promise!Commit

LEMMA RefReadHead ==
  ASSUME IInv, ReadHead PROVE UNCHANGED Promise!vars
<1>1. InCall' = InCall /\ committing' = committing /\ Recovering /\ Recovering'
  BY DEF ReadHead, InCall, callVars, Recovering, IInv, Working
<1>2. Recovered' = Recovered
  BY DiskSame DEF ReadHead
<1> QED  BY <1>1, <1>2 DEF Seen, Promise!vars

(* Copying home what the header lists changes nothing that it does not.    *)
LEMMA RefInstall ==
  ASSUME Fits, IInv, CopyInv, Install PROVE UNCHANGED Promise!vars
<1>1. /\ InCall' = InCall /\ committing' = committing /\ phase' = phase /\ head' = head
      /\ head = lh /\ phase = "install"
  BY DEF Install, InCall, callVars, logVars, CopyInv, Headers
<1>2. Recovered' = Recovered
  BY <1>1, RecoveredSame, CopyInstall
<1>3. Seen' = Seen
  BY <1>1, <1>2, SeenSame, CopyInstall DEF Recovering
<1> QED  BY <1>1, <1>2, <1>3 DEF Promise!vars

(* All is at home, the log is not needed any more.                         *)
LEMMA RefClear ==
  ASSUME Fits, IInv, CopyInv, Clear PROVE UNCHANGED Promise!vars
<1>1. /\ InCall' = InCall /\ committing' = committing /\ UNCHANGED <<disk, cache>>
      /\ head' = <<>> /\ head = lh /\ phase = "install" /\ tail = Len(lh)
  BY DEF Clear, Installed, InCall, callVars, bufVars, CopyInv, Headers
<1>2. \A b \in Home : Recovered[b] = disk[b]
  <2> SUFFICES ASSUME NEW b \in Home PROVE Recovered[b] = disk[b]
    OBVIOUS
  <2>1. CASE b \in Entries(head)
    <3>1. PICK i \in 1 .. Len(head) : head[i] = b
      BY <2>1, LogFacts DEF IInv, Entries
    <3>2. disk[b] = disk[i]
      BY <1>1, <3>1 DEF CopyInv, Copies
    <3> QED  BY <3>1, <3>2, RecoveredAt
  <2> QED  BY <2>1, RecoveredAt
<1>3. \A b \in Home : Recovered'[b] = disk[b]
  BY <1>1 DEF Recovered, Entries
<1>4. Recovered' = Recovered
  BY <1>2, <1>3 DEF Recovered
<1>5. \A b \in Home : Content(b) = disk[b] /\ Content(b)' = disk[b]
  <2>1. \A b \in Home : Content(b) = disk[b]
    BY <1>1, CleanContent, CopyClear
  <2> QED  BY <1>1, <2>1 DEF Content
<1>6. Seen' = Seen
  BY <1>2, <1>3, <1>5 DEF Seen
<1> QED  BY <1>1, <1>4, <1>6 DEF Promise!vars

LEMMA RefCommitted ==
  ASSUME Fits, IInv, CopyInv, Committed PROVE Promise!Return
<1>1. /\ committing = TRUE /\ committing' = FALSE /\ ~Recovering /\ ~Recovering'
      /\ head = <<>> /\ phase = "done"
  BY DEF Committed, IInv, Working, Recovering, TypeOK, CopyInv, Headers
<1>2. InCall' = InCall
  <2>1. InCall = {}
    BY <1>1 DEF IInv, CommitAlone
  <2> QED  BY <2>1 DEF InCall, Committed, Wakeup, IInv, TypeOK
<1>3. Recovered' = Recovered
  BY DiskSame DEF Committed
<1>4. \A b \in Home : Content(b) = disk[b] /\ Content(b)' = Content(b) /\ Recovered[b] = disk[b]
  <2>1. \A b \in Home : Content(b) = disk[b]
    BY <1>1, CleanContent, CopyCommitted
  <2>2. \A b \in Home : Content(b)' = Content(b)
    BY DEF Committed, Content, diskVars, bufVars
  <2> QED  BY <1>1, <2>1, <2>2 DEF Recovered, Entries
<1>5. Seen' = Seen
  BY <1>1, <1>4 DEF Seen
<1>6. Recovered = Seen
  BY <1>1, <1>4 DEF Seen, Recovered
<1> QED  BY <1>1, <1>2, <1>3, <1>5, <1>6 DEF Promise!Return

LEMMA RefNext ==
  ASSUME Fits, IInv, CopyInv, [Next]_vars PROVE [Promise!Next]_(Promise!vars)
<1>1. ASSUME NEW p \in Caller, Call(p) PROVE [Promise!Next]_(Promise!vars)
  <2>1. CASE Begin(p)
    BY <2>1, RefBegin DEF Promise!Next
  <2>2. CASE End(p) \/ EndLast(p)
    BY <2>2, RefEnd DEF Promise!Next
  <2>3. CASE \E b \in Home, v \in Data : Modify(p, b, v)
    BY <2>3, RefModify DEF Promise!Next
  <2> QED  BY <1>1, <2>1, <2>2, <2>3, RefBeginWaits, RefLogWrite DEF Call
<1>2. CASE Work
  BY <1>2, RefReadHead, RefWriteLog, RefWriteHead, RefInstall, RefClear, RefCommitted
     DEF Work, Promise!Next
<1>3. CASE UNCHANGED vars
  <2>1. Recovered' = Recovered /\ InCall' = InCall
    BY <1>3, DiskSame DEF vars, callVars, InCall
  <2>2. Seen' = Seen
    BY <1>3, <2>1, SeenSame DEF vars, logVars, workVars, bufVars, diskVars, Recovering, Content
  <2> QED  BY <1>3, <2>1, <2>2 DEF vars, logVars, Promise!vars
<1>4. CASE Crash
  BY <1>4, RefCrash DEF Promise!Next
<1> QED  BY <1>1, <1>2, <1>3, <1>4, RefBuffer DEF Next

(* While the log stays in its region, it implements atomic groups of       *)
(* updates: whenever the machine stops, during a commit or a recovery as   *)
(* well, the disk will be found with exactly the groups of calls that were *)
(* committed.                                                              *)
THEOREM LogIsAtomic == Spec /\ []LogFits => AtomicGroups
<1>1. Fits /\ IInv /\ CopyInv /\ [Next]_vars => CopyInv'
  BY CopyNext
<1>2. Fits /\ IInv /\ CopyInv /\ [Next]_vars => [Promise!Next]_(Promise!vars)
  BY RefNext
<1>3. IInv /\ Fits /\ [Next]_vars => (Len(head) <= NLOG - 1)'
  BY HeadFitsNext
<1>4. Fits <=> LogFits /\ Len(head) <= NLOG - 1
  BY DEF Fits
<1> QED
  BY <1>1, <1>2, <1>3, <1>4, CopyInit, FitsInit, RefInit, Invariance, PTL
     DEF Spec, AtomicGroups, Promise!Spec

(* So it does on the disk that mkfs makes, if no two callers are past      *)
(* log_write()'s checks at once.                                           *)
THEOREM CheckedAloneIsAtomic == Spec /\ []CheckedAlone => AtomicGroups
  BY LogStaysInRegion, LogIsAtomic, PTL
=============================================================================
