----------------------------- MODULE BufferProofs -----------------------------
(***************************************************************************)
(* The safety of the buffer cache, proved for any number of buffers,       *)
(* processes and blocks, and for any number of buffers that a process      *)
(* holds at a time or that the log pins.                                   *)
(*                                                                         *)
(* A buffer is protected by two locks that are never held together: its    *)
(* count, taken under bcache.lock, keeps it from being given to another    *)
(* block, its sleep lock keeps others from its contents.  The invariant    *)
(* says that whoever is past either has what it takes to go on.            *)
(***************************************************************************)
EXTENDS BufferCache, FiniteSetTheorems, SequenceTheorems, TLAPS

UniqueBlocks ==
  \A b, c \in Buffer : blockno[b] = blockno[c] /\ blockno[b] # NoBlock => b = c
Counted ==
  \A b \in Buffer : refcnt[b] = Cardinality({p \in Process : b \in Elements(hand[p])})
Owned == \A b \in Buffer : \A p \in Process : Using(p, b) <=> holder[b] = p

(* A process has buffers while it is in a call, in the order of blocks.    *)
Hands ==
  \A p \in Process :
    /\ pc[p] = "idle" => hand[p] = <<>>
    /\ pc[p] \notin {"idle", "panic"} => hand[p] # <<>>
    /\ \A i \in DOMAIN hand[p] : blockno[hand[p][i]] \in Block
    /\ \A i, j \in DOMAIN hand[p] :
         i < j => blockno[hand[p][i]] < blockno[hand[p][j]]

(* What the flags of its buffers are where a process is.  A process that   *)
(* is awake has been served or is still queued: a wakeup too early, by     *)
(* kill(), is no answer.                                                   *)
Flags ==
  /\ dirty \subseteq valid
  /\ \A b \in valid : blockno[b] \in Block
  /\ \A b \in Elements(queue) : b \in valid => b \in dirty
  /\ \A p \in Process :
       /\ pc[p] = "read" => Current(p) \notin valid
       /\ pc[p] = "write" => Current(p) \in dirty
       /\ pc[p] \in {"use", "changed"} => Current(p) \in valid
       /\ pc[p] = "awake" => Current(p) \in Elements(queue) \/ Served(p)
       /\ \A i \in 1 .. Len(hand[p]) - 1 : hand[p][i] \in valid

AsleepQueued == \A p \in Process : pc[p] = "io" => Current(p) \in Elements(queue)
QueuedAsked ==
  \A b \in Elements(queue) :
    \E p \in Process : holder[b] = p /\ pc[p] \in {"io", "awake"} /\ Current(p) = b

IInv ==
  /\ TypeOK /\ UniqueBlocks /\ Counted /\ Owned /\ Hands /\ Flags
  /\ CleanIsStored /\ RightRequest /\ AsleepQueued /\ QueuedAsked /\ Locks!NoStrandedSleeper

-----------------------------------------------------------------------------
(* Sequences                                                               *)

LEMMA ElementsOf ==
  ASSUME NEW S, NEW s \in Seq(S)
  PROVE  /\ Len(s) \in Nat /\ DOMAIN s = 1 .. Len(s)
         /\ Elements(s) \subseteq S
         /\ s # <<>> <=> Len(s) > 0
         /\ s # <<>> => Last(s) \in S /\ Last(s) \in Elements(s)
<1>1. Len(s) \in Nat /\ DOMAIN s = 1 .. Len(s) /\ \A i \in 1 .. Len(s) : s[i] \in S
  BY LenProperties, ElementOfSeq
<1>2. s # <<>> <=> Len(s) > 0
  BY <1>1, EmptySeq
<1> QED  BY <1>1, <1>2 DEF Elements, Last

LEMMA ElementsOfAppend ==
  ASSUME NEW S, NEW s \in Seq(S), NEW b \in S
  PROVE  /\ Append(s, b) \in Seq(S) /\ Append(s, b) # <<>>
         /\ Len(Append(s, b)) = Len(s) + 1
         /\ \A i \in 1 .. Len(s) : Append(s, b)[i] = s[i]
         /\ Last(Append(s, b)) = b
         /\ Append(s, b)[Len(s) + 1] = b
         /\ Elements(Append(s, b)) = Elements(s) \cup {b}
<1>1. Len(s) \in Nat /\ DOMAIN s = 1 .. Len(s)
  BY ElementsOf
<1>2. /\ Append(s, b) \in Seq(S) /\ Len(Append(s, b)) = Len(s) + 1
      /\ \A i \in 1 .. Len(s) : Append(s, b)[i] = s[i]
      /\ Append(s, b)[Len(s) + 1] = b
  BY <1>1, AppendProperties
<1>3. DOMAIN Append(s, b) = 1 .. Len(s) + 1 /\ Append(s, b) # <<>>
  BY <1>1, <1>2, ElementsOf
<1> QED  BY <1>1, <1>2, <1>3 DEF Elements, Last

LEMMA ElementsOfAllButLast ==
  ASSUME NEW S, NEW s \in Seq(S), s # <<>>
  PROVE  /\ AllButLast(s) \in Seq(S) /\ Len(AllButLast(s)) = Len(s) - 1
         /\ \A i \in 1 .. Len(s) - 1 : AllButLast(s)[i] = s[i]
         /\ Elements(s) = Elements(AllButLast(s)) \cup {Last(s)}
<1>1. Len(s) \in Nat /\ Len(s) > 0 /\ DOMAIN s = 1 .. Len(s)
  BY ElementsOf
<1>2. /\ AllButLast(s) \in Seq(S) /\ Len(AllButLast(s)) = Len(s) - 1
      /\ \A i \in 1 .. Len(s) - 1 : AllButLast(s)[i] = s[i]
  BY <1>1, SubSeqProperties DEF AllButLast
<1>3. DOMAIN AllButLast(s) = 1 .. Len(s) - 1
  BY <1>1, <1>2, ElementsOf
<1> QED  BY <1>1, <1>2, <1>3 DEF Elements, Last

LEMMA ElementsOfTail ==
  ASSUME NEW S, NEW s \in Seq(S), s # <<>>
  PROVE  /\ Tail(s) \in Seq(S) /\ Head(s) \in S /\ Head(s) = s[1]
         /\ Len(Tail(s)) = Len(s) - 1
         /\ \A i \in 1 .. Len(s) - 1 : Tail(s)[i] = s[i + 1]
         /\ Tail(s) # <<>> => Head(Tail(s)) = s[2]
         /\ Elements(s) = Elements(Tail(s)) \cup {Head(s)}
<1>1. Len(s) \in Nat /\ Len(s) > 0 /\ DOMAIN s = 1 .. Len(s)
  BY ElementsOf
<1>2. /\ Tail(s) \in Seq(S) /\ Head(s) \in S /\ Head(s) = s[1]
      /\ Len(Tail(s)) = Len(s) - 1
      /\ \A i \in 1 .. Len(s) - 1 : Tail(s)[i] = s[i + 1]
  BY <1>1, HeadTailProperties
<1>3. DOMAIN Tail(s) = 1 .. Len(s) - 1 /\ (Tail(s) # <<>> => Len(s) > 1)
  BY <1>1, <1>2, ElementsOf
<1>4. Tail(s) # <<>> => Head(Tail(s)) = s[2]
  BY <1>1, <1>2, <1>3
<1>5. Elements(Tail(s)) = {s[i + 1] : i \in 1 .. Len(s) - 1}
  BY <1>2, <1>3 DEF Elements
<1>6. Elements(s) = Elements(Tail(s)) \cup {Head(s)}
  <2>1. ASSUME NEW i \in DOMAIN s PROVE s[i] \in Elements(Tail(s)) \cup {Head(s)}
    <3>1. CASE i = 1
      BY <1>2, <3>1
    <3>2. CASE i # 1
      <4> DEFINE j == i - 1
      <4>1. j \in 1 .. Len(s) - 1 /\ j + 1 = i
        BY <1>1, <3>2
      <4>2. s[j + 1] \in Elements(Tail(s))
        BY <1>5, <4>1
      <4> QED  BY <4>1, <4>2
    <3> QED  BY <3>1, <3>2
  <2>2. Elements(Tail(s)) \cup {Head(s)} \subseteq Elements(s)
    BY <1>1, <1>2, <1>5 DEF Elements
  <2> QED  BY <2>1, <2>2 DEF Elements
<1> QED  BY <1>2, <1>4, <1>6

-----------------------------------------------------------------------------
(* Buffers in hand                                                         *)

LEMMA HandFacts ==
  ASSUME TypeOK, Hands, NEW p \in Process
  PROVE  /\ hand[p] \in Seq(Buffer) /\ Len(hand[p]) \in Nat
         /\ DOMAIN hand[p] = 1 .. Len(hand[p])
         /\ Elements(hand[p]) \subseteq Buffer
         /\ \A b \in Elements(hand[p]) : blockno[b] \in Block
         /\ hand[p] # <<>> <=> Len(hand[p]) > 0
         /\ hand[p] # <<>> => Current(p) \in Buffer /\ Current(p) \in Elements(hand[p])
         /\ \A i, j \in DOMAIN hand[p] : hand[p][i] = hand[p][j] => i = j
<1>1. hand[p] \in Seq(Buffer)
  BY DEF TypeOK
<1>2. \A i, j \in DOMAIN hand[p] : hand[p][i] = hand[p][j] => i = j
  <2> SUFFICES ASSUME NEW i \in DOMAIN hand[p], NEW j \in DOMAIN hand[p],
                      hand[p][i] = hand[p][j], i < j
               PROVE  FALSE
    BY <1>1, ElementsOf
  <2>1. blockno[hand[p][i]] < blockno[hand[p][j]] /\ blockno[hand[p][i]] \in Nat
    BY BlockAssumption DEF Hands
  <2> QED  BY <2>1
<1> QED  BY <1>1, <1>2, ElementsOf DEF Hands, Elements, Current

(* Where a process has the sleep lock of the buffer its call is about      *)
Owning == {"read", "write", "io", "awake", "use", "changed"}

LEMMA OwnerFacts ==
  ASSUME IInv, NEW p \in Process, pc[p] \in Owning
  PROVE  /\ hand[p] # <<>>
         /\ Current(p) \in Buffer /\ Current(p) \in Elements(hand[p])
         /\ holder[Current(p)] = p /\ blockno[Current(p)] \in Block
         /\ \A q \in Process : q # p /\ pc[q] \in Owning => Current(q) # Current(p)
         /\ pc[p] \notin {"io", "awake"} => Current(p) \notin Elements(queue)
<1>1. \A q \in Process : pc[q] \in Owning =>
        /\ hand[q] # <<>> /\ Current(q) \in Buffer /\ Current(q) \in Elements(hand[q])
        /\ holder[Current(q)] = q /\ blockno[Current(q)] \in Block
  <2> SUFFICES ASSUME NEW q \in Process, pc[q] \in Owning
               PROVE  /\ hand[q] # <<>> /\ Current(q) \in Buffer
                      /\ Current(q) \in Elements(hand[q])
                      /\ holder[Current(q)] = q /\ blockno[Current(q)] \in Block
    OBVIOUS
  <2>1. hand[q] # <<>>
    BY DEF IInv, Hands, Owning
  <2>2. /\ Current(q) \in Buffer /\ Current(q) \in Elements(hand[q])
        /\ blockno[Current(q)] \in Block
    BY <2>1, HandFacts DEF IInv
  <2> QED  BY <2>1, <2>2 DEF IInv, Owned, Using, Owning
<1>2. pc[p] \notin {"io", "awake"} => Current(p) \notin Elements(queue)
  BY <1>1 DEF IInv, QueuedAsked
<1> QED  BY <1>1, <1>2

(* A buffer that may be recycled is in nobody's hands.                     *)
LEMMA UnusedFacts ==
  ASSUME IInv, NEW b \in Buffer, Unused(b)
  PROVE  /\ \A p \in Process : b \notin Elements(hand[p])
         /\ holder[b] = Nobody /\ b \notin Elements(queue) /\ b \notin dirty
<1>1. {p \in Process : b \in Elements(hand[p])} = {}
  <2>1. IsFiniteSet({p \in Process : b \in Elements(hand[p])})
    BY FS_Subset, ProcessAssumption
  <2> QED  BY <2>1, FS_EmptySet DEF IInv, Counted, Unused
<1>2. holder[b] = Nobody
  BY <1>1 DEF IInv, Owned, Using, TypeOK, Locks!TypeOK
<1>3. b \notin Elements(queue)
  BY <1>2, ProcessAssumption DEF IInv, QueuedAsked
<1> QED  BY <1>1, <1>2, <1>3 DEF Unused

(* What is at work is the request of the head of the queue.                *)
LEMMA QueueFacts ==
  ASSUME IInv
  PROVE  /\ queue \in Seq(Buffer) /\ Elements(queue) \subseteq Buffer
         /\ \A b \in Elements(queue) : blockno[b] \in Block
         /\ queue # <<>> => /\ Head(queue) \in Elements(queue) /\ command = Start(Head(queue))
                            /\ Head(queue) \notin Elements(Tail(queue))
<1>1. queue \in Seq(Buffer)
  BY DEF IInv, TypeOK
<1>2. \A b \in Elements(queue) : blockno[b] \in Block
  <2> SUFFICES ASSUME NEW b \in Elements(queue) PROVE blockno[b] \in Block
    OBVIOUS
  <2>1. PICK p \in Process : holder[b] = p /\ pc[p] \in {"io", "awake"} /\ Current(p) = b
    BY DEF IInv, QueuedAsked
  <2> QED  BY <2>1, OwnerFacts DEF Owning
<1>3. queue # <<>> => Head(queue) \notin Elements(Tail(queue))
  <2> SUFFICES ASSUME queue # <<>>, Head(queue) \in Elements(Tail(queue)) PROVE FALSE
    OBVIOUS
  <2>1. /\ Tail(queue) \in Seq(Buffer) /\ Head(queue) = queue[1]
        /\ Len(Tail(queue)) = Len(queue) - 1
        /\ \A i \in 1 .. Len(queue) - 1 : Tail(queue)[i] = queue[i + 1]
    BY <1>1, ElementsOfTail
  <2>2. Len(queue) \in Nat /\ DOMAIN queue = 1 .. Len(queue) /\ Len(queue) > 0
    BY <1>1, ElementsOf
  <2>3. DOMAIN Tail(queue) = 1 .. Len(queue) - 1
    BY <2>1, <2>2, ElementsOf
  <2>4. PICK i \in 1 .. Len(queue) - 1 : queue[i + 1] = queue[1]
    BY <2>1, <2>3 DEF Elements
  <2> QED  BY <2>2, <2>4 DEF IInv, RightRequest
<1> QED  BY <1>1, <1>2, <1>3, ElementsOf, ElementsOfTail DEF IInv, RightRequest, StartNext

-----------------------------------------------------------------------------
LEMMA InvInit == Init => IInv
<1> SUFFICES ASSUME Init PROVE IInv
  OBVIOUS
<1> USE DEF Init
<1>1. \A p \in Process : pc[p] = "idle" /\ hand[p] = <<>> /\ Elements(hand[p]) = {}
  BY DEF Elements
<1>2. TypeOK
  <2>1. Cardinality(Buffer) \in Nat
    BY BufferAssumption, FS_CardinalityType
  <2>2. lru \in Seq(Buffer) /\ Elements(lru) = Buffer
    BY <2>1
  <2>3. queue \in Seq(Buffer) /\ hand \in [Process -> Seq(Buffer)]
    OBVIOUS
  <2>4. Locks!TypeOK
    BY DEF Locks!TypeOK, Locks!initsleeplock
  <2> QED  BY <2>2, <2>3, <2>4, BufferAssumption DEF TypeOK, Counter
<1>3. UniqueBlocks
  BY DEF UniqueBlocks
<1>4. Counted
  <2>1. \A b \in Buffer : {p \in Process : b \in Elements(hand[p])} = {}
    BY <1>1
  <2> QED  BY <2>1, FS_EmptySet DEF Counted
<1>5. Owned
  BY <1>1, ProcessAssumption DEF Owned, Using, Locks!initsleeplock
<1>6. Elements(queue) = {}
  BY DEF Elements
<1>7. Hands /\ Flags
  <2>1. \A p \in Process : DOMAIN hand[p] = {} /\ Len(hand[p]) = 0
    BY <1>1, EmptySeq
  <2> QED  BY <1>1, <1>6, <2>1 DEF Hands, Flags
<1>8. CleanIsStored /\ AsleepQueued /\ QueuedAsked
  BY <1>1, <1>6 DEF CleanIsStored, AsleepQueued, QueuedAsked
<1>9. RightRequest /\ Locks!NoStrandedSleeper
  BY DEF RightRequest, StartNext, Locks!NoStrandedSleeper, Locks!initsleeplock
<1> QED  BY <1>2, <1>3, <1>4, <1>5, <1>7, <1>8, <1>9 DEF IInv

-----------------------------------------------------------------------------
(* A step of processes that have the lock they need, or of none, changes   *)
(* nothing about who has what.                                             *)
LEMMA StepInside ==
  ASSUME IInv, UNCHANGED <<blockno, refcnt, hand, holder>>,
         \A p \in Process : pc'[p] = pc[p] \/ (pc[p] \in Owning /\ pc'[p] \in Owning)
  PROVE  UniqueBlocks' /\ Counted' /\ Owned' /\ Hands'
<1> USE DEF IInv
<1>1. UniqueBlocks' /\ Counted'
  BY DEF UniqueBlocks, Counted
<1>2. Owned'
  BY DEF Owned, Using, Current, Owning
<1>3. Hands'
  BY DEF Hands, Owning
<1> QED  BY <1>1, <1>2, <1>3

LEMMA InvSleepOnBuffer ==
  ASSUME IInv, NEW p \in Process, SleepOnBuffer(p) PROVE IInv'
<1> USE DEF IInv, SleepOnBuffer, Locks!Sleep, Locks!Free, bufVars, ideVars, procVars
<1>1. TypeOK'
  BY HandFacts DEF TypeOK, Locks!TypeOK
<1>2. UniqueBlocks' /\ Counted' /\ Owned' /\ Hands'
  BY StepInside
<1>3. Flags' /\ CleanIsStored' /\ RightRequest'
  BY DEF Flags, CleanIsStored, RightRequest, Current, Served, StartNext, Start
<1>4. AsleepQueued' /\ QueuedAsked'
  BY DEF AsleepQueued, QueuedAsked, Current
<1>5. Locks!NoStrandedSleeper'
  BY DEF Locks!NoStrandedSleeper, Locks!TypeOK, TypeOK
<1> QED  BY <1>1, <1>2, <1>3, <1>4, <1>5

LEMMA InvLockBuffer ==
  ASSUME IInv, NEW p \in Process, LockBuffer(p) PROVE IInv'
<1> USE DEF IInv, LockBuffer, Locks!Take, Locks!Free, bufVars, ideVars
<1>1. hand[p] # <<>> /\ Current(p) \in Buffer /\ Current(p) \in Elements(hand[p])
  BY HandFacts DEF Hands
<1>2. holder \in [Buffer -> Process \cup {Nobody}] /\ pc \in [Process -> Counter]
  BY DEF TypeOK, Locks!TypeOK
<1>3. TypeOK'
  BY <1>1, <1>2 DEF TypeOK, Locks!TypeOK, Counter
<1>4. UniqueBlocks' /\ Counted'
  BY DEF UniqueBlocks, Counted
<1>5. Owned'
  <2> SUFFICES ASSUME NEW b \in Buffer, NEW q \in Process
               PROVE  Using(q, b)' <=> holder'[b] = q
    BY DEF Owned
  <2>1. CASE b = Current(p)
    <3>1. holder'[b] = p
      BY <1>1, <1>2, <2>1
    <3>2. ~Using(q, b)
      BY <2>1, ProcessAssumption DEF Owned
    <3> QED  BY <1>1, <1>2, <2>1, <3>1, <3>2 DEF Using, Current
  <2>2. CASE b # Current(p)
    <3>1. holder'[b] = holder[b]
      BY <1>1, <1>2, <2>2
    <3>2. Using(q, b)' <=> Using(q, b)
      BY <1>1, <1>2, <2>2 DEF Using, Current
    <3> QED  BY <3>1, <3>2 DEF Owned
  <2> QED  BY <2>1, <2>2
<1>6. Hands'
  BY <1>2 DEF Hands
<1>7. Flags'
  BY <1>2 DEF Flags, Current, Served
<1>8. CleanIsStored' /\ RightRequest'
  BY <1>2 DEF CleanIsStored, RightRequest, Current, StartNext, Start
<1>9. AsleepQueued' /\ QueuedAsked'
  <2>1. AsleepQueued'
    BY <1>2 DEF AsleepQueued, Current
  <2>2. QueuedAsked'
    BY <1>1, <1>2, ProcessAssumption DEF QueuedAsked, Current
  <2> QED  BY <2>1, <2>2
<1>10. Locks!NoStrandedSleeper'
  BY <1>1, <1>2, ProcessAssumption DEF Locks!NoStrandedSleeper
<1> QED  BY <1>3, <1>4, <1>5, <1>6, <1>7, <1>8, <1>9, <1>10

LEMMA InvIderw ==
  ASSUME IInv, NEW p \in Process, Iderw(p) PROVE IInv'
<1> USE DEF IInv, Iderw, Enqueue, Appended, bufVars, lockVars
<1>1. /\ Current(p) \in Buffer /\ holder[Current(p)] = p
      /\ Current(p) \notin Elements(queue)
  BY OwnerFacts DEF Owning
<1>2. pc \in [Process -> Counter] /\ queue \in Seq(Buffer)
  BY DEF TypeOK
<1>3. /\ queue' \in Seq(Buffer) /\ queue' # <<>>
      /\ Elements(queue') = Elements(queue) \cup {Current(p)}
      /\ Len(queue') = Len(queue) + 1 /\ queue'[Len(queue) + 1] = Current(p)
      /\ \A i \in 1 .. Len(queue) : queue'[i] = queue[i]
  BY <1>1, <1>2, ElementsOfAppend
<1>4. Len(queue) \in Nat /\ DOMAIN queue = 1 .. Len(queue) /\ (queue # <<>> <=> Len(queue) > 0)
  BY <1>2, ElementsOf
<1>5. DOMAIN queue' = 1 .. Len(queue) + 1
  BY <1>3, ElementsOf
<1>6. TypeOK'
  BY <1>2, <1>3 DEF TypeOK, Counter, Locks!TypeOK
<1>7. UniqueBlocks' /\ Counted' /\ Owned' /\ Hands'
  BY <1>2, StepInside DEF Owning
<1>8. Flags'
  <2>1. Current(p) \in valid => Current(p) \in dirty
    BY DEF Flags
  <2> QED  BY <1>2, <1>3, <2>1 DEF Flags, Current, Served
<1>9. CleanIsStored'
  BY <1>2 DEF CleanIsStored, Current, ideVars
<1>10. RightRequest'
  <2>1. \A i, j \in DOMAIN queue' : queue'[i] = queue'[j] => i = j
    BY <1>1, <1>3, <1>4, <1>5 DEF RightRequest, Elements
  <2>2. Head(queue') = queue'[1]
    BY <1>3, ElementsOfTail
  <2>3. CASE queue = <<>>
    <3>1. Head(queue') = Current(p)
      BY <1>3, <1>4, <2>2, <2>3
    <3> QED  BY <1>3, <2>1, <2>3, <3>1 DEF RightRequest, StartNext, Start
  <2>4. CASE queue # <<>>
    <3>1. Head(queue') = Head(queue)
      BY <1>2, <1>3, <1>4, <2>2, <2>4, ElementsOfTail
    <3> QED  BY <1>3, <2>1, <2>4, <3>1 DEF RightRequest, StartNext, Start
  <2> QED  BY <2>3, <2>4
<1>11. AsleepQueued'
  BY <1>2, <1>3 DEF AsleepQueued, Current
<1>12. QueuedAsked'
  BY <1>1, <1>2, <1>3 DEF QueuedAsked, Current
<1>13. Locks!NoStrandedSleeper'
  BY DEF Locks!NoStrandedSleeper, Locks!Free
<1> QED  BY <1>6, <1>7, <1>8, <1>9, <1>10, <1>11, <1>12, <1>13

(* A turn of the loop of iderw(), and a wakeup by kill()                   *)
LEMMA InvAwake ==
  ASSUME IInv, NEW p \in Process, NEW from, NEW to,
         Goto(p, from, to), UNCHANGED <<bufVars, ideVars, refcnt, lru, lockVars, hand>>,
         \/ from = "awake" /\ to = "use" /\ Served(p)
         \/ from = "awake" /\ to = "io" /\ ~Served(p)
         \/ from = "io" /\ to = "awake"
  PROVE  IInv'
<1> USE DEF IInv, Goto, bufVars, ideVars, lockVars
<1>1. pc \in [Process -> Counter] /\ Current(p) \in Buffer /\ holder[Current(p)] = p
  BY OwnerFacts DEF TypeOK, Owning
<1>2. TypeOK'
  BY <1>1 DEF TypeOK, Counter, Locks!TypeOK
<1>3. UniqueBlocks' /\ Counted' /\ Owned' /\ Hands'
  BY <1>1, StepInside DEF Owning
<1>4. Flags'
  BY <1>1 DEF Flags, Current, Served, AsleepQueued
<1>5. CleanIsStored' /\ RightRequest'
  BY <1>1 DEF CleanIsStored, RightRequest, Current, StartNext, Start
<1>6. AsleepQueued'
  BY <1>1 DEF AsleepQueued, Flags, Current
<1>7. QueuedAsked'
  <2>1. Served(p) => Current(p) \notin Elements(queue)
    BY DEF Served, Flags
  <2> QED  BY <1>1, <2>1 DEF QueuedAsked, Current
<1>8. Locks!NoStrandedSleeper'
  BY DEF Locks!NoStrandedSleeper, Locks!Free
<1> QED  BY <1>2, <1>3, <1>4, <1>5, <1>6, <1>7, <1>8

(* The interrupt completes the request for b: the controller was told what *)
(* b needs, b is served and no longer queued, and its waiters are awake.   *)
Completes(b) ==
  /\ b \in Elements(queue) /\ b \notin Elements(queue') /\ blockno[b] \in Block
  /\ queue \in Seq(Buffer) /\ queue' \in Seq(Buffer)
  /\ Elements(queue) = Elements(queue') \cup {b}
  /\ queue # <<>> /\ Len(queue') = Len(queue) - 1
  /\ \A i \in 1 .. Len(queue) - 1 : queue'[i] = queue[i + 1]
  /\ valid' = valid \cup {b} /\ dirty' = dirty \ {b}
  /\ disk' = IF b \in dirty THEN [disk EXCEPT ![blockno[b]] = data[b]] ELSE disk
  /\ data' = IF b \in dirty THEN data ELSE [data EXCEPT ![b] = disk[blockno[b]]]
  /\ command' = StartNext(queue')
  /\ \A q \in Process : pc'[q] = IF pc[q] = "io" /\ Current(q) = b THEN "awake" ELSE pc[q]
  /\ pc' \in [Process -> Counter]
  /\ UNCHANGED <<refcnt, lru, holder, sleepers, hand, blockno>>

LEMMA IdeintrFacts ==
  ASSUME IInv, Ideintr PROVE \E b \in Buffer : Completes(b)
<1>1. PICK b \in Buffer : Interrupt(b) /\ pc' = WakeWaiters(b)
  BY DEF Ideintr
<1>2. UNCHANGED <<refcnt, lru, holder, sleepers, hand, blockno>>
  BY <1>1 DEF Ideintr, Interrupt, lockVars
<1>3. /\ queue \in Seq(Buffer) /\ queue # <<>> /\ b = Head(queue) /\ queue' = Tail(queue)
      /\ b \in Elements(queue) /\ b \notin Elements(queue') /\ blockno[b] \in Block
      /\ command = Start(b)
  BY <1>1, QueueFacts DEF Interrupt
<1>4. /\ queue' \in Seq(Buffer) /\ Elements(queue) = Elements(queue') \cup {b}
      /\ Len(queue') = Len(queue) - 1
      /\ \A i \in 1 .. Len(queue) - 1 : queue'[i] = queue[i + 1]
  BY <1>3, ElementsOfTail
<1>5. /\ command.block = blockno[b] /\ (command.write <=> b \in dirty)
      /\ b \in dirty => command.data = data[b]
  BY <1>3 DEF Start
<1>6. /\ valid' = valid \cup {b} /\ dirty' = dirty \ {b}
      /\ disk' = IF b \in dirty THEN [disk EXCEPT ![blockno[b]] = data[b]] ELSE disk
      /\ data' = IF b \in dirty THEN data ELSE [data EXCEPT ![b] = disk[blockno[b]]]
      /\ command' = StartNext(queue')
  BY <1>1, <1>3, <1>5 DEF Interrupt
<1>7. /\ \A q \in Process :
           pc'[q] = IF pc[q] = "io" /\ Current(q) = b THEN "awake" ELSE pc[q]
      /\ pc' \in [Process -> Counter]
  BY <1>1, <1>2 DEF IInv, TypeOK, WakeWaiters, Counter
<1> QED  BY <1>2, <1>3, <1>4, <1>6, <1>7 DEF Completes

LEMMA InvIdeintr ==
  ASSUME IInv, Ideintr PROVE IInv'
<1> USE DEF IInv
<1>1. PICK b \in Buffer : Completes(b)
  BY IdeintrFacts
<1>2. UNCHANGED <<refcnt, lru, holder, sleepers, hand, blockno>>
  BY <1>1 DEF Completes
<1>3. /\ queue \in Seq(Buffer) /\ queue # <<>>
      /\ b \in Elements(queue) /\ b \notin Elements(queue') /\ blockno[b] \in Block
  BY <1>1 DEF Completes
<1>4. /\ queue' \in Seq(Buffer) /\ Elements(queue) = Elements(queue') \cup {b}
      /\ Len(queue') = Len(queue) - 1
      /\ \A i \in 1 .. Len(queue) - 1 : queue'[i] = queue[i + 1]
  BY <1>1 DEF Completes
<1>5. /\ valid' = valid \cup {b} /\ dirty' = dirty \ {b}
      /\ disk' = IF b \in dirty THEN [disk EXCEPT ![blockno[b]] = data[b]] ELSE disk
      /\ data' = IF b \in dirty THEN data ELSE [data EXCEPT ![b] = disk[blockno[b]]]
      /\ command' = StartNext(queue')
  BY <1>1 DEF Completes
<1>6. /\ pc' \in [Process -> Counter] /\ hand' = hand
      /\ data \in [Buffer -> Data] /\ disk \in [Block -> Data]
      /\ \A q \in Process : pc'[q] = IF pc[q] = "io" /\ Current(q) = b THEN "awake" ELSE pc[q]
  BY <1>1 DEF Completes, TypeOK
<1>7. \A q \in Process : pc[q] \in Owning \ {"io", "awake"} => Current(q) # b
  BY <1>3, OwnerFacts
<1>8. TypeOK'
  <2>1. data' \in [Buffer -> Data] /\ disk' \in [Block -> Data]
    BY <1>3, <1>5, <1>6
  <2> QED  BY <1>2, <1>4, <1>5, <1>6, <2>1 DEF TypeOK, Locks!TypeOK
<1>9. UniqueBlocks' /\ Counted' /\ Owned' /\ Hands'
  BY <1>2, <1>6, StepInside DEF Owning
<1>10. Flags'
  <2>1. dirty' \subseteq valid' /\ \A c \in valid' : blockno'[c] \in Block
    BY <1>2, <1>3, <1>5 DEF Flags
  <2>2. \A c \in Elements(queue') : c \in valid' => c \in dirty'
    BY <1>3, <1>4, <1>5 DEF Flags
  <2>3. ASSUME NEW q \in Process
        PROVE  /\ pc'[q] = "read" => Current(q)' \notin valid'
               /\ pc'[q] = "write" => Current(q)' \in dirty'
               /\ pc'[q] \in {"use", "changed"} => Current(q)' \in valid'
               /\ pc'[q] = "awake" => Current(q)' \in Elements(queue') \/ Served(q)'
               /\ \A i \in 1 .. Len(hand'[q]) - 1 : hand'[q][i] \in valid'
    <3>1. Current(q)' = Current(q)
      BY <1>6 DEF Current
    <3>2. CASE pc[q] \in {"io", "awake"} /\ Current(q) = b
      BY <1>5, <1>6, <3>1, <3>2 DEF Served, Flags
    <3>3. CASE ~(pc[q] \in {"io", "awake"} /\ Current(q) = b)
      BY <1>4, <1>5, <1>6, <1>7, <3>1, <3>3 DEF Served, Flags, Owning
    <3> QED  BY <3>2, <3>3
  <2> QED  BY <2>1, <2>2, <2>3 DEF Flags
<1>11. CleanIsStored'
  <2> SUFFICES ASSUME NEW c \in valid' \ dirty'
               PROVE  \/ data'[c] = disk'[blockno'[c]]
                      \/ \E q \in Process : pc'[q] = "changed" /\ Current(q)' = c
    BY DEF CleanIsStored
  <2>1. CASE c = b
    BY <1>2, <1>3, <1>5, <1>6, <2>1
  <2>2. CASE c # b
    <3>1. c \in valid \ dirty /\ c \in Buffer /\ blockno[c] \in Block
      BY <1>5, <2>2 DEF TypeOK, Flags
    <3>2. blockno[c] # blockno[b]
      BY <1>3, <2>2, <3>1, BlockAssumption DEF UniqueBlocks
    <3>3. data'[c] = data[c] /\ disk'[blockno'[c]] = disk[blockno[c]]
      BY <1>2, <1>5, <1>6, <2>2, <3>1, <3>2
    <3> QED  BY <1>6, <3>1, <3>3 DEF CleanIsStored, Current
  <2> QED  BY <2>1, <2>2
<1>12. RightRequest'
  <2>1. /\ Len(queue) \in Nat /\ DOMAIN queue = 1 .. Len(queue)
        /\ DOMAIN queue' = 1 .. Len(queue) - 1
    BY <1>3, <1>4, ElementsOf
  <2>2. \A i, j \in DOMAIN queue' : queue'[i] = queue'[j] => i = j
    BY <1>4, <2>1 DEF RightRequest
  <2>3. CASE queue' = <<>>
    BY <1>5, <2>2, <2>3 DEF RightRequest, StartNext
  <2>4. CASE queue' # <<>>
    <3>1. Head(queue') \in Elements(queue') /\ Head(queue') \in Buffer
      <4>1. Elements(queue') = Elements(Tail(queue')) \cup {Head(queue')}
        BY <1>4, <2>4, ElementsOfTail
      <4> QED  BY <1>4, <4>1, ElementsOf
    <3>2. Head(queue') # b
      BY <1>3, <3>1
    <3>3. data'[Head(queue')] = data[Head(queue')]
      BY <1>5, <1>6, <3>1, <3>2
    <3>4. command' = Start(Head(queue'))
      BY <1>5, <2>4 DEF StartNext
    <3>5. /\ Head(queue') \in dirty' <=> Head(queue') \in dirty
          /\ blockno' = blockno
      BY <1>2, <1>5, <3>2
    <3>6. CASE Head(queue') \in dirty
      BY <2>2, <2>4, <3>3, <3>4, <3>5, <3>6 DEF RightRequest, StartNext, Start
    <3>7. CASE Head(queue') \notin dirty
      BY <2>2, <2>4, <3>4, <3>5, <3>7 DEF RightRequest, StartNext, Start
    <3> QED  BY <3>6, <3>7
  <2> QED  BY <2>3, <2>4
<1>13. AsleepQueued' /\ QueuedAsked'
  <2>1. AsleepQueued'
    BY <1>4, <1>6 DEF AsleepQueued, Current
  <2>2. QueuedAsked'
    BY <1>2, <1>4, <1>6 DEF QueuedAsked, Current
  <2> QED  BY <2>1, <2>2
<1>14. Locks!NoStrandedSleeper'
  BY <1>2 DEF Locks!NoStrandedSleeper, Locks!Free
<1> QED  BY <1>8, <1>9, <1>10, <1>11, <1>12, <1>13, <1>14

-----------------------------------------------------------------------------
(* What happens to a buffer that is not queued is nothing to the driver.   *)
LEMMA RequestStays ==
  ASSUME IInv, NEW b \in Buffer, b \notin Elements(queue),
         UNCHANGED <<queue, command>>,
         \A c \in Buffer \ {b} : /\ blockno'[c] = blockno[c] /\ data'[c] = data[c]
                                 /\ c \in dirty' <=> c \in dirty
  PROVE  RightRequest'
<1>1. queue # <<>> => Head(queue) \in Buffer \ {b}
  BY QueueFacts
<1> QED  BY <1>1 DEF IInv, RightRequest, StartNext, Start

LEMMA InvModify ==
  ASSUME IInv, NEW p \in Process, NEW v \in Data, Modify(p, v) PROVE IInv'
<1> USE DEF IInv, Modify, ideVars, lockVars
<1>1. /\ pc \in [Process -> Counter] /\ data \in [Buffer -> Data] /\ Current(p) \in Buffer
      /\ holder[Current(p)] = p /\ Current(p) \notin Elements(queue)
      /\ \A q \in Process : q # p /\ pc[q] \in Owning => Current(q) # Current(p)
  BY OwnerFacts DEF TypeOK, Owning
<1>2. TypeOK'
  BY <1>1 DEF TypeOK, Counter, Locks!TypeOK
<1>3. UniqueBlocks' /\ Counted' /\ Owned' /\ Hands'
  BY <1>1, StepInside DEF Owning
<1>4. Flags'
  BY <1>1 DEF Flags, Current, Served
<1>5. CleanIsStored'
  BY <1>1 DEF CleanIsStored, Current, TypeOK
<1>6. RightRequest'
  BY <1>1, RequestStays
<1>7. AsleepQueued' /\ QueuedAsked'
  BY <1>1 DEF AsleepQueued, QueuedAsked, Current
<1>8. Locks!NoStrandedSleeper'
  BY DEF Locks!NoStrandedSleeper, Locks!Free
<1> QED  BY <1>2, <1>3, <1>4, <1>5, <1>6, <1>7, <1>8

(* log_write() and bwrite()                                                *)
LEMMA InvPinned ==
  ASSUME IInv, NEW p \in Process, NEW to,
         \/ pc[p] = "changed" /\ to = "use"
         \/ pc[p] \in {"use", "changed"} /\ to = "write",
         pc' = [pc EXCEPT ![p] = to], dirty' = dirty \cup {Current(p)},
         UNCHANGED <<blockno, valid, data, ideVars, refcnt, lru, lockVars, hand>>
  PROVE  IInv'
<1> USE DEF IInv, ideVars, lockVars
<1>1. /\ pc \in [Process -> Counter] /\ Current(p) \in Buffer
      /\ holder[Current(p)] = p /\ Current(p) \notin Elements(queue)
      /\ \A q \in Process : q # p /\ pc[q] \in Owning => Current(q) # Current(p)
  BY OwnerFacts DEF TypeOK, Owning
<1>2. TypeOK'
  BY <1>1 DEF TypeOK, Counter, Locks!TypeOK
<1>3. UniqueBlocks' /\ Counted' /\ Owned' /\ Hands'
  BY <1>1, StepInside DEF Owning
<1>4. Flags'
  BY <1>1 DEF Flags, Current, Served, Owning
<1>5. CleanIsStored'
  BY <1>1 DEF CleanIsStored, Current
<1>6. RightRequest'
  BY <1>1, RequestStays
<1>7. AsleepQueued' /\ QueuedAsked'
  BY <1>1 DEF AsleepQueued, QueuedAsked, Current
<1>8. Locks!NoStrandedSleeper'
  BY DEF Locks!NoStrandedSleeper, Locks!Free
<1> QED  BY <1>2, <1>3, <1>4, <1>5, <1>6, <1>7, <1>8

-----------------------------------------------------------------------------
(* Getting a buffer                                                        *)

(* A process that may ask for block k has its buffers valid and of blocks  *)
(* below k.                                                                *)
LEMMA MayReadFacts ==
  ASSUME IInv, NEW p \in Process, NEW k \in Block, MayRead(p, k)
  PROVE  /\ \A i \in DOMAIN hand[p] : blockno[hand[p][i]] < k /\ hand[p][i] \in valid
         /\ \A b \in Buffer : Using(p, b) <=> b \in Elements(hand[p])
         /\ pc[p] \in {"idle", "use"}
<1>1. /\ Len(hand[p]) \in Nat /\ DOMAIN hand[p] = 1 .. Len(hand[p])
      /\ \A i \in DOMAIN hand[p] : blockno[hand[p][i]] \in Nat
  BY HandFacts, BlockAssumption DEF IInv, Hands
<1>2. CASE pc[p] = "idle"
  <2>1. DOMAIN hand[p] = {}
    BY <1>1, <1>2, EmptySeq DEF IInv, Hands
  <2> QED  BY <1>2, <2>1 DEF Using
<1>3. CASE pc[p] = "use"
  <2>1. Len(hand[p]) > 0 /\ blockno[Current(p)] < k /\ Current(p) \in valid
    BY <1>3, HandFacts DEF IInv, Hands, Flags, MayRead
  <2>2. k \in Nat
    BY BlockAssumption
  <2>3. ASSUME NEW i \in DOMAIN hand[p]
        PROVE  blockno[hand[p][i]] < k /\ hand[p][i] \in valid
    <3>1. CASE i = Len(hand[p])
      BY <2>1, <3>1 DEF Current, Last
    <3>2. CASE i < Len(hand[p])
      <4>1. blockno[hand[p][i]] < blockno[Current(p)]
        BY <1>1, <2>1, <3>2 DEF IInv, Hands, Current, Last
      <4>2. hand[p][i] \in valid
        BY <1>1, <3>2 DEF IInv, Flags
      <4>3. blockno[Current(p)] \in Nat
        BY <1>1, <2>1 DEF Current, Last
      <4> QED  BY <1>1, <2>1, <2>2, <4>1, <4>2, <4>3
    <3> QED  BY <1>1, <3>1, <3>2
  <2> QED  BY <1>3, <2>3 DEF Using
<1> QED  BY <1>2, <1>3 DEF MayRead

(* One more process relies on b.                                           *)
LEMMA CountedTake ==
  ASSUME IInv, NEW p \in Process, NEW b \in Buffer, Take(p, b), b \notin Elements(hand[p])
  PROVE  /\ hand' \in [Process -> Seq(Buffer)] /\ Counted'
         /\ refcnt' \in [Buffer -> Nat] /\ pc' \in [Process -> Counter]
         /\ Elements(hand'[p]) = Elements(hand[p]) \cup {b} /\ Last(hand'[p]) = b
         /\ Len(hand'[p]) = Len(hand[p]) + 1 /\ hand'[p] # <<>>
         /\ hand'[p][Len(hand[p]) + 1] = b
         /\ \A i \in 1 .. Len(hand[p]) : hand'[p][i] = hand[p][i]
         /\ \A q \in Process \ {p} : hand'[q] = hand[q] /\ pc'[q] = pc[q]
         /\ pc'[p] = "lock"
<1> USE DEF Take
<1>1. /\ hand \in [Process -> Seq(Buffer)] /\ refcnt \in [Buffer -> Nat]
      /\ pc \in [Process -> Counter]
  BY DEF IInv, TypeOK
<1>2. hand'[p] = Append(hand[p], b)
  BY <1>1
<1>3. /\ hand'[p] \in Seq(Buffer)
      /\ Elements(hand'[p]) = Elements(hand[p]) \cup {b} /\ Last(hand'[p]) = b
      /\ Len(hand'[p]) = Len(hand[p]) + 1 /\ hand'[p] # <<>>
      /\ hand'[p][Len(hand[p]) + 1] = b
      /\ \A i \in 1 .. Len(hand[p]) : hand'[p][i] = hand[p][i]
  BY <1>1, <1>2, ElementsOfAppend
<1>4. Counted'
  <2> SUFFICES ASSUME NEW c \in Buffer
               PROVE  refcnt'[c] = Cardinality({q \in Process : c \in Elements(hand'[q])})
    BY DEF Counted
  <2> DEFINE before == {q \in Process : c \in Elements(hand[q])}
             after == {q \in Process : c \in Elements(hand'[q])}
  <2>1. IsFiniteSet(before) /\ refcnt[c] = Cardinality(before)
    BY FS_Subset, ProcessAssumption DEF IInv, Counted
  <2>2. \A q \in Process \ {p} : hand'[q] = hand[q]
    BY <1>1
  <2>3. CASE c = b
    <3>1. after = before \cup {p} /\ p \notin before
      BY <1>3, <2>2, <2>3
    <3>2. refcnt'[c] = refcnt[c] + 1
      BY <1>1, <2>3
    <3> QED  BY <2>1, <3>1, <3>2, FS_AddElement
  <2>4. CASE c # b
    <3>1. after = before
      BY <1>3, <2>2, <2>4
    <3> QED  BY <1>1, <2>1, <2>4, <3>1
  <2> QED  BY <2>3, <2>4
<1> QED  BY <1>1, <1>3, <1>4 DEF Counter

(* What is left to show when a buffer of block k has been found: it is     *)
(* nobody's but those who have it already, and not yet locked.             *)
LEMMA OwnedTake ==
  ASSUME IInv, NEW p \in Process, NEW k \in Block, MayRead(p, k), NEW b \in Buffer, Take(p, b),
         blockno' = [blockno EXCEPT ![b] = k],
         \A q \in Process : \A c \in Elements(hand[q]) : blockno'[c] = blockno[c],
         holder' = holder
  PROVE  b \notin Elements(hand[p]) /\ Owned' /\ Hands'
<1>1. /\ Len(hand[p]) \in Nat /\ DOMAIN hand[p] = 1 .. Len(hand[p])
      /\ \A i \in DOMAIN hand[p] : blockno[hand[p][i]] \in Nat
  BY HandFacts, BlockAssumption DEF IInv, Hands
<1>2. blockno'[b] = k /\ k \in Nat
  BY BlockAssumption DEF IInv, TypeOK
<1>3. b \notin Elements(hand[p])
  <2> SUFFICES ASSUME NEW i \in DOMAIN hand[p], hand[p][i] = b PROVE FALSE
    BY DEF Elements
  <2>1. blockno[b] < k /\ blockno[b] = k
    BY <1>2, MayReadFacts DEF Elements
  <2> QED  BY <1>2, <2>1
<1>4. /\ Elements(hand'[p]) = Elements(hand[p]) \cup {b} /\ Last(hand'[p]) = b
      /\ Len(hand'[p]) = Len(hand[p]) + 1 /\ hand'[p] # <<>>
      /\ hand'[p][Len(hand[p]) + 1] = b
      /\ \A i \in 1 .. Len(hand[p]) : hand'[p][i] = hand[p][i]
      /\ \A q \in Process \ {p} : hand'[q] = hand[q] /\ pc'[q] = pc[q]
      /\ pc'[p] = "lock" /\ hand' \in [Process -> Seq(Buffer)]
  BY <1>3, CountedTake
<1>5. Owned'
  <2> SUFFICES ASSUME NEW c \in Buffer, NEW q \in Process
               PROVE  Using(q, c)' <=> holder'[c] = q
    BY DEF Owned
  <2>1. CASE q = p
    <3>1. Using(p, c)' <=> c \in Elements(hand[p])
      BY <1>3, <1>4 DEF Using, Current
    <3> QED  BY <2>1, <3>1, MayReadFacts DEF IInv, Owned
  <2>2. CASE q # p
    <3>1. hand'[q] = hand[q] /\ pc'[q] = pc[q]
      BY <1>4, <2>2
    <3>2. Using(q, c)' <=> Using(q, c)
      BY <3>1 DEF Using, Current
    <3> QED  BY <3>2 DEF IInv, Owned
  <2> QED  BY <2>1, <2>2
<1>6. Hands'
  <2> SUFFICES ASSUME NEW q \in Process
               PROVE  /\ pc'[q] = "idle" => hand'[q] = <<>>
                      /\ pc'[q] \notin {"idle", "panic"} => hand'[q] # <<>>
                      /\ \A i \in DOMAIN hand'[q] : blockno'[hand'[q][i]] \in Block
                      /\ \A i, j \in DOMAIN hand'[q] :
                           i < j => blockno'[hand'[q][i]] < blockno'[hand'[q][j]]
    BY DEF Hands
  <2>1. CASE q # p
    <3>1. hand'[q] = hand[q] /\ pc'[q] = pc[q]
      BY <1>4, <2>1
    <3>2. \A i \in DOMAIN hand[q] : blockno'[hand[q][i]] = blockno[hand[q][i]]
      BY DEF Elements
    <3> QED  BY <3>1, <3>2 DEF IInv, Hands
  <2>2. CASE q = p
    <3>1. DOMAIN hand'[p] = 1 .. Len(hand[p]) + 1
      BY <1>4, ElementsOf
    <3>2. \A i \in 1 .. Len(hand[p]) :
            /\ blockno'[hand'[p][i]] = blockno[hand[p][i]]
            /\ blockno[hand[p][i]] < k /\ blockno[hand[p][i]] \in Block
      BY <1>1, <1>4, MayReadFacts DEF Elements, IInv, Hands
    <3>3. blockno'[hand'[p][Len(hand[p]) + 1]] = k
      BY <1>2, <1>4
    <3>4. \A i \in DOMAIN hand'[p] : i \in 1 .. Len(hand[p]) \/ i = Len(hand[p]) + 1
      BY <1>1, <3>1
    <3>5. \A i \in DOMAIN hand'[p] : blockno'[hand'[p][i]] \in Block
      BY <3>2, <3>3, <3>4
    <3>6. ASSUME NEW i \in DOMAIN hand'[p], NEW j \in DOMAIN hand'[p], i < j
          PROVE  blockno'[hand'[p][i]] < blockno'[hand'[p][j]]
      <4>1. i \in 1 .. Len(hand[p])
        BY <1>1, <3>1, <3>6
      <4>2. CASE j = Len(hand[p]) + 1
        BY <3>2, <3>3, <4>1, <4>2
      <4>3. CASE j \in 1 .. Len(hand[p])
        BY <1>1, <3>2, <3>6, <4>1, <4>3 DEF IInv, Hands
      <4> QED  BY <3>4, <4>2, <4>3
    <3> QED  BY <1>4, <2>2, <3>5, <3>6
  <2> QED  BY <2>1, <2>2
<1> QED  BY <1>3, <1>5, <1>6

LEMMA InvBgetHit ==
  ASSUME IInv, NEW p \in Process, NEW k \in Block, BgetHit(p, k) PROVE IInv'
<1> USE DEF IInv, bufVars, ideVars, lockVars
<1>1. PICK b \in Buffer : blockno[b] = k /\ Take(p, b)
  BY DEF BgetHit, Cached
<1>2. MayRead(p, k) /\ UNCHANGED <<bufVars, ideVars, lru, lockVars>>
  BY DEF BgetHit
<1>3. b \notin Elements(hand[p]) /\ Owned' /\ Hands'
  <2>1. blockno' = [blockno EXCEPT ![b] = k]
    BY <1>1, <1>2 DEF TypeOK
  <2> QED  BY <1>1, <1>2, <2>1, OwnedTake
<1>4. /\ hand' \in [Process -> Seq(Buffer)] /\ Counted'
      /\ refcnt' \in [Buffer -> Nat] /\ pc' \in [Process -> Counter]
      /\ Last(hand'[p]) = b /\ Len(hand'[p]) = Len(hand[p]) + 1
      /\ \A i \in 1 .. Len(hand[p]) : hand'[p][i] = hand[p][i]
      /\ \A q \in Process \ {p} : hand'[q] = hand[q] /\ pc'[q] = pc[q]
      /\ pc'[p] = "lock"
  BY <1>1, <1>3, CountedTake
<1>5. pc[p] \in {"idle", "use"} /\ \A i \in DOMAIN hand[p] : hand[p][i] \in valid
  BY <1>2, MayReadFacts
<1>6. TypeOK' /\ UniqueBlocks'
  BY <1>2, <1>4 DEF TypeOK, Locks!TypeOK, UniqueBlocks
<1>7. Flags'
  <2>1. ASSUME NEW q \in Process \ {p}
        PROVE  /\ pc'[q] = "read" => Current(q)' \notin valid'
               /\ pc'[q] = "write" => Current(q)' \in dirty'
               /\ pc'[q] \in {"use", "changed"} => Current(q)' \in valid'
               /\ pc'[q] = "awake" => Current(q)' \in Elements(queue') \/ Served(q)'
               /\ \A i \in 1 .. Len(hand'[q]) - 1 : hand'[q][i] \in valid'
    BY <1>2, <1>4 DEF Flags, Current, Served
  <2>2. \A i \in 1 .. Len(hand'[p]) - 1 : hand'[p][i] \in valid'
    <3>1. Len(hand[p]) \in Nat /\ DOMAIN hand[p] = 1 .. Len(hand[p])
      BY HandFacts
    <3>2. Len(hand'[p]) - 1 = Len(hand[p])
      BY <1>4, <3>1
    <3> QED  BY <1>2, <1>4, <1>5, <3>1, <3>2
  <2> QED  BY <1>2, <1>4, <2>1, <2>2 DEF Flags
<1>8. CleanIsStored' /\ RightRequest'
  <2>1. \A q \in Process : pc[q] = "changed" => pc'[q] = "changed" /\ Current(q)' = Current(q)
    BY <1>4, <1>5 DEF Current
  <2>2. CleanIsStored'
    BY <1>2, <2>1 DEF CleanIsStored
  <2> QED  BY <1>2, <2>2 DEF RightRequest, StartNext, Start
<1>9. AsleepQueued'
  BY <1>2, <1>4 DEF AsleepQueued, Current
<1>10. QueuedAsked'
  BY <1>2, <1>4, <1>5 DEF QueuedAsked, Current
<1>11. Locks!NoStrandedSleeper'
  BY <1>2 DEF Locks!NoStrandedSleeper, Locks!Free
<1> QED  BY <1>3, <1>4, <1>6, <1>7, <1>8, <1>9, <1>10, <1>11

LEMMA InvBgetMiss ==
  ASSUME IInv, NEW p \in Process, NEW k \in Block, BgetMiss(p, k) PROVE IInv'
<1> USE DEF IInv, ideVars, lockVars
<1>1. PICK b \in Buffer : /\ Unused(b) /\ Take(p, b)
                          /\ blockno' = [blockno EXCEPT ![b] = k]
                          /\ valid' = valid \ {b} /\ dirty' = dirty \ {b}
  BY DEF BgetMiss, Victim, ClearValid
<1>2. /\ MayRead(p, k) /\ UNCHANGED <<data, ideVars, lru, lockVars>>
      /\ \A c \in Buffer : blockno[c] # k
  BY DEF BgetMiss, Cached
<1>3. /\ \A q \in Process : b \notin Elements(hand[q])
      /\ b \notin Elements(queue) /\ b \notin dirty
  BY <1>1, UnusedFacts
<1>4. /\ blockno \in [Buffer -> Block \cup {NoBlock}] /\ blockno'[b] = k
      /\ \A c \in Buffer \ {b} : blockno'[c] = blockno[c]
      /\ dirty' = dirty
  BY <1>1, <1>3 DEF TypeOK
<1>5. Owned' /\ Hands'
  <2>1. \A q \in Process : \A c \in Elements(hand[q]) : blockno'[c] = blockno[c]
    BY <1>3, <1>4, HandFacts
  <2> QED  BY <1>1, <1>2, <2>1, OwnedTake
<1>6. /\ hand' \in [Process -> Seq(Buffer)] /\ Counted'
      /\ refcnt' \in [Buffer -> Nat] /\ pc' \in [Process -> Counter]
      /\ Last(hand'[p]) = b /\ Len(hand'[p]) = Len(hand[p]) + 1
      /\ \A i \in 1 .. Len(hand[p]) : hand'[p][i] = hand[p][i]
      /\ \A q \in Process \ {p} : hand'[q] = hand[q] /\ pc'[q] = pc[q]
      /\ pc'[p] = "lock"
  BY <1>1, <1>3, CountedTake
<1>7. pc[p] \in {"idle", "use"} /\ \A i \in DOMAIN hand[p] : hand[p][i] \in valid
  BY <1>2, MayReadFacts
<1>8. TypeOK' /\ UniqueBlocks'
  <2>1. TypeOK'
    BY <1>1, <1>2, <1>6 DEF TypeOK, Locks!TypeOK
  <2>2. UniqueBlocks'
    BY <1>2, <1>4 DEF UniqueBlocks
  <2> QED  BY <2>1, <2>2
<1>9. \A q \in Process : pc[q] \in Owning => Current(q) # b
  BY <1>3, OwnerFacts
<1>10. Flags'
  <2>1. ASSUME NEW q \in Process \ {p}
        PROVE  /\ pc'[q] = "read" => Current(q)' \notin valid'
               /\ pc'[q] = "write" => Current(q)' \in dirty'
               /\ pc'[q] \in {"use", "changed"} => Current(q)' \in valid'
               /\ pc'[q] = "awake" => Current(q)' \in Elements(queue') \/ Served(q)'
               /\ \A i \in 1 .. Len(hand'[q]) - 1 : hand'[q][i] \in valid'
    <3>1. Current(q)' = Current(q) /\ hand'[q] = hand[q] /\ pc'[q] = pc[q]
      BY <1>6 DEF Current
    <3>2. \A i \in DOMAIN hand[q] : hand[q][i] # b
      BY <1>3 DEF Elements
    <3>3. \A i \in 1 .. Len(hand[q]) - 1 : i \in DOMAIN hand[q]
      BY HandFacts
    <3> QED  BY <1>1, <1>2, <1>4, <1>9, <3>1, <3>2, <3>3 DEF Flags, Served, Owning
  <2>2. \A i \in 1 .. Len(hand'[p]) - 1 : hand'[p][i] \in valid'
    <3>1. \A i \in DOMAIN hand[p] : hand[p][i] # b
      BY <1>3 DEF Elements
    <3>2. Len(hand[p]) \in Nat /\ DOMAIN hand[p] = 1 .. Len(hand[p])
      BY HandFacts
    <3>3. Len(hand'[p]) - 1 = Len(hand[p])
      BY <1>6, <3>2
    <3> QED  BY <1>1, <1>6, <1>7, <3>1, <3>2, <3>3
  <2>3. dirty' \subseteq valid' /\ \A c \in valid' : blockno'[c] \in Block
    BY <1>1, <1>3, <1>4 DEF Flags, TypeOK
  <2>4. \A c \in Elements(queue') : c \in valid' => c \in dirty'
    BY <1>1, <1>2, <1>3 DEF Flags
  <2> QED  BY <1>6, <2>1, <2>2, <2>3, <2>4 DEF Flags
<1>11. CleanIsStored'
  <2> SUFFICES ASSUME NEW c \in valid' \ dirty'
               PROVE  \/ data'[c] = disk'[blockno'[c]]
                      \/ \E q \in Process : pc'[q] = "changed" /\ Current(q)' = c
    BY DEF CleanIsStored
  <2>1. c \in valid \ dirty /\ c # b /\ blockno'[c] = blockno[c]
    BY <1>1, <1>4 DEF TypeOK
  <2>2. \A q \in Process : pc[q] = "changed" => pc'[q] = "changed" /\ Current(q)' = Current(q)
    BY <1>6, <1>7 DEF Current
  <2> QED  BY <1>2, <2>1, <2>2 DEF CleanIsStored
<1>12. RightRequest'
  BY <1>2, <1>3, <1>4, RequestStays
<1>13. AsleepQueued'
  BY <1>2, <1>6 DEF AsleepQueued, Current
<1>14. QueuedAsked'
  BY <1>2, <1>6, <1>7 DEF QueuedAsked, Current
<1>15. Locks!NoStrandedSleeper'
  BY <1>2 DEF Locks!NoStrandedSleeper, Locks!Free
<1> QED  BY <1>5, <1>6, <1>8, <1>10, <1>11, <1>12, <1>13, <1>14, <1>15

LEMMA InvBgetPanics ==
  ASSUME IInv, NEW p \in Process, NEW k \in Block, BgetPanics(p, k) PROVE IInv'
<1> USE DEF IInv, BgetPanics, bufVars, ideVars, lockVars
<1>1. pc \in [Process -> Counter] /\ pc[p] \in {"idle", "use"}
  BY MayReadFacts DEF TypeOK
<1>2. TypeOK'
  BY <1>1 DEF TypeOK, Counter, Locks!TypeOK
<1>3. UniqueBlocks' /\ Counted'
  BY DEF UniqueBlocks, Counted
<1>4. Owned'
  BY <1>1 DEF Owned, Using, Current
<1>5. Hands'
  BY <1>1 DEF Hands
<1>6. Flags'
  BY <1>1 DEF Flags, Current, Served
<1>7. CleanIsStored' /\ RightRequest'
  BY <1>1 DEF CleanIsStored, RightRequest, Current, StartNext, Start
<1>8. AsleepQueued' /\ QueuedAsked'
  BY <1>1 DEF AsleepQueued, QueuedAsked, Current
<1>9. Locks!NoStrandedSleeper'
  BY DEF Locks!NoStrandedSleeper, Locks!Free
<1> QED  BY <1>2, <1>3, <1>4, <1>5, <1>6, <1>7, <1>8, <1>9

-----------------------------------------------------------------------------
(* Giving a buffer back                                                    *)

LEMMA InvBrelse ==
  ASSUME IInv, NEW p \in Process, Brelse(p) PROVE IInv'
<1> USE DEF IInv, Brelse, Goto, Locks!Release, bufVars, ideVars
<1>1. /\ pc \in [Process -> Counter] /\ Current(p) \in Buffer
      /\ Current(p) \in Elements(hand[p])
      /\ holder[Current(p)] = p /\ Current(p) \notin Elements(queue)
      /\ \A q \in Process : q # p /\ pc[q] \in Owning => Current(q) # Current(p)
  BY OwnerFacts DEF TypeOK, Owning
<1>2. /\ holder \in [Buffer -> Process \cup {Nobody}]
      /\ sleepers \in [Buffer -> SUBSET Process]
  BY DEF TypeOK, Locks!TypeOK
<1>3. TypeOK'
  BY <1>1, <1>2 DEF TypeOK, Counter, Locks!TypeOK
<1>4. UniqueBlocks' /\ Counted'
  BY DEF UniqueBlocks, Counted
<1>5. Owned'
  <2> SUFFICES ASSUME NEW b \in Buffer, NEW q \in Process
               PROVE  Using(q, b)' <=> holder'[b] = q
    BY DEF Owned
  <2>1. CASE b = Current(p)
    <3>1. holder'[b] = Nobody
      BY <1>1, <1>2, <2>1
    <3>2. q # p => ~Using(q, b) /\ (Using(q, b)' <=> Using(q, b))
      BY <1>1, <2>1 DEF Owned, Using, Current
    <3>3. q = p => ~Using(q, b)'
      BY <1>1, <2>1 DEF Using, Current
    <3> QED  BY <3>1, <3>2, <3>3, ProcessAssumption
  <2>2. CASE b # Current(p)
    <3>1. holder'[b] = holder[b]
      BY <1>1, <1>2, <2>2
    <3>2. Using(q, b)' <=> Using(q, b)
      BY <1>1, <2>2 DEF Using, Current
    <3> QED  BY <3>1, <3>2 DEF Owned
  <2> QED  BY <2>1, <2>2
<1>6. Hands'
  BY <1>1 DEF Hands
<1>7. Flags'
  BY <1>1 DEF Flags, Current, Served
<1>8. CleanIsStored' /\ RightRequest'
  BY <1>1 DEF CleanIsStored, RightRequest, Current, StartNext, Start
<1>9. AsleepQueued'
  BY <1>1 DEF AsleepQueued, Current
<1>10. QueuedAsked'
  BY <1>1, <1>2 DEF QueuedAsked, Current
<1>11. Locks!NoStrandedSleeper'
  BY <1>1, <1>2 DEF Locks!NoStrandedSleeper, Locks!Free
<1> QED  BY <1>3, <1>4, <1>5, <1>6, <1>7, <1>8, <1>9, <1>10, <1>11

(* Moving a buffer to the front of the list keeps its buffers.             *)
LEMMA SameList ==
  ASSUME TypeOK, NEW b \in Buffer
  PROVE  ToFront(b) \in Seq(Buffer) /\ Elements(ToFront(b)) = Buffer
<1> DEFINE n == CHOOSE i \in DOMAIN lru : lru[i] = b
           moved == ToFront(b)
<1>1. /\ Len(lru) \in Nat /\ DOMAIN lru = 1 .. Len(lru)
      /\ \A i \in DOMAIN lru : lru[i] \in Buffer
      /\ \A c \in Buffer : \E i \in DOMAIN lru : lru[i] = c
  BY LenProperties, ElementOfSeq DEF TypeOK, Elements
<1>2. n \in 1 .. Len(lru) /\ lru[n] = b
  BY <1>1
<1> HIDE DEF n
<1>3. moved = [i \in 1 .. Len(lru) |->
                 IF i = 1 THEN b ELSE IF i <= n THEN lru[i - 1] ELSE lru[i]]
  BY <1>1 DEF ToFront, n
<1> HIDE DEF moved
<1>4. moved \in [1 .. Len(lru) -> Buffer]
  BY <1>1, <1>2, <1>3
<1>5. moved \in Seq(Buffer) /\ DOMAIN moved = 1 .. Len(lru)
  BY <1>1, <1>3, <1>4
<1>6. ASSUME NEW c \in Buffer PROVE c \in Elements(moved)
  <2>1. PICK j \in 1 .. Len(lru) : lru[j] = c
    BY <1>1
  <2>2. CASE j < n
    <3>1. j + 1 \in 1 .. Len(lru) /\ j + 1 # 1 /\ j + 1 <= n /\ (j + 1) - 1 = j
      BY <1>1, <1>2, <2>2
    <3>2. moved[j + 1] = c
      BY <1>3, <2>1, <3>1
    <3> QED  BY <1>5, <3>1, <3>2 DEF Elements
  <2>3. CASE j = n
    <3>1. 1 \in 1 .. Len(lru) /\ moved[1] = c
      BY <1>1, <1>2, <1>3, <2>1, <2>3
    <3> QED  BY <1>5, <3>1 DEF Elements
  <2>4. CASE j > n
    <3>1. moved[j] = c
      BY <1>1, <1>2, <1>3, <2>1, <2>4
    <3> QED  BY <1>5, <2>1, <3>1 DEF Elements
  <2> QED  BY <1>1, <1>2, <2>2, <2>3, <2>4
<1>7. Elements(moved) \subseteq Buffer
  BY <1>4, <1>5 DEF Elements
<1> QED  BY <1>5, <1>6, <1>7 DEF moved

LEMMA InvBrelsePut ==
  ASSUME IInv, NEW p \in Process, BrelsePut(p) PROVE IInv'
<1> USE DEF IInv, bufVars, ideVars, lockVars
<1> DEFINE b == Current(p)
<1>1. /\ pc[p] = "put" /\ refcnt' = [refcnt EXCEPT ![b] = @ - 1]
      /\ lru' = IF refcnt[b] = 1 THEN ToFront(b) ELSE lru
      /\ hand' = [hand EXCEPT ![p] = AllButLast(@)]
      /\ pc' = [pc EXCEPT ![p] = IF Len(hand[p]) > 1 THEN "use" ELSE "idle"]
      /\ UNCHANGED <<bufVars, ideVars, lockVars>>
  BY DEF BrelsePut
<1>2. /\ hand[p] # <<>> /\ b \in Buffer /\ b \in Elements(hand[p]) /\ hand[p] \in Seq(Buffer)
      /\ Len(hand[p]) \in Nat /\ Len(hand[p]) > 0 /\ DOMAIN hand[p] = 1 .. Len(hand[p])
  BY <1>1, HandFacts DEF Hands
<1>3. /\ hand \in [Process -> Seq(Buffer)] /\ refcnt \in [Buffer -> Nat]
      /\ pc \in [Process -> Counter]
  BY DEF TypeOK
<1>4. /\ hand'[p] \in Seq(Buffer) /\ Len(hand'[p]) = Len(hand[p]) - 1
      /\ \A i \in 1 .. Len(hand[p]) - 1 : hand'[p][i] = hand[p][i]
      /\ Elements(hand[p]) = Elements(hand'[p]) \cup {b}
      /\ \A q \in Process \ {p} : hand'[q] = hand[q] /\ pc'[q] = pc[q]
      /\ pc'[p] = IF Len(hand[p]) > 1 THEN "use" ELSE "idle"
  BY <1>1, <1>2, <1>3, ElementsOfAllButLast DEF Current
<1>5. /\ DOMAIN hand'[p] = 1 .. Len(hand[p]) - 1
      /\ Len(hand[p]) > 1 <=> hand'[p] # <<>>
      /\ Len(hand[p]) > 1 => Last(hand'[p]) = hand[p][Len(hand[p]) - 1]
  BY <1>2, <1>4, ElementsOf DEF Last
<1>6. b \notin Elements(hand'[p])
  <2> SUFFICES ASSUME NEW i \in 1 .. Len(hand[p]) - 1, hand[p][i] = b PROVE FALSE
    BY <1>4, <1>5 DEF Elements
  <2>1. hand[p][i] = hand[p][Len(hand[p])]
    BY DEF Current, Last
  <2> QED  BY <1>2, <2>1, HandFacts
<1>7. Counted' /\ refcnt' \in [Buffer -> Nat]
  <2>1. ASSUME NEW c \in Buffer
        PROVE  /\ refcnt'[c] = Cardinality({q \in Process : c \in Elements(hand'[q])})
               /\ refcnt'[c] \in Nat
    <3> DEFINE before == {q \in Process : c \in Elements(hand[q])}
               after == {q \in Process : c \in Elements(hand'[q])}
    <3>1. IsFiniteSet(before) /\ refcnt[c] = Cardinality(before)
      BY FS_Subset, ProcessAssumption DEF Counted
    <3>2. CASE c = b
      <4>1. after = before \ {p} /\ p \in before
        BY <1>2, <1>4, <1>6, <3>2
      <4>2. refcnt'[c] = refcnt[c] - 1
        BY <1>1, <1>2, <1>3, <3>2
      <4>3. IsFiniteSet(after) /\ Cardinality(after) = refcnt[c] - 1
        BY <3>1, <4>1, FS_RemoveElement
      <4> QED  BY <4>2, <4>3, FS_CardinalityType
    <3>3. CASE c # b
      <4>1. after = before
        BY <1>4, <3>3
      <4> QED  BY <1>1, <1>3, <3>1, <3>3, <4>1
    <3> QED  BY <3>2, <3>3
  <2>2. refcnt' = [c \in Buffer |-> refcnt'[c]]
    BY <1>1, <1>3
  <2> QED  BY <2>1, <2>2 DEF Counted
<1>8. TypeOK'
  <2>1. lru' \in Seq(Buffer) /\ Elements(lru') = Buffer
    BY <1>1, <1>2, SameList DEF TypeOK
  <2>2. hand' \in [Process -> Seq(Buffer)] /\ pc' \in [Process -> Counter]
    BY <1>1, <1>3, <1>4 DEF Counter
  <2> QED  BY <1>1, <1>7, <2>1, <2>2 DEF TypeOK, Locks!TypeOK
<1>9. UniqueBlocks'
  BY <1>1 DEF UniqueBlocks
<1>10. Owned'
  <2> SUFFICES ASSUME NEW c \in Buffer, NEW q \in Process
               PROVE  Using(q, c)' <=> Using(q, c)
    BY <1>1 DEF Owned
  <2>1. CASE q # p
    <3>1. hand'[q] = hand[q] /\ pc'[q] = pc[q]
      BY <1>4, <2>1
    <3> QED  BY <3>1 DEF Using, Current
  <2>2. CASE q = p
    BY <1>1, <1>4, <1>6, <2>2 DEF Using
  <2> QED  BY <2>1, <2>2
<1>11. Hands'
  <2>1. ASSUME NEW q \in Process, q # p
        PROVE  hand'[q] = hand[q] /\ pc'[q] = pc[q] /\ blockno' = blockno
    BY <1>1, <1>4, <2>1
  <2>2. /\ pc'[p] = "idle" => hand'[p] = <<>>
        /\ pc'[p] \notin {"idle", "panic"} => hand'[p] # <<>>
        /\ \A i \in DOMAIN hand'[p] : blockno'[hand'[p][i]] \in Block
        /\ \A i, j \in DOMAIN hand'[p] :
             i < j => blockno'[hand'[p][i]] < blockno'[hand'[p][j]]
    <3>1. \A i \in DOMAIN hand'[p] : i \in DOMAIN hand[p] /\ hand'[p][i] = hand[p][i]
      BY <1>2, <1>4, <1>5
    <3> QED  BY <1>1, <1>4, <1>5, <3>1 DEF Hands
  <2> QED  BY <2>1, <2>2 DEF Hands
<1>12. Flags'
  <2>1. ASSUME NEW q \in Process, q # p
        PROVE  hand'[q] = hand[q] /\ pc'[q] = pc[q] /\ Current(q)' = Current(q)
    BY <1>4, <2>1 DEF Current
  <2>2. \A i \in 1 .. Len(hand[p]) - 1 : hand[p][i] \in valid
    BY DEF Flags
  <2>3. pc'[p] = "use" => Current(p)' \in valid
    <3>1. Len(hand[p]) > 1 => Len(hand[p]) - 1 \in 1 .. Len(hand[p]) - 1
      BY <1>2
    <3> QED  BY <1>4, <1>5, <2>2, <3>1 DEF Current
  <2>4. \A i \in 1 .. Len(hand'[p]) - 1 : hand'[p][i] \in valid
    BY <1>2, <1>4, <2>2
  <2> QED  BY <1>1, <1>4, <2>1, <2>3, <2>4 DEF Flags, Served
<1>13. \A q \in Process : pc[q] \in Owning => hand'[q] = hand[q] /\ pc'[q] = pc[q]
  BY <1>1, <1>4 DEF Owning
<1>14. CleanIsStored' /\ RightRequest'
  BY <1>1, <1>13 DEF CleanIsStored, RightRequest, Current, StartNext, Start, Owning
<1>15. AsleepQueued'
  BY <1>1, <1>4 DEF AsleepQueued, Current
<1>16. QueuedAsked'
  BY <1>1, <1>13 DEF QueuedAsked, Current, Owning
<1>17. Locks!NoStrandedSleeper'
  BY <1>1 DEF Locks!NoStrandedSleeper, Locks!Free
<1> QED  BY <1>7, <1>8, <1>9, <1>10, <1>11, <1>12, <1>14, <1>15, <1>16, <1>17

-----------------------------------------------------------------------------
LEMMA InvRoused ==
  ASSUME IInv, NEW p \in Process, Locks!Rouse(p),
         UNCHANGED <<bufVars, ideVars, refcnt, lru, procVars>>
  PROVE  IInv'
<1> USE DEF IInv, Locks!Rouse, bufVars, ideVars, procVars
<1>1. TypeOK'
  BY DEF TypeOK, Locks!TypeOK
<1>2. UniqueBlocks' /\ Counted' /\ Owned' /\ Hands'
  BY StepInside
<1>3. Flags' /\ CleanIsStored' /\ RightRequest'
  BY DEF Flags, CleanIsStored, RightRequest, Current, Served, StartNext, Start
<1>4. AsleepQueued' /\ QueuedAsked'
  BY DEF AsleepQueued, QueuedAsked, Current
<1>5. Locks!NoStrandedSleeper'
  BY DEF Locks!NoStrandedSleeper, Locks!Free
<1> QED  BY <1>1, <1>2, <1>3, <1>4, <1>5

LEMMA InvSame == ASSUME IInv, UNCHANGED vars PROVE IInv'
<1> USE DEF IInv, vars, bufVars, ideVars, lockVars, procVars
<1>1. TypeOK'
  BY DEF TypeOK, Locks!TypeOK
<1>2. UniqueBlocks' /\ Counted' /\ Owned' /\ Hands'
  BY StepInside
<1>3. Flags' /\ CleanIsStored' /\ RightRequest'
  BY DEF Flags, CleanIsStored, RightRequest, Current, Served, StartNext, Start
<1>4. AsleepQueued' /\ QueuedAsked' /\ Locks!NoStrandedSleeper'
  BY DEF AsleepQueued, QueuedAsked, Current, Locks!NoStrandedSleeper, Locks!Free
<1> QED  BY <1>1, <1>2, <1>3, <1>4

LEMMA InvNext == IInv /\ [Next]_vars => IInv'
<1> SUFFICES ASSUME IInv, [Next]_vars PROVE IInv'
  OBVIOUS
<1>1. ASSUME NEW p \in Process, Bget(p) PROVE IInv'
  BY <1>1, InvBgetHit, InvBgetMiss, InvBgetPanics DEF Bget
<1>2. ASSUME NEW p \in Process, Wait(p) PROVE IInv'
  <2>1. CASE IderwReturns(p)
    BY <2>1, InvAwake DEF IderwReturns
  <2>2. CASE IderwSleeps(p)
    BY <2>2, InvAwake DEF IderwSleeps
  <2> QED  BY <1>2, <2>1, <2>2, InvLockBuffer, InvSleepOnBuffer, InvIderw DEF Wait
<1>3. ASSUME NEW p \in Process, Use(p) PROVE IInv'
  <2>1. CASE LogWrite(p)
    BY <2>1, InvPinned DEF LogWrite, Goto
  <2>2. CASE Bwrite(p)
    BY <2>2, InvPinned DEF Bwrite
  <2> QED  BY <1>3, <2>1, <2>2, InvModify, InvBrelse DEF Use
<1>4. ASSUME NEW p \in Process, KillWakes(p) PROVE IInv'
  <2>1. CASE Goto(p, "io", "awake") /\ UNCHANGED <<bufVars, ideVars, refcnt, lru, lockVars, hand>>
    BY <2>1, InvAwake
  <2>2. CASE Locks!Rouse(p) /\ UNCHANGED <<bufVars, ideVars, refcnt, lru, procVars>>
    BY <2>2, InvRoused
  <2> QED  BY <1>4, <2>1, <2>2 DEF KillWakes
<1>5. CASE UNCHANGED vars
  BY <1>5, InvSame
<1> QED  BY <1>1, <1>2, <1>3, <1>4, <1>5, InvBrelsePut, InvIdeintr DEF Next

(* The safety properties of the cache hold in every run.                   *)
THEOREM Invariance == Spec => []IInv
<1> QED  BY InvInit, InvNext, PTL DEF Spec

(* A block is in one buffer, a buffer's count is right, its lock is held   *)
(* by who uses it.                                                         *)
THEOREM OneCopy == Spec => []NoTwoCopies
<1>1. IInv => NoTwoCopies
  BY DEF IInv, NoTwoCopies, UniqueBlocks, Counted, Owned
<1> QED  BY <1>1, Invariance, PTL

(* Every variable holds a value of its kind.                               *)
THEOREM TypeCorrect == Spec => []TypeOK
<1>1. IInv => TypeOK
  BY DEF IInv
<1> QED  BY <1>1, Invariance, PTL

(* What the cache may forget is on the disk.                               *)
THEOREM NothingForgotten == Spec => []CleanIsStored
<1>1. IInv => CleanIsStored
  BY DEF IInv
<1> QED  BY <1>1, Invariance, PTL

(* Requests are served in order, each for its own buffer, and nobody       *)
(* sleeps without a request that is queued or a lock that is taken.        *)
THEOREM RequestsServed == Spec => []ServedInOrder
<1>1. IInv => ServedInOrder
  BY DEF IInv, ServedInOrder, AsleepQueued, QueuedAsked
<1> QED  BY <1>1, Invariance, PTL

-----------------------------------------------------------------------------
(* The buffer cache with the driver is a store of blocks (BlockStore):     *)
(* locking a buffer takes its block, unlocking it gives the block up, a    *)
(* change is seen at once by whoever has the block next, and the interrupt *)
(* that ends a write is the moment it reaches the disk.  Counting buffers, *)
(* looking for one, recycling it, queueing and waking change nothing.      *)

(* The block of a buffer is found in that buffer.                          *)
Found(b) ==
  /\ Cached(blockno[b]) # {} /\ BufferOf(blockno[b]) = b
  /\ Latest[blockno[b]] = IF b \in valid THEN data[b] ELSE disk[blockno[b]]
  /\ Owner[blockno[b]] = holder[b]
Missed(k) == Latest[k] = disk[k] /\ Owner[k] = Nobody

Mapping == UniqueBlocks =>
  /\ \A b \in Buffer : blockno[b] \in Block => Found(b)
  /\ \A k \in Block : (\A b \in Buffer : blockno[b] # k) => Missed(k)

LEMMA MapFacts == Mapping
<1> SUFFICES ASSUME UniqueBlocks PROVE
      /\ \A b \in Buffer : blockno[b] \in Block => Found(b)
      /\ \A k \in Block : (\A b \in Buffer : blockno[b] # k) => Missed(k)
  BY DEF Mapping
<1>1. ASSUME NEW b \in Buffer, blockno[b] \in Block PROVE Found(b)
  <2>1. Cached(blockno[b]) # {}
    BY <1>1 DEF Cached
  <2>2. BufferOf(blockno[b]) = b
    BY <1>1, BlockAssumption DEF BufferOf, UniqueBlocks
  <2> QED  BY <1>1, <2>1, <2>2 DEF Found, Latest, Owner
<1>2. ASSUME NEW k \in Block, \A b \in Buffer : blockno[b] # k PROVE Missed(k)
  <2>1. Cached(k) = {}
    BY <1>2 DEF Cached
  <2> QED  BY <2>1 DEF Missed, Latest, Owner
<1> QED  BY <1>1, <1>2

LEMMA MapFactsNext == Mapping'
  BY MapFacts, PTL

LEMMA StoreInit == Init => Store!Init
<1> SUFFICES ASSUME Init PROVE Store!Init
  OBVIOUS
<1>1. UniqueBlocks /\ \A k \in Block : \A b \in Buffer : blockno[b] # k
  BY BlockAssumption DEF Init, UniqueBlocks
<1>2. \A k \in Block : Latest[k] = disk[k] /\ Owner[k] = Nobody
  BY <1>1, MapFacts DEF Mapping, Missed
<1>3. disk \in [Block -> Data]
  BY BufferAssumption DEF Init
<1>4. Latest = disk /\ Owner = [k \in Block |-> Nobody]
  BY <1>2, <1>3 DEF Latest, Owner
<1>5. Syncing = {}
  BY DEF Init, Syncing
<1> QED  BY <1>3, <1>4, <1>5 DEF Store!Init

-----------------------------------------------------------------------------
(* Who waits for a write                                                   *)

Asking(q) == pc[q] \in {"write", "io", "awake"} /\ Current(q) \in valid \cap dirty

LEMMA SameSyncing ==
  ASSUME \A q \in Process :
           /\ Asking(q)' <=> Asking(q)
           /\ Asking(q) => (blockno[Current(q)])' = blockno[Current(q)]
  PROVE  Syncing' = Syncing
<1>1. \A k \in Block : k \in Syncing' <=>
        \E q \in Process : Asking(q)' /\ (blockno[Current(q)])' = k
  BY DEF Syncing, Asking
<1>2. \A k \in Block : k \in Syncing <=>
        \E q \in Process : Asking(q) /\ blockno[Current(q)] = k
  BY DEF Syncing, Asking
<1>3. Syncing \subseteq Block /\ Syncing' \subseteq Block
  BY DEF Syncing
<1> QED  BY <1>1, <1>2, <1>3

LEMMA SameLatest ==
  ASSUME UNCHANGED <<blockno, valid, data, disk>> PROVE Latest' = Latest
  BY DEF Latest, Cached, BufferOf

LEMMA SameOwner ==
  ASSUME UNCHANGED <<blockno, holder>> PROVE Owner' = Owner
  BY DEF Owner, Cached, BufferOf

(* The block of a buffer that its owner uses is not on its way to disk.    *)
LEMMA NotSyncing ==
  ASSUME IInv, NEW p \in Process, pc[p] \in {"use", "changed"}
  PROVE  blockno[Current(p)] \notin Syncing
<1> SUFFICES ASSUME NEW q \in Process, Asking(q), blockno[Current(q)] = blockno[Current(p)]
             PROVE  FALSE
  BY DEF Syncing, Asking
<1>1. /\ Current(p) \in Buffer /\ blockno[Current(p)] \in Block
      /\ Current(q) \in Buffer
      /\ q # p => Current(q) # Current(p)
  BY OwnerFacts DEF Owning, Asking
<1>2. Current(q) = Current(p)
  BY <1>1, BlockAssumption DEF IInv, UniqueBlocks
<1> QED  BY <1>1, <1>2 DEF Asking

(* Steps of one process that neither starts nor ends a write               *)
LEMMA OthersKeepSyncing ==
  ASSUME NEW p \in Process, UNCHANGED <<blockno, valid, dirty>>,
         ~Asking(p), ~Asking(p)',
         \A q \in Process \ {p} : pc'[q] = pc[q] /\ hand'[q] = hand[q]
  PROVE  Syncing' = Syncing
<1>1. \A q \in Process \ {p} : (Asking(q)' <=> Asking(q)) /\ Current(q)' = Current(q)
  BY DEF Asking, Current
<1> QED  BY <1>1, SameSyncing

-----------------------------------------------------------------------------
LEMMA StutterBgetHit ==
  ASSUME IInv, NEW p \in Process, NEW k \in Block, BgetHit(p, k)
  PROVE  UNCHANGED Store!vars
<1>1. PICK b \in Buffer : Take(p, b)
  BY DEF BgetHit, Cached
<1>2. UNCHANGED <<bufVars, ideVars, lockVars>> /\ pc[p] \in {"idle", "use"}
  BY MayReadFacts DEF BgetHit
<1>3. /\ pc'[p] = "lock"
      /\ \A q \in Process \ {p} : pc'[q] = pc[q] /\ hand'[q] = hand[q]
  BY <1>1 DEF Take, IInv, TypeOK
<1>4. Syncing' = Syncing
  BY <1>2, <1>3, OthersKeepSyncing DEF Asking, bufVars
<1> QED  BY <1>2, <1>4, SameLatest, SameOwner DEF Store!vars, bufVars, ideVars, lockVars

(* A recycled buffer held nothing that is not on the disk.                 *)
LEMMA StutterBgetMiss ==
  ASSUME IInv, IInv', NEW p \in Process, NEW k \in Block, BgetMiss(p, k)
  PROVE  UNCHANGED Store!vars
<1>1. PICK b \in Buffer : /\ Unused(b) /\ Take(p, b)
                          /\ blockno' = [blockno EXCEPT ![b] = k]
                          /\ valid' = valid \ {b} /\ dirty' = dirty \ {b}
  BY DEF BgetMiss, Victim, ClearValid
<1>2. /\ pc[p] \in {"idle", "use"} /\ UNCHANGED <<data, disk, holder>>
      /\ \A c \in Buffer : blockno[c] # k
  BY MayReadFacts DEF BgetMiss, Cached, ideVars, lockVars
<1>3. /\ \A q \in Process : b \notin Elements(hand[q])
      /\ holder[b] = Nobody /\ b \notin dirty
  BY <1>1, UnusedFacts
<1>4. /\ blockno \in [Buffer -> Block \cup {NoBlock}] /\ blockno'[b] = k
      /\ \A c \in Buffer \ {b} : blockno'[c] = blockno[c]
      /\ dirty' = dirty
  BY <1>1, <1>3 DEF IInv, TypeOK
<1>5. /\ pc'[p] = "lock"
      /\ \A q \in Process \ {p} : pc'[q] = pc[q] /\ hand'[q] = hand[q]
  BY <1>1 DEF Take, IInv, TypeOK
<1>6. \A q \in Process : pc[q] \in Owning =>
        Current(q) # b /\ Current(q) \in Buffer
  BY <1>3, OwnerFacts
<1>7. Syncing' = Syncing
  <2>1. ASSUME NEW q \in Process
        PROVE  /\ Asking(q)' <=> Asking(q)
               /\ Asking(q) => (blockno[Current(q)])' = blockno[Current(q)]
    <3>1. CASE q = p
      BY <1>2, <1>5, <3>1 DEF Asking
    <3>2. CASE q # p
      <4>1. Current(q)' = Current(q) /\ pc'[q] = pc[q]
        BY <1>5, <3>2 DEF Current
      <4> QED  BY <1>1, <1>4, <1>6, <4>1 DEF Asking, Owning
    <3> QED  BY <3>1, <3>2
  <2> QED  BY <2>1, SameSyncing
<1>8. ASSUME NEW j \in Block PROVE Latest'[j] = Latest[j] /\ Owner'[j] = Owner[j]
  <2>1. CASE j = k
    <3>1. Missed(j)
      BY <1>2, <2>1, MapFacts DEF IInv, Mapping
    <3>2. Found(b)'
      BY <1>4, MapFactsNext DEF IInv, Mapping
    <3>3. Latest'[j] = disk'[j] /\ Owner'[j] = holder'[b]
      BY <1>1, <1>4, <2>1, <3>2 DEF Found
    <3> QED  BY <1>2, <1>3, <3>1, <3>3 DEF Missed
  <2>2. CASE j # k /\ blockno[b] = j
    <3>1. Found(b)
      BY <2>2, MapFacts DEF IInv, Mapping
    <3>2. b \in valid => data[b] = disk[j]
      <4>1. \A q \in Process : ~(pc[q] = "changed" /\ Current(q) = b)
        BY <1>6 DEF Owning
      <4> QED  BY <1>3, <2>2, <4>1 DEF IInv, CleanIsStored
    <3>3. Latest[j] = disk[j] /\ Owner[j] = Nobody
      BY <1>3, <2>2, <3>1, <3>2 DEF Found
    <3>4. \A c \in Buffer : blockno'[c] # j
      BY <1>4, <2>2, BlockAssumption DEF IInv, UniqueBlocks
    <3>5. Missed(j)'
      BY <3>4, MapFactsNext DEF IInv, Mapping
    <3> QED  BY <1>2, <3>3, <3>5 DEF Missed
  <2>3. CASE j # k /\ blockno[b] # j /\ \E c \in Buffer : blockno[c] = j
    <3>1. PICK c \in Buffer : blockno[c] = j
      BY <2>3
    <3>2. c # b /\ blockno'[c] = j /\ (c \in valid' <=> c \in valid)
      BY <1>1, <1>4, <2>3, <3>1
    <3>3. Found(c) /\ Found(c)'
      BY <3>1, <3>2, MapFacts, MapFactsNext DEF IInv, Mapping
    <3> QED  BY <1>2, <3>1, <3>2, <3>3 DEF Found
  <2>4. CASE \A c \in Buffer : blockno[c] # j
    <3>1. CASE j = k
      BY <2>1, <3>1
    <3>2. CASE j # k
      <4>1. \A c \in Buffer : blockno'[c] # j
        BY <1>4, <2>4, <3>2
      <4>2. Missed(j) /\ Missed(j)'
        BY <2>4, <4>1, MapFacts, MapFactsNext DEF IInv, Mapping
      <4> QED  BY <1>2, <4>2 DEF Missed
    <3> QED  BY <3>1, <3>2
  <2> QED  BY <2>1, <2>2, <2>3, <2>4
<1>9. Latest' = Latest /\ Owner' = Owner
  BY <1>8 DEF Latest, Owner
<1> QED  BY <1>2, <1>7, <1>9 DEF Store!vars

LEMMA StutterBgetPanics ==
  ASSUME IInv, NEW p \in Process, NEW k \in Block, BgetPanics(p, k)
  PROVE  UNCHANGED Store!vars
<1>1. /\ pc[p] \in {"idle", "use"} /\ pc'[p] = "panic"
      /\ \A q \in Process \ {p} : pc'[q] = pc[q] /\ hand'[q] = hand[q]
  BY MayReadFacts DEF BgetPanics, IInv, TypeOK
<1>2. UNCHANGED <<bufVars, ideVars, lockVars>>
  BY DEF BgetPanics
<1>3. Syncing' = Syncing
  BY <1>1, <1>2, OthersKeepSyncing DEF Asking, bufVars
<1> QED  BY <1>2, <1>3, SameLatest, SameOwner DEF Store!vars, bufVars, ideVars, lockVars

LEMMA StutterBrelsePut ==
  ASSUME IInv, NEW p \in Process, BrelsePut(p)
  PROVE  UNCHANGED Store!vars
<1>1. /\ pc[p] = "put" /\ pc'[p] \in {"use", "idle"}
      /\ \A q \in Process \ {p} : pc'[q] = pc[q] /\ hand'[q] = hand[q]
  BY DEF BrelsePut, IInv, TypeOK
<1>2. UNCHANGED <<bufVars, ideVars, lockVars>>
  BY DEF BrelsePut
<1>3. Syncing' = Syncing
  BY <1>1, <1>2, OthersKeepSyncing DEF Asking, bufVars
<1> QED  BY <1>2, <1>3, SameLatest, SameOwner DEF Store!vars, bufVars, ideVars, lockVars

(* A buffer that is read is not valid: nobody waits for it to be written.  *)
LEMMA StutterIderw ==
  ASSUME IInv, NEW p \in Process, Iderw(p)
  PROVE  UNCHANGED Store!vars
<1>1. UNCHANGED <<bufVars, disk, lockVars, hand>>
  BY DEF Iderw, Enqueue
<1>2. \A q \in Process : (Asking(q)' <=> Asking(q)) /\ Current(q)' = Current(q)
  BY <1>1 DEF Iderw, Asking, Current, IInv, TypeOK, Flags, bufVars
<1>3. Syncing' = Syncing
  BY <1>1, <1>2, SameSyncing DEF bufVars
<1> QED  BY <1>1, <1>3, SameLatest, SameOwner DEF Store!vars, bufVars, lockVars

(* A turn of the loop of iderw(), and a wakeup by kill()                   *)
LEMMA StutterAwake ==
  ASSUME IInv, NEW p \in Process, NEW from, NEW to,
         Goto(p, from, to), UNCHANGED <<bufVars, ideVars, refcnt, lru, lockVars, hand>>,
         \/ from = "awake" /\ to = "use" /\ Served(p)
         \/ from = "awake" /\ to = "io" /\ ~Served(p)
         \/ from = "io" /\ to = "awake"
  PROVE  UNCHANGED Store!vars
<1>1. \A q \in Process : (Asking(q)' <=> Asking(q)) /\ Current(q)' = Current(q)
  BY DEF Goto, Asking, Served, Current, IInv, TypeOK, bufVars
<1>2. Syncing' = Syncing
  BY <1>1, SameSyncing DEF bufVars
<1> QED  BY <1>2, SameLatest, SameOwner DEF Store!vars, bufVars, ideVars, lockVars

(* log_write(): the owner of a buffer pins it.                             *)
LEMMA StutterLogWrite ==
  ASSUME IInv, NEW p \in Process, LogWrite(p)
  PROVE  UNCHANGED Store!vars
<1>1. /\ pc[p] = "changed" /\ pc' = [pc EXCEPT ![p] = "use"]
      /\ dirty' = dirty \cup {Current(p)}
      /\ UNCHANGED <<blockno, valid, data, disk, holder, hand>>
  BY DEF LogWrite, Goto, ideVars, lockVars
<1>2. \A q \in Process : q # p /\ pc[q] \in Owning => Current(q) # Current(p)
  BY <1>1, OwnerFacts DEF Owning
<1>3. \A q \in Process : (Asking(q)' <=> Asking(q)) /\ Current(q)' = Current(q)
  BY <1>1, <1>2 DEF Asking, Current, Owning, IInv, TypeOK
<1>4. Syncing' = Syncing
  BY <1>1, <1>3, SameSyncing
<1> QED  BY <1>1, <1>4, SameLatest, SameOwner DEF Store!vars

(* Falling asleep on a lock or being woken up                              *)
LEMMA StutterLocks ==
  ASSUME UNCHANGED <<bufVars, ideVars, holder, procVars>> PROVE UNCHANGED Store!vars
<1>1. Syncing' = Syncing
  BY DEF Syncing, Current, bufVars, procVars
<1> QED  BY <1>1, SameLatest, SameOwner DEF Store!vars, bufVars, ideVars

-----------------------------------------------------------------------------
LEMMA BlocksOfOwners ==
  ASSUME IInv, NEW p \in Process, pc[p] \in Owning
  PROVE  /\ blockno[Current(p)] \in Block
         /\ Owner[blockno[Current(p)]] = p
         /\ Latest[blockno[Current(p)]] =
              IF Current(p) \in valid THEN data[Current(p)] ELSE disk[blockno[Current(p)]]
<1>1. /\ Current(p) \in Buffer /\ blockno[Current(p)] \in Block
      /\ holder[Current(p)] = p
  BY OwnerFacts
<1>2. Found(Current(p))
  BY <1>1, MapFacts DEF IInv, Mapping
<1> QED  BY <1>1, <1>2 DEF Found

(* A change of one buffer's lock is a change of one block's owner.         *)
LEMMA OneOwner ==
  ASSUME IInv, IInv', NEW b \in Buffer, blockno[b] \in Block, NEW q,
         blockno' = blockno, holder' = [holder EXCEPT ![b] = q]
  PROVE  Owner' = [Owner EXCEPT ![blockno[b]] = q]
<1>1. ASSUME NEW j \in Block
      PROVE  Owner'[j] = IF j = blockno[b] THEN q ELSE Owner[j]
  <2>1. CASE j = blockno[b]
    <3>1. Found(b)'
      BY <2>1, MapFactsNext DEF IInv, Mapping
    <3> QED  BY <2>1, <3>1 DEF Found, IInv, TypeOK, Locks!TypeOK
  <2>2. CASE j # blockno[b] /\ \E c \in Buffer : blockno[c] = j
    <3>1. PICK c \in Buffer : blockno[c] = j
      BY <2>2
    <3>2. Found(c) /\ Found(c)'
      BY <3>1, MapFacts, MapFactsNext DEF IInv, Mapping
    <3> QED  BY <2>2, <3>1, <3>2 DEF Found, IInv, TypeOK, Locks!TypeOK
  <2>3. CASE \A c \in Buffer : blockno[c] # j
    <3>1. Missed(j) /\ Missed(j)'
      BY <2>3, MapFacts, MapFactsNext DEF IInv, Mapping
    <3> QED  BY <2>3, <3>1 DEF Missed
  <2> QED  BY <2>1, <2>2, <2>3
<1>2. Owner' = [j \in Block |-> Owner'[j]] /\ Owner = [j \in Block |-> Owner[j]]
  BY DEF Owner
<1> QED  BY <1>1, <1>2

LEMMA AcquireLockBuffer ==
  ASSUME IInv, IInv', NEW p \in Process, LockBuffer(p) PROVE Store!Next
<1> DEFINE b == Current(p)
<1>1. /\ pc[p] = "lock" /\ pc'[p] \in {"use", "read"}
      /\ holder[b] = Nobody /\ holder' = [holder EXCEPT ![b] = p]
      /\ UNCHANGED <<bufVars, ideVars, hand>>
      /\ \A q \in Process \ {p} : pc'[q] = pc[q] /\ hand'[q] = hand[q]
  BY DEF LockBuffer, Locks!Take, Locks!Free, IInv, TypeOK
<1>2. b \in Buffer /\ blockno[b] \in Block
  BY <1>1, HandFacts DEF IInv, Hands
<1>3. Found(b)
  BY <1>2, MapFacts DEF IInv, Mapping
<1>4. Syncing' = Syncing
  BY <1>1, OthersKeepSyncing DEF Asking, bufVars
<1>5. Owner' = [Owner EXCEPT ![blockno[b]] = p]
  BY <1>1, <1>2, OneOwner DEF bufVars
<1>6. Store!Acquire(p, blockno[b])
  BY <1>1, <1>3, <1>4, <1>5, SameLatest DEF Store!Acquire, Found, bufVars, ideVars
<1> QED  BY <1>2, <1>6 DEF Store!Next

LEMMA GiveUpBrelse ==
  ASSUME IInv, IInv', NEW p \in Process, Brelse(p) PROVE Store!Next
<1> DEFINE b == Current(p)
<1>1. /\ pc[p] = "use" /\ pc'[p] = "put"
      /\ holder' = [holder EXCEPT ![b] = Nobody]
      /\ UNCHANGED <<bufVars, ideVars, hand>>
      /\ \A q \in Process \ {p} : pc'[q] = pc[q] /\ hand'[q] = hand[q]
  BY DEF Brelse, Goto, Locks!Release, IInv, TypeOK
<1>2. /\ b \in Buffer /\ blockno[b] \in Block /\ Owner[blockno[b]] = p
      /\ blockno[b] \notin Syncing
  BY <1>1, OwnerFacts, BlocksOfOwners, NotSyncing DEF Owning
<1>3. Syncing' = Syncing
  BY <1>1, OthersKeepSyncing DEF Asking, bufVars
<1>4. Owner' = [Owner EXCEPT ![blockno[b]] = Nobody]
  BY <1>1, <1>2, OneOwner DEF bufVars
<1>5. Store!GiveUp(p, blockno[b])
  BY <1>1, <1>2, <1>3, <1>4, SameLatest DEF Store!GiveUp, bufVars, ideVars
<1> QED  BY <1>2, <1>5 DEF Store!Next

LEMMA UpdateModify ==
  ASSUME IInv, IInv', NEW p \in Process, NEW v \in Data, Modify(p, v) PROVE Store!Next
<1>1. PICK b : b = Current(p)
  OBVIOUS
<1>2. /\ pc[p] \in {"use", "changed"} /\ pc'[p] = "changed"
      /\ data' = [data EXCEPT ![b] = v] /\ data \in [Buffer -> Data]
      /\ UNCHANGED <<blockno, valid, dirty, disk, holder, hand>>
      /\ \A q \in Process \ {p} : pc'[q] = pc[q] /\ hand'[q] = hand[q]
  BY <1>1 DEF Modify, ideVars, lockVars, IInv, TypeOK
<1>3. /\ b \in Buffer /\ blockno[b] \in Block /\ Owner[blockno[b]] = p
      /\ blockno[b] \notin Syncing /\ b \in valid
  BY <1>1, <1>2, OwnerFacts, BlocksOfOwners, NotSyncing DEF Owning, IInv, Flags
<1>4. Syncing' = Syncing
  BY <1>2, OthersKeepSyncing DEF Asking
<1>5. Latest' = [Latest EXCEPT ![blockno[b]] = v]
  <2>1. ASSUME NEW j \in Block
        PROVE  Latest'[j] = IF j = blockno[b] THEN v ELSE Latest[j]
    <3>1. CASE j = blockno[b]
      <4>1. Found(b)'
        BY <1>2, <1>3, <3>1, MapFactsNext DEF IInv, Mapping
      <4> QED  BY <1>2, <1>3, <3>1, <4>1 DEF Found
    <3>2. CASE j # blockno[b] /\ \E c \in Buffer : blockno[c] = j
      <4>1. PICK c \in Buffer : blockno[c] = j
        BY <3>2
      <4>2. Found(c) /\ Found(c)' /\ c # b
        BY <1>2, <3>2, <4>1, MapFacts, MapFactsNext DEF IInv, Mapping
      <4> QED  BY <1>2, <3>2, <4>1, <4>2 DEF Found
    <3>3. CASE \A c \in Buffer : blockno[c] # j
      <4>1. Missed(j) /\ Missed(j)'
        BY <1>2, <3>3, MapFacts, MapFactsNext DEF IInv, Mapping
      <4> QED  BY <1>2, <1>3, <3>3, <4>1 DEF Missed
    <3> QED  BY <3>1, <3>2, <3>3
  <2>2. Latest' = [j \in Block |-> Latest'[j]] /\ Latest = [j \in Block |-> Latest[j]]
    BY DEF Latest
  <2> QED  BY <2>1, <2>2
<1>6. Store!Update(p, blockno[b], v)
  BY <1>2, <1>3, <1>4, <1>5, SameOwner DEF Store!Update
<1> QED  BY <1>3, <1>6 DEF Store!Next

LEMMA RequestBwrite ==
  ASSUME IInv, IInv', NEW p \in Process, Bwrite(p) PROVE Store!Next
<1> DEFINE b == Current(p)
<1>1. /\ pc[p] \in {"use", "changed"} /\ pc'[p] = "write"
      /\ dirty' = dirty \cup {b}
      /\ UNCHANGED <<blockno, valid, data, disk, holder, hand>>
      /\ \A q \in Process \ {p} : pc'[q] = pc[q] /\ hand'[q] = hand[q]
  BY DEF Bwrite, ideVars, lockVars, IInv, TypeOK
<1>2. /\ b \in Buffer /\ blockno[b] \in Block /\ Owner[blockno[b]] = p
      /\ blockno[b] \notin Syncing /\ b \in valid
  BY <1>1, OwnerFacts, BlocksOfOwners, NotSyncing DEF Owning, IInv, Flags
<1>3. Asking(p)' /\ ~Asking(p) /\ Current(p)' = b
  BY <1>1, <1>2 DEF Asking, Current
<1>4. \A q \in Process \ {p} : (Asking(q)' <=> Asking(q)) /\ Current(q)' = Current(q)
  <2> SUFFICES ASSUME NEW q \in Process \ {p}
               PROVE  (Asking(q)' <=> Asking(q)) /\ Current(q)' = Current(q)
    OBVIOUS
  <2>1. Current(q)' = Current(q) /\ pc'[q] = pc[q]
    BY <1>1 DEF Current
  <2>2. pc[q] \in Owning => Current(q) # b
    BY <1>1, OwnerFacts DEF Owning
  <2> QED  BY <1>1, <2>1, <2>2 DEF Asking, Owning
<1>5. Syncing' = Syncing \cup {blockno[b]}
  <2>1. Syncing' = {k \in Block : \E q \in Process : Asking(q)' /\ blockno[Current(q)'] = k}
    BY <1>1 DEF Syncing, Asking
  <2>2. Syncing = {k \in Block : \E q \in Process : Asking(q) /\ blockno[Current(q)] = k}
    BY DEF Syncing, Asking
  <2> QED  BY <1>2, <1>3, <1>4, <2>1, <2>2
<1>6. Store!Request(p, blockno[b])
  BY <1>1, <1>2, <1>5, SameLatest, SameOwner DEF Store!Request
<1> QED  BY <1>2, <1>6 DEF Store!Next

(* The interrupt that ends a write stores the block; that of a read brings *)
(* into the buffer what callers see already.                               *)
LEMMA StoredIdeintr ==
  ASSUME IInv, IInv', Ideintr PROVE Store!Next \/ UNCHANGED Store!vars
<1>1. PICK b \in Buffer : Completes(b)
  BY IdeintrFacts
<1> DEFINE k == blockno[b]
<1>2. /\ b \in Elements(queue) /\ k \in Block
      /\ UNCHANGED <<holder, hand, blockno>>
      /\ valid' = valid \cup {b} /\ dirty' = dirty \ {b}
      /\ disk' = IF b \in dirty THEN [disk EXCEPT ![k] = data[b]] ELSE disk
      /\ data' = IF b \in dirty THEN data ELSE [data EXCEPT ![b] = disk[k]]
      /\ \A q \in Process : pc'[q] = IF pc[q] = "io" /\ Current(q) = b THEN "awake" ELSE pc[q]
      /\ data \in [Buffer -> Data] /\ disk \in [Block -> Data]
  BY <1>1 DEF Completes, IInv, TypeOK
<1>3. dirty \subseteq valid /\ (b \in valid <=> b \in dirty)
  BY <1>2 DEF IInv, Flags
<1>4. Owner' = Owner
  BY <1>2, SameOwner
<1>5. Latest' = Latest
  <2>1. ASSUME NEW j \in Block PROVE Latest'[j] = Latest[j]
    <3>1. CASE j = k
      <4>1. Found(b) /\ Found(b)'
        BY <1>2, MapFacts, MapFactsNext DEF IInv, Mapping
      <4>2. Latest[k] = IF b \in valid THEN data[b] ELSE disk[k]
        BY <4>1 DEF Found
      <4>3. Latest'[k] = data'[b]
        BY <1>2, <4>1 DEF Found
      <4> QED  BY <1>2, <1>3, <3>1, <4>2, <4>3
    <3>2. CASE j # k /\ \E c \in Buffer : blockno[c] = j
      <4>1. PICK c \in Buffer : blockno[c] = j
        BY <3>2
      <4>2. Found(c) /\ Found(c)' /\ c # b
        BY <1>2, <3>2, <4>1, MapFacts, MapFactsNext DEF IInv, Mapping
      <4> QED  BY <1>2, <3>2, <4>1, <4>2 DEF Found
    <3>3. CASE \A c \in Buffer : blockno[c] # j
      <4>1. Missed(j) /\ Missed(j)' /\ j # k
        BY <1>2, <3>3, MapFacts, MapFactsNext DEF IInv, Mapping
      <4> QED  BY <1>2, <4>1 DEF Missed
    <3> QED  BY <3>1, <3>2, <3>3
  <2> QED  BY <2>1 DEF Latest
<1>6. \A q \in Process : /\ Current(q)' = Current(q)
                         /\ Asking(q)' <=> Asking(q) /\ Current(q) # b
  BY <1>2, <1>3 DEF Asking, Current
<1>7. CASE b \notin dirty
  <2>1. \A q \in Process : Asking(q)' <=> Asking(q)
    BY <1>6, <1>7 DEF Asking
  <2>2. Syncing' = Syncing
    BY <1>2, <1>6, <2>1, SameSyncing
  <2> QED  BY <1>2, <1>4, <1>5, <1>7, <2>2 DEF Store!vars
<1>8. CASE b \in dirty
  <2>1. PICK p \in Process : Asking(p) /\ Current(p) = b
    BY <1>2, <1>3, <1>8 DEF IInv, QueuedAsked, Asking
  <2>2. k \in Syncing
    BY <1>2, <2>1 DEF Syncing, Asking
  <2>3. \A q \in Process : Asking(q) /\ blockno[Current(q)] = k => Current(q) = b
    <3>1. \A q \in Process : Asking(q) => Current(q) \in Buffer
      BY OwnerFacts DEF Asking, Owning
    <3> QED  BY <1>2, <3>1, BlockAssumption DEF IInv, UniqueBlocks
  <2>4. Syncing' = Syncing \ {k}
    <3>1. Syncing' = {j \in Block : \E q \in Process : Asking(q)' /\ blockno[Current(q)'] = j}
      BY <1>2 DEF Syncing, Asking
    <3>2. Syncing = {j \in Block : \E q \in Process : Asking(q) /\ blockno[Current(q)] = j}
      BY DEF Syncing, Asking
    <3> QED  BY <1>6, <2>3, <3>1, <3>2
  <2>5. Latest[k] = data[b]
    <3>1. Found(b)
      BY <1>2, MapFacts DEF IInv, Mapping
    <3> QED  BY <1>3, <1>8, <3>1 DEF Found
  <2>6. Store!Stored(k)
    BY <1>2, <1>4, <1>5, <1>8, <2>2, <2>4, <2>5 DEF Store!Stored
  <2> QED  BY <1>2, <2>6 DEF Store!Next
<1> QED  BY <1>7, <1>8

-----------------------------------------------------------------------------
LEMMA StoreNext ==
  IInv /\ IInv' /\ [Next]_vars => [Store!Next]_(Store!vars)
<1> SUFFICES ASSUME IInv, IInv', [Next]_vars PROVE [Store!Next]_(Store!vars)
  OBVIOUS
<1>1. ASSUME NEW p \in Process, Bget(p) PROVE UNCHANGED Store!vars
  BY <1>1, StutterBgetHit, StutterBgetMiss, StutterBgetPanics DEF Bget
<1>2. ASSUME NEW p \in Process, Wait(p) PROVE [Store!Next]_(Store!vars)
  <2>1. CASE IderwReturns(p)
    BY <2>1, StutterAwake DEF IderwReturns
  <2>2. CASE IderwSleeps(p)
    BY <2>2, StutterAwake DEF IderwSleeps
  <2>3. CASE SleepOnBuffer(p)
    BY <2>3, StutterLocks DEF SleepOnBuffer, Locks!Sleep
  <2> QED  BY <1>2, <2>1, <2>2, <2>3, AcquireLockBuffer, StutterIderw DEF Wait
<1>3. ASSUME NEW p \in Process, Use(p) PROVE [Store!Next]_(Store!vars)
  BY <1>3, StutterLogWrite, RequestBwrite, GiveUpBrelse, UpdateModify DEF Use
<1>4. ASSUME NEW p \in Process, KillWakes(p) PROVE UNCHANGED Store!vars
  <2>1. CASE Goto(p, "io", "awake") /\ UNCHANGED <<bufVars, ideVars, refcnt, lru, lockVars, hand>>
    BY <2>1, StutterAwake
  <2>2. CASE Locks!Rouse(p) /\ UNCHANGED <<bufVars, ideVars, refcnt, lru, procVars>>
    BY <2>2, StutterLocks DEF Locks!Rouse
  <2> QED  BY <1>4, <2>1, <2>2 DEF KillWakes
<1>5. CASE UNCHANGED vars
  BY <1>5, StutterLocks DEF vars, lockVars
<1> QED  BY <1>1, <1>2, <1>3, <1>4, <1>5, StutterBrelsePut, StoredIdeintr DEF Next

(* The cache and the driver are a store of blocks with one owner each, in  *)
(* which what bwrite() has returned for is on the disk and nothing else    *)
(* gets there: what the log takes for granted.                             *)
THEOREM CacheIsStore == Spec => BlockStoreSpec
<1>1. IInv /\ IInv' /\ [Next]_vars => [Store!Next]_(Store!vars)
  BY StoreNext
<1> QED  BY <1>1, StoreInit, Invariance, PTL DEF Spec, BlockStoreSpec, Store!Spec
=============================================================================
