------------------------- MODULE SharedQueueProofs -------------------------
(***************************************************************************)
(* What TLAPS proves of SharedQueue, for every finite set of threads,      *)
(* every set of elements and every capacity: its safety invariants, that   *)
(* a destruction only goes forward, and that the ring, the mutex and the   *)
(* wait loops of shared_queue.c implement the first-in first-out channel   *)
(* of BoundedFifo.                                                         *)
(***************************************************************************)
EXTENDS SharedQueue, FiniteSetTheorems, SequenceTheorems, TLAPS

\* While the queue is being destroyed every thread is either out of it or in
\* a wait loop: no call started after destroy_shared_queue did.
QuietDestroy ==
  pc[Main] # "running" => \A t \in Threads : pc[t] \in Waits \cup {"idle"}

\* By the time the destroyer drains the queue it has set exit_state.
DrainAfterExit ==
  pc[Main] \in {"drain", "free", "freed"} => exit_state

\* The inductive invariant.
IInv == /\ TypeOK
        /\ RingConsistent
        /\ SingleOwner
        /\ WaitingCounts
        /\ NoMissedWakeup
        /\ NoUseAfterFree
        /\ QuietDestroy
        /\ DrainAfterExit

-----------------------------------------------------------------------------
(* The ring                                                                *)

LEMMA AdvanceType ==
  ASSUME NEW i \in Index
  PROVE  Advance(i) \in Index
BY QueueAssumption DEF Index, Advance

\* A push leaves the ring consistent, one element longer.
LEMMA PushElRing ==
  ASSUME TypeOK, RingConsistent, size < Capacity,
         NEW el \in Elements, PushEl(el)
  PROVE  /\ RingConsistent'
         /\ slots' \in [Index -> Elements \cup {NULL}]
         /\ head' \in Index /\ tail' \in Index /\ size' \in 0 .. Capacity
         /\ slots[tail] = NULL
<1>1. /\ slots' \in [Index -> Elements \cup {NULL}]
      /\ head' \in Index /\ tail' \in Index /\ size' \in 0 .. Capacity
  BY QueueAssumption, AdvanceType DEF TypeOK, PushEl, Index
<1>2. tail' = SlotAt(size)'
  BY QueueAssumption DEF TypeOK, PushEl, RingConsistent, SlotAt, Advance, Index
<1>3. ASSUME NEW i \in Index
      PROVE  (slots[i] # NULL <=> Offset(i) < size)'
  <2>1. CASE i = tail
    <3>1. slots'[i] = el /\ el # NULL
      BY <2>1, QueueAssumption DEF TypeOK, PushEl
    <3>2. Offset(i)' = size
      BY <2>1, QueueAssumption DEF TypeOK, PushEl, RingConsistent, SlotAt, Offset, Index
    <3>3. size' = size + 1 /\ size \in Nat
      BY DEF TypeOK, PushEl
    <3>4. QED BY <3>1, <3>2, <3>3
  <2>2. CASE i # tail
    <3>1. slots'[i] = slots[i]
      BY <2>2 DEF TypeOK, PushEl
    <3>2. Offset(i)' = Offset(i) /\ Offset(i) # size
      BY <2>2, QueueAssumption DEF TypeOK, PushEl, RingConsistent, SlotAt, Offset, Index
    <3>3. size' = size + 1 /\ size \in Nat /\ Offset(i) \in Int
      BY QueueAssumption DEF TypeOK, PushEl, Offset, Index
    <3>4. slots[i] # NULL <=> Offset(i) < size
      BY DEF RingConsistent
    <3>5. QED BY <3>1, <3>2, <3>3, <3>4
  <2>3. QED BY <2>1, <2>2
<1>4. slots[tail] = NULL
  <2>1. tail \in Index /\ ~(Offset(tail) < size)
    BY QueueAssumption DEF TypeOK, RingConsistent, SlotAt, Offset, Index
  <2>2. QED BY <2>1 DEF RingConsistent
<1>5. QED BY <1>1, <1>2, <1>3, <1>4 DEF RingConsistent

\* A pop leaves the ring consistent, one element shorter.
LEMMA PopElRing ==
  ASSUME TypeOK, RingConsistent, size # 0, PopEl
  PROVE  /\ RingConsistent'
         /\ slots' \in [Index -> Elements \cup {NULL}]
         /\ head' \in Index /\ tail' \in Index /\ size' \in 0 .. Capacity
         /\ Front \in Elements
<1>1. /\ slots' \in [Index -> Elements \cup {NULL}]
      /\ head' \in Index /\ tail' \in Index /\ size' \in 0 .. Capacity
  BY QueueAssumption, AdvanceType DEF TypeOK, PopEl, Index
<1>2. tail' = SlotAt(size)'
  BY QueueAssumption DEF TypeOK, PopEl, RingConsistent, SlotAt, Advance, Index
<1>3. ASSUME NEW i \in Index
      PROVE  (slots[i] # NULL <=> Offset(i) < size)'
  <2>1. CASE i = head
    <3>1. slots'[i] = NULL
      BY <2>1 DEF TypeOK, PopEl
    <3>2. Offset(i)' = Capacity - 1
      BY <2>1, QueueAssumption DEF TypeOK, PopEl, Advance, Offset, Index
    <3>3. size' = size - 1 /\ size \in 0 .. Capacity
      BY DEF TypeOK, PopEl
    <3>4. QED BY <3>1, <3>2, <3>3, QueueAssumption
  <2>2. CASE i # head
    <3>1. slots'[i] = slots[i]
      BY <2>2 DEF TypeOK, PopEl
    <3>2. Offset(i)' = Offset(i) - 1
      BY <2>2, QueueAssumption DEF TypeOK, PopEl, Advance, Offset, Index
    <3>3. size' = size - 1 /\ size \in Nat /\ Offset(i) \in Int
      BY QueueAssumption DEF TypeOK, PopEl, Offset, Index
    <3>4. slots[i] # NULL <=> Offset(i) < size
      BY DEF RingConsistent
    <3>5. QED BY <3>1, <3>2, <3>3, <3>4
  <2>3. QED BY <2>1, <2>2
<1>4. Front \in Elements
  <2>1. head \in Index /\ Offset(head) < size
    BY QueueAssumption DEF TypeOK, Offset, Index
  <2>2. QED BY <2>1 DEF RingConsistent, TypeOK, Front
<1>5. QED BY <1>1, <1>2, <1>3, <1>4 DEF RingConsistent

-----------------------------------------------------------------------------
(* The count of waiting threads                                            *)

LEMMA WaitLoopFinite == IsFiniteSet(WaitLoop) /\ Cardinality(WaitLoop) \in Nat
<1>1. WaitLoop \in SUBSET Threads
  BY DEF WaitLoop
<1>2. QED BY <1>1, QueueAssumption, FS_Subset, FS_CardinalityType

\* A thread that goes to sleep is counted, once.
LEMMA CountJoin ==
  ASSUME TypeOK, WaitingCounts, NEW t \in Threads, NEW point \in Waits,
         pc[t] \in {"push", "pop"} \cup Waits,
         Goto(t, point), waiting' = Entered(t)
  PROVE  WaitingCounts' /\ waiting' \in Nat
<1>1. WaitLoop' = WaitLoop \cup {t}
  BY DEF TypeOK, Goto, WaitLoop, Procs
<1>2. t \in WaitLoop <=> pc[t] \in Waits
  BY DEF WaitLoop
<1>3. Cardinality(WaitLoop') = Cardinality(WaitLoop) + (IF t \in WaitLoop THEN 0 ELSE 1)
  BY <1>1, WaitLoopFinite, FS_AddElement
<1>4. QED BY <1>2, <1>3, WaitLoopFinite DEF WaitingCounts, Entered, Waits

\* A thread that leaves a blocking call is not counted any more.
LEMMA CountLeave ==
  ASSUME TypeOK, WaitingCounts, NEW t \in Threads,
         pc[t] \in {"push", "pop"} \cup Waits,
         Goto(t, "idle"), waiting' = Left(t)
  PROVE  WaitingCounts' /\ waiting' \in Nat
<1>1. WaitLoop' = WaitLoop \ {t}
  BY DEF TypeOK, Goto, WaitLoop, Procs, Waits
<1>2. t \in WaitLoop <=> pc[t] \in Waits
  BY DEF WaitLoop
<1>3. /\ IsFiniteSet(WaitLoop \ {t})
      /\ Cardinality(WaitLoop \ {t}) = IF t \in WaitLoop THEN Cardinality(WaitLoop) - 1
                                       ELSE Cardinality(WaitLoop)
  BY WaitLoopFinite, FS_RemoveElement
<1>4. Cardinality(WaitLoop \ {t}) \in Nat
  BY <1>3, FS_CardinalityType
<1>5. waiting' = IF t \in WaitLoop THEN waiting - 1 ELSE waiting
  BY <1>2, WaitLoopFinite DEF WaitingCounts, Entered, Left, Waits
<1>6. QED BY <1>1, <1>3, <1>4, <1>5 DEF WaitingCounts

\* A step that moves no thread into or out of a wait loop keeps the count.
LEMMA CountSame ==
  ASSUME TypeOK, WaitingCounts, waiting' = waiting,
         \A t \in Threads : pc'[t] \in Waits <=> pc[t] \in Waits
  PROVE  WaitingCounts' /\ waiting' \in Nat
<1>1. WaitLoop' = WaitLoop
  BY DEF WaitLoop
<1>2. QED BY <1>1 DEF WaitingCounts, TypeOK

\* A destroyer that finds the counter at zero finds nobody in a wait loop.
LEMMA CountZero ==
  ASSUME WaitingCounts
  PROVE  waiting = 0 <=> \A t \in Threads : pc[t] \notin Waits
<1>1. waiting = 0 <=> WaitLoop = {}
  BY WaitLoopFinite, FS_EmptySet DEF WaitingCounts
<1>2. QED BY <1>1 DEF WaitLoop

-----------------------------------------------------------------------------
(* The owner of an element                                                 *)

\* The element of a push that gives up goes back to its caller, and only that.
LEMMA OwnerGiveBack ==
  ASSUME TypeOK, SingleOwner, NEW t \in Threads, Pushing(t),
         GiveBack(t), Goto(t, "idle"), UNCHANGED <<slots, destroyed>>
  PROVE  SingleOwner' /\ arg[t] \in Elements
<1> USE DEF GiveBack, Goto
<1>1. arg[t] \in Elements
  BY DEF TypeOK, SingleOwner
<1>2. \A u \in Threads : arg'[u] = IF u = t THEN NULL ELSE arg[u]
  BY DEF TypeOK
<1>3. \A u \in Threads : (arg[u] # NULL <=> Pushing(u))'
  BY <1>2 DEF TypeOK, SingleOwner, Pushing, Procs
<1>4. ASSUME NEW e \in Elements
      PROVE  InRing(e)' = InRing(e)
  BY DEF InRing
<1>5. \A e \in Elements : e # NULL
  BY QueueAssumption
<1>6. ASSUME NEW e \in Elements
      PROVE  /\ e \in outside' \/ InRing(e)' \/ e \in destroyed' \/ \E u \in Threads : arg'[u] = e
             /\ e \in outside' => ~InRing(e)' /\ \A u \in Threads : arg'[u] # e
             /\ InRing(e)' => \A u \in Threads : arg'[u] # e
             /\ \A u, v \in Threads : arg'[u] = e /\ arg'[v] = e => u = v
             /\ e \in destroyed' => e \notin outside' /\ ~InRing(e)' /\ \A u \in Threads : arg'[u] # e
  <2>1. CASE e = arg[t]
    BY <2>1, <1>1, <1>2, <1>4, <1>5 DEF SingleOwner
  <2>2. CASE e # arg[t]
    BY <2>2, <1>1, <1>2, <1>4, <1>5 DEF SingleOwner
  <2>3. QED BY <2>1, <2>2
<1>7. ASSUME NEW e \in Elements, NEW i \in Index, NEW j \in Index,
             slots'[i] = e, slots'[j] = e
      PROVE  i = j
  BY <1>7 DEF SingleOwner
<1> HIDE DEF GiveBack, Goto
<1>8. SingleOwner'
  BY <1>3, <1>6, <1>7 DEF SingleOwner
<1>9. QED BY <1>1, <1>8

\* The element of a push that succeeds goes into one slot, and only there.
LEMMA OwnerPush ==
  ASSUME TypeOK, SingleOwner, NEW t \in Threads, Pushing(t), slots[tail] = NULL,
         PushEl(arg[t]), HandOver(t), Goto(t, "idle"), UNCHANGED destroyed
  PROVE  SingleOwner'
<1> USE DEF HandOver, Goto, PushEl
<1>1. arg[t] \in Elements
  BY DEF TypeOK, SingleOwner
<1>2. \A u \in Threads : arg'[u] = IF u = t THEN NULL ELSE arg[u]
  BY DEF TypeOK
<1>3. \A u \in Threads : (arg[u] # NULL <=> Pushing(u))'
  BY <1>2 DEF TypeOK, SingleOwner, Pushing, Procs
<1>4. \A i \in Index : slots'[i] = IF i = tail THEN arg[t] ELSE slots[i]
  BY DEF TypeOK
<1>5. tail \in Index /\ \A e \in Elements : e # NULL
  BY QueueAssumption DEF TypeOK
<1>6. \A e \in Elements : InRing(e)' <=> InRing(e) \/ e = arg[t]
  BY <1>4, <1>5 DEF InRing
<1>7. ASSUME NEW e \in Elements, NEW i \in Index, NEW j \in Index,
             slots'[i] = e, slots'[j] = e
      PROVE  i = j
  <2>1. CASE e = arg[t]
    <3>1. ~InRing(e)
      BY <2>1, <1>1 DEF SingleOwner
    <3>2. QED BY <3>1, <1>4, <1>7 DEF InRing
  <2>2. CASE e # arg[t]
    BY <2>2, <1>4, <1>7 DEF SingleOwner
  <2>3. QED BY <2>1, <2>2
<1>8. ASSUME NEW e \in Elements
      PROVE  /\ e \in outside' \/ InRing(e)' \/ e \in destroyed' \/ \E u \in Threads : arg'[u] = e
             /\ e \in outside' => ~InRing(e)' /\ \A u \in Threads : arg'[u] # e
             /\ InRing(e)' => \A u \in Threads : arg'[u] # e
             /\ \A u, v \in Threads : arg'[u] = e /\ arg'[v] = e => u = v
             /\ e \in destroyed' => e \notin outside' /\ ~InRing(e)' /\ \A u \in Threads : arg'[u] # e
  <2>1. CASE e = arg[t]
    BY <2>1, <1>2, <1>5, <1>6 DEF SingleOwner
  <2>2. CASE e # arg[t]
    BY <2>2, <1>2, <1>5, <1>6 DEF SingleOwner
  <2>3. QED BY <2>1, <2>2
<1>9. QED BY <1>3, <1>7, <1>8 DEF SingleOwner

-----------------------------------------------------------------------------
(* The initial state                                                       *)

LEMMA InitIInv == Init => IInv
<1> SUFFICES ASSUME Init PROVE IInv
  OBVIOUS
<1>1. TypeOK
  <2>1. /\ pc \in [Procs -> ThreadPc \cup MainPc]
        /\ pc[Main] \in MainPc /\ \A t \in Threads : pc[t] \in ThreadPc
    BY QueueAssumption DEF Init, Procs, ThreadPc, MainPc
  <2>2. /\ slots \in [Index -> Elements \cup {NULL}]
        /\ head \in Index /\ tail \in Index /\ size \in 0 .. Capacity
    BY QueueAssumption DEF Init, Index
  <2>3. QED BY <2>1, <2>2 DEF Init, TypeOK
<1>2. RingConsistent
  BY QueueAssumption DEF Init, RingConsistent, SlotAt, Offset, Index
<1>3. SingleOwner
  BY QueueAssumption DEF Init, SingleOwner, InRing, Pushing, Procs
<1>4. WaitingCounts
  <2>1. WaitLoop = {}
    BY QueueAssumption DEF Init, WaitLoop, Waits, Procs
  <2>2. QED BY <2>1, FS_EmptySet DEF Init, WaitingCounts
<1>5. NoMissedWakeup /\ NoUseAfterFree /\ QuietDestroy /\ DrainAfterExit
  BY QueueAssumption
  DEF Init, NoMissedWakeup, NoUseAfterFree, QuietDestroy, DrainAfterExit, Procs
<1>6. QED BY <1>1, <1>2, <1>3, <1>4, <1>5 DEF IInv

-----------------------------------------------------------------------------
(* One lemma for each action                                               *)

LEMMA CallPushStep ==
  ASSUME IInv, NEW t \in Threads, NEW e \in Elements,
         NEW point \in {"push", "try_push"}, CallPush(t, e, point)
  PROVE  IInv'
<1> USE QueueAssumption DEF IInv, CallPush, Goto, ring
<1>1. TypeOK'
  BY DEF TypeOK, Procs, ThreadPc, MainPc
<1>2. RingConsistent'
  BY DEF RingConsistent, SlotAt, Offset
<1>3. SingleOwner'
  BY DEF TypeOK, SingleOwner, InRing, Pushing, Procs
<1>4. WaitingCounts'
  BY CountSame DEF TypeOK, Waits, Procs
<1>5. NoMissedWakeup'
  BY DEF TypeOK, NoMissedWakeup, WaitLoop, Waits, Procs
<1>6. NoUseAfterFree' /\ QuietDestroy' /\ DrainAfterExit'
  BY DEF TypeOK, NoUseAfterFree, QuietDestroy, DrainAfterExit, Procs
<1>7. QED BY <1>1, <1>2, <1>3, <1>4, <1>5, <1>6

LEMMA CallPopStep ==
  ASSUME IInv, NEW t \in Threads, NEW point \in {"pop", "try_pop"},
         CallPop(t, point)
  PROVE  IInv'
<1> USE QueueAssumption DEF IInv, CallPop, Goto, ring
<1>1. TypeOK'
  BY DEF TypeOK, Procs, ThreadPc, MainPc
<1>2. RingConsistent'
  BY DEF RingConsistent, SlotAt, Offset
<1>3. SingleOwner'
  BY DEF TypeOK, SingleOwner, InRing, Pushing, Procs
<1>4. WaitingCounts'
  BY CountSame DEF TypeOK, Waits, Procs
<1>5. NoMissedWakeup'
  BY DEF TypeOK, NoMissedWakeup, WaitLoop, Waits, Procs
<1>6. NoUseAfterFree' /\ QuietDestroy' /\ DrainAfterExit'
  BY DEF TypeOK, NoUseAfterFree, QuietDestroy, DrainAfterExit, Procs
<1>7. QED BY <1>1, <1>2, <1>3, <1>4, <1>5, <1>6

LEMMA PushWaitStep ==
  ASSUME IInv, NEW t \in Threads, PushWait(t)
  PROVE  IInv'
<1> USE QueueAssumption DEF IInv, PushWait, Running, ring
<1>1. WaitingCounts' /\ waiting' \in Nat
  BY CountJoin DEF Waits
<1>2. TypeOK'
  BY <1>1 DEF TypeOK, Goto, Sleep, Procs, ThreadPc, MainPc
<1>3. RingConsistent'
  BY DEF RingConsistent, SlotAt, Offset
<1>4. SingleOwner'
  BY DEF TypeOK, SingleOwner, InRing, Pushing, Goto, Procs
<1>5. NoMissedWakeup'
  BY DEF TypeOK, NoMissedWakeup, WaitLoop, Waits, Goto, Sleep, PushBlocked, Exiting, Procs
<1>6. NoUseAfterFree' /\ QuietDestroy' /\ DrainAfterExit'
  BY DEF TypeOK, NoUseAfterFree, QuietDestroy, DrainAfterExit, Waits, Goto, Procs
<1>7. QED BY <1>1, <1>2, <1>3, <1>4, <1>5, <1>6

LEMMA PushRefusedStep ==
  ASSUME IInv, NEW t \in Threads, PushRefused(t)
  PROVE  IInv'
<1> USE QueueAssumption DEF IInv, PushRefused, Running, Broadcast, GiveBack, ring
<1>1. WaitingCounts' /\ waiting' \in Nat
  BY CountLeave DEF Waits
<1>2. arg[t] \in Elements
  BY DEF TypeOK, SingleOwner, Pushing
<1>3. TypeOK'
  BY <1>1, <1>2 DEF TypeOK, Goto, Procs, ThreadPc, MainPc
<1>4. RingConsistent'
  BY DEF RingConsistent, SlotAt, Offset
<1>5. SingleOwner'
  BY OwnerGiveBack DEF Pushing
<1>6. NoMissedWakeup'
  BY DEF NoMissedWakeup
<1>7. NoUseAfterFree' /\ QuietDestroy' /\ DrainAfterExit'
  BY DEF TypeOK, NoUseAfterFree, QuietDestroy, DrainAfterExit, Waits, Goto, Procs
<1>8. QED BY <1>1, <1>3, <1>4, <1>5, <1>6, <1>7

LEMMA PushAcceptedStep ==
  ASSUME IInv, NEW t \in Threads, PushAccepted(t)
  PROVE  IInv'
<1> USE QueueAssumption DEF IInv, PushAccepted, Running, Broadcast, HandOver
<1>1. WaitingCounts' /\ waiting' \in Nat
  BY CountLeave DEF Waits
<1>2. arg[t] \in Elements /\ size < Capacity
  BY DEF TypeOK, SingleOwner, Pushing, PushBlocked
<1>3. /\ RingConsistent'
      /\ slots' \in [Index -> Elements \cup {NULL}]
      /\ head' \in Index /\ tail' \in Index /\ size' \in 0 .. Capacity
      /\ slots[tail] = NULL
  BY <1>2, PushElRing
<1>4. TypeOK'
  BY <1>1, <1>3 DEF TypeOK, Goto, Procs, ThreadPc, MainPc
<1>5. SingleOwner'
  BY <1>3, OwnerPush DEF Pushing
<1>6. NoMissedWakeup'
  BY DEF NoMissedWakeup
<1>7. NoUseAfterFree' /\ QuietDestroy' /\ DrainAfterExit'
  BY DEF TypeOK, NoUseAfterFree, QuietDestroy, DrainAfterExit, Waits, Goto, Procs
<1>8. QED BY <1>1, <1>3, <1>4, <1>5, <1>6, <1>7

LEMMA TryPushFullStep ==
  ASSUME IInv, NEW t \in Threads, TryPushFull(t)
  PROVE  IInv'
<1> USE QueueAssumption DEF IInv, TryPushFull, Running, GiveBack, ring
<1>1. WaitingCounts'
  BY CountSame DEF TypeOK, Waits, Goto, Procs
<1>2. arg[t] \in Elements
  BY DEF TypeOK, SingleOwner, Pushing
<1>3. TypeOK'
  BY <1>2 DEF TypeOK, Goto, Procs, ThreadPc, MainPc
<1>4. RingConsistent'
  BY DEF RingConsistent, SlotAt, Offset
<1>5. SingleOwner'
  BY OwnerGiveBack DEF Pushing
<1>6. NoMissedWakeup'
  BY DEF TypeOK, NoMissedWakeup, WaitLoop, Waits, Goto, Procs
<1>7. NoUseAfterFree' /\ QuietDestroy' /\ DrainAfterExit'
  BY DEF TypeOK, NoUseAfterFree, QuietDestroy, DrainAfterExit, Waits, Goto, Procs
<1>8. QED BY <1>1, <1>3, <1>4, <1>5, <1>6, <1>7

LEMMA TryPushDoneStep ==
  ASSUME IInv, NEW t \in Threads, TryPushDone(t)
  PROVE  IInv'
<1> USE QueueAssumption DEF IInv, TryPushDone, Running, Broadcast, HandOver
<1>1. WaitingCounts'
  BY CountSame DEF TypeOK, Waits, Goto, Procs
<1>2. arg[t] \in Elements
  BY DEF TypeOK, SingleOwner, Pushing
<1>3. /\ RingConsistent'
      /\ slots' \in [Index -> Elements \cup {NULL}]
      /\ head' \in Index /\ tail' \in Index /\ size' \in 0 .. Capacity
      /\ slots[tail] = NULL
  BY <1>2, PushElRing
<1>4. TypeOK'
  BY <1>3 DEF TypeOK, Goto, Procs, ThreadPc, MainPc
<1>5. SingleOwner'
  BY <1>3, OwnerPush DEF Pushing
<1>6. NoMissedWakeup'
  BY DEF NoMissedWakeup
<1>7. NoUseAfterFree' /\ QuietDestroy' /\ DrainAfterExit'
  BY DEF TypeOK, NoUseAfterFree, QuietDestroy, DrainAfterExit, Waits, Goto, Procs
<1>8. QED BY <1>1, <1>3, <1>4, <1>5, <1>6, <1>7

LEMMA PopWaitStep ==
  ASSUME IInv, NEW t \in Threads, PopWait(t)
  PROVE  IInv'
<1> USE QueueAssumption DEF IInv, PopWait, Running, ring
<1>1. WaitingCounts' /\ waiting' \in Nat
  BY CountJoin DEF Waits
<1>2. TypeOK'
  BY <1>1 DEF TypeOK, Goto, Sleep, Procs, ThreadPc, MainPc
<1>3. RingConsistent'
  BY DEF RingConsistent, SlotAt, Offset
<1>4. SingleOwner'
  BY DEF TypeOK, SingleOwner, InRing, Pushing, Goto, Procs
<1>5. NoMissedWakeup'
  BY DEF TypeOK, NoMissedWakeup, WaitLoop, Waits, Goto, Sleep, PopBlocked, Exiting, Procs
<1>6. NoUseAfterFree' /\ QuietDestroy' /\ DrainAfterExit'
  BY DEF TypeOK, NoUseAfterFree, QuietDestroy, DrainAfterExit, Waits, Goto, Procs
<1>7. QED BY <1>1, <1>2, <1>3, <1>4, <1>5, <1>6

LEMMA PopRefusedStep ==
  ASSUME IInv, NEW t \in Threads, PopRefused(t)
  PROVE  IInv'
<1> USE QueueAssumption DEF IInv, PopRefused, Running, Broadcast, ring
<1>1. WaitingCounts' /\ waiting' \in Nat
  BY CountLeave DEF Waits
<1>2. TypeOK'
  BY <1>1 DEF TypeOK, Goto, Procs, ThreadPc, MainPc
<1>3. RingConsistent'
  BY DEF RingConsistent, SlotAt, Offset
<1>4. SingleOwner'
  BY DEF TypeOK, SingleOwner, InRing, Pushing, Goto, Procs
<1>5. NoMissedWakeup'
  BY DEF NoMissedWakeup
<1>6. NoUseAfterFree' /\ QuietDestroy' /\ DrainAfterExit'
  BY DEF TypeOK, NoUseAfterFree, QuietDestroy, DrainAfterExit, Waits, Goto, Procs
<1>7. QED BY <1>1, <1>2, <1>3, <1>4, <1>5, <1>6

LEMMA PopDoneStep ==
  ASSUME IInv, NEW t \in Threads, PopDone(t)
  PROVE  IInv'
<1> USE QueueAssumption DEF IInv, PopDone, Running, Broadcast, Take
<1>1. WaitingCounts' /\ waiting' \in Nat
  BY CountLeave DEF Waits
<1>2. size # 0
  BY DEF PopBlocked
<1>3. /\ RingConsistent'
      /\ slots' \in [Index -> Elements \cup {NULL}]
      /\ head' \in Index /\ tail' \in Index /\ size' \in 0 .. Capacity
      /\ Front \in Elements
  BY <1>2, PopElRing
<1>4. TypeOK'
  BY <1>1, <1>3 DEF TypeOK, Goto, Procs, ThreadPc, MainPc
<1>5. SingleOwner'
  BY <1>3 DEF PopEl, Front, TypeOK, SingleOwner, InRing, Pushing, Goto, Procs
<1>6. NoMissedWakeup'
  BY DEF NoMissedWakeup
<1>7. NoUseAfterFree' /\ QuietDestroy' /\ DrainAfterExit'
  BY DEF TypeOK, NoUseAfterFree, QuietDestroy, DrainAfterExit, Waits, Goto, Procs
<1>8. QED BY <1>1, <1>3, <1>4, <1>5, <1>6, <1>7

LEMMA TryPopEmptyStep ==
  ASSUME IInv, NEW t \in Threads, TryPopEmpty(t)
  PROVE  IInv'
<1> USE QueueAssumption DEF IInv, TryPopEmpty, Running, ring
<1>1. WaitingCounts'
  BY CountSame DEF TypeOK, Waits, Goto, Procs
<1>2. TypeOK'
  BY DEF TypeOK, Goto, Procs, ThreadPc, MainPc
<1>3. RingConsistent'
  BY DEF RingConsistent, SlotAt, Offset
<1>4. SingleOwner'
  BY DEF TypeOK, SingleOwner, InRing, Pushing, Goto, Procs
<1>5. NoMissedWakeup'
  BY DEF TypeOK, NoMissedWakeup, WaitLoop, Waits, Goto, Procs
<1>6. NoUseAfterFree' /\ QuietDestroy' /\ DrainAfterExit'
  BY DEF TypeOK, NoUseAfterFree, QuietDestroy, DrainAfterExit, Waits, Goto, Procs
<1>7. QED BY <1>1, <1>2, <1>3, <1>4, <1>5, <1>6

LEMMA TryPopDoneStep ==
  ASSUME IInv, NEW t \in Threads, TryPopDone(t)
  PROVE  IInv'
<1> USE QueueAssumption DEF IInv, TryPopDone, Running, Broadcast, Take
<1>1. WaitingCounts'
  BY CountSame DEF TypeOK, Waits, Goto, Procs
<1>2. /\ RingConsistent'
      /\ slots' \in [Index -> Elements \cup {NULL}]
      /\ head' \in Index /\ tail' \in Index /\ size' \in 0 .. Capacity
      /\ Front \in Elements
  BY PopElRing
<1>3. TypeOK'
  BY <1>2 DEF TypeOK, Goto, Procs, ThreadPc, MainPc
<1>4. SingleOwner'
  BY <1>2 DEF PopEl, Front, TypeOK, SingleOwner, InRing, Pushing, Goto, Procs
<1>5. NoMissedWakeup'
  BY DEF NoMissedWakeup
<1>6. NoUseAfterFree' /\ QuietDestroy' /\ DrainAfterExit'
  BY DEF TypeOK, NoUseAfterFree, QuietDestroy, DrainAfterExit, Waits, Goto, Procs
<1>7. QED BY <1>1, <1>2, <1>3, <1>4, <1>5, <1>6

LEMMA DestroyCallStep ==
  ASSUME IInv, DestroyCall
  PROVE  IInv'
<1> USE QueueAssumption DEF IInv, DestroyCall, Goto, ring
<1>1. TypeOK'
  BY DEF TypeOK, Procs, ThreadPc, MainPc
<1>2. RingConsistent'
  BY DEF RingConsistent, SlotAt, Offset
<1>3. SingleOwner'
  BY DEF TypeOK, SingleOwner, InRing, Pushing, Procs
<1>4. WaitingCounts'
  BY CountSame DEF TypeOK, Procs
<1>5. NoMissedWakeup'
  BY DEF TypeOK, NoMissedWakeup, WaitLoop, Procs
<1>6. NoUseAfterFree' /\ QuietDestroy' /\ DrainAfterExit'
  BY DEF TypeOK, NoUseAfterFree, QuietDestroy, DrainAfterExit, Procs
<1>7. QED BY <1>1, <1>2, <1>3, <1>4, <1>5, <1>6

LEMMA DestroyWaitStep ==
  ASSUME IInv, DestroyWait
  PROVE  IInv'
<1> USE QueueAssumption DEF IInv, DestroyWait, Running, Goto, ring
<1>1. TypeOK'
  BY DEF TypeOK, Procs, ThreadPc, MainPc
<1>2. RingConsistent'
  BY DEF RingConsistent, SlotAt, Offset
<1>3. SingleOwner'
  BY DEF TypeOK, SingleOwner, InRing, Pushing, Procs
<1>4. WaitingCounts'
  BY CountSame DEF TypeOK, Procs
<1>5. NoMissedWakeup'
  <2>1. \E t \in Threads : pc[t] \in Waits
    BY CountZero DEF DestroyBlocked
  <2>2. \A t \in Threads : pc'[t] = pc[t]
    BY DEF TypeOK, Procs
  <2>3. WaitLoop' # {}
    BY <2>1, <2>2 DEF WaitLoop
  <2>4. QED BY <2>3 DEF TypeOK, NoMissedWakeup, Procs
<1>6. NoUseAfterFree' /\ QuietDestroy' /\ DrainAfterExit'
  BY DEF TypeOK, NoUseAfterFree, QuietDestroy, DrainAfterExit, Procs
<1>7. QED BY <1>1, <1>2, <1>3, <1>4, <1>5, <1>6

LEMMA DestroyLeaveStep ==
  ASSUME IInv, DestroyLeave
  PROVE  IInv'
<1> USE QueueAssumption DEF IInv, DestroyLeave, Running, Goto, ring
<1>1. TypeOK'
  BY DEF TypeOK, Procs, ThreadPc, MainPc
<1>2. RingConsistent'
  BY DEF RingConsistent, SlotAt, Offset
<1>3. SingleOwner'
  BY DEF TypeOK, SingleOwner, InRing, Pushing, Procs
<1>4. WaitingCounts'
  BY CountSame DEF TypeOK, Procs
<1>5. \A t \in Threads : pc[t] = "idle"
  BY CountZero DEF DestroyBlocked, QuietDestroy
<1>6. NoMissedWakeup'
  BY <1>5 DEF TypeOK, NoMissedWakeup, Waits, Procs
<1>7. NoUseAfterFree' /\ QuietDestroy' /\ DrainAfterExit'
  BY <1>5 DEF TypeOK, NoUseAfterFree, QuietDestroy, DrainAfterExit, Procs
<1>8. QED BY <1>1, <1>2, <1>3, <1>4, <1>6, <1>7

\* The pop of the drain loop finds exit_state set and hands nothing out.
LEMMA DrainStep ==
  ASSUME IInv, Drain
  PROVE  IInv' /\ UNCHANGED <<ring, destroyed>> /\ pc'[Main] = "free"
<1> USE QueueAssumption DEF IInv, Drain, Running, Broadcast, ring
<1>1. UNCHANGED <<ring, destroyed>> /\ Goto(Main, "free")
  BY DEF DrainAfterExit, DrainPop, Exiting
<1>2. TypeOK'
  BY <1>1 DEF TypeOK, Goto, Procs, ThreadPc, MainPc
<1>3. RingConsistent'
  BY <1>1 DEF RingConsistent, SlotAt, Offset
<1>4. SingleOwner'
  BY <1>1 DEF TypeOK, Goto, SingleOwner, InRing, Pushing, Procs
<1>5. WaitingCounts'
  BY <1>1, CountSame DEF TypeOK, Goto, Procs
<1>6. NoMissedWakeup'
  BY DEF NoMissedWakeup
<1>7. NoUseAfterFree' /\ QuietDestroy' /\ DrainAfterExit'
  BY <1>1 DEF TypeOK, Goto, NoUseAfterFree, QuietDestroy, DrainAfterExit, Procs
<1>8. pc'[Main] = "free"
  BY <1>1 DEF TypeOK, Goto, Procs
<1>9. QED BY <1>1, <1>2, <1>3, <1>4, <1>5, <1>6, <1>7, <1>8

LEMMA FreeStep ==
  ASSUME IInv, Free
  PROVE  IInv'
<1> USE QueueAssumption DEF IInv, Free, Running, Goto, ring
<1>1. TypeOK'
  BY DEF TypeOK, Procs, ThreadPc, MainPc
<1>2. RingConsistent'
  BY DEF RingConsistent, SlotAt, Offset
<1>3. SingleOwner'
  BY DEF TypeOK, SingleOwner, InRing, Pushing, Procs
<1>4. WaitingCounts'
  BY CountSame DEF TypeOK, Procs
<1>5. NoMissedWakeup'
  BY DEF TypeOK, NoMissedWakeup, WaitLoop, Procs
<1>6. NoUseAfterFree' /\ QuietDestroy' /\ DrainAfterExit'
  BY DEF TypeOK, NoUseAfterFree, QuietDestroy, DrainAfterExit, Procs
<1>7. QED BY <1>1, <1>2, <1>3, <1>4, <1>5, <1>6

LEMMA ExternalExitStep ==
  ASSUME IInv, ExternalExit
  PROVE  IInv'
<1> USE DEF IInv, ExternalExit, ring
<1>1. TypeOK'
  BY DEF TypeOK
<1>2. RingConsistent' /\ SingleOwner'
  BY DEF RingConsistent, SlotAt, Offset, SingleOwner, InRing, Pushing
<1>3. WaitingCounts'
  BY CountSame
<1>4. NoMissedWakeup'
  BY DEF NoMissedWakeup, WaitLoop
<1>5. NoUseAfterFree' /\ QuietDestroy' /\ DrainAfterExit'
  BY DEF NoUseAfterFree, QuietDestroy, DrainAfterExit
<1>6. QED BY <1>1, <1>2, <1>3, <1>4, <1>5

LEMMA SpuriousWakeStep ==
  ASSUME IInv, NEW p \in Procs, SpuriousWake(p)
  PROVE  IInv'
<1> USE DEF IInv, SpuriousWake, ring
<1>1. TypeOK'
  BY DEF TypeOK
<1>2. RingConsistent' /\ SingleOwner'
  BY DEF RingConsistent, SlotAt, Offset, SingleOwner, InRing, Pushing
<1>3. WaitingCounts'
  BY CountSame
<1>4. NoMissedWakeup'
  BY DEF NoMissedWakeup, WaitLoop
<1>5. NoUseAfterFree' /\ QuietDestroy' /\ DrainAfterExit'
  BY DEF NoUseAfterFree, QuietDestroy, DrainAfterExit
<1>6. QED BY <1>1, <1>2, <1>3, <1>4, <1>5

LEMMA StutterStep ==
  ASSUME IInv, UNCHANGED vars
  PROVE  IInv'
<1> USE DEF IInv, vars
<1>1. TypeOK' /\ RingConsistent' /\ SingleOwner'
  BY DEF TypeOK, RingConsistent, SlotAt, Offset, SingleOwner, InRing, Pushing
<1>2. WaitingCounts' /\ NoMissedWakeup'
  BY DEF WaitingCounts, NoMissedWakeup, WaitLoop
<1>3. NoUseAfterFree' /\ QuietDestroy' /\ DrainAfterExit'
  BY DEF NoUseAfterFree, QuietDestroy, DrainAfterExit
<1>4. QED BY <1>1, <1>2, <1>3

-----------------------------------------------------------------------------
(* Every step                                                              *)

LEMMA NextIInv == IInv /\ [Next]_vars => IInv'
<1> SUFFICES ASSUME IInv, [Next]_vars PROVE IInv'
  OBVIOUS
<1>1. ASSUME NEW t \in Threads, Call(t)
      PROVE  IInv'
  BY <1>1, CallPushStep, CallPopStep DEF Call
<1>2. ASSUME NEW t \in Threads, Step(t)
      PROVE  IInv'
  <2>1. CASE Push(t)
    BY <2>1, PushWaitStep, PushRefusedStep, PushAcceptedStep DEF Push
  <2>2. CASE Pop(t)
    BY <2>2, PopWaitStep, PopRefusedStep, PopDoneStep DEF Pop
  <2>3. CASE TryPush(t)
    BY <2>3, TryPushFullStep, TryPushDoneStep DEF TryPush
  <2>4. CASE TryPop(t)
    BY <2>4, TryPopEmptyStep, TryPopDoneStep DEF TryPop
  <2>5. QED BY <1>2, <2>1, <2>2, <2>3, <2>4 DEF Step
<1>3. CASE DestroyCall \/ Destroy
  BY <1>3, DestroyCallStep, DestroyWaitStep, DestroyLeaveStep, DrainStep, FreeStep
  DEF Destroy
<1>4. CASE ExternalExit
  BY <1>4, ExternalExitStep
<1>5. CASE \E p \in Procs : SpuriousWake(p)
  BY <1>5, SpuriousWakeStep
<1>6. CASE UNCHANGED vars
  BY <1>6, StutterStep
<1>7. QED BY <1>1, <1>2, <1>3, <1>4, <1>5, <1>6 DEF Next

\* The inductive invariant holds in every state of every behaviour.
THEOREM Inductive == Spec => []IInv
<1>1. Init => IInv
  BY InitIInv
<1>2. IInv /\ [Next]_vars => IInv'
  BY NextIInv
<1>3. QED BY <1>1, <1>2, PTL DEF Spec

\* Every variable of the queue keeps its type: in particular head, tail and
\* size never leave the bounds of the array push_back and pop index.
THEOREM TypeCorrect == Spec => []TypeOK
<1>1. IInv => TypeOK
  BY DEF IInv
<1>2. QED BY <1>1, Inductive, PTL

\* However many times the ring has wrapped around, the occupied slots are the
\* size slots that start at head.
THEOREM RingCorrect == Spec => []RingConsistent
<1>1. IInv => RingConsistent
  BY DEF IInv
<1>2. QED BY <1>1, Inductive, PTL

\* No interleaving of pushes and pops, blocking or not, loses an element,
\* duplicates it or leaves it with two owners.
THEOREM OwnershipCorrect == Spec => []SingleOwner
<1>1. IInv => SingleOwner
  BY DEF IInv
<1>2. QED BY <1>1, Inductive, PTL

\* waiting counts the threads inside the wait loops of push_back and pop.
THEOREM WaitingCorrect == Spec => []WaitingCounts
<1>1. IInv => WaitingCounts
  BY DEF IInv
<1>2. QED BY <1>1, Inductive, PTL

\* A sleeping thread really has nothing to do: one condition variable for
\* three kinds of sleeper, and a broadcast for every change, miss nobody.
THEOREM WakeupCorrect == Spec => []NoMissedWakeup
<1>1. IInv => NoMissedWakeup
  BY DEF IInv
<1>2. QED BY <1>1, Inductive, PTL

\* destroy_shared_queue frees nothing that a blocked thread will touch again.
THEOREM DestructionSafe == Spec => []NoUseAfterFree
<1>1. IInv => NoUseAfterFree
  BY DEF IInv
<1>2. QED BY <1>1, Inductive, PTL

-----------------------------------------------------------------------------
(* A destruction comes to an end                                           *)
(* No step of anybody takes a destruction back: threads only leave, the    *)
(* destroyer only goes forward, and what does neither only puts somebody   *)
(* to sleep or wakes somebody up.                                          *)

\* The points the destroyer has still before it.
DestroyLeft ==
  CASE pc[Main] = "running"      -> 5
    [] pc[Main] = "destroy"      -> 4
    [] pc[Main] = "destroy_wait" -> 3
    [] pc[Main] = "drain"        -> 2
    [] pc[Main] = "free"         -> 1
    [] OTHER                     -> 0

NobodyEnters   == \A t \in Threads : pc'[t] \in {pc[t], "idle"}
SomebodyLeaves == \E t \in Threads : pc[t] # "idle" /\ pc'[t] = "idle"
OnlySleeps     == UNCHANGED <<ring, waiting, pc, arg, outside, destroyed>>

\* Once exit_state is set, nobody falls asleep again in a wait loop.
DestroyOnlyForward ==
  pc[Main] # "running" =>
    /\ NobodyEnters
    /\ exit_state => Threads \cap asleep' \subseteq asleep
    /\ DestroyLeft' <= DestroyLeft
    /\ DestroyLeft' < DestroyLeft \/ SomebodyLeaves \/ OnlySleeps

LEMMA DestroyLeftIs ==
  /\ DestroyLeft \in 0 .. 5
  /\ pc'[Main] = pc[Main] => DestroyLeft' = DestroyLeft
BY DEF DestroyLeft

\* A thread found in a wait loop goes back to sleep there, which exit_state
\* forbids, or goes away.
LEMMA ThreadsOnlyLeave ==
  ASSUME IInv, pc[Main] # "running", NEW t \in Threads, Call(t) \/ Step(t)
  PROVE  DestroyOnlyForward
<1>1. pc[t] \in Waits \cup {"idle"} /\ pc \in [Procs -> ThreadPc \cup MainPc]
  BY DEF IInv, QuietDestroy, TypeOK
<1>2. ~Call(t) /\ ~TryPush(t) /\ ~TryPop(t)
  BY <1>1 DEF Call, CallPush, CallPop, TryPush, TryPop, TryPushFull, TryPushDone,
              TryPopEmpty, TryPopDone, Running, Waits
<1>3. t \in Procs /\ Main \in Procs /\ t # Main
  BY QueueAssumption DEF Procs
<1>4. CASE PushWait(t) \/ PopWait(t)
  <2>1. pc[t] \in Waits /\ ~exit_state
    BY <1>1, <1>4 DEF PushWait, PopWait, Running, PushBlocked, PopBlocked, Exiting, Waits
  <2>2. pc' = pc
    BY <1>1, <1>3, <1>4 DEF PushWait, PopWait, Running, Goto, Waits
  <2>3. OnlySleeps
    BY <1>4, <2>1, <2>2 DEF PushWait, PopWait, Entered, Waits, OnlySleeps, ring
  <2>4. DestroyLeft' = DestroyLeft /\ DestroyLeft \in 0 .. 5
    BY <2>2, DestroyLeftIs
  <2>5. QED BY <2>1, <2>2, <2>3, <2>4 DEF DestroyOnlyForward, NobodyEnters
<1>5. CASE \/ PushRefused(t) \/ PushAccepted(t)
           \/ PopRefused(t) \/ PopDone(t)
  <2>1. pc' = [pc EXCEPT ![t] = "idle"] /\ pc[t] # "idle" /\ asleep' = {}
    BY <1>5 DEF PushRefused, PushAccepted, PopRefused, PopDone, Running, Goto, Broadcast
  <2>2. NobodyEnters /\ SomebodyLeaves /\ pc'[Main] = pc[Main]
    BY <1>1, <1>3, <2>1 DEF NobodyEnters, SomebodyLeaves, Procs
  <2>3. DestroyLeft' = DestroyLeft /\ DestroyLeft \in 0 .. 5
    BY <2>2, DestroyLeftIs
  <2>4. QED BY <2>1, <2>2, <2>3 DEF DestroyOnlyForward
<1>6. QED BY <1>2, <1>4, <1>5 DEF Step, Push, Pop

\* The destroyer sleeps again where it slept, or goes on to its next point.
LEMMA DestroyerForward ==
  ASSUME IInv, pc[Main] # "running", DestroyCall \/ Destroy
  PROVE  DestroyOnlyForward
<1>1. pc \in [Procs -> ThreadPc \cup MainPc] /\ Main \in Procs /\ Main \notin Threads
  BY QueueAssumption DEF IInv, TypeOK, Procs
<1>2. ~DestroyCall
  BY DEF DestroyCall
<1>3. CASE DestroyWait
  <2>1. pc' = [pc EXCEPT ![Main] = "destroy_wait"] /\ pc[Main] \in {"destroy", "destroy_wait"}
    BY <1>3 DEF DestroyWait, Running, Goto
  <2>2. NobodyEnters /\ pc'[Main] = "destroy_wait"
    BY <1>1, <2>1 DEF NobodyEnters, Procs
  <2>3. Threads \cap asleep' = {}
    BY <1>1, <1>3 DEF DestroyWait
  <2>4. CASE pc[Main] = "destroy"
    <3>1. DestroyLeft' < DestroyLeft /\ DestroyLeft \in 0 .. 5 /\ DestroyLeft' \in 0 .. 5
      BY <2>2, <2>4 DEF DestroyLeft
    <3>2. DestroyLeft' <= DestroyLeft
      BY <3>1
    <3>3. QED BY <2>2, <2>3, <3>1, <3>2 DEF DestroyOnlyForward
  <2>5. CASE pc[Main] = "destroy_wait"
    <3>1. pc' = pc
      BY <1>1, <2>1, <2>5
    <3>2. OnlySleeps
      BY <1>3, <3>1 DEF DestroyWait, OnlySleeps
    <3>3. DestroyLeft' = DestroyLeft /\ DestroyLeft \in 0 .. 5
      BY <3>1, DestroyLeftIs
    <3>4. QED BY <2>2, <2>3, <3>2, <3>3 DEF DestroyOnlyForward
  <2>6. QED BY <2>1, <2>4, <2>5
<1>4. CASE DestroyLeave \/ Drain \/ Free
  <2>1. \/ pc[Main] \in {"destroy", "destroy_wait"} /\ Goto(Main, "drain") /\ asleep' = asleep
        \/ pc[Main] = "drain" /\ Goto(Main, "free") /\ asleep' = {}
        \/ pc[Main] = "free" /\ Goto(Main, "freed") /\ asleep' = asleep
    BY <1>4 DEF DestroyLeave, Drain, Free, Running, Broadcast, IInv, DrainAfterExit,
                DrainPop, Exiting
  <2>2. NobodyEnters /\ Threads \cap asleep' \subseteq asleep
    BY <1>1, <2>1 DEF Goto, NobodyEnters, Procs
  <2>3. \/ pc[Main] \in {"destroy", "destroy_wait"} /\ pc'[Main] = "drain"
        \/ pc[Main] = "drain" /\ pc'[Main] = "free"
        \/ pc[Main] = "free" /\ pc'[Main] = "freed"
    BY <1>1, <2>1 DEF Goto
  <2>4. DestroyLeft' < DestroyLeft /\ DestroyLeft \in 0 .. 5 /\ DestroyLeft' \in 0 .. 5
    BY <2>3 DEF DestroyLeft
  <2>5. DestroyLeft' <= DestroyLeft
    BY <2>4
  <2>6. QED BY <2>2, <2>4, <2>5 DEF DestroyOnlyForward
<1>5. QED BY <1>2, <1>3, <1>4 DEF Destroy

\* Once destroy_shared_queue has been called, no step of any thread, of the
\* destroyer or of what lies outside takes the destruction back.  It is what
\* DestroyCompletes rests on: the threads inside and the points ahead are
\* finitely many, and after exit_state a thread woken is not put to sleep.
THEOREM DestructionMovesOn == Spec => [][DestroyOnlyForward]_vars
<1>1. ASSUME IInv, Next PROVE DestroyOnlyForward
  <2> SUFFICES ASSUME pc[Main] # "running" PROVE DestroyOnlyForward
    BY DEF DestroyOnlyForward
  <2>1. CASE \E t \in Threads : Call(t) \/ Step(t)
    BY <1>1, <2>1, ThreadsOnlyLeave
  <2>2. CASE DestroyCall \/ Destroy
    BY <1>1, <2>2, DestroyerForward
  <2>3. CASE ExternalExit \/ \E p \in Procs : SpuriousWake(p)
    <3>1. OnlySleeps /\ pc' = pc /\ asleep' \subseteq asleep
      BY <2>3 DEF ExternalExit, SpuriousWake, OnlySleeps
    <3>2. DestroyLeft' = DestroyLeft /\ DestroyLeft \in 0 .. 5
      BY <3>1, DestroyLeftIs
    <3>3. QED BY <3>1, <3>2 DEF DestroyOnlyForward, NobodyEnters
  <2>4. QED BY <1>1, <2>1, <2>2, <2>3 DEF Next
<1>2. IInv /\ [Next]_vars => [DestroyOnlyForward]_vars
  BY <1>1
<1>3. QED BY <1>2, Inductive, PTL DEF Spec

-----------------------------------------------------------------------------
(* The channel it implements: the mapping                                  *)

\* The queue has not been freed yet.
Alive == pc[Main] # "freed"

\* The contents of a living queue are a sequence of elements, oldest first.
ContentsOK ==
  /\ Contents \in Seq(Elements) /\ Len(Contents) = size
  /\ \A k \in 1 .. size : Contents[k] = slots[SlotAt(k - 1)]

LEMMA ContentsType == IInv /\ Alive => ContentsOK
<1> SUFFICES ASSUME IInv, Alive PROVE ContentsOK
  OBVIOUS
<1> USE DEF IInv
<1>1. Contents = [k \in 1 .. size |-> slots[SlotAt(k - 1)]]
  BY DEF Contents, Alive
<1>2. ASSUME NEW k \in 1 .. size
      PROVE  slots[SlotAt(k - 1)] \in Elements
  <2>1. SlotAt(k - 1) \in Index /\ Offset(SlotAt(k - 1)) = k - 1 /\ k - 1 < size
    BY QueueAssumption DEF TypeOK, SlotAt, Offset, Index
  <2>2. QED BY <2>1 DEF RingConsistent, TypeOK
<1>3. size \in Nat
  BY DEF TypeOK
<1>4. QED BY <1>1, <1>2, <1>3 DEF ContentsOK

\* The same of the state a step leads to.
LEMMA ContentsTypePrime == (IInv /\ Alive => ContentsOK)'
BY ContentsType, PTL

\* A push appends to the contents.
LEMMA PushAppends ==
  ASSUME IInv, IInv', Alive, Alive', size < Capacity,
         NEW e \in Elements, PushEl(e)
  PROVE  Contents' = Append(Contents, e) /\ Len(Contents) < Capacity
<1> USE DEF IInv
<1>1. /\ Contents \in Seq(Elements) /\ Len(Contents) = size
      /\ \A k \in 1 .. size : Contents[k] = slots[SlotAt(k - 1)]
  BY ContentsType DEF ContentsOK
<1>2. /\ Contents' \in Seq(Elements) /\ Len(Contents') = size + 1
      /\ \A k \in 1 .. size + 1 : Contents'[k] = slots'[SlotAt(k - 1)]
  <2>1. /\ Contents' \in Seq(Elements) /\ Len(Contents)' = size'
        /\ \A k \in 1 .. size' : Contents'[k] = slots'[SlotAt(k - 1)']
    BY ContentsTypePrime DEF ContentsOK
  <2>2. \A k : SlotAt(k)' = SlotAt(k)
    BY DEF PushEl, SlotAt
  <2>3. QED BY <2>1, <2>2 DEF PushEl
<1>3. size \in Nat /\ tail = SlotAt(size)
  BY DEF TypeOK, RingConsistent
<1>4. ASSUME NEW k \in 1 .. size + 1
      PROVE  Contents'[k] = Append(Contents, e)[k]
  <2>1. CASE k = size + 1
    BY <1>1, <1>2, <1>3, <2>1 DEF PushEl, TypeOK
  <2>2. CASE k # size + 1
    <3>1. k \in 1 .. size /\ SlotAt(k - 1) # tail
      BY <2>2, QueueAssumption DEF TypeOK, RingConsistent, SlotAt, Index
    <3>2. slots'[SlotAt(k - 1)] = slots[SlotAt(k - 1)]
      BY <3>1 DEF PushEl, TypeOK
    <3>3. QED BY <1>1, <1>2, <3>1, <3>2
  <2>3. QED BY <2>1, <2>2
<1>5. Append(Contents, e) \in Seq(Elements) /\ Len(Append(Contents, e)) = size + 1
  BY <1>1
<1>6. QED BY <1>1, <1>2, <1>4, <1>5, SeqEqual

\* A pop takes the head of the contents away.
LEMMA PopTakesHead ==
  ASSUME IInv, IInv', Alive, Alive', size # 0, PopEl
  PROVE  /\ Contents # << >> /\ Head(Contents) = Front
         /\ Contents' = Tail(Contents)
<1> USE DEF IInv
<1>1. /\ Contents \in Seq(Elements) /\ Len(Contents) = size
      /\ \A k \in 1 .. size : Contents[k] = slots[SlotAt(k - 1)]
  BY ContentsType DEF ContentsOK
<1>2. /\ Contents' \in Seq(Elements) /\ Len(Contents') = size - 1
      /\ \A k \in 1 .. size - 1 : Contents'[k] = slots'[SlotAt(k - 1)']
  <2>1. /\ Contents' \in Seq(Elements) /\ Len(Contents)' = size'
        /\ \A k \in 1 .. size' : Contents'[k] = slots'[SlotAt(k - 1)']
    BY ContentsTypePrime DEF ContentsOK
  <2>2. QED BY <2>1 DEF PopEl
<1>3. size \in 1 .. Capacity /\ Contents # << >>
  BY <1>1 DEF TypeOK
<1>4. Head(Contents) = Front
  <2>1. SlotAt(0) = head
    BY QueueAssumption DEF TypeOK, SlotAt, Index
  <2>2. QED BY <1>1, <1>3, <2>1 DEF Front
<1>5. /\ Tail(Contents) \in Seq(Elements) /\ Len(Tail(Contents)) = size - 1
      /\ \A k \in 1 .. size - 1 : Tail(Contents)[k] = Contents[k + 1]
  BY <1>1, <1>3, HeadTailProperties
<1>6. ASSUME NEW k \in 1 .. size - 1
      PROVE  Contents'[k] = Tail(Contents)[k]
  <2>1. SlotAt(k - 1)' = SlotAt(k) /\ SlotAt(k) # head
    BY <1>3, QueueAssumption DEF TypeOK, PopEl, Advance, SlotAt, Index
  <2>2. slots'[SlotAt(k)] = slots[SlotAt(k)]
    BY <2>1 DEF PopEl, TypeOK
  <2>3. k + 1 \in 1 .. size /\ (k + 1) - 1 = k
    BY <1>3
  <2>4. QED BY <1>1, <1>2, <1>5, <2>1, <2>2, <2>3
<1>7. QED BY <1>2, <1>3, <1>4, <1>5, <1>6, SeqEqual

-----------------------------------------------------------------------------
(* Steps and stutters                                                      *)

\* A thread in the middle of a call is in a queue that has not been freed.
LEMMA BusyAlive ==
  ASSUME IInv, NEW t \in Threads, pc[t] # "idle"
  PROVE  Alive
BY DEF IInv, NoUseAfterFree, Alive

\* A step that leaves the ring alone and passes an element between a caller
\* and its own push, or not at all, is invisible to the abstract channel.
LEMMA Stutter ==
  ASSUME UNCHANGED ring, Alive' <=> Alive, Held' = Held
  PROVE  UNCHANGED Fifo!vars
<1>1. Contents' = Contents
  BY DEF Contents, SlotAt, ring, Alive
<1>2. QED BY <1>1 DEF Fifo!vars, Alive

\* A caller that starts a push still owns the element.
LEMMA CallPushHeld ==
  ASSUME IInv, NEW t \in Threads, NEW e \in Elements,
         NEW point \in {"push", "try_push"}, CallPush(t, e, point)
  PROVE  Held' = Held
<1>1. arg[t] = NULL /\ e \in outside
  BY DEF IInv, SingleOwner, Pushing, CallPush
<1>2. \A u \in Threads : arg'[u] = IF u = t THEN e ELSE arg[u]
  BY DEF CallPush, IInv, TypeOK
<1>3. outside' = outside \ {e}
  BY DEF CallPush
<1>4. ASSUME NEW x
      PROVE  x \in Held' <=> x \in Held
  BY <1>1, <1>2, <1>3, QueueAssumption DEF Held
<1>5. QED BY <1>4 DEF Held

\* So does one whose push has been refused.
LEMMA GiveBackHeld ==
  ASSUME IInv, NEW t \in Threads, GiveBack(t)
  PROVE  Held' = Held
<1>1. \A u \in Threads : arg'[u] = IF u = t THEN NULL ELSE arg[u]
  BY DEF GiveBack, IInv, TypeOK
<1>2. outside' = outside \cup {arg[t]}
  BY DEF GiveBack
<1>3. ASSUME NEW x
      PROVE  x \in Held' <=> x \in Held
  BY <1>1, <1>2 DEF Held
<1>4. QED BY <1>3 DEF Held

\* A successful push is an Enqueue.
LEMMA PushEnqueues ==
  ASSUME IInv, IInv', NEW t \in Threads, Pushing(t), size < Capacity,
         PushEl(arg[t]), HandOver(t), Alive, Alive'
  PROVE  Fifo!Enqueue(arg[t]) /\ arg[t] \in Elements
<1>1. arg[t] \in Elements
  BY DEF IInv, TypeOK, SingleOwner
<1>2. Contents' = Append(Contents, arg[t]) /\ Len(Contents) < Capacity
  BY <1>1, PushAppends
<1>3. arg[t] \in Held
  BY <1>1, QueueAssumption DEF Held
<1>4. Held' = Held \ {arg[t]}
  <2>1. \A u \in Threads : arg'[u] = IF u = t THEN NULL ELSE arg[u]
    BY DEF HandOver, IInv, TypeOK
  <2>2. outside' = outside /\ arg[t] \notin outside
    BY <1>1 DEF HandOver, IInv, SingleOwner
  <2>3. \A u \in Threads : arg[u] = arg[t] => u = t
    BY <1>1 DEF IInv, SingleOwner
  <2>4. ASSUME NEW x
        PROVE  x \in Held' <=> x \in Held \ {arg[t]}
    BY <2>1, <2>2, <2>3 DEF Held
  <2>5. QED BY <2>4 DEF Held
<1>5. QED BY <1>1, <1>2, <1>3, <1>4 DEF Fifo!Enqueue, Alive

\* A successful pop is a Dequeue.
LEMMA PopDequeues ==
  ASSUME IInv, IInv', size # 0, PopEl, Take, Alive, Alive'
  PROVE  Fifo!Dequeue
<1>1. Contents # << >> /\ Head(Contents) = Front /\ Contents' = Tail(Contents)
  BY PopTakesHead
<1>2. Front # NULL
  BY PopElRing, QueueAssumption DEF IInv
<1>3. Held' = Held \cup {Front}
  <2>1. ASSUME NEW x
        PROVE  x \in Held' <=> x \in Held \cup {Front}
    BY <1>2 DEF Held, Take
  <2>2. QED BY <2>1 DEF Held
<1>4. QED BY <1>1, <1>3 DEF Fifo!Dequeue, Alive

\* Every step of a thread is an Enqueue, a Dequeue or a stutter.
LEMMA ThreadRefines ==
  ASSUME IInv, IInv', NEW t \in Threads, Call(t) \/ Step(t)
  PROVE  [Fifo!Next]_(Fifo!vars)
<1>1. Alive /\ Alive'
  <2>1. CASE Call(t)
    BY <2>1, QueueAssumption
    DEF Call, CallPush, CallPop, Goto, Alive, IInv, TypeOK, Procs
  <2>2. CASE Step(t)
    <3>1. pc[t] # "idle" /\ Goto(t, pc'[t]) /\ pc'[Main] = pc[Main]
      BY <2>2, QueueAssumption
      DEF Step, Push, Pop, TryPush, TryPop, PushWait, PushRefused, PushAccepted,
          TryPushFull, TryPushDone, PopWait, PopRefused, PopDone, TryPopEmpty,
          TryPopDone, Running, Goto, IInv, TypeOK, Procs
    <3>2. QED BY <3>1, BusyAlive DEF Alive
  <2>3. QED BY <2>1, <2>2
<1>2. CASE Call(t)
  <2>1. ASSUME NEW e \in Elements, NEW point \in {"push", "try_push"},
               CallPush(t, e, point)
        PROVE  UNCHANGED Fifo!vars
    BY <1>1, <2>1, CallPushHeld, Stutter DEF CallPush
  <2>2. ASSUME NEW point \in {"pop", "try_pop"}, CallPop(t, point)
        PROVE  UNCHANGED Fifo!vars
    BY <1>1, <2>2, Stutter DEF CallPop, Held
  <2>3. QED BY <1>2, <2>1, <2>2 DEF Call
<1>3. CASE PushWait(t) \/ PopWait(t) \/ PopRefused(t) \/ TryPopEmpty(t)
  BY <1>1, <1>3, Stutter DEF PushWait, PopWait, PopRefused, TryPopEmpty, Held
<1>4. CASE PushRefused(t) \/ TryPushFull(t)
  BY <1>1, <1>4, GiveBackHeld, Stutter DEF PushRefused, TryPushFull
<1>5. CASE PushAccepted(t) \/ TryPushDone(t)
  <2>1. /\ Pushing(t) /\ size < Capacity
        /\ PushEl(arg[t]) /\ HandOver(t)
    BY <1>5, QueueAssumption
    DEF PushAccepted, TryPushDone, PushBlocked, Running, Pushing, IInv, TypeOK
  <2>2. QED BY <1>1, <2>1, PushEnqueues DEF Fifo!Next
<1>6. CASE PopDone(t) \/ TryPopDone(t)
  <2>1. size # 0 /\ PopEl /\ Take
    BY <1>6 DEF PopDone, TryPopDone, PopBlocked
  <2>2. QED BY <1>1, <2>1, PopDequeues DEF Fifo!Next
<1>7. QED
  BY <1>2, <1>3, <1>4, <1>5, <1>6 DEF Step, Push, Pop, TryPush, TryPop

\* Freeing the queue is Retire; nothing else of a destruction is visible.
LEMMA DestroyRefines ==
  ASSUME IInv, IInv', DestroyCall \/ Destroy
  PROVE  [Fifo!Next]_(Fifo!vars)
<1> USE DEF IInv
<1>1. CASE DestroyCall \/ DestroyWait \/ DestroyLeave
  <2>1. Alive /\ Alive'
    BY <1>1 DEF DestroyCall, DestroyWait, DestroyLeave, Running, Goto, Alive,
                TypeOK, Procs
  <2>2. UNCHANGED ring /\ Held' = Held
    BY <1>1 DEF DestroyCall, DestroyWait, DestroyLeave, Held
  <2>3. QED BY <2>1, <2>2, Stutter
<1>2. CASE Drain
  <2>1. UNCHANGED ring /\ pc'[Main] = "free"
    BY <1>2, DrainStep
  <2>2. Alive /\ Alive' /\ Held' = Held
    BY <1>2, <2>1 DEF Drain, Running, Alive, Held
  <2>3. QED BY <2>1, <2>2, Stutter
<1>3. CASE Free
  <2>1. pc[Main] = "free" /\ pc'[Main] = "freed" /\ Held' = Held
    BY <1>3 DEF Free, Running, Goto, TypeOK, Procs, Held
  <2>2. Contents' = << >>
    BY <2>1 DEF Contents
  <2>3. Fifo!Retire
    BY <2>1, <2>2 DEF Fifo!Retire
  <2>4. QED BY <2>3 DEF Fifo!Next
<1>4. QED BY <1>1, <1>2, <1>3 DEF Destroy

LEMMA NextRefines == IInv /\ IInv' /\ [Next]_vars => [Fifo!Next]_(Fifo!vars)
<1> SUFFICES ASSUME IInv, IInv', [Next]_vars
             PROVE  [Fifo!Next]_(Fifo!vars)
  OBVIOUS
<1>1. CASE \E t \in Threads : Call(t) \/ Step(t)
  BY <1>1, ThreadRefines
<1>2. CASE DestroyCall \/ Destroy
  BY <1>2, DestroyRefines
<1>3. CASE ExternalExit \/ (\E p \in Procs : SpuriousWake(p)) \/ UNCHANGED vars
  <2>1. UNCHANGED ring /\ Held' = Held /\ (Alive' <=> Alive)
    BY <1>3 DEF ExternalExit, SpuriousWake, vars, ring, Held, Alive
  <2>2. QED BY <2>1, Stutter
<1>4. QED BY <1>1, <1>2, <1>3 DEF Next

LEMMA InitRefines == Init => Fifo!Init
<1> SUFFICES ASSUME Init PROVE Fifo!Init
  OBVIOUS
<1>1. Contents = << >>
  <2>1. size = 0
    BY DEF Init
  <2>2. \A k \in 1 .. size : FALSE
    BY <2>1
  <2>3. QED BY <2>1, <2>2 DEF Init, Contents
<1>2. Held = Elements
  BY QueueAssumption DEF Init, Held
<1>3. pc[Main] # "freed"
  BY DEF Init, Procs
<1>4. QED BY <1>1, <1>2, <1>3 DEF Fifo!Init

\* shared_queue.c keeps the promise of its header: what is popped is what was
\* pushed, in the order it was pushed, and never more than the capacity waits.
THEOREM QueueImplementsFifo == Spec => ImplementsFifo
<1>1. IInv /\ IInv' /\ [Next]_vars => [Fifo!Next]_(Fifo!vars)
  BY NextRefines
<1>2. Init => Fifo!Init
  BY InitRefines
<1>3. Spec => []IInv
  BY Inductive
<1>4. QED BY <1>1, <1>2, <1>3, PTL DEF Spec, Fifo!Spec, ImplementsFifo
=============================================================================
