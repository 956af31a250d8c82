---------------------------- MODULE SharedQueue ----------------------------
(***************************************************************************)
(* server/src/shared_queue.c: the bounded queue the threads of the server  *)
(* share.  A ring of pointers, one mutex, one condition variable, a count  *)
(* of the threads inside a blocking call, and two flags that make blocking *)
(* calls give up: exit_state, set by destroy_shared_queue, and the flag    *)
(* external_exit_state points to (glob_exit of main.c).                    *)
(*                                                                         *)
(* A call is two kinds of step: the call itself, and each stretch of code  *)
(* that runs with the mutex held (from TM_mutex_lock, or the return of     *)
(* TM_cond_wait, to TM_mutex_unlock or the next TM_cond_wait).  Every      *)
(* field is only touched with the mutex held, and the external flag only   *)
(* ever goes from 0 to 1, so such a stretch is one atomic step.            *)
(***************************************************************************)
EXTENDS Integers, FiniteSets

CONSTANTS Threads,    \* the threads that push and pop
          Main,       \* the thread that destroys the queue
          Elements,   \* the heap objects pushed and popped
          Capacity,   \* cap of make_shared_queue
          NULL        \* the null pointer

\* make_shared_queue refuses cap == 0, push_back asserts el != NULL.
ASSUME QueueAssumption ==
  /\ IsFiniteSet(Threads)
  /\ Main \notin Threads
  /\ Capacity \in Nat \ {0}
  /\ NULL \notin Elements

VARIABLES
  slots, head, tail, size,      \* the ring
  waiting,                      \* threads inside a blocking call
  exit_state, external_exit,    \* the two exit flags
  asleep,                       \* threads sleeping on cond_var
  pc,                           \* where each thread is
  arg,                          \* the element a push has been given
  outside,                      \* the elements the callers own
  destroyed                     \* the elements given to the destructor

ring == <<slots, head, tail, size>>
vars == <<slots, head, tail, size, waiting, exit_state, external_exit,
          asleep, pc, arg, outside, destroyed>>

Procs == Threads \cup {Main}
Index == 0 .. Capacity - 1

ThreadPc == {"idle", "push", "push_wait", "try_push", "pop", "pop_wait", "try_pop"}
MainPc   == {"running", "destroy", "destroy_wait", "drain", "free", "freed"}
Waits    == {"push_wait", "pop_wait"}

-----------------------------------------------------------------------------
(* The ring                                                                *)

\* Mutant: queue_end compared one slot late.
AdvanceLate(i) == IF i = Capacity THEN 0 ELSE i + 1

Advance(i) == IF i + 1 = Capacity THEN 0 ELSE i + 1

PushEl(el) == /\ slots' = [slots EXCEPT ![tail] = el]
              /\ tail' = Advance(tail)
              /\ size' = size + 1
              /\ UNCHANGED head

\* Mutant: the slot is left as it was.
PopElDirty == /\ head' = Advance(head)
              /\ size' = size - 1
              /\ UNCHANGED <<slots, tail>>

PopEl == /\ slots' = [slots EXCEPT ![head] = NULL]
         /\ head' = Advance(head)
         /\ size' = size - 1
         /\ UNCHANGED tail

\* Mutant: the element is read after head has moved on.
FrontLate == slots[Advance(head)]

Front == slots[head]

-----------------------------------------------------------------------------
(* The tests and bookkeeping the blocking calls are made of                *)

Exiting     == exit_state \/ external_exit
PushBlocked == size >= Capacity /\ ~Exiting
PopBlocked  == size = 0 /\ ~Exiting

\* Mutant: waiting++ inside the wait loop.
EnteredAgain(t) == waiting + 1

\* waiting++ happens once, when the call first takes the mutex.
Entered(t) == IF pc[t] \in {"push", "pop"} THEN waiting + 1 ELSE waiting
Left(t)    == Entered(t) - 1

Running(t, points) == pc[t] \in points /\ t \notin asleep
Goto(t, point)     == pc' = [pc EXCEPT ![t] = point]
Broadcast          == asleep' = {}
Sleep(t)           == asleep' = asleep \cup {t}

\* The element of a finished push is the queue's, that of a refused one is
\* still the caller's.
HandOver(t) == arg' = [arg EXCEPT ![t] = NULL] /\ UNCHANGED outside
GiveBack(t) == /\ arg' = [arg EXCEPT ![t] = NULL]
               /\ outside' = outside \cup {arg[t]}
Take        == outside' = outside \cup {Front} /\ UNCHANGED arg

-----------------------------------------------------------------------------
(* make_shared_queue                                                       *)

Init == /\ slots = [i \in Index |-> NULL]
        /\ head = 0
        /\ tail = 0
        /\ size = 0
        /\ waiting = 0
        /\ exit_state = FALSE
        /\ external_exit = FALSE
        /\ asleep = {}
        /\ pc = [p \in Procs |-> IF p = Main THEN "running" ELSE "idle"]
        /\ arg = [t \in Threads |-> NULL]
        /\ outside = Elements
        /\ destroyed = {}

(* The calls.  A caller pushes what it owns, and starts no call on a queue *)
(* that is being destroyed: the contract of shared_queue.h.                *)
CallPush(t, e, point) ==
  /\ pc[Main] = "running" /\ pc[t] = "idle" /\ e \in outside
  /\ Goto(t, point)
  /\ arg' = [arg EXCEPT ![t] = e]
  /\ outside' = outside \ {e}
  /\ UNCHANGED <<ring, waiting, exit_state, external_exit, asleep, destroyed>>

CallPop(t, point) ==
  /\ pc[Main] = "running" /\ pc[t] = "idle"
  /\ Goto(t, point)
  /\ UNCHANGED <<ring, waiting, exit_state, external_exit, asleep, arg,
                 outside, destroyed>>

Call(t) == \/ \E e \in Elements, point \in {"push", "try_push"} : CallPush(t, e, point)
           \/ \E point \in {"pop", "try_pop"} : CallPop(t, point)

(* push_back                                                               *)
PushWait(t) ==
  /\ Running(t, {"push", "push_wait"}) /\ PushBlocked
  /\ waiting' = Entered(t)
  /\ Goto(t, "push_wait") /\ Sleep(t)
  /\ UNCHANGED <<ring, exit_state, external_exit, arg, outside, destroyed>>

\* Mutant: leaves without telling the destroyer.
PushRefusedSilent(t) ==
  /\ Running(t, {"push", "push_wait"}) /\ Exiting
  /\ waiting' = Left(t)
  /\ Goto(t, "idle") /\ GiveBack(t)
  /\ UNCHANGED <<ring, exit_state, external_exit, asleep, destroyed>>

PushRefused(t) ==
  /\ Running(t, {"push", "push_wait"}) /\ Exiting
  /\ waiting' = Left(t)
  /\ Goto(t, "idle") /\ Broadcast /\ GiveBack(t)
  /\ UNCHANGED <<ring, exit_state, external_exit, destroyed>>

\* Mutant: if instead of while, the room is not checked again after a wait.
PushAcceptedUnchecked(t) ==
  /\ \/ Running(t, {"push"}) /\ ~PushBlocked
     \/ Running(t, {"push_wait"})
  /\ ~Exiting
  /\ waiting' = Left(t)
  /\ PushEl(arg[t])
  /\ Goto(t, "idle") /\ Broadcast /\ HandOver(t)
  /\ UNCHANGED <<exit_state, external_exit, destroyed>>

PushAccepted(t) ==
  /\ Running(t, {"push", "push_wait"}) /\ ~PushBlocked /\ ~Exiting
  /\ waiting' = Left(t)
  /\ PushEl(arg[t])
  /\ Goto(t, "idle") /\ Broadcast /\ HandOver(t)
  /\ UNCHANGED <<exit_state, external_exit, destroyed>>

(* try_push_back                                                           *)
TryPushFull(t) ==
  /\ Running(t, {"try_push"}) /\ size >= Capacity
  /\ Goto(t, "idle") /\ GiveBack(t)
  /\ UNCHANGED <<ring, waiting, exit_state, external_exit, asleep, destroyed>>

\* Mutant: consumers are not woken.
TryPushDoneSilent(t) ==
  /\ Running(t, {"try_push"}) /\ size < Capacity
  /\ PushEl(arg[t])
  /\ Goto(t, "idle") /\ HandOver(t)
  /\ UNCHANGED <<waiting, exit_state, external_exit, asleep, destroyed>>

TryPushDone(t) ==
  /\ Running(t, {"try_push"}) /\ size < Capacity
  /\ PushEl(arg[t])
  /\ Goto(t, "idle") /\ Broadcast /\ HandOver(t)
  /\ UNCHANGED <<waiting, exit_state, external_exit, destroyed>>

(* pop                                                                     *)
PopWait(t) ==
  /\ Running(t, {"pop", "pop_wait"}) /\ PopBlocked
  /\ waiting' = Entered(t)
  /\ Goto(t, "pop_wait") /\ Sleep(t)
  /\ UNCHANGED <<ring, exit_state, external_exit, arg, outside, destroyed>>

PopRefused(t) ==
  /\ Running(t, {"pop", "pop_wait"}) /\ Exiting
  /\ waiting' = Left(t)
  /\ Goto(t, "idle") /\ Broadcast
  /\ UNCHANGED <<ring, exit_state, external_exit, arg, outside, destroyed>>

PopDone(t) ==
  /\ Running(t, {"pop", "pop_wait"}) /\ ~PopBlocked /\ ~Exiting
  /\ waiting' = Left(t)
  /\ PopEl
  /\ Goto(t, "idle") /\ Broadcast /\ Take
  /\ UNCHANGED <<exit_state, external_exit, destroyed>>

(* try_pop                                                                 *)
TryPopEmpty(t) ==
  /\ Running(t, {"try_pop"}) /\ size = 0
  /\ Goto(t, "idle")
  /\ UNCHANGED <<ring, waiting, exit_state, external_exit, asleep, arg,
                 outside, destroyed>>

TryPopDone(t) ==
  /\ Running(t, {"try_pop"}) /\ size # 0
  /\ PopEl
  /\ Goto(t, "idle") /\ Broadcast /\ Take
  /\ UNCHANGED <<waiting, exit_state, external_exit, destroyed>>

-----------------------------------------------------------------------------
(* destroy_shared_queue                                                    *)

\* The caller has stopped new operations; threads already blocked may remain.
DestroyCall ==
  /\ pc[Main] = "running"
  /\ \A t \in Threads : pc[t] \in Waits \cup {"idle"}
  /\ Goto(Main, "destroy")
  /\ UNCHANGED <<ring, waiting, exit_state, external_exit, asleep, arg,
                 outside, destroyed>>

\* Mutant: the destroyer waits at most once.
DestroyBlockedOnce == waiting # 0 /\ pc[Main] = "destroy"

DestroyBlocked == waiting # 0

\* while(shq->waiting) : wake everybody, then sleep until somebody leaves.
DestroyWait ==
  /\ Running(Main, {"destroy", "destroy_wait"}) /\ DestroyBlocked
  /\ exit_state' = TRUE
  /\ Goto(Main, "destroy_wait")
  /\ asleep' = {Main}
  /\ UNCHANGED <<ring, waiting, external_exit, arg, outside, destroyed>>

DestroyLeave ==
  /\ Running(Main, {"destroy", "destroy_wait"}) /\ ~DestroyBlocked
  /\ exit_state' = TRUE
  /\ Goto(Main, "drain")
  /\ UNCHANGED <<ring, waiting, external_exit, asleep, arg, outside, destroyed>>

\* What pop returns to the loop that is meant to empty the queue.
DrainPop == IF Exiting THEN NULL ELSE Front

Drain ==
  /\ Running(Main, {"drain"})
  /\ Broadcast
  /\ IF DrainPop = NULL
     THEN Goto(Main, "free") /\ UNCHANGED <<ring, destroyed>>
     ELSE PopEl /\ destroyed' = destroyed \cup {DrainPop} /\ UNCHANGED pc
  /\ UNCHANGED <<waiting, exit_state, external_exit, arg, outside>>

Free ==
  /\ Running(Main, {"free"})
  /\ Goto(Main, "freed")
  /\ UNCHANGED <<ring, waiting, exit_state, external_exit, asleep, arg,
                 outside, destroyed>>

-----------------------------------------------------------------------------
(* What the queue does not control                                         *)

\* glob_exit becomes 1.  Nothing broadcasts cond_var when it does.
ExternalExit ==
  /\ ~external_exit
  /\ external_exit' = TRUE
  /\ UNCHANGED <<ring, waiting, exit_state, asleep, pc, arg, outside, destroyed>>

\* A condition variable may wake a thread that nobody signalled.
SpuriousWake(p) ==
  /\ p \in asleep
  /\ asleep' = asleep \ {p}
  /\ UNCHANGED <<ring, waiting, exit_state, external_exit, pc, arg, outside,
                 destroyed>>

-----------------------------------------------------------------------------

Push(t)    == PushWait(t) \/ PushRefused(t) \/ PushAccepted(t)
Pop(t)     == PopWait(t) \/ PopRefused(t) \/ PopDone(t)
TryPush(t) == TryPushFull(t) \/ TryPushDone(t)
TryPop(t)  == TryPopEmpty(t) \/ TryPopDone(t)

\* The code of one call that runs with the mutex held.
Step(t) == Push(t) \/ Pop(t) \/ TryPush(t) \/ TryPop(t)
Destroy == DestroyWait \/ DestroyLeave \/ Drain \/ Free

Next == \/ \E t \in Threads : Call(t) \/ Step(t)
        \/ DestroyCall \/ Destroy
        \/ ExternalExit
        \/ \E p \in Procs : SpuriousWake(p)

Spec == Init /\ [][Next]_vars

\* A thread that can run and take the mutex eventually does: the operating
\* system schedules it and the mutex starves nobody.  Nobody has to start a
\* call, to set the external flag, or to wake without reason.
Fairness == /\ \A t \in Threads : WF_vars(Step(t))
            /\ WF_vars(Destroy)

FairSpec == Spec /\ Fairness

-----------------------------------------------------------------------------
(* Properties                                                              *)

\* Every variable has its type.
TypeOK ==
  /\ slots \in [Index -> Elements \cup {NULL}]
  /\ head \in Index /\ tail \in Index /\ size \in 0 .. Capacity
  /\ waiting \in Nat
  /\ exit_state \in BOOLEAN /\ external_exit \in BOOLEAN
  /\ asleep \in SUBSET Procs
  /\ pc \in [Procs -> ThreadPc \cup MainPc]
  /\ pc[Main] \in MainPc /\ \A t \in Threads : pc[t] \in ThreadPc
  /\ arg \in [Threads -> Elements \cup {NULL}]
  /\ outside \in SUBSET Elements /\ destroyed \in SUBSET Elements

\* How many steps after head the slot i is, and the slot k steps after head.
Offset(i) == IF i >= head THEN i - head ELSE i - head + Capacity
SlotAt(k) == IF head + k < Capacity THEN head + k ELSE head + k - Capacity

\* Head, tail and size agree, and exactly the slots between head and tail
\* hold an element, however often the two have wrapped around.
RingConsistent ==
  /\ tail = SlotAt(size)
  /\ \A i \in Index : slots[i] # NULL <=> Offset(i) < size

\* Each element has one owner: a caller, a push in progress, one slot of the
\* queue, or the destructor.  No interleaving of accepted, refused and
\* retried pushes and pops duplicates or drops one while the queue lives.
Pushing(t) == pc[t] \in {"push", "push_wait", "try_push"}
InRing(e)  == \E i \in Index : slots[i] = e
SingleOwner ==
  /\ \A t \in Threads : arg[t] # NULL <=> Pushing(t)
  /\ \A e \in Elements :
       /\ e \in outside \/ InRing(e) \/ e \in destroyed \/ \E t \in Threads : arg[t] = e
       /\ e \in outside => ~InRing(e) /\ \A t \in Threads : arg[t] # e
       /\ InRing(e) => \A t \in Threads : arg[t] # e
       /\ \A i, j \in Index : slots[i] = e /\ slots[j] = e => i = j
       /\ \A t, u \in Threads : arg[t] = e /\ arg[u] = e => t = u
       /\ e \in destroyed => e \notin outside /\ ~InRing(e) /\ \A t \in Threads : arg[t] # e

\* The counter destroy_shared_queue trusts is the number of threads that are
\* really inside the wait loop of push_back or pop.
WaitLoop == {t \in Threads : pc[t] \in Waits}
WaitingCounts == waiting = Cardinality(WaitLoop)

\* No missed wake-up: a thread asleep in push_back faces a full queue, one
\* asleep in pop an empty one, neither has been told to leave by a
\* destruction, and a destroyer asleep has somebody left to wait for.
NoMissedWakeup ==
  /\ \A t \in Threads \cap asleep :
       /\ pc[t] \in Waits
       /\ pc[t] = "push_wait" => size = Capacity
       /\ pc[t] = "pop_wait" => size = 0
       /\ ~exit_state
  /\ Main \in asleep => pc[Main] = "destroy_wait" /\ WaitLoop # {}

\* When the mutex and the ring are about to be freed, or have been, no thread
\* is inside a call that would still touch them.
NoUseAfterFree ==
  pc[Main] \in {"drain", "free", "freed"} => \A t \in Threads : pc[t] = "idle"

\* Seen from its callers the queue is a bounded first-in first-out channel.
Contents == IF pc[Main] = "freed" THEN << >>
            ELSE [i \in 1 .. size |-> slots[SlotAt(i - 1)]]
Held     == (outside \cup {arg[t] : t \in Threads}) \ {NULL}

Fifo == INSTANCE BoundedFifo
        WITH contents <- Contents, held <- Held, open <- pc[Main] # "freed"
ImplementsFifo == Fifo!Spec

\* destroy_shared_queue returns: it lets blocked threads go and stops waiting.
DestroyCompletes == pc[Main] = "destroy" ~> pc[Main] = "freed"

-----------------------------------------------------------------------------
(* Statements of the repository the code does not keep                     *)

\* shared_queue.h, destroy_shared_queue: "destroys the queue and the elements
\* inside".
ElementsDestroyed == pc[Main] = "freed" => Held \cup destroyed = Elements
=============================================================================
