---------------------------- MODULE ServerProofs ----------------------------
(***************************************************************************)
(* What TLAPS proves of Server, for any connections, any number of slots   *)
(* and any capacity of the request queue: its safety invariants, and that  *)
(* a shutdown only goes forward.                                           *)
(***************************************************************************)
EXTENDS Server, TLAPS

\* The main thread has a connection in its hands from accept until it is placed.
HandsFull == /\ main \in {"sweep", "place"} => new_connection # NULL
             /\ main \notin {"sweep", "place"} => new_connection = NULL

\* What is not yet accepted has no thread, and what is in a slot has one.
ThreadsMade ==
  /\ \A c \in Conns : conn[c] \in {"away", "backlog"} => thread[c] = "none"
  /\ \A k \in Slots : slots[k] # NULL => thread[slots[k]] # "none"

\* What is left of a communicator that has been destroyed, or has ended.
MadeLeft ==
  /\ \A c \in freed : made[c] \subseteq {"wrapper"}
  /\ \A c \in Conns : thread[c] = "ended" => "wrapper" \notin made[c]

\* How far the joins and the last sweep have come.
Passed(k) == Joined(k) \/ slots[k] \in unjoined
JoinsMade ==
  /\ main = "join" => \A k \in 0 .. i - 1 : Passed(k)
  /\ main = "last_sweep" =>
       \A k \in Slots : Passed(k) /\ (k < i => slots[k] \in unjoined \cup {NULL})

\* The queue is there until the shutdown is over.
FreedLast == queue_freed => main = "done"

\* The inductive invariant.
IInv == /\ TypeOK
        /\ HandsFull
        /\ ThreadsMade
        /\ ConnectionsAccounted
        /\ EachInItsSlot
        /\ NoUseAfterFree
        /\ MadeLeft
        /\ JoinsMade
        /\ AllRemoved
        /\ FreedLast

-----------------------------------------------------------------------------
(* The first state                                                         *)

LEMMA InitIInv == Init => IInv
<1> SUFFICES ASSUME Init PROVE IInv
  OBVIOUS
<1> USE ServerAssumption DEF Init
<1>1. TypeOK
  BY DEF TypeOK, Slots, MainPoints, ThreadPoints
<1>2. HandsFull /\ ThreadsMade /\ ConnectionsAccounted
  BY DEF HandsFull, ThreadsMade, ConnectionsAccounted, InUse, Slots
<1>3. EachInItsSlot /\ NoUseAfterFree /\ MadeLeft
  BY DEF EachInItsSlot, NoUseAfterFree, InUse, MadeLeft
<1>4. JoinsMade /\ AllRemoved /\ FreedLast
  BY DEF JoinsMade, Passed, Joined, AllRemoved, FreedLast
<1>5. QED BY <1>1, <1>2, <1>3, <1>4 DEF IInv

-----------------------------------------------------------------------------
(* The slots and the queue                                                 *)

\* What a slot holds is a thread that has not been destroyed and knows its slot.
LEMMA SlotOwner ==
  ASSUME IInv, NEW k \in Slots, slots[k] # NULL
  PROVE  /\ slots[k] \in Conns /\ thread[slots[k]] # "none"
         /\ slots[k] \notin freed /\ id[slots[k]] = k
<1>1. slots[k] \in Conns /\ thread[slots[k]] # "none"
  BY DEF IInv, TypeOK, ThreadsMade
<1>2. slots[k] \notin freed
  BY DEF IInv, NoUseAfterFree, Range, TypeOK
<1>3. QED BY <1>1, <1>2 DEF IInv, EachInItsSlot

\* A thread that has been created and not destroyed is in a slot.
LEMMA InASlot ==
  ASSUME IInv, NEW c \in Conns, thread[c] # "none", c \notin freed
  PROVE  \E k \in Slots : slots[k] = c
BY DEF IInv, EachInItsSlot

\* What the queue holds are requests.
LEMMA Queued ==
  ASSUME IInv, NEW n \in DOMAIN queue
  PROVE  queue[n].client \in Conns /\ queue[n].communicator_id \in Slots
<1> DEFINE Request == [communicator_id : Slots, client : Conns]
<1>1. queue \in Seq(Request)
  BY DEF IInv, TypeOK
<1>2. queue[n] \in Request
  <2> HIDE DEF Request
  <2>1. QED BY <1>1
<1>3. QED BY <1>2

-----------------------------------------------------------------------------
(* The accept loop                                                         *)

LEMMA LoopHeadStep ==
  ASSUME IInv, LoopHead
  PROVE  IInv'
<1> USE ServerAssumption DEF IInv, LoopHead, links, lives, owned, requests
<1>1. TypeOK' /\ HandsFull' /\ ThreadsMade'
  BY DEF TypeOK, MainPoints, HandsFull, ThreadsMade
<1>2. ConnectionsAccounted' /\ EachInItsSlot' /\ NoUseAfterFree' /\ MadeLeft'
  BY DEF ConnectionsAccounted, EachInItsSlot, NoUseAfterFree, MadeLeft, InUse, Range
<1>3. JoinsMade' /\ AllRemoved' /\ FreedLast'
  BY DEF JoinsMade, Passed, Joined, AllRemoved, FreedLast
<1>4. QED BY <1>1, <1>2, <1>3

LEMMA AcceptStep ==
  ASSUME IInv, NEW c \in Conns, Accept(c)
  PROVE  IInv'
<1> USE ServerAssumption DEF IInv, Accept, lives, owned, requests
<1>1. TypeOK' /\ HandsFull' /\ ThreadsMade'
  BY DEF TypeOK, MainPoints, HandsFull, ThreadsMade
<1>2. ConnectionsAccounted'
  BY DEF ConnectionsAccounted, InUse, TypeOK, HandsFull, ThreadsMade
<1>3. EachInItsSlot' /\ NoUseAfterFree' /\ MadeLeft'
  BY DEF EachInItsSlot, NoUseAfterFree, MadeLeft, InUse, Range
<1>4. JoinsMade' /\ AllRemoved' /\ FreedLast'
  BY DEF JoinsMade, Passed, Joined, AllRemoved, FreedLast
<1>5. QED BY <1>1, <1>2, <1>3, <1>4

LEMMA AcceptFailsStep ==
  ASSUME IInv, AcceptFails
  PROVE  IInv'
<1> USE ServerAssumption DEF IInv, AcceptFails, links, lives, owned, requests
<1>1. TypeOK' /\ HandsFull' /\ ThreadsMade'
  BY DEF TypeOK, MainPoints, HandsFull, ThreadsMade
<1>2. ConnectionsAccounted' /\ EachInItsSlot' /\ NoUseAfterFree' /\ MadeLeft'
  BY DEF ConnectionsAccounted, EachInItsSlot, NoUseAfterFree, MadeLeft, InUse, Range
<1>3. JoinsMade' /\ AllRemoved' /\ FreedLast'
  BY DEF JoinsMade, Passed, Joined, AllRemoved, FreedLast
<1>4. QED BY <1>1, <1>2, <1>3

\* A slot is emptied, and its thread destroyed, only when the thread has set its
\* flag: nothing else loses its slot, and requests of the thread may now be
\* ambiguous, which EachInItsSlot allows.
LEMMA SweepSlotStep ==
  ASSUME IInv, SweepSlot
  PROVE  IInv'
<1> USE ServerAssumption DEF SweepSlot, links, requests
<1>1. i \in Slots /\ main \in {"sweep", "last_sweep"}
  BY DEF IInv, TypeOK, Slots
<1>2. CASE ~Stale
  <2> USE <1>1, <1>2 DEF IInv, owned
  <2>1. TypeOK' /\ HandsFull' /\ ThreadsMade'
    BY DEF TypeOK, Slots, HandsFull, ThreadsMade
  <2>2. ConnectionsAccounted' /\ EachInItsSlot' /\ NoUseAfterFree' /\ MadeLeft'
    BY DEF ConnectionsAccounted, EachInItsSlot, NoUseAfterFree, MadeLeft, InUse, Range
  <2>3. main = "last_sweep" => slots[i] \in unjoined \cup {NULL}
    BY DEF JoinsMade, Passed, Joined, Stale
  <2>4. JoinsMade' /\ AllRemoved' /\ FreedLast'
    BY <2>3 DEF JoinsMade, Passed, Joined, AllRemoved, FreedLast, TypeOK, Slots
  <2>5. QED BY <2>1, <2>2, <2>4
<1>3. CASE Stale
  <2> DEFINE c == slots[i]
  <2>1. c \in Conns /\ thread[c] \in {"exited", "ended"}
    BY <1>3 DEF Stale
  <2>2. c # NULL /\ c \notin freed /\ id[c] = i
    BY <1>1, <2>1, SlotOwner
  <2>3. /\ slots' = [slots EXCEPT ![i] = NULL] /\ freed' = freed \cup {c}
        /\ id' = [id EXCEPT ![c] = NULL]
        /\ made' = [made EXCEPT ![c] = made[c] \ ThreadThings]
        /\ unjoined' = unjoined \ {c} /\ i' = i + 1
        /\ UNCHANGED <<main, new_connection, conn, closes, thread, asleep, queue, queue_freed,
                       glob_exit>>
    BY <1>3
  <2> HIDE DEF SweepSlot
  <2>4. made' \in [Conns -> SUBSET Things] /\ made'[c] \subseteq {"wrapper"}
        /\ ("wrapper" \in made[c] => "wrapper" \in made'[c])
        /\ made'[c] \subseteq made[c]
        /\ \A d \in Conns \ {c} : made'[d] = made[d]
    BY <2>1, <2>3 DEF IInv, TypeOK, Things, ThreadThings, ArgsThings, QueueThings
  <2>5. TypeOK' /\ HandsFull' /\ ThreadsMade'
    <3>1. TypeOK'
      BY <1>1, <2>1, <2>3, <2>4 DEF IInv, TypeOK, Slots
    <3>2. HandsFull' /\ ThreadsMade'
      BY <1>1, <2>1, <2>3 DEF IInv, TypeOK, HandsFull, ThreadsMade
    <3>3. QED BY <3>1, <3>2
  <2>6. ConnectionsAccounted'
    BY <2>1, <2>3, <2>4 DEF IInv, ConnectionsAccounted
  <2>7. EachInItsSlot'
    <3>1. ASSUME NEW d \in Conns, thread[d] # "none", d \notin freed'
          PROVE  id'[d] \in Slots /\ \A k \in Slots : slots'[k] = d <=> k = id'[d]
      BY <1>1, <2>2, <2>3, <3>1 DEF IInv, TypeOK, EachInItsSlot
    <3>2. ASSUME NEW n \in DOMAIN queue
          PROVE  \/ queue[n].client \in freed'
                 \/ slots'[queue[n].communicator_id] = queue[n].client
      BY <2>3, Queued, <3>2 DEF IInv, TypeOK, EachInItsSlot
    <3>3. QED BY <2>3, <3>1, <3>2 DEF IInv, EachInItsSlot
  <2>8. ~queue_freed
    BY <1>1 DEF IInv, FreedLast
  <2>9. NoUseAfterFree'
    <3>1. \A k \in Slots : slots'[k] # c
      BY <1>1, <2>1, <2>2, <2>3, SlotOwner DEF IInv, TypeOK
    <3>2. \A k \in Slots : slots'[k] \in {NULL, slots[k]}
      BY <1>1, <2>3 DEF IInv, TypeOK
    <3>3. DOMAIN slots' = Slots /\ DOMAIN slots = Slots
      BY <2>3 DEF IInv, TypeOK
    <3>4. \A d \in freed : d \notin Range(slots')
      BY <3>2, <3>3 DEF IInv, TypeOK, NoUseAfterFree, Range
    <3>5. c \notin Range(slots')
      BY <3>1, <3>3 DEF Range
    <3>6. \A d \in freed' : thread'[d] \in {"exited", "ended"} /\ d \notin Range(slots')
      BY <2>1, <2>3, <3>4, <3>5 DEF IInv, NoUseAfterFree
    <3>7. \A d \in Conns :
            /\ thread'[d] \in InUse \cup {"returned"} => made'[d] = Things
            /\ thread'[d] = "exited" => "wrapper" \in made'[d]
      BY <2>1, <2>3, <2>4 DEF IInv, NoUseAfterFree, InUse
    <3>8. QED BY <2>3, <2>8, <3>6, <3>7 DEF NoUseAfterFree
  <2>10. MadeLeft'
    BY <2>1, <2>3, <2>4 DEF IInv, TypeOK, MadeLeft
  <2>11. JoinsMade'
    <3>1. \A k \in Slots \ {i} : slots[k] # c
      BY <1>1, <2>2, SlotOwner
    <3>2. slots'[i] = NULL /\ \A k \in Slots \ {i} : slots'[k] = slots[k]
      BY <1>1, <2>3 DEF IInv, TypeOK
    <3>3. main' = "last_sweep" =>
            \A k \in Slots :
              /\ \/ slots'[k] \in {NULL} \cup {d \in Conns : thread'[d] = "ended"}
                 \/ slots'[k] \in unjoined'
              /\ k < i' => slots'[k] \in unjoined' \cup {NULL}
      <4> SUFFICES ASSUME main = "last_sweep", NEW k \in Slots
                   PROVE  /\ \/ slots'[k] \in {NULL} \cup {d \in Conns : thread'[d] = "ended"}
                             \/ slots'[k] \in unjoined'
                          /\ k < i' => slots'[k] \in unjoined' \cup {NULL}
        BY <2>3
      <4>1. CASE k = i
        BY <3>2, <4>1
      <4>2. CASE k # i
        <5>1. slots'[k] = slots[k] /\ slots[k] # c
          BY <3>1, <3>2, <4>2
        <5>2. /\ \/ slots[k] \in {NULL} \cup {d \in Conns : thread[d] = "ended"}
                 \/ slots[k] \in unjoined
              /\ k < i => slots[k] \in unjoined \cup {NULL}
          BY DEF IInv, JoinsMade, Passed, Joined
        <5>3. k < i' => k < i
          BY <1>1, <2>3, <4>2 DEF Slots
        <5>4. QED BY <2>3, <5>1, <5>2, <5>3
      <4>3. QED BY <4>1, <4>2
    <3>4. QED BY <1>1, <2>3, <3>3 DEF JoinsMade, Passed, Joined
  <2>12. AllRemoved' /\ FreedLast'
    BY <1>1, <2>3 DEF IInv, AllRemoved, FreedLast
  <2>13. QED BY <2>5, <2>6, <2>7, <2>9, <2>10, <2>11, <2>12 DEF IInv
<1>4. QED BY <1>2, <1>3

\* After the last sweep the slots hold only what TM_join failed for, so every other
\* thread has been destroyed.
LEMMA SweepDoneStep ==
  ASSUME IInv, SweepDone
  PROVE  IInv'
<1> USE ServerAssumption DEF IInv, SweepDone, links, lives, owned, requests
<1>1. TypeOK' /\ HandsFull' /\ ThreadsMade'
  BY DEF TypeOK, MainPoints, HandsFull, ThreadsMade
<1>2. ConnectionsAccounted' /\ EachInItsSlot' /\ NoUseAfterFree' /\ MadeLeft'
  BY DEF ConnectionsAccounted, EachInItsSlot, NoUseAfterFree, MadeLeft, InUse, Range
<1>3. JoinsMade' /\ FreedLast'
  BY DEF JoinsMade, FreedLast
<1>4. CASE main = "last_sweep"
  <2>1. \A k \in Slots : slots[k] \in unjoined \cup {NULL}
    BY <1>4 DEF JoinsMade, Slots
  <2>2. \A c \in Conns \ unjoined : thread[c] # "none" => c \in freed
    BY <2>1, InASlot
  <2>3. ASSUME NEW c \in Conns \ unjoined
        PROVE  /\ thread[c] \in {"none", "exited", "ended"} /\ conn[c] # "open"
               /\ made[c] \subseteq (IF thread[c] = "exited" THEN {"wrapper"} ELSE {})
    <3>1. thread[c] = "none" \/ (thread[c] \in {"exited", "ended"} /\ c \in freed)
      BY <2>2 DEF NoUseAfterFree
    <3>2. conn[c] # "open"
      BY <1>4, <3>1 DEF ConnectionsAccounted, InUse, HandsFull
    <3>3. made[c] \subseteq (IF thread[c] = "exited" THEN {"wrapper"} ELSE {})
      BY <3>1 DEF ConnectionsAccounted, MadeLeft
    <3>4. QED BY <3>1, <3>2, <3>3
  <2>4. AllRemoved'
    BY <2>1, <2>3 DEF AllRemoved
  <2>5. QED BY <1>1, <1>2, <1>3, <2>4
<1>5. CASE main = "sweep"
  <2>1. AllRemoved'
    BY <1>5 DEF AllRemoved
  <2>2. QED BY <1>1, <1>2, <1>3, <2>1
<1>6. QED BY <1>4, <1>5

LEMMA RefuseStep ==
  ASSUME IInv, Refuse
  PROVE  IInv'
<1> USE ServerAssumption DEF IInv, Refuse, CloseConn, lives, owned, requests
<1>1. new_connection \in Conns /\ closes[new_connection] \in Nat
  BY DEF TypeOK, HandsFull
<1>2. TypeOK'
  BY <1>1 DEF TypeOK, MainPoints
<1>3. HandsFull' /\ ThreadsMade'
  BY DEF HandsFull, ThreadsMade, TypeOK
<1>4. ConnectionsAccounted'
  BY <1>1 DEF ConnectionsAccounted, InUse, TypeOK
<1>5. EachInItsSlot' /\ NoUseAfterFree' /\ MadeLeft'
  BY DEF EachInItsSlot, NoUseAfterFree, MadeLeft, InUse, Range
<1>6. JoinsMade' /\ AllRemoved' /\ FreedLast'
  BY DEF JoinsMade, Passed, Joined, AllRemoved, FreedLast
<1>7. QED BY <1>2, <1>3, <1>4, <1>5, <1>6

\* Each exit of create_communicator frees what has been made before.
LEMMA AllUndone ==
  ASSUME NEW thing \in Things
  PROVE  MadeBefore(thing) \ Undone[thing] = {}
<1> USE DEF MadeBefore, Undone, Turn, Things, QueueThings, ArgsThings
<1>1. CASE thing = "shq"
  BY <1>1
<1>2. CASE thing = "ring"
  BY <1>2
<1>3. CASE thing = "args"
  BY <1>3
<1>4. CASE thing = "thread"
  BY <1>4
<1>5. CASE thing = "wrapper"
  BY <1>5
<1>6. CASE thing = "handle"
  BY <1>6
<1>7. QED BY <1>1, <1>2, <1>3, <1>4, <1>5, <1>6

LEMMA CreateFailsStep ==
  ASSUME IInv, NEW thing \in Things, CreateFails(thing)
  PROVE  IInv'
<1> DEFINE c == new_connection
<1>1. c \in Conns /\ closes[c] \in Nat /\ thread[c] = "none" /\ made[c] = {}
  BY DEF IInv, TypeOK, HandsFull, ConnectionsAccounted, CreateFails
<1>2. /\ main = "place" /\ main' = "loop" /\ new_connection' = NULL
      /\ conn' = [conn EXCEPT ![c] = "closed"] /\ closes' = [closes EXCEPT ![c] = closes[c] + 1]
      /\ made' = [made EXCEPT ![c] = {}]
      /\ UNCHANGED <<i, slots, thread, asleep, id, freed, unjoined, queue, queue_freed, glob_exit>>
  BY AllUndone DEF CreateFails, CloseConn, requests
<1>3. made' = made
  BY <1>1, <1>2 DEF IInv, TypeOK
<1> USE ServerAssumption, <1>2, <1>3 DEF IInv
<1>4. TypeOK'
  BY <1>1 DEF TypeOK, MainPoints
<1>5. HandsFull' /\ ThreadsMade'
  BY DEF HandsFull, ThreadsMade, TypeOK
<1>6. ConnectionsAccounted'
  BY <1>1 DEF ConnectionsAccounted, InUse, TypeOK, HandsFull
<1>7. EachInItsSlot' /\ NoUseAfterFree' /\ MadeLeft'
  BY DEF EachInItsSlot, NoUseAfterFree, MadeLeft, InUse, Range
<1>8. JoinsMade' /\ AllRemoved' /\ FreedLast'
  BY DEF JoinsMade, AllRemoved, FreedLast
<1>9. QED BY <1>4, <1>5, <1>6, <1>7, <1>8

\* The slot was free: no thread loses it, and the requests that still name it
\* are of threads that have been destroyed.
LEMMA CreateStep ==
  ASSUME IInv, Create
  PROVE  IInv'
<1> DEFINE c == new_connection
<1> USE ServerAssumption DEF Create, links, requests
<1>1. c \in Conns /\ thread[c] = "none" /\ conn[c] = "open"
  BY DEF IInv, TypeOK, HandsFull, ConnectionsAccounted
<1>2. PICK k \in Slots : /\ slots[k] = NULL
                         /\ slots' = [slots EXCEPT ![k] = c]
                         /\ id' = [id EXCEPT ![c] = k]
  BY DEF SearchFree, Free
<1>3. /\ thread' = [thread EXCEPT ![c] = "serving"]
      /\ main = "place" /\ main' = "loop" /\ new_connection' = NULL
      /\ made' = [made EXCEPT ![c] = Things]
      /\ UNCHANGED <<i, conn, closes, freed, unjoined, asleep, queue, queue_freed, glob_exit>>
  OBVIOUS
<1> HIDE DEF Create
<1>4. TypeOK'
  BY <1>1, <1>2, <1>3 DEF IInv, TypeOK, MainPoints, ThreadPoints
<1>5. HandsFull' /\ ThreadsMade'
  BY <1>1, <1>2, <1>3 DEF IInv, TypeOK, HandsFull, ThreadsMade
<1>6. ConnectionsAccounted'
  BY <1>1, <1>3 DEF IInv, TypeOK, ConnectionsAccounted, InUse
<1>7. c \notin freed /\ \A l \in Slots : slots[l] # c
  BY <1>1, SlotOwner DEF IInv, NoUseAfterFree
<1>8. EachInItsSlot'
  <2>1. ASSUME NEW d \in Conns, thread'[d] # "none", d \notin freed
        PROVE  id'[d] \in Slots /\ \A l \in Slots : slots'[l] = d <=> l = id'[d]
    BY <1>1, <1>2, <1>3, <1>7, <2>1 DEF IInv, TypeOK, EachInItsSlot
  <2>2. ASSUME NEW n \in DOMAIN queue
        PROVE  \/ queue[n].client \in freed
               \/ slots'[queue[n].communicator_id] = queue[n].client
    BY <1>2, Queued, <2>2 DEF IInv, TypeOK, EachInItsSlot
  <2>3. QED BY <1>3, <2>1, <2>2 DEF IInv, EachInItsSlot
<1>9. NoUseAfterFree'
  <2>1. DOMAIN slots' = Slots /\ \A l \in Slots : slots'[l] \in {c, slots[l]}
    BY <1>2 DEF IInv, TypeOK
  <2>2. \A d \in freed : thread[d] \in {"exited", "ended"} /\ d \notin Range(slots)
    BY DEF IInv, NoUseAfterFree
  <2>3. \A d \in freed : d \notin Range(slots')
    BY <1>7, <2>1, <2>2 DEF IInv, TypeOK, Range
  <2>4. \A d \in freed : thread'[d] = thread[d]
    BY <1>3, <1>7 DEF IInv, TypeOK
  <2>5. ~queue_freed
    BY <1>3 DEF IInv, FreedLast
  <2>6. \A d \in Conns :
          /\ thread'[d] \in InUse \cup {"returned"} => made'[d] = Things
          /\ thread'[d] = "exited" => "wrapper" \in made'[d]
    BY <1>1, <1>3 DEF IInv, TypeOK, NoUseAfterFree
  <2>7. QED BY <1>3, <2>2, <2>3, <2>4, <2>5, <2>6 DEF NoUseAfterFree
<1>10. MadeLeft'
  BY <1>1, <1>3, <1>7 DEF IInv, TypeOK, MadeLeft
<1>11. JoinsMade' /\ AllRemoved' /\ FreedLast'
  BY <1>3 DEF IInv, JoinsMade, Passed, Joined, AllRemoved, FreedLast
<1>12. QED BY <1>4, <1>5, <1>6, <1>8, <1>9, <1>10, <1>11 DEF IInv

-----------------------------------------------------------------------------
(* The shutdown                                                            *)

LEMMA JoinSlotStep ==
  ASSUME IInv, JoinSlot
  PROVE  IInv'
<1> USE ServerAssumption DEF IInv, JoinSlot, links, lives, owned, requests
<1>1. TypeOK' /\ HandsFull' /\ ThreadsMade'
  BY DEF TypeOK, HandsFull, ThreadsMade
<1>2. ConnectionsAccounted' /\ EachInItsSlot' /\ NoUseAfterFree' /\ MadeLeft'
  BY DEF ConnectionsAccounted, EachInItsSlot, NoUseAfterFree, MadeLeft, InUse, Range
<1>3. JoinsMade' /\ AllRemoved' /\ FreedLast'
  BY DEF JoinsMade, Passed, Joined, AllRemoved, FreedLast, TypeOK
<1>4. QED BY <1>1, <1>2, <1>3

LEMMA JoinFailsStep ==
  ASSUME IInv, JoinFails
  PROVE  IInv'
<1> USE ServerAssumption DEF IInv, JoinFails, links, requests
<1>1. i \in Slots /\ slots[i] \in Conns /\ main = "join"
  BY DEF Joined, TypeOK, Slots
<1>2. TypeOK' /\ HandsFull' /\ ThreadsMade'
  BY <1>1 DEF TypeOK, HandsFull, ThreadsMade
<1>3. ~queue_freed
  BY <1>1 DEF FreedLast
<1>4. ConnectionsAccounted' /\ EachInItsSlot' /\ NoUseAfterFree' /\ MadeLeft'
  BY <1>3 DEF ConnectionsAccounted, EachInItsSlot, NoUseAfterFree, MadeLeft, InUse, Range
<1>5. \A k \in 0 .. i' - 1 :
        slots[k] \in {NULL} \cup {c \in Conns : thread[c] = "ended"} \/ slots[k] \in unjoined'
  <2> SUFFICES ASSUME NEW k \in 0 .. i' - 1
               PROVE  \/ slots[k] \in {NULL} \cup {c \in Conns : thread[c] = "ended"}
                      \/ slots[k] \in unjoined'
    OBVIOUS
  <2>1. k = i \/ k \in 0 .. i - 1
    BY <1>1 DEF Slots
  <2>2. QED BY <1>1, <2>1 DEF JoinsMade, Passed, Joined
<1>6. JoinsMade' /\ AllRemoved' /\ FreedLast'
  BY <1>1, <1>5 DEF JoinsMade, Passed, Joined, AllRemoved, FreedLast
<1>7. QED BY <1>2, <1>4, <1>6

LEMMA JoinDoneStep ==
  ASSUME IInv, JoinDone
  PROVE  IInv'
<1> USE ServerAssumption DEF IInv, JoinDone, links, lives, owned, requests
<1>1. TypeOK' /\ HandsFull' /\ ThreadsMade'
  BY DEF TypeOK, MainPoints, HandsFull, ThreadsMade
<1>2. ConnectionsAccounted' /\ EachInItsSlot' /\ NoUseAfterFree' /\ MadeLeft'
  BY DEF ConnectionsAccounted, EachInItsSlot, NoUseAfterFree, MadeLeft, InUse, Range
<1>3. \A k \in Slots : Passed(k)
  BY DEF JoinsMade, Slots
<1>4. JoinsMade' /\ AllRemoved' /\ FreedLast'
  BY <1>3 DEF JoinsMade, Passed, Joined, AllRemoved, FreedLast, Slots
<1>5. QED BY <1>1, <1>2, <1>4

\* The queue is freed when no thread is left that could push, or only one that was
\* not joined.
LEMMA DestroyQueueStep ==
  ASSUME IInv, DestroyQueue
  PROVE  IInv'
<1> USE ServerAssumption DEF IInv, DestroyQueue, links, lives, owned
<1>1. TypeOK' /\ HandsFull' /\ ThreadsMade'
  BY DEF TypeOK, MainPoints, HandsFull, ThreadsMade
<1>2. ConnectionsAccounted' /\ EachInItsSlot' /\ MadeLeft'
  BY DEF ConnectionsAccounted, EachInItsSlot, MadeLeft
<1>3. \A c \in Conns \ unjoined : thread[c] \in {"none", "exited", "ended"}
  BY DEF AllRemoved
<1>4. NoUseAfterFree'
  BY <1>3 DEF NoUseAfterFree, InUse, Range
<1>5. JoinsMade' /\ AllRemoved' /\ FreedLast'
  BY DEF JoinsMade, Passed, Joined, AllRemoved, FreedLast
<1>6. QED BY <1>1, <1>2, <1>4, <1>5

-----------------------------------------------------------------------------
(* The communicator threads and the others                                 *)

\* A thread moves on without touching what it shares, on the way to exited.
LEMMA MoveStep ==
  ASSUME IInv, NEW c \in Conns, NEW point \in ThreadPoints \ {"none", "ended"},
         thread[c] \notin {"none", "exited", "ended"}, Move(c, point),
         thread[c] \in InUse <=> point \in InUse,
         UNCHANGED <<mains, links, owned, requests>>,
         asleep' \subseteq Conns, glob_exit' \in BOOLEAN
  PROVE  IInv'
<1> USE ServerAssumption DEF IInv, Move, mains, links, owned, requests
<1>1. TypeOK' /\ HandsFull' /\ ThreadsMade'
  BY DEF TypeOK, HandsFull, ThreadsMade
<1>2. ConnectionsAccounted'
  BY DEF ConnectionsAccounted, TypeOK
<1>3. EachInItsSlot'
  BY DEF EachInItsSlot, TypeOK
<1>4. NoUseAfterFree'
  <2>1. made[c] = Things
    BY DEF NoUseAfterFree, TypeOK, InUse, ThreadPoints
  <2>2. \A d \in Conns :
          /\ thread'[d] \in InUse \cup {"returned"} => made'[d] = Things
          /\ thread'[d] = "exited" => "wrapper" \in made'[d]
    BY <2>1 DEF NoUseAfterFree, TypeOK, Things
  <2>3. \A d \in freed' : thread'[d] \in {"exited", "ended"} /\ d \notin Range(slots')
    BY DEF NoUseAfterFree, TypeOK, Range
  <2>4. queue_freed' => \A d \in Conns \ unjoined' : thread'[d] \in {"none", "exited", "ended"}
    BY DEF NoUseAfterFree, TypeOK
  <2>5. QED BY <2>2, <2>3, <2>4 DEF NoUseAfterFree
<1>5. MadeLeft'
  BY DEF MadeLeft, TypeOK
<1>6. JoinsMade' /\ AllRemoved' /\ FreedLast'
  BY DEF JoinsMade, Passed, Joined, AllRemoved, FreedLast, TypeOK
<1>7. QED BY <1>1, <1>2, <1>3, <1>4, <1>5, <1>6

\* The wrapper goes last.
LEMMA EndStep ==
  ASSUME IInv, NEW c \in Conns, End(c)
  PROVE  IInv'
<1>1. /\ thread[c] = "exited" /\ thread' = [thread EXCEPT ![c] = "ended"]
      /\ made' = [made EXCEPT ![c] = made[c] \ {"wrapper"}]
      /\ UNCHANGED <<main, i, new_connection, slots, conn, closes, id, freed, unjoined, asleep,
                     queue, queue_freed, glob_exit>>
  BY DEF End, At, Move, mains, links, requests
<1>2. /\ made' \in [Conns -> SUBSET Things] /\ made'[c] = made[c] \ {"wrapper"}
      /\ \A d \in Conns \ {c} : made'[d] = made[d] /\ thread'[d] = thread[d]
      /\ thread' \in [Conns -> ThreadPoints] /\ thread'[c] = "ended"
  BY <1>1 DEF IInv, TypeOK, ThreadPoints
<1> USE ServerAssumption, <1>1, <1>2 DEF IInv
<1>3. TypeOK' /\ HandsFull' /\ ThreadsMade'
  BY DEF TypeOK, HandsFull, ThreadsMade
<1>4. ConnectionsAccounted'
  BY DEF ConnectionsAccounted, InUse
<1>5. EachInItsSlot'
  BY DEF EachInItsSlot
<1>6. NoUseAfterFree'
  BY DEF NoUseAfterFree, InUse, Range
<1>7. MadeLeft'
  BY DEF MadeLeft, TypeOK
<1>8. JoinsMade'
  BY DEF JoinsMade, Passed, Joined
<1>9. AllRemoved' /\ FreedLast'
  BY DEF AllRemoved, FreedLast
<1>10. QED BY <1>3, <1>4, <1>5, <1>6, <1>7, <1>8, <1>9

\* Sleep, wake-ups and glob_exit are no part of the invariant.
LEMMA AsideStep ==
  ASSUME IInv, UNCHANGED <<mains, links, thread, owned, requests>>,
         asleep' \subseteq Conns, glob_exit' \in BOOLEAN
  PROVE  IInv'
<1> USE DEF IInv, mains, links, owned, requests
<1>1. TypeOK' /\ HandsFull' /\ ThreadsMade'
  BY DEF TypeOK, HandsFull, ThreadsMade
<1>2. ConnectionsAccounted' /\ EachInItsSlot' /\ NoUseAfterFree' /\ MadeLeft'
  BY DEF ConnectionsAccounted, EachInItsSlot, NoUseAfterFree, MadeLeft, InUse, Range
<1>3. JoinsMade' /\ AllRemoved' /\ FreedLast'
  BY DEF JoinsMade, Passed, Joined, AllRemoved, FreedLast
<1>4. QED BY <1>1, <1>2, <1>3

\* A request of a living thread names its slot, and those queued before it with
\* the same id are its own or of threads that have been destroyed.
LEMMA PushAcceptedStep ==
  ASSUME IInv, NEW c \in Conns, PushAccepted(c)
  PROVE  IInv'
<1> DEFINE new == [communicator_id |-> id[c], client |-> c]
<1>1. thread[c] = "pushing" /\ c \notin freed
  BY DEF IInv, PushAccepted, At, NoUseAfterFree
<1>2. id[c] \in Slots /\ slots[id[c]] = c
  BY <1>1 DEF IInv, EachInItsSlot
<1>3. /\ queue \in Seq([communicator_id : Slots, client : Conns])
      /\ queue' = Append(queue, new) /\ Len(queue) < RequestCap
      /\ thread' = [thread EXCEPT ![c] = "serving"]
      /\ UNCHANGED <<main, i, new_connection, slots, conn, closes, id, made, freed, unjoined,
                     queue_freed, glob_exit>>
      /\ asleep' = {}
  BY DEF IInv, TypeOK, PushAccepted, Move, mains, links, owned
<1>4. queue' \in Seq([communicator_id : Slots, client : Conns]) /\ Len(queue') = Len(queue) + 1
  BY <1>2, <1>3
<1>5. TypeOK'
  BY <1>3, <1>4, ServerAssumption DEF IInv, TypeOK, ThreadPoints
<1>6. HandsFull' /\ ThreadsMade' /\ ConnectionsAccounted'
  BY <1>1, <1>3 DEF IInv, TypeOK, HandsFull, ThreadsMade, ConnectionsAccounted, InUse
<1>7. EachInItsSlot'
  <2> DEFINE Mine(r) == r.client \in freed \/ slots[r.communicator_id] = r.client
  <2>1. \A n \in DOMAIN queue : Mine(queue[n])
    BY DEF IInv, EachInItsSlot
  <2>2. Mine(new)
    BY <1>2
  <2>3. /\ DOMAIN queue' = 1 .. Len(queue) + 1 /\ DOMAIN queue = 1 .. Len(queue)
        /\ queue'[Len(queue) + 1] = new
        /\ \A n \in 1 .. Len(queue) : queue'[n] = queue[n]
    BY <1>2, <1>3
  <2>4. \A n \in DOMAIN queue' : Mine(queue'[n])
    BY <2>1, <2>2, <2>3, <1>3
  <2>5. ASSUME NEW n \in DOMAIN queue', NEW m \in 1 .. n - 1,
               queue'[m].communicator_id = queue'[n].communicator_id
        PROVE  queue'[m].client = queue'[n].client \/ queue'[m].client \in freed
    <3>1. CASE n = Len(queue) + 1
      <4>1. m \in DOMAIN queue /\ queue'[m] = queue[m]
        BY <1>3, <2>3, <3>1
      <4>2. queue[m].communicator_id = id[c] /\ queue'[n].client = c
        BY <2>3, <2>5, <3>1, <4>1
      <4>3. QED BY <1>2, <2>1, <4>1, <4>2
    <3>2. CASE n \in DOMAIN queue
      <4>1. m \in DOMAIN queue /\ queue'[m] = queue[m] /\ queue'[n] = queue[n]
        BY <1>3, <2>3, <3>2
      <4>2. QED BY <2>5, <3>2, <4>1 DEF IInv, EachInItsSlot
    <3>3. QED BY <1>3, <2>3, <3>1, <3>2
  <2>6. ASSUME NEW d \in Conns, thread'[d] # "none", d \notin freed
        PROVE  id[d] \in Slots /\ \A k \in Slots : slots[k] = d <=> k = id[d]
    BY <1>1, <1>3, <2>6 DEF IInv, TypeOK, EachInItsSlot
  <2>7. QED BY <1>3, <2>4, <2>5, <2>6 DEF EachInItsSlot
<1>8. NoUseAfterFree' /\ MadeLeft' /\ AllRemoved' /\ FreedLast'
  BY <1>1, <1>3 DEF IInv, TypeOK, NoUseAfterFree, MadeLeft, InUse, AllRemoved, FreedLast, Range
<1>9. JoinsMade'
  BY <1>1, <1>3 DEF IInv, TypeOK, JoinsMade, Passed, Joined
<1>10. QED BY <1>5, <1>6, <1>7, <1>8, <1>9 DEF IInv

\* communicator_main closes its connection, the only one to do so.
LEMMA ReturnStep ==
  ASSUME IInv, NEW c \in Conns, Return(c)
  PROVE  IInv'
<1> USE ServerAssumption DEF IInv, Return, At, Move, CloseConn, mains, owned, requests
<1>1. TypeOK' /\ HandsFull' /\ ThreadsMade'
  BY DEF TypeOK, ThreadPoints, HandsFull, ThreadsMade
<1>2. ConnectionsAccounted'
  BY DEF ConnectionsAccounted, InUse, TypeOK
<1>3. EachInItsSlot'
  BY DEF EachInItsSlot, TypeOK
<1>4. NoUseAfterFree' /\ MadeLeft'
  BY DEF NoUseAfterFree, MadeLeft, InUse, Range, TypeOK
<1>5. JoinsMade' /\ AllRemoved' /\ FreedLast'
  BY DEF JoinsMade, Passed, Joined, AllRemoved, FreedLast, TypeOK
<1>6. QED BY <1>1, <1>2, <1>3, <1>4, <1>5

LEMMA ConnectStep ==
  ASSUME IInv, NEW c \in Conns, Connect(c)
  PROVE  IInv'
<1> USE ServerAssumption DEF IInv, Connect, mains, lives, owned, requests
<1>1. TypeOK' /\ HandsFull' /\ ThreadsMade'
  BY DEF TypeOK, HandsFull, ThreadsMade
<1>2. ConnectionsAccounted'
  BY DEF ConnectionsAccounted, InUse, TypeOK, ThreadsMade
<1>3. EachInItsSlot' /\ NoUseAfterFree' /\ MadeLeft'
  BY DEF EachInItsSlot, NoUseAfterFree, MadeLeft, InUse, Range
<1>4. JoinsMade' /\ AllRemoved' /\ FreedLast'
  BY DEF JoinsMade, Passed, Joined, AllRemoved, FreedLast, TypeOK
<1>5. QED BY <1>1, <1>2, <1>3, <1>4

LEMMA ServerTakesStep ==
  ASSUME IInv, ServerTakes
  PROVE  IInv'
<1> USE DEF ServerTakes, mains, links, owned
<1>1. /\ queue \in Seq([communicator_id : Slots, client : Conns])
      /\ queue # << >> /\ queue' = Tail(queue)
  BY DEF IInv, TypeOK
<1>2. /\ queue' \in Seq([communicator_id : Slots, client : Conns])
      /\ Len(queue') = Len(queue) - 1 /\ Len(queue) \in Nat
      /\ \A n \in 1 .. Len(queue) - 1 : queue'[n] = queue[n + 1]
  BY <1>1
<1>3. TypeOK' /\ HandsFull' /\ ThreadsMade'
  BY <1>2, ServerAssumption DEF IInv, TypeOK, HandsFull, ThreadsMade
<1>4. ConnectionsAccounted' /\ NoUseAfterFree' /\ MadeLeft'
  BY DEF IInv, ConnectionsAccounted, NoUseAfterFree, MadeLeft, InUse, Range
<1>5. EachInItsSlot'
  <2>1. \A c \in Conns : thread[c] # "none" /\ c \notin freed =>
          id[c] \in Slots /\ \A k \in Slots : slots[k] = c <=> k = id[c]
    BY DEF IInv, EachInItsSlot
  <2>2. ASSUME NEW n \in DOMAIN queue'
        PROVE  /\ \/ queue'[n].client \in freed
                  \/ slots[queue'[n].communicator_id] = queue'[n].client
               /\ \A m \in 1 .. n - 1 :
                    queue'[m].communicator_id = queue'[n].communicator_id =>
                      queue'[m].client = queue'[n].client \/ queue'[m].client \in freed
    <3>1. n \in 1 .. Len(queue) - 1 /\ n + 1 \in DOMAIN queue /\ queue'[n] = queue[n + 1]
      BY <1>1, <1>2
    <3>2. \A m \in 1 .. n - 1 : m + 1 \in 1 .. (n + 1) - 1 /\ queue'[m] = queue[m + 1]
      BY <1>2, <3>1
    <3>3. QED BY <3>1, <3>2 DEF IInv, EachInItsSlot
  <2>3. QED BY <2>1, <2>2 DEF EachInItsSlot
<1>6. JoinsMade' /\ AllRemoved' /\ FreedLast'
  BY DEF IInv, JoinsMade, Passed, Joined, AllRemoved, FreedLast
<1>7. QED BY <1>3, <1>4, <1>5, <1>6 DEF IInv

-----------------------------------------------------------------------------
(* Every step                                                              *)

LEMMA MainIInv ==
  ASSUME IInv, MainStep \/ AcceptFails \/ JoinFails \/ \E thing \in Things : CreateFails(thing)
  PROVE  IInv'
<1>1. CASE AcceptLoop
  BY <1>1, LoopHeadStep, AcceptStep, SweepSlotStep, SweepDoneStep, RefuseStep, CreateStep
  DEF AcceptLoop
<1>2. CASE Shutdown
  <2>1. CASE DestroyWakes
    BY <2>1, AsideStep DEF DestroyWakes, IInv, TypeOK
  <2>2. QED BY <1>2, <2>1, JoinSlotStep, JoinDoneStep, DestroyQueueStep DEF Shutdown
<1>3. QED BY <1>1, <1>2, AcceptFailsStep, JoinFailsStep, CreateFailsStep DEF MainStep

LEMMA ThreadIInv ==
  ASSUME IInv, NEW c \in Conns, ThreadStep(c) \/ MakeRequest(c) \/ Leave(c)
  PROVE  IInv'
<1> USE DEF At, InUse, ThreadPoints
<1>0. asleep \subseteq Conns /\ glob_exit \in BOOLEAN
  BY DEF IInv, TypeOK
<1>1. CASE MakeRequest(c)
  BY <1>0, <1>1, MoveStep DEF MakeRequest
<1>2. CASE PushSleeps(c)
  BY <1>0, <1>2, AsideStep DEF PushSleeps
<1>3. CASE PushRefused(c)
  BY <1>0, <1>3, MoveStep DEF PushRefused
<1>4. CASE Leave(c)
  BY <1>0, <1>4, MoveStep DEF Leave
<1>5. CASE ObeyExit(c)
  BY <1>0, <1>5, MoveStep DEF ObeyExit
<1>6. CASE SetExited(c)
  BY <1>0, <1>6, MoveStep DEF SetExited
<1>7. QED
  BY <1>1, <1>2, <1>3, <1>4, <1>5, <1>6, PushAcceptedStep, ReturnStep, EndStep
  DEF ThreadStep, Push

LEMMA NextIInv == IInv /\ [Next]_vars => IInv'
<1> SUFFICES ASSUME IInv, [Next]_vars PROVE IInv'
  OBVIOUS
<1>0. asleep \subseteq Conns /\ glob_exit \in BOOLEAN
  BY DEF IInv, TypeOK
<1>1. CASE MainStep \/ AcceptFails \/ JoinFails \/ \E thing \in Things : CreateFails(thing)
  BY <1>1, MainIInv
<1>2. ASSUME NEW c \in Conns, ThreadStep(c) \/ MakeRequest(c) \/ Leave(c)
      PROVE  IInv'
  BY <1>2, ThreadIInv
<1>3. ASSUME NEW c \in Conns, SpuriousWake(c)
      PROVE  IInv'
  BY <1>0, <1>3, AsideStep DEF SpuriousWake
<1>4. CASE GlobalExit
  BY <1>0, <1>4, AsideStep DEF GlobalExit, lives
<1>5. CASE UNCHANGED vars
  BY <1>0, <1>5, AsideStep DEF vars, lives
<1>6. QED
  BY <1>1, <1>2, <1>3, <1>4, <1>5, ConnectStep, ServerTakesStep DEF Next

\* The inductive invariant holds in every state of every behaviour.
THEOREM Inductive == Spec => []IInv
<1>1. Init => IInv
  BY InitIInv
<1>2. IInv /\ [Next]_vars => IInv'
  BY NextIInv
<1>3. QED BY <1>1, <1>2, PTL DEF Spec

\* Every variable of the server keeps its type: the loops over communicator_list
\* stay in it, and every communicator_id is one of its indices.
THEOREM ServerTypeCorrect == Spec => []TypeOK
<1>1. IInv => TypeOK
  BY DEF IInv
<1>2. QED BY <1>1, Inductive, PTL

\* However many clients connect and wherever the creation of a communicator fails,
\* each connection has one owner and is closed once, and nothing made for a
\* communicator that did not come about is left.
THEOREM ConnectionsCorrect == Spec => []ConnectionsAccounted
<1>1. IInv => ConnectionsAccounted
  BY DEF IInv
<1>2. QED BY <1>1, Inductive, PTL

\* However often the slots are reused, a living communicator has one, its id
\* names it, and requests with that id are its own or older than it.
THEOREM SlotsCorrect == Spec => []EachInItsSlot
<1>1. IInv => EachInItsSlot
  BY DEF IInv
<1>2. QED BY <1>1, Inductive, PTL

\* The sweeps free no thread that still runs on what they free, and the queue is
\* freed after the last thread that could push, but for those TM_join failed for.
THEOREM FreeingSafe == Spec => []NoUseAfterFree
<1>1. IInv => NoUseAfterFree
  BY DEF IInv
<1>2. QED BY <1>1, Inductive, PTL

\* The joins and the last sweep leave no thread, no slot, no connection and nothing
\* allocated, but for the threads TM_join failed for.
THEOREM ShutdownClean == Spec => []AllRemoved
<1>1. IInv => AllRemoved
  BY DEF IInv
<1>2. QED BY <1>1, Inductive, PTL
-----------------------------------------------------------------------------
(* The shutdown comes to an end                                            *)

\* The points still before the main thread once glob_exit is set, and the turns
\* left of the loop it is in.
MainLeft ==
  CASE main = "accept" -> 7 [] main = "sweep" -> 6 [] main = "place" -> 5 [] main = "loop" -> 4
    [] main = "join" -> 3 [] main = "last_sweep" -> 2 [] main = "destroy" -> 1 [] OTHER -> 0
TurnsLeft == IF main \in {"sweep", "join", "last_sweep"} THEN MaxClients - i ELSE 0

\* Those still before a communicator and its connection.
ThreadLeft(c) ==
  CASE thread[c] = "none" -> 6 [] thread[c] = "serving" -> 5 [] thread[c] = "pushing" -> 4
    [] thread[c] = "closing" -> 3 [] thread[c] = "returned" -> 2 [] thread[c] = "exited" -> 1
    [] OTHER -> 0
ConnLeft(c) ==
  CASE conn[c] = "away" -> 3 [] conn[c] = "backlog" -> 2 [] conn[c] = "open" -> 1 [] OTHER -> 0

MainCloser == MainLeft' < MainLeft \/ (MainLeft' = MainLeft /\ TurnsLeft' < TurnsLeft)
MainStays  == MainLeft' = MainLeft /\ TurnsLeft' = TurnsLeft
Closer(c)  == ThreadLeft(c)' < ThreadLeft(c) \/ ConnLeft(c)' < ConnLeft(c)

NobodyBack ==
  /\ MainCloser \/ MainStays
  /\ \A c \in Conns : ThreadLeft(c)' <= ThreadLeft(c) /\ ConnLeft(c)' <= ConnLeft(c)
  /\ asleep' \subseteq asleep /\ Len(queue') <= Len(queue)
SomebodyOn == \/ MainCloser
              \/ \E c \in Conns : Closer(c)
              \/ asleep' # asleep
              \/ Len(queue') < Len(queue)
OnlyForward == glob_exit => NobodyBack /\ SomebodyOn

\* What is left is counted by natural numbers, so that it cannot get less forever.
LEMMA LeftIs ==
  ASSUME TypeOK
  PROVE  /\ MainLeft \in Nat /\ TurnsLeft \in Nat
         /\ \A c \in Conns : ThreadLeft(c) \in Nat /\ ConnLeft(c) \in Nat
         /\ Len(queue) \in Nat
<1>1. MainLeft \in Nat
  BY DEF MainLeft
<1>2. TurnsLeft \in Nat
  BY ServerAssumption DEF TypeOK, TurnsLeft
<1>3. \A c \in Conns : ThreadLeft(c) \in Nat
  BY DEF ThreadLeft
<1>4. \A c \in Conns : ConnLeft(c) \in Nat
  BY DEF ConnLeft
<1>5. Len(queue) \in Nat
  BY DEF TypeOK
<1>6. QED BY <1>1, <1>2, <1>3, <1>4, <1>5

\* Where nothing happens nothing gets more.
LEMMA AllStay ==
  ASSUME TypeOK
  PROVE  /\ UNCHANGED <<main, i>> => MainStays
         /\ UNCHANGED thread => \A c \in Conns : ThreadLeft(c)' <= ThreadLeft(c)
         /\ UNCHANGED conn => \A c \in Conns : ConnLeft(c)' <= ConnLeft(c)
         /\ UNCHANGED asleep => asleep' \subseteq asleep
         /\ UNCHANGED queue => Len(queue') <= Len(queue)
<1>1. UNCHANGED <<main, i>> => MainStays
  BY DEF MainStays, MainLeft, TurnsLeft
<1>2. ASSUME UNCHANGED thread, NEW c \in Conns PROVE ThreadLeft(c)' <= ThreadLeft(c)
  <2>1. ThreadLeft(c)' = ThreadLeft(c)
    BY <1>2 DEF ThreadLeft
  <2>2. QED BY <2>1, LeftIs
<1>3. ASSUME UNCHANGED conn, NEW c \in Conns PROVE ConnLeft(c)' <= ConnLeft(c)
  <2>1. ConnLeft(c)' = ConnLeft(c)
    BY <1>3 DEF ConnLeft
  <2>2. QED BY <2>1, LeftIs
<1>4. UNCHANGED queue => Len(queue') <= Len(queue)
  BY LeftIs
<1>5. QED BY <1>1, <1>2, <1>3, <1>4

\* The main thread gets on with what it does alone.
LEMMA MainAloneForward ==
  ASSUME IInv, UNCHANGED <<thread, asleep>>,
         \/ (LoopHead /\ glob_exit) \/ AcceptFails \/ SweepSlot \/ SweepDone
         \/ JoinSlot \/ JoinFails \/ JoinDone \/ DestroyQueue
  PROVE  NobodyBack /\ SomebodyOn
<1> USE ServerAssumption
<1>1. TypeOK
  BY DEF IInv
<1>2. UNCHANGED conn /\ Len(queue') <= Len(queue)
  <2>1. CASE DestroyQueue
    <3>1. Len(queue') = 0
      BY <2>1 DEF DestroyQueue
    <3>2. QED BY <1>1, <2>1, <3>1, LeftIs DEF DestroyQueue, links
  <2>2. CASE UNCHANGED queue
    BY <1>1, <2>2, LeftIs DEF LoopHead, AcceptFails, SweepSlot, SweepDone, JoinSlot, JoinFails,
       JoinDone, DestroyQueue, links
  <2>3. QED BY <2>1, <2>2 DEF LoopHead, AcceptFails, SweepSlot, SweepDone, JoinSlot, JoinFails,
            JoinDone, requests
<1>3. MainCloser
  <2>1. main \in MainPoints /\ i \in 0 .. MaxClients
    BY <1>1 DEF TypeOK
  <2>2. CASE (LoopHead /\ glob_exit) \/ AcceptFails \/ SweepDone \/ JoinDone \/ DestroyQueue
    BY <2>1, <2>2 DEF LoopHead, AcceptFails, SweepDone, JoinDone, DestroyQueue, MainCloser, MainLeft
  <2>3. CASE SweepSlot \/ JoinSlot \/ JoinFails
    <3>1. /\ main \in {"sweep", "join", "last_sweep"} /\ main' = main
          /\ i' = i + 1 /\ i < MaxClients
      BY <2>3 DEF SweepSlot, JoinSlot, JoinFails
    <3>2. MainLeft' = MainLeft
      BY <3>1 DEF MainLeft
    <3>3. TurnsLeft' < TurnsLeft
      BY <2>1, <3>1 DEF TurnsLeft
    <3>4. QED BY <3>2, <3>3 DEF MainCloser
  <2>4. QED BY <2>2, <2>3
<1>4. QED BY <1>1, <1>2, <1>3, AllStay DEF NobodyBack, SomebodyOn

LEMMA DestroyWakesForward ==
  ASSUME IInv, DestroyWakes
  PROVE  NobodyBack /\ SomebodyOn
<1>1. TypeOK
  BY DEF IInv
<1>2. UNCHANGED <<main, i, thread, conn, queue>> /\ asleep # {} /\ asleep' = {}
  BY DEF DestroyWakes, mains, links, requests
<1>3. QED BY <1>1, <1>2, AllStay DEF NobodyBack, SomebodyOn

\* It accepts, refuses or hands over a connection.
LEMMA MainServesForward ==
  ASSUME IInv,
         \/ \E c \in Conns : Accept(c)
         \/ Refuse \/ (\E thing \in Things : CreateFails(thing)) \/ Create
  PROVE  NobodyBack /\ SomebodyOn
<1> USE ServerAssumption
<1>1. TypeOK
  BY DEF IInv
<1>2. UNCHANGED <<asleep, queue>>
  BY DEF Accept, Refuse, CreateFails, Create, lives, requests
<1>3. MainCloser
  BY DEF Accept, Refuse, CreateFails, Create, MainCloser, MainLeft
<1>4. CASE \E c \in Conns : Accept(c)
  <2>1. PICK c \in Conns : Accept(c)
    BY <1>4
  <2>2. UNCHANGED thread /\ conn[c] = "backlog" /\ conn' = [conn EXCEPT ![c] = "open"]
    BY <2>1 DEF Accept, lives
  <2>3. ASSUME NEW d \in Conns PROVE ConnLeft(d)' <= ConnLeft(d)
    <3>1. CASE d = c
      BY <1>1, <2>2, <3>1 DEF ConnLeft, TypeOK
    <3>2. CASE d # c
      BY <1>1, <2>2, <3>2 DEF ConnLeft, TypeOK
    <3>3. QED BY <3>1, <3>2
  <2>4. QED BY <1>1, <1>2, <1>3, <2>2, <2>3, AllStay DEF NobodyBack, SomebodyOn
<1>5. CASE Refuse \/ \E thing \in Things : CreateFails(thing)
  <2>1. PICK c : c = new_connection
    OBVIOUS
  <2>2. c \in Conns /\ conn[c] = "open"
    BY <1>5, <2>1 DEF IInv, TypeOK, HandsFull, ConnectionsAccounted, Refuse, CreateFails
  <2>3. UNCHANGED thread /\ conn' = [conn EXCEPT ![c] = "closed"]
    BY <1>5, <2>1 DEF Refuse, CreateFails, CloseConn, lives
  <2>4. ASSUME NEW d \in Conns PROVE ConnLeft(d)' <= ConnLeft(d)
    <3>1. CASE d = c
      BY <1>1, <2>2, <2>3, <3>1 DEF ConnLeft, TypeOK
    <3>2. CASE d # c
      BY <1>1, <2>3, <3>2 DEF ConnLeft, TypeOK
    <3>3. QED BY <3>1, <3>2
  <2>5. QED BY <1>1, <1>2, <1>3, <2>3, <2>4, AllStay DEF NobodyBack, SomebodyOn
<1>6. CASE Create
  <2>1. PICK c : c = new_connection
    OBVIOUS
  <2>2. c \in Conns /\ thread[c] = "none"
    BY <1>6, <2>1 DEF IInv, TypeOK, HandsFull, ConnectionsAccounted, Create
  <2>3. UNCHANGED conn /\ thread' = [thread EXCEPT ![c] = "serving"]
    BY <1>6, <2>1 DEF Create, links
  <2>4. ASSUME NEW d \in Conns PROVE ThreadLeft(d)' <= ThreadLeft(d)
    <3>1. CASE d = c
      BY <1>1, <2>2, <2>3, <3>1 DEF ThreadLeft, TypeOK
    <3>2. CASE d # c
      BY <1>1, <2>3, <3>2 DEF ThreadLeft, TypeOK
    <3>3. QED BY <3>1, <3>2
  <2>5. QED BY <1>1, <1>2, <1>3, <2>3, <2>4, AllStay DEF NobodyBack, SomebodyOn
<1>7. QED BY <1>4, <1>5, <1>6

\* A communicator cannot push any more, only leave.
LEMMA ThreadForward ==
  ASSUME IInv, glob_exit, NEW c \in Conns, ThreadStep(c) \/ MakeRequest(c) \/ Leave(c)
  PROVE  NobodyBack /\ SomebodyOn
<1>1. TypeOK
  BY DEF IInv
<1>2. /\ UNCHANGED <<main, i, queue>> /\ asleep' \subseteq asleep
      /\ \/ thread[c] = "serving" /\ Move(c, "pushing") /\ UNCHANGED conn
         \/ thread[c] \in {"serving", "pushing"} /\ Move(c, "closing") /\ UNCHANGED conn
         \/ thread[c] = "closing" /\ Move(c, "returned") /\ conn' = [conn EXCEPT ![c] = "closed"]
         \/ thread[c] = "returned" /\ Move(c, "exited") /\ UNCHANGED conn
         \/ thread[c] = "exited" /\ Move(c, "ended") /\ UNCHANGED conn
  BY DEF ThreadStep, Push, PushSleeps, PushAccepted, PushRefused, MakeRequest, Leave, ObeyExit,
         Return, SetExited, End, At, CloseConn, mains, links, requests
<1>3. ThreadLeft(c)' < ThreadLeft(c)
  BY <1>1, <1>2 DEF ThreadLeft, Move, TypeOK
<1>4. ASSUME NEW d \in Conns PROVE ThreadLeft(d)' <= ThreadLeft(d)
  <2>1. CASE d # c
    BY <1>1, <1>2, <2>1 DEF ThreadLeft, Move, TypeOK
  <2>2. CASE d = c
    BY <1>1, <1>2, <2>2 DEF ThreadLeft, Move, TypeOK
  <2>3. QED BY <2>1, <2>2
<1>5. ASSUME NEW d \in Conns PROVE ConnLeft(d)' <= ConnLeft(d)
  <2>1. CASE UNCHANGED conn
    BY <1>1, <2>1, AllStay
  <2>2. CASE conn' = [conn EXCEPT ![c] = "closed"]
    <3>1. CASE d = c
      BY <1>1, <2>2, <3>1, LeftIs DEF ConnLeft, TypeOK
    <3>2. CASE d # c
      BY <1>1, <2>2, <3>2 DEF ConnLeft, TypeOK
    <3>3. QED BY <3>1, <3>2
  <2>3. QED BY <1>2, <2>1, <2>2
<1>6. QED BY <1>1, <1>2, <1>3, <1>4, <1>5, AllStay DEF NobodyBack, SomebodyOn, Closer

\* The clients and the server thread.
LEMMA OthersForward ==
  ASSUME IInv, (\E c \in Conns : Connect(c) \/ SpuriousWake(c)) \/ ServerTakes
  PROVE  NobodyBack /\ SomebodyOn
<1>1. TypeOK
  BY DEF IInv
<1>2. UNCHANGED <<main, i, thread>>
  BY DEF Connect, SpuriousWake, ServerTakes, mains, lives
<1>3. CASE \E c \in Conns : Connect(c)
  <2>1. PICK c \in Conns : Connect(c)
    BY <1>3
  <2>2. /\ conn[c] = "away" /\ conn' = [conn EXCEPT ![c] = "backlog"]
        /\ UNCHANGED <<asleep, queue>>
    BY <2>1 DEF Connect, lives, requests
  <2>3. ConnLeft(c)' < ConnLeft(c)
    BY <1>1, <2>2 DEF ConnLeft, TypeOK
  <2>4. ASSUME NEW d \in Conns PROVE ConnLeft(d)' <= ConnLeft(d)
    <3>1. CASE d # c
      BY <1>1, <2>2, <3>1 DEF ConnLeft, TypeOK
    <3>2. CASE d = c
      BY <1>1, <2>2, <3>2 DEF ConnLeft, TypeOK
    <3>3. QED BY <3>1, <3>2
  <2>5. QED BY <1>1, <1>2, <2>2, <2>3, <2>4, AllStay DEF NobodyBack, SomebodyOn, Closer
<1>4. CASE \E c \in Conns : SpuriousWake(c)
  <2>1. UNCHANGED <<conn, queue>> /\ asleep' \subseteq asleep /\ asleep' # asleep
    BY <1>4 DEF SpuriousWake, links, requests
  <2>2. QED BY <1>1, <1>2, <2>1, AllStay DEF NobodyBack, SomebodyOn
<1>5. CASE ServerTakes
  <2>1. UNCHANGED conn /\ asleep' = {} /\ queue # << >> /\ queue' = Tail(queue)
    BY <1>5 DEF ServerTakes, links
  <2>2. PICK S : queue \in Seq(S)
    BY <1>1 DEF TypeOK
  <2>3. Len(queue') < Len(queue) /\ Len(queue') <= Len(queue)
    BY <2>1, <2>2
  <2>4. QED BY <1>1, <1>2, <2>1, <2>3, AllStay DEF NobodyBack, SomebodyOn
<1>6. QED BY <1>3, <1>4, <1>5

\* From the moment glob_exit is set every step takes the main thread, a
\* communicator, a connection or the queue a step closer to its end and none away
\* from it, whatever the number of slots: nobody falls asleep in a push, returns to
\* one or is served again.  With finitely many clients it cannot go on forever.
THEOREM ShutdownOnlyForward == Spec => [][OnlyForward]_vars
<1>1. ASSUME IInv, Next PROVE OnlyForward
  <2> SUFFICES ASSUME glob_exit PROVE NobodyBack /\ SomebodyOn
    BY DEF OnlyForward
  <2>1. CASE \/ LoopHead \/ AcceptFails \/ SweepSlot \/ SweepDone
             \/ JoinSlot \/ JoinFails \/ JoinDone \/ DestroyQueue
    <3>1. UNCHANGED <<thread, asleep>>
      BY <2>1 DEF LoopHead, AcceptFails, SweepSlot, SweepDone, JoinSlot, JoinFails, JoinDone,
                  DestroyQueue, lives
    <3>2. QED BY <1>1, <2>1, <3>1, MainAloneForward
  <2>2. CASE \/ \E c \in Conns : Accept(c)
             \/ Refuse \/ (\E thing \in Things : CreateFails(thing)) \/ Create
    BY <1>1, <2>2, MainServesForward
  <2>3. ASSUME NEW c \in Conns, ThreadStep(c) \/ MakeRequest(c) \/ Leave(c)
        PROVE  NobodyBack /\ SomebodyOn
    BY <1>1, <2>3, ThreadForward
  <2>4. CASE (\E c \in Conns : Connect(c) \/ SpuriousWake(c)) \/ ServerTakes
    BY <1>1, <2>4, OthersForward
  <2>5. ~GlobalExit
    BY DEF GlobalExit
  <2>6. CASE DestroyWakes
    BY <1>1, <2>6, DestroyWakesForward
  <2>7. QED BY <1>1, <2>1, <2>2, <2>3, <2>4, <2>5, <2>6 DEF Next, MainStep, AcceptLoop, Shutdown
<1>2. IInv /\ [Next]_vars => [OnlyForward]_vars
  BY <1>1
<1>3. QED BY <1>2, Inductive, PTL DEF Spec
=============================================================================
