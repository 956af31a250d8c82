------------------------------- MODULE Server -------------------------------
(***************************************************************************)
(* server/src/main.c with the thread wrapper of ThreadManager: the main    *)
(* thread that accepts clients into the slots of communicator_list, the    *)
(* communicator threads as it sees them, the request queue they share, and *)
(* the shutdown.                                                           *)
(*                                                                         *)
(* A communicator is reduced to what the others can see of Communicator:   *)
(* it serves, it pushes, it closes its connection, it returns.  A thread   *)
(* is named by the connection it was created for.                          *)
(***************************************************************************)
EXTENDS Integers, Sequences, FiniteSets

CONSTANTS Conns,       \* the connections clients make
          MaxClients,  \* MAX_CLIENTS
          RequestCap,  \* REQUEST_QUEUE_CAP
          MaxUnjoined, \* bound: threads left behind by joins that failed
          NULL

\* arena_calloc asserts that there is at least one slot.
ASSUME ServerAssumption ==
  /\ MaxClients \in Nat \ {0} /\ RequestCap \in Nat \ {0} /\ MaxUnjoined \in Nat
  /\ NULL \notin Conns

VARIABLES
  main,            \* where the main thread is
  i,               \* the index of its loops over the slots
  new_connection,  \* the connection it has accepted and not placed yet
  slots,           \* communicator_list
  conn,            \* what has become of each connection
  closes,          \* how many times each has been given to NM_destroy_conn
  thread,          \* where each communicator thread is
  id,              \* the communicator_id in its arguments
  made,            \* what is allocated for each communicator
  freed,           \* the threads destroy_communicator has destroyed
  unjoined,        \* history: those TM_join has failed for, until they are destroyed
  asleep,          \* the threads that sleep in push_back
  queue,           \* the request queue
  queue_freed,     \* destroy_shared_queue has freed it
  glob_exit

mains == <<main, i, new_connection, slots>>
links == <<conn, closes>>
owned == <<id, made, freed, unjoined>>
lives == <<thread, asleep, owned>>
requests == <<queue, queue_freed>>
vars  == <<mains, links, lives, requests, glob_exit>>

Slots == 0 .. MaxClients - 1
Range(f) == {f[x] : x \in DOMAIN f}

MainPoints == {"loop", "accept", "sweep", "place", "join", "last_sweep", "destroy",
               "done"}
ThreadPoints == {"none", "serving", "pushing", "closing", "returned", "exited", "ended"}

Init == /\ main = "loop" /\ i = 0 /\ new_connection = NULL
        /\ slots = [k \in Slots |-> NULL]
        /\ conn = [c \in Conns |-> "away"] /\ closes = [c \in Conns |-> 0]
        /\ thread = [c \in Conns |-> "none"] /\ id = [c \in Conns |-> NULL]
        /\ made = [c \in Conns |-> {}] /\ freed = {} /\ unjoined = {} /\ asleep = {}
        /\ queue = << >> /\ queue_freed = FALSE
        /\ glob_exit = FALSE

-----------------------------------------------------------------------------
(* The accept loop                                                         *)

\* while(!glob_exit)
LoopHead ==
  /\ main = "loop"
  /\ main' = IF glob_exit THEN "join" ELSE "accept"
  /\ i' = 0
  /\ UNCHANGED <<new_connection, slots, links, lives, requests, glob_exit>>

\* NM_accept_conn blocks until a client connects.
Accept(c) ==
  /\ main = "accept" /\ conn[c] = "backlog"
  /\ conn' = [conn EXCEPT ![c] = "open"]
  /\ new_connection' = c
  /\ main' = "sweep" /\ i' = 0
  /\ UNCHANGED <<slots, closes, lives, requests, glob_exit>>

\* NM_accept_conn returns NULL: no memory, or accept failed.
AcceptFails ==
  /\ main = "accept"
  /\ main' = "loop"
  /\ UNCHANGED <<i, new_connection, slots, links, lives, requests, glob_exit>>

\* Mutant: the thread is taken for finished once its client is gone.
StaleEarly == slots[i] \in {c \in Conns : thread[c] \in {"returned", "exited", "ended"}}

\* What a sweep tests in slot i: the exited flag its thread sets last.
Stale == slots[i] \in {c \in Conns : thread[c] \in {"exited", "ended"}}

\* What create_communicator and what it calls make, in this order: the response
\* queue with its ring, the arguments, the TM_thread_t, the wrapper of the routine,
\* and the handle of the thread, which is running then.
Things == {"shq", "ring", "args", "thread", "wrapper", "handle"}
Turn   == [shq |-> 1, ring |-> 2, args |-> 3, thread |-> 4, wrapper |-> 5, handle |-> 6]
MadeBefore(thing) == {t \in Things : Turn[t] < Turn[thing]}

\* What destroy_shared_queue, destroy_args_for_comm and destroy_communicator free.
QueueThings  == {"shq", "ring"}
ArgsThings   == QueueThings \cup {"args"}
ThreadThings == ArgsThings \cup {"handle", "thread"}

\* Mutant: the sweep joins a thread that has not exited yet.
SweepSlotJoins ==
  /\ main \in {"sweep", "last_sweep"} /\ i < MaxClients
  /\ slots[i] = NULL \/ Stale
  /\ i' = i + 1
  /\ slots' = [slots EXCEPT ![i] = NULL]
  /\ freed' = (freed \cup {slots[i]}) \ {NULL}
  /\ UNCHANGED <<main, new_connection, links, thread, id, made, unjoined, asleep, requests,
                 glob_exit>>

\* One turn of the loop of remove_stale_communicators.
SweepSlot ==
  /\ main \in {"sweep", "last_sweep"} /\ i < MaxClients
  /\ i' = i + 1
  /\ IF Stale
     THEN /\ slots' = [slots EXCEPT ![i] = NULL]
          /\ freed' = freed \cup {slots[i]} /\ unjoined' = unjoined \ {slots[i]}
          /\ made' = [made EXCEPT ![slots[i]] = @ \ ThreadThings]
          /\ id' = [id EXCEPT ![slots[i]] = NULL]
     ELSE UNCHANGED <<slots, owned>>
  /\ UNCHANGED <<main, new_connection, links, thread, asleep, requests, glob_exit>>

\* Mutant: the loop of a sweep ends one slot early.
SweepDoneEarly ==
  /\ main \in {"sweep", "last_sweep"} /\ i >= MaxClients - 1
  /\ main' = IF main = "sweep" THEN "place" ELSE "destroy"
  /\ i' = 0
  /\ UNCHANGED <<new_connection, slots, links, lives, requests, glob_exit>>

SweepDone ==
  /\ main \in {"sweep", "last_sweep"} /\ i = MaxClients
  /\ main' = IF main = "sweep" THEN "place" ELSE "destroy"
  /\ i' = 0
  /\ UNCHANGED <<new_connection, slots, links, lives, requests, glob_exit>>

\* Mutant: the search finds the first slot that is taken as well.
FreeOrTaken == {k \in Slots : slots[k] = NULL \/ k = 0}

Free == {k \in Slots : slots[k] = NULL}
SearchFree(k) == k \in Free /\ \A l \in Free : k <= l

CloseConn(c) == /\ conn' = [conn EXCEPT ![c] = "closed"]
                /\ closes' = [closes EXCEPT ![c] = @ + 1]

\* is_comm_list_full: the client is turned away.
Refuse ==
  /\ main = "place" /\ Free = {}
  /\ CloseConn(new_connection)
  /\ new_connection' = NULL /\ main' = "loop"
  /\ UNCHANGED <<i, slots, lives, requests, glob_exit>>

\* What the exits free on which make_shared_queue, create_args_for_comm and
\* TM_create_thread with create_communicator leave when the thing is not to be had.
Undone == [shq     |-> {},
           ring    |-> {"shq"},
           args    |-> QueueThings,
           thread  |-> ArgsThings,
           wrapper |-> {"thread"} \cup ArgsThings,
           handle  |-> {"wrapper", "thread"} \cup ArgsThings]

\* Mutant: without a thread the arguments are destroyed, but the connection is
\* left open.
CreateFailsOpen(thing) ==
  /\ main = "place" /\ Free # {}
  /\ made' = [made EXCEPT ![new_connection] = MadeBefore(thing) \ Undone[thing]]
  /\ IF thing \in ArgsThings THEN CloseConn(new_connection) ELSE UNCHANGED links
  /\ new_connection' = NULL /\ main' = "loop"
  /\ UNCHANGED <<i, slots, thread, asleep, id, freed, unjoined, requests, glob_exit>>

\* create_communicator fails at the thing it cannot get.
CreateFails(thing) ==
  /\ main = "place" /\ Free # {}
  /\ made' = [made EXCEPT ![new_connection] = MadeBefore(thing) \ Undone[thing]]
  /\ CloseConn(new_connection)
  /\ new_connection' = NULL /\ main' = "loop"
  /\ UNCHANGED <<i, slots, thread, asleep, id, freed, unjoined, requests, glob_exit>>

Create ==
  /\ main = "place"
  /\ \E k \in Slots : /\ SearchFree(k)
                      /\ slots' = [slots EXCEPT ![k] = new_connection]
                      /\ id' = [id EXCEPT ![new_connection] = k]
  /\ made' = [made EXCEPT ![new_connection] = Things]
  /\ thread' = [thread EXCEPT ![new_connection] = "serving"]
  /\ new_connection' = NULL /\ main' = "loop"
  /\ UNCHANGED <<i, links, freed, unjoined, asleep, requests, glob_exit>>

-----------------------------------------------------------------------------
(* The shutdown                                                            *)

Joined(k) == slots[k] \in {NULL} \cup {c \in Conns : thread[c] = "ended"}

\* One turn of the loop of wait_for_all_communicators.
JoinSlot ==
  /\ main = "join" /\ i < MaxClients /\ Joined(i)
  /\ i' = i + 1
  /\ UNCHANGED <<main, new_connection, slots, links, lives, requests, glob_exit>>

\* TM_join returns TM_ERR, and nobody looks at it.
JoinFails ==
  /\ main = "join" /\ i < MaxClients /\ ~Joined(i)
  /\ Cardinality(unjoined) < MaxUnjoined
  /\ unjoined' = unjoined \cup {slots[i]}
  /\ i' = i + 1
  /\ UNCHANGED <<main, new_connection, slots, links, thread, id, made, freed, asleep, requests,
                 glob_exit>>

JoinDone ==
  /\ main = "join" /\ i = MaxClients
  /\ main' = "last_sweep" /\ i' = 0
  /\ UNCHANGED <<new_connection, slots, links, lives, requests, glob_exit>>

\* destroy_shared_queue wakes the threads inside push_back and waits for them: one
\* that was not joined may be there.
DestroyWakes ==
  /\ main = "destroy" /\ asleep # {} /\ asleep' = {}
  /\ UNCHANGED <<mains, links, thread, owned, requests, glob_exit>>

\* What a thread that was not joined then reads of the freed queue is not modelled.
DestroyQueue ==
  /\ main = "destroy" /\ \A c \in Conns : thread[c] # "pushing"
  /\ queue_freed' = TRUE /\ queue' = << >>
  /\ main' = "done"
  /\ UNCHANGED <<i, new_connection, slots, links, lives, glob_exit>>

-----------------------------------------------------------------------------
(* A communicator thread                                                   *)

\* When main returns the process ends, and with it who still runs.
At(c, point)   == thread[c] = point /\ c \notin asleep /\ main # "done"
Move(c, point) == thread' = [thread EXCEPT ![c] = point]

MakeRequest(c) ==
  /\ At(c, "serving") /\ Move(c, "pushing")
  /\ UNCHANGED <<mains, links, owned, asleep, requests, glob_exit>>

PushSleeps(c) ==
  /\ At(c, "pushing") /\ Len(queue) >= RequestCap /\ ~glob_exit
  /\ asleep' = asleep \cup {c}
  /\ UNCHANGED <<mains, links, thread, owned, requests, glob_exit>>

\* Mutant: a push into a full queue is accepted.
PushAcceptedFull(c) ==
  /\ At(c, "pushing") /\ Len(queue) <= RequestCap /\ ~glob_exit
  /\ queue' = Append(queue, [communicator_id |-> id[c], client |-> c])
  /\ Move(c, "serving") /\ asleep' = {}
  /\ UNCHANGED <<mains, links, owned, queue_freed, glob_exit>>

PushAccepted(c) ==
  /\ At(c, "pushing") /\ Len(queue) < RequestCap /\ ~glob_exit
  /\ queue' = Append(queue, [communicator_id |-> id[c], client |-> c])
  /\ Move(c, "serving") /\ asleep' = {}
  /\ UNCHANGED <<mains, links, owned, queue_freed, glob_exit>>

PushRefused(c) ==
  /\ At(c, "pushing") /\ glob_exit
  /\ Move(c, "closing") /\ asleep' = {}
  /\ UNCHANGED <<mains, links, owned, requests, glob_exit>>

\* The client left, was thrown out, or cannot be sent to.
Leave(c) ==
  /\ At(c, "serving") /\ ~glob_exit /\ Move(c, "closing")
  /\ UNCHANGED <<mains, links, owned, asleep, requests, glob_exit>>

\* Mutant: the loop only tests loc_exit.
ObeyExitDeaf(c) == At(c, "serving") /\ glob_exit /\ UNCHANGED vars

\* The loop of communicator_main sees the flag.
ObeyExit(c) ==
  /\ At(c, "serving") /\ glob_exit /\ Move(c, "closing")
  /\ UNCHANGED <<mains, links, owned, asleep, requests, glob_exit>>

Return(c) ==
  /\ At(c, "closing") /\ Move(c, "returned")
  /\ CloseConn(c)
  /\ UNCHANGED <<mains, owned, asleep, requests, glob_exit>>

\* TM_thread_routine_init stores 1 in the exited field of the TM_thread_t.
SetExited(c) ==
  /\ At(c, "returned") /\ Move(c, "exited")
  /\ UNCHANGED <<mains, links, owned, asleep, requests, glob_exit>>

\* It frees the wrapper, and the operating system ends the thread.
End(c) ==
  /\ At(c, "exited") /\ Move(c, "ended")
  /\ made' = [made EXCEPT ![c] = @ \ {"wrapper"}]
  /\ UNCHANGED <<mains, links, id, freed, unjoined, asleep, requests, glob_exit>>

-----------------------------------------------------------------------------
(* The others                                                              *)

Connect(c) ==
  /\ conn[c] = "away" /\ main # "done"
  /\ conn' = [conn EXCEPT ![c] = "backlog"]
  /\ UNCHANGED <<mains, closes, lives, requests, glob_exit>>

\* The server thread pops a request and wakes who sleeps.
ServerTakes ==
  /\ queue # << >> /\ queue' = Tail(queue) /\ asleep' = {}
  /\ UNCHANGED <<mains, links, thread, owned, queue_freed, glob_exit>>

SpuriousWake(c) ==
  /\ c \in asleep /\ main # "done" /\ asleep' = asleep \ {c}
  /\ UNCHANGED <<mains, links, thread, owned, requests, glob_exit>>

GlobalExit ==
  /\ ~glob_exit /\ glob_exit' = TRUE
  /\ UNCHANGED <<mains, links, lives, requests>>

-----------------------------------------------------------------------------

AcceptLoop == LoopHead \/ (\E c \in Conns : Accept(c)) \/ SweepSlot \/ SweepDone
              \/ Refuse \/ Create
Shutdown   == JoinSlot \/ JoinDone \/ DestroyWakes \/ DestroyQueue
MainStep   == AcceptLoop \/ Shutdown

Push(c)       == PushSleeps(c) \/ PushAccepted(c) \/ PushRefused(c)
ThreadStep(c) == Push(c) \/ ObeyExit(c) \/ Return(c) \/ SetExited(c) \/ End(c)

Next == \/ MainStep \/ AcceptFails \/ JoinFails \/ \E thing \in Things : CreateFails(thing)
        \/ \E c \in Conns : \/ ThreadStep(c) \/ MakeRequest(c) \/ Leave(c)
                            \/ Connect(c) \/ SpuriousWake(c)
        \/ ServerTakes \/ GlobalExit

Spec == Init /\ [][Next]_vars

\* The main thread and each communicator are scheduled; Communicator shows
\* that one which is awake obeys glob_exit.  accept fails only finitely often
\* in a row while a client waits.  No failure need happen, and clients and the
\* server thread owe nothing.
Fairness == /\ WF_vars(AcceptLoop \/ Shutdown)
            /\ SF_vars(\E c \in Conns : Accept(c))
            /\ \A c \in Conns : WF_vars(ThreadStep(c))
FairSpec == Spec /\ Fairness

-----------------------------------------------------------------------------
(* Properties                                                              *)

\* Every variable has its type.
TypeOK ==
  /\ main \in MainPoints /\ i \in 0 .. MaxClients
  /\ new_connection \in Conns \cup {NULL}
  /\ slots \in [Slots -> Conns \cup {NULL}]
  /\ conn \in [Conns -> {"away", "backlog", "open", "closed"}]
  /\ closes \in [Conns -> Nat]
  /\ thread \in [Conns -> ThreadPoints]
  /\ id \in [Conns -> Slots \cup {NULL}]
  /\ made \in [Conns -> SUBSET Things]
  /\ freed \subseteq Conns /\ unjoined \subseteq Conns /\ asleep \subseteq Conns
  /\ queue \in Seq([communicator_id : Slots, client : Conns])
  /\ Len(queue) <= RequestCap
  /\ queue_freed \in BOOLEAN /\ glob_exit \in BOOLEAN

\* Every accepted connection is in the hands of the main thread or of one
\* communicator that will close it, and none is closed twice (a double free),
\* wherever the creation of the communicator fails: then nothing made for it is
\* left either.
InUse == {"serving", "pushing", "closing"}
ConnectionsAccounted ==
  \A c \in Conns :
    /\ closes[c] = IF conn[c] = "closed" THEN 1 ELSE 0
    /\ (new_connection = c) <=> (conn[c] = "open" /\ thread[c] = "none")
    /\ thread[c] \in InUse => conn[c] = "open"
    /\ conn[c] = "open" => new_connection = c \/ thread[c] \in InUse
    /\ thread[c] = "none" => made[c] = {}

\* A thread that has not been destroyed holds one slot, the one its id names:
\* it will be swept and joined, and no living communicator shares its id.  A
\* request, which carries the id, may wait longer than the client keeps the slot;
\* it names its client until that client's thread has been swept, and afterwards
\* comes before those of the next holder.
EachInItsSlot ==
  /\ \A c \in Conns : thread[c] # "none" /\ c \notin freed =>
       id[c] \in Slots /\ \A k \in Slots : slots[k] = c <=> k = id[c]
  /\ \A n \in DOMAIN queue :
       /\ queue[n].client \in freed \/ slots[queue[n].communicator_id] = queue[n].client
       /\ \A m \in 1 .. n - 1 :
            queue[m].communicator_id = queue[n].communicator_id =>
              queue[m].client = queue[n].client \/ queue[m].client \in freed

\* No thread still needs what is freed: what was made for it until it has set
\* exited, the wrapper until it has ended, the request queue as long as it can
\* push.  Only a thread whose join failed may find the queue freed: TM_join's answer
\* is ignored.
NoUseAfterFree ==
  /\ \A c \in freed : thread[c] \in {"exited", "ended"} /\ c \notin Range(slots)
  /\ \A c \in Conns :
       /\ thread[c] \in InUse \cup {"returned"} => made[c] = Things
       /\ thread[c] = "exited" => "wrapper" \in made[c]
  /\ queue_freed => \A c \in Conns \ unjoined : thread[c] \in {"none", "exited", "ended"}

\* "this should remove all the threads": after the joins and the last sweep no
\* thread runs on, and nothing of one is left allocated.  A join that fails leaves
\* its own thread and slot, and no other.
AllRemoved ==
  main \in {"destroy", "done"} =>
    /\ \A k \in Slots : slots[k] \in unjoined \cup {NULL}
    /\ \A c \in Conns \ unjoined :
         /\ thread[c] \in {"none", "exited", "ended"} /\ conn[c] # "open"
         /\ made[c] \subseteq (IF thread[c] = "exited" THEN {"wrapper"} ELSE {})

\* A client that connects is taken on or refused, or the server exits: nothing the
\* main thread does between two accepts blocks it.  When glob_exit is set while
\* it sits in accept, one more client, whatever becomes of it, makes it leave
\* the loop.
Left == main \in {"join", "last_sweep", "destroy", "done"}
ClientAnswered ==
  \A c \in Conns : conn[c] = "backlog" ~> (conn[c] # "backlog" /\ ~glob_exit) \/ Left

\* Once the main thread has left its loop and nobody sleeps in push_back the
\* shutdown completes.
ShutdownCompletes == main = "join" /\ asleep = {} ~> main = "done"
=============================================================================
