---------------------------- MODULE BoundedFifo ----------------------------
(***************************************************************************)
(* What server/shared_queue.h promises its callers, with no lock, no ring  *)
(* and no waiting: a first-in first-out channel of bounded capacity that   *)
(* owns the elements between a push and the pop that takes them out, and   *)
(* that carries nothing any more once it has been destroyed.               *)
(***************************************************************************)
EXTENDS Naturals, Sequences

CONSTANTS Elements,   \* the heap objects that travel through the queue
          Capacity    \* the cap argument of make_shared_queue

VARIABLES contents,   \* the elements the queue owns, oldest first
          held,       \* the elements some caller owns
          open        \* FALSE once destroy_shared_queue has returned

vars == <<contents, held, open>>

Init == /\ contents = << >>
        /\ held = Elements
        /\ open = TRUE

\* A push hands its element over only when there is room for it.
Enqueue(e) == /\ open
              /\ e \in held
              /\ Len(contents) < Capacity
              /\ contents' = Append(contents, e)
              /\ held' = held \ {e}
              /\ UNCHANGED open

\* A pop gives the oldest element, and the ownership of it, to its caller.
Dequeue == /\ open
           /\ contents # << >>
           /\ contents' = Tail(contents)
           /\ held' = held \cup {Head(contents)}
           /\ UNCHANGED open

\* The queue is freed; what it still contained reaches nobody.
Retire == /\ open
          /\ open' = FALSE
          /\ contents' = << >>
          /\ UNCHANGED held

Next == \/ \E e \in Elements : Enqueue(e)
        \/ Dequeue
        \/ Retire

Spec == Init /\ [][Next]_vars
=============================================================================
