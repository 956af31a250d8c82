-------------------------------- MODULE Arena --------------------------------
(***************************************************************************)
(* server/src/arena.c: memory pools.  An arena is its first page; the      *)
(* pages are linked by next_region, and prev_region of the first names the *)
(* last.  A block is cut from the first page it fits in; when there is     *)
(* none a page is added.  arena_give_child appends the pages of one arena  *)
(* to another, and a destroyed arena takes all its pages with it.          *)
(*                                                                         *)
(* Every arena belongs to one thread, so the calls do not overlap.  Only   *)
(* the allocation is more than one step: one for each turn of its loop.    *)
(* free_mem is region + size in every state, so size stands for both.      *)
(* Sizes are size_t: sums are taken modulo SizeSpace, and request.c really *)
(* asks for sizes so large that they wrap.                                 *)
(***************************************************************************)
EXTENDS Integers, FiniteSets

CONSTANTS NULL,
          ABORTED,    \* an allocation that an assertion has ended, and the process with it
          DefPage,    \* ARENA_DEF_PAGE_SIZE
          SizeSpace,  \* how many values a size_t has
          Bases,      \* the addresses malloc returns, as far as alignment goes
          Sizes,      \* bound: the sizes asked for
          Aligns,     \* bound: the alignments asked for, powers of 2
          MaxPages,   \* bound: pages ever allocated
          MaxBlocks   \* bound: blocks allocated at a time

ASSUME ArenaAssumption ==
  /\ SizeSpace \in Nat /\ DefPage \in 1 .. SizeSpace - 1 /\ Bases \subseteq Nat
  /\ Sizes \subseteq 1 .. SizeSpace - 1 /\ Aligns \subseteq 1 .. DefPage
  /\ MaxPages \in Nat /\ MaxBlocks \in Nat

Pages == 1 .. MaxPages
Call  == [arena : Pages, page : Pages, sz : Sizes, align : Aligns]
ASSUME NullAssumption == /\ NULL \notin Pages /\ NULL \notin Call
                         /\ ABORTED \notin Call \cup {NULL}

VARIABLES
  next,     \* next_region of each page
  prev,     \* prev_region
  size,     \* size, and free_mem - region
  capacity, \* capacity
  base,     \* region
  made,     \* pages allocated so far: 1 .. made
  live,     \* those not freed yet
  heads,    \* the arenas their callers hold
  blocks,   \* history: the blocks handed out and not yet released
  call,     \* the allocation in progress
  grafted,  \* history: an arena of several pages has been given away
  wrapped   \* history: the pages whose size a sum that wrapped has set back

links == <<next, prev>>
sizes == <<size, capacity, base>>
vars == <<next, prev, size, capacity, base, made, live, heads, blocks, call, grafted,
          wrapped>>

Idle       == call = NULL
Allocating == call \notin {NULL, ABORTED}

Init == /\ next = [p \in Pages |-> NULL] /\ prev = [p \in Pages |-> NULL]
        /\ size = [p \in Pages |-> 0] /\ capacity = [p \in Pages |-> 0]
        /\ base = [p \in Pages |-> 0]
        /\ made = 0 /\ live = {} /\ heads = {} /\ blocks = {} /\ call = NULL
        /\ grafted = FALSE /\ wrapped = {}

\* The pages from a on, along next_region: those in every set of pages that holds
\* a and, with a page, its successor.
Closed(S) == \A p \in S : next[p] # NULL => next[p] \in S
Chain(a)  == {p \in Pages : \A S \in SUBSET Pages : a \in S /\ Closed(S) => p \in S}

\* A page from malloc with a given capacity, empty and with no successor.
NewPage(cap) ==
  /\ made < MaxPages /\ made' = made + 1 /\ live' = live \cup {made + 1}
  /\ size' = [size EXCEPT ![made + 1] = 0]
  /\ capacity' = [capacity EXCEPT ![made + 1] = cap]
  /\ \E b \in Bases : base' = [base EXCEPT ![made + 1] = b]

-----------------------------------------------------------------------------
(* create_arena; when it fails nothing changes                             *)

CreateArena ==
  /\ Idle
  /\ NewPage(DefPage)
  /\ prev' = [prev EXCEPT ![made + 1] = made + 1]
  /\ heads' = heads \cup {made + 1}
  /\ UNCHANGED <<next, blocks, call, grafted, wrapped>>

-----------------------------------------------------------------------------
(* _arena_aligned_alloc                                                    *)

Alloc(a, sz, align) ==
  /\ Idle /\ a \in heads /\ Cardinality(blocks) < MaxBlocks
  /\ call' = [arena |-> a, page |-> a, sz |-> sz, align |-> align]
  /\ UNCHANGED <<links, sizes, made, live, heads, blocks, grafted, wrapped>>

\* _calculate_align_offset(curr_page->free_mem, align)
Offset == (-(base[call.page] + size[call.page])) % call.align

\* Mutant: the padding is not counted.
UsedUnpadded == call.sz

\* used_size
Used == (call.sz + Offset) % SizeSpace

\* Mutant: one byte too many.
FitsLate == (size[call.page] + Used) % SizeSpace <= capacity[call.page] + 1

\* The negated condition of the loop.
Fits == (size[call.page] + Used) % SizeSpace <= capacity[call.page]

\* None of these sums wraps.
Straight == size[call.page] + call.sz + Offset < SizeSpace

NextPage ==
  /\ Allocating /\ ~Fits /\ next[call.page] # NULL
  /\ call' = [call EXCEPT !.page = next[call.page]]
  /\ UNCHANGED <<links, sizes, made, live, heads, blocks, grafted, wrapped>>

\* The links _inc_arena sets: the page goes behind the one the head calls last.
Link(p) ==
  /\ next' = [next EXCEPT ![prev[call.arena]] = p]
  /\ prev' = [prev EXCEPT ![p] = prev[call.arena], ![call.arena] = p]

\* Mutant: no allowance for the alignment of the reallocated page.
GrownCapTight == IF Used > DefPage THEN call.sz ELSE DefPage

\* The capacity of an added page: _inc_arena_page enlarges the empty page when
\* the block would not fit in one of the usual size, aligned as on the last page.
GrownCap == IF Used > DefPage THEN (call.sz + call.align - 1) % SizeSpace ELSE DefPage

\* assert(cap > ARENA_DEF_PAGE_SIZE) of _inc_arena_page.
Asserted == Used > DefPage => GrownCap > DefPage

AddPage ==
  /\ Allocating /\ ~Fits /\ next[call.page] = NULL /\ Asserted
  /\ NewPage(GrownCap)
  /\ Link(made + 1)
  /\ call' = [call EXCEPT !.page = made + 1]
  /\ UNCHANGED <<heads, blocks, grafted, wrapped>>

\* The capacity has wrapped.
GrowAborts ==
  /\ Allocating /\ ~Fits /\ next[call.page] = NULL /\ ~Asserted
  /\ call' = ABORTED
  /\ UNCHANGED <<links, sizes, made, live, heads, blocks, grafted, wrapped>>

\* realloc fails: _dec_arena takes the page away that _inc_arena has added.
GrowFails ==
  /\ Allocating /\ ~Fits /\ next[call.page] = NULL /\ Used > DefPage /\ Asserted
  /\ next' = [next EXCEPT ![prev[call.arena]] = NULL]
  /\ call' = NULL
  /\ UNCHANGED <<prev, sizes, made, live, heads, blocks, grafted, wrapped>>

\* _inc_arena gets no memory.
AddFails ==
  /\ Allocating /\ ~Fits /\ next[call.page] = NULL
  /\ call' = NULL
  /\ UNCHANGED <<links, sizes, made, live, heads, blocks, grafted, wrapped>>

AllocDone ==
  /\ Allocating /\ Fits
  /\ size' = [size EXCEPT ![call.page] = (@ + Used) % SizeSpace]
  /\ wrapped' = IF Straight THEN wrapped ELSE wrapped \cup {call.page}
  /\ LET from == size[call.page] + Offset
     IN blocks' = blocks \cup {[arena |-> call.arena, page |-> call.page, from |-> from,
                                to |-> from + call.sz, align |-> call.align]}
  /\ call' = NULL
  /\ UNCHANGED <<links, capacity, base, made, live, heads, grafted>>

-----------------------------------------------------------------------------
(* arena_give_child, arena_reset and arena_destroy                         *)

\* The blocks of the child are the parent's from now on.
GiveChild(parent, child) ==
  /\ Idle /\ parent \in heads /\ child \in heads \ {parent}
  /\ next' = [next EXCEPT ![prev[parent]] = child]
  /\ prev' = [prev EXCEPT ![parent] = child, ![child] = prev[parent]]
  /\ heads' = heads \ {child}
  /\ blocks' = {[b EXCEPT !.arena = IF @ = child THEN parent ELSE @] : b \in blocks}
  /\ grafted' = (grafted \/ next[child] # NULL)
  /\ UNCHANGED <<sizes, made, live, call, wrapped>>

\* The head of a is empty again, or gone.
Release(a) == /\ blocks' = {b \in blocks : b.arena # a}
              /\ wrapped' = wrapped \ {a}

\* Mutant: the head keeps its successor.
ResetKeeps(a) ==
  /\ Idle /\ a \in heads
  /\ size' = [size EXCEPT ![a] = 0]
  /\ prev' = [prev EXCEPT ![a] = a]
  /\ live' = live \ (Chain(a) \ {a})
  /\ Release(a)
  /\ UNCHANGED <<next, capacity, base, made, heads, call, grafted>>

Reset(a) ==
  /\ Idle /\ a \in heads
  /\ size' = [size EXCEPT ![a] = 0]
  /\ prev' = [prev EXCEPT ![a] = a] /\ next' = [next EXCEPT ![a] = NULL]
  /\ live' = live \ (Chain(a) \ {a})
  /\ Release(a)
  /\ UNCHANGED <<capacity, base, made, heads, call, grafted>>

Destroy(a) ==
  /\ Idle /\ a \in heads
  /\ live' = live \ Chain(a)
  /\ heads' = heads \ {a}
  /\ Release(a)
  /\ UNCHANGED <<links, sizes, made, call, grafted>>

-----------------------------------------------------------------------------

AllocStep == NextPage \/ AddPage \/ GrowAborts \/ GrowFails \/ AddFails \/ AllocDone

Next == \/ CreateArena \/ AllocStep
        \/ \E a \in heads : \/ \E sz \in Sizes, align \in Aligns : Alloc(a, sz, align)
                            \/ \E child \in heads : GiveChild(a, child)
                            \/ Reset(a) \/ Destroy(a)

Spec == Init /\ [][Next]_vars

-----------------------------------------------------------------------------
(* Properties                                                              *)

Block == [arena : Pages, page : Pages, from : Nat, to : Nat, align : Aligns]

\* Every variable has its type, and no page is filled beyond its capacity.
TypeOK ==
  /\ next \in [Pages -> Pages \cup {NULL}] /\ prev \in [Pages -> Pages \cup {NULL}]
  /\ size \in [Pages -> Nat] /\ capacity \in [Pages -> Nat]
  /\ base \in [Pages -> Bases \cup {0}]
  /\ made \in 0 .. MaxPages /\ live \subseteq 1 .. made /\ heads \subseteq live
  /\ blocks \subseteq Block /\ call \in Call \cup {NULL, ABORTED}
  /\ grafted \in BOOLEAN /\ wrapped \subseteq Pages
  /\ \A p \in Pages : size[p] <= capacity[p]

\* A block is aligned as asked for, and its page stays allocated as long as the
\* arena it was cut from, or the one that was given to, is neither reset nor
\* destroyed.  It is within its page and shares no byte with another, whatever
\* sequence of calls went before, unless one of them asked this very page for a
\* size that wrapped: the code hands such a block out, and then its predecessors'
\* bytes again, until the page is reset.  Other pages are not harmed.
BlocksSound ==
  \A b \in blocks :
    /\ b.page \in live /\ b.arena \in heads
    /\ (base[b.page] + b.from) % b.align = 0
    /\ b.page \notin wrapped =>
         /\ b.to <= size[b.page]
         /\ \A c \in blocks \ {b} : c.page = b.page => b.to <= c.from \/ c.to <= b.from

\* Each page is freed exactly once, in whatever order the arenas are destroyed:
\* two arenas share none, no arena holds a freed one, and, as long as only
\* arenas of one page are given away, each that has not been freed belongs to an
\* arena some caller can still destroy.
FreedOnce ==
  /\ \A a \in heads :
       /\ Chain(a) \subseteq live
       /\ \A b \in heads \ {a} : Chain(a) \cap Chain(b) = {}
  /\ ~grafted => live = UNION {Chain(a) : a \in heads}

\* A page enlarged for a block takes it, however realloc moved the page, so an
\* allocation never goes on adding pages: a size that leaves no room for the
\* alignment below SizeSpace ends in the assertion before.
GrownPageFits ==
  /\ Allocating /\ size[call.page] = 0 /\ capacity[call.page] > DefPage
  /\ call.page \notin wrapped
  => Fits

-----------------------------------------------------------------------------
(* A statement of the repository the code does not keep                    *)

\* create_arena, "head is the tail": prev_region of the head is the last page.
HeadKnowsTail == \A a \in heads : prev[a] \in Chain(a) /\ next[prev[a]] = NULL
=============================================================================
