# IOMessage: formal model

TLA+ modules, TLC runs and TLAPS proofs about the IOMessage server, a messaging
server in C (Windows threads and Winsock; the Linux files are empty). The source is
`src/`, the index of everything below is `PROJECT.json`: which definition stands for
which lines, which run checks which property, what each theorem says.

## 1. The system

    client --requests--> communicator --request_queue--> server thread (TODO in the code)
           <--responses-              <--response_queue-

* **Main thread** (`server/src/main.c`). State: `communicator_list` (a slot per
  client), `glob_exit`, the request queue. Accepts a connection, sweeps the slots of
  exited threads, refuses the connection or starts a communicator in the first free slot;
  on `glob_exit` joins all, sweeps again, destroys the queue.
  *Correct if* every accepted connection is closed once, a thread's memory is freed only
  when the thread needs it no more, and shutdown leaves nothing running.
* **Communicator** (`server/src/CommunicationManager.c`), one thread per client. State: an
  inactivity timer, an error count, the reason to exit, a receive buffer, the connection
  with its error field. Loop: give up on a bad client, send queued responses, read one
  request, handle heartbeats and exits, push anything else for the server.
  *Correct if* bad clients and only they are thrown out, requests and responses keep their
  order, and the thread ends for the reason it gives.
* **Request framing** (`recv_req`). Cuts the byte stream at unescaped `]` and keeps the
  rest of the last block. *Correct if* the cuts do not depend on how the network chops the
  stream, no byte is lost and no buffer overrun.
* **Shared queue** (`server/src/shared_queue.c`). A ring of pointers, one mutex, one
  condition variable for everybody, a count of waiting threads, two exit flags.
  *Correct if* it is a FIFO channel, no wake-up is missed, and it can be destroyed under
  blocked threads.
* **Arena** (`server/src/arena.c`). A list of pages with bump allocation; arenas can be
  given away. *Correct if* blocks do not overlap and every page is freed once.
* **NetworkManager, ThreadManager**. Thin layers over Winsock and Windows threads; the
  error field of a connection and the `exited` flag of a thread are their state.
* **Request parsing** (`server/src/request.c`). Cuts `[{type}{params}{payload}]` into a
  `request_t` with a linked list of parameters. *Correct if* what `request.h` describes is
  understood as it says, nothing is found that is not there, and every failure frees what
  was made.
* **Responses** (`server/src/response.c`). Escape a text and put it in a frame. *Correct
  if* the receiver can take the text out again.
* **Properties** (`utils.c`, `parse_args` of `main.c`). Defaults, a config file, options;
  they give the sizes everything else works with. *Correct if* the values in force are the
  ones asked for, and no value breaks what relies on it.
* **String utilities, logging** (`utils.c`): sequential functions on strings.
* **Client** (`client/`): reads lines, sends requests; it reads no response.
* **Server thread**: announced (`main.c:21`, `TODO`), not in the repository. The modules
  that need it let it pop requests and queue responses at any time, and never rely on it.

Interaction is by the two queues, by the pointers in the arguments of a thread, by the
`exited` flag, by `glob_exit`, and by the socket.

**What is hard**: two kinds of waiters on one condition variable; a destroyer that waits
for the waiters on that same variable; a stop flag nobody broadcasts; two counters
(silence, errors) that different events reset; an error field read after calls that did not
set it; ids that are slots and are reused; a flag set in memory that somebody else frees;
a leftover buffer between calls; page lists with two ends; escapes judged by one byte;
sizes that become negative; allocations that fail half-way. Each is listed at its line
under `hazards` in `PROJECT.json` with the properties that watch it.

## 2. Modules

| module | models | composed of |
|---|---|---|
| `BoundedFifo` | what a queue promises (abstract) | |
| `SharedQueue` | `shared_queue.c`, its mutex and condition variable | implements `BoundedFifo` |
| `SharedQueueProofs` | theorems, the refinement of `BoundedFifo` among them | extends `SharedQueue` |
| `Communicator` | `communicator_main` and what it calls, with the error field of NetworkManager | its queues are the FIFO channels `SharedQueue` implements |
| `CommunicatorProofs` | theorems | extends `Communicator` |
| `RecvReq` | `recv_req`, the receive buffer, `escaped_strchr` | |
| `RecvReqProofs` | theorems | extends `RecvReq` |
| `Server` | `main.c`, the thread wrapper | communicators reduced to what `Server` sees |
| `ServerProofs` | theorems | extends `Server` |
| `Arena` | `arena.c` | |
| `ArenaProofs` | theorems | extends `Arena` |
| `Texts` | the text functions of `utils.c` and `response.c`; the reading they are measured against | |
| `Request` | `make_req` of `request.c` | extends `Texts` |
| `RequestProofs` | theorems | extends `Request` |
| `Exchange` | a request and the response to it | extends `Request` with `response.c` |
| `ExchangeProofs` | theorems | extends `Exchange`, `RequestProofs` |
| `Startup` | `parse_args`, the properties, the start of `main` | its `AssumptionsMet` is what the constants of `Server`, `SharedQueue` and `Communicator` assume |
| `StartupProofs` | theorems | extends `Startup` |
| `MCExchange`, `MCStartup` | the texts, command lines and files of the runs | |

**`SharedQueue`.** `slots`, `head`, `tail`, `size`, `waiting`, `exit_state` are the
fields of `shared_queue_t` (pointers as indices); `external_exit` is `*external_exit_state`;
`asleep` is the wait set of `cond_var`. Every field is touched with the mutex held only,
so a stretch from taking the mutex to releasing it (or to sleeping, which releases it) is
one step: `PushWait`, `PushRefused`, `PushAccepted`, and so on. The external flag is read
without a lock, but only goes from 0 to 1, so reading it twice in a stretch has the same
outcomes as reading it once. `outside`, `arg`, `destroyed` say who owns each element.
`DestroyCall` has the precondition `shared_queue.h:43` puts on the caller: no operation
starts any more, those already blocked may be there. Left out: failing allocations of
`make_shared_queue` (it returns NULL and leaves nothing) and the two getters.

**`Communicator`.** One action per branch. `pc` names the points of the loop. `inactive`,
`client_errors`, `loc_exit` are the locals; `conn_error` is the field `NM_get_error` reads
and resets. `AfterSend` says what that field can be after `NM_send_all`, whose own log
message resets it. `Status` is the assignment with the misplaced parenthesis of line 55.
`recv_req` is one step here, with every outcome `RecvReq` shows; `make_req` succeeds or
not. The server's responses are numbered above the exit codes, so that a response is never
taken for a farewell. `trail`, `told`, `taken`, `dropped`, `made` are histories for the properties.

**`RecvReq`.** Bytes are `]`, `\`, 0 and any other, and are known by their place in the
stream. A step is one turn of the loop of `recv_req`. A 0 hides what follows it
(`Visible`): behind the end of a request it loses the rest of the block, in a request it
keeps it from ever ending. Where a request begins with `]`, `is_escaped` reads the byte
before the allocation: the answer is arbitrary in the model, and may change from one block to
the next, because `realloc` moves the request. `strayed` remembers that it happened. Conservation
and framing are about streams on which it did not; `BuffersInBounds` is about all, because such a
request is the one way past the end of a buffer: `recv_req` reads on behind a `]` it takes for
escaped, then no longer does, and has more than a block to put back. `recv_buf`'s `cap` counts
one byte more than its `malloc` (`CommunicationManager.c:268-269`), and that byte is written.

**`Texts`, `Request`, `Exchange`.** Characters are one-letter strings, and names of types
are abridged to their first letter. `pc` names the stretches of `make_req`, each ending
where an allocation may fail. In `allocate_request` and `create_node` several may:
`MadeBefore` says what each of them finds already made, `Undone` what the exit it leads to frees,
and `AllocateFails` and `ParamLost` leave the difference in `live`. `page` and `used` are the first page of `func_arena`, byte by
byte: when `}` stands before `{`, the size of a section is negative as a number and huge
as a `size_t`; `InPage` and `WrapsTwice` say when the arithmetic of the arena then stores
the section over others, fails, or runs into `assert(cap > ARENA_DEF_PAGE_SIZE)`. A turn of
the loop of `format_params` is one step; `nodes` is the linked list with its two links per
node. `Answers` are the texts the absent server may answer with: the request, its
payload, its payload unescaped. `Escaped` and `Unescaped` are the loops of the escaping
functions, as recursive functions of the number of characters done. `behind` is what stands behind the allocation of the
escaped copy, which gets no terminating zero.

**`Startup`.** Words are uninterpreted, `Strtol` says which are numbers. A line of the
file is one step; `LineNoMemory` is the failing `malloc` of one. `AsSize` is the
conversion to `size_t` after `abs`.

**`Server`.** `main` and `i` are the program counter and loop index of the main thread: a
sweep or join visits one slot per step, so threads finish in the middle of it. `thread[c]`
goes from `serving` to `ended`; `returned`, `exited` and `ended` are apart because
`TM_thread_routine_init` sets the flag after the function has returned and before the
thread ends. `made[c]` is what is allocated for a communicator. `CreateFails(thing)` is
`create_communicator` without the thing it cannot get: `Turn` is the order in which things are
made, `Undone` what the exit of each failure frees, in `make_shared_queue`,
`create_args_for_comm`, `TM_create_thread` and `create_communicator` together. `Refuse` is the
full list only. `TM_join` may fail (`JoinFails`), and `unjoined` remembers for whom; such a thread
may be inside `push_back` when the queue is destroyed, which wakes it and waits for it
(`DestroyWakes`, `DestroyQueue`), or come to it later, when the queue is gone: what it reads
then is not modelled.

**`Arena`.** `next`, `prev`, `size`, `capacity`, `base` are the fields of a page
(`free_mem` is always `region + size`). Sizes are `size_t`: the sums of `arena.c:96-106` are
taken modulo `SizeSpace`, and `request.c:168-169` really asks for sizes near its end. A sum that
wraps sets the page back, and `wrapped` remembers the page; the capacity of an enlarged page that
wraps ends in `assert(cap > ARENA_DEF_PAGE_SIZE)` (`GrowAborts`), and no call follows. An allocation takes one step per turn of its
loop; the other calls are one step. `Bases` are the alignments malloc may give; `Aligns` may be
any powers of 2, because `arena.h` declares `_arena_aligned_alloc` and lets `MAX_ALIGN`
be defined from outside.

## 3. Runs

Passing:

| run | bounds | shows |
|---|---|---|
| `SharedQueue` | 4 threads, 3 elements, capacity 2 | ring, ownership, wake-ups, destruction, in every interleaving; the queue implements `BoundedFifo`; destruction ends |
| `Communicator` | limits of 2 silences and 2 errors, 3 requests, 2 responses | who is thrown out, order, stale errors, reasons; useless clients leave, an awake thread obeys `glob_exit` |
| `RecvReq` | streams of 6 bytes, blocks of 3, maximum 6 | framing, what a 0 costs, how far a buffer is overrun |
| `Server` | 3 clients, 2 slots, 2 requests queued, 1 failed join, creation failing anywhere | connections, slots, ids, frees, what failures leave, shutdown; clients are answered, `glob_exit` is noticed, shutdown completes |
| `Arena` | 3 pages of 6 bytes, 3 blocks of 3, 5, 7 or 30 bytes, a `size_t` of 32 values | blocks and pages, and what sizes that wrap do to them |
| `Exchange` | every body of 6 characters out of `{ } \ h`; every form with a type and payload of 2; parameters of 5 out of `, : \ x`, and lists of three | requests are understood as documented, nothing leaks, the parser ends, responses are readable |
| `Startup` | command lines of 4 words, and those with two files and a port; six files | the properties, port and sizes in force |

Why the bounds suffice. *Queue*: capacity 2 tells full, empty and in between apart and
wraps; with four threads two of each kind can sleep at once and a wake-up can reach
the wrong one; the third element arrives when the ring is full. *Communicator*: a limit of
2 is the smallest with a state strictly between 0 and the limit, so that resets matter;
one request fits the queue and a second blocks. *Framing*: a request spans up to two
blocks, or one block holds three; the first allocation (4 bytes) is outgrown and the
maximum reached, and below it a lone `]` can leave a block and a byte to put back. *Server*: more clients than slots, so slots are refused, swept and
reused, while requests of their former holders wait; a thread that was not joined runs on
beside one that was. *Arena*: three pages make a child of
two, or two children; block sizes fit a page always, only when malloc aligns it well, or
never, and 30 of 32 wraps: on an empty page in the capacity, on a used one in the size. *Requests*: six characters hold every order of two pairs of braces with an escape in
between; three sections need the forms. Three parameters make a list with a node that is
neither head nor tail, and one without a name at either end. `Align` is 4 instead of 16,
which shortens the distances at which a negative size is stored, refused or aborts to
those short texts can have. *Startup*: an option twice, in either order, with good and bad
values, a value that is itself an option, and none. `MaxInt` is 70000 instead of
2^31 - 1; what matters is that it is more than a port.

Every property has a mutant, a changed definition of the code under which it fails
(`mutants` in `PROJECT.json`, "Mutant:" in the modules).

### Statements of the repository that the code does not keep

| run | statement | what happens |
|---|---|---|
| `SharedQueueLeak` | destroys "the elements inside" | `pop` refuses once `exit_state` is set; the elements leak |
| `CommunicatorGlobalExit` | `glob_exit` exits all threads | nobody wakes the sleepers |
| `CommunicatorSendFailure` | two outcomes of a failed send | precedence: always "closed" |
| `ExchangeEscapes` | `\\\\` may be used in a payload (`request.h:25`) | the brace behind it counts as escaped, the request is refused |
| `ArenaTail` | the head's `prev_region` is the tail | not after a child with several pages |

Seen while modelling, without a run of their own: the comments of `push_back` and
`try_push_back`, and of `pop` and `try_pop`, in `shared_queue.h:39-42` are swapped; a
thread asleep in `push_back` counts no silence, so its client is not timed out
(`CommunicationManager.h:6`); `loc_exit`, an exit code, is set to the response code
`UNGRACEFUL_EXIT` (`CommunicationManager.c:47` and `:58`), which no test after the loop
knows. A `communicator_id` is a slot, and requests of a client that has left may still be
queued when the slot is given to the next (`EachInItsSlot` says how far that goes).
A `]` that begins a request can make `put_in_buf` write one byte past the
allocation of `recv_buf` (`BuffersInBounds`). The answer of `TM_join` is ignored (`main.c:262`): after
a failure the thread's slot is never swept, and the queue is freed under a thread that may
still push (`NoUseAfterFree` and `AllRemoved` name it as the exception). A size that
wraps makes the arena hand out the same bytes twice (`BlocksSound`, likewise).
`request.h:21` calls a type `MSG` that `request.c:25` calls `MSG_T`. Fields of a request keep
their backslashes, and `make_unescaped_string` has no caller. A section that closes
before it opens is refused, stored over others, or aborts the server on the assertion
`arena.c:69`, depending on the distance. A name or value longer than a page makes its node
a child of several pages, the situation of `ArenaTail`. `make_escaped_string` writes no
terminating zero (`utils.c:174`): the model makes the copies that run on into what stands behind
them, and `ReplyReadable` is about those that do not. A value that is no number counts as 0 without the message
of `utils.c:245`, which is for numbers out of range only; `MAX_CLIENTS=0` ends in the assertion
of `arena_calloc`. Without memory for a line, `utils.c:289` announces that it is skipped and
then stores the next one through the null pointer. The config file is never closed.

### Fairness

`Exchange`: `make_req` keeps running, as its thread does; nobody has to answer.
`SharedQueue`: each thread that can run takes a step (the system schedules it, a
critical section starves nobody); nobody has to call, and a spurious wake-up need not
come. `Communicator`: only the thread itself, because every read has a timeout and a
maximal length; neither client nor server owe anything. `Server`: the main thread and
each communicator; `accept` eventually succeeds when a client keeps waiting (strong
fairness, because failures interrupt it). No fairness on clients, on the server thread
or on `glob_exit`.

## 4. Proofs

`SharedQueueProofs` holds for any finite set of threads, any
elements and any capacity above 0, from `QueueAssumption` (what `make_shared_queue` and
the assertion of `push_back` enforce).

`IInv` is the conjunction of all safety properties of `SharedQueue` and the facts they need
of each other: `NoMissedWakeup` needs `RingConsistent` (full and empty mean what they
say) and `WaitingCounts` (a sleeping destroyer has a thread to wait for); `NoUseAfterFree`
needs `WaitingCounts` (a count of 0 means that nobody is in the loops) and what is known
of callers once destruction has begun; `SingleOwner` needs `RingConsistent`. There is
one lemma per action; `PushElRing`, `PopElRing` (the ring), `CountJoin`, `CountLeave`
(the counter as a cardinality) and `OwnerPush`, `OwnerGiveBack` (ownership) are shared by
them. `Inductive` combines them; `TypeCorrect`, `RingCorrect`, `OwnershipCorrect`,
`WaitingCorrect`, `WakeupCorrect`, `DestructionSafe` are its corollaries.

`QueueImplementsFifo`: the mapping reads the ring from `head` as a sequence. A push
appends to it, a pop takes its head, freeing the queue retires what is left, all other steps
stutter; `IInv` supplies the shape of the ring in every reachable state.

`DestructionMovesOn`, `ShutdownOnlyForward` (`ServerProofs`), `SessionsMoveOn`
(`CommunicatorProofs`) and `AlwaysMovesOn` (`RequestProofs`) are what the liveness
properties rest on and a proof can reach: action properties, with no fairness, that say
that no step, of whatever actor, leads away from the end, and what gets less. A
destruction: threads leave, the destroyer advances, or somebody only wakes or goes to
sleep, and after `exit_state` no thread goes to sleep in a wait loop again. A shutdown: the main thread has fewer points or
turns left, a thread or connection is further on its way, a sleeper wakes, or the queue is
shorter. A session of a client that sends nothing useful: errors left, silences left, points
left in the turn, responses to send, in this order; once `glob_exit` is set, the way out
without another turn; what remains excepted is sleep in `push_back` and what the server
queues meanwhile. `make_req`: the sections to read, then the characters behind the loop over
the pairs. What the proofs leave to TLC is that an actor is always able, and by fairness
bound, to take such a step.

`ServerProofs` holds for any set of connections, any number of slots and any
capacity of the request queue above 0 (`ServerAssumption`, what the assertions of
`arena_calloc` and `push_back` enforce), and any number of failed joins. `IInv` adds five facts to the safety properties of `Server`.
`HandsFull`: between accept and placing, the main thread holds a connection, which nobody
else owns (`ConnectionsAccounted` needs it to hand over or close). `ThreadsMade`: what is in
a slot is a thread, what is not yet accepted has none. `MadeLeft`: of a destroyed communicator at most
the wrapper is left, which its thread frees as it ends. `JoinsMade`: a slot that was passed stays
joined, or its thread is one whose join failed, so the last sweep finds every other flag set and
leaves each other slot empty behind it; at
its end `EachInItsSlot` says that a thread in no slot has been destroyed, and that is
`AllRemoved`. `FreedLast`: the queue is freed by the last step, hence under no thread that was joined.
`AllUndone` goes through the six failures of a creation: what was made before each is what its
exits free.
`MoveStep` and `AsideStep` are shared by the steps of a thread that touch nothing others
rely on. In `PushAcceptedStep` lies the argument of `EachInItsSlot` on reused ids: an older
request with the same id belongs to the slot's holder or to a destroyed thread.

`CommunicatorProofs` holds for any limits, capacities and numbers of requests and responses
(`CommunicatorAssumption`; a limit may be 0, as `get_num_property` may yield it).
`ThrownOutJustly` speaks of the client's record (`trail`), the code keeps two counters:
`Counters` says that they are what the record says, and `LongerRecord` how each reading
changes the counts of the record (a malformed request counts as an error and ends a silence).
`Thrown` carries a sent farewell over to the end of the session; without it, the reads
after it could not be excluded. `RepliesInOrder` needs to know how the session goes on:
what is queued continues what was sent (`RepliesContinue`). `RequestsInOrder` follows from
`Places`: the request of each number is among those taken, those queued, the one being
pushed, or the one dropped, in this order. `ExitExplained` needs `Reasons`: while the
session lasts, no error survives the call that made it.

`ArenaProofs` holds for any number of pages, page size, addresses, and sizes and alignments
asked for, of a `size_t` of any width above the page size (`ArenaAssumption`, and `NullAssumption`: the null pointer is no page and no
call). `Chain(a)`, the pages of an arena, is the least set with its head that is closed
under `next`, which makes "reachable" provable without induction. `Chains`: arenas share no
page, and the head's `prev` stays in its own chain even where it is not the tail
(`ArenaTail`), so that a page appended there lands in the right arena. `Ungrafted` is what
is lost when an arena of several pages is given away: until then each living page is in an
arena. `BlocksAtHome` keeps a block alive when another arena is freed. `Enlarged`: a page
larger than the default is empty only during the allocation it was enlarged for, which it
fits (`GrownPageFits`): `Asserted` leaves no size for which the capacity wraps. `StraightSums` makes
the sums of a page that is not in `wrapped` plain numbers; for the others only alignment,
lifetime and `size <= capacity` remain. That a block is aligned is `PaddingAligns`: the padding of
`_calculate_align_offset` aligns any address for any alignment.

`RecvReqProofs` holds for any stream, block size and maximum. `StreamConserved` and
`FramingExact` are inductive together with `Consecutive` (what is in the socket and in
`recv_buf` are bytes of the stream without a gap), `HistorySound` (what was returned or
thrown away is gone), `NoEndYet` (no unescaped `]` behind the first byte of the request being
read: the end a search finds is in the new block, or is that first byte), `RoomForZero` (the
allocation keeps a byte for the zero) and `OverrunKnown` (a full `recv_buf` with a byte too many
was left by a lone `]`). `BuffersInBounds` follows from the last two, on every stream: an end in
the new block leaves less than a block behind it, so only an end at the first byte leaves more. `RequestsWhole` joins framing and parsing:
each text returned, on a stream it strayed on too, has no zero inside, ends with `]` and is
shorter than the maximum; the first two are what `RequestAssumption` asks of the texts
`make_req` is given.

`StartupProofs` holds for any command lines and files, from `StartupAssumption` (both are
sequences; an `int` holds every port and a `size_t` every `int`; an option is neither a
number nor the name of a file). `PortSoFar` and `ConfigSoFar` say that after each word what
is set comes from the latest option of its kind, and after each line that each property has
the last value the lines so far give it, or its default; at the end of the command line they
are `LastOptionsInForce`. `AssumptionsMet` shows that a server that serves has between
one and `MaxInt` slots and places in the queue, so that the assumptions of `Server` and
`SharedQueue` are not only made but met.

`RequestProofs` holds for any texts `recv_req` can return and any `MAX_ALIGN`
(`RequestAssumption`: a text ends with `]` and has no zero inside). `Holding` says what is
allocated at each point of `make_req`, and each failure path frees exactly that
(`NothingLeaked`; `NothingLeft` for those inside `allocate_request` and `create_node`). `SectionsCut`: unless a section ended before it began, the sections are
what stands between braces found one behind the other, and later writes leave the copies
alone. For a request of the documented form `FormedIs` and `CutsAre` show that
the searches stop at its six braces, so that no section can be missing and only failing
memory refuses it (`FormedSound`). `InOrder`: the list is linked in the order of creation, so
walking it visits all nodes. `PairsMade`: the loop stands behind a comma of the parameters,
and the nodes are the named pairs before it, but for those lost to memory. `Increasing`, which
gives the elements of a set of places in order, is characterised once
(`IncreasingIsOnly`); `ParamsExact`, which compares the list with what `request.h` describes,
rests on it. The proof showed an error of the model: in `Written`, which stores a section in
the page, two branches of a CASE overlapped where a section ends behind the page.

`ExchangeProofs` has the parser and the reply together. `ExchangeImplementsRequest`: to
`Request`, making a response is a stutter, so that `RequestKept` carries everything proved of
the parser over to the runs of `Exchange`. `RepliesReadable` is about any text without a
zero, of any length. The escaped copy is laid out by the places its characters get: the
n-th stands behind all the copies before it, and what stands between two places is a
backslash and the character, or the character alone. In the copy each bracket, brace,
comma and colon has an odd number of backslashes before it, so none delimits; and reading the copy backslash by
backslash meets the original characters at their places. Both follow the text character by
character, which needs induction: the library's theorems for it cannot be instantiated
here, so the proofs take the least place at which a claim fails, which exists in any set of
numbers that is not empty, and refute it. `ExchangeIInv` adds to the invariant of `Request`
that the response made is that of the answer chosen.

Finite sets of texts are enough for TLC to find the flaws of `Request`; the theorems say
that texts longer than those of the run bring none.

Only model-checked: liveness (`DestroyCompletes`, `SessionEnds`, `ClientAnswered`,
`ShutdownCompletes`, `RequestDecided`), because fairness and `ENABLED` are beyond the
prover: of all but `ClientAnswered` the measures are proved, as said above. And the
counterexamples, which are runs. Every safety invariant and action property of a passing
run, and both refinements (`QueueImplementsFifo`, `ExchangeImplementsRequest`), are proved for all constants.

## 5. Not modelled

Logging (pure output, `src_and_replace` included); start-up and clean-up of Winsock
(straight-line system calls, which `Startup` lets succeed or fail); the client program (a
loop without a state that reads no response); `get_str_property`, semaphores, sleep, yield
and `destroy_buf` (never called); `int_type_to_str`, which only formats; the Linux ports
(empty); build files.

Assumptions of the models: the sections of a request fit the first page of `func_arena`, of
`ARENA_DEF_PAGE_SIZE` = 1000 bytes. A message may be longer (`MAX_MESSAGE_LEN` is 100 kB by
default); its sections then lie in pages `Arena` shows to be added and enlarged, but `Request`
does not follow a section of negative size there. Values of properties are shorter than
`MAX_VAL`, which cuts them.

## 6. Plan

Done: the queue with its proofs first, because all else communicates through it; then
communicator, framing, main thread, arena; then the format of requests and responses, the
start of the program, and the byte 0 in the framing; the proofs of all safety properties,
component by component, with the refinements; last the escaping of responses, the texts that
pass from framing to parsing, and the measures behind the liveness properties.

Left: a composition of `Server` and `SharedQueue` for the request queue at shutdown, in place
of the reduced push of `Server`; responses that a server queues without end while they are
being sent.
