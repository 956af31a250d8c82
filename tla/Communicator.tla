---------------------------- MODULE Communicator ----------------------------
(***************************************************************************)
(* communicator_main of server/src/CommunicationManager.c: the thread that *)
(* serves one client, from the start of the thread to its return, with the *)
(* parts of NetworkManager it goes through.                                *)
(*                                                                         *)
(* Around it, left free: the client, whose next read may end in any way    *)
(* recv_req knows; the server thread, which the code only announces (TODO  *)
(* in main.c) and which takes requests and queues responses; the setting   *)
(* of glob_exit.  The two queues are taken for what SharedQueue implements *)
(* (BoundedFifo), with the sleep of push_back on a full queue kept.        *)
(***************************************************************************)
EXTENDS Integers, Sequences, FiniteSets

CONSTANTS MaxTimeout,    \* MAX_CLIENT_TIMEOUT, in milliseconds
          MaxRecvTimeo,  \* MAX_RECV_TIMEO, in milliseconds
          MaxErrors,     \* MAX_CLIENT_ERRORS
          RequestCap,    \* REQUEST_QUEUE_CAP
          ResponseCap,   \* RESPONSE_QUEUE_CAP
          MaxRequests,   \* bound: requests for the server a client sends
          MaxResponses   \* bound: responses the server queues

\* get_num_property may yield 0 for either limit of a client.
ASSUME CommunicatorAssumption ==
  /\ MaxTimeout \in Nat /\ MaxErrors \in Nat
  /\ MaxRecvTimeo \in Nat \ {0}
  /\ RequestCap \in Nat \ {0} /\ ResponseCap \in Nat \ {0}
  /\ MaxRequests \in Nat /\ MaxResponses \in Nat

\* enum communicator_local_exits
NO_EXIT                  == 0
GRACEFUL_EXIT_TRIGGERED   == 1
UNGRACEFUL_EXIT_TRIGGERED == 2
GLOBAL_EXIT_TRIGGERED     == 3
LocalExits == NO_EXIT .. GLOBAL_EXIT_TRIGGERED

\* enum internal_status_codes
UNGRACEFUL_EXIT == 100
GRACEFUL_EXIT   == 200
Farewells == {UNGRACEFUL_EXIT, GRACEFUL_EXIT}

\* The server's responses, in a range of their own: none is taken for a code.
Response(n)  == GRACEFUL_EXIT + n
Responses(n) == Response(1) .. Response(n)

\* enum NM_comm_errs
NM_OK            == 0
NM_CONN_CLOSED   == 1
NM_WOULDBLOCK    == 2
NM_TIMEDOUT      == 3
NM_INTERRUPTED   == 4
NM_UNKNOWN_ERROR == 5
NmErrors == NM_OK .. NM_UNKNOWN_ERROR

VARIABLES
  pc,            \* where the thread is
  loc_exit,      \* why the loop ends
  inactive,      \* client_inactive_time
  client_errors, \* client_errors
  conn_error,    \* the error field of the connection
  ret,           \* what send_all_resps is going to return
  buffered,      \* recv_buf holds what followed the last request
  request,       \* the request being pushed, 0 when none
  asleep,        \* the thread sleeps in push_back
  requests,      \* the request queue
  responses,     \* the response queue
  glob_exit,     \* the exit flag of main.c
  made,          \* history: requests for the server made so far
  answered,      \* history: responses queued so far
  taken,         \* history: requests the server has taken, in order
  dropped,       \* history: requests destroyed after a refused push
  told,          \* history: what the client was sent, the attempts that failed included
  trail,         \* history: reads since the last well-formed request
  read_once,     \* history: NM_recv has been called
  useless        \* history: no well-formed request will come any more

session  == <<loc_exit, inactive, client_errors>>
conn     == <<conn_error, buffered, read_once>>
queues   == <<requests, responses>>
outcomes == <<made, answered, taken, dropped>>
vars == <<pc, session, conn, ret, request, asleep, queues, glob_exit, outcomes,
          told, trail, useless>>

Points == {"loop", "respond", "recv", "push", "close", "done"}

-----------------------------------------------------------------------------
(* The start of the thread.  NM_accept_conn leaves the error field of the  *)
(* connection as malloc returned it; create_recv_buf may fail.             *)

Init == /\ pc = "loop"
        /\ loc_exit \in {NO_EXIT, UNGRACEFUL_EXIT}
        /\ inactive = 0 /\ client_errors = 0
        /\ conn_error \in NmErrors
        /\ ret = 0 /\ buffered = FALSE
        /\ request = 0 /\ asleep = FALSE
        /\ requests = << >> /\ responses = << >>
        /\ glob_exit = FALSE
        /\ made = 0 /\ answered = 0 /\ taken = << >> /\ dropped = << >>
        /\ told = << >> /\ trail = << >>
        /\ read_once = FALSE /\ useless = FALSE

(* The head of the loop                                                    *)

LeaveLoop ==
  /\ pc = "loop" /\ (loc_exit # NO_EXIT \/ glob_exit)
  /\ pc' = "close"
  /\ UNCHANGED <<session, conn, ret, request, asleep, queues, glob_exit, outcomes,
                 told, trail, useless>>

\* Mutant: one error too many.
OverLimitLate == inactive >= MaxTimeout \/ client_errors > MaxErrors

\* handle_client_errors
OverLimit == inactive >= MaxTimeout \/ client_errors >= MaxErrors

\* The error field after an attempt to send, if it was error before: untouched
\* when all was sent or no raw response could be made; NM_CONN_CLOSED when send
\* returned 0; NM_OK when it failed, for the message NM_send_all logs reads the
\* field, and NM_get_error resets what it reads.
AfterSend(error) == {error, NM_CONN_CLOSED, NM_OK}

\* Mutant: handle_client_errors returns NO_EXIT.
ThrowOutStays ==
  /\ pc = "loop" /\ loc_exit = NO_EXIT /\ ~glob_exit /\ OverLimit
  /\ told' = Append(told, UNGRACEFUL_EXIT)
  /\ conn_error' \in AfterSend(conn_error)
  /\ UNCHANGED <<pc, session, buffered, read_once, ret, request, asleep, queues,
                 glob_exit, outcomes, trail, useless>>

ThrowOut ==
  /\ pc = "loop" /\ loc_exit = NO_EXIT /\ ~glob_exit /\ OverLimit
  /\ told' = Append(told, UNGRACEFUL_EXIT)
  /\ conn_error' \in AfterSend(conn_error)
  /\ loc_exit' = UNGRACEFUL_EXIT_TRIGGERED
  /\ UNCHANGED <<pc, inactive, client_errors, buffered, read_once, ret, request,
                 asleep, queues, glob_exit, outcomes, trail, useless>>

Proceed ==
  /\ pc = "loop" /\ loc_exit = NO_EXIT /\ ~glob_exit /\ ~OverLimit
  /\ pc' = "respond" /\ ret' = 0
  /\ UNCHANGED <<session, conn, request, asleep, queues, glob_exit, outcomes, told,
                 trail, useless>>

-----------------------------------------------------------------------------
(* send_all_resps                                                          *)

\* What the assignment inside if((status = send_all_resps(...) != 0)) yields:
\* the comparison binds tighter than the assignment.
Status == IF ret # 0 THEN 1 ELSE 0

PopResponse == /\ responses # << >>
               /\ responses' = Tail(responses)
               /\ told' = Append(told, Head(responses))

SendOne ==
  /\ pc = "respond" /\ ret # NM_CONN_CLOSED
  /\ PopResponse
  /\ UNCHANGED <<pc, session, conn, ret, request, asleep, requests, glob_exit,
                 outcomes, trail, useless>>

\* send_resp returned -1: the error field is read, and so reset.
SendFails(status) ==
  /\ pc = "respond" /\ ret # NM_CONN_CLOSED
  /\ PopResponse
  /\ status \in AfterSend(conn_error)
  /\ ret' = IF status = NM_CONN_CLOSED THEN NM_CONN_CLOSED ELSE -1
  /\ conn_error' = NM_OK
  /\ UNCHANGED <<pc, session, buffered, read_once, request, asleep, requests,
                 glob_exit, outcomes, trail, useless>>

ResponsesSent ==
  /\ pc = "respond" /\ (responses = << >> \/ ret = NM_CONN_CLOSED)
  /\ IF Status = NM_CONN_CLOSED
     THEN loc_exit' = UNGRACEFUL_EXIT /\ pc' = "loop"
     ELSE UNCHANGED loc_exit /\ pc' = "recv"
  /\ UNCHANGED <<inactive, client_errors, conn, ret, request, asleep, queues,
                 glob_exit, outcomes, told, trail, useless>>

-----------------------------------------------------------------------------
(* recv_req and what follows it                                            *)

\* Mutant: the response code instead of the exit code, as in two other places.
ReadFailedConfused(status) ==
  /\ pc' = "loop"
  /\ loc_exit' = IF status = NM_CONN_CLOSED THEN UNGRACEFUL_EXIT ELSE loc_exit
  /\ inactive' = IF status = NM_TIMEDOUT THEN inactive + MaxRecvTimeo ELSE inactive
  /\ client_errors' = IF status \in {NM_CONN_CLOSED, NM_TIMEDOUT} THEN client_errors
                      ELSE client_errors + 1
  /\ conn_error' = NM_OK
  /\ UNCHANGED <<ret, request, asleep, queues, glob_exit, outcomes, told, useless>>

\* The switch on the error a failed read left behind.
ReadFailed(status) ==
  /\ pc' = "loop"
  /\ loc_exit' = IF status = NM_CONN_CLOSED THEN UNGRACEFUL_EXIT_TRIGGERED ELSE loc_exit
  /\ inactive' = IF status = NM_TIMEDOUT THEN inactive + MaxRecvTimeo ELSE inactive
  /\ client_errors' = IF status \in {NM_CONN_CLOSED, NM_TIMEDOUT} THEN client_errors
                      ELSE client_errors + 1
  /\ conn_error' = NM_OK
  /\ UNCHANGED <<ret, request, asleep, queues, glob_exit, outcomes, told, useless>>

\* What the history remembers of it.
Reading(status) == CASE status = NM_TIMEDOUT    -> "silence"
                     [] status = NM_CONN_CLOSED -> "closed"
                     [] OTHER                   -> "error"
Remember(reading) == trail' = Append(trail, reading)

\* NM_recv returned 0 or less: whatever had been read is freed.
RecvError(status) ==
  /\ pc = "recv" /\ status \in NmErrors \ {NM_OK}
  /\ ReadFailed(status)
  /\ buffered' = FALSE /\ read_once' = TRUE
  /\ Remember(Reading(status))

\* The request is too long, or there is no memory for it to grow: the last
\* block came from the socket, and its NM_recv had set NM_OK.
RecvTooLong ==
  /\ pc = "recv"
  /\ ReadFailed(NM_OK)
  /\ buffered' = FALSE /\ read_once' = TRUE
  /\ Remember(Reading(NM_OK))

\* malloc fails before anything is read.
RecvNoMemory ==
  /\ pc = "recv"
  /\ ReadFailed(conn_error)
  /\ Remember(Reading(conn_error))
  /\ UNCHANGED <<buffered, read_once>>

\* A whole request was read, from recv_buf, from the socket or from both; only
\* NM_recv sets the error field.
AfterRead == IF buffered THEN {conn_error, NM_OK} ELSE {NM_OK}

\* Mutant: the timer is not reset.
RequestReadLate == /\ buffered' \in BOOLEAN /\ read_once' = TRUE
                   /\ UNCHANGED inactive

\* The part of the last block that followed the request stays in recv_buf.
RequestRead == /\ buffered' \in BOOLEAN /\ read_once' = TRUE
               /\ inactive' = 0

\* make_req returns NULL.
RecvMalformed ==
  /\ pc = "recv" /\ RequestRead /\ conn_error' \in AfterRead
  /\ client_errors' = client_errors + 1
  /\ pc' = "loop"
  /\ Remember("malformed")
  /\ UNCHANGED <<loc_exit, ret, request, asleep, queues, glob_exit, outcomes, told,
                 useless>>

WellFormed == /\ pc = "recv" /\ ~useless
              /\ client_errors' = 0
              /\ trail' = << >>

RecvHeartbeat ==
  /\ WellFormed /\ RequestRead /\ conn_error' \in AfterRead
  /\ pc' = "loop"
  /\ UNCHANGED <<loc_exit, ret, request, asleep, queues, glob_exit, outcomes, told,
                 useless>>

RecvExit ==
  /\ WellFormed /\ RequestRead
  /\ told' = Append(told, GRACEFUL_EXIT)
  /\ \E error \in AfterRead : conn_error' \in AfterSend(error)
  /\ loc_exit' = GRACEFUL_EXIT_TRIGGERED /\ pc' = "loop"
  /\ UNCHANGED <<ret, request, asleep, queues, glob_exit, outcomes, useless>>

\* Any other type, known or not, is for the server.
RecvForServer ==
  /\ WellFormed /\ RequestRead /\ conn_error' \in AfterRead
  /\ made < MaxRequests
  /\ made' = made + 1 /\ request' = made + 1
  /\ pc' = "push"
  /\ UNCHANGED <<loc_exit, ret, asleep, queues, glob_exit, answered, taken, dropped,
                 told, useless>>

-----------------------------------------------------------------------------
(* The push of handle_request                                              *)

\* Mutant: the exit flag is not part of the condition to wait.
PushSleepsAnyway ==
  /\ pc = "push" /\ ~asleep
  /\ Len(requests) >= RequestCap
  /\ asleep' = TRUE
  /\ UNCHANGED <<pc, session, conn, ret, request, queues, glob_exit, outcomes, told,
                 trail, useless>>

PushSleeps ==
  /\ pc = "push" /\ ~asleep
  /\ Len(requests) >= RequestCap /\ ~glob_exit
  /\ asleep' = TRUE
  /\ UNCHANGED <<pc, session, conn, ret, request, queues, glob_exit, outcomes, told,
                 trail, useless>>

PushAccepted ==
  /\ pc = "push" /\ ~asleep
  /\ Len(requests) < RequestCap /\ ~glob_exit
  /\ requests' = Append(requests, request) /\ request' = 0
  /\ pc' = "loop" /\ loc_exit' = NO_EXIT
  /\ UNCHANGED <<inactive, client_errors, conn, ret, asleep, responses, glob_exit,
                 outcomes, told, trail, useless>>

\* Mutant: the refused request is not destroyed.
PushRefusedLeaks ==
  /\ pc = "push" /\ ~asleep
  /\ glob_exit
  /\ request' = 0
  /\ pc' = "loop" /\ loc_exit' = GLOBAL_EXIT_TRIGGERED
  /\ UNCHANGED <<inactive, client_errors, conn, ret, asleep, queues, glob_exit,
                 outcomes, told, trail, useless>>

\* The request queue outlives the communicators, so only glob_exit refuses.
PushRefused ==
  /\ pc = "push" /\ ~asleep
  /\ glob_exit
  /\ dropped' = Append(dropped, request) /\ request' = 0
  /\ pc' = "loop" /\ loc_exit' = GLOBAL_EXIT_TRIGGERED
  /\ UNCHANGED <<inactive, client_errors, conn, ret, asleep, queues, glob_exit, made,
                 answered, taken, told, trail, useless>>

\* NM_destroy_conn and the return of the thread.
Close ==
  /\ pc = "close" /\ pc' = "done"
  /\ UNCHANGED <<session, conn, ret, request, asleep, queues, glob_exit, outcomes,
                 told, trail, useless>>

-----------------------------------------------------------------------------
(* The others                                                              *)

\* The server thread pops a request; the pop wakes who sleeps in push_back.
ServerTakes ==
  /\ requests # << >>
  /\ requests' = Tail(requests) /\ taken' = Append(taken, Head(requests))
  /\ asleep' = FALSE
  /\ UNCHANGED <<pc, session, conn, ret, request, responses, glob_exit, made,
                 answered, dropped, told, trail, useless>>

ServerAnswers ==
  /\ Len(responses) < ResponseCap /\ answered < MaxResponses
  /\ answered' = answered + 1 /\ responses' = Append(responses, Response(answered + 1))
  /\ UNCHANGED <<pc, session, conn, ret, request, asleep, requests, glob_exit, made,
                 taken, dropped, told, trail, useless>>

SpuriousWake ==
  /\ asleep /\ asleep' = FALSE
  /\ UNCHANGED <<pc, session, conn, ret, request, queues, glob_exit, outcomes, told,
                 trail, useless>>

GlobalExit ==
  /\ ~glob_exit /\ glob_exit' = TRUE
  /\ UNCHANGED <<pc, session, conn, ret, request, asleep, queues, outcomes, told,
                 trail, useless>>

\* From here on the client sends nothing, or nothing that can be parsed.
TurnUseless ==
  /\ ~useless /\ useless' = TRUE
  /\ UNCHANGED <<pc, session, conn, ret, request, asleep, queues, glob_exit, outcomes,
                 told, trail>>

-----------------------------------------------------------------------------

Respond == SendOne \/ (\E status \in NmErrors : SendFails(status)) \/ ResponsesSent
Recv    == \/ \E status \in NmErrors : RecvError(status)
           \/ RecvTooLong \/ RecvNoMemory \/ RecvMalformed
           \/ RecvHeartbeat \/ RecvExit \/ RecvForServer
Push    == PushSleeps \/ PushAccepted \/ PushRefused

Session == LeaveLoop \/ ThrowOut \/ Proceed \/ Respond \/ Recv \/ Push \/ Close
Others  == ServerTakes \/ ServerAnswers \/ SpuriousWake \/ GlobalExit \/ TurnUseless

Next == Session \/ Others

Spec == Init /\ [][Next]_vars

\* The thread is scheduled, and every read ends: NM_recv has a timeout and a
\* request a maximal length.  Of the others nothing is assumed.
FairSpec == Spec /\ WF_vars(Session)
-----------------------------------------------------------------------------
(* Properties                                                              *)

\* Every variable has its type.
TypeOK ==
  /\ pc \in Points
  /\ loc_exit \in LocalExits \cup {UNGRACEFUL_EXIT}
  /\ inactive \in Nat /\ client_errors \in 0 .. MaxErrors
  /\ conn_error \in NmErrors
  /\ ret \in {0, -1, NM_CONN_CLOSED}
  /\ {buffered, asleep, glob_exit, read_once, useless} \subseteq BOOLEAN
  /\ made \in 0 .. MaxRequests /\ answered \in 0 .. MaxResponses
  /\ request \in 0 .. made
  /\ requests \in Seq(1 .. made) /\ Len(requests) <= RequestCap
  /\ taken \in Seq(1 .. made) /\ dropped \in Seq(1 .. made)
  /\ responses \in Seq(Responses(answered)) /\ Len(responses) <= ResponseCap
  /\ told \in Seq(Responses(answered) \cup Farewells)
  /\ trail \in Seq({"silence", "closed", "error", "malformed"})

\* The client's own record: the failures since its last well-formed request,
\* and the time since it last sent anything that ends like a request.
Failures == Cardinality({i \in DOMAIN trail : trail[i] \in {"error", "malformed"}})
Silence  == MaxRecvTimeo * Cardinality({i \in DOMAIN trail :
              trail[i] = "silence" /\ \A j \in i .. Len(trail) : trail[j] # "malformed"})
Hopeless == Failures >= MaxErrors \/ Silence >= MaxTimeout

\* A client is told 100 only when its record says so, and is never read from
\* again once it does, whatever mix of timeouts, errors, malformed and good
\* requests led there and whichever of the two counters each one resets.
ThrownOutJustly ==
  /\ UNGRACEFUL_EXIT \in {told[i] : i \in DOMAIN told} => Hopeless
  /\ pc \in {"respond", "recv"} => ~Hopeless

\* Responses are sent in the order the server queued them, each tried once and
\* none skipped, then at most one farewell, which is the last thing sent and
\* agrees with what the thread returns.
RepliesInOrder ==
  /\ \A i \in 1 .. Len(told) :
       \/ told[i] = Response(i)
       \/ /\ i = Len(told)
          /\ <<told[i], loc_exit>> \in {<<UNGRACEFUL_EXIT, UNGRACEFUL_EXIT_TRIGGERED>>,
                                        <<GRACEFUL_EXIT, GRACEFUL_EXIT_TRIGGERED>>}
  /\ loc_exit = GRACEFUL_EXIT_TRIGGERED => told # << >> /\ told[Len(told)] = GRACEFUL_EXIT

\* Each request made for the server is in one place, and they stay in the order
\* the client sent them; one is destroyed only as the session's last, because
\* the whole server is exiting.
Held == IF request = 0 THEN << >> ELSE <<request>>
RequestsInOrder ==
  /\ taken \o requests \o Held \o dropped = [i \in 1 .. made |-> i]
  /\ dropped # << >> => loc_exit = GLOBAL_EXIT_TRIGGERED /\ glob_exit

\* A thread that has stopped left for a reason of now: without one of its own,
\* the server is exiting, and UNGRACEFUL_EXIT means no read was even tried since.
\* A read that fails without NM_recv having failed never reports the error of an
\* earlier call, nor the value malloc left, once the socket has been read.
ExitExplained ==
  /\ pc \in {"close", "done"} =>
       /\ loc_exit \in {NO_EXIT, GLOBAL_EXIT_TRIGGERED} => glob_exit
       /\ loc_exit = UNGRACEFUL_EXIT => ret # 0 \/ (~read_once /\ told = << >>)
       /\ request = 0 /\ ~asleep
  /\ pc = "recv" /\ read_once => conn_error = NM_OK

\* A client from which no well-formed request comes any more does not keep its
\* thread: timeouts and errors, in any mixture, end the session.  And a thread
\* that is not asleep in push_back obeys glob_exit.
SessionEnds ==
  /\ useless /\ pc # "push" ~> pc = "done"
  /\ glob_exit /\ ~asleep ~> pc = "done"

-----------------------------------------------------------------------------
(* Statements of the repository the code does not keep                     *)

\* main.c: glob_exit is "used to exit all threads (server and communicator)".
GlobalExitStops == glob_exit ~> pc = "done"

\* CommunicationManager.c logs "closed the connection unexpectedly" for what
\* is left to be "not all responses in the queue where sent".
ClosedWhenReported == pc = "loop" /\ ret = -1 => loc_exit # UNGRACEFUL_EXIT
=============================================================================
