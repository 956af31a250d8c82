------------------------- MODULE CommunicatorProofs -------------------------
(***************************************************************************)
(* What TLAPS proves of Communicator, for any limits of time and errors,   *)
(* any capacities of the queues, any number of requests and responses: its *)
(* safety invariants, and that a session nobody should go on with only     *)
(* moves towards its end.                                                  *)
(***************************************************************************)
EXTENDS Communicator, FiniteSetTheorems, SequenceTheorems, TLAPS

\* Where the thread is says why it still runs and what it holds.
Position ==
  /\ pc \in {"respond", "recv", "push"} => loc_exit = NO_EXIT
  /\ pc \in {"respond", "recv"} => ~OverLimit
  /\ pc = "push" <=> request # 0
  /\ asleep => pc = "push"
  /\ loc_exit = GLOBAL_EXIT_TRIGGERED => glob_exit
  /\ pc \in {"close", "done"} => loc_exit # NO_EXIT \/ glob_exit

\* The two counters are what the client's record says.
Counters == client_errors = Failures /\ inactive = Silence

\* Who was thrown out had reached a limit, and is not read from any more.
Thrown == UNGRACEFUL_EXIT \in {told[n] : n \in DOMAIN told} => OverLimit

\* As long as the session lasts, what is queued continues what was sent.
RepliesContinue ==
  loc_exit = NO_EXIT =>
    /\ answered = Len(told) + Len(responses)
    /\ \A n \in 1 .. Len(responses) : responses[n] = Response(Len(told) + n)

\* The request of each number is where its number says: in the order they were
\* made, the requests are those taken, those queued, the one being pushed and
\* the one destroyed, of which there is at most one.
Dropped == IF dropped = << >> THEN 0 ELSE 1
Places ==
  /\ \A n \in 1 .. Len(taken) : taken[n] = n
  /\ \A n \in 1 .. Len(requests) : requests[n] = Len(taken) + n
  /\ made = Len(taken) + Len(requests) + (IF request = 0 THEN 0 ELSE 1) + Dropped
  /\ request \in {0, made}
  /\ dropped \in {<< >>, <<made>>}
  /\ dropped # << >> => loc_exit = GLOBAL_EXIT_TRIGGERED

\* UNGRACEFUL_EXIT comes from a failed send or from a session that could not
\* begin, and while the session lasts no error survives the call that made it.
Reasons ==
  /\ loc_exit = UNGRACEFUL_EXIT => ret # 0 \/ (~read_once /\ told = << >>)
  /\ buffered => read_once
  /\ loc_exit = NO_EXIT /\ read_once => conn_error = NM_OK

\* The inductive invariant.
IInv == /\ TypeOK
        /\ Position
        /\ Counters
        /\ Thrown
        /\ RepliesInOrder
        /\ RepliesContinue
        /\ Places
        /\ Reasons

USE DEF NO_EXIT, GRACEFUL_EXIT_TRIGGERED, UNGRACEFUL_EXIT_TRIGGERED, GLOBAL_EXIT_TRIGGERED,
        LocalExits, UNGRACEFUL_EXIT, GRACEFUL_EXIT, Farewells,
        NM_OK, NM_CONN_CLOSED, NM_WOULDBLOCK, NM_TIMEDOUT, NM_INTERRUPTED, NM_UNKNOWN_ERROR,
        NmErrors

-----------------------------------------------------------------------------
(* The client's record                                                     *)

Readings == {"silence", "closed", "error", "malformed"}
Failed(t) == {n \in DOMAIN t : t[n] \in {"error", "malformed"}}
Silent(t) == {n \in DOMAIN t : t[n] = "silence" /\ \A m \in n .. Len(t) : t[m] # "malformed"}

\* An empty record counts nothing.
LEMMA EmptyRecord ==
  /\ Cardinality(Failed(<< >>)) = 0 /\ Cardinality(Silent(<< >>)) = 0
<1>1. Failed(<< >>) = {} /\ Silent(<< >>) = {}
  BY DEF Failed, Silent
<1>2. QED BY <1>1, FS_EmptySet

\* What a reading adds to the record: a failure counts one more, a silence one
\* more, and a malformed request ends the silence before it.
LEMMA LongerRecord ==
  ASSUME NEW t \in Seq(Readings), NEW r \in Readings
  PROVE  /\ Cardinality(Failed(t)) \in Nat /\ Cardinality(Silent(t)) \in Nat
         /\ Cardinality(Failed(Append(t, r))) =
              IF r \in {"error", "malformed"} THEN Cardinality(Failed(t)) + 1
              ELSE Cardinality(Failed(t))
         /\ Cardinality(Silent(Append(t, r))) =
              IF r = "silence" THEN Cardinality(Silent(t)) + 1
              ELSE IF r = "malformed" THEN 0 ELSE Cardinality(Silent(t))
<1> DEFINE u == Append(t, r)
           n == Len(t)
<1>1. /\ n \in Nat /\ Len(u) = n + 1 /\ DOMAIN t = 1 .. n /\ DOMAIN u = 1 .. n + 1
      /\ \A m \in 1 .. n : u[m] = t[m]
      /\ u[n + 1] = r
  BY AppendProperties
<1>2. IsFiniteSet(1 .. n)
  BY <1>1, FS_Interval
<1>3. Failed(t) \subseteq 1 .. n /\ Silent(t) \subseteq 1 .. n
  BY <1>1 DEF Failed, Silent
<1>4. IsFiniteSet(Failed(t)) /\ IsFiniteSet(Silent(t))
  BY <1>2, <1>3, FS_Subset
<1>5. n + 1 \notin Failed(t) /\ n + 1 \notin Silent(t)
  BY <1>1, <1>3
<1>6. Failed(u) = IF r \in {"error", "malformed"} THEN Failed(t) \cup {n + 1} ELSE Failed(t)
  BY <1>1 DEF Failed
<1>7. Silent(u) = IF r = "silence" THEN Silent(t) \cup {n + 1}
                  ELSE IF r = "malformed" THEN {} ELSE Silent(t)
  BY <1>1 DEF Silent, Readings
<1>8. /\ Cardinality(Failed(t) \cup {n + 1}) = Cardinality(Failed(t)) + 1
      /\ Cardinality(Silent(t) \cup {n + 1}) = Cardinality(Silent(t)) + 1
      /\ Cardinality(Failed(t)) \in Nat /\ Cardinality(Silent(t)) \in Nat
      /\ Cardinality({}) = 0
  BY <1>4, <1>5, FS_AddElement, FS_EmptySet, FS_CardinalityType
<1>9. QED BY <1>6, <1>7, <1>8

\* The record in the words of the model.
LEMMA Record == /\ Failures = Cardinality(Failed(trail))
                /\ Silence = MaxRecvTimeo * Cardinality(Silent(trail))
BY DEF Failures, Silence, Failed, Silent

LEMMA RecordPrime == /\ Failures' = Cardinality(Failed(trail'))
                     /\ Silence' = MaxRecvTimeo * Cardinality(Silent(trail'))
BY DEF Failures, Silence, Failed, Silent

-----------------------------------------------------------------------------
(* What a step leaves alone                                                *)

LEMMA SameRecord ==
  ASSUME Counters, UNCHANGED <<client_errors, inactive, trail>>
  PROVE  Counters'
BY Record, RecordPrime DEF Counters

LEMMA SamePlaces ==
  ASSUME Places, UNCHANGED <<taken, requests, made, request, dropped>>,
         loc_exit = GLOBAL_EXIT_TRIGGERED => UNCHANGED loc_exit
  PROVE  Places'
BY DEF Places, Dropped

\* Only the reason to exit changes, not to an unfounded one.
LEMMA SameReplies ==
  ASSUME IInv, UNCHANGED <<told, answered, responses>>,
         loc_exit' = NO_EXIT => loc_exit = NO_EXIT,
         loc_exit \in {GRACEFUL_EXIT_TRIGGERED, UNGRACEFUL_EXIT_TRIGGERED}
           => UNCHANGED loc_exit,
         loc_exit' = GRACEFUL_EXIT_TRIGGERED => UNCHANGED loc_exit
  PROVE  RepliesInOrder' /\ RepliesContinue'
<1> USE DEF IInv, Position, RepliesInOrder, RepliesContinue, Response
<1>1. RepliesInOrder'
  OBVIOUS
<1>2. RepliesContinue'
  OBVIOUS
<1>3. QED BY <1>1, <1>2

-----------------------------------------------------------------------------
(* The first state                                                         *)

LEMMA InitIInv == Init => IInv
<1> SUFFICES ASSUME Init PROVE IInv
  OBVIOUS
<1> USE CommunicatorAssumption DEF Init
<1>1. TypeOK
  <2>1. \A S : << >> \in Seq(S)
    BY EmptySeq
  <2>2. {buffered, asleep, glob_exit, read_once, useless} \subseteq BOOLEAN
    OBVIOUS
  <2>3. QED BY <2>1, <2>2 DEF TypeOK, Points
<1>2. Position /\ Thrown
  BY DEF Position, Thrown
<1>3. Counters
  BY Record, EmptyRecord DEF Counters
<1>4. RepliesInOrder /\ RepliesContinue
  BY DEF RepliesInOrder, RepliesContinue
<1>5. Places /\ Reasons
  BY DEF Places, Dropped, Reasons
<1>6. QED BY <1>1, <1>2, <1>3, <1>4, <1>5 DEF IInv

-----------------------------------------------------------------------------
(* The head of the loop                                                    *)

LEMMA LeaveLoopStep ==
  ASSUME IInv, LeaveLoop
  PROVE  IInv'
<1> USE CommunicatorAssumption DEF IInv, LeaveLoop, session, conn, queues, outcomes
<1>1. TypeOK'
  BY DEF TypeOK, Points
<1>2. Position' /\ Thrown' /\ Reasons'
  BY DEF Position, Thrown, Reasons, OverLimit
<1>3. Counters'
  BY SameRecord
<1>4. RepliesInOrder' /\ RepliesContinue'
  BY SameReplies
<1>5. Places'
  BY SamePlaces
<1>6. QED BY <1>1, <1>2, <1>3, <1>4, <1>5

\* The client has reached a limit, and the farewell is the last it is sent.
LEMMA ThrowOutStep ==
  ASSUME IInv, ThrowOut
  PROVE  IInv'
<1> USE CommunicatorAssumption DEF ThrowOut, queues, outcomes
<1>1. TypeOK'
  BY DEF IInv, TypeOK, AfterSend
<1>2. Position' /\ Thrown' /\ Reasons'
  BY DEF IInv, Position, Thrown, Reasons, OverLimit
<1>3. Counters'
  BY SameRecord DEF IInv
<1>4. RepliesInOrder' /\ RepliesContinue'
  <2>1. /\ told \in Seq(Responses(answered) \cup Farewells)
        /\ \A n \in 1 .. Len(told) : told[n] = Response(n)
    BY DEF IInv, TypeOK, RepliesInOrder
  <2>2. /\ Len(told') = Len(told) + 1 /\ told'[Len(told')] = UNGRACEFUL_EXIT
        /\ \A n \in 1 .. Len(told) : told'[n] = told[n]
    BY <2>1
  <2>3. QED BY <2>1, <2>2 DEF RepliesInOrder, RepliesContinue
<1>5. Places'
  BY SamePlaces DEF IInv
<1>6. QED BY <1>1, <1>2, <1>3, <1>4, <1>5 DEF IInv

LEMMA ProceedStep ==
  ASSUME IInv, Proceed
  PROVE  IInv'
<1> USE CommunicatorAssumption DEF IInv, Proceed, session, conn, queues, outcomes
<1>1. TypeOK'
  BY DEF TypeOK, Points
<1>2. Position' /\ Thrown' /\ Reasons'
  BY DEF Position, Thrown, Reasons, OverLimit
<1>3. Counters'
  BY SameRecord
<1>4. RepliesInOrder' /\ RepliesContinue'
  BY SameReplies
<1>5. Places'
  BY SamePlaces
<1>6. QED BY <1>1, <1>2, <1>3, <1>4, <1>5

-----------------------------------------------------------------------------
(* send_all_resps                                                          *)

\* The next response to send is the one that follows what was sent.
LEMMA PopResponseReplies ==
  ASSUME IInv, pc = "respond", PopResponse, UNCHANGED <<loc_exit, answered>>
  PROVE  /\ RepliesInOrder' /\ RepliesContinue'
         /\ told' \in Seq(Responses(answered) \cup Farewells)
         /\ responses' \in Seq(Responses(answered)) /\ Len(responses') < Len(responses)
         /\ \A n \in DOMAIN told' : told'[n] # UNGRACEFUL_EXIT
<1> USE DEF PopResponse, IInv
<1>1. /\ told \in Seq(Responses(answered) \cup Farewells)
      /\ \A n \in 1 .. Len(told) : told[n] = Response(n)
      /\ responses \in Seq(Responses(answered)) /\ responses # << >>
      /\ answered = Len(told) + Len(responses)
      /\ \A n \in 1 .. Len(responses) : responses[n] = Response(Len(told) + n)
      /\ loc_exit = NO_EXIT
  BY DEF Position, TypeOK, RepliesInOrder, RepliesContinue
<1>2. /\ Len(responses) >= 1
      /\ Head(responses) = Response(Len(told) + 1)
      /\ Head(responses) \in Responses(answered)
      /\ responses' \in Seq(Responses(answered)) /\ Len(responses') = Len(responses) - 1
      /\ \A n \in 1 .. Len(responses') : responses'[n] = responses[n + 1]
  BY <1>1
<1>3. /\ told' \in Seq(Responses(answered) \cup Farewells)
      /\ Len(told') = Len(told) + 1 /\ DOMAIN told' = 1 .. Len(told')
      /\ \A n \in 1 .. Len(told) : told'[n] = told[n]
      /\ told'[Len(told) + 1] = Head(responses)
  BY <1>1, <1>2
<1>4. \A n \in 1 .. Len(told') : told'[n] = Response(n)
  BY <1>1, <1>2, <1>3
<1>5. ASSUME NEW n \in 1 .. Len(responses')
      PROVE  responses'[n] = Response(Len(told') + n)
  <2>1. n + 1 \in 1 .. Len(responses) /\ responses'[n] = responses[n + 1]
    BY <1>1, <1>2
  <2>2. responses[n + 1] = Response(Len(told) + (n + 1))
    BY <1>1, <2>1
  <2>3. Len(told) + (n + 1) = Len(told') + n
    BY <1>1, <1>3
  <2>4. QED BY <2>1, <2>2, <2>3
<1>6. RepliesInOrder'
  BY <1>1, <1>4 DEF RepliesInOrder
<1>7. RepliesContinue'
  BY <1>1, <1>2, <1>3, <1>5 DEF RepliesContinue
<1>8. \A n \in DOMAIN told' : told'[n] # UNGRACEFUL_EXIT
  BY <1>1, <1>3, <1>4 DEF Response
<1>9. QED BY <1>1, <1>2, <1>3, <1>6, <1>7, <1>8

LEMMA SendOneStep ==
  ASSUME IInv, SendOne
  PROVE  IInv'
<1> USE CommunicatorAssumption DEF SendOne, session, conn, outcomes
<1>1. /\ RepliesInOrder' /\ RepliesContinue'
      /\ told' \in Seq(Responses(answered) \cup Farewells)
      /\ responses' \in Seq(Responses(answered)) /\ Len(responses') < Len(responses)
      /\ \A n \in DOMAIN told' : told'[n] # UNGRACEFUL_EXIT
  BY PopResponseReplies
<1>2. TypeOK'
  BY <1>1 DEF IInv, TypeOK
<1>3. Position' /\ Thrown' /\ Reasons'
  BY <1>1 DEF IInv, Position, Thrown, Reasons, OverLimit
<1>4. Counters'
  BY SameRecord DEF IInv
<1>5. Places'
  BY SamePlaces DEF IInv
<1>6. QED BY <1>1, <1>2, <1>3, <1>4, <1>5 DEF IInv

LEMMA SendFailsStep ==
  ASSUME IInv, NEW status \in NmErrors, SendFails(status)
  PROVE  IInv'
<1> USE CommunicatorAssumption DEF SendFails, session, outcomes
<1>1. /\ RepliesInOrder' /\ RepliesContinue'
      /\ told' \in Seq(Responses(answered) \cup Farewells)
      /\ responses' \in Seq(Responses(answered)) /\ Len(responses') < Len(responses)
      /\ \A n \in DOMAIN told' : told'[n] # UNGRACEFUL_EXIT
  BY PopResponseReplies
<1>2. TypeOK'
  BY <1>1 DEF IInv, TypeOK
<1>3. Position' /\ Thrown' /\ Reasons'
  BY <1>1 DEF IInv, Position, Thrown, Reasons, OverLimit
<1>4. Counters'
  BY SameRecord DEF IInv
<1>5. Places'
  BY SamePlaces DEF IInv
<1>6. QED BY <1>1, <1>2, <1>3, <1>4, <1>5 DEF IInv

\* Whatever failed is reported as NM_CONN_CLOSED, because of the parenthesis.
LEMMA ResponsesSentStep ==
  ASSUME IInv, ResponsesSent
  PROVE  IInv'
<1> USE CommunicatorAssumption DEF IInv, ResponsesSent, Status, session, conn, queues, outcomes
<1>1. TypeOK'
  BY DEF TypeOK, Points
<1>2. Position' /\ Thrown' /\ Reasons'
  BY DEF Position, Thrown, Reasons, OverLimit
<1>3. Counters'
  BY SameRecord
<1>4. RepliesInOrder' /\ RepliesContinue'
  BY SameReplies DEF Position
<1>5. Places'
  BY SamePlaces DEF Position
<1>6. QED BY <1>1, <1>2, <1>3, <1>4, <1>5

-----------------------------------------------------------------------------
(* recv_req                                                                *)

\* A failed read counts what the record remembers of it, and has a session to
\* end only when there was one.
LEMMA ReadFailedStep ==
  ASSUME IInv, pc = "recv", NEW status \in NmErrors, ReadFailed(status),
         Remember(Reading(status)),
         buffered' \in BOOLEAN, read_once' \in BOOLEAN, buffered' => read_once'
  PROVE  IInv'
<1> USE CommunicatorAssumption DEF ReadFailed, queues, outcomes
<1>1. Reading(status) \in Readings
  BY DEF Reading, Readings
<1>2. trail \in Seq(Readings) /\ trail' = Append(trail, Reading(status))
  BY DEF IInv, TypeOK, Readings, Remember
<1>3. trail' \in Seq(Readings)
  BY <1>1, <1>2
<1>4. TypeOK'
  <2>1. inactive' \in Nat /\ client_errors' \in 0 .. MaxErrors
    BY DEF IInv, TypeOK, Position, OverLimit
  <2>2. QED BY <1>3, <2>1 DEF IInv, TypeOK, Points, Readings
<1>5. Position' /\ Thrown' /\ Reasons'
  BY DEF IInv, TypeOK, Position, Thrown, Reasons, OverLimit, RepliesInOrder
<1>6. Counters'
  <2>1. CASE status = NM_TIMEDOUT
    <3>1. /\ Cardinality(Silent(trail')) = Cardinality(Silent(trail)) + 1
          /\ Cardinality(Failed(trail')) = Cardinality(Failed(trail))
          /\ Cardinality(Silent(trail)) \in Nat
      BY <1>1, <1>2, <2>1, LongerRecord, SMTT(30) DEF Reading
    <3>2. MaxRecvTimeo * (Cardinality(Silent(trail)) + 1)
            = MaxRecvTimeo * Cardinality(Silent(trail)) + MaxRecvTimeo
      BY <3>1
    <3>3. QED BY <2>1, <3>1, <3>2, Record, RecordPrime DEF IInv, Counters
  <2>2. CASE status = NM_CONN_CLOSED
    <3>1. /\ Cardinality(Silent(trail')) = Cardinality(Silent(trail))
          /\ Cardinality(Failed(trail')) = Cardinality(Failed(trail))
      BY <1>1, <1>2, <2>2, LongerRecord, SMTT(30) DEF Reading
    <3>2. QED BY <2>2, <3>1, Record, RecordPrime DEF IInv, Counters
  <2>3. CASE status \notin {NM_TIMEDOUT, NM_CONN_CLOSED}
    <3>1. /\ Cardinality(Silent(trail')) = Cardinality(Silent(trail))
          /\ Cardinality(Failed(trail')) = Cardinality(Failed(trail)) + 1
      BY <1>1, <1>2, <2>3, LongerRecord, SMTT(30) DEF Reading
    <3>2. QED BY <2>3, <3>1, Record, RecordPrime DEF IInv, Counters
  <2>4. QED BY <2>1, <2>2, <2>3
<1>7. RepliesInOrder' /\ RepliesContinue'
  BY SameReplies DEF IInv, Position
<1>8. Places'
  BY SamePlaces DEF IInv, Position
<1>9. QED BY <1>4, <1>5, <1>6, <1>7, <1>8 DEF IInv

LEMMA RecvMalformedStep ==
  ASSUME IInv, RecvMalformed
  PROVE  IInv'
<1> USE CommunicatorAssumption DEF RecvMalformed, RequestRead, AfterRead, queues, outcomes
<1>1. "malformed" \in Readings
  BY DEF Readings
<1>2. trail \in Seq(Readings) /\ trail' = Append(trail, "malformed")
  BY DEF IInv, TypeOK, Readings, Remember
<1>3. trail' \in Seq(Readings)
  BY <1>1, <1>2
<1>4. TypeOK'
  <2>1. inactive' \in Nat /\ client_errors' \in 0 .. MaxErrors
    BY DEF IInv, TypeOK, Position, OverLimit
  <2>2. QED BY <1>3, <2>1 DEF IInv, TypeOK, Points, Readings
<1>5. Position' /\ Thrown' /\ Reasons'
  BY DEF IInv, TypeOK, Position, Thrown, Reasons, OverLimit, RepliesInOrder
<1>6. Counters'
  <2>1. /\ Cardinality(Silent(trail')) = 0
        /\ Cardinality(Failed(trail')) = Cardinality(Failed(trail)) + 1
    BY <1>1, <1>2, LongerRecord
  <2>2. QED BY <2>1, Record, RecordPrime DEF IInv, Counters
<1>7. RepliesInOrder' /\ RepliesContinue'
  BY SameReplies DEF IInv, Position
<1>8. Places'
  BY SamePlaces DEF IInv, Position
<1>9. QED BY <1>4, <1>5, <1>6, <1>7, <1>8 DEF IInv

\* A well-formed request clears the record, and with it both counters.
LEMMA WellFormedRecord ==
  ASSUME WellFormed, RequestRead
  PROVE  Counters' /\ trail' \in Seq(Readings)
<1>1. trail' = << >> /\ client_errors' = 0 /\ inactive' = 0
  BY DEF WellFormed, RequestRead
<1>2. trail' \in Seq(Readings)
  BY <1>1, EmptySeq
<1>3. MaxRecvTimeo * 0 = 0
  BY CommunicatorAssumption
<1>4. QED BY <1>1, <1>2, <1>3, RecordPrime, EmptyRecord DEF Counters

LEMMA RecvHeartbeatStep ==
  ASSUME IInv, RecvHeartbeat
  PROVE  IInv'
<1> USE CommunicatorAssumption
    DEF RecvHeartbeat, WellFormed, RequestRead, AfterRead, queues, outcomes
<1>1. Counters' /\ trail' \in Seq(Readings)
  BY WellFormedRecord
<1>2. TypeOK'
  BY <1>1 DEF IInv, TypeOK, Points, Readings
<1>3. Position' /\ Thrown' /\ Reasons'
  BY DEF IInv, TypeOK, Position, Thrown, Reasons, OverLimit, RepliesInOrder
<1>4. RepliesInOrder' /\ RepliesContinue'
  BY SameReplies DEF IInv, Position
<1>5. Places'
  BY SamePlaces DEF IInv, Position
<1>6. QED BY <1>1, <1>2, <1>3, <1>4, <1>5 DEF IInv

\* The graceful farewell is the last thing sent.
LEMMA RecvExitStep ==
  ASSUME IInv, RecvExit
  PROVE  IInv'
<1> USE CommunicatorAssumption
    DEF RecvExit, WellFormed, RequestRead, AfterRead, AfterSend, queues, outcomes
<1>1. Counters' /\ trail' \in Seq(Readings)
  BY WellFormedRecord
<1>2. /\ told \in Seq(Responses(answered) \cup Farewells)
      /\ \A n \in 1 .. Len(told) : told[n] = Response(n)
  BY DEF IInv, TypeOK, Position, RepliesInOrder
<1>3. /\ told' \in Seq(Responses(answered) \cup Farewells)
      /\ Len(told') = Len(told) + 1 /\ told'[Len(told')] = GRACEFUL_EXIT
      /\ \A n \in 1 .. Len(told) : told'[n] = told[n]
      /\ DOMAIN told' = 1 .. Len(told')
  BY <1>2
<1>4. TypeOK'
  BY <1>1, <1>3 DEF IInv, TypeOK, Points, Readings
<1>5. Position' /\ Reasons'
  BY DEF IInv, TypeOK, Position, Reasons, OverLimit
<1>6. Thrown'
  BY <1>2, <1>3 DEF Thrown, Response
<1>7. RepliesInOrder' /\ RepliesContinue'
  BY <1>2, <1>3 DEF RepliesInOrder, RepliesContinue
<1>8. Places'
  BY SamePlaces DEF IInv, Position
<1>9. QED BY <1>1, <1>4, <1>5, <1>6, <1>7, <1>8 DEF IInv

\* The next number goes to the request that is going to be pushed.
LEMMA RecvForServerStep ==
  ASSUME IInv, RecvForServer
  PROVE  IInv'
<1> USE CommunicatorAssumption
    DEF RecvForServer, WellFormed, RequestRead, AfterRead, queues
<1>1. Counters' /\ trail' \in Seq(Readings)
  BY WellFormedRecord
<1>2. /\ requests \in Seq(1 .. made') /\ taken \in Seq(1 .. made') /\ dropped \in Seq(1 .. made')
      /\ made' \in 0 .. MaxRequests /\ request' \in 0 .. made'
  <2>1. made \in Nat /\ 1 .. made \subseteq 1 .. made'
    BY DEF IInv, TypeOK
  <2>2. QED BY <2>1, SeqMonotonic DEF IInv, TypeOK
<1>3. TypeOK'
  BY <1>1, <1>2 DEF IInv, TypeOK, Points, Readings
<1>4. Position' /\ Thrown' /\ Reasons'
  BY DEF IInv, TypeOK, Position, Thrown, Reasons, OverLimit, RepliesInOrder
<1>5. RepliesInOrder' /\ RepliesContinue'
  BY SameReplies DEF IInv, Position
<1>6. Places'
  <2>1. /\ request = 0 /\ dropped = << >> /\ made \in Nat
        /\ Len(taken) \in Nat /\ Len(requests) \in Nat
    BY SMTT(20) DEF IInv, TypeOK, Position, Places
  <2>2. /\ made' = made + 1 /\ request' = made + 1
        /\ UNCHANGED <<taken, requests, dropped, loc_exit>>
    OBVIOUS
  <2> HIDE DEF RecvForServer
  <2>3. QED BY <2>1, <2>2 DEF IInv, Places, Dropped
<1>7. QED BY <1>1, <1>3, <1>4, <1>5, <1>6 DEF IInv

LEMMA RecvStep ==
  ASSUME IInv, Recv
  PROVE  IInv'
<1>1. ASSUME NEW status \in NmErrors, RecvError(status)
      PROVE  IInv'
  BY <1>1, ReadFailedStep DEF RecvError
<1>2. CASE RecvTooLong
  <2>1. ReadFailed(NM_OK) /\ Remember(Reading(NM_OK)) /\ pc = "recv"
    BY <1>2 DEF RecvTooLong
  <2>2. buffered' = FALSE /\ read_once' = TRUE
    BY <1>2 DEF RecvTooLong
  <2>3. buffered' \in BOOLEAN /\ read_once' \in BOOLEAN /\ (buffered' => read_once')
    BY <2>2
  <2>4. NM_OK \in NmErrors
    OBVIOUS
  <2>5. QED BY <2>1, <2>3, <2>4, ReadFailedStep
<1>3. CASE RecvNoMemory
  <2>1. /\ conn_error \in NmErrors /\ buffered \in BOOLEAN /\ read_once \in BOOLEAN
        /\ buffered => read_once
    BY DEF IInv, TypeOK, Reasons
  <2>2. QED BY <1>3, <2>1, ReadFailedStep DEF RecvNoMemory
<1>4. QED
  BY <1>1, <1>2, <1>3, RecvMalformedStep, RecvHeartbeatStep, RecvExitStep, RecvForServerStep
  DEF Recv

-----------------------------------------------------------------------------
(* The push, and the end of the thread                                     *)

LEMMA PushSleepsStep ==
  ASSUME IInv, PushSleeps
  PROVE  IInv'
<1> USE CommunicatorAssumption DEF IInv, PushSleeps, session, conn, queues, outcomes
<1>1. TypeOK'
  BY DEF TypeOK
<1>2. Position' /\ Thrown' /\ Reasons'
  BY DEF Position, Thrown, Reasons, OverLimit
<1>3. Counters'
  BY SameRecord
<1>4. RepliesInOrder' /\ RepliesContinue'
  BY SameReplies
<1>5. Places'
  BY SamePlaces
<1>6. QED BY <1>1, <1>2, <1>3, <1>4, <1>5

\* The request pushed is the next in number.
LEMMA PushAcceptedStep ==
  ASSUME IInv, PushAccepted
  PROVE  IInv'
<1> USE CommunicatorAssumption DEF PushAccepted, conn, outcomes
<1>1. /\ request = made /\ made \in Nat /\ made # 0 /\ loc_exit = NO_EXIT /\ dropped = << >>
      /\ requests \in Seq(1 .. made) /\ taken \in Seq(1 .. made)
      /\ made = Len(taken) + Len(requests) + 1
  BY DEF IInv, TypeOK, Position, Places, Dropped
<1>2. /\ requests' \in Seq(1 .. made) /\ Len(requests') = Len(requests) + 1
      /\ \A n \in 1 .. Len(requests) : requests'[n] = requests[n]
      /\ requests'[Len(requests) + 1] = made
  BY <1>1
<1>3. TypeOK'
  BY <1>1, <1>2 DEF IInv, TypeOK, Points
<1>4. Position' /\ Thrown' /\ Reasons'
  BY <1>1 DEF IInv, Position, Thrown, Reasons, OverLimit
<1>5. Counters'
  BY SameRecord DEF IInv
<1>6. RepliesInOrder' /\ RepliesContinue'
  BY <1>1, SameReplies
<1>7. Places'
  <2>1. ASSUME NEW n \in 1 .. Len(requests')
        PROVE  requests'[n] = Len(taken) + n
    <3>1. CASE n = Len(requests) + 1
      BY <1>1, <1>2, <3>1
    <3>2. CASE n \in 1 .. Len(requests)
      BY <1>2, <3>2 DEF IInv, Places
    <3>3. QED BY <1>1, <1>2, <3>1, <3>2
  <2>2. /\ request' = 0 /\ UNCHANGED <<taken, made, dropped>>
        /\ Len(taken) \in Nat /\ Len(requests) \in Nat
    BY <1>1
  <2> HIDE DEF PushAccepted
  <2>3. QED BY <1>1, <1>2, <2>1, <2>2 DEF IInv, Places, Dropped
<1>8. QED BY <1>3, <1>4, <1>5, <1>6, <1>7 DEF IInv

\* Only the exit of the server refuses a request, and then the session is over.
LEMMA PushRefusedStep ==
  ASSUME IInv, PushRefused
  PROVE  IInv'
<1> USE CommunicatorAssumption DEF PushRefused, conn, queues
<1>1. /\ request = made /\ made \in Nat /\ made # 0 /\ loc_exit = NO_EXIT /\ dropped = << >>
  BY DEF IInv, TypeOK, Position, Places
<1>2. dropped' = <<made>> /\ dropped' \in Seq(1 .. made)
  BY <1>1
<1>3. TypeOK'
  BY <1>1, <1>2 DEF IInv, TypeOK, Points
<1>4. Position' /\ Thrown' /\ Reasons'
  BY <1>1 DEF IInv, Position, Thrown, Reasons, OverLimit
<1>5. Counters'
  BY SameRecord DEF IInv
<1>6. RepliesInOrder' /\ RepliesContinue'
  BY <1>1, SameReplies
<1>7. Places'
  BY <1>1, <1>2 DEF IInv, Places, Dropped
<1>8. QED BY <1>3, <1>4, <1>5, <1>6, <1>7 DEF IInv

LEMMA CloseStep ==
  ASSUME IInv, Close
  PROVE  IInv'
<1> USE CommunicatorAssumption DEF IInv, Close, session, conn, queues, outcomes
<1>1. TypeOK'
  BY DEF TypeOK, Points
<1>2. Position' /\ Thrown' /\ Reasons'
  BY DEF Position, Thrown, Reasons, OverLimit
<1>3. Counters'
  BY SameRecord
<1>4. RepliesInOrder' /\ RepliesContinue'
  BY SameReplies
<1>5. Places'
  BY SamePlaces
<1>6. QED BY <1>1, <1>2, <1>3, <1>4, <1>5

-----------------------------------------------------------------------------
(* The others                                                              *)

LEMMA ServerTakesStep ==
  ASSUME IInv, ServerTakes
  PROVE  IInv'
<1> USE CommunicatorAssumption DEF ServerTakes, session, conn
<1>1. /\ requests \in Seq(1 .. made) /\ requests # << >> /\ taken \in Seq(1 .. made)
      /\ requests[1] = Len(taken) + 1
      /\ \A n \in 1 .. Len(requests) : requests[n] = Len(taken) + n
  BY DEF IInv, TypeOK, Places
<1>2. /\ requests' \in Seq(1 .. made) /\ Len(requests') = Len(requests) - 1
      /\ Len(requests) \in Nat
      /\ \A n \in 1 .. Len(requests') : requests'[n] = requests[n + 1]
  BY <1>1
<1>3. Head(requests) = requests[1]
  BY <1>1
<1>4. Head(requests) = Len(taken) + 1 /\ Head(requests) \in 1 .. made
  <2>1. 1 \in 1 .. Len(requests)
    BY <1>1
  <2>2. requests[1] \in 1 .. made
    BY <1>1, <2>1, ElementOfSeq
  <2>3. QED BY <1>1, <1>3, <2>2
<1>5. /\ taken' \in Seq(1 .. made) /\ Len(taken') = Len(taken) + 1
      /\ \A n \in 1 .. Len(taken) : taken'[n] = taken[n]
      /\ taken'[Len(taken) + 1] = Len(taken) + 1
  BY <1>1, <1>4
<1>6. TypeOK'
  <2>1. asleep' \in BOOLEAN
    OBVIOUS
  <2>2. Len(requests') <= RequestCap
    BY <1>2 DEF IInv, TypeOK
  <2>3. QED BY <1>2, <1>5, <2>1, <2>2 DEF IInv, TypeOK
<1>7. Position' /\ Thrown' /\ Reasons'
  BY DEF IInv, Position, Thrown, Reasons, OverLimit
<1>8. Counters'
  BY SameRecord DEF IInv
<1>9. RepliesInOrder' /\ RepliesContinue'
  BY SameReplies DEF IInv
<1>10. Places'
  <2>1. \A n \in 1 .. Len(taken') : taken'[n] = n
    BY <1>1, <1>5 DEF IInv, Places
  <2>2. ASSUME NEW n \in 1 .. Len(requests')
        PROVE  requests'[n] = Len(taken') + n
    <3>1. n + 1 \in 1 .. Len(requests) /\ requests'[n] = Len(taken) + (n + 1)
      BY <1>1, <1>2
    <3>2. QED BY <1>1, <1>5, <3>1
  <2>3. made' = Len(taken') + Len(requests') + (IF request' = 0 THEN 0 ELSE 1) + Dropped'
    BY <1>1, <1>2, <1>5 DEF IInv, Places, Dropped
  <2>4. QED BY <2>1, <2>2, <2>3 DEF IInv, Places
<1>11. QED BY <1>6, <1>7, <1>8, <1>9, <1>10 DEF IInv

\* The next response gets the next number.
LEMMA ServerAnswersStep ==
  ASSUME IInv, ServerAnswers
  PROVE  IInv'
<1> USE CommunicatorAssumption DEF ServerAnswers, session, conn
<1> DEFINE new == Response(answered + 1)
<1>1. /\ responses \in Seq(Responses(answered')) /\ new \in Responses(answered')
      /\ told \in Seq(Responses(answered') \cup Farewells)
      /\ answered \in Nat /\ answered' = answered + 1
  <2>1. answered \in Nat
    BY DEF IInv, TypeOK
  <2>2. Responses(answered) \subseteq Responses(answered') /\ new \in Responses(answered')
    BY <2>1 DEF Responses, Response
  <2>3. QED BY <2>1, <2>2, SeqMonotonic DEF IInv, TypeOK
<1>2. /\ responses' \in Seq(Responses(answered')) /\ Len(responses') = Len(responses) + 1
      /\ \A n \in 1 .. Len(responses) : responses'[n] = responses[n]
      /\ responses'[Len(responses) + 1] = new /\ Len(responses) \in Nat
  BY <1>1
<1>3. TypeOK'
  BY <1>1, <1>2 DEF IInv, TypeOK
<1>4. Position' /\ Thrown' /\ Reasons'
  BY DEF IInv, Position, Thrown, Reasons, OverLimit
<1>5. Counters'
  BY SameRecord DEF IInv
<1>6. RepliesInOrder'
  BY DEF IInv, RepliesInOrder
<1>7. RepliesContinue'
  <2> SUFFICES ASSUME loc_exit = NO_EXIT
               PROVE  /\ answered' = Len(told) + Len(responses')
                      /\ \A n \in 1 .. Len(responses') : responses'[n] = Response(Len(told) + n)
    BY DEF RepliesContinue
  <2>1. /\ answered = Len(told) + Len(responses) /\ Len(told) \in Nat
        /\ \A n \in 1 .. Len(responses) : responses[n] = Response(Len(told) + n)
    BY <1>1 DEF IInv, RepliesContinue
  <2>2. new = Response(Len(told) + (Len(responses) + 1))
    BY <1>1, <1>2, <2>1 DEF Response
  <2> HIDE DEF new
  <2>3. answered' = Len(told) + Len(responses')
    BY <1>1, <1>2, <2>1
  <2>4. ASSUME NEW n \in 1 .. Len(responses')
        PROVE  responses'[n] = Response(Len(told) + n)
    <3>1. CASE n = Len(responses) + 1
      BY <1>2, <2>2, <3>1
    <3>2. CASE n \in 1 .. Len(responses)
      BY <1>2, <2>1, <3>2
    <3>3. QED BY <1>2, <3>1, <3>2
  <2>5. QED BY <2>3, <2>4
<1>8. Places'
  BY SamePlaces DEF IInv
<1>9. QED BY <1>3, <1>4, <1>5, <1>6, <1>7, <1>8 DEF IInv

\* Wake-ups, glob_exit and what the client intends change nothing the
\* invariant relies on.
LEMMA AsideStep ==
  ASSUME IInv,
         UNCHANGED <<pc, session, conn, ret, request, queues, outcomes, told, trail>>,
         asleep' \in BOOLEAN, asleep' => asleep,
         glob_exit' \in BOOLEAN, glob_exit => glob_exit', useless' \in BOOLEAN
  PROVE  IInv'
<1> USE CommunicatorAssumption DEF IInv, session, conn, queues, outcomes
<1>1. TypeOK'
  BY DEF TypeOK
<1>2. Position' /\ Thrown' /\ Reasons'
  BY DEF Position, Thrown, Reasons, OverLimit
<1>3. Counters'
  BY SameRecord
<1>4. RepliesInOrder' /\ RepliesContinue'
  BY SameReplies
<1>5. Places'
  BY SamePlaces
<1>6. QED BY <1>1, <1>2, <1>3, <1>4, <1>5

-----------------------------------------------------------------------------
(* Every step                                                              *)

LEMMA NextIInv == IInv /\ [Next]_vars => IInv'
<1> SUFFICES ASSUME IInv, [Next]_vars PROVE IInv'
  OBVIOUS
<1>0. {asleep, glob_exit, useless} \subseteq BOOLEAN
  BY DEF IInv, TypeOK
<1>1. CASE Respond
  BY <1>1, SendOneStep, SendFailsStep, ResponsesSentStep DEF Respond
<1>2. CASE Push
  BY <1>2, PushSleepsStep, PushAcceptedStep, PushRefusedStep DEF Push
<1>3. CASE Session
  BY <1>1, <1>2, <1>3, LeaveLoopStep, ThrowOutStep, ProceedStep, RecvStep, CloseStep
  DEF Session
<1>4. CASE SpuriousWake
  BY <1>0, <1>4, AsideStep DEF SpuriousWake
<1>5. CASE GlobalExit
  BY <1>0, <1>5, AsideStep DEF GlobalExit
<1>6. CASE TurnUseless
  BY <1>0, <1>6, AsideStep DEF TurnUseless
<1>7. CASE UNCHANGED vars
  BY <1>0, <1>7, AsideStep DEF vars
<1>8. QED
  BY <1>3, <1>4, <1>5, <1>6, <1>7, ServerTakesStep, ServerAnswersStep DEF Next, Others

\* The inductive invariant holds in every state of every behaviour.
THEOREM Inductive == Spec => []IInv
<1>1. Init => IInv
  BY InitIInv
<1>2. IInv /\ [Next]_vars => IInv'
  BY NextIInv
<1>3. QED BY <1>1, <1>2, PTL DEF Spec

-----------------------------------------------------------------------------
(* What follows from the invariant                                         *)

\* Every variable of a communicator keeps its type, the error count its limit.
THEOREM CommunicatorTypeCorrect == Spec => []TypeOK
<1>1. IInv => TypeOK
  BY DEF IInv
<1>2. QED BY <1>1, Inductive, PTL

\* Whatever a client does, it is told 100 only when it has reached a limit, and
\* is not read from again once it has.
THEOREM ThrowOutsCorrect == Spec => []ThrownOutJustly
<1>1. IInv => ThrownOutJustly
  <2> SUFFICES ASSUME IInv PROVE ThrownOutJustly
    OBVIOUS
  <2>1. OverLimit <=> Hopeless
    <3>1. client_errors = Failures /\ inactive = Silence
      BY DEF IInv, Counters
    <3>2. QED BY <3>1 DEF OverLimit, Hopeless
  <2>2. QED BY <2>1 DEF IInv, Thrown, Position, ThrownOutJustly
<1>2. QED BY <1>1, Inductive, PTL

\* Responses reach the client in the order they were queued, and the farewell
\* is the last and tells the reason the thread returns.
THEOREM RepliesCorrect == Spec => []RepliesInOrder
<1>1. IInv => RepliesInOrder
  BY DEF IInv
<1>2. QED BY <1>1, Inductive, PTL

\* A sequence that counts, continued by one that counts on.
LEMMA CountOn ==
  ASSUME NEW S, NEW s \in Seq(S), NEW t \in Seq(S),
         \A n \in 1 .. Len(s) : s[n] = n,
         \A n \in 1 .. Len(t) : t[n] = Len(s) + n
  PROVE  /\ s \o t \in Seq(S) /\ Len(s \o t) = Len(s) + Len(t)
         /\ \A n \in 1 .. Len(s \o t) : (s \o t)[n] = n
<1>1. /\ s \o t \in Seq(S) /\ Len(s \o t) = Len(s) + Len(t)
      /\ Len(s) \in Nat /\ Len(t) \in Nat
  OBVIOUS
<1>2. ASSUME NEW n \in 1 .. Len(s) + Len(t)
      PROVE  (s \o t)[n] = n
  <2>1. (s \o t)[n] = IF n <= Len(s) THEN s[n] ELSE t[n - Len(s)]
    BY ConcatProperties
  <2>2. CASE n <= Len(s)
    BY <1>1, <2>1, <2>2
  <2>3. CASE n > Len(s)
    <3>1. n - Len(s) \in 1 .. Len(t)
      BY <1>1, <2>3
    <3>2. t[n - Len(s)] = Len(s) + (n - Len(s))
      BY <3>1
    <3>3. QED BY <1>1, <2>1, <2>3, <3>2
  <2>4. QED BY <1>1, <2>2, <2>3
<1>3. QED BY <1>1, <1>2

\* The four places a request can be in, put together, are all the requests in
\* the order they were made.
LEMMA PlacesInOrder == IInv => RequestsInOrder
<1> SUFFICES ASSUME IInv PROVE RequestsInOrder
  OBVIOUS
<1>1. /\ made \in Nat /\ taken \in Seq(1 .. made) /\ requests \in Seq(1 .. made)
      /\ \A n \in 1 .. Len(taken) : taken[n] = n
      /\ \A n \in 1 .. Len(requests) : requests[n] = Len(taken) + n
  BY DEF IInv, TypeOK, Places
<1>2. /\ Held \in {<< >>, <<made>>} /\ dropped \in {<< >>, <<made>>}
      /\ Held = << >> \/ dropped = << >>
      /\ Len(Held) = (IF request = 0 THEN 0 ELSE 1) /\ Len(dropped) = Dropped
  BY DEF IInv, Places, Position, Held, Dropped
<1>3. made = Len(taken) + Len(requests) + Len(Held) + Len(dropped)
  BY <1>2 DEF IInv, Places
<1> DEFINE S       == 1 .. made
           sent      == taken \o requests
           numbers == [n \in 1 .. made |-> n]
<1>4. /\ sent \in Seq(S) /\ Len(sent) = Len(taken) + Len(requests)
      /\ \A n \in 1 .. Len(sent) : sent[n] = n
  <2> HIDE DEF S
  <2>1. taken \in Seq(S) /\ requests \in Seq(S)
    BY <1>1 DEF S
  <2>2. QED BY <1>1, <2>1, CountOn
<1>5. numbers \in Seq(S) /\ Len(numbers) = made /\ \A n \in 1 .. made : numbers[n] = n
  BY <1>1
<1>6. /\ Len(taken) \in Nat /\ Len(requests) \in Nat
      /\ Held = << >> /\ dropped = << >> => made = Len(taken) + Len(requests)
      /\ Held = <<made>> \/ dropped = <<made>> => made = Len(taken) + Len(requests) + 1
  <2>1. Len(taken) \in Nat /\ Len(requests) \in Nat
    BY <1>1
  <2>2. Len(<< >>) = 0 /\ Len(<<made>>) = 1 /\ <<made>> # << >>
    OBVIOUS
  <2>3. CASE Held = << >> /\ dropped = << >>
    BY <1>3, <2>1, <2>2, <2>3
  <2>4. CASE Held = <<made>> /\ dropped = << >>
    BY <1>3, <2>1, <2>2, <2>4
  <2>5. CASE Held = << >> /\ dropped = <<made>>
    BY <1>3, <2>1, <2>2, <2>5
  <2>6. QED BY <1>2, <2>1, <2>2, <2>3, <2>4, <2>5
<1> HIDE DEF S, sent, numbers
<1>7. ASSUME Held = << >> /\ dropped = << >>
      PROVE  sent \o Held \o dropped = numbers
  <2>1. sent = numbers
    <3>1. Len(sent) = Len(numbers)
      BY <1>4, <1>5, <1>6, <1>7
    <3>2. QED BY <1>4, <1>5, <3>1, SeqEqual
  <2>2. sent \o Held \o dropped = sent
    BY <1>4, <1>7, ConcatEmptySeq
  <2>3. QED BY <2>1, <2>2
<1>8. ASSUME Held = <<made>> \/ dropped = <<made>>
      PROVE  sent \o Held \o dropped = numbers
  <2>1. made = Len(sent) + 1 /\ made \in S
    BY <1>1, <1>4, <1>6, <1>8 DEF S
  <2>2. sent \o Held \o dropped = Append(sent, made)
    <3>1. <<made>> \in Seq(S) /\ << >> \in Seq(S) /\ sent \o <<made>> \in Seq(S)
      BY <1>4, <2>1
    <3>2. sent \o << >> = sent /\ (sent \o <<made>>) \o << >> = sent \o <<made>>
      BY <1>4, <3>1, ConcatEmptySeq
    <3>3. Append(sent, made) = sent \o <<made>>
      BY <1>4, <2>1, AppendIsConcat
    <3>4. CASE Held = <<made>> /\ dropped = << >>
      BY <3>2, <3>3, <3>4
    <3>5. CASE Held = << >> /\ dropped = <<made>>
      BY <3>2, <3>3, <3>5
    <3>6. <<made>> # << >>
      OBVIOUS
    <3>7. QED BY <1>2, <1>8, <3>4, <3>5, <3>6
  <2>3. /\ Append(sent, made) \in Seq(S) /\ Len(Append(sent, made)) = made
        /\ \A n \in 1 .. made : Append(sent, made)[n] = n
    <3>1. /\ Append(sent, made) \in Seq(S) /\ Len(Append(sent, made)) = Len(sent) + 1
          /\ \A n \in 1 .. Len(sent) : Append(sent, made)[n] = sent[n]
          /\ Append(sent, made)[Len(sent) + 1] = made
      BY <1>4, <2>1, AppendProperties
    <3>2. QED BY <1>4, <1>6, <2>1, <3>1
  <2>4. Append(sent, made) = numbers
    BY <1>5, <2>3, SeqEqual
  <2>5. QED BY <2>2, <2>4
<1>9. sent \o Held \o dropped = numbers
  BY <1>2, <1>7, <1>8
<1>10. dropped # << >> => loc_exit = GLOBAL_EXIT_TRIGGERED /\ glob_exit
  BY DEF IInv, Places, Position
<1>11. QED BY <1>9, <1>10 DEF RequestsInOrder, sent, numbers

\* No request is lost, duplicated or overtaken between the client and the
\* server, but the last one, which the exit of the server destroys.
THEOREM RequestsCorrect == Spec => []RequestsInOrder
BY PlacesInOrder, Inductive, PTL

\* A thread that has left its loop has a reason that still holds, and no error is
\* reported that an earlier call made.
THEOREM ExitsCorrect == Spec => []ExitExplained
<1>1. IInv => ExitExplained
  BY DEF IInv, TypeOK, Position, Reasons, ExitExplained
<1>2. QED BY <1>1, Inductive, PTL

-----------------------------------------------------------------------------
(* A session comes to an end                                               *)

\* What is still before the session of a client from which no well-formed request
\* comes any more: the errors and the silence it is allowed, then the points of the
\* round it is in, then the responses to be sent.
ErrorsLeft  == MaxErrors - client_errors
SilenceLeft == IF inactive < MaxTimeout THEN MaxTimeout - inactive ELSE 0
PointsLeft  ==
  CASE pc = "push" -> 6 [] pc = "loop" /\ loc_exit = NO_EXIT -> 5 [] pc = "respond" -> 4
    [] pc = "recv" -> 3 [] pc = "loop" /\ loc_exit # NO_EXIT -> 2 [] pc = "close" -> 1
    [] OTHER -> 0
Nearer ==
  \/ ErrorsLeft' < ErrorsLeft
  \/ /\ ErrorsLeft' = ErrorsLeft
     /\ \/ SilenceLeft' < SilenceLeft
        \/ /\ SilenceLeft' = SilenceLeft
           /\ \/ PointsLeft' < PointsLeft
              \/ PointsLeft' = PointsLeft /\ Len(responses') < Len(responses)

\* And before that of any client once glob_exit is set.
WayOut ==
  CASE pc = "respond" -> 5 [] pc = "recv" -> 4 [] pc = "push" -> 3 [] pc = "loop" -> 2
    [] pc = "close" -> 1 [] OTHER -> 0
Leaving == WayOut' < WayOut \/ (WayOut' = WayOut /\ Len(responses') < Len(responses))

SessionStays == UNCHANGED <<pc, session, conn, ret, request, told>>
SessionOnlyForward == /\ useless => Nearer \/ SessionStays
                      /\ glob_exit => Leaving \/ SessionStays

\* What is left is counted by natural numbers, so that it cannot get less forever.
LEMMA LeftIs ==
  ASSUME TypeOK
  PROVE  /\ ErrorsLeft \in Nat /\ SilenceLeft \in Nat /\ PointsLeft \in Nat
         /\ WayOut \in Nat /\ Len(responses) \in Nat
<1>1. ErrorsLeft \in Nat /\ SilenceLeft \in Nat
  BY CommunicatorAssumption DEF TypeOK, ErrorsLeft, SilenceLeft
<1>2. PointsLeft \in Nat
  BY DEF PointsLeft
<1>3. WayOut \in Nat
  BY DEF WayOut
<1>4. Len(responses) \in Nat
  BY DEF TypeOK
<1>5. QED BY <1>1, <1>2, <1>3, <1>4

\* Another point of the same round.
LEMMA RoundGoesOn ==
  ASSUME UNCHANGED <<inactive, client_errors>>
  PROVE  PointsLeft' < PointsLeft \/ (PointsLeft' = PointsLeft /\ Len(responses') < Len(responses))
           => Nearer
BY DEF Nearer, ErrorsLeft, SilenceLeft

\* The head of the loop, and the end of the thread.
LEMMA HeadForward ==
  ASSUME IInv, LeaveLoop \/ ThrowOut \/ Proceed \/ Close
  PROVE  SessionOnlyForward
<1>1. UNCHANGED <<inactive, client_errors>>
  BY DEF LeaveLoop, ThrowOut, Proceed, Close, session
<1>2. PointsLeft' < PointsLeft
  BY DEF LeaveLoop, ThrowOut, Proceed, Close, session, PointsLeft, IInv, TypeOK
<1>3. ASSUME glob_exit PROVE WayOut' < WayOut
  <2>1. (pc = "loop" /\ pc' = "close") \/ (pc = "close" /\ pc' = "done")
    BY <1>3, Zenon DEF LeaveLoop, ThrowOut, Proceed, Close
  <2>2. QED BY <2>1 DEF WayOut
<1>4. QED BY <1>1, <1>2, <1>3, RoundGoesOn DEF SessionOnlyForward, Leaving

\* A response less, or the end of send_all_resps.
LEMMA RespondForward ==
  ASSUME IInv, Respond
  PROVE  SessionOnlyForward
<1>1. CASE SendOne \/ \E status \in NmErrors : SendFails(status)
  <2>1. /\ UNCHANGED <<pc, inactive, client_errors, loc_exit>>
        /\ responses # << >> /\ responses' = Tail(responses)
    BY <1>1 DEF SendOne, SendFails, PopResponse, session
  <2>2. PICK S : responses \in Seq(S)
    BY DEF IInv, TypeOK
  <2>3. Len(responses') < Len(responses)
    BY <2>1, <2>2
  <2>4. PointsLeft' = PointsLeft /\ WayOut' = WayOut
    BY <2>1 DEF PointsLeft, WayOut
  <2>5. QED BY <2>1, <2>3, <2>4, RoundGoesOn DEF SessionOnlyForward, Leaving
<1>2. CASE ResponsesSent
  <2>1. UNCHANGED <<inactive, client_errors>>
    BY <1>2 DEF ResponsesSent
  <2>2. PointsLeft' < PointsLeft
    BY <1>2 DEF ResponsesSent, PointsLeft
  <2>3. WayOut' < WayOut
    BY <1>2 DEF ResponsesSent, WayOut
  <2>4. QED BY <2>1, <2>2, <2>3, RoundGoesOn DEF SessionOnlyForward, Leaving
<1>3. QED BY <1>1, <1>2 DEF Respond

\* A read takes an error or a silence from what the client is allowed, or ends the
\* session; only a well-formed request, which a useless client does not send, gives
\* any back.
LEMMA RecvForward ==
  ASSUME IInv, Recv
  PROVE  SessionOnlyForward
<1>1. pc = "recv" /\ pc' \in {"loop", "push"}
  BY DEF Recv, RecvError, RecvTooLong, RecvNoMemory, ReadFailed, RecvMalformed, RecvHeartbeat,
         RecvExit, RecvForServer, WellFormed
<1>2. WayOut' < WayOut
  BY <1>1 DEF WayOut
<1>3. inactive < MaxTimeout /\ inactive \in Nat /\ client_errors < MaxErrors
      /\ client_errors \in Nat /\ loc_exit = NO_EXIT
  BY <1>1, CommunicatorAssumption DEF IInv, TypeOK, Position, OverLimit
<1>4. ASSUME NEW status \in NmErrors, ReadFailed(status)
      PROVE  Nearer
  <2>1. CASE status = NM_CONN_CLOSED
    <3>1. UNCHANGED <<inactive, client_errors>>
      BY <1>4, <2>1 DEF ReadFailed
    <3>2. PointsLeft' < PointsLeft
      BY <1>1, <1>4, <2>1 DEF ReadFailed, PointsLeft
    <3>3. QED BY <3>1, <3>2, RoundGoesOn
  <2>2. CASE status = NM_TIMEDOUT
    <3>1. client_errors' = client_errors /\ inactive' = inactive + MaxRecvTimeo
      BY <1>4, <2>2 DEF ReadFailed
    <3>2. SilenceLeft' < SilenceLeft
      BY <1>3, <3>1, CommunicatorAssumption DEF SilenceLeft
    <3>3. ErrorsLeft' = ErrorsLeft
      BY <3>1 DEF ErrorsLeft
    <3>4. QED BY <3>2, <3>3 DEF Nearer
  <2>3. CASE status \notin {NM_CONN_CLOSED, NM_TIMEDOUT}
    <3>1. client_errors' = client_errors + 1
      BY <1>4, <2>3 DEF ReadFailed
    <3>2. ErrorsLeft' < ErrorsLeft
      BY <1>3, <3>1, CommunicatorAssumption DEF ErrorsLeft
    <3>3. QED BY <3>2 DEF Nearer
  <2>4. QED BY <2>1, <2>2, <2>3
<1>5. CASE (\E status \in NmErrors : RecvError(status)) \/ RecvTooLong \/ RecvNoMemory
  <2>1. \E status \in NmErrors : ReadFailed(status)
    <3>1. conn_error \in NmErrors
      BY DEF IInv, TypeOK
    <3>2. QED BY <1>5, <3>1 DEF RecvError, RecvTooLong, RecvNoMemory
  <2>2. QED BY <1>2, <1>4, <2>1 DEF SessionOnlyForward, Leaving
<1>6. CASE RecvMalformed
  <2>1. client_errors' = client_errors + 1
    BY <1>6 DEF RecvMalformed
  <2>2. ErrorsLeft' < ErrorsLeft
    BY <1>3, <2>1, CommunicatorAssumption DEF ErrorsLeft
  <2>3. QED BY <1>2, <2>2 DEF SessionOnlyForward, Leaving, Nearer
<1>7. CASE RecvHeartbeat \/ RecvExit \/ RecvForServer
  <2>1. ~useless
    BY <1>7 DEF RecvHeartbeat, RecvExit, RecvForServer, WellFormed
  <2>2. QED BY <1>2, <2>1 DEF SessionOnlyForward, Leaving
<1>8. QED BY <1>5, <1>6, <1>7 DEF Recv

\* The push ends, or goes to sleep and changes nothing else.
LEMMA PushForward ==
  ASSUME IInv, Push
  PROVE  SessionOnlyForward
<1>1. CASE PushSleeps
  BY <1>1 DEF PushSleeps, SessionOnlyForward, SessionStays
<1>2. CASE PushAccepted \/ PushRefused
  <2>1. UNCHANGED <<inactive, client_errors>>
    BY <1>2 DEF PushAccepted, PushRefused
  <2>2. PointsLeft' < PointsLeft
    BY <1>2 DEF PushAccepted, PushRefused, PointsLeft
  <2>3. WayOut' < WayOut
    BY <1>2 DEF PushAccepted, PushRefused, WayOut
  <2>4. QED BY <2>1, <2>2, <2>3, RoundGoesOn DEF SessionOnlyForward, Leaving
<1>3. QED BY <1>1, <1>2 DEF Push

\* Whoever sends nothing useful any more, and everybody once glob_exit is set, is
\* brought closer to the end of the session by every step of the thread, with any
\* limits, in any mixture of timeouts, errors and malformed requests; only sleep in
\* push_back and responses the server queues meanwhile can hold it up.
THEOREM SessionsMoveOn == Spec => [][SessionOnlyForward]_vars
<1>1. ASSUME IInv, Next PROVE SessionOnlyForward
  <2>1. CASE Others
    BY <2>1 DEF Others, ServerTakes, ServerAnswers, SpuriousWake, GlobalExit, TurnUseless,
       SessionOnlyForward, SessionStays
  <2>2. QED BY <1>1, <2>1, HeadForward, RespondForward, RecvForward, PushForward DEF Next, Session
<1>2. IInv /\ [Next]_vars => [SessionOnlyForward]_vars
  BY <1>1
<1>3. QED BY <1>2, Inductive, PTL DEF Spec
=============================================================================
