------------------------------ MODULE Exchange ------------------------------
(***************************************************************************)
(* A request and the response to it: make_req of request.c, then make_resp *)
(* and make_raw_resp of server/src/response.c on a text the server answers *)
(* with.  The server thread is not in the repository; it may quote the     *)
(* request as it came, its payload, or its payload without the escapes.    *)
(***************************************************************************)
EXTENDS Request

CONSTANT Behinds   \* the bytes that may stand behind an allocation, up to a 0

ASSUME ExchangeAssumption == << >> \in Behinds

VARIABLES
  turn,    \* where the response is
  answer,  \* the payload argument of make_resp
  behind,  \* what happens to stand behind the escaped copy of it
  resp,    \* the response_t
  reply    \* the raw response

response  == <<turn, answer, behind, resp, reply>>
conversation == <<vars, response>>

NoResponse == [status |-> "none", payload |-> << >>]

ExchangeInit == /\ Init
                /\ turn = "idle" /\ answer = << >> /\ behind = << >>
                /\ resp = NoResponse /\ reply = << >>

Answers == {raw, req.payload, make_unescaped_string(req.payload)}

\* make_resp.
MakeResp ==
  /\ pc = "accepted" /\ turn = "idle" /\ turn' = "made"
  /\ answer' \in Answers /\ behind' \in Behinds
  /\ resp' = [status |-> "200", payload |-> make_escaped_string(answer', behind')]
  /\ UNCHANGED <<vars, reply>>

\* It has no memory, for the structure or for the copy, and keeps nothing.
MakeRespFails ==
  /\ pc = "accepted" /\ turn = "idle" /\ turn' = "over"
  /\ UNCHANGED <<vars, answer, behind, resp, reply>>

\* send_resp makes the raw response; send_all_resps then destroys the other.
SendResp ==
  /\ turn = "made" /\ turn' = "over"
  /\ reply' = make_raw_resp(resp)
  /\ resp' = NoResponse
  /\ UNCHANGED <<vars, answer, behind>>

SendRespFails ==
  /\ turn = "made" /\ turn' = "over"
  /\ resp' = NoResponse
  /\ UNCHANGED <<vars, answer, behind, reply>>

Respond == MakeResp \/ MakeRespFails \/ SendResp \/ SendRespFails

ExchangeNext == (MakeReq /\ UNCHANGED response) \/ Respond

ExchangeSpec == ExchangeInit /\ [][ExchangeNext]_conversation

\* make_req runs in a thread that is scheduled.
FairExchange == ExchangeSpec /\ WF_conversation(MakeReq /\ UNCHANGED response)

-----------------------------------------------------------------------------
(* Properties                                                              *)

\* make_req comes to an end whatever it is given: the loop over the pairs always
\* moves on.
RequestDecided == <>(pc \in Final)

\* The client can read every response, whatever text the server answers with: it
\* ends at its last byte and not before, has two sections, and the second without
\* its escapes is the text.  Excluded are copies that ran on for want of a zero.
ReplyReadable ==
  reply # << >> /\ behind = << >> =>
    /\ Unmasked(reply, {"[", "]"}) = {1, Len(reply)}
    /\ Unmasked(reply, {"{", "}"}) = {2, 4, 5, Len(reply) - 1}
    /\ make_unescaped_string(Between(reply, 5, Len(reply) - 1)) = answer

-----------------------------------------------------------------------------
(* Statements of the repository the code does not keep                     *)

\* request.h: "you can use {} in the payload by escaping them \{ \} or even \\".
EscapesAccepted ==
  pc \in Final /\ ~oom /\ Formed(raw, Braces(raw))
    /\ PlainlyEscaped(SubSeq(raw, 1, Braces(raw)[5])) => pc = "accepted"
=============================================================================
