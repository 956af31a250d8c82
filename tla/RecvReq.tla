------------------------------ MODULE RecvReq ------------------------------
(***************************************************************************)
(* recv_req of server/src/CommunicationManager.c: how a stream of bytes is *)
(* cut into requests.  A request ends at the first ']' that is not escaped *)
(* by a '\' before it; what follows it in the last block read is kept in   *)
(* recv_buf for the next call.  The socket hands out the stream in blocks  *)
(* of any size up to RECV_BLOCK_SZ.                                        *)
(*                                                                         *)
(* Bytes are abstracted to the two that matter to recv_req, the byte 0,    *)
(* which hides what follows it from strchr, strlen and copy_str, and a     *)
(* fourth for all others.  On their way bytes are known by their place in  *)
(* the stream, so that none can be mistaken for another.  One step reads   *)
(* and treats one block, or fails to; a first malloc that fails returns    *)
(* NULL and changes nothing.                                               *)
(***************************************************************************)
EXTENDS Integers, Sequences, FiniteSets

CONSTANTS Stop, Escape, Nul, Other,  \* ']', '\', 0 and any other byte
          BlockSize,            \* RECV_BLOCK_SZ
          MaxMessage,           \* max_msg_len, MAX_MESSAGE_LEN in bytes
          MaxStream             \* bound: the bytes a client sends

ASSUME RecvReqAssumption ==
  /\ Cardinality({Stop, Escape, Nul, Other}) = 4
  /\ BlockSize \in Nat \ {0} /\ MaxMessage \in Nat /\ MaxStream \in Nat

Byte == {Stop, Escape, Nul, Other}

VARIABLES
  input,     \* all the client sends in the session
  stream,    \* the places of the bytes the socket still holds
  recv_buf,  \* the places of the bytes in recv_buf
  req,       \* req_start[0 .. len-1], the places of what was read so far
  cap,       \* the size of the allocation req_start points to
  gone,      \* history: the places of what was returned or thrown away
  returned,  \* history: where in gone the requests returned lie
  dropped,   \* history: where in gone the pieces thrown away lie
  strayed    \* history: is_escaped has read the byte before req_start

vars == <<input, stream, recv_buf, req, cap, gone, returned, dropped, strayed>>

FirstCap == BlockSize + 1      \* malloc(RECV_BLOCK_SZ+1)
BufSize  == BlockSize          \* malloc(cap) in create_recv_buf
BufCap   == BlockSize + 1      \* the cap field it stores

Streams == UNION {[1 .. n -> Byte] : n \in 0 .. MaxStream}
Prefix(s, n) == SubSeq(s, 1, IF n < Len(s) THEN n ELSE Len(s))
Suffix(s, n) == SubSeq(s, n + 1, Len(s))
Least(S) == CHOOSE n \in S : \A m \in S : n <= m

Init == /\ input \in Streams /\ stream = [n \in DOMAIN input |-> n]
        /\ recv_buf = << >>
        /\ req = << >> /\ cap = FirstCap
        /\ gone = << >> /\ returned = {} /\ dropped = {}
        /\ strayed = FALSE

-----------------------------------------------------------------------------
(* escaped_strchr(req_start, ']')                                          *)

\* What a string function sees of bytes: those before the first 0.
Visible(places) ==
  LET zeros == {n \in DOMAIN places : input[places[n]] = Nul}
  IN IF zeros = {} THEN places ELSE Prefix(places, Least(zeros) - 1)

\* Mutant: escapes are not looked at.
EscapedNever(text, n, before) == FALSE

\* is_escaped looks at the byte before; for the first byte of the request it
\* is one outside the allocation, so the answer, `before`, is arbitrary.
Escaped(text, n, before) == IF n = 1 THEN before ELSE input[text[n - 1]] = Escape
Ends(text, before) ==
  {n \in DOMAIN text : input[text[n]] = Stop /\ ~Escaped(text, n, before)}

-----------------------------------------------------------------------------
(* Reading a block                                                         *)

\* The next block comes out of recv_buf when that holds anything, and is
\* whatever the socket gives otherwise.
FromBuffer(block) == /\ recv_buf # << >>
                     /\ block = Prefix(recv_buf, BlockSize)
                     /\ UNCHANGED stream
FromSocket(block) == /\ recv_buf = << >>
                     /\ block = Prefix(stream, Len(block))
                     /\ stream' = Suffix(stream, Len(block))

\* get_from_buf takes the block out of recv_buf.
LeftInBuffer == Suffix(recv_buf, BlockSize)

\* Mutant: the loop stops at len+received = cap, with no room for the zero.
GrownLate(len) ==
  {cap * 2^k : k \in 0 .. len} \cap (len .. IF len <= cap THEN cap ELSE 2 * len - 1)

\* while(len+received>=cap) cap *= 2, a set of one: cap doubled until it is more
\* than len, and not once more.
Grown(len) ==
  {cap * 2^k : k \in 0 .. len} \cap (len + 1 .. IF len < cap THEN cap ELSE 2 * len)

\* Mutant: the first byte after the request goes with the zero written there.
PutInBufLate(rest) == LeftInBuffer \o Suffix(Visible(rest), 1)

\* put_in_buf(recv_buf, req_end+1, strlen(req_end+1))
PutInBuf(rest) == LeftInBuffer \o Prefix(Visible(rest), BufCap - Len(LeftInBuffer))

\* A call begins with a new allocation, so that is where each one ends.
Restart == req' = << >> /\ cap' = FirstCap

\* Where the next n bytes to go will lie in gone.
PlaceOf(n) == [from |-> Len(gone) + 1, to |-> Len(gone) + n]

Throw(bytes) == /\ gone' = gone \o bytes
                /\ dropped' = dropped \cup {PlaceOf(Len(bytes))}
                /\ Restart
                /\ UNCHANGED <<input, returned>>

\* Mutant: a request of the maximum is taken for one below it.
FitsExactly(block) == Len(req) + Len(block) <= MaxMessage

Fits(block) == Len(req) + Len(block) < MaxMessage

TooLong(block) == /\ ~Fits(block)
                  /\ Throw(req \o block)
                  /\ recv_buf' = LeftInBuffer
                  /\ UNCHANGED strayed

OutOfMemory(block) == /\ Fits(block)
                      /\ Len(req) + Len(block) >= cap
                      /\ Throw(req \o block)
                      /\ recv_buf' = LeftInBuffer
                      /\ UNCHANGED strayed

Stray(all) == strayed' = (strayed \/ input[all[1]] = Stop)

Unfinished(block) ==
  \E before \in BOOLEAN :
    /\ Fits(block)
    /\ Ends(Visible(req \o block), before) = {}
    /\ req' = req \o block
    /\ cap' \in Grown(Len(req) + Len(block))
    /\ recv_buf' = LeftInBuffer
    /\ Stray(req \o block)
    /\ UNCHANGED <<input, gone, returned, dropped>>

Finished(block) ==
  \E before \in BOOLEAN :
    /\ Fits(block)
    /\ Ends(Visible(req \o block), before) # {}
    /\ LET all == req \o block
           end == Least(Ends(Visible(all), before))
       IN /\ returned' = returned \cup {PlaceOf(end)}
          /\ gone' = gone \o Prefix(all, end)
          /\ recv_buf' = PutInBuf(Suffix(all, end))
    /\ Restart
    /\ Stray(req \o block)
    /\ UNCHANGED <<input, dropped>>

Blocks == {Prefix(stream, n) : n \in 1 .. BlockSize} \cup {Prefix(recv_buf, BlockSize)}

ReadBlock ==
  \E block \in Blocks \ {<< >>} :
    /\ FromBuffer(block) \/ FromSocket(block)
    /\ \/ TooLong(block)
       \/ OutOfMemory(block)
       \/ Unfinished(block)
       \/ Finished(block)

\* NM_recv fails: nothing came for MAX_RECV_TIMEO, or it reports an error.
ReadFails == /\ recv_buf = << >>
             /\ req # << >>
             /\ Throw(req)
             /\ UNCHANGED <<stream, recv_buf, strayed>>

Next == ReadBlock \/ ReadFails

Spec == Init /\ [][Next]_vars

-----------------------------------------------------------------------------
(* Properties                                                              *)

Place == [from : Nat, to : Nat]

\* Every variable has its type, and a request being read is shorter than the
\* maximum.
TypeOK == /\ input \in Seq(Byte)
          /\ {stream, recv_buf, req, gone} \subseteq Seq(DOMAIN input)
          /\ cap \in Nat
          /\ req # << >> => Len(req) < MaxMessage
          /\ returned \subseteq Place /\ dropped \subseteq Place
          /\ strayed \in BOOLEAN

\* No byte is duplicated or overtaken on its way through recv_buf, and one is
\* lost only when a byte 0 hides it, both in the block that ended a request:
\* behind the end, and less than a block away.
Kept == gone \o req \o recv_buf \o stream
StreamConserved ==
  ~strayed =>
    /\ \A m, n \in DOMAIN Kept : m < n => Kept[m] < Kept[n]
    /\ \A p \in DOMAIN input : p \notin {Kept[n] : n \in DOMAIN Kept} =>
         \E r \in returned : \E z \in gone[r.to] + 1 .. p :
           input[z] = Nul /\ p - gone[r.to] < BlockSize

\* The request returned last is the byte ']' alone.
StopAlone == /\ req = << >>
             /\ \E p \in returned : p.from = Len(gone) /\ p.to = Len(gone)
             /\ input[gone[Len(gone)]] = Stop

\* copy_str of received+1 bytes always finds room for the zero that ends the request.
\* put_in_buf is not as safe: recv_buf's cap field counts one byte more than its malloc
\* provides, and that byte can be written.  It is the only one past the end, and there
\* is one way to it: recv_req has read on behind a ']' at the start of a request,
\* taking it for escaped, and in a later block no longer does, so that more than a
\* block is left behind it.
BuffersInBounds == /\ Len(req) < cap
                   /\ Len(recv_buf) <= BufSize + 1
                   /\ Len(recv_buf) > BufSize => StopAlone

\* The ends of the requests the client sent, whatever the blocks, in the stream
\* without the hidden bytes.
TrueEnds == {n \in DOMAIN gone : /\ input[gone[n]] = Stop
                                 /\ n > 1 => input[gone[n - 1]] # Escape}
Within(n, places) == \E p \in places : p.from <= n /\ n <= p.to

\* However the network cuts the stream into blocks, and whatever was thrown away
\* before, each request returned ends where one the client sent ends, runs into
\* no other and holds no byte 0, and no end is missed outside the pieces thrown
\* away.
FramingExact ==
  ~strayed =>
    /\ \A p \in returned : \A n \in p.from .. p.to :
         (n \in TrueEnds <=> n = p.to) /\ input[gone[n]] # Nul
    /\ \A n \in TrueEnds : Within(n, returned) \/ Within(n, dropped)
=============================================================================
