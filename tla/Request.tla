------------------------------ MODULE Request ------------------------------
(***************************************************************************)
(* make_req of server/src/request.c: a raw request [{type}{params}         *)
(* {payload}] becomes a request_t, or is refused and leaves nothing.       *)
(*                                                                         *)
(* The three sections are copied into func_arena, whose first page is      *)
(* modelled byte by byte, because a section may end before it begins: its  *)
(* size is then a huge unsigned number.  Texts are assumed to fit in that  *)
(* page.  Names of types are abridged to their first letter.               *)
(***************************************************************************)
EXTENDS Texts

CONSTANTS Raws,   \* the texts recv_req can return
          Align   \* MAX_ALIGN

NULL    == -1
NUL     == "nul"     \* the byte 0

\* recv_req returns texts that end with ']'; none has a zero inside.
ASSUME RequestAssumption ==
  /\ Align \in Nat \ {0}
  /\ \A r \in Raws : /\ r \in Seq({r[n] : n \in DOMAIN r} \ {NUL})
                     /\ r # << >> /\ r[Len(r)] = "]"

UNKNOWN == -1

\* HEARTBEAT, EXIT, LOGIN, SIGNIN, MSG_T
types == <<"h", "e", "l", "s", "m">>
string_type_to_int(name) ==
  IF \E i \in DOMAIN types : name = <<types[i]>>
  THEN (CHOOSE i \in DOMAIN types : name = <<types[i]>>) - 1
  ELSE UNKNOWN

VARIABLES
  pc,        \* where make_req is
  raw,       \* its argument
  cursor,    \* where the next section is looked for
  page,      \* the bytes of func_arena's page
  used,      \* how many of them are allocated
  sections,  \* the addresses in page of type, param_str and payload
  next_pair, \* the next pair in the copy of the parameters, NULL behind the last
  nodes,     \* the parameters in the order of their creation, the first the head
  req,       \* request_type and payload of the request
  live,      \* what is allocated
  oom,       \* history: an allocation has failed
  strayed    \* history: a section of negative size was stored

text  == <<cursor, page, used, sections>>
parms == <<next_pair, nodes>>
vars  == <<pc, raw, text, parms, req, live, oom, strayed>>

\* What a request is made of, all in request_arena, and a node, in an arena of its
\* own until it is given to request_arena.
RequestThings == {"request_arena", "request", "raw_request", "payload"}
NodeThings    == {"tmp_arena", "node", "name", "value"}
Things        == RequestThings \cup NodeThings \cup {"func_arena", "copy"}

\* What allocate_request and create_node have made when a thing is not to be had.
AllocateThings == {"request_arena", "request", "raw_request"}
MadeBefore == [request_arena |-> {},
               request       |-> {"request_arena"},
               raw_request   |-> {"request_arena", "request"},
               tmp_arena     |-> {},
               node          |-> {"tmp_arena"},
               name          |-> {"tmp_arena", "node"},
               value         |-> {"tmp_arena", "node", "name"}]

\* Mutant: without memory for the value the node is not destroyed.
UndoneShort == [request_arena |-> {}, request |-> RequestThings, raw_request |-> RequestThings,
                tmp_arena |-> {}, node |-> NodeThings, name |-> NodeThings, value |-> {}]

\* What their exits then free, by arena_destroy, which destroy_req comes down to.
Undone == [request_arena |-> {}, request |-> RequestThings, raw_request |-> RequestThings,
           tmp_arena |-> {}, node |-> NodeThings, name |-> NodeThings, value |-> NodeThings]

Names == <<"type", "params", "payload">>
NoRequest == [request_type |-> UNKNOWN, payload |-> << >>]

Init == /\ pc = "allocate" /\ raw \in Raws
        /\ cursor = 1 /\ page = << >> /\ used = 0
        /\ sections = << >>
        /\ next_pair = NULL /\ nodes = << >>
        /\ req = NoRequest /\ live = {}
        /\ oom = FALSE /\ strayed = FALSE

-----------------------------------------------------------------------------
(* allocate_request and the checks of format_req                           *)

Allocate ==
  /\ pc = "allocate" /\ pc' = "check"
  /\ live' = AllocateThings
  /\ UNCHANGED <<raw, text, parms, req, oom, strayed>>

AllocateFails ==
  /\ pc = "allocate" /\ pc' = "refused"
  /\ \E thing \in AllocateThings : live' = MadeBefore[thing] \ Undone[thing]
  /\ oom' = TRUE
  /\ UNCHANGED <<raw, text, parms, req, strayed>>

Delimited == Len(raw) >= 8 /\ raw[1] = "[" /\ raw[Len(raw)] = "]"

CheckFails ==
  /\ pc = "check" /\ ~Delimited /\ pc' = "refuse"
  /\ UNCHANGED <<raw, text, parms, req, live, oom, strayed>>

CheckPasses ==
  /\ pc = "check" /\ Delimited /\ pc' = "sections"
  /\ live' = live \cup {"func_arena"}
  /\ UNCHANGED <<raw, text, parms, req, oom, strayed>>

NoFuncArena ==
  /\ pc = "check" /\ Delimited /\ pc' = "refuse"
  /\ oom' = TRUE
  /\ UNCHANGED <<raw, text, parms, req, live, strayed>>

-----------------------------------------------------------------------------
(* get_type, get_params, get_payload: the same function thrice, each called *)
(* whatever became of the one before.                                      *)

start == escaped_strchr(raw, cursor, "{")
end   == escaped_strchr(raw, cursor, "}")

\* The size asked for, with the terminating zero; never 0.
Size == end - start

Aligned == Align * ((used + Align - 1) \div Align)

\* What get_substr copies: up to the end, or, when that lies behind it, up to
\* the end of the string.
Copied == IF Size > 0 THEN Between(raw, start, end) ELSE SubSeq(raw, start + 1, Len(raw))

\* The page after s and a zero have been written at address a.
Written(a, s) ==
  [n \in 1 .. (IF a + Len(s) + 1 > Len(page) THEN a + Len(s) + 1 ELSE Len(page)) |->
     IF n \in a + 1 .. a + Len(s) THEN s[n - a]
     ELSE IF n # a + Len(s) + 1 /\ n <= Len(page) THEN page[n] ELSE NUL]

\* The string at address a.
StringAt(a) ==
  Between(page, a, Least({n \in a + 1 .. Len(page) : page[n] = NUL}))

GetNothing ==
  /\ sections' = Append(sections, NULL)
  /\ UNCHANGED <<cursor, page, used>>

\* Mutant: the cursor is not moved behind the section.
GetSectionStays ==
  /\ sections' = Append(sections, Aligned)
  /\ page' = Written(Aligned, Copied)
  /\ used' = Aligned + Size
  /\ UNCHANGED cursor

\* size and free_mem of the page advance by the size asked for, or go back.
GetSection ==
  /\ sections' = Append(sections, Aligned)
  /\ page' = Written(Aligned, Copied)
  /\ used' = Aligned + Size
  /\ cursor' = end + 1

Reading   == pc = "sections" /\ Len(sections) < Len(Names)
Found     == start # 0 /\ end # 0
\* What is allocated stays a number; else the page seems too small.
InPage    == Aligned + Size >= 0
\* sz + max_offset in _arena_aligned_alloc wraps around to less than a page.
WrapsTwice == Align - 1 + Size >= 0

SectionRead ==
  /\ Reading /\ Found /\ InPage
  /\ GetSection
  /\ strayed' = (strayed \/ Size < 0)
  /\ UNCHANGED <<pc, raw, parms, req, live, oom>>

SectionMissing ==
  /\ Reading /\ ~Found
  /\ GetNothing
  /\ UNCHANGED <<pc, raw, parms, req, live, oom, strayed>>

\* No memory for the page a section needs; never enough for a huge size.
SectionRefused ==
  /\ Reading /\ Found /\ (InPage => Size > 0)
  /\ GetNothing
  /\ oom' = (oom \/ WrapsTwice)
  /\ UNCHANGED <<pc, raw, parms, req, live, strayed>>

\* _inc_arena_page: assert(cap > ARENA_DEF_PAGE_SIZE).
SectionAborts ==
  /\ Reading /\ Found /\ ~InPage /\ WrapsTwice
  /\ pc' = "aborted"
  /\ UNCHANGED <<raw, text, parms, req, live, oom, strayed>>

-----------------------------------------------------------------------------
(* The rest of format_req                                                  *)

Type == StringAt(sections[1])
Parameters == StringAt(sections[2])
Payload == StringAt(sections[3])

Judged  == pc = "sections" /\ Len(sections) = Len(Names)
Complete == NULL \notin {sections[i] : i \in DOMAIN sections} /\ Type # << >>

\* A section is missing, or the type is empty.
Incomplete ==
  /\ Judged /\ ~Complete /\ pc' = "refuse"
  /\ live' = live \ {"func_arena"}
  /\ UNCHANGED <<raw, text, parms, req, oom, strayed>>

NoPayloadMemory ==
  /\ Judged /\ Complete /\ pc' = "refuse"
  /\ live' = live \ {"func_arena"} /\ oom' = TRUE
  /\ UNCHANGED <<raw, text, parms, req, strayed>>

\* format_params copies the parameters and starts at the first pair.
StartPairs ==
  /\ Judged /\ Complete /\ pc' = "pairs"
  /\ live' = live \cup {"payload", "copy"}
  /\ next_pair' = 1
  /\ req' = [req EXCEPT !.request_type = string_type_to_int(Type)]
  /\ UNCHANGED <<raw, text, nodes, oom, strayed>>

\* It cannot copy them: the request gets none.
NoParams ==
  /\ Judged /\ Complete /\ pc' = "finish"
  /\ live' = live \cup {"payload"} /\ oom' = TRUE
  /\ req' = [req EXCEPT !.request_type = string_type_to_int(Type)]
  /\ UNCHANGED <<raw, text, parms, strayed>>

\* The copy of the payload; format_req returns 0.
Finish ==
  /\ pc = "finish" /\ pc' = "accepted"
  /\ req' = [req EXCEPT !.payload = Payload]
  /\ live' = live \ {"func_arena"}
  /\ UNCHANGED <<raw, text, parms, oom, strayed>>

\* format_req returned 1: destroy_req.
DestroyReq ==
  /\ pc = "refuse" /\ pc' = "refused"
  /\ live' = live \ RequestThings
  /\ UNCHANGED <<raw, text, parms, req, oom, strayed>>

-----------------------------------------------------------------------------
(* The loop of format_params, a pair a step.  is_escaped looks at the byte *)
(* before the copy when the first pair begins with what is searched for;   *)
(* that byte, `before`, is arbitrary.  Before later pairs stands the zero  *)
(* written over the comma.                                                 *)

FirstOf(c, before) ==
  LET hits == {n \in next_pair .. Len(Parameters) :
                 /\ Parameters[n] = c
                 /\ IF n = next_pair THEN ~(n = 1 /\ before)
                    ELSE ~is_escaped(Parameters, n)}
  IN IF hits = {} THEN Len(Parameters) + 1 ELSE Least(hits)

pair_delimiter(before) == FirstOf(",", before)
name_delimiter(before) == FirstOf(":", before)

\* Mutant: the pair behind the last one is looked at too.
MoveOnLate(before) == next_pair' = pair_delimiter(before) + 1

MoveOn(before) ==
  next_pair' = IF pair_delimiter(before) > Len(Parameters) THEN NULL
               ELSE pair_delimiter(before) + 1

\* Mutant: the name may be empty.
HasNameOrNone(before) == name_delimiter(before) < pair_delimiter(before)

\* The pair has a name; name_delimiter is looked for before the comma only.
HasName(before) == /\ name_delimiter(before) < pair_delimiter(before)
                   /\ name_delimiter(before) # next_pair

Node(before) ==
  [name  |-> SubSeq(Parameters, next_pair, name_delimiter(before) - 1),
   value |-> Between(Parameters, name_delimiter(before), pair_delimiter(before)),
   next  |-> NULL, prev |-> NULL]

\* create_param_list for the first node, add_param for the others.
Linked(list, node) ==
  LET new == Len(list) + 1
      last == list[1].prev
  IN IF list = << >> THEN <<[node EXCEPT !.prev = 1]>>
     ELSE Append([list EXCEPT ![1].prev = new, ![last].next = new],
                 [node EXCEPT !.prev = last])

AtPair == pc = "pairs" /\ next_pair # NULL

\* Mutant: continue without having moved to the next pair.
SkipPairStays ==
  \E before \in BOOLEAN :
    /\ AtPair /\ ~HasName(before)
    /\ UNCHANGED vars

SkipPair ==
  \E before \in BOOLEAN :
    /\ AtPair /\ ~HasName(before)
    /\ MoveOn(before)
    /\ UNCHANGED <<pc, raw, text, nodes, req, live, oom, strayed>>

\* arena_give_child makes the node a part of request_arena.
AddParam ==
  \E before \in BOOLEAN :
    /\ AtPair /\ HasName(before)
    /\ nodes' = Linked(nodes, Node(before))
    /\ MoveOn(before)
    /\ UNCHANGED <<pc, raw, text, req, live, oom, strayed>>

\* create_node fails: the parameter is left out.
ParamLost ==
  \E before \in BOOLEAN, thing \in NodeThings :
    /\ AtPair /\ HasName(before)
    /\ MoveOn(before)
    /\ live' = live \cup (MadeBefore[thing] \ Undone[thing])
    /\ oom' = TRUE
    /\ UNCHANGED <<pc, raw, text, nodes, req, strayed>>

PairsDone ==
  /\ pc = "pairs" /\ next_pair = NULL /\ pc' = "finish"
  /\ live' = live \ {"copy"}
  /\ UNCHANGED <<raw, text, parms, req, oom, strayed>>

-----------------------------------------------------------------------------

Sections == SectionRead \/ SectionMissing \/ SectionRefused \/ SectionAborts
Pairs    == SkipPair \/ AddParam \/ ParamLost \/ PairsDone

MakeReq == \/ Allocate \/ AllocateFails
           \/ CheckFails \/ CheckPasses \/ NoFuncArena
           \/ Sections
           \/ Incomplete \/ NoPayloadMemory \/ StartPairs \/ NoParams
           \/ Pairs
           \/ Finish \/ DestroyReq

Spec == Init /\ [][MakeReq]_vars

-----------------------------------------------------------------------------
(* Properties                                                              *)

Final == {"accepted", "refused", "aborted"}
Points == Final \cup {"allocate", "check", "sections", "pairs", "finish", "refuse"}

\* Every variable has its type; the cursors stay in their texts.
TypeOK ==
  /\ pc \in Points
  /\ cursor \in 1 .. Len(raw)
  /\ used \in Nat /\ Len(sections) <= Len(Names)
  /\ \A i \in DOMAIN sections : sections[i] \in DOMAIN page \cup {0, NULL}
  /\ next_pair # NULL => next_pair \in 1 .. Len(Parameters) + 1
  /\ \A k \in DOMAIN nodes : /\ nodes[k].next \in DOMAIN nodes \cup {NULL}
                             /\ nodes[k].prev \in DOMAIN nodes
  /\ req.request_type \in {UNKNOWN} \cup 0 .. 4
  /\ live \subseteq Things
  /\ {oom, strayed} \subseteq BOOLEAN

\* The braces of a text that has exactly the form of request.h:28, with a type.
Braces(s) == Increasing(Unmasked(s, {"{", "}"}))
Formed(s, b) ==
  /\ Len(b) = 6 /\ s[1] = "["
  /\ \A k \in 1 .. 6 : s[b[k]] = IF k % 2 = 1 THEN "{" ELSE "}"
  /\ b[1] = 2 /\ b[3] = b[2] + 1 /\ b[5] = b[4] + 1 /\ b[6] = Len(s) - 1
  /\ b[2] # b[1] + 1

\* The request holds what lies between these braces.
Holds(b) == /\ req.request_type = string_type_to_int(Between(raw, b[1], b[2]))
            /\ Parameters = Between(raw, b[3], b[4])
            /\ req.payload = Between(raw, b[5], b[6])

\* A request that has the documented form, and in which no backslash is escaped,
\* is neither refused nor taken for another: type, parameters and payload are
\* what stands between its braces, whatever else is escaped in them.
FormedAccepted ==
  pc \in Final /\ ~oom /\ PlainlyEscaped(raw) /\ Formed(raw, Braces(raw)) =>
    pc = "accepted" /\ Holds(Braces(raw))

\* What is accepted has three sections that follow one another in the request,
\* each from an opening brace to the first closing one behind it, even when
\* something else stands around them; unless a section ended before it began.
SectionsInOrder ==
  pc = "accepted" /\ ~strayed /\ PlainlyEscaped(raw) =>
    \E S \in kSubset(6, Unmasked(raw, {"{", "}"})) :
      LET b == Increasing(S)
      IN /\ \A k \in {1, 3, 5} :
              /\ raw[b[k]] = "{"
              /\ Unmasked(raw, {"}"}) \cap b[k] .. b[k + 1] = {b[k + 1]}
         /\ Holds(b)

\* The parameters request.h describes: what stands between commas, and has a
\* name in front of a colon.
Pairings(s) ==
  LET commas == Increasing(Unmasked(s, {","}) \cup {0, Len(s) + 1})
      Colons(k) == Unmasked(s, {":"}) \cap commas[k] + 1 .. commas[k + 1] - 1
      Named == {k \in 1 .. Len(commas) - 1 :
                  Colons(k) # {} /\ Least(Colons(k)) # commas[k] + 1}
      Pair(k) == <<Between(s, commas[k], Least(Colons(k))),
                   Between(s, Least(Colons(k)), commas[k + 1])>>
  IN [n \in DOMAIN Increasing(Named) |-> Pair(Increasing(Named)[n])]

\* The list as search_param walks it, from the head along next.
Walk ==
  LET at[n \in 1 .. Len(nodes)] == IF n = 1 THEN 1
                                   ELSE IF at[n - 1] = NULL THEN NULL
                                   ELSE nodes[at[n - 1]].next
  IN at
Pair(node) == <<node.name, node.value>>
Listed == [n \in DOMAIN nodes |-> Pair(nodes[Walk[n]])]
Thinned(pairings) ==
  {[n \in 1 .. Cardinality(S) |-> pairings[Increasing(S)[n]]] :
     S \in SUBSET DOMAIN pairings}

\* next leads from the head through all nodes once and ends, prev leads back, and
\* the head's prev is the last, where the next insertion will happen.
Sound(list) ==
  list # << >> =>
    /\ {Walk[n] : n \in DOMAIN list} = DOMAIN list
    /\ list[Walk[Len(list)]].next = NULL
    /\ \A n \in 2 .. Len(list) : list[Walk[n]].prev = Walk[n - 1]
    /\ list[1].prev = Walk[Len(list)]

\* The linked list is sound after every insertion, and in the end holds every
\* parameter, in order and cut where the description cuts it; when memory runs
\* out some may be missing, but none is cut otherwise.  Excluded are parameters
\* whose first byte is a separator: its escape is read outside the copy.
ParamsExact ==
  /\ Sound(nodes)
  /\ /\ pc = "accepted" /\ PlainlyEscaped(Parameters)
     /\ Parameters # << >> => Parameters[1] \notin {",", ":"}
     => IF oom THEN Listed \in Thinned(Pairings(Parameters))
        ELSE Listed = Pairings(Parameters)

\* Whatever allocation fails and whatever is wrong with the text, a refused
\* request leaves nothing behind and an accepted one only itself, and no exit frees
\* what is still used: the sections and the request while the parameters are made.
AllReleased ==
  /\ pc = "refused" => live = {}
  /\ pc \in {"pairs", "finish"} => RequestThings \cup {"func_arena"} \subseteq live
  /\ pc = "accepted" => live = RequestThings
=============================================================================
