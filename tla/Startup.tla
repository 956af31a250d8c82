------------------------------ MODULE Startup ------------------------------
(***************************************************************************)
(* What happens before the accept loop of server/src/main.c, and what the  *)
(* other modules take as their constants: parse_args, the property list of *)
(* utils.c with its config file, and the creation of the shared resources. *)
(*                                                                         *)
(* Words of the command line and values are uninterpreted; Strtol gives    *)
(* what strtol makes of those that begin with a number.                    *)
(***************************************************************************)
EXTENDS Integers, Sequences

CONSTANTS Argvs,    \* the command lines, without the program's name
          Files,    \* for each path that can be opened, the lines of the file
          Strtol,   \* for each word that begins with a number, the number
          ERANGE,   \* what Strtol says of a number that fits in no long
          MaxInt,   \* INT_MAX
          SizeMax   \* the largest size_t

IsSeq(s) == s \in Seq({s[n] : n \in DOMAIN s})

\* A line is a record: its kind, and the name and value of a "name=value".  An
\* int has room for every port.
ASSUME StartupAssumption ==
  /\ MaxInt \in Nat /\ SizeMax \in Nat /\ 65535 <= MaxInt /\ MaxInt < SizeMax
  /\ \A a \in Argvs : IsSeq(a)
  /\ \A w \in DOMAIN Strtol : Strtol[w] \in (-MaxInt - 1) .. MaxInt \cup {ERANGE}
  /\ \A f \in DOMAIN Files : IsSeq(Files[f]) /\ Files[f] # << >>
  /\ {"-p", "-c"} \cap (DOMAIN Strtol \cup DOMAIN Files) = {}

\* glob_property_list_DEF
Defaults == [MAX_CLIENTS |-> "100", MAX_CLIENT_TIMEOUT |-> "240", MAX_CLIENT_ERRORS |-> "5",
             MAX_MESSAGE_LEN |-> "100", DEFAULT_PORT |-> "6335", REQUEST_QUEUE_CAP |-> "50",
             RESPONSE_QUEUE_CAP |-> "20"]
Properties == DOMAIN Defaults
Unset      == [p \in {} |-> ""]

VARIABLES
  pc,           \* where the main thread is
  argv, i,      \* the command line and the word looked at
  has_port, param_port,
  properties,   \* glob_property_list, Unset before the first -c
  lines,        \* the lines of the open config file not yet read
  max_clients,  \* the length of communicator_list
  queue_cap     \* the capacity of the request queue

args == <<argv, i, has_port, param_port>>
resources == <<max_clients, queue_cap>>
vars == <<pc, args, properties, lines, resources>>

Init == /\ pc = "args" /\ argv \in Argvs /\ i = 1
        /\ has_port = FALSE /\ param_port = 0
        /\ properties = Unset /\ lines = << >>
        /\ max_clients = 0 /\ queue_cap = 0

\* strtol of a word, 0 where no number begins.
Number(word) == IF word \in DOMAIN Strtol THEN Strtol[word] ELSE 0

\* get_property_by_name
Property(name) == IF name \in DOMAIN properties THEN properties[name] ELSE Defaults[name]

\* Mutant: the sign is kept.
AsSizeSigned(n) == n

\* get_num_property, when it returns: abs of the least int is the least int, and
\* becomes a huge size_t.
AsSize(n) == IF n >= 0 THEN n ELSE IF n >= -MaxInt THEN -n ELSE SizeMax - MaxInt
Num(name) == AsSize(Number(Property(name)))
IsNum(name) == Number(Property(name)) # ERANGE

-----------------------------------------------------------------------------
(* parse_args                                                              *)

Option(o) == pc = "args" /\ i <= Len(argv) /\ argv[i] = o
HasValue  == i < Len(argv)
ValidPort(word) == Number(word) # ERANGE /\ 1024 <= Number(word) /\ Number(word) <= 65535

OtherWord ==
  /\ pc = "args" /\ i <= Len(argv) /\ argv[i] \notin {"-p", "-c"}
  /\ i' = i + 1
  /\ UNCHANGED <<pc, argv, has_port, param_port, properties, lines, resources>>

\* abort_error
ValueMissing ==
  /\ (Option("-p") \/ Option("-c")) /\ ~HasValue
  /\ pc' = "exited"
  /\ UNCHANGED <<args, properties, lines, resources>>

PortGiven ==
  /\ Option("-p") /\ HasValue /\ ValidPort(argv[i + 1])
  /\ param_port' = Number(argv[i + 1]) /\ has_port' = TRUE
  /\ i' = i + 2
  /\ UNCHANGED <<pc, argv, properties, lines, resources>>

\* The word is not skipped: it may be an option.
PortInvalid ==
  /\ Option("-p") /\ HasValue /\ ~ValidPort(argv[i + 1])
  /\ param_port' = 0 /\ has_port' = FALSE
  /\ i' = i + 1
  /\ UNCHANGED <<pc, argv, properties, lines, resources>>

ConfigMissing ==
  /\ Option("-c") /\ HasValue /\ argv[i + 1] \notin DOMAIN Files
  /\ properties' = Defaults
  /\ i' = i + 1
  /\ UNCHANGED <<pc, argv, has_port, param_port, lines, resources>>

\* Mutant: the list is filled with the defaults once, not for each file.
ConfigOpenedOnce ==
  /\ Option("-c") /\ HasValue /\ argv[i + 1] \in DOMAIN Files
  /\ properties' = IF properties = Unset THEN Defaults ELSE properties
  /\ lines' = Files[argv[i + 1]] /\ pc' = "config"
  /\ i' = i + 2
  /\ UNCHANGED <<argv, has_port, param_port, resources>>

ConfigOpened ==
  /\ Option("-c") /\ HasValue /\ argv[i + 1] \in DOMAIN Files
  /\ properties' = Defaults
  /\ lines' = Files[argv[i + 1]] /\ pc' = "config"
  /\ i' = i + 2
  /\ UNCHANGED <<argv, has_port, param_port, resources>>

-----------------------------------------------------------------------------
(* The loop of init_properties_by_file, a line a step                      *)

AtLine == pc = "config" /\ lines # << >>
Sets(line) == line.kind = "pair" /\ line.name \in Properties

ReadProperty ==
  /\ AtLine /\ Sets(Head(lines))
  /\ properties' = [properties EXCEPT ![Head(lines).name] = Head(lines).value]
  /\ lines' = Tail(lines)
  /\ UNCHANGED <<pc, args, resources>>

\* Empty, a comment, without '=', or of an unknown name.
SkipLine ==
  /\ AtLine /\ ~Sets(Head(lines))
  /\ lines' = Tail(lines)
  /\ UNCHANGED <<pc, args, properties, resources>>

IsBlank(line) == line.kind = "blank"

\* malloc fails: the line is read to its end, and the one behind it is read into
\* the null pointer.  Nothing is written only when both are empty.
LineNoMemory ==
  /\ AtLine
  /\ IF IsBlank(Head(lines)) /\ (Len(lines) > 1 => IsBlank(lines[2]))
     THEN lines' = (IF Len(lines) > 1 THEN Tail(Tail(lines)) ELSE << >>) /\ UNCHANGED pc
     ELSE pc' = "crashed" /\ UNCHANGED lines
  /\ UNCHANGED <<args, properties, resources>>

ConfigDone ==
  /\ pc = "config" /\ lines = << >> /\ pc' = "args"
  /\ UNCHANGED <<args, properties, lines, resources>>

-----------------------------------------------------------------------------
(* The end of parse_args and the start of main                             *)

DefaultPort ==
  /\ pc = "args" /\ i > Len(argv) /\ ~has_port /\ IsNum("DEFAULT_PORT")
  /\ param_port' = Num("DEFAULT_PORT") /\ pc' = "start"
  /\ UNCHANGED <<argv, i, has_port, properties, lines, resources>>

OwnPort ==
  /\ pc = "args" /\ i > Len(argv) /\ has_port
  /\ pc' = "start"
  /\ UNCHANGED <<args, properties, lines, resources>>

\* get_num_property: abort_error when errno is set.
NotANumber ==
  /\ \/ pc = "args" /\ i > Len(argv) /\ ~has_port /\ ~IsNum("DEFAULT_PORT")
     \/ pc = "start" /\ ~IsNum("MAX_CLIENTS")
     \/ pc = "queue" /\ ~IsNum("REQUEST_QUEUE_CAP")
  /\ pc' = "exited"
  /\ UNCHANGED <<args, properties, lines, resources>>

\* NM_init_server succeeds and communicator_list is allocated.
MakeList ==
  /\ pc = "start" /\ IsNum("MAX_CLIENTS") /\ Num("MAX_CLIENTS") \in 1 .. MaxInt
  /\ max_clients' = Num("MAX_CLIENTS") /\ pc' = "queue"
  /\ UNCHANGED <<args, properties, lines, queue_cap>>

\* arena_calloc: assert(pc_sz > 0).
EmptyList ==
  /\ pc = "start" /\ IsNum("MAX_CLIENTS") /\ Num("MAX_CLIENTS") = 0
  /\ pc' = "aborted"
  /\ UNCHANGED <<args, properties, lines, resources>>

\* Mutant: make_shared_queue takes any capacity.
MakeQueueAny ==
  /\ pc = "queue" /\ IsNum("REQUEST_QUEUE_CAP")
  /\ queue_cap' = Num("REQUEST_QUEUE_CAP") /\ pc' = "serving"
  /\ UNCHANGED <<args, properties, lines, max_clients>>

\* make_shared_queue returns NULL for a capacity of 0, and has no memory for a
\* huge one.
MakeQueue ==
  /\ pc = "queue" /\ IsNum("REQUEST_QUEUE_CAP") /\ Num("REQUEST_QUEUE_CAP") \in 1 .. MaxInt
  /\ queue_cap' = Num("REQUEST_QUEUE_CAP") /\ pc' = "serving"
  /\ UNCHANGED <<args, properties, lines, max_clients>>

\* Winsock or an allocation fails: abort_error.
StartFails ==
  /\ pc \in {"start", "queue"}
  /\ pc' = "exited"
  /\ UNCHANGED <<args, properties, lines, resources>>

ParseArgs == \/ OtherWord \/ ValueMissing \/ PortGiven \/ PortInvalid
             \/ ConfigMissing \/ ConfigOpened
             \/ ReadProperty \/ SkipLine \/ LineNoMemory \/ ConfigDone
             \/ DefaultPort \/ OwnPort

Next == ParseArgs \/ NotANumber \/ MakeList \/ EmptyList \/ MakeQueue \/ StartFails

Spec == Init /\ [][Next]_vars

-----------------------------------------------------------------------------
(* Properties                                                              *)

\* Every variable has its type.
TypeOK ==
  /\ pc \in {"args", "config", "start", "queue", "serving", "exited", "aborted", "crashed"}
  /\ i \in 1 .. Len(argv) + 1
  /\ has_port \in BOOLEAN /\ param_port \in 0 .. SizeMax
  /\ DOMAIN properties \in {{}, Properties}
  /\ max_clients \in Nat /\ queue_cap \in Nat

Started == pc \in {"start", "queue", "serving"}

\* The last -o on the command line; 0 when there is none.
Last(o) == CHOOSE k \in 0 .. Len(argv) :
             /\ k > 0 => argv[k] = o
             /\ \A m \in k + 1 .. Len(argv) : argv[m] # o

\* The value the lines of a file give a property: that of the last one to name it.
Configured(file, name) ==
  LET Naming == {k \in DOMAIN file : file[k].kind = "pair" /\ file[k].name = name}
  IN IF Naming = {} THEN Defaults[name]
     ELSE file[CHOOSE k \in Naming : \A m \in Naming : m <= k].value

Wanted(name) == IF Last("-c") > 0 /\ argv[Last("-c") + 1] \in DOMAIN Files
                THEN Configured(Files[argv[Last("-c") + 1]], name)
                ELSE Defaults[name]

\* The properties in force are those of the last -c alone, and the defaults when
\* that one cannot be opened, whatever other options and values stand between:
\* no file leaves anything behind for the next.  The port is the one of the last
\* -p when that is valid, and otherwise the default of the properties in force
\* in the end, though their -c comes later.
LastOptionsInForce ==
  Started =>
    /\ \A name \in Properties : Property(name) = Wanted(name)
    /\ param_port = IF Last("-p") > 0 /\ ValidPort(argv[Last("-p") + 1])
                    THEN Number(argv[Last("-p") + 1])
                    ELSE AsSize(Number(Wanted("DEFAULT_PORT")))

\* A server that accepts clients has the slots and the queue that Server,
\* SharedQueue and Communicator assume, whatever the config file says.
AssumptionsMet ==
  pc = "serving" => /\ max_clients \in 1 .. MaxInt /\ queue_cap \in 1 .. MaxInt
                    /\ max_clients = AsSize(Number(Wanted("MAX_CLIENTS")))
                    /\ queue_cap = AsSize(Number(Wanted("REQUEST_QUEUE_CAP")))
=============================================================================
