---------------------------- MODULE StartupProofs ----------------------------
(***************************************************************************)
(* What TLAPS proves of Startup, for any command lines and any files.      *)
(***************************************************************************)
EXTENDS Startup, SequenceTheorems, TLAPS

Running == pc \in {"args", "config", "start", "queue", "serving"}

\* The last -o of the first n words is the k-th, 0 when there is none; a word
\* follows it.
Latest(o, k, n) == /\ k \in 0 .. n
                   /\ k > 0 => argv[k] = o /\ k < Len(argv)
                   /\ \A m \in k + 1 .. n : argv[m] # o

\* The port that the k-th word asks for.
PortOf(k) == k > 0 /\ ValidPort(argv[k + 1])

PortSoFar ==
  pc \in {"args", "config"} =>
    \E k \in 0 .. i - 1 :
      /\ Latest("-p", k, i - 1)
      /\ has_port <=> PortOf(k)
      /\ has_port => param_port = Number(argv[k + 1])

PortChosen ==
  Started => /\ i = Len(argv) + 1
             /\ \E k \in 0 .. i - 1 :
                  /\ Latest("-p", k, i - 1)
                  /\ param_port = IF PortOf(k) THEN Number(argv[k + 1])
                                  ELSE Num("DEFAULT_PORT")

\* The value the first n lines of a file give a property.
Names(line, name) == line.kind = "pair" /\ line.name = name
ValueAt(file, name, n, value) ==
  \/ /\ value = Defaults[name]
     /\ \A m \in 1 .. n : ~Names(file[m], name)
  \/ \E k \in 1 .. n : /\ Names(file[k], name) /\ value = file[k].value
                       /\ \A m \in k + 1 .. n : ~Names(file[m], name)

\* The lines left are the last of the file, and those before have been obeyed.
ReadSoFar(file) ==
  /\ DOMAIN properties = Properties
  /\ Len(lines) <= Len(file)
  /\ \A m \in 1 .. Len(lines) : lines[m] = file[Len(file) - Len(lines) + m]
  /\ \A name \in Properties :
       ValueAt(file, name, Len(file) - Len(lines), properties[name])

ConfigSoFar ==
  Running =>
    \E k \in 0 .. i - 1 :
      /\ Latest("-c", k, i - 1)
      /\ IF k > 0 /\ argv[k + 1] \in DOMAIN Files
         THEN ReadSoFar(Files[argv[k + 1]])
         ELSE properties \in {Unset, Defaults} /\ lines = << >>

LinesRead == Running /\ pc # "config" => lines = << >>

AllLines == UNION {{Files[f][n] : n \in DOMAIN Files[f]} : f \in DOMAIN Files}

ResourcesMade ==
  /\ pc \in {"queue", "serving"} =>
       max_clients = Num("MAX_CLIENTS") /\ max_clients \in 1 .. MaxInt
  /\ pc = "serving" =>
       queue_cap = Num("REQUEST_QUEUE_CAP") /\ queue_cap \in 1 .. MaxInt

\* The inductive invariant.
IInv == /\ TypeOK
        /\ argv \in Argvs /\ lines \in Seq(AllLines)
        /\ PortSoFar
        /\ PortChosen
        /\ ConfigSoFar
        /\ LinesRead
        /\ ResourcesMade

-----------------------------------------------------------------------------
(* Words, files and numbers                                                *)

LEMMA OneLess == \A n \in Nat : n > 1 => n - 1 # 0
OBVIOUS

LEMMA ArgvIs ==
  ASSUME argv \in Argvs
  PROVE  Len(argv) \in Nat
<1>1. IsSeq(argv)
  BY StartupAssumption
<1>2. QED BY <1>1, LenProperties DEF IsSeq

LEMMA FileIs ==
  ASSUME NEW f \in DOMAIN Files
  PROVE  /\ Files[f] \in Seq(AllLines)
         /\ Len(Files[f]) \in Nat /\ DOMAIN Files[f] = 1 .. Len(Files[f])
<1>1. PICK S : S = {Files[f][n] : n \in DOMAIN Files[f]}
  OBVIOUS
<1>2. Files[f] \in Seq(S)
  BY <1>1, StartupAssumption DEF IsSeq
<1>3. S \subseteq AllLines
  BY <1>1 DEF AllLines
<1>4. PICK s \in Seq(S) : s = Files[f]
  BY <1>2
<1>5. s \in Seq(AllLines)
  BY <1>3
<1>6. Len(s) \in Nat /\ DOMAIN s = 1 .. Len(s)
  BY LenProperties
<1>7. QED BY <1>4, <1>5, <1>6

\* What get_num_property returns fits in a size_t.
LEMMA NumberIs ==
  ASSUME NEW word, Number(word) # ERANGE
  PROVE  /\ Number(word) \in (-MaxInt - 1) .. MaxInt
         /\ AsSize(Number(word)) \in 0 .. SizeMax
<1> USE StartupAssumption
<1>1. Number(word) \in (-MaxInt - 1) .. MaxInt
  <2>1. CASE word \in DOMAIN Strtol
    BY <2>1 DEF Number
  <2>2. CASE word \notin DOMAIN Strtol
    BY <2>2 DEF Number
  <2>3. QED BY <2>1, <2>2
<1>2. PICK n \in (-MaxInt - 1) .. MaxInt : n = Number(word)
  BY <1>1
<1>3. AsSize(n) \in 0 .. SizeMax
  BY DEF AsSize
<1>4. QED BY <1>2, <1>3

LEMMA PortIs ==
  ASSUME NEW word, ValidPort(word)
  PROVE  Number(word) \in 0 .. SizeMax
<1>1. 65535 <= SizeMax /\ SizeMax \in Nat
  BY StartupAssumption
<1>2. Number(word) # ERANGE /\ 1024 <= Number(word) /\ Number(word) <= 65535
  BY DEF ValidPort
<1>3. Number(word) \in (-MaxInt - 1) .. MaxInt
  BY <1>2, NumberIs
<1>4. PICK n : n = Number(word)
  OBVIOUS
<1>5. n \in Int
  BY <1>3, <1>4
<1>6. n \in 0 .. SizeMax
  BY <1>1, <1>2, <1>4, <1>5
<1>7. QED BY <1>4, <1>6

\* No option is a port, and none a file.
LEMMA OptionsAreNeither ==
  ASSUME NEW word, ValidPort(word) \/ word \in DOMAIN Files
  PROVE  word \notin {"-p", "-c"}
<1>1. ValidPort(word) => word \in DOMAIN Strtol
  <2> SUFFICES ASSUME word \notin DOMAIN Strtol PROVE ~ValidPort(word)
    OBVIOUS
  <2>1. Number(word) = 0
    BY DEF Number
  <2>2. QED BY <2>1 DEF ValidPort
<1>2. QED BY <1>1, StartupAssumption

-----------------------------------------------------------------------------
(* The last option of its kind                                             *)

LEMMA LatestStays ==
  ASSUME NEW o, NEW n \in Nat, NEW m \in Nat, n <= m, NEW k, Latest(o, k, n),
         \A j \in n + 1 .. m : argv[j] # o
  PROVE  Latest(o, k, m)
<1>1. k \in 0 .. m
  BY DEF Latest
<1>2. ASSUME NEW j \in k + 1 .. m
      PROVE  argv[j] # o
  <2>1. j \in k + 1 .. n \/ j \in n + 1 .. m
    BY <1>1
  <2>2. QED BY <2>1 DEF Latest
<1>3. QED BY <1>1, <1>2 DEF Latest

LEMMA LatestNow ==
  ASSUME NEW o, NEW n \in Nat \ {0}, NEW m \in Nat, n <= m, n < Len(argv), argv[n] = o,
         \A j \in n + 1 .. m : argv[j] # o
  PROVE  Latest(o, n, m)
BY DEF Latest

\* It is the one the properties mean.
LEMMA LatestIsLast ==
  ASSUME Len(argv) \in Nat, NEW o, NEW k, Latest(o, k, Len(argv))
  PROVE  Last(o) = k
<1>1. PICK n \in Nat : n = Len(argv)
  OBVIOUS
<1>2. k \in 0 .. n
  BY <1>1 DEF Latest
<1>3. k > 0 => argv[k] = o
  BY DEF Latest
<1>4. \A m \in k + 1 .. n : argv[m] # o
  BY <1>1 DEF Latest
<1>5. ASSUME NEW j \in 0 .. n, j > 0 => argv[j] = o, \A m \in j + 1 .. n : argv[m] # o
      PROVE  j = k
  <2>1. CASE j < k
    <3>1. k \in j + 1 .. n /\ k > 0
      BY <1>2, <2>1
    <3>2. QED BY <1>3, <1>5, <3>1
  <2>2. CASE k < j
    <3>1. j \in k + 1 .. n /\ j > 0
      BY <1>2, <2>2
    <3>2. QED BY <1>4, <1>5, <3>1
  <2>3. j < k \/ k < j \/ j = k
    BY <1>2
  <2>4. QED BY <2>1, <2>2, <2>3
<1>6. QED BY <1>1, <1>2, <1>3, <1>4, <1>5 DEF Last

\* A word that is not -p, or that is a valid port or a file, leaves the port.
LEMMA PortKept ==
  ASSUME PortSoFar, pc \in {"args", "config"}, NEW n \in Nat, n = i - 1,
         NEW m \in Nat, n <= m, i' = m + 1, UNCHANGED <<argv, has_port, param_port>>,
         \A j \in n + 1 .. m : argv[j] # "-p"
  PROVE  PortSoFar'
<1>1. PICK k \in 0 .. n : /\ Latest("-p", k, n)
                          /\ has_port <=> PortOf(k)
                          /\ has_port => param_port = Number(argv[k + 1])
  BY DEF PortSoFar
<1>2. Latest("-p", k, m)
  BY <1>1, LatestStays
<1>3. k \in 0 .. m /\ i' - 1 = m
  OBVIOUS
<1>4. Latest("-p", k, i - 1)'
  <2>1. Latest("-p", k, m)'
    BY <1>2 DEF Latest
  <2>2. QED BY <1>3, <2>1
<1>5. has_port' <=> PortOf(k)'
  BY <1>1 DEF PortOf
<1>6. QED BY <1>1, <1>3, <1>4, <1>5 DEF PortSoFar

LEMMA PortNow ==
  ASSUME NEW n \in Nat \ {0}, n = i, n < Len(argv), argv[n] = "-p", argv' = argv,
         NEW m \in Nat, n <= m, i' = m + 1, \A j \in n + 1 .. m : argv[j] # "-p",
         has_port' <=> ValidPort(argv[n + 1]),
         has_port' => param_port' = Number(argv[n + 1])
  PROVE  PortSoFar'
<1>1. Latest("-p", n, m)
  BY LatestNow
<1>2. n \in 0 .. m /\ i' - 1 = m
  OBVIOUS
<1>3. Latest("-p", n, i - 1)'
  <2>1. Latest("-p", n, m)'
    BY <1>1 DEF Latest
  <2>2. QED BY <1>2, <2>1
<1>4. has_port' <=> PortOf(n)'
  BY DEF PortOf
<1>5. QED BY <1>2, <1>3, <1>4 DEF PortSoFar

\* A word that is not -c leaves the properties.
LEMMA ConfigKept ==
  ASSUME ConfigSoFar, Running, NEW n \in Nat, n = i - 1,
         NEW m \in Nat, n <= m, i' = m + 1, UNCHANGED <<argv, properties, lines>>,
         \A j \in n + 1 .. m : argv[j] # "-c"
  PROVE  ConfigSoFar'
<1>1. PICK k \in 0 .. n : /\ Latest("-c", k, n)
                          /\ IF k > 0 /\ argv[k + 1] \in DOMAIN Files
                             THEN ReadSoFar(Files[argv[k + 1]])
                             ELSE properties \in {Unset, Defaults} /\ lines = << >>
  BY DEF ConfigSoFar
<1>2. Latest("-c", k, m)
  BY <1>1, LatestStays
<1>3. k \in 0 .. m /\ i' - 1 = m
  OBVIOUS
<1>4. Latest("-c", k, i - 1)'
  <2>1. Latest("-c", k, m)'
    BY <1>2 DEF Latest
  <2>2. QED BY <1>3, <2>1
<1>5. \A file : ReadSoFar(file) => ReadSoFar(file)'
  BY DEF ReadSoFar
<1>6. IF k > 0 /\ argv'[k + 1] \in DOMAIN Files
      THEN ReadSoFar(Files[argv[k + 1]])'
      ELSE properties' \in {Unset, Defaults} /\ lines' = << >>
  <2>1. PICK f : f = argv[k + 1]
    OBVIOUS
  <2>2. ReadSoFar(Files[f]) => ReadSoFar(Files[f])'
    BY <1>5
  <2>3. f = argv'[k + 1]
    BY <2>1
  <2>4. QED BY <1>1, <2>1, <2>2, <2>3
<1>7. QED BY <1>3, <1>4, <1>6 DEF ConfigSoFar

LEMMA ConfigNow ==
  ASSUME NEW n \in Nat \ {0}, n = i, n < Len(argv), argv[n] = "-c", argv' = argv,
         NEW m \in Nat, n <= m, i' = m + 1, \A j \in n + 1 .. m : argv[j] # "-c",
         IF argv[n + 1] \in DOMAIN Files
         THEN ReadSoFar(Files[argv[n + 1]])'
         ELSE properties' \in {Unset, Defaults} /\ lines' = << >>
  PROVE  ConfigSoFar'
<1>1. Latest("-c", n, m)
  BY LatestNow
<1>2. n \in 0 .. m /\ i' - 1 = m
  OBVIOUS
<1>3. Latest("-c", n, i - 1)'
  <2>1. Latest("-c", n, m)'
    BY <1>1 DEF Latest
  <2>2. QED BY <1>2, <2>1
<1>4. /\ n > 0
      /\ IF argv'[n + 1] \in DOMAIN Files
         THEN ReadSoFar(Files[argv[n + 1]])'
         ELSE properties' \in {Unset, Defaults} /\ lines' = << >>
  OBVIOUS
<1>5. QED BY <1>2, <1>3, <1>4 DEF ConfigSoFar

-----------------------------------------------------------------------------
(* The first state                                                         *)

LEMMA InitIInv == Init => IInv
<1> SUFFICES ASSUME Init PROVE IInv
  OBVIOUS
<1>0. /\ pc = "args" /\ argv \in Argvs /\ i = 1
      /\ has_port = FALSE /\ param_port = 0
      /\ properties = Unset /\ lines = << >>
      /\ max_clients = 0 /\ queue_cap = 0
  BY DEF Init
<1>1. Len(argv) \in Nat
  BY <1>0, ArgvIs
<1>2. TypeOK
  <2>1. DOMAIN Unset = {}
    BY DEF Unset
  <2>2. i \in 1 .. Len(argv) + 1 /\ param_port \in 0 .. SizeMax
    BY <1>0, <1>1, StartupAssumption
  <2>3. has_port \in BOOLEAN
    BY <1>0, Zenon
  <2>4. DOMAIN properties \in {{}, Properties}
    BY <1>0, <2>1
  <2>5. max_clients \in Nat /\ queue_cap \in Nat
    BY <1>0
  <2>6. pc \in {"args", "config", "start", "queue", "serving", "exited", "aborted", "crashed"}
    BY <1>0
  <2>7. QED BY <2>2, <2>3, <2>4, <2>5, <2>6, Zenon DEF TypeOK
<1>3. argv \in Argvs /\ lines \in Seq(AllLines)
  BY <1>0, EmptySeq
<1>4. \A o : Latest(o, 0, 0)
  BY DEF Latest
<1>5. PortSoFar
  BY <1>0, <1>4 DEF PortSoFar, PortOf
<1>6. ConfigSoFar
  BY <1>0, <1>4 DEF ConfigSoFar
<1>7. PortChosen /\ LinesRead /\ ResourcesMade
  BY <1>0 DEF PortChosen, Started, LinesRead, ResourcesMade
<1>8. QED BY <1>2, <1>3, <1>5, <1>6, <1>7 DEF IInv

-----------------------------------------------------------------------------
(* A word of the command line                                              *)

LEMMA Bounds ==
  ASSUME IInv
  PROVE  /\ Len(argv) \in Nat /\ i \in 1 .. Len(argv) + 1 /\ i - 1 \in Nat
         /\ i \in Nat \ {0}
<1>1. Len(argv) \in Nat
  BY ArgvIs DEF IInv
<1>2. i \in 1 .. Len(argv) + 1
  BY DEF IInv, TypeOK
<1>3. QED BY <1>1, <1>2

\* What a step of the loop that looks at words has to establish.
LEMMA AtWord ==
  ASSUME IInv, pc = "args", pc' \in {"args", "config"}, argv' = argv,
         i' \in 1 .. Len(argv) + 1, UNCHANGED resources,
         has_port' \in BOOLEAN, param_port' \in 0 .. SizeMax,
         DOMAIN properties' \in {{}, Properties},
         lines' \in Seq(AllLines), pc' = "args" => lines' = << >>,
         PortSoFar', ConfigSoFar'
  PROVE  IInv'
<1>1. TypeOK'
  <2>1. max_clients' \in Nat /\ queue_cap' \in Nat
    BY DEF IInv, TypeOK, resources
  <2>2. pc' \in {"args", "config", "start", "queue", "serving", "exited", "aborted", "crashed"}
    OBVIOUS
  <2>3. i' \in 1 .. Len(argv') + 1
    OBVIOUS
  <2>4. QED BY <2>1, <2>2, <2>3, Zenon DEF TypeOK
<1>2. argv' \in Argvs
  BY DEF IInv
<1>3. PortChosen' /\ LinesRead' /\ ResourcesMade'
  BY DEF PortChosen, Started, LinesRead, ResourcesMade
<1>4. QED BY <1>1, <1>2, <1>3 DEF IInv

LEMMA OtherWordIInv == IInv /\ OtherWord => IInv'
<1> SUFFICES ASSUME IInv, OtherWord PROVE IInv'
  OBVIOUS
<1>1. /\ pc = "args" /\ i <= Len(argv) /\ argv[i] \notin {"-p", "-c"}
      /\ i' = i + 1 /\ pc' = pc
      /\ UNCHANGED <<argv, has_port, param_port>>
      /\ UNCHANGED <<properties, lines>> /\ UNCHANGED resources
  BY DEF OtherWord
<1>2. PICK m \in Nat \ {0} : m = i
  BY Bounds
<1>3. PICK n \in Nat : n = i - 1
  BY Bounds
<1>4. n <= m /\ i' = m + 1 /\ \A j \in n + 1 .. m : argv[j] # "-p" /\ argv[j] # "-c"
  BY <1>1, <1>2, <1>3
<1>5. PortSoFar'
  BY <1>1, <1>3, <1>4, PortKept DEF IInv
<1>6. ConfigSoFar'
  BY <1>1, <1>3, <1>4, ConfigKept DEF IInv, Running
<1>7. i' \in 1 .. Len(argv) + 1
  BY <1>1, Bounds
<1>8. /\ has_port' \in BOOLEAN /\ param_port' \in 0 .. SizeMax
      /\ DOMAIN properties' \in {{}, Properties}
      /\ lines' \in Seq(AllLines) /\ lines' = << >>
  BY <1>1 DEF IInv, TypeOK, LinesRead, Running
<1>9. QED BY <1>1, <1>5, <1>6, <1>7, <1>8, AtWord

LEMMA PortGivenIInv == IInv /\ PortGiven => IInv'
<1> SUFFICES ASSUME IInv, PortGiven PROVE IInv'
  OBVIOUS
<1>1. /\ pc = "args" /\ argv[i] = "-p" /\ i < Len(argv) /\ ValidPort(argv[i + 1])
      /\ param_port' = Number(argv[i + 1]) /\ has_port' = TRUE
      /\ i' = i + 2 /\ pc' = pc /\ argv' = argv
      /\ UNCHANGED <<properties, lines>> /\ UNCHANGED resources
  BY DEF PortGiven, Option, HasValue
<1>2. PICK a \in Nat \ {0} : a = i
  BY Bounds
<1>3. PICK n \in Nat : n = i - 1
  BY Bounds
<1>4. PICK m \in Nat : m = a + 1
  OBVIOUS
<1>5. argv[a + 1] \notin {"-p", "-c"}
  BY <1>1, <1>2, OptionsAreNeither
<1>6. /\ a <= m /\ n <= m /\ i' = m + 1
      /\ \A j \in a + 1 .. m : argv[j] # "-p"
      /\ \A j \in n + 1 .. m : argv[j] # "-c"
  <2>1. \A j \in a + 1 .. m : j = a + 1
    BY <1>4
  <2>2. \A j \in n + 1 .. m : j = a \/ j = a + 1
    BY <1>2, <1>3, <1>4
  <2>3. argv[a] = "-p"
    BY <1>1, <1>2
  <2>4. a <= m /\ n <= m /\ i' = m + 1
    BY <1>1, <1>2, <1>3, <1>4
  <2>5. QED BY <1>5, <2>1, <2>2, <2>3, <2>4
<1>7. PortSoFar'
  <2>1. /\ a < Len(argv) /\ argv[a] = "-p" /\ ValidPort(argv[a + 1])
        /\ param_port' = Number(argv[a + 1])
    BY <1>1, <1>2
  <2>2. (has_port' <=> ValidPort(argv[a + 1]))
        /\ (has_port' => param_port' = Number(argv[a + 1]))
    BY <1>1, <2>1
  <2>3. QED BY <1>1, <1>2, <1>6, <2>1, <2>2, PortNow
<1>8. ConfigSoFar'
  BY <1>1, <1>3, <1>6, ConfigKept DEF IInv, Running
<1>9. i' \in 1 .. Len(argv) + 1
  BY <1>1, Bounds
<1>10. param_port' \in 0 .. SizeMax
  <2>1. Number(argv[i + 1]) \in 0 .. SizeMax
    BY <1>1, PortIs
  <2>2. QED BY <1>1, <2>1
<1>11. /\ DOMAIN properties' \in {{}, Properties}
       /\ lines' \in Seq(AllLines) /\ lines' = << >>
  BY <1>1 DEF IInv, TypeOK, LinesRead, Running
<1>12. has_port' \in BOOLEAN
  BY <1>1, Zenon
<1>13. QED BY <1>1, <1>7, <1>8, <1>9, <1>10, <1>11, <1>12, AtWord

LEMMA PortInvalidIInv == IInv /\ PortInvalid => IInv'
<1> SUFFICES ASSUME IInv, PortInvalid PROVE IInv'
  OBVIOUS
<1>1. /\ pc = "args" /\ argv[i] = "-p" /\ i < Len(argv) /\ ~ValidPort(argv[i + 1])
      /\ param_port' = 0 /\ has_port' = FALSE
      /\ i' = i + 1 /\ pc' = pc /\ argv' = argv
      /\ UNCHANGED <<properties, lines>> /\ UNCHANGED resources
  BY DEF PortInvalid, Option, HasValue
<1>2. PICK a \in Nat \ {0} : a = i
  BY Bounds
<1>3. PICK n \in Nat : n = i - 1
  BY Bounds
<1>4. /\ n <= a /\ i' = a + 1 /\ a < Len(argv) /\ argv[a] = "-p"
      /\ \A j \in a + 1 .. a : argv[j] # "-p"
      /\ \A j \in n + 1 .. a : argv[j] # "-c"
  <2>1. \A j \in n + 1 .. a : j = a
    BY <1>2, <1>3
  <2>2. argv[a] = "-p" /\ a < Len(argv)
    BY <1>1, <1>2
  <2>3. n <= a /\ i' = a + 1
    BY <1>1, <1>2, <1>3
  <2>4. QED BY <2>1, <2>2, <2>3
<1>5. PortSoFar'
  <2>1. (has_port' <=> ValidPort(argv[a + 1]))
        /\ (has_port' => param_port' = Number(argv[a + 1]))
    BY <1>1, <1>2
  <2>2. QED BY <1>1, <1>2, <1>4, <2>1, PortNow
<1>6. ConfigSoFar'
  BY <1>1, <1>3, <1>4, ConfigKept DEF IInv, Running
<1>7. i' \in 1 .. Len(argv) + 1
  BY <1>1, Bounds
<1>8. param_port' \in 0 .. SizeMax
  BY <1>1, StartupAssumption
<1>9. /\ DOMAIN properties' \in {{}, Properties}
      /\ lines' \in Seq(AllLines) /\ lines' = << >>
  BY <1>1 DEF IInv, TypeOK, LinesRead, Running
<1>10. has_port' \in BOOLEAN
  BY <1>1, Zenon
<1>11. QED BY <1>1, <1>5, <1>6, <1>7, <1>8, <1>9, <1>10, AtWord

LEMMA DefaultsAre == DOMAIN Defaults = Properties /\ DOMAIN Unset = {}
BY DEF Properties, Unset

LEMMA ConfigMissingIInv == IInv /\ ConfigMissing => IInv'
<1> SUFFICES ASSUME IInv, ConfigMissing PROVE IInv'
  OBVIOUS
<1>1. /\ pc = "args" /\ argv[i] = "-c" /\ i < Len(argv) /\ argv[i + 1] \notin DOMAIN Files
      /\ properties' = Defaults
      /\ i' = i + 1 /\ pc' = pc
      /\ UNCHANGED <<argv, has_port, param_port>>
      /\ lines' = lines /\ UNCHANGED resources
  BY DEF ConfigMissing, Option, HasValue
<1>2. PICK a \in Nat \ {0} : a = i
  BY Bounds
<1>3. PICK n \in Nat : n = i - 1
  BY Bounds
<1>4. /\ n <= a /\ i' = a + 1 /\ a < Len(argv) /\ argv[a] = "-c"
      /\ \A j \in a + 1 .. a : argv[j] # "-c"
      /\ \A j \in n + 1 .. a : argv[j] # "-p"
  <2>1. \A j \in n + 1 .. a : j = a
    BY <1>2, <1>3
  <2>2. argv[a] = "-c" /\ a < Len(argv)
    BY <1>1, <1>2
  <2>3. n <= a /\ i' = a + 1
    BY <1>1, <1>2, <1>3
  <2>4. QED BY <2>1, <2>2, <2>3
<1>5. PortSoFar'
  BY <1>1, <1>3, <1>4, PortKept DEF IInv
<1>6. lines' \in Seq(AllLines) /\ lines' = << >>
  BY <1>1 DEF IInv, LinesRead, Running
<1>7. ConfigSoFar'
  <2>1. argv[a + 1] \notin DOMAIN Files
    BY <1>1, <1>2
  <2>2. properties' \in {Unset, Defaults}
    BY <1>1
  <2>3. QED BY <1>1, <1>2, <1>4, <1>6, <2>1, <2>2, ConfigNow
<1>8. i' \in 1 .. Len(argv) + 1
  BY <1>1, Bounds
<1>9. has_port' \in BOOLEAN /\ param_port' \in 0 .. SizeMax
  BY <1>1 DEF IInv, TypeOK
<1>10. DOMAIN properties' \in {{}, Properties}
  BY <1>1, DefaultsAre
<1>11. QED BY <1>1, <1>5, <1>6, <1>7, <1>8, <1>9, <1>10, AtWord

LEMMA ConfigOpenedIInv == IInv /\ ConfigOpened => IInv'
<1> SUFFICES ASSUME IInv, ConfigOpened PROVE IInv'
  OBVIOUS
<1>1. /\ pc = "args" /\ argv[i] = "-c" /\ i < Len(argv) /\ argv[i + 1] \in DOMAIN Files
      /\ properties' = Defaults /\ lines' = Files[argv[i + 1]] /\ pc' = "config"
      /\ i' = i + 2
      /\ UNCHANGED <<argv, has_port, param_port>>
      /\ UNCHANGED resources
  BY DEF ConfigOpened, Option, HasValue
<1>2. PICK a \in Nat \ {0} : a = i
  BY Bounds
<1>3. PICK n \in Nat : n = i - 1
  BY Bounds
<1>4. PICK m \in Nat : m = a + 1
  OBVIOUS
<1>5. argv[a + 1] \notin {"-p", "-c"}
  BY <1>1, <1>2, OptionsAreNeither
<1>6. /\ a <= m /\ n <= m /\ i' = m + 1
      /\ \A j \in a + 1 .. m : argv[j] # "-c"
      /\ \A j \in n + 1 .. m : argv[j] # "-p"
  <2>1. \A j \in a + 1 .. m : j = a + 1
    BY <1>4
  <2>2. \A j \in n + 1 .. m : j = a \/ j = a + 1
    BY <1>2, <1>3, <1>4
  <2>3. argv[a] = "-c"
    BY <1>1, <1>2
  <2>4. a <= m /\ n <= m /\ i' = m + 1
    BY <1>1, <1>2, <1>3, <1>4
  <2>5. QED BY <1>5, <2>1, <2>2, <2>3, <2>4
<1>7. PortSoFar'
  BY <1>1, <1>3, <1>6, PortKept DEF IInv
<1>8. PICK f : f = argv[a + 1]
  OBVIOUS
<1>9. f \in DOMAIN Files /\ lines' = Files[f]
  BY <1>1, <1>2, <1>8
<1>10. /\ Files[f] \in Seq(AllLines)
       /\ Len(Files[f]) \in Nat /\ DOMAIN Files[f] = 1 .. Len(Files[f])
  BY <1>9, FileIs
<1>11. ReadSoFar(Files[f])'
  <2>1. PICK file : file = Files[f]
    OBVIOUS
  <2>2. Len(file) \in Nat /\ lines' = file /\ properties' = Defaults
    BY <1>1, <1>9, <1>10, <2>1
  <2>3. DOMAIN properties' = Properties
    BY <1>1, DefaultsAre
  <2>4. Len(file) - Len(file) = 0
    BY <2>2
  <2>5. \A name \in Properties : ValueAt(file, name, 0, properties'[name])
    BY <2>2 DEF ValueAt
  <2>6. \A j \in 1 .. Len(file) : file[0 + j] = file[j]
    BY <2>2
  <2>7. ReadSoFar(file)'
    BY <2>2, <2>3, <2>4, <2>5, <2>6 DEF ReadSoFar, ValueAt, Names
  <2>8. QED BY <2>1, <2>7
<1>12. ConfigSoFar'
  <2>1. ReadSoFar(Files[argv[a + 1]])'
    BY <1>1, <1>8, <1>11
  <2>2. argv[a + 1] \in DOMAIN Files
    BY <1>8, <1>9
  <2>3. a < Len(argv) /\ argv[a] = "-c"
    BY <1>1, <1>2
  <2>4. QED BY <1>1, <1>2, <1>6, <2>1, <2>2, <2>3, ConfigNow
<1>13. i' \in 1 .. Len(argv) + 1
  BY <1>1, Bounds
<1>14. has_port' \in BOOLEAN /\ param_port' \in 0 .. SizeMax
  BY <1>1 DEF IInv, TypeOK
<1>15. DOMAIN properties' \in {{}, Properties}
  BY <1>1, DefaultsAre
<1>16. lines' \in Seq(AllLines)
  BY <1>9, <1>10
<1>17. QED BY <1>1, <1>7, <1>12, <1>13, <1>14, <1>15, <1>16, AtWord

-----------------------------------------------------------------------------
(* A line of the config file                                               *)

\* The blank lines and those that set nothing leave every value in force, one
\* that sets a property is in force until another does.
LEMMA ValueStays ==
  ASSUME NEW file, NEW name, NEW value, NEW n \in Nat, ValueAt(file, name, n, value),
         NEW m \in Nat, n <= m, \A j \in n + 1 .. m : ~Names(file[j], name)
  PROVE  ValueAt(file, name, m, value)
<1>1. \A j \in 1 .. m : j \in 1 .. n \/ j \in n + 1 .. m
  OBVIOUS
<1>2. CASE value = Defaults[name] /\ \A j \in 1 .. n : ~Names(file[j], name)
  <2>1. \A j \in 1 .. m : ~Names(file[j], name)
    BY <1>1, <1>2
  <2>2. QED BY <1>2, <2>1 DEF ValueAt
<1>3. CASE \E k \in 1 .. n : /\ Names(file[k], name) /\ value = file[k].value
                             /\ \A j \in k + 1 .. n : ~Names(file[j], name)
  <2>1. PICK k \in 1 .. n : /\ Names(file[k], name) /\ value = file[k].value
                            /\ \A j \in k + 1 .. n : ~Names(file[j], name)
    BY <1>3
  <2>2. \A j \in k + 1 .. m : j \in k + 1 .. n \/ j \in n + 1 .. m
    OBVIOUS
  <2>3. \A j \in k + 1 .. m : ~Names(file[j], name)
    BY <2>1, <2>2
  <2>4. k \in 1 .. m
    OBVIOUS
  <2>5. QED BY <2>1, <2>3, <2>4 DEF ValueAt
<1>4. QED BY <1>2, <1>3 DEF ValueAt

LEMMA ValueSet ==
  ASSUME NEW file, NEW name, NEW n \in Nat \ {0}, Names(file[n], name)
  PROVE  ValueAt(file, name, n, file[n].value)
<1>1. \A j \in n + 1 .. n : ~Names(file[j], name)
  OBVIOUS
<1>2. n \in 1 .. n
  OBVIOUS
<1>3. QED BY <1>1, <1>2 DEF ValueAt

\* What a step of the loop that reads lines has to establish, c lines on.
LEMMA AtLineStep ==
  ASSUME IInv, pc = "config", pc' = pc, UNCHANGED args, UNCHANGED resources,
         NEW c \in 1 .. Len(lines), lines' \in Seq(AllLines), Len(lines') = Len(lines) - c,
         \A j \in 1 .. Len(lines) - c : lines'[j] = lines[c + j],
         DOMAIN properties' = DOMAIN properties,
         \A file, name : \A n \in Nat :
           /\ name \in Properties /\ DOMAIN properties = Properties
           /\ \A j \in 1 .. c : file[n + j] = lines[j]
           /\ ValueAt(file, name, n, properties[name])
           => ValueAt(file, name, n + c, properties'[name])
  PROVE  IInv'
<1>1. /\ UNCHANGED <<argv, i>> /\ has_port' = has_port /\ param_port' = param_port
      /\ max_clients' = max_clients /\ queue_cap' = queue_cap
  BY DEF args, resources
<1>2. TypeOK'
  BY <1>1 DEF IInv, TypeOK
<1>3. argv' \in Argvs
  BY <1>1 DEF IInv
<1>4. PICK n \in Nat : n = i - 1
  BY Bounds
<1>5. n <= n /\ i' = n + 1 /\ \A j \in n + 1 .. n : argv[j] # "-p"
  BY <1>1, <1>4, Bounds
<1>6. PortSoFar'
  BY <1>1, <1>4, <1>5, PortKept DEF IInv
<1>7. Len(lines) \in Nat
  BY LenProperties DEF IInv
<1>8. ConfigSoFar'
  <2>1. PICK k \in 0 .. n : /\ Latest("-c", k, n)
                            /\ IF k > 0 /\ argv[k + 1] \in DOMAIN Files
                               THEN ReadSoFar(Files[argv[k + 1]])
                               ELSE properties \in {Unset, Defaults} /\ lines = << >>
    BY <1>4 DEF IInv, ConfigSoFar, Running
  <2>2. lines # << >>
    BY <1>7
  <2>3. k > 0 /\ argv[k + 1] \in DOMAIN Files
    BY <2>1, <2>2
  <2>4. PICK file : file = Files[argv[k + 1]]
    OBVIOUS
  <2>5. ReadSoFar(file)
    BY <2>1, <2>3, <2>4
  <2>6. Len(file) \in Nat
    BY <2>3, <2>4, FileIs
  <2>7. PICK d \in Nat : d = Len(file) - Len(lines)
    <3>1. Len(lines) <= Len(file)
      BY <2>5 DEF ReadSoFar
    <3>2. Len(file) - Len(lines) \in Nat
      BY <1>7, <2>6, <3>1
    <3>3. QED BY <3>2
  <2>8. Len(lines') <= Len(file) /\ Len(file) - Len(lines') = d + c
    BY <1>7, <2>6, <2>7
  <2>9. \A m \in 1 .. Len(lines) : lines[m] = file[d + m]
    BY <2>5, <2>7 DEF ReadSoFar
  <2>10. \A m \in 1 .. Len(lines') : lines'[m] = file[(d + c) + m]
    <3> SUFFICES ASSUME NEW m \in 1 .. Len(lines') PROVE lines'[m] = file[(d + c) + m]
      OBVIOUS
    <3>1. lines'[m] = lines[c + m] /\ c + m \in 1 .. Len(lines) /\ d + (c + m) = (d + c) + m
      BY <1>7
    <3>2. QED BY <2>9, <3>1
  <2>11. \A j \in 1 .. c : file[d + j] = lines[j]
    BY <1>7, <2>9
  <2>12. \A name \in Properties : ValueAt(file, name, d, properties[name])
    BY <2>5, <2>7 DEF ReadSoFar
  <2>13. DOMAIN properties = Properties
    BY <2>5 DEF ReadSoFar
  <2>14. \A name \in Properties : ValueAt(file, name, d + c, properties'[name])
    BY <2>11, <2>12, <2>13, Zenon
  <2>15. ReadSoFar(file)'
    <3>1. \A name \in Properties :
            ValueAt(file, name, Len(file) - Len(lines'), properties'[name])
      BY <2>8, <2>14
    <3>2. \A m \in 1 .. Len(lines') : lines'[m] = file[Len(file) - Len(lines') + m]
      BY <2>8, <2>10
    <3>3. QED BY <2>8, <2>13, <3>1, <3>2 DEF ReadSoFar, ValueAt, Names
  <2>16. Latest("-c", k, i - 1)'
    <3>1. Latest("-c", k, n)'
      BY <1>1, <2>1 DEF Latest
    <3>2. QED BY <1>1, <1>4, <3>1
  <2>17. ReadSoFar(Files[argv[k + 1]])' /\ argv'[k + 1] \in DOMAIN Files
    BY <1>1, <2>3, <2>4, <2>15
  <2>18. k \in 0 .. i' - 1
    BY <1>1, <1>4
  <2>19. QED BY <2>3, <2>16, <2>17, <2>18 DEF ConfigSoFar
<1>9. PortChosen' /\ LinesRead' /\ ResourcesMade'
  BY DEF PortChosen, Started, LinesRead, ResourcesMade
<1>10. QED BY <1>2, <1>3, <1>6, <1>8, <1>9 DEF IInv

\* The first lines and what is behind them.
LEMMA LinesAre ==
  ASSUME IInv, lines # << >>
  PROVE  /\ Len(lines) \in Nat \ {0} /\ Head(lines) = lines[1]
         /\ Tail(lines) \in Seq(AllLines) /\ Len(Tail(lines)) = Len(lines) - 1
         /\ \A j \in 1 .. Len(lines) - 1 : Tail(lines)[j] = lines[1 + j]
<1>1. lines \in Seq(AllLines)
  BY DEF IInv
<1>2. PICK s \in Seq(AllLines) : s = lines
  BY <1>1
<1>3. s # << >>
  BY <1>2
<1>4. Len(s) \in Nat \ {0}
  BY <1>3, EmptySeq, LenProperties
<1>5. Head(s) = s[1]
  OBVIOUS
<1>6. /\ Tail(s) \in Seq(AllLines) /\ Len(Tail(s)) = Len(s) - 1
      /\ \A j \in 1 .. Len(s) - 1 : Tail(s)[j] = s[1 + j]
  <2>1. /\ Tail(s) \in Seq(AllLines) /\ Len(Tail(s)) = Len(s) - 1
        /\ \A j \in 1 .. Len(Tail(s)) : Tail(s)[j] = s[j + 1]
    BY <1>3, HeadTailProperties
  <2>2. \A j \in 1 .. Len(s) - 1 : j + 1 = 1 + j
    OBVIOUS
  <2>3. QED BY <2>1, <2>2
<1>7. QED BY <1>2, <1>4, <1>5, <1>6

LEMMA ReadPropertyIInv == IInv /\ ReadProperty => IInv'
<1> SUFFICES ASSUME IInv, ReadProperty PROVE IInv'
  OBVIOUS
<1>1. /\ pc = "config" /\ lines # << >> /\ Sets(Head(lines))
      /\ properties' = [properties EXCEPT ![Head(lines).name] = Head(lines).value]
      /\ lines' = Tail(lines)
      /\ pc' = pc /\ UNCHANGED args /\ UNCHANGED resources
  BY DEF ReadProperty, AtLine
<1>2. /\ Len(lines) \in Nat \ {0} /\ Head(lines) = lines[1]
      /\ lines' \in Seq(AllLines) /\ Len(lines') = Len(lines) - 1
      /\ \A j \in 1 .. Len(lines) - 1 : lines'[j] = lines[1 + j]
  BY <1>1, LinesAre
<1>3. PICK line : line = lines[1]
  OBVIOUS
<1>4. /\ line.kind = "pair" /\ line.name \in Properties
      /\ properties' = [properties EXCEPT ![line.name] = line.value]
  BY <1>1, <1>2, <1>3 DEF Sets
<1>5. DOMAIN properties' = DOMAIN properties
  BY <1>4
<1>6. ASSUME NEW file, NEW name, NEW n \in Nat,
             name \in Properties, DOMAIN properties = Properties,
             \A j \in 1 .. 1 : file[n + j] = lines[j],
             ValueAt(file, name, n, properties[name])
      PROVE  ValueAt(file, name, n + 1, properties'[name])
  <2>1. file[n + 1] = line
    BY <1>3, <1>6
  <2>2. CASE name = line.name
    <3>1. Names(file[n + 1], name)
      BY <1>4, <2>1, <2>2 DEF Names
    <3>2. properties'[name] = file[n + 1].value
      BY <1>4, <1>6, <2>1, <2>2
    <3>3. n + 1 \in Nat \ {0}
      OBVIOUS
    <3>4. QED BY <3>1, <3>2, <3>3, ValueSet
  <2>3. CASE name # line.name
    <3>1. \A j \in n + 1 .. n + 1 : ~Names(file[j], name)
      BY <2>1, <2>3 DEF Names
    <3>2. properties'[name] = properties[name]
      BY <1>4, <1>6, <2>3
    <3>3. n + 1 \in Nat /\ n <= n + 1
      OBVIOUS
    <3>4. QED BY <1>6, <3>1, <3>2, <3>3, ValueStays
  <2>4. QED BY <2>2, <2>3
<1>7. 1 \in 1 .. Len(lines)
  BY <1>2
<1>8. QED BY <1>1, <1>2, <1>5, <1>6, <1>7, AtLineStep

\* Lines that name no property, c of them.
LEMMA LinesPassed ==
  ASSUME IInv, pc = "config", pc' = pc, UNCHANGED args, UNCHANGED resources,
         properties' = properties,
         NEW c \in 1 .. Len(lines), lines' \in Seq(AllLines), Len(lines') = Len(lines) - c,
         \A j \in 1 .. Len(lines) - c : lines'[j] = lines[c + j],
         \A j \in 1 .. c : ~Sets(lines[j])
  PROVE  IInv'
<1>1. ASSUME NEW file, NEW name, NEW n \in Nat,
             name \in Properties, DOMAIN properties = Properties,
             \A j \in 1 .. c : file[n + j] = lines[j],
             ValueAt(file, name, n, properties[name])
      PROVE  ValueAt(file, name, n + c, properties'[name])
  <2>1. c \in Nat
    BY DEF IInv
  <2>2. ASSUME NEW j \in n + 1 .. n + c
        PROVE  ~Names(file[j], name)
    <3>1. j - n \in 1 .. c /\ n + (j - n) = j
      BY <2>1
    <3>2. file[j] = lines[j - n] /\ ~Sets(lines[j - n])
      BY <1>1, <3>1
    <3>3. QED BY <1>1, <3>2 DEF Sets, Names
  <2>3. n + c \in Nat /\ n <= n + c
    BY <2>1
  <2>4. ValueAt(file, name, n + c, properties[name])
    BY <1>1, <2>2, <2>3, ValueStays
  <2>5. QED BY <2>4
<1>2. QED BY <1>1, AtLineStep

LEMMA SkipLineIInv == IInv /\ SkipLine => IInv'
<1> SUFFICES ASSUME IInv, SkipLine PROVE IInv'
  OBVIOUS
<1>1. /\ pc = "config" /\ lines # << >> /\ ~Sets(Head(lines))
      /\ lines' = Tail(lines) /\ properties' = properties
      /\ pc' = pc /\ UNCHANGED args /\ UNCHANGED resources
  BY DEF SkipLine, AtLine
<1>2. /\ Len(lines) \in Nat \ {0} /\ Head(lines) = lines[1]
      /\ lines' \in Seq(AllLines) /\ Len(lines') = Len(lines) - 1
      /\ \A j \in 1 .. Len(lines) - 1 : lines'[j] = lines[1 + j]
  BY <1>1, LinesAre
<1>3. \A j \in 1 .. 1 : ~Sets(lines[j])
  BY <1>1, <1>2
<1>4. 1 \in 1 .. Len(lines)
  BY <1>2
<1>5. QED BY <1>1, <1>2, <1>3, <1>4, LinesPassed

\* malloc failed: a blank line or two are gone, or the server.
LEMMA LineNoMemoryIInv == IInv /\ LineNoMemory => IInv'
<1> SUFFICES ASSUME IInv, LineNoMemory PROVE IInv'
  OBVIOUS
<1>1. /\ pc = "config" /\ lines # << >> /\ properties' = properties
      /\ UNCHANGED args /\ UNCHANGED resources
  BY DEF LineNoMemory, AtLine
<1>2. /\ Len(lines) \in Nat \ {0} /\ Head(lines) = lines[1]
      /\ Tail(lines) \in Seq(AllLines) /\ Len(Tail(lines)) = Len(lines) - 1
      /\ \A j \in 1 .. Len(lines) - 1 : Tail(lines)[j] = lines[1 + j]
  BY <1>1, LinesAre
<1>3. CASE IsBlank(Head(lines)) /\ (Len(lines) > 1 => IsBlank(lines[2]))
  <2>1. /\ lines' = IF Len(lines) > 1 THEN Tail(Tail(lines)) ELSE << >>
        /\ pc' = pc
    BY <1>3 DEF LineNoMemory
  <2>2. \A line : IsBlank(line) => ~Sets(line)
    BY DEF IsBlank, Sets
  <2>3. ~Sets(lines[1])
    BY <1>2, <1>3, <2>2
  <2>4. CASE Len(lines) > 1
    <3>1. PICK t \in Seq(AllLines) : t = Tail(lines)
      BY <1>2
    <3>2. Len(t) = Len(lines) - 1 /\ t # << >>
      <4>0. Len(lines) - 1 # 0
        BY <1>2, <2>4, OneLess, Zenon
      <4>1. Len(t) = Len(lines) - 1
        BY <1>2, <3>1, Zenon
      <4>2. Len(<< >>) = 0
        BY EmptySeq
      <4>3. QED BY <4>0, <4>1, <4>2, Zenon
    <3>3. /\ Tail(t) \in Seq(AllLines) /\ Len(Tail(t)) = Len(t) - 1
          /\ \A j \in 1 .. Len(Tail(t)) : Tail(t)[j] = t[j + 1]
      BY <3>2, HeadTailProperties
    <3>4. lines' = Tail(t)
      BY <2>1, <2>4, <3>1
    <3>5. lines' \in Seq(AllLines) /\ Len(lines') = Len(lines) - 2
      <4>1. (Len(lines) - 1) - 1 = Len(lines) - 2
        BY <1>2
      <4>2. QED BY <3>2, <3>3, <3>4, <4>1, Zenon
    <3>6. \A j \in 1 .. Len(lines) - 2 : lines'[j] = lines[2 + j]
      <4> SUFFICES ASSUME NEW j \in 1 .. Len(lines) - 2 PROVE lines'[j] = lines[2 + j]
        OBVIOUS
      <4>1. lines'[j] = t[j + 1]
        BY <1>2, <3>3, <3>4, <3>5
      <4>2. j + 1 \in 1 .. Len(lines) - 1 /\ 1 + (j + 1) = 2 + j
        BY <1>2
      <4>3. t[j + 1] = lines[2 + j]
        BY <1>2, <3>1, <4>2
      <4>4. QED BY <4>1, <4>3
    <3>7. \A j \in 1 .. 2 : ~Sets(lines[j])
      <4>1. \A j \in 1 .. 2 : j = 1 \/ j = 2
        OBVIOUS
      <4>2. QED BY <1>3, <2>2, <2>3, <2>4, <4>1
    <3>8. 2 \in 1 .. Len(lines)
      BY <1>2, <2>4
    <3>9. QED BY <1>1, <2>1, <3>5, <3>6, <3>7, <3>8, LinesPassed
  <2>5. CASE ~(Len(lines) > 1)
    <3>1. Len(lines) = 1 /\ lines' = << >>
      BY <1>2, <2>1, <2>5
    <3>2. lines' \in Seq(AllLines) /\ Len(lines') = Len(lines) - 1
      <4>1. << >> \in Seq(AllLines) /\ Len(<< >>) = 0
        BY EmptySeq
      <4>2. QED BY <3>1, <4>1
    <3>3. \A j \in 1 .. Len(lines) - 1 : lines'[j] = lines[1 + j]
      BY <3>1
    <3>4. 1 \in 1 .. Len(lines) /\ \A j \in 1 .. 1 : ~Sets(lines[j])
      BY <2>3, <3>1
    <3>5. QED BY <1>1, <2>1, <3>2, <3>3, <3>4, LinesPassed
  <2>6. QED BY <2>4, <2>5
<1>4. CASE ~(IsBlank(Head(lines)) /\ (Len(lines) > 1 => IsBlank(lines[2])))
  <2>1. pc' = "crashed" /\ lines' = lines
    BY <1>4 DEF LineNoMemory
  <2>2. /\ argv' = argv /\ i' = i /\ has_port' = has_port /\ param_port' = param_port
        /\ max_clients' = max_clients /\ queue_cap' = queue_cap
    BY <1>1 DEF args, resources
  <2>3. TypeOK'
    BY <1>1, <2>1, <2>2 DEF IInv, TypeOK
  <2>4. argv' \in Argvs /\ lines' \in Seq(AllLines)
    BY <2>1, <2>2 DEF IInv
  <2>5. PortSoFar' /\ PortChosen' /\ ConfigSoFar' /\ LinesRead' /\ ResourcesMade'
    BY <2>1 DEF PortSoFar, PortChosen, Started, ConfigSoFar, Running, LinesRead, ResourcesMade
  <2>6. QED BY <2>3, <2>4, <2>5 DEF IInv
<1>5. QED BY <1>3, <1>4

LEMMA ConfigDoneIInv == IInv /\ ConfigDone => IInv'
<1> SUFFICES ASSUME IInv, ConfigDone PROVE IInv'
  OBVIOUS
<1>1. /\ pc = "config" /\ lines = << >> /\ pc' = "args"
      /\ argv' = argv /\ i' = i /\ has_port' = has_port /\ param_port' = param_port
      /\ UNCHANGED <<properties, lines>>
      /\ max_clients' = max_clients /\ queue_cap' = queue_cap
  BY DEF ConfigDone, args, resources
<1>2. TypeOK'
  BY <1>1 DEF IInv, TypeOK
<1>3. argv' \in Argvs /\ lines' \in Seq(AllLines)
  BY <1>1 DEF IInv
<1>4. PICK n \in Nat : n = i - 1
  BY Bounds
<1>5. n <= n /\ i' = n + 1 /\ \A j \in n + 1 .. n : argv[j] # "-p" /\ argv[j] # "-c"
  BY <1>1, <1>4, Bounds
<1>6. PortSoFar'
  BY <1>1, <1>4, <1>5, PortKept DEF IInv
<1>7. ConfigSoFar'
  BY <1>1, <1>4, <1>5, ConfigKept DEF IInv, Running
<1>8. PortChosen' /\ LinesRead' /\ ResourcesMade'
  BY <1>1 DEF PortChosen, Started, LinesRead, ResourcesMade
<1>9. QED BY <1>2, <1>3, <1>6, <1>7, <1>8 DEF IInv

-----------------------------------------------------------------------------
(* The end of parse_args and the start of main                             *)

\* get_num_property's results are the same while the properties are.
LEMMA NumStays ==
  ASSUME properties' = properties, NEW name
  PROVE  Num(name)' = Num(name)
BY DEF Num, Property

\* What a step of main has to establish.
LEMMA AtStart ==
  ASSUME IInv, Running, argv' = argv, i' = i, UNCHANGED <<properties, lines, has_port>>,
         pc # "config", pc' \in {"start", "queue", "serving", "exited", "aborted"},
         param_port' \in 0 .. SizeMax, max_clients' \in Nat, queue_cap' \in Nat,
         PortChosen', ResourcesMade'
  PROVE  IInv'
<1>1. TypeOK'
  <2>1. pc' \in {"args", "config", "start", "queue", "serving", "exited", "aborted", "crashed"}
    OBVIOUS
  <2>2. i' \in 1 .. Len(argv') + 1 /\ has_port' \in BOOLEAN /\ DOMAIN properties' \in {{}, Properties}
    BY DEF IInv, TypeOK
  <2>3. QED BY <2>1, <2>2, Zenon DEF TypeOK
<1>2. argv' \in Argvs /\ lines' \in Seq(AllLines)
  BY DEF IInv
<1>3. PortSoFar' /\ LinesRead'
  BY DEF IInv, PortSoFar, LinesRead
<1>4. PICK n \in Nat : n = i - 1
  BY Bounds
<1>5. n <= n /\ i' = n + 1 /\ \A j \in n + 1 .. n : argv[j] # "-c"
  BY <1>4, Bounds
<1>6. ConfigSoFar'
  BY <1>4, <1>5, ConfigKept DEF IInv
<1>7. QED BY <1>1, <1>2, <1>3, <1>6 DEF IInv

LEMMA DefaultPortIInv == IInv /\ DefaultPort => IInv'
<1> SUFFICES ASSUME IInv, DefaultPort PROVE IInv'
  OBVIOUS
<1>1. /\ pc = "args" /\ i > Len(argv) /\ ~has_port /\ IsNum("DEFAULT_PORT")
      /\ param_port' = Num("DEFAULT_PORT") /\ pc' = "start"
      /\ argv' = argv /\ i' = i /\ UNCHANGED <<properties, lines, has_port>>
      /\ max_clients' = max_clients /\ queue_cap' = queue_cap
  BY DEF DefaultPort, resources
<1>2. i = Len(argv) + 1
  BY <1>1, Bounds
<1>3. param_port' \in 0 .. SizeMax
  <2>1. Num("DEFAULT_PORT") \in 0 .. SizeMax
    BY <1>1, NumberIs DEF IsNum, Num
  <2>2. QED BY <1>1, <2>1
<1>4. PICK k \in 0 .. i - 1 : Latest("-p", k, i - 1) /\ (has_port <=> PortOf(k))
  BY <1>1 DEF IInv, PortSoFar
<1>5. PortChosen'
  <2>1. i' = Len(argv') + 1 /\ k \in 0 .. i' - 1
    BY <1>1, <1>2
  <2>2. Latest("-p", k, i - 1)' /\ ~PortOf(k)'
    BY <1>1, <1>4 DEF Latest, PortOf
  <2>3. param_port' = Num("DEFAULT_PORT")'
    BY <1>1, NumStays
  <2>4. QED BY <2>1, <2>2, <2>3 DEF PortChosen
<1>6. ResourcesMade'
  BY <1>1 DEF ResourcesMade
<1>7. Running /\ max_clients' \in Nat /\ queue_cap' \in Nat
  BY <1>1 DEF Running, IInv, TypeOK
<1>8. QED BY <1>1, <1>3, <1>5, <1>6, <1>7, AtStart

LEMMA OwnPortIInv == IInv /\ OwnPort => IInv'
<1> SUFFICES ASSUME IInv, OwnPort PROVE IInv'
  OBVIOUS
<1>1. /\ pc = "args" /\ i > Len(argv) /\ has_port /\ pc' = "start"
      /\ argv' = argv /\ i' = i /\ param_port' = param_port
      /\ UNCHANGED <<properties, lines, has_port>>
      /\ max_clients' = max_clients /\ queue_cap' = queue_cap
  BY DEF OwnPort, args, resources
<1>2. i = Len(argv) + 1
  BY <1>1, Bounds
<1>3. PICK k \in 0 .. i - 1 : /\ Latest("-p", k, i - 1) /\ (has_port <=> PortOf(k))
                              /\ has_port => param_port = Number(argv[k + 1])
  BY <1>1 DEF IInv, PortSoFar
<1>4. PortChosen'
  <2>1. i' = Len(argv') + 1 /\ k \in 0 .. i' - 1
    BY <1>1, <1>2
  <2>2. Latest("-p", k, i - 1)' /\ PortOf(k)'
    BY <1>1, <1>3 DEF Latest, PortOf
  <2>3. param_port' = Number(argv'[k + 1])
    BY <1>1, <1>3
  <2>4. QED BY <2>1, <2>2, <2>3 DEF PortChosen
<1>5. ResourcesMade'
  BY <1>1 DEF ResourcesMade
<1>6. /\ Running /\ param_port' \in 0 .. SizeMax
      /\ max_clients' \in Nat /\ queue_cap' \in Nat
  BY <1>1 DEF Running, IInv, TypeOK
<1>7. QED BY <1>1, <1>4, <1>5, <1>6, AtStart

\* The port stays chosen while main goes on.
LEMMA PortStaysChosen ==
  ASSUME PortChosen, Started, UNCHANGED <<argv, i, param_port, properties>>
  PROVE  PortChosen'
<1>1. PICK k \in 0 .. i - 1 :
        /\ Latest("-p", k, i - 1)
        /\ param_port = IF PortOf(k) THEN Number(argv[k + 1]) ELSE Num("DEFAULT_PORT")
  BY DEF PortChosen
<1>2. Latest("-p", k, i - 1)' /\ (PortOf(k)' <=> PortOf(k))
  BY <1>1 DEF Latest, PortOf
<1>3. Num("DEFAULT_PORT")' = Num("DEFAULT_PORT")
  BY NumStays
<1>4. i' = Len(argv') + 1 /\ k \in 0 .. i' - 1
  BY DEF PortChosen
<1>5. param_port' = IF PortOf(k)' THEN Number(argv'[k + 1]) ELSE Num("DEFAULT_PORT")'
  BY <1>1, <1>2, <1>3
<1>6. QED BY <1>2, <1>4, <1>5 DEF PortChosen

LEMMA MakeListIInv == IInv /\ MakeList => IInv'
<1> SUFFICES ASSUME IInv, MakeList PROVE IInv'
  OBVIOUS
<1>1. /\ pc = "start" /\ Num("MAX_CLIENTS") \in 1 .. MaxInt
      /\ max_clients' = Num("MAX_CLIENTS") /\ pc' = "queue"
      /\ argv' = argv /\ i' = i /\ param_port' = param_port
      /\ UNCHANGED <<properties, lines, has_port>> /\ queue_cap' = queue_cap
  BY DEF MakeList, args
<1>2. PortChosen'
  BY <1>1, PortStaysChosen DEF IInv, Started
<1>3. ResourcesMade'
  BY <1>1, NumStays DEF ResourcesMade
<1>4. Running /\ param_port' \in 0 .. SizeMax /\ max_clients' \in Nat /\ queue_cap' \in Nat
  BY <1>1, StartupAssumption DEF Running, IInv, TypeOK
<1>5. QED BY <1>1, <1>2, <1>3, <1>4, AtStart

LEMMA MakeQueueIInv == IInv /\ MakeQueue => IInv'
<1> SUFFICES ASSUME IInv, MakeQueue PROVE IInv'
  OBVIOUS
<1>1. /\ pc = "queue" /\ Num("REQUEST_QUEUE_CAP") \in 1 .. MaxInt
      /\ queue_cap' = Num("REQUEST_QUEUE_CAP") /\ pc' = "serving"
      /\ argv' = argv /\ i' = i /\ param_port' = param_port
      /\ UNCHANGED <<properties, lines, has_port>> /\ max_clients' = max_clients
  BY DEF MakeQueue, args
<1>2. PortChosen'
  BY <1>1, PortStaysChosen DEF IInv, Started
<1>3. ResourcesMade'
  <2>1. max_clients = Num("MAX_CLIENTS") /\ max_clients \in 1 .. MaxInt
    BY <1>1 DEF IInv, ResourcesMade
  <2>2. Num("MAX_CLIENTS")' = Num("MAX_CLIENTS")
        /\ Num("REQUEST_QUEUE_CAP")' = Num("REQUEST_QUEUE_CAP")
    BY <1>1, NumStays
  <2>3. QED BY <1>1, <2>1, <2>2 DEF ResourcesMade
<1>4. Running /\ param_port' \in 0 .. SizeMax /\ max_clients' \in Nat /\ queue_cap' \in Nat
  BY <1>1, StartupAssumption DEF Running, IInv, TypeOK
<1>5. QED BY <1>1, <1>2, <1>3, <1>4, AtStart

\* Where the server does not start, nothing is left to be right.
LEMMA NotStarted ==
  ASSUME IInv, pc' \in {"exited", "aborted"}, UNCHANGED <<args, properties, lines, resources>>
  PROVE  IInv'
<1>1. /\ argv' = argv /\ i' = i /\ has_port' = has_port /\ param_port' = param_port
      /\ properties' = properties /\ lines' = lines
      /\ max_clients' = max_clients /\ queue_cap' = queue_cap
  BY DEF args, resources
<1>2. TypeOK'
  BY <1>1 DEF IInv, TypeOK
<1>3. argv' \in Argvs /\ lines' \in Seq(AllLines)
  BY <1>1 DEF IInv
<1>4. PortSoFar' /\ PortChosen' /\ ConfigSoFar' /\ LinesRead' /\ ResourcesMade'
  BY DEF PortSoFar, PortChosen, Started, ConfigSoFar, Running, LinesRead, ResourcesMade
<1>5. QED BY <1>2, <1>3, <1>4 DEF IInv

LEMMA NextIInv == IInv /\ [Next]_vars => IInv'
<1> SUFFICES ASSUME IInv, [Next]_vars PROVE IInv'
  OBVIOUS
<1>1. CASE OtherWord
  BY <1>1, OtherWordIInv
<1>2. CASE PortGiven \/ PortInvalid
  BY <1>2, PortGivenIInv, PortInvalidIInv
<1>3. CASE ConfigMissing \/ ConfigOpened
  BY <1>3, ConfigMissingIInv, ConfigOpenedIInv
<1>4. CASE ReadProperty \/ SkipLine \/ LineNoMemory \/ ConfigDone
  BY <1>4, ReadPropertyIInv, SkipLineIInv, LineNoMemoryIInv, ConfigDoneIInv
<1>5. CASE DefaultPort \/ OwnPort
  BY <1>5, DefaultPortIInv, OwnPortIInv
<1>6. CASE MakeList \/ MakeQueue
  BY <1>6, MakeListIInv, MakeQueueIInv
<1>7. CASE ValueMissing \/ NotANumber \/ EmptyList \/ StartFails
  BY <1>7, NotStarted DEF ValueMissing, NotANumber, EmptyList, StartFails
<1>8. CASE UNCHANGED vars
  <2> USE <1>8 DEF vars, args, resources
  <2>1. TypeOK' /\ argv' \in Argvs /\ lines' \in Seq(AllLines)
    BY DEF IInv, TypeOK
  <2>2. \A name : Num(name)' = Num(name)
    BY NumStays
  <2>3. \A k, n : Latest("-p", k, n) => Latest("-p", k, n)'
    BY DEF Latest
  <2>4. PICK n \in Nat : n = i - 1
    BY Bounds
  <2>5. n <= n /\ i' = n + 1 /\ \A j \in n + 1 .. n : argv[j] # "-p" /\ argv[j] # "-c"
    BY <2>4, Bounds
  <2>6. PortSoFar'
    <3>1. CASE pc \in {"args", "config"}
      BY <2>4, <2>5, <3>1, PortKept DEF IInv
    <3>2. CASE pc \notin {"args", "config"}
      BY <3>2 DEF PortSoFar
    <3>3. QED BY <3>1, <3>2
  <2>7. ConfigSoFar'
    <3>1. CASE Running
      BY <2>4, <2>5, <3>1, ConfigKept DEF IInv
    <3>2. CASE ~Running
      BY <3>2 DEF ConfigSoFar, Running
    <3>3. QED BY <3>1, <3>2
  <2>8. PortChosen'
    <3>1. CASE Started
      BY <3>1, PortStaysChosen DEF IInv
    <3>2. CASE ~Started
      BY <3>2 DEF PortChosen, Started
    <3>3. QED BY <3>1, <3>2
  <2>9. LinesRead'
    BY DEF IInv, LinesRead, Running
  <2>10. ResourcesMade'
    BY <2>2 DEF IInv, ResourcesMade
  <2>11. QED BY <2>1, <2>6, <2>7, <2>8, <2>9, <2>10 DEF IInv
<1>9. QED BY <1>1, <1>2, <1>3, <1>4, <1>5, <1>6, <1>7, <1>8 DEF Next, ParseArgs

-----------------------------------------------------------------------------
(* What the invariant says of the values in force                          *)

\* When all lines of a file have been read, a property has the value the file
\* gives it.
LEMMA AllRead ==
  ASSUME NEW f \in DOMAIN Files, NEW name \in Properties,
         NEW value, ValueAt(Files[f], name, Len(Files[f]), value)
  PROVE  value = Configured(Files[f], name)
<1>1. PICK file : file = Files[f]
  OBVIOUS
<1>2. PICK n \in Nat : n = Len(file) /\ DOMAIN file = 1 .. n
  BY <1>1, FileIs
<1>3. PICK Naming : Naming = {k \in DOMAIN file : file[k].kind = "pair" /\ file[k].name = name}
  OBVIOUS
<1>4. Configured(file, name) =
        IF Naming = {} THEN Defaults[name]
        ELSE file[CHOOSE k \in Naming : \A m \in Naming : m <= k].value
  BY <1>3 DEF Configured
<1>5. \A m \in 1 .. n : m \in Naming <=> Names(file[m], name)
  BY <1>2, <1>3 DEF Names
<1>6. Naming \subseteq 1 .. n
  BY <1>2, <1>3
<1>7. ValueAt(file, name, n, value)
  BY <1>1, <1>2
<1>8. CASE value = Defaults[name] /\ \A m \in 1 .. n : ~Names(file[m], name)
  <2>1. Naming = {}
    BY <1>5, <1>6, <1>8
  <2>2. QED BY <1>1, <1>4, <1>8, <2>1
<1>9. CASE \E k \in 1 .. n : /\ Names(file[k], name) /\ value = file[k].value
                             /\ \A m \in k + 1 .. n : ~Names(file[m], name)
  <2>1. PICK k \in 1 .. n : /\ Names(file[k], name) /\ value = file[k].value
                            /\ \A m \in k + 1 .. n : ~Names(file[m], name)
    BY <1>9
  <2>2. k \in Naming
    BY <1>5, <2>1
  <2>3. \A m \in Naming : m <= k
    <3> SUFFICES ASSUME NEW m \in Naming, ~(m <= k) PROVE FALSE
      OBVIOUS
    <3>1. m \in 1 .. n /\ Names(file[m], name)
      BY <1>5, <1>6
    <3>2. m \in k + 1 .. n
      BY <3>1
    <3>3. QED BY <2>1, <3>1, <3>2
  <2>4. \A j \in Naming : (\A m \in Naming : m <= j) => j = k
    <3> SUFFICES ASSUME NEW j \in Naming, \A m \in Naming : m <= j PROVE j = k
      OBVIOUS
    <3>1. j <= k /\ k <= j
      BY <2>2, <2>3
    <3>2. j \in 1 .. n
      BY <1>6
    <3>3. QED BY <3>1, <3>2
  <2>5. (CHOOSE j \in Naming : \A m \in Naming : m <= j) = k
    BY <2>2, <2>3, <2>4
  <2>6. QED BY <1>1, <1>4, <2>1, <2>2, <2>5
<1>10. QED BY <1>7, <1>8, <1>9 DEF ValueAt

LEMMA PropertiesWanted ==
  ASSUME IInv, Started, NEW name \in Properties
  PROVE  Property(name) = Wanted(name)
<1>1. PICK n \in Nat : n = Len(argv)
  BY Bounds
<1>2. i - 1 = n
  BY <1>1 DEF IInv, PortChosen
<1>3. lines = << >> /\ Running
  BY DEF IInv, Started, LinesRead, Running
<1>4. PICK k \in 0 .. n : /\ Latest("-c", k, n)
                          /\ IF k > 0 /\ argv[k + 1] \in DOMAIN Files
                             THEN ReadSoFar(Files[argv[k + 1]])
                             ELSE properties \in {Unset, Defaults}
  BY <1>2, <1>3 DEF IInv, ConfigSoFar
<1>5. Last("-c") = k
  BY <1>1, <1>4, LatestIsLast
<1>6. CASE k > 0 /\ argv[k + 1] \in DOMAIN Files
  <2>1. PICK f \in DOMAIN Files : f = argv[k + 1]
    BY <1>6
  <2>2. ReadSoFar(Files[f]) /\ Len(Files[f]) \in Nat
    BY <1>4, <1>6, <2>1, FileIs
  <2>3. Len(lines) = 0
    BY <1>3, EmptySeq
  <2>4. Len(Files[f]) - Len(lines) = Len(Files[f])
    BY <2>2, <2>3
  <2>5. DOMAIN properties = Properties
    BY <2>2 DEF ReadSoFar
  <2>6. ValueAt(Files[f], name, Len(Files[f]), properties[name])
    <3>1. ValueAt(Files[f], name, Len(Files[f]) - Len(lines), properties[name])
      BY <2>2 DEF ReadSoFar
    <3>2. QED BY <2>4, <3>1
  <2>7. properties[name] = Configured(Files[f], name)
    BY <2>6, AllRead
  <2>8. QED BY <1>5, <1>6, <2>1, <2>5, <2>7 DEF Property, Wanted
<1>7. CASE ~(k > 0 /\ argv[k + 1] \in DOMAIN Files)
  <2>1. Wanted(name) = Defaults[name]
    BY <1>5, <1>7 DEF Wanted
  <2>2. properties = Unset \/ properties = Defaults
    BY <1>4, <1>7
  <2>3. Property(name) = Defaults[name]
    BY <2>2, DefaultsAre DEF Property
  <2>4. QED BY <2>1, <2>3
<1>8. QED BY <1>6, <1>7

LEMMA NamesAreProperties ==
  {"DEFAULT_PORT", "MAX_CLIENTS", "REQUEST_QUEUE_CAP"} \subseteq Properties
BY DEF Properties, Defaults

-----------------------------------------------------------------------------
(* What holds of every behaviour                                           *)

LEMMA Inductive == Spec => []IInv
<1>1. Init => IInv
  BY InitIInv
<1>2. IInv /\ [Next]_vars => IInv'
  BY NextIInv
<1>3. QED BY <1>1, <1>2, PTL DEF Spec

\* The variables of main and parse_args have their types: the word looked at is
\* one of the command line or the one behind it, the port fits a size_t.
THEOREM StartupTypeCorrect == Spec => []TypeOK
<1>1. IInv => TypeOK
  BY DEF IInv
<1>2. QED BY <1>1, Inductive, PTL

\* Whatever the command line and the files, the server starts with the values of
\* the last -c and the port of the last -p, or the default port of the former.
THEOREM OptionsCorrect == Spec => []LastOptionsInForce
<1>1. ASSUME IInv PROVE LastOptionsInForce
  <2> SUFFICES ASSUME Started PROVE LastOptionsInForce!2
    BY DEF LastOptionsInForce
  <2>1. \A name \in Properties : Property(name) = Wanted(name)
    BY <1>1, PropertiesWanted
  <2>2. PICK n \in Nat : n = Len(argv)
    BY <1>1, Bounds
  <2>3. PICK k \in 0 .. n :
          /\ Latest("-p", k, n)
          /\ param_port = IF PortOf(k) THEN Number(argv[k + 1]) ELSE Num("DEFAULT_PORT")
    <3>1. i - 1 = n
      BY <1>1, <2>2 DEF IInv, PortChosen
    <3>2. QED BY <1>1, <3>1 DEF IInv, PortChosen
  <2>4. Last("-p") = k
    BY <2>2, <2>3, LatestIsLast
  <2>5. Num("DEFAULT_PORT") = AsSize(Number(Wanted("DEFAULT_PORT")))
    BY <2>1, NamesAreProperties DEF Num
  <2>6. QED BY <2>1, <2>3, <2>4, <2>5 DEF PortOf
<1>2. QED BY <1>1, Inductive, PTL

\* Whatever the config file says, a server that serves has between one slot and
\* INT_MAX, as many as the file asks for, and the same for its request queue: what
\* Server, SharedQueue and Communicator assume of their constants.
THEOREM ResourcesCorrect == Spec => []AssumptionsMet
<1>1. ASSUME IInv PROVE AssumptionsMet
  <2> SUFFICES ASSUME pc = "serving" PROVE AssumptionsMet!2
    BY DEF AssumptionsMet
  <2>1. /\ max_clients = Num("MAX_CLIENTS") /\ max_clients \in 1 .. MaxInt
        /\ queue_cap = Num("REQUEST_QUEUE_CAP") /\ queue_cap \in 1 .. MaxInt
    BY <1>1 DEF IInv, ResourcesMade
  <2>2. \A name \in Properties : Property(name) = Wanted(name)
    BY <1>1, PropertiesWanted DEF Started
  <2>3. QED BY <2>1, <2>2, NamesAreProperties DEF Num
<1>2. QED BY <1>1, Inductive, PTL
=============================================================================
