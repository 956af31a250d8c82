----------------------------- MODULE MCStartup -----------------------------
(***************************************************************************)
(* The command lines and config files Startup is checked with.             *)
(***************************************************************************)
EXTENDS Startup

MCPair(n, v)  == [kind |-> "pair", name |-> n, value |-> v]
MCOther(kind) == [kind |-> kind]

MCFiles == [
  full  |-> <<MCOther("comment"), MCPair("DEFAULT_PORT", "6200"), MCOther("blank"),
              MCPair("MAX_CLIENTS", "2"), MCOther("junk"), MCPair("UNKNOWN", "1"),
              MCPair("MAX_CLIENTS", "-4"), MCOther("blank")>>,
  few   |-> <<MCPair("REQUEST_QUEUE_CAP", "5")>>,
  zero  |-> <<MCPair("MAX_CLIENTS", "many")>>,
  none  |-> <<MCPair("REQUEST_QUEUE_CAP", "0"), MCOther("blank"), MCOther("blank")>>,
  least |-> <<MCPair("REQUEST_QUEUE_CAP", "least"), MCPair("DEFAULT_PORT", "least")>>,
  over  |-> <<MCPair("DEFAULT_PORT", "over"), MCPair("MAX_CLIENTS", "5")>>]

MCNumbers == {"0", "2", "5", "20", "50", "80", "100", "240", "6200", "6335", "7000", "-4",
              "least", "over"}
MCStrtol == [w \in MCNumbers |->
  CASE w = "0" -> 0 [] w = "2" -> 2 [] w = "5" -> 5 [] w = "20" -> 20 [] w = "50" -> 50
    [] w = "80" -> 80 [] w = "100" -> 100 [] w = "240" -> 240 [] w = "6200" -> 6200
    [] w = "6335" -> 6335 [] w = "7000" -> 7000 [] w = "-4" -> -4
    [] w = "least" -> -MaxInt - 1 [] w = "over" -> ERANGE]

MCWords == {"-p", "-c", "7000", "80", "lost", "full", "few", "zero", "none", "least", "over"}
MCArgvs == UNION {[1 .. n -> MCWords] : n \in 0 .. 4}
           \cup {<<"-c", f, "-p", p, "-c", g>> : f, g \in MCWords, p \in MCWords}
=============================================================================
