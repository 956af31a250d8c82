----------------------------- MODULE MCExchange -----------------------------
(***************************************************************************)
(* The texts Exchange is checked with: every short body in brackets, every *)
(* form with short sections, and every short list of parameters.           *)
(***************************************************************************)
EXTENDS Exchange

MCUpTo(chars, n) == UNION {[1 .. k -> chars] : k \in 0 .. n}

MCSection == MCUpTo({"{", "}", "\\", "h"}, 1)
MCBodies  == MCUpTo({"{", "}", "\\", "h"}, 6)
MCParams  == MCUpTo({",", ":", "\\", "x"}, 5)
MCPairs   == {<< >>, <<"x">>, <<":", "x">>, <<"x", ":">>, <<"x", "\\", ":", "x", ":", "x">>}
MCLists   == {p \o <<",">> \o q \o <<",">> \o r : p, q, r \in MCPairs}
MCPayload == MCUpTo({"}", "\\", ",", "h"}, 2)

MCForm(t, p, l) == <<"{">> \o t \o <<"}", "{">> \o p \o <<"}", "{">> \o l \o <<"}">>
MCForms == {MCForm(t, p, l) : t \in MCUpTo({"\\", "}", "h"}, 2), p \in MCSection,
                              l \in MCPayload}
           \cup {MCForm(<<"h">>, p, << >>) : p \in MCParams \cup MCLists}

MCRaws == {<<"[">> \o b \o <<"]">> : b \in MCBodies \cup MCForms}
          \cup {<<"h">> \o b \o <<"]">> : b \in {MCForm(<<"h">>, << >>, << >>)}}

MCBehinds == {<< >>, <<"h">>, <<"}", "]">>}
=============================================================================
