------------------------------- MODULE Texts -------------------------------
(***************************************************************************)
(* The text functions of server/src/utils.c that messages are made and     *)
(* read with, over characters given as one-letter strings, and the reading *)
(* of a text they are measured against.  A text has no zero inside; what   *)
(* lies behind one that lacks its zero is a parameter.                     *)
(***************************************************************************)
EXTENDS Integers, FiniteSets, Sequences, SequencesExt

\* ESCAPED_CHARS
Special == {"\\", "{", "}", "[", "]", ",", ":"}

Least(S) == CHOOSE n \in S : \A m \in S : n <= m

\* Mutant: escapes are not looked at.
is_escaped_never(s, n) == FALSE

\* is_escaped: the byte before, whatever stands before that one.
is_escaped(s, n) == n > 1 /\ s[n - 1] = "\\"

\* Where escaped_strchr(s + from, c) can stop.
Delimiters(s, from, c) == {n \in from .. Len(s) : s[n] = c /\ ~is_escaped(s, n)}

\* escaped_strchr: the first of them, 0 for NULL.
escaped_strchr(s, from, c) ==
  IF Delimiters(s, from, c) = {} THEN 0 ELSE Least(Delimiters(s, from, c))

\* Mutant: the backslash itself is left as it is.
EscapeCharBare(c) == IF c \in Special \ {"\\"} THEN <<"\\", c>> ELSE <<c>>

EscapeChar(c) == IF c \in Special THEN <<"\\", c>> ELSE <<c>>

\* The loop of make_escaped_string: what it has written after each character.
Escaped(s) ==
  LET copy[n \in 0 .. Len(s)] == IF n = 0 THEN << >> ELSE copy[n - 1] \o EscapeChar(s[n])
  IN copy

\* It writes no zero behind the copy, which therefore ends where the first 0
\* behind it happens to be.
make_escaped_string(s, behind) == Escaped(s)[Len(s)] \o behind

\* make_unescaped_string: a backslash is dropped and what follows it kept as it
\* is; a last one that nothing follows is dropped too.
Unescape(done, c) == IF c = "\\" /\ ~done.skip
                     THEN [text |-> done.text, skip |-> TRUE]
                     ELSE [text |-> Append(done.text, c), skip |-> FALSE]
Unescaped(s) ==
  LET done[n \in 0 .. Len(s)] == IF n = 0 THEN [text |-> << >>, skip |-> FALSE]
                                 ELSE Unescape(done[n - 1], s[n])
  IN done
make_unescaped_string(s) == Unescaped(s)[Len(s)].text

\* make_raw_resp: "[{%d}{%s}]"
make_raw_resp(resp) ==
  <<"[", "{", resp.status, "}", "{">> \o resp.payload \o <<"}", "]">>

-----------------------------------------------------------------------------
(* The reading request.h and response.h describe: a backslash escapes what *)
(* follows it, another backslash included.                                 *)

\* An odd number of backslashes stands right before the n-th character.
Masked(s, n) ==
  LET Run == {k \in 0 .. n - 1 : \A m \in n - k .. n - 1 : s[m] = "\\"}
  IN (Cardinality(Run) - 1) % 2 = 1

Unmasked(s, chars) == {n \in DOMAIN s : s[n] \in chars /\ ~Masked(s, n)}

\* No backslash follows another: is_escaped and Masked then agree.
PlainlyEscaped(s) == \A n \in 2 .. Len(s) : <<s[n - 1], s[n]>> # <<"\\", "\\">>

Increasing(S) ==
  [k \in 1 .. Cardinality(S) |-> CHOOSE n \in S : Cardinality({m \in S : m <= n}) = k]
Between(s, m, n) == SubSeq(s, m + 1, n - 1)
=============================================================================
