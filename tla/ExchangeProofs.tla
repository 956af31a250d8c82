--------------------------- MODULE ExchangeProofs ---------------------------
(***************************************************************************)
(* What TLAPS proves of Exchange, for any texts, any bytes behind an       *)
(* allocation and any alignment: a response can be read whatever it quotes *)
(* of its request, and make_req does in an exchange what it does alone.    *)
(***************************************************************************)
EXTENDS Exchange, RequestProofs

-----------------------------------------------------------------------------
(* Loops over a text                                                       *)

\* What holds before a loop and outlasts each of its l turns holds all the while.
LEMMA AllTheWhile ==
  ASSUME NEW l \in Nat, NEW T, 0 \in T, \A n \in 1 .. l : n - 1 \in T => n \in T
  PROVE  \A n \in 0 .. l : n \in T
<1> DEFINE Bad == {n \in 0 .. l : n \notin T}
<1>1. ASSUME NEW k \in Bad PROVE FALSE
  <2>1. Bad \in SUBSET Nat
    OBVIOUS
  <2>2. PICK m : m = Least(Bad)
    OBVIOUS
  <2>3. m \in Bad /\ \A j \in Bad : m <= j
    BY <2>1, <2>2, <1>1, LeastIs
  <2>4. m - 1 \in 0 .. l /\ ~(m <= m - 1) /\ m \in 1 .. l
    BY <2>3
  <2>5. m - 1 \in T
    BY <2>3, <2>4
  <2>6. QED BY <2>3, <2>4, <2>5
<1>2. QED BY <1>1

\* What a loop goes through: base, then what each turn makes of what the one before
\* has left.
Turns(D, base, l, turns, g) == /\ g \in [0 .. l -> D]
                               /\ g[0] = base
                               /\ \A n \in 1 .. l : g[n] = turns[n][g[n - 1]]

\* It goes through something, however many its turns.
LEMMA LoopEnds ==
  ASSUME NEW D, NEW base \in D, NEW l \in Nat, NEW turns,
         \A n \in 1 .. l : turns[n] \in [D -> D]
  PROVE  \E g : Turns(D, base, l, turns, g)
<1> DEFINE T == {k \in 0 .. l : \E g : Turns(D, base, k, turns, g)}
<1>1. 0 \in T
  <2> DEFINE h == [n \in 0 .. 0 |-> base]
  <2>1. Turns(D, base, 0, turns, h)
    BY DEF Turns
  <2>2. QED BY <2>1
<1>2. ASSUME NEW m \in 1 .. l, m - 1 \in T PROVE m \in T
  <2>1. PICK g : Turns(D, base, m - 1, turns, g)
    BY <1>2
  <2>2. g \in [0 .. m - 1 -> D] /\ g[0] = base /\ \A n \in 1 .. m - 1 : g[n] = turns[n][g[n - 1]]
    BY <2>1 DEF Turns
  <2> DEFINE h == [n \in 0 .. m |-> IF n = m THEN turns[m][g[m - 1]] ELSE g[n]]
  <2>3. g[m - 1] \in D /\ turns[m][g[m - 1]] \in D
    BY <2>2
  <2>4. h \in [0 .. m -> D] /\ h[0] = base
    BY <2>2, <2>3
  <2>5. ASSUME NEW n \in 1 .. m PROVE h[n] = turns[n][h[n - 1]]
    <3>1. n - 1 \in 0 .. m /\ n - 1 # m /\ n \in 0 .. m /\ h[n - 1] = g[n - 1]
      OBVIOUS
    <3>2. CASE n = m
      BY <3>1, <3>2
    <3>3. CASE n # m
      <4>1. n \in 1 .. m - 1 /\ h[n] = g[n]
        BY <3>3
      <4>2. QED BY <2>2, <3>1, <4>1
    <3>4. QED BY <3>2, <3>3
  <2>6. Turns(D, base, m, turns, h)
    BY <2>4, <2>5, Zenon DEF Turns
  <2>7. QED BY <2>6
<1> HIDE DEF T
<1>3. l \in T
  BY <1>1, <1>2, AllTheWhile
<1>4. QED BY <1>3 DEF T

Backslash == "\\"

\* make_escaped_string makes its copy a character of the text at a time.
Copies(C, s, l, e) == /\ \A n \in 0 .. l : e[n] \in Seq(C)
                      /\ e[0] = << >>
                      /\ \A n \in 1 .. l : e[n] = e[n - 1] \o EscapeChar(s[n])
LEMMA EscapedIs ==
  ASSUME NEW C, Backslash \in C, NEW l \in Nat, NEW s, l = Len(s), \A n \in 1 .. l : s[n] \in C
  PROVE  Copies(C, s, l, Escaped(s))
<1> DEFINE D == Seq(C)
           turns == [n \in 1 .. l |-> [t \in D |-> t \o EscapeChar(s[n])]]
           Step(f) == [n \in 0 .. l |-> IF n = 0 THEN << >> ELSE f[n - 1] \o EscapeChar(s[n])]
<1>1. ASSUME NEW n \in 1 .. l PROVE EscapeChar(s[n]) \in D
  <2>1. s[n] \in C /\ Backslash \in C
    OBVIOUS
  <2>2. \A X : \A x, y \in X : <<x>> \in Seq(X) /\ <<y, x>> \in Seq(X)
    OBVIOUS
  <2>3. EscapeChar(s[n]) \in {<<s[n]>>, <<Backslash, s[n]>>}
    BY DEF EscapeChar, Backslash
  <2>4. QED BY <2>1, <2>2, <2>3
<1>2. ASSUME NEW n \in 1 .. l PROVE turns[n] \in [D -> D]
  <2>1. ASSUME NEW t \in D PROVE t \o EscapeChar(s[n]) \in D
    BY <1>1
  <2>2. QED BY <2>1
<1>3. << >> \in D
  OBVIOUS
<1> HIDE DEF D
<1>4. PICK g : Turns(D, << >>, l, turns, g)
  BY <1>2, <1>3, LoopEnds
<1>5. g \in [0 .. l -> D] /\ g[0] = << >> /\ \A n \in 1 .. l : g[n] = g[n - 1] \o EscapeChar(s[n])
  <2>1. g \in [0 .. l -> D] /\ g[0] = << >> /\ \A n \in 1 .. l : g[n] = turns[n][g[n - 1]]
    BY <1>4 DEF Turns
  <2>2. \A n \in 1 .. l : g[n - 1] \in D
    BY <2>1
  <2>3. QED BY <2>1, <2>2
<1>6. g = Step(g)
  <2>1. ASSUME NEW n \in 0 .. l PROVE g[n] = Step(g)[n]
    <3>1. n # 0 => n \in 1 .. l
      OBVIOUS
    <3>2. QED BY <1>5, <3>1
  <2>2. QED BY <1>5, <2>1
<1>7. PICK f : f = Escaped(s)
  OBVIOUS
<1>8. f = CHOOSE e : e = Step(e)
  BY <1>7 DEF Escaped
<1>9. f = Step(f)
  BY <1>6, <1>8
<1>10. /\ 0 \in 0 .. l /\ \A n \in 1 .. l : n \in 0 .. l /\ n # 0
       /\ f[0] = Step(f)[0] /\ \A n \in 1 .. l : f[n] = Step(f)[n]
  <2>1. 0 \in 0 .. l /\ \A n \in 1 .. l : n \in 0 .. l /\ n # 0
    OBVIOUS
  <2> HIDE DEF Step
  <2>2. f[0] = Step(f)[0] /\ \A n \in 1 .. l : f[n] = Step(f)[n]
    BY <1>9, Zenon
  <2>3. QED BY <2>1, <2>2
<1>11. f[0] = << >> /\ \A n \in 1 .. l : f[n] = f[n - 1] \o EscapeChar(s[n])
  BY <1>10, Zenon
<1> HIDE DEF Step
<1> DEFINE T == {n \in 0 .. l : f[n] \in D}
<1>12. 0 \in T
  BY <1>3, <1>11
<1>13. ASSUME NEW n \in 1 .. l, n - 1 \in T PROVE n \in T
  <2>1. f[n - 1] \o EscapeChar(s[n]) \in D
    BY <1>1, <1>13 DEF D
  <2>2. f[n] \in D
    BY <1>11, <2>1, Zenon
  <2>3. QED BY <2>2
<1> HIDE DEF T
<1>14. \A n \in 0 .. l : n \in T
  BY <1>12, <1>13, AllTheWhile
<1>15. \A n \in 0 .. l : f[n] \in D
  BY <1>14 DEF T
<1>16. Copies(C, s, l, f)
  BY <1>11, <1>15, Zenon DEF Copies, D
<1>17. QED BY <1>7, <1>16, Zenon

\* make_unescaped_string reads its text a character at a time.
Reads(C, s, l, u) == /\ \A n \in 0 .. l : u[n] \in [text : Seq(C), skip : BOOLEAN]
                     /\ u[0] = [text |-> << >>, skip |-> FALSE]
                     /\ \A n \in 1 .. l : u[n] = Unescape(u[n - 1], s[n])
LEMMA UnescapedIs ==
  ASSUME NEW C, NEW l \in Nat, NEW s, l = Len(s), \A n \in 1 .. l : s[n] \in C
  PROVE  Reads(C, s, l, Unescaped(s))
<1> DEFINE D == [text : Seq(C), skip : BOOLEAN]
           base == [text |-> << >>, skip |-> FALSE]
           turns == [n \in 1 .. l |-> [d \in D |-> Unescape(d, s[n])]]
           Step(f) == [n \in 0 .. l |-> IF n = 0 THEN base ELSE Unescape(f[n - 1], s[n])]
<1>1. ASSUME NEW d \in D, NEW c \in C PROVE Unescape(d, c) \in D
  <2>1. d.text \in Seq(C) /\ Append(d.text, c) \in Seq(C)
    OBVIOUS
  <2>2. Unescape(d, c) \in {[text |-> d.text, skip |-> TRUE],
                            [text |-> Append(d.text, c), skip |-> FALSE]}
    BY DEF Unescape
  <2>3. \A t \in Seq(C), b \in BOOLEAN : [text |-> t, skip |-> b] \in D
    OBVIOUS
  <2>4. TRUE \in BOOLEAN /\ FALSE \in BOOLEAN
    OBVIOUS
  <2> HIDE DEF D
  <2>5. [text |-> d.text, skip |-> TRUE] \in D /\ [text |-> Append(d.text, c), skip |-> FALSE] \in D
    BY <2>1, <2>3, <2>4, Zenon
  <2>6. QED BY <2>2, <2>5
<1>2. base \in D
  OBVIOUS
<1> HIDE DEF D
<1>3. ASSUME NEW n \in 1 .. l PROVE turns[n] \in [D -> D]
  BY <1>1
<1> HIDE DEF base
<1>4. PICK g : Turns(D, base, l, turns, g)
  BY <1>2, <1>3, LoopEnds
<1>5. g \in [0 .. l -> D] /\ g[0] = base /\ \A n \in 1 .. l : g[n] = Unescape(g[n - 1], s[n])
  <2>1. g \in [0 .. l -> D] /\ g[0] = base /\ \A n \in 1 .. l : g[n] = turns[n][g[n - 1]]
    BY <1>4 DEF Turns
  <2>2. \A n \in 1 .. l : g[n - 1] \in D
    BY <2>1
  <2>3. QED BY <2>1, <2>2
<1>6. g = Step(g)
  <2>1. ASSUME NEW n \in 0 .. l PROVE g[n] = Step(g)[n]
    <3>1. n # 0 => n \in 1 .. l
      OBVIOUS
    <3>2. QED BY <1>5, <3>1
  <2>2. QED BY <1>5, <2>1
<1>7. PICK f : f = Unescaped(s)
  OBVIOUS
<1>8. f = CHOOSE e : e = Step(e)
  BY <1>7 DEF Unescaped, base
<1>9. f = Step(f)
  BY <1>6, <1>8
<1>10. /\ 0 \in 0 .. l /\ \A n \in 1 .. l : n \in 0 .. l /\ n # 0
       /\ f[0] = Step(f)[0] /\ \A n \in 1 .. l : f[n] = Step(f)[n]
  <2>1. 0 \in 0 .. l /\ \A n \in 1 .. l : n \in 0 .. l /\ n # 0
    OBVIOUS
  <2> HIDE DEF Step
  <2>2. f[0] = Step(f)[0] /\ \A n \in 1 .. l : f[n] = Step(f)[n]
    BY <1>9, Zenon
  <2>3. QED BY <2>1, <2>2
<1>11. f[0] = base /\ \A n \in 1 .. l : f[n] = Unescape(f[n - 1], s[n])
  BY <1>10, Zenon
<1> HIDE DEF Step
<1> DEFINE T == {n \in 0 .. l : f[n] \in D}
<1>12. 0 \in T
  BY <1>2, <1>11
<1>13. ASSUME NEW n \in 1 .. l, n - 1 \in T PROVE n \in T
  <2>1. Unescape(f[n - 1], s[n]) \in D
    BY <1>1, <1>13
  <2>2. f[n] \in D
    BY <1>11, <2>1, Zenon
  <2>3. QED BY <2>2
<1> HIDE DEF T
<1>14. \A n \in 0 .. l : n \in T
  BY <1>12, <1>13, AllTheWhile
<1>15. \A n \in 0 .. l : f[n] \in D
  BY <1>14 DEF T
<1>16. Reads(C, s, l, f)
  BY <1>11, <1>15, Zenon DEF Reads, D, base
<1>17. QED BY <1>7, <1>16, Zenon

\* What it makes of a text has the bytes of the text only.
LEMMA UnescapedText ==
  ASSUME NEW C, NEW s \in Seq(C)
  PROVE  make_unescaped_string(s) \in Seq(C)
<1>1. PICK l \in Nat : l = Len(s) /\ \A n \in 1 .. l : s[n] \in C
  BY LenProperties, ElementOfSeq
<1>2. Reads(C, s, l, Unescaped(s))
  BY <1>1, UnescapedIs, Zenon
<1>3. l \in 0 .. l
  OBVIOUS
<1>4. Unescaped(s)[l] \in [text : Seq(C), skip : BOOLEAN]
  BY <1>2, <1>3, Zenon DEF Reads
<1>5. QED BY <1>1, <1>4 DEF make_unescaped_string

-----------------------------------------------------------------------------
(* Where the characters of a text stand in its escaped copy                *)

\* The n-th character of a stands at q[n] of p, behind a backslash if it is special
\* and behind the character before it if not; p has nothing else.
Laid(a, p, q) ==
  /\ q \in [0 .. Len(a) -> 0 .. Len(p)] /\ q[0] = 0 /\ q[Len(a)] = Len(p)
  /\ \A n \in 1 .. Len(a) : a[n] \in Special =>
       q[n] = q[n - 1] + 2 /\ p[q[n - 1] + 1] = Backslash /\ p[q[n - 1] + 2] = a[n]
  /\ \A n \in 1 .. Len(a) : a[n] \notin Special =>
       q[n] = q[n - 1] + 1 /\ p[q[n - 1] + 1] = a[n]

\* The text z begins with x, and is x with y behind it.
Begins(x, z) == Len(x) \in 0 .. Len(z) /\ \A k \in 1 .. Len(x) : z[k] = x[k]
Joined(x, y, z) == /\ Begins(x, z) /\ Len(z) = Len(x) + Len(y)
                   /\ \A k \in 1 .. Len(y) : z[Len(x) + k] = y[k]
LEMMA ConcatIs ==
  ASSUME NEW D, NEW x \in Seq(D), NEW y \in Seq(D)
  PROVE  Joined(x, y, x \o y)
<1>1. Len(x) \in Nat /\ Len(y) \in Nat /\ Len(x \o y) = Len(x) + Len(y)
  BY LenProperties
<1>2. \A k \in 1 .. Len(x) : (x \o y)[k] = x[k]
  BY <1>1
<1>3. \A k \in 1 .. Len(y) : (x \o y)[Len(x) + k] = y[k]
  BY <1>1
<1>4. QED BY <1>1, <1>2, <1>3 DEF Joined, Begins

\* What make_escaped_string has written it does not touch again.
Growing(D, e, l) == /\ \A n \in 0 .. l : e[n] \in Seq(D)
                    /\ \A n \in 1 .. l : \E c \in Seq(D) : e[n] = e[n - 1] \o c
LEMMA EscapedGrows ==
  ASSUME NEW D, NEW e, NEW l \in Nat, NEW m \in 0 .. l, Growing(D, e, l)
  PROVE  Begins(e[m], e[l])
<1> DEFINE T == {n \in 0 .. l : n >= m => Begins(e[m], e[n])}
<1>1. \A n \in 0 .. l : Len(e[n]) \in Nat
  BY LenProperties DEF Growing
<1>2. Begins(e[m], e[m])
  BY <1>1 DEF Begins
<1>3. ASSUME NEW n \in 1 .. l, Begins(e[m], e[n - 1]) PROVE Begins(e[m], e[n])
  <2>1. n - 1 \in 0 .. l /\ n \in 0 .. l
    OBVIOUS
  <2>2. PICK x \in Seq(D), y \in Seq(D) : x = e[n - 1] /\ e[n] = x \o y
    BY <2>1, Zenon DEF Growing
  <2>3. Joined(x, y, x \o y)
    BY ConcatIs, Zenon
  <2>4. Begins(e[m], x) /\ Begins(x, e[n])
    BY <1>3, <2>2, <2>3, Zenon DEF Joined
  <2>5. PICK s, t : s = e[m] /\ t = e[n]
    OBVIOUS
  <2>6. Len(x) \in Nat /\ Len(s) \in Nat /\ Len(t) \in Nat
    BY <1>1, <2>1, <2>2, <2>5
  <2>7. Begins(s, x) /\ Begins(x, t)
    BY <2>4, <2>5, Zenon
  <2>8. Begins(s, t)
    BY <2>6, <2>7 DEF Begins
  <2>9. QED BY <2>5, <2>8, Zenon
<1>4. 0 \in T
  BY <1>2
<1>5. ASSUME NEW n \in 1 .. l, n - 1 \in T PROVE n \in T
  <2>1. n = m \/ n < m \/ n - 1 >= m
    OBVIOUS
  <2>2. QED BY <1>2, <1>3, <1>5, <2>1
<1> HIDE DEF T
<1>6. l \in T
  BY <1>4, <1>5, AllTheWhile
<1>7. QED BY <1>6 DEF T

\* The copy make_escaped_string makes is laid out so.
LEMMA EscapedLaid ==
  ASSUME NEW D, Backslash \in D, NEW a \in Seq(D), NEW p, p = Escaped(a)[Len(a)]
  PROVE  p \in Seq(D) /\ \E q : Laid(a, p, q)
<1>1. PICK l \in Nat : l = Len(a) /\ \A n \in 1 .. l : a[n] \in D
  BY LenProperties, ElementOfSeq
<1>2. PICK e : /\ e = Escaped(a) /\ \A n \in 0 .. l : e[n] \in Seq(D)
               /\ e[0] = << >> /\ \A n \in 1 .. l : e[n] = e[n - 1] \o EscapeChar(a[n])
  <2>1. Copies(D, a, l, Escaped(a))
    BY <1>1, EscapedIs
  <2>2. QED BY <2>1, Zenon DEF Copies
<1>3. ASSUME NEW n \in 1 .. l
      PROVE  /\ EscapeChar(a[n]) \in Seq(D)
             /\ a[n] \in Special => EscapeChar(a[n]) = <<Backslash, a[n]>>
             /\ a[n] \notin Special => EscapeChar(a[n]) = <<a[n]>>
  <2>1. a[n] \in D /\ Backslash \in D
    BY <1>1
  <2>2. \A X : \A x, y \in X : <<x>> \in Seq(X) /\ <<y, x>> \in Seq(X)
    OBVIOUS
  <2>3. <<a[n]>> \in Seq(D) /\ <<Backslash, a[n]>> \in Seq(D)
    BY <2>1, <2>2, Zenon
  <2>4. a[n] \in Special => EscapeChar(a[n]) = <<Backslash, a[n]>>
    BY DEF EscapeChar, Backslash
  <2>5. a[n] \notin Special => EscapeChar(a[n]) = <<a[n]>>
    BY DEF EscapeChar
  <2>6. QED BY <2>3, <2>4, <2>5, Zenon
<1>4. Growing(D, e, l)
  BY <1>2, <1>3, Zenon DEF Growing
<1>5. ASSUME NEW n \in 0 .. l
      PROVE  Begins(e[n], p)
  <2>1. p = e[l]
    BY <1>1, <1>2, Zenon
  <2>2. Begins(e[n], e[l])
    BY <1>4, <1>5, EscapedGrows, Zenon
  <2>3. QED BY <2>1, <2>2, Zenon
<1> DEFINE q == [n \in 0 .. l |-> Len(e[n])]
<1>6. /\ q \in [0 .. l -> 0 .. Len(p)] /\ q[0] = 0 /\ q[l] = Len(p)
      /\ \A n \in 0 .. l : q[n] = Len(e[n])
  <2>1. Len(e[0]) = 0
    BY <1>2
  <2>2. Len(e[l]) = Len(p) /\ l \in 0 .. l /\ 0 \in 0 .. l
    BY <1>1, <1>2
  <2>3. QED BY <1>5, <2>1, <2>2 DEF Begins
<1>7. ASSUME NEW n \in 1 .. l
      PROVE  /\ a[n] \in Special =>
                  q[n] = q[n - 1] + 2 /\ p[q[n - 1] + 1] = Backslash /\ p[q[n - 1] + 2] = a[n]
             /\ a[n] \notin Special => q[n] = q[n - 1] + 1 /\ p[q[n - 1] + 1] = a[n]
  <2>1. n \in 0 .. l /\ n - 1 \in 0 .. l
    OBVIOUS
  <2>2. PICK x \in Seq(D), c \in Seq(D) :
               x = e[n - 1] /\ c = EscapeChar(a[n]) /\ e[n] = x \o c
    BY <1>2, <1>3, <2>1, Zenon
  <2>3. PICK i, j : i = Len(x) /\ j = Len(c)
    OBVIOUS
  <2>4. /\ i \in Nat /\ j \in Nat /\ Len(e[n]) = i + j
        /\ \A k \in 1 .. j : e[n][i + k] = c[k]
    <3>1. Len(x) \in Nat /\ Len(c) \in Nat
      BY LenProperties
    <3>2. Joined(x, c, x \o c)
      BY ConcatIs, Zenon
    <3>3. Joined(x, c, e[n])
      BY <2>2, <3>2, Zenon
    <3>4. QED BY <2>3, <3>1, <3>3 DEF Joined
  <2>5. \A k \in 1 .. i + j : p[k] = e[n][k]
    BY <1>5, <2>1, <2>4 DEF Begins
  <2>6. \A k \in 1 .. j : p[i + k] = c[k]
    BY <2>4, <2>5
  <2>7. q[n] = i + j /\ q[n - 1] = i
    BY <1>6, <2>1, <2>2, <2>4, <2>3, Zenon
  <2>8. CASE a[n] \in Special
    <3>1. c = <<Backslash, a[n]>>
      BY <1>3, <2>2, <2>8, Zenon
    <3>2. j = 2 /\ c[1] = Backslash /\ c[2] = a[n]
      BY <2>3, <3>1
    <3>3. 1 \in 1 .. j /\ 2 \in 1 .. j
      BY <3>2
    <3>4. QED BY <2>6, <2>7, <2>8, <3>2, <3>3, Zenon
  <2>9. CASE a[n] \notin Special
    <3>1. c = <<a[n]>>
      BY <1>3, <2>2, <2>9, Zenon
    <3>2. j = 1 /\ c[1] = a[n]
      BY <2>3, <3>1
    <3>3. 1 \in 1 .. j
      BY <3>2
    <3>4. QED BY <2>6, <2>7, <2>9, <3>2, <3>3, Zenon
  <2>10. QED BY <2>8, <2>9
<1> HIDE DEF q
<1>8. Laid(a, p, q)
  BY <1>1, <1>6, <1>7, Zenon DEF Laid
<1>9. p \in Seq(D)
  <2>1. l \in 0 .. l
    OBVIOUS
  <2>2. QED BY <1>1, <1>2, <2>1, Zenon
<1>10. QED BY <1>8, <1>9

-----------------------------------------------------------------------------
(* Runs of backslashes                                                     *)

\* The lengths of the runs that end before the n-th character of s.
Runs(s, n) == {k \in 0 .. n - 1 : \A m \in n - k .. n - 1 : s[m] = Backslash}

\* A backslash makes them longer, anything else ends them.
LEMMA RunsOn ==
  ASSUME NEW s, NEW n \in Nat \ {0}, NEW c \in Nat, Runs(s, n) = 0 .. c
  PROVE  /\ s[n] = Backslash => Runs(s, n + 1) = 0 .. c + 1
         /\ s[n] # Backslash => Runs(s, n + 1) = 0 .. 0
<1>1. ASSUME NEW k, k \in Runs(s, n + 1), k # 0
      PROVE  s[n] = Backslash /\ k - 1 \in Runs(s, n) /\ k \in Nat
  <2>1. k \in 1 .. n /\ \A m \in (n + 1) - k .. (n + 1) - 1 : s[m] = Backslash
    BY <1>1 DEF Runs
  <2>2. n \in (n + 1) - k .. (n + 1) - 1
    BY <2>1
  <2>3. \A m \in n - (k - 1) .. n - 1 : m \in (n + 1) - k .. (n + 1) - 1
    BY <2>1
  <2>4. k - 1 \in 0 .. n - 1
    BY <2>1
  <2>5. QED BY <2>1, <2>2, <2>3, <2>4 DEF Runs
<1>2. 0 \in Runs(s, n + 1)
  BY DEF Runs
<1>3. ASSUME s[n] = Backslash, NEW k \in Runs(s, n)
      PROVE  k + 1 \in Runs(s, n + 1)
  <2>1. k \in 0 .. n - 1 /\ \A m \in n - k .. n - 1 : s[m] = Backslash
    BY DEF Runs
  <2>2. \A m \in (n + 1) - (k + 1) .. (n + 1) - 1 : m \in n - k .. n - 1 \/ m = n
    BY <2>1
  <2>3. k + 1 \in 0 .. (n + 1) - 1
    BY <2>1
  <2>4. QED BY <1>3, <2>1, <2>2, <2>3 DEF Runs
<1>4. CASE s[n] = Backslash
  <2>1. ASSUME NEW k \in 0 .. c + 1 PROVE k \in Runs(s, n + 1)
    <3>1. k = 0 \/ (k - 1 \in 0 .. c /\ (k - 1) + 1 = k)
      OBVIOUS
    <3>2. QED BY <1>2, <1>3, <1>4, <3>1
  <2>2. ASSUME NEW k \in Runs(s, n + 1) PROVE k \in 0 .. c + 1
    <3>1. CASE k # 0
      <4>1. k \in Nat /\ k - 1 \in 0 .. c
        BY <1>1, <3>1
      <4>2. QED BY <3>1, <4>1
    <3>2. QED BY <3>1
  <2>3. QED BY <1>4, <2>1, <2>2
<1>5. CASE s[n] # Backslash
  <2>1. \A k \in Runs(s, n + 1) : k = 0
    BY <1>1, <1>5
  <2>2. 0 .. 0 = {0}
    OBVIOUS
  <2>3. QED BY <1>2, <1>5, <2>1, <2>2
<1>6. QED BY <1>4, <1>5

\* They are all lengths up to the longest, and a character is escaped when that is
\* odd.
LEMMA RunsAre ==
  ASSUME NEW s, NEW l \in Nat
  PROVE  \E c \in Nat : Runs(s, l + 1) = 0 .. c
<1> DEFINE T == {n \in 0 .. l : \E c \in Nat : Runs(s, n + 1) = 0 .. c}
<1>1. 0 \in T
  <2>1. Runs(s, 0 + 1) = 0 .. 0
    BY DEF Runs
  <2>2. QED BY <2>1
<1>2. ASSUME NEW n \in 1 .. l, n - 1 \in T PROVE n \in T
  <2>1. (n - 1) + 1 = n /\ n \in Nat \ {0}
    OBVIOUS
  <2>2. PICK c \in Nat : Runs(s, n) = 0 .. c
    BY <1>2, <2>1
  <2>3. Runs(s, n + 1) = 0 .. c + 1 \/ Runs(s, n + 1) = 0 .. 0
    BY <2>1, <2>2, RunsOn
  <2>4. c + 1 \in Nat /\ 0 \in Nat /\ n \in 0 .. l
    OBVIOUS
  <2>5. QED BY <2>3, <2>4, Zenon
<1> HIDE DEF T
<1>3. l \in T
  BY <1>1, <1>2, AllTheWhile
<1>4. QED BY <1>3 DEF T

LEMMA MaskedOdd ==
  ASSUME NEW s, NEW n \in Nat \ {0}, NEW c \in Nat, Runs(s, n) = 0 .. c
  PROVE  Masked(s, n) <=> c % 2 = 1
<1>1. Masked(s, n) <=> (Cardinality(Runs(s, n)) - 1) % 2 = 1
  BY DEF Masked, Runs, Backslash
<1>2. Cardinality(0 .. c) = c + 1
  <2>1. Cardinality(0 .. c) = c - 0 + 1
    BY FS_Interval
  <2>2. QED BY <2>1
<1>3. (c + 1) - 1 = c
  OBVIOUS
<1>4. QED BY <1>1, <1>2, <1>3

\* A backslash escapes what follows it, unless it is escaped itself.
LEMMA MaskedNext ==
  ASSUME NEW s, NEW n \in Nat \ {0}
  PROVE  /\ ~Masked(s, 1)
         /\ Masked(s, n + 1) <=> s[n] = Backslash /\ ~Masked(s, n)
<1>1. ~Masked(s, 1)
  <2>1. Runs(s, 1) = 0 .. 0
    BY DEF Runs
  <2>2. ~(0 % 2 = 1) /\ 0 \in Nat /\ 1 \in Nat \ {0}
    OBVIOUS
  <2>3. QED BY <2>1, <2>2, MaskedOdd, Zenon
<1>2. PICK c \in Nat : Runs(s, n) = 0 .. c
  <2>1. n - 1 \in Nat /\ (n - 1) + 1 = n
    OBVIOUS
  <2>2. QED BY <2>1, RunsAre
<1>3. Masked(s, n) <=> c % 2 = 1
  BY <1>2, MaskedOdd
<1>4. n + 1 \in Nat \ {0} /\ c + 1 \in Nat
  OBVIOUS
<1>5. CASE s[n] = Backslash
  <2>1. Runs(s, n + 1) = 0 .. c + 1
    BY <1>2, <1>5, RunsOn
  <2>2. Masked(s, n + 1) <=> (c + 1) % 2 = 1
    BY <1>4, <2>1, MaskedOdd
  <2>3. (c + 1) % 2 = 1 <=> ~(c % 2 = 1)
    OBVIOUS
  <2>4. QED BY <1>1, <1>3, <1>5, <2>2, <2>3
<1>6. CASE s[n] # Backslash
  <2>1. Runs(s, n + 1) = 0 .. 0
    BY <1>2, <1>6, RunsOn
  <2>2. Masked(s, n + 1) <=> 0 % 2 = 1
    <3>1. 0 \in Nat
      OBVIOUS
    <3>2. QED BY <1>4, <2>1, <3>1, MaskedOdd, Zenon
  <2>3. ~(0 % 2 = 1)
    OBVIOUS
  <2>4. QED BY <1>1, <1>6, <2>2, <2>3
<1>7. QED BY <1>5, <1>6

-----------------------------------------------------------------------------
(* An escaped copy in a response                                           *)

Framing == {"[", "]", "{", "}"}

\* In the copy every bracket and brace is escaped, if nothing before it escapes its
\* first character, and its last character escapes nothing.
Quiet(r, m, p, n) == /\ ~Masked(r, m + n + 1)
                     /\ \A k \in 1 .. n : p[k] \in Framing => Masked(r, m + k)
LEMMA CopyQuiet ==
  ASSUME NEW a, Len(a) \in Nat, NEW p, Len(p) \in Nat, NEW q, Laid(a, p, q),
         NEW r, NEW m \in Nat, \A k \in 1 .. Len(p) : r[m + k] = p[k],
         ~Masked(r, m + 1)
  PROVE  Quiet(r, m, p, Len(p))
<1>1. PICK l \in Nat, h \in Nat : l = Len(a) /\ h = Len(p)
  OBVIOUS
<1>2. /\ q[0] = 0 /\ q[l] = h /\ \A n \in 0 .. l : q[n] \in 0 .. h
      /\ \A n \in 1 .. l : a[n] \in Special =>
           q[n] = q[n - 1] + 2 /\ p[q[n - 1] + 1] = Backslash /\ p[q[n - 1] + 2] = a[n]
      /\ \A n \in 1 .. l : a[n] \notin Special => q[n] = q[n - 1] + 1 /\ p[q[n - 1] + 1] = a[n]
  BY <1>1 DEF Laid
<1> DEFINE T == {n \in 0 .. l : Quiet(r, m, p, q[n])}
<1>3. 0 \in T
  BY <1>2 DEF Quiet
<1>4. ASSUME NEW n \in 1 .. l, n - 1 \in T PROVE n \in T
  <2>1. PICK i : i = q[n - 1]
    OBVIOUS
  <2>2. Quiet(r, m, p, i) /\ i \in 0 .. h /\ q[n] \in 0 .. h
    BY <1>2, <1>4, <2>1
  <2>3. ~Masked(r, m + i + 1) /\ \A k \in 1 .. i : p[k] \in Framing => Masked(r, m + k)
    BY <2>2 DEF Quiet
  <2>4. /\ m + i + 1 \in Nat \ {0} /\ m + (i + 1) = m + i + 1
        /\ m + i + 2 \in Nat \ {0} /\ m + (i + 2) = m + i + 2 /\ (m + i + 1) + 1 = m + i + 2
        /\ (m + i + 2) + 1 = m + (i + 2) + 1 /\ m + (i + 1) + 1 = (m + i + 1) + 1
    BY <2>2
  <2>5. Masked(r, m + i + 2) <=> r[m + i + 1] = Backslash
    BY <2>3, <2>4, MaskedNext DEF Backslash
  <2>6. CASE a[n] \in Special
    <3>1. q[n] = i + 2 /\ p[i + 1] = Backslash /\ p[i + 2] = a[n]
      BY <1>2, <2>1, <2>6
    <3>2. i + 1 \in 1 .. h /\ i + 2 \in 1 .. h
      BY SMTT(20), <2>2, <3>1
    <3>3. r[m + i + 1] = Backslash
      BY <1>1, <2>4, <3>1, <3>2
    <3>4. Masked(r, m + i + 2)
      BY <2>5, <3>3
    <3>5. ~Masked(r, m + (i + 2) + 1)
      BY <2>4, <3>4, MaskedNext
    <3>6. Backslash \notin Framing
      BY DEF Backslash, Framing
    <3>7. \A k \in 1 .. i + 2 : k \in 1 .. i \/ k = i + 1 \/ k = i + 2
      BY <2>2
    <3>8. \A k \in 1 .. i + 2 : p[k] \in Framing => Masked(r, m + k)
      BY <2>3, <2>4, <3>1, <3>4, <3>6, <3>7
    <3>9. Quiet(r, m, p, q[n])
      BY <3>1, <3>5, <3>8 DEF Quiet
    <3>10. QED BY <3>9
  <2>7. CASE a[n] \notin Special
    <3>1. q[n] = i + 1 /\ p[i + 1] = a[n]
      BY <1>2, <2>1, <2>7
    <3>2. i + 1 \in 1 .. h
      BY <2>2, <3>1
    <3>3. r[m + i + 1] = a[n]
      BY <1>1, <2>4, <3>1, <3>2
    <3>4. a[n] # Backslash /\ a[n] \notin Framing
      BY <2>7 DEF Special, Backslash, Framing
    <3>5. ~Masked(r, m + (i + 1) + 1)
      BY <2>4, <2>5, <3>3, <3>4
    <3>6. \A k \in 1 .. i + 1 : k \in 1 .. i \/ k = i + 1
      BY <2>2
    <3>7. \A k \in 1 .. i + 1 : p[k] \in Framing => Masked(r, m + k)
      BY <2>3, <3>1, <3>4, <3>6
    <3>8. Quiet(r, m, p, q[n])
      BY <3>1, <3>5, <3>7 DEF Quiet
    <3>9. QED BY <3>8
  <2>8. QED BY <2>6, <2>7
<1> HIDE DEF T
<1>5. \A n \in 0 .. l : n \in T
  BY <1>3, <1>4, AllTheWhile, Zenon
<1>6. l \in T
  BY <1>5
<1>7. QED BY <1>1, <1>2, <1>6 DEF T

\* What make_raw_resp puts around a payload.
Framed(r, st, p) ==
  /\ Len(r) = Len(p) + 7
  /\ r[1] = "[" /\ r[2] = "{" /\ r[3] = st /\ r[4] = "}" /\ r[5] = "{"
  /\ \A k \in 1 .. Len(p) : r[5 + k] = p[k]
  /\ r[Len(p) + 6] = "}" /\ r[Len(p) + 7] = "]"
LEMMA RespFramed ==
  ASSUME NEW D, NEW p \in Seq(D), NEW st, NEW r,
         r = make_raw_resp([status |-> st, payload |-> p])
  PROVE  Framed(r, st, p) /\ \E E : r \in Seq(E)
<1>1. PICK E : D \subseteq E /\ st \in E /\ Framing \subseteq E
  <2> DEFINE E == D \cup {st} \cup Framing
  <2>1. D \subseteq E /\ st \in E /\ Framing \subseteq E
    OBVIOUS
  <2> HIDE DEF E
  <2>2. QED BY <2>1
<1>2. PICK x, y : x = <<"[", "{", st, "}", "{">> /\ y = <<"}", "]">>
  OBVIOUS
<1>3. /\ x \in Seq(E) /\ Len(x) = 5 /\ x[1] = "[" /\ x[2] = "{" /\ x[3] = st /\ x[4] = "}" /\ x[5] = "{"
      /\ y \in Seq(E) /\ Len(y) = 2 /\ y[1] = "}" /\ y[2] = "]"
  <2>1. "[" \in E /\ "]" \in E /\ "{" \in E /\ "}" \in E
    BY <1>1 DEF Framing
  <2>2. \A X : \A a, b, c, d \in X : <<a, b, c, d, b>> \in Seq(X) /\ <<d, a>> \in Seq(X)
    OBVIOUS
  <2>3. x \in Seq(E) /\ y \in Seq(E)
    BY <1>1, <1>2, <2>1, <2>2, Zenon
  <2>4. Len(x) = 5 /\ x[1] = "[" /\ x[2] = "{" /\ x[3] = st /\ x[4] = "}" /\ x[5] = "{"
    BY <1>2
  <2>5. Len(y) = 2 /\ y[1] = "}" /\ y[2] = "]"
    BY <1>2
  <2>6. QED BY <2>3, <2>4, <2>5
<1>4. p \in Seq(E)
  BY <1>1
<1>5. PICK z \in Seq(E) : z = x \o p
  <2>1. \A X : \A s, t \in Seq(X) : s \o t \in Seq(X)
    OBVIOUS
  <2>2. QED BY <1>3, <1>4, <2>1, Zenon
<1>6. r = z \o y /\ r \in Seq(E)
  <2>1. r = (x \o p) \o y
    BY <1>2 DEF make_raw_resp
  <2>2. z \o y \in Seq(E)
    <3>1. \A X : \A s, t \in Seq(X) : s \o t \in Seq(X)
      OBVIOUS
    <3>2. QED BY <1>3, <1>5, <3>1, Zenon
  <2>3. QED BY <1>5, <2>1, <2>2
<1>7. Joined(x, p, z) /\ Joined(z, y, r)
  <2>1. Joined(x, p, x \o p) /\ Joined(z, y, z \o y)
    BY <1>3, <1>4, <1>5, ConcatIs, Zenon
  <2>2. QED BY <1>5, <1>6, <2>1, Zenon
<1>8. PICK h \in Nat : h = Len(p)
  BY <1>4, LenProperties
<1>9. Len(z) = 5 + h /\ Len(r) = h + 7 /\ \A k \in 1 .. 5 : z[k] = x[k]
  <2>1. /\ Len(x) = 5 /\ Len(y) = 2 /\ Len(z) = Len(x) + Len(p) /\ Len(r) = Len(z) + Len(y)
        /\ Begins(x, z)
    BY <1>3, <1>7, Zenon DEF Joined
  <2>2. Len(z) = 5 + h
    BY <1>8, <2>1
  <2>3. Len(r) = h + 7
    BY <2>1, <2>2
  <2>4. \A k \in 1 .. 5 : z[k] = x[k]
    BY <2>1 DEF Begins
  <2>5. QED BY <2>2, <2>3, <2>4
<1>10. \A k \in 1 .. h : z[5 + k] = p[k]
  BY <1>3, <1>7, <1>8 DEF Joined
<1>11. \A k \in 1 .. 5 + h : r[k] = z[k]
  BY <1>7, <1>9 DEF Joined, Begins
<1>12. r[h + 6] = "}" /\ r[h + 7] = "]"
  <2>1. \A k \in 1 .. 2 : r[5 + h + k] = y[k]
    BY <1>3, <1>7, <1>9 DEF Joined
  <2>2. 5 + h + 1 = h + 6 /\ 5 + h + 2 = h + 7 /\ 1 \in 1 .. 2 /\ 2 \in 1 .. 2
    OBVIOUS
  <2>3. QED BY <1>3, <2>1, <2>2
<1>13. /\ \A k \in 1 .. 5 : k \in 1 .. 5 + h
       /\ \A k \in 1 .. h : 5 + k \in 1 .. 5 + h
       /\ 1 \in 1 .. 5 /\ 2 \in 1 .. 5 /\ 3 \in 1 .. 5 /\ 4 \in 1 .. 5 /\ 5 \in 1 .. 5
  OBVIOUS
<1>14. r[1] = "[" /\ r[2] = "{" /\ r[3] = st /\ r[4] = "}" /\ r[5] = "{"
  BY <1>3, <1>9, <1>11, <1>13
<1>15. \A k \in 1 .. h : r[5 + k] = p[k]
  BY <1>10, <1>11, <1>13
<1>16. Framed(r, st, p)
  BY <1>8, <1>9, <1>12, <1>14, <1>15 DEF Framed
<1>17. QED BY <1>6, <1>16

\* A text up to a character is the text up to the one before, and that character.
LEMMA SubSeqGrows ==
  ASSUME NEW D, NEW a \in Seq(D), NEW n \in 1 .. Len(a)
  PROVE  Append(SubSeq(a, 1, n - 1), a[n]) = SubSeq(a, 1, n)
<1>1. Len(a) \in Nat /\ n \in Nat /\ n - 1 \in Nat /\ \A k \in 1 .. Len(a) : a[k] \in D
  BY LenProperties, ElementOfSeq
<1>2. PICK s : s = SubSeq(a, 1, n - 1)
  OBVIOUS
<1>3. s \in Seq(D) /\ Len(s) = n - 1 /\ \A k \in 1 .. n - 1 : s[k] = a[k]
  BY <1>1, <1>2
<1>4. PICK t : t = SubSeq(a, 1, n)
  OBVIOUS
<1>5. t \in Seq(D) /\ Len(t) = n /\ \A k \in 1 .. n : t[k] = a[k]
  BY <1>1, <1>4
<1>6. PICK v : v = Append(s, a[n])
  OBVIOUS
<1>7. v \in Seq(D) /\ Len(v) = n /\ \A k \in 1 .. n : v[k] = a[k]
  <2>1. v \in Seq(D) /\ Len(v) = n
    BY <1>1, <1>3, <1>6
  <2>2. (\A k \in 1 .. n - 1 : v[k] = s[k]) /\ v[n] = a[n]
    BY <1>1, <1>3, <1>6
  <2>3. \A k \in 1 .. n : k \in 1 .. n - 1 \/ k = n
    OBVIOUS
  <2>4. QED BY <1>3, <2>1, <2>2, <2>3
<1>8. v = t
  BY <1>5, <1>7
<1>9. QED BY <1>2, <1>4, <1>6, <1>8

\* What make_unescaped_string reads of the copy is the text.
LEMMA CopyUnescaped ==
  ASSUME NEW D, NEW a \in Seq(D), NEW p \in Seq(D), NEW q, Laid(a, p, q)
  PROVE  make_unescaped_string(p) = a
<1>1. PICK l \in Nat, h \in Nat : l = Len(a) /\ h = Len(p)
  BY LenProperties
<1>2. /\ q[0] = 0 /\ q[l] = h /\ \A n \in 0 .. l : q[n] \in 0 .. h
      /\ \A n \in 1 .. l : a[n] \in Special =>
           q[n] = q[n - 1] + 2 /\ p[q[n - 1] + 1] = Backslash /\ p[q[n - 1] + 2] = a[n]
      /\ \A n \in 1 .. l : a[n] \notin Special => q[n] = q[n - 1] + 1 /\ p[q[n - 1] + 1] = a[n]
  BY <1>1 DEF Laid
<1>3. PICK u : /\ u = Unescaped(p) /\ u[0] = [text |-> << >>, skip |-> FALSE]
               /\ \A k \in 1 .. h : u[k] = Unescape(u[k - 1], p[k])
  <2>1. \A k \in 1 .. h : p[k] \in D
    BY <1>1, ElementOfSeq
  <2>2. Reads(D, p, h, Unescaped(p))
    BY <1>1, <2>1, UnescapedIs, Zenon
  <2>3. QED BY <2>2, Zenon DEF Reads
<1>4. /\ \A t : Unescape([text |-> t, skip |-> FALSE], Backslash) = [text |-> t, skip |-> TRUE]
      /\ \A t, c : c # Backslash =>
           Unescape([text |-> t, skip |-> FALSE], c) = [text |-> Append(t, c), skip |-> FALSE]
      /\ \A t, c : Unescape([text |-> t, skip |-> TRUE], c) = [text |-> Append(t, c), skip |-> FALSE]
  BY DEF Unescape, Backslash
<1>5. ASSUME NEW n \in 1 .. l
      PROVE  Append(SubSeq(a, 1, n - 1), a[n]) = SubSeq(a, 1, n)
  BY <1>1, SubSeqGrows
<1> DEFINE Read(n) == [text |-> SubSeq(a, 1, n), skip |-> FALSE]
           T == {n \in 0 .. l : u[q[n]] = Read(n)}
<1>6. 0 \in T
  <2>1. SubSeq(a, 1, 0) = << >>
    OBVIOUS
  <2>2. u[q[0]] = Read(0)
    BY <1>2, <1>3, <2>1, Zenon
  <2>3. QED BY <2>2
<1>7. ASSUME NEW n \in 1 .. l, n - 1 \in T PROVE n \in T
  <2>1. PICK i, t : i = q[n - 1] /\ t = SubSeq(a, 1, n - 1)
    OBVIOUS
  <2>2. u[i] = [text |-> t, skip |-> FALSE] /\ i \in 0 .. h /\ q[n] \in 0 .. h
    BY <1>2, <1>7, <2>1
  <2>3. Read(n) = [text |-> Append(t, a[n]), skip |-> FALSE]
    BY <1>5, <2>1
  <2> HIDE DEF Read
  <2>4. CASE a[n] \in Special
    <3>1. q[n] = i + 2 /\ p[i + 1] = Backslash /\ p[i + 2] = a[n]
      BY <1>2, <2>1, <2>4
    <3>2. i + 1 \in 1 .. h /\ i + 2 \in 1 .. h /\ (i + 1) - 1 = i /\ (i + 2) - 1 = i + 1
      BY <2>2, <3>1
    <3>3. u[i + 1] = Unescape(u[i], p[i + 1]) /\ u[i + 2] = Unescape(u[i + 1], p[i + 2])
      BY <1>3, <3>2
    <3>4. u[i + 1] = [text |-> t, skip |-> TRUE]
      BY <1>4, <2>2, <3>1, <3>3, Zenon
    <3>5. Unescape([text |-> t, skip |-> TRUE], a[n]) = [text |-> Append(t, a[n]), skip |-> FALSE]
      BY <1>4, Zenon
    <3>6. p[i + 2] = a[n] /\ u[i + 2] = Unescape(u[i + 1], p[i + 2])
      BY <3>1, <3>3, Zenon
    <3>7. u[i + 2] = [text |-> Append(t, a[n]), skip |-> FALSE]
      BY <3>4, <3>5, <3>6, Zenon
    <3>8. u[q[n]] = Read(n)
      BY <2>3, <3>1, <3>7, Zenon
    <3>9. QED BY <3>8
  <2>5. CASE a[n] \notin Special
    <3>1. q[n] = i + 1 /\ p[i + 1] = a[n]
      BY <1>2, <2>1, <2>5
    <3>2. i + 1 \in 1 .. h /\ (i + 1) - 1 = i
      BY <2>2, <3>1
    <3>3. u[i + 1] = Unescape(u[i], p[i + 1])
      BY <1>3, <3>2
    <3>4. a[n] # Backslash
      BY <2>5 DEF Special, Backslash
    <3>5. u[i + 1] = [text |-> Append(t, a[n]), skip |-> FALSE]
      BY <1>4, <2>2, <3>1, <3>3, <3>4, Zenon
    <3>6. u[q[n]] = Read(n)
      BY <2>3, <3>1, <3>5, Zenon
    <3>7. QED BY <3>6
  <2>6. QED BY <2>4, <2>5
<1> HIDE DEF T, Read
<1>8. \A n \in 0 .. l : n \in T
  BY <1>6, <1>7, AllTheWhile, Zenon
<1>9. u[h] = Read(l)
  <2>1. l \in T
    BY <1>8
  <2>2. QED BY <1>2, <2>1 DEF T
<1>10. SubSeq(a, 1, l) = a
  BY <1>1
<1>11. u[h].text = a
  BY <1>9, <1>10 DEF Read
<1>12. QED BY <1>1, <1>3, <1>11, Zenon DEF make_unescaped_string

\* The payload is cut out again between its braces.
LEMMA FramedPayload ==
  ASSUME NEW r, NEW st, NEW p, Framed(r, st, p), NEW F, r \in Seq(F), p \in Seq(F)
  PROVE  Between(r, 5, Len(p) + 6) = p
<1>1. PICK h \in Nat : h = Len(p)
  BY LenProperties
<1>2. Len(r) = h + 7 /\ \A k \in 1 .. h : r[5 + k] = p[k]
  BY <1>1 DEF Framed
<1>3. /\ 5 + 1 = 6 /\ (h + 6) - 1 = h + 5 /\ 6 \in Int /\ h + 5 \in Int
      /\ (h + 5) - 6 + 1 = h /\ \A k \in 1 .. h : 6 + k - 1 = 5 + k
  OBVIOUS
<1>4. PICK b : b = Between(r, 5, h + 6) /\ b = SubSeq(r, 6, h + 5)
  BY <1>3 DEF Between
<1>5. b \in Seq(F) /\ Len(b) = h /\ \A k \in 1 .. h : b[k] = r[5 + k]
  <2>1. \A i \in 6 .. h + 5 : r[i] \in F
    <3>1. \A i \in 6 .. h + 5 : i \in 1 .. Len(r)
      BY <1>2
    <3>2. QED BY <3>1, ElementOfSeq
  <2>2. /\ SubSeq(r, 6, h + 5) \in Seq(F)
        /\ Len(SubSeq(r, 6, h + 5)) = IF 6 <= h + 5 THEN (h + 5) - 6 + 1 ELSE 0
        /\ \A k \in 1 .. (h + 5) - 6 + 1 : SubSeq(r, 6, h + 5)[k] = r[6 + k - 1]
    BY <1>3, <2>1, SubSeqProperties
  <2>3. h = 0 \/ 6 <= h + 5
    OBVIOUS
  <2>4. QED BY <1>3, <1>4, <2>2, <2>3
<1>6. Len(b) = Len(p) /\ \A k \in 1 .. Len(b) : b[k] = p[k]
  BY <1>1, <1>2, <1>5
<1>7. b = p
  BY <1>5, <1>6
<1>8. QED BY <1>1, <1>4, <1>7

\* The client can read what make_resp and make_raw_resp make of any text.
LEMMA EscapedReads ==
  ASSUME NEW D, NEW a \in Seq(D), NEW st, st \notin Framing, st # Backslash, NEW r,
         r = make_raw_resp([status |-> st, payload |-> make_escaped_string(a, << >>)])
  PROVE  /\ Unmasked(r, {"[", "]"}) = {1, Len(r)}
         /\ Unmasked(r, {"{", "}"}) = {2, 4, 5, Len(r) - 1}
         /\ make_unescaped_string(Between(r, 5, Len(r) - 1)) = a
<1>1. PICK E : D \subseteq E /\ Backslash \in E
  <2>1. D \subseteq D \cup {Backslash} /\ Backslash \in D \cup {Backslash}
    OBVIOUS
  <2>2. QED BY <2>1
<1>2. a \in Seq(E)
  BY <1>1
<1>3. PICK p : p = Escaped(a)[Len(a)]
  OBVIOUS
<1>4. p \in Seq(E) /\ \E q : Laid(a, p, q)
  BY <1>1, <1>2, <1>3, EscapedLaid, Zenon
<1>5. PICK q : Laid(a, p, q)
  BY <1>4
<1>6. make_escaped_string(a, << >>) = p
  BY <1>3, <1>4 DEF make_escaped_string
<1>7. Framed(r, st, p) /\ \E F : r \in Seq(F)
  BY <1>4, <1>6, RespFramed
<1>8. PICK h \in Nat : h = Len(p) /\ DOMAIN p = 1 .. h
  BY <1>4, LenProperties
<1>9. Len(r) = h + 7
  BY <1>7, <1>8 DEF Framed
<1>10. /\ Len(r) = h + 7 /\ DOMAIN r = 1 .. h + 7
       /\ r[1] = "[" /\ r[2] = "{" /\ r[3] = st /\ r[4] = "}" /\ r[5] = "{"
       /\ r[h + 6] = "}" /\ r[h + 7] = "]"
       /\ \A k \in 1 .. h : r[5 + k] = p[k]
  <2>1. Len(r) = h + 7
    BY <1>7, <1>8 DEF Framed
  <2>2. DOMAIN r = 1 .. h + 7
    BY <1>7, <2>1, LenProperties
  <2>3. QED BY <1>7, <1>8, <2>1, <2>2 DEF Framed
<1>11. ~Masked(r, 1) /\ ~Masked(r, 2) /\ ~Masked(r, 3) /\ ~Masked(r, 4) /\ ~Masked(r, 5) /\ ~Masked(r, 6)
  <2>1. r[1] # "\\" /\ r[2] # "\\" /\ r[3] # "\\" /\ r[4] # "\\" /\ r[5] # "\\"
    BY <1>10 DEF Backslash
  <2>2. ASSUME NEW n \in 1 .. 5, r[n] # "\\" PROVE ~Masked(r, n + 1)
    <3>1. n \in Nat \ {0}
      OBVIOUS
    <3>2. QED BY <2>2, <3>1, MaskedNext DEF Backslash
  <2>3. ~Masked(r, 1)
    BY MaskedNext
  <2>4. QED BY <2>1, <2>2, <2>3
<1>12. Quiet(r, 5, p, h)
  <2>1. Len(a) \in Nat /\ Len(p) \in Nat /\ 5 \in Nat
    BY <1>8
  <2>2. \A k \in 1 .. Len(p) : r[5 + k] = p[k]
    BY <1>8, <1>10
  <2>3. ~Masked(r, 5 + 1)
    BY <1>11
  <2>4. QED BY <1>5, <1>8, <2>1, <2>2, <2>3, CopyQuiet
<1>13. /\ ~Masked(r, h + 6) /\ \A k \in 1 .. h : p[k] \in Framing => Masked(r, 5 + k)
       /\ ~Masked(r, h + 7)
  <2>1. ~Masked(r, h + 6) /\ \A k \in 1 .. h : p[k] \in Framing => Masked(r, 5 + k)
    BY <1>12 DEF Quiet
  <2>2. r[h + 6] # "\\"
    BY <1>10
  <2>3. r[h + 6] # "\\" /\ h + 6 \in Nat \ {0} /\ (h + 6) + 1 = h + 7
    BY <2>2
  <2>4. QED BY <2>1, <2>3, MaskedNext DEF Backslash
<1>14. ASSUME NEW n \in 1 .. h + 7, r[n] \in Framing, ~Masked(r, n)
       PROVE  n \in {1, 2, 4, 5, h + 6, h + 7}
  <2>1. n \in 1 .. 5 \/ (n - 5 \in 1 .. h /\ n = 5 + (n - 5)) \/ n = h + 6 \/ n = h + 7
    OBVIOUS
  <2>2. ~(n - 5 \in 1 .. h /\ n = 5 + (n - 5))
    BY <1>10, <1>13, <1>14
  <2>3. n # 3
    BY <1>10, <1>14
  <2>4. QED BY <2>1, <2>2, <2>3
<1>15. Unmasked(r, {"[", "]"}) = {1, h + 7}
  <2>1. ASSUME NEW n \in Unmasked(r, {"[", "]"}) PROVE n \in {1, h + 7}
    <3>1. n \in 1 .. h + 7 /\ r[n] \in {"[", "]"} /\ ~Masked(r, n)
      BY <1>10, <2>1 DEF Unmasked
    <3>2. n \in {1, 2, 4, 5, h + 6, h + 7}
      BY <1>14, <3>1 DEF Framing
    <3>3. QED BY <1>10, <3>1, <3>2
  <2>2. 1 \in 1 .. h + 7 /\ h + 7 \in 1 .. h + 7
    OBVIOUS
  <2>3. 1 \in Unmasked(r, {"[", "]"}) /\ h + 7 \in Unmasked(r, {"[", "]"})
    BY <1>10, <1>11, <1>13, <2>2 DEF Unmasked
  <2>4. QED BY <2>1, <2>3
<1>16. Unmasked(r, {"{", "}"}) = {2, 4, 5, h + 6}
  <2>1. ASSUME NEW n \in Unmasked(r, {"{", "}"}) PROVE n \in {2, 4, 5, h + 6}
    <3>1. n \in 1 .. h + 7 /\ r[n] \in {"{", "}"} /\ ~Masked(r, n)
      BY <1>10, <2>1 DEF Unmasked
    <3>2. n \in {1, 2, 4, 5, h + 6, h + 7}
      BY <1>14, <3>1 DEF Framing
    <3>3. QED BY <1>10, <3>1, <3>2
  <2>2. 2 \in 1 .. h + 7 /\ 4 \in 1 .. h + 7 /\ 5 \in 1 .. h + 7 /\ h + 6 \in 1 .. h + 7
    OBVIOUS
  <2>3. /\ 2 \in Unmasked(r, {"{", "}"}) /\ 4 \in Unmasked(r, {"{", "}"})
        /\ 5 \in Unmasked(r, {"{", "}"}) /\ h + 6 \in Unmasked(r, {"{", "}"})
    BY <1>10, <1>11, <1>13, <2>2 DEF Unmasked
  <2>4. QED BY <2>1, <2>3
<1>17. Between(r, 5, h + 6) = p
  <2>1. PICK F : r \in Seq(F) /\ p \in Seq(F)
    <3>1. PICK F : r \in Seq(F)
      BY <1>7
    <3>2. r \in Seq(F \cup E) /\ p \in Seq(F \cup E)
      BY <1>4, <3>1
    <3>3. QED BY <3>2
  <2>2. Framed(r, st, p)
    BY <1>7
  <2>3. Between(r, 5, Len(p) + 6) = p
    BY <2>1, <2>2, FramedPayload, Zenon
  <2>4. QED BY <1>8, <2>3
<1>18. make_unescaped_string(p) = a
  BY <1>2, <1>4, <1>5, CopyUnescaped, Zenon
<1>19. Len(r) = h + 7 /\ Len(r) - 1 = h + 6
  BY <1>9
<1>20. Between(r, 5, Len(r) - 1) = p
  BY <1>17, <1>19, Zenon
<1>21. QED BY <1>15, <1>16, <1>18, <1>19, <1>20, Zenon

-----------------------------------------------------------------------------
(* The inductive invariant of an exchange                                  *)

\* The response make_resp makes of an answer.
Made200(ans, bh) == [status |-> "200", payload |-> make_escaped_string(ans, bh)]

\* A response is made of a text of bytes, and what is sent is made of that response.
ResponseSound ==
  /\ turn \in {"idle", "made"} => reply = << >>
  /\ turn = "made" => answer \in Seq(Bytes) /\ resp = Made200(answer, behind)
  /\ reply # << >> => answer \in Seq(Bytes) /\ reply = make_raw_resp(Made200(answer, behind))

ExchangeIInv == IInv /\ ResponseSound

\* In an exchange make_req does what it does alone.
LEMMA ExchangeStep == [ExchangeNext]_conversation => [MakeReq]_vars
BY DEF ExchangeNext, Respond, MakeResp, MakeRespFails, SendResp, SendRespFails, conversation

\* What the server answers with is a text of bytes.
LEMMA AnswersAre ==
  ASSUME IInv, pc = "accepted", NEW ans \in Answers
  PROVE  ans \in Seq(Bytes)
<1>1. raw \in Seq(Bytes)
  <2>1. raw \in Raws
    BY DEF IInv, Shape, TextSound
  <2>2. raw \in Seq(Chars)
    BY <2>1, RawIs
  <2>3. Chars \subseteq Bytes
    BY DEF Bytes
  <2>4. \A X, Y : X \subseteq Y /\ raw \in Seq(X) => raw \in Seq(Y)
    OBVIOUS
  <2>5. QED BY <2>2, <2>3, <2>4, Zenon
<1>2. req.payload \in Seq(Bytes)
  <2>1. req.payload = StringAt(sections[3])
    BY DEF IInv, Kept, Payload
  <2>2. Len(sections) = 3 /\ sections[3] # NULL
    BY DEF IInv, Shape, PairsSound, Present
  <2>3. /\ page \in Seq(Bytes) /\ (page # << >> => page[Len(page)] = NUL)
        /\ sections \in Seq(0 .. Len(page) - 1 \cup {NULL})
    BY DEF IInv, Shape, TextSound
  <2>4. sections[3] \in 0 .. Len(page) - 1
    <3>1. \A X : sections \in Seq(X) /\ Len(sections) = 3 => sections[3] \in X
      OBVIOUS
    <3>2. sections[3] \in 0 .. Len(page) - 1 \cup {NULL}
      BY <2>2, <2>3, <3>1, Zenon
    <3>3. QED BY <2>2, <3>2
  <2>5. QED BY <2>1, <2>3, <2>4, StringAtIs
<1>3. make_unescaped_string(req.payload) \in Seq(Bytes)
  BY <1>2, UnescapedText
<1>4. QED BY <1>1, <1>2, <1>3, Zenon DEF Answers

\* The invariant holds in the beginning, and every step keeps it.
LEMMA InitExchange == ExchangeInit => ExchangeIInv
BY InitIInv DEF ExchangeInit, ExchangeIInv, ResponseSound

LEMMA NextExchange ==
  ASSUME ExchangeIInv, [ExchangeNext]_conversation
  PROVE  ExchangeIInv'
<1>1. IInv'
  BY ExchangeStep, NextIInv, StutterIInv DEF ExchangeIInv
<1>2. CASE MakeResp
  <2>1. answer' \in Seq(Bytes)
    BY <1>2, AnswersAre DEF ExchangeIInv, MakeResp
  <2>2. turn' = "made" /\ reply' = reply /\ reply = << >>
    BY <1>2 DEF ExchangeIInv, ResponseSound, MakeResp
  <2>3. resp' = Made200(answer', behind')
    BY <1>2 DEF MakeResp, Made200
  <2>4. QED BY <1>1, <2>1, <2>2, <2>3 DEF ExchangeIInv, ResponseSound
<1>3. CASE SendResp
  <2>1. turn = "made" /\ turn' = "over" /\ reply' = make_raw_resp(resp) /\ answer' = answer /\ behind' = behind
    BY <1>3 DEF SendResp
  <2>2. answer \in Seq(Bytes) /\ resp = Made200(answer, behind)
    BY <2>1 DEF ExchangeIInv, ResponseSound
  <2>3. reply' = make_raw_resp(Made200(answer', behind'))
    BY <2>1, <2>2
  <2>4. QED BY <1>1, <2>1, <2>2, <2>3 DEF ExchangeIInv, ResponseSound
<1>4. CASE MakeRespFails \/ SendRespFails
  <2>1. turn' = "over" /\ UNCHANGED <<answer, behind, reply>>
    BY <1>4 DEF MakeRespFails, SendRespFails
  <2>2. QED BY <1>1, <2>1 DEF ExchangeIInv, ResponseSound, Made200
<1>5. CASE (MakeReq /\ UNCHANGED response) \/ UNCHANGED conversation
  <2>1. UNCHANGED <<turn, answer, behind, resp, reply>>
    BY <1>5 DEF response, conversation
  <2>2. QED BY <1>1, <2>1 DEF ExchangeIInv, ResponseSound, Made200
<1>6. QED BY <1>2, <1>3, <1>4, <1>5 DEF ExchangeNext, Respond

LEMMA ExchangeInvariance == ExchangeSpec => []ExchangeIInv
<1>1. ExchangeIInv /\ [ExchangeNext]_conversation => ExchangeIInv'
  BY NextExchange
<1>2. QED BY InitExchange, <1>1, PTL DEF ExchangeSpec

-----------------------------------------------------------------------------
(* The theorems                                                            *)

\* Whatever text make_resp is given, the client can read the response that
\* send_resp makes of it: escaping hides every bracket and brace of the text,
\* and undoing it gives back the text, backslashes included.
THEOREM RepliesReadable == ExchangeSpec => []ReplyReadable
<1>1. ASSUME ExchangeIInv, reply # << >>, behind = << >>
      PROVE  /\ Unmasked(reply, {"[", "]"}) = {1, Len(reply)}
             /\ Unmasked(reply, {"{", "}"}) = {2, 4, 5, Len(reply) - 1}
             /\ make_unescaped_string(Between(reply, 5, Len(reply) - 1)) = answer
  <2>1. /\ answer \in Seq(Bytes)
        /\ reply = make_raw_resp([status |-> "200", payload |-> make_escaped_string(answer, << >>)])
    BY <1>1 DEF ExchangeIInv, ResponseSound, Made200
  <2>2. "200" \notin Framing /\ "200" # Backslash
    BY DEF Framing, Backslash
  <2>3. QED BY <2>1, <2>2, EscapedReads
<1>2. ExchangeIInv => ReplyReadable
  BY <1>1 DEF ReplyReadable
<1>3. QED BY <1>2, ExchangeInvariance, PTL

\* An exchange is a run of make_req, and steps that change nothing of it.
THEOREM ExchangeImplementsRequest == ExchangeSpec => Spec
<1>1. ExchangeInit => Init
  BY DEF ExchangeInit
<1>2. QED BY <1>1, ExchangeStep, PTL DEF ExchangeSpec, Spec

\* Making a response harms no promise of make_req: the request the response quotes
\* was parsed as described, and stays what it is.
THEOREM RequestKept ==
  ExchangeSpec => [](TypeOK /\ FormedAccepted /\ SectionsInOrder /\ ParamsExact /\ AllReleased)
BY ExchangeImplementsRequest, RequestTypeCorrect, WellFormedAccepted, AcceptedInOrder,
   ParamsAsDescribed, NothingLeaked, PTL
=============================================================================
