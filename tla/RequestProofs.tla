--------------------------- MODULE RequestProofs ---------------------------
(***************************************************************************)
(* What TLAPS proves of Request, for any texts and any alignment: its type *)
(* invariant, all that it promises of a request it accepts or refuses, and *)
(* that each of its steps takes it closer to its end.                      *)
(***************************************************************************)
EXTENDS Request, SequenceTheorems, FunctionTheorems, FiniteSetTheorems, TLAPS

-----------------------------------------------------------------------------
(* The inductive invariant: what there is at each point of make_req        *)

\* What is allocated.  A process that aborts keeps it all.
Holding ==
  /\ pc \in Points /\ live \subseteq Things
  /\ pc \in {"allocate", "refused"} => live = {}
  /\ pc \in {"check", "refuse"} => live = AllocateThings
  /\ pc = "sections" => live = AllocateThings \cup {"func_arena"}
  /\ pc = "pairs" => live = RequestThings \cup {"func_arena", "copy"}
  /\ pc = "finish" => live = RequestThings \cup {"func_arena"}
  /\ pc = "accepted" => live = RequestThings

\* The characters of texts, and those of the page.
CharsOf(r) == {r[n] : n \in DOMAIN r} \ {NUL}
Chars == UNION {CharsOf(r) : r \in Raws}
Bytes == Chars \cup {NUL}

\* What make_req has of the text: the page ends with a zero, every section lies in
\* it, and there are at most three.
TextSound ==
  /\ raw \in Raws
  /\ cursor \in 1 .. Len(raw)
  /\ page \in Seq(Bytes) /\ (page # << >> => page[Len(page)] = NUL)
  /\ used \in 0 .. Len(page)
  /\ sections \in Seq(0 .. Len(page) - 1 \cup {NULL}) /\ Len(sections) <= 3

\* Behind the sections all of them are there; the loop over the pairs, and only
\* it, has a next pair, which is in the parameters or right behind them.
Present(i) == i \in DOMAIN sections /\ sections[i] # NULL
PairsSound ==
  /\ pc \in {"pairs", "finish", "accepted"} => Len(sections) = 3 /\ \A i \in 1 .. 3 : Present(i)
  /\ next_pair # NULL => pc = "pairs" /\ next_pair \in 1 .. Len(Parameters) + 1

\* A list of parameters whose nodes are linked in the order of their creation.
Nodes == [name : Seq(Bytes), value : Seq(Bytes), next : Int, prev : Int]
InOrder(list) ==
  /\ list \in Seq(Nodes)
  /\ \A k \in 1 .. Len(list) :
       /\ list[k].next = IF k = Len(list) THEN NULL ELSE k + 1
       /\ list[k].prev = IF k = 1 THEN Len(list) ELSE k - 1

\* The request's type is one of the six, and the histories are what they are.
RequestSound ==
  /\ req = [request_type |-> req.request_type, payload |-> req.payload]
  /\ req.request_type \in {UNKNOWN} \cup 0 .. 4
  /\ oom \in BOOLEAN /\ strayed \in BOOLEAN

-----------------------------------------------------------------------------
(* Texts                                                                   *)

\* A text recv_req returns: not empty, no zero inside, a bracket at its end.
LEMMA RawIs ==
  ASSUME raw \in Raws
  PROVE  /\ raw \in Seq(Chars) /\ Len(raw) \in Nat \ {0} /\ DOMAIN raw = 1 .. Len(raw)
         /\ raw[Len(raw)] = "]" /\ NUL \notin Chars
<1>1. raw \in Seq(CharsOf(raw)) /\ raw # << >> /\ raw[Len(raw)] = "]"
  BY RequestAssumption DEF CharsOf
<1>2. CharsOf(raw) \subseteq Chars
  BY DEF Chars
<1>3. \A X : X \subseteq Chars /\ raw \in Seq(X) => raw \in Seq(Chars)
  OBVIOUS
<1>4. raw \in Seq(Chars)
  BY <1>1, <1>2, <1>3
<1>5. NUL \notin Chars
  BY DEF Chars, CharsOf
<1>6. QED BY <1>1, <1>4, <1>5

\* A set of numbers has a least.
LEMMA LeastIs ==
  ASSUME NEW S \in SUBSET Nat, NEW m \in S
  PROVE  Least(S) \in S /\ \A n \in S : Least(S) <= n
<1>1. \E n \in S : \A k \in S : n <= k
  <2> DEFINE R == {ss \in Nat \X Nat : ss[1] < ss[2]}
  <2>1. IsWellFoundedOn(R, Nat)
    BY NatLessThanWellFounded DEF OpToRel
  <2>2. \A n, k \in Nat : k < n => <<k, n>> \in R
    OBVIOUS
  <2> HIDE DEF R
  <2>3. PICK n \in S : \A k \in S : ~(<<k, n>> \in R)
    BY <2>1, WFMin
  <2>4. \A k \in S : ~(k < n)
    BY <2>2, <2>3
  <2>5. QED BY <2>4
<1>2. QED BY <1>1 DEF Least

\* escaped_strchr finds the first place it can stop at, and nothing when there
\* is none.
LEMMA StrchrIs ==
  ASSUME NEW S, NEW s \in Seq(S), NEW from \in Nat \ {0}, NEW c,
         NEW e, e = escaped_strchr(s, from, c)
  PROVE  \/ e = 0 /\ Delimiters(s, from, c) = {}
         \/ /\ e \in from .. Len(s) /\ s[e] = c /\ ~is_escaped(s, e)
            /\ \A n \in Delimiters(s, from, c) : e <= n
<1>1. Delimiters(s, from, c) \subseteq Nat
  BY DEF Delimiters
<1>2. CASE Delimiters(s, from, c) = {}
  BY <1>2 DEF escaped_strchr
<1>3. ASSUME NEW m \in Delimiters(s, from, c)
      PROVE  e \in Delimiters(s, from, c) /\ \A n \in Delimiters(s, from, c) : e <= n
  BY <1>1, <1>3, LeastIs DEF escaped_strchr
<1>4. QED BY <1>2, <1>3 DEF Delimiters

\* What it finds is an unescaped c of the text.
FoundAt(s, from, c, e) == e \in from .. Len(s) /\ s[e] = c /\ ~is_escaped(s, e)
LEMMA StrchrFinds ==
  ASSUME NEW s, Len(s) \in Nat, NEW from \in Nat \ {0}, NEW c,
         NEW e, e = escaped_strchr(s, from, c), e # 0
  PROVE  FoundAt(s, from, c, e)
<1>1. Delimiters(s, from, c) \in SUBSET Nat
  BY DEF Delimiters
<1>2. PICK m : m \in Delimiters(s, from, c)
  BY Zenon DEF escaped_strchr
<1>3. Least(Delimiters(s, from, c)) \in Delimiters(s, from, c)
  BY <1>1, <1>2, LeastIs, Zenon
<1>4. e = Least(Delimiters(s, from, c))
  BY Zenon DEF escaped_strchr
<1>5. QED BY <1>3, <1>4, Zenon DEF Delimiters, FoundAt

\* What lies between two places of a text.
LEMMA BetweenIs ==
  ASSUME NEW S, NEW s \in Seq(S), NEW m \in 0 .. Len(s), NEW n \in 1 .. Len(s) + 1, m < n
  PROVE  /\ Between(s, m, n) \in Seq(S) /\ Len(Between(s, m, n)) = n - 1 - m
         /\ \A k \in 1 .. n - 1 - m : Between(s, m, n)[k] = s[m + k]
BY DEF Between

-----------------------------------------------------------------------------
(* The page                                                                *)

\* A section and its zero stand where they were written, the rest of the page
\* is as before, and the page still ends with a zero.
LEMMA WrittenIs ==
  ASSUME page \in Seq(Bytes), page # << >> => page[Len(page)] = NUL,
         NEW a \in Nat, NEW s \in Seq(Bytes), NEW w, w = Written(a, s)
  PROVE  /\ w \in Seq(Bytes) /\ Len(w) >= Len(page) /\ Len(w) >= a + Len(s) + 1
         /\ w[Len(w)] = NUL
         /\ \A k \in 1 .. Len(s) : w[a + k] = s[k]
         /\ w[a + Len(s) + 1] = NUL
         /\ \A n \in 1 .. a : n <= Len(page) => w[n] = page[n]
<1> DEFINE l == IF a + Len(s) + 1 > Len(page) THEN a + Len(s) + 1 ELSE Len(page)
           At(n) == IF n \in a + 1 .. a + Len(s) THEN s[n - a]
                    ELSE IF n # a + Len(s) + 1 /\ n <= Len(page) THEN page[n] ELSE NUL
<1>1. /\ Len(s) \in Nat /\ Len(page) \in Nat /\ NUL \in Bytes
      /\ \A k \in 1 .. Len(s) : s[k] \in Bytes
      /\ \A k \in 1 .. Len(page) : page[k] \in Bytes
  BY ElementOfSeq, LenProperties DEF Bytes
<1>2. w = [n \in 1 .. l |-> At(n)]
  BY DEF Written
<1>3. /\ l \in Nat /\ l >= a + Len(s) + 1 /\ l >= Len(page)
      /\ l = a + Len(s) + 1 \/ l = Len(page)
  BY <1>1
<1> HIDE DEF l
<1>4. ASSUME NEW n \in 1 .. l
      PROVE  /\ a < n /\ n <= a + Len(s) => At(n) = s[n - a]
             /\ n = a + Len(s) + 1 => At(n) = NUL
             /\ n <= a /\ n <= Len(page) => At(n) = page[n]
             /\ n > a + Len(s) + 1 /\ n <= Len(page) => At(n) = page[n]
             /\ n <= a /\ ~(n <= Len(page)) => At(n) = NUL
  <2>1. /\ n \in a + 1 .. a + Len(s) <=> a < n /\ n <= a + Len(s)
        /\ n \in Nat /\ a + Len(s) \in Nat
    BY <1>1, <1>3
  <2>2. a < n /\ n <= a + Len(s) => At(n) = s[n - a]
    BY <2>1
  <2>3. n = a + Len(s) + 1 => At(n) = NUL
    BY <2>1
  <2>4. n <= a /\ n <= Len(page) => At(n) = page[n]
    BY <2>1
  <2>5. n > a + Len(s) + 1 /\ n <= Len(page) => At(n) = page[n]
    BY <2>1
  <2>6. n <= a /\ ~(n <= Len(page)) => At(n) = NUL
    BY <2>1
  <2>7. QED BY <2>2, <2>3, <2>4, <2>5, <2>6
<1> HIDE DEF At
<1>9. ASSUME NEW n \in 1 .. l
      PROVE  At(n) \in Bytes /\ (n = l => At(n) = NUL)
  <2>0. n \in Nat /\ 1 <= n /\ n <= l /\ l \in Nat
    BY <1>3
  <2>1. CASE a < n /\ n <= a + Len(s)
    <3>1. n - a \in 1 .. Len(s) /\ n # l
      BY <1>1, <1>3, <2>0, <2>1
    <3>2. At(n) = s[n - a]
      BY <1>4, <2>1
    <3>3. QED BY <1>1, <3>1, <3>2
  <2>2. CASE n = a + Len(s) + 1
    BY <1>1, <1>4, <2>2
  <2>3. CASE (n <= a \/ n > a + Len(s) + 1) /\ n <= Len(page)
    <3>1. n \in 1 .. Len(page)
      BY <1>1, <2>0, <2>3
    <3>2. n = l => n = Len(page) /\ page # << >>
      BY <1>1, <1>3, <2>0, <2>3
    <3>3. At(n) = page[n]
      BY <1>4, <2>3
    <3>4. QED BY <1>1, <3>1, <3>2, <3>3
  <2>4. CASE n > Len(page) /\ n > a + Len(s) + 1
    BY <1>1, <1>3, <2>0, <2>4
  <2>5. CASE n <= a /\ n > Len(page)
    <3>1. At(n) = NUL
      BY <1>1, <1>4, <2>0, <2>5
    <3>2. QED BY <1>1, <3>1
  <2>6. QED BY <1>1, <2>0, <2>1, <2>2, <2>3, <2>4, <2>5
<1>5. w \in Seq(Bytes) /\ Len(w) = l /\ \A n \in 1 .. l : w[n] = At(n)
  BY <1>2, <1>3, <1>9
<1>6. ASSUME NEW k \in 1 .. Len(s) PROVE w[a + k] = s[k]
  <2>1. a + k \in 1 .. l /\ a + k \in a + 1 .. a + Len(s) /\ (a + k) - a = k
    BY <1>1, <1>3
  <2>2. QED BY <1>4, <1>5, <2>1
<1>7. a + Len(s) + 1 \in 1 .. l /\ l \in 1 .. l /\ \A n \in 1 .. a : n <= Len(page) => n \in 1 .. l
  BY <1>1, <1>3
<1>8. QED BY <1>1, <1>3, <1>4, <1>5, <1>6, <1>7, <1>9

\* A string in the page.
LEMMA StringAtIs ==
  ASSUME page \in Seq(Bytes), page # << >> => page[Len(page)] = NUL, NEW a \in 0 .. Len(page) - 1
  PROVE  StringAt(a) \in Seq(Bytes) /\ Len(StringAt(a)) \in Nat
<1> DEFINE zeros == {n \in a + 1 .. Len(page) : page[n] = NUL}
<1>1. Len(page) \in Nat /\ Len(page) \in zeros /\ zeros \subseteq Nat
  BY LenProperties
<1>2. PICK z : z = Least(zeros)
  OBVIOUS
<1>3. z \in zeros
  BY <1>1, <1>2, LeastIs
<1>4. a < z /\ z \in 1 .. Len(page) + 1 /\ a \in 0 .. Len(page)
  BY <1>1, <1>3
<1>5. StringAt(a) = Between(page, a, z)
  BY <1>2 DEF StringAt
<1>6. QED BY <1>4, <1>5, BetweenIs, LenProperties

-----------------------------------------------------------------------------
(* The sections                                                            *)

\* Rounding up to the alignment.
LEMMA AlignmentIs ==
  ASSUME NEW a \in Nat \ {0}, NEW u \in Nat
  PROVE  a * ((u + a - 1) \div a) \in Nat /\ u <= a * ((u + a - 1) \div a)
OBVIOUS

\* What is found ends before the text does, and what is allocated for it begins
\* behind all that was.
LEMMA SectionIs ==
  ASSUME TextSound, Found
  PROVE  /\ start \in cursor .. Len(raw) /\ end \in cursor .. Len(raw) - 1
         /\ Len(raw) \in Nat \ {0} /\ Size \in Int /\ Size # 0 /\ Size = end - start
         /\ Aligned \in Nat /\ used <= Aligned
         /\ Copied \in Seq(Chars) /\ Copied \in Seq(Bytes)
         /\ Size > 0 => /\ Copied = Between(raw, start, end) /\ Len(Copied) = Size - 1
                        /\ \A k \in 1 .. Size - 1 : Copied[k] = raw[start + k]
<1>1. /\ raw \in Seq(Chars) /\ Len(raw) \in Nat \ {0} /\ raw[Len(raw)] = "]"
      /\ cursor \in Nat \ {0} /\ used \in Nat
  BY RawIs DEF TextSound
<1>2. start \in cursor .. Len(raw) /\ raw[start] = "{"
  <2>1. PICK r, p, e : /\ r = raw /\ p = cursor /\ e = start
                       /\ e = escaped_strchr(r, p, "{") /\ e # 0
    BY Zenon DEF Found, start
  <2>2. Len(r) \in Nat /\ p \in Nat \ {0}
    BY <1>1, <2>1
  <2>3. e = escaped_strchr(r, p, "{") /\ e # 0
    BY <2>1
  <2>4. FoundAt(r, p, "{", e)
    BY <2>2, <2>3, StrchrFinds, Zenon
  <2>5. QED BY <2>1, <2>4, Zenon DEF FoundAt
<1>3. end \in cursor .. Len(raw) /\ raw[end] = "}"
  <2>1. PICK r, p, e : /\ r = raw /\ p = cursor /\ e = end
                       /\ e = escaped_strchr(r, p, "}") /\ e # 0
    BY Zenon DEF Found, end
  <2>2. Len(r) \in Nat /\ p \in Nat \ {0}
    BY <1>1, <2>1
  <2>3. e = escaped_strchr(r, p, "}") /\ e # 0
    BY <2>1
  <2>4. FoundAt(r, p, "}", e)
    BY <2>2, <2>3, StrchrFinds, Zenon
  <2>5. QED BY <2>1, <2>4, Zenon DEF FoundAt
<1>4. PICK st, en : st = start /\ en = end
  OBVIOUS
<1>5. /\ st \in Nat /\ en \in Nat /\ cursor <= st /\ st <= Len(raw) /\ cursor <= en
      /\ en < Len(raw) /\ en # st
  <2>1. end # Len(raw) /\ end # start
    BY <1>1, <1>2, <1>3
  <2>2. st \in cursor .. Len(raw) /\ en \in cursor .. Len(raw) /\ en # Len(raw) /\ en # st
    BY <1>2, <1>3, <1>4, <2>1, Zenon
  <2>3. QED BY <1>1, <2>2
<1>6. Size = en - st /\ Size \in Int /\ Size # 0
  BY <1>4, <1>5 DEF Size
<1>7. Aligned \in Nat /\ used <= Aligned
  BY <1>1, AlignmentIs, RequestAssumption DEF Aligned
<1>8. st \in cursor .. Len(raw) /\ en \in cursor .. Len(raw) - 1
  BY <1>1, <1>5
<1>9. CASE Size > 0
  <2>1. st < en /\ st \in 0 .. Len(raw) /\ en \in 1 .. Len(raw) + 1 /\ en - 1 - st = Size - 1
    BY <1>1, <1>5, <1>6, <1>9
  <2>2. Copied = Between(raw, st, en)
    BY <1>4, <1>9 DEF Copied
  <2>3. /\ Copied \in Seq(Chars) /\ Len(Copied) = Size - 1
        /\ \A k \in 1 .. Size - 1 : Copied[k] = raw[st + k]
    <3>1. /\ Between(raw, st, en) \in Seq(Chars) /\ Len(Between(raw, st, en)) = en - 1 - st
          /\ \A k \in 1 .. en - 1 - st : Between(raw, st, en)[k] = raw[st + k]
      BY <1>1, <2>1, BetweenIs
    <3>2. QED BY <2>1, <2>2, <3>1, Zenon
  <2>4. Copied \in Seq(Bytes)
    BY <2>3 DEF Bytes
  <2>5. QED BY <1>1, <1>4, <1>6, <1>7, <1>8, <2>2, <2>3, <2>4
<1>10. CASE ~(Size > 0)
  <2>1. Copied = SubSeq(raw, st + 1, Len(raw))
    BY <1>4, <1>10 DEF Copied
  <2>2. st + 1 \in 1 .. Len(raw) + 1
    BY <1>1, <1>5
  <2>3. Copied \in Seq(Chars)
    BY <1>1, <2>1, <2>2
  <2>4. Copied \in Seq(Bytes)
    BY <2>3 DEF Bytes
  <2>5. QED BY <1>1, <1>4, <1>6, <1>7, <1>8, <1>10, <2>3, <2>4
<1>11. QED BY <1>9, <1>10

\* A section is found from the cursor on, put behind what is allocated, and what
\* was allocated stays as it is, unless a section is of negative size.
LEMMA GetSectionText ==
  ASSUME TextSound, Reading, Found, InPage, GetSection, raw' = raw
  PROVE  TextSound'
<1>1. /\ raw \in Raws /\ cursor \in Nat /\ page \in Seq(Bytes)
      /\ (page # << >> => page[Len(page)] = NUL) /\ used \in Nat /\ Len(page) \in Nat
      /\ sections \in Seq(0 .. Len(page) - 1 \cup {NULL}) /\ Len(sections) < 3
  BY DEF TextSound, Reading, Names
<1>2. /\ end \in cursor .. Len(raw) - 1 /\ Len(raw) \in Nat /\ Size \in Int /\ Size # 0
      /\ Aligned \in Nat /\ Copied \in Seq(Bytes) /\ Len(Copied) \in Nat
      /\ Size > 0 => Len(Copied) = Size - 1
  BY SectionIs
<1>3. /\ page' \in Seq(Bytes) /\ Len(page') >= Len(page) /\ Len(page') >= Aligned + Len(Copied) + 1
      /\ page'[Len(page')] = NUL /\ Len(page') \in Nat
  BY <1>1, <1>2, WrittenIs DEF GetSection
<1>4. cursor' \in 1 .. Len(raw')
  BY <1>1, <1>2 DEF GetSection
<1>5. used' \in 0 .. Len(page')
  <2>1. used' = Aligned + Size /\ Aligned + Size >= 0
    BY DEF GetSection, InPage
  <2>2. QED BY <1>2, <1>3, <2>1
<1>6. sections' \in Seq(0 .. Len(page') - 1 \cup {NULL}) /\ Len(sections') <= 3
  <2>1. sections' = Append(sections, Aligned)
    BY DEF GetSection
  <2>2. Aligned \in 0 .. Len(page') - 1 /\ 0 .. Len(page) - 1 \subseteq 0 .. Len(page') - 1
    BY <1>1, <1>2, <1>3
  <2>3. QED BY <1>1, <2>1, <2>2
<1>7. QED BY <1>1, <1>3, <1>4, <1>5, <1>6 DEF TextSound

\* A section that is not read leaves the page as it is.
LEMMA GetNothingText ==
  ASSUME TextSound, Reading, GetNothing, raw' = raw
  PROVE  TextSound'
<1>1. sections' \in Seq(0 .. Len(page) - 1 \cup {NULL}) /\ Len(sections') <= 3
  BY DEF TextSound, Reading, Names, GetNothing
<1>2. QED BY <1>1 DEF TextSound, GetNothing

-----------------------------------------------------------------------------
(* The parameters                                                          *)

\* The parameters are a text, once the sections are there.
ParametersIs ==
  TextSound /\ Len(sections) = 3 /\ Present(2) => Parameters \in Seq(Bytes)

\* They are a text once they are present.
LEMMA ParametersSound == ParametersIs
<1> SUFFICES ASSUME TextSound, Len(sections) = 3, Present(2) PROVE Parameters \in Seq(Bytes)
  BY DEF ParametersIs
<1>1. sections[2] \in 0 .. Len(page) - 1
  <2>1. sections \in Seq(0 .. Len(page) - 1 \cup {NULL}) /\ 2 \in 1 .. Len(sections)
    BY DEF TextSound
  <2>2. sections[2] \in 0 .. Len(page) - 1 \cup {NULL}
    BY <2>1, ElementOfSeq
  <2>3. QED BY <2>2 DEF Present
<1>2. QED BY <1>1, StringAtIs DEF Parameters, TextSound

\* The places FirstOf looks for.
Hit(c, before, n) ==
  /\ Parameters[n] = c
  /\ IF n = next_pair THEN ~(n = 1 /\ before) ELSE ~is_escaped(Parameters, n)

\* FirstOf finds the first of them, or the end of the parameters.
FirstHit(c, before, f) ==
  /\ f \in next_pair .. Len(Parameters) + 1
  /\ f <= Len(Parameters) => Hit(c, before, f)
  /\ \A n \in next_pair .. f - 1 : ~Hit(c, before, n)
LEMMA FirstOfIs ==
  ASSUME Parameters \in Seq(Bytes), next_pair \in 1 .. Len(Parameters) + 1,
         NEW c, NEW before \in BOOLEAN, NEW f, f = FirstOf(c, before)
  PROVE  FirstHit(c, before, f)
<1> USE DEF FirstHit
<1> DEFINE l == Len(Parameters)
           hits == {n \in next_pair .. l : Hit(c, before, n)}
<1>1. l \in Nat /\ next_pair \in Nat /\ next_pair <= l + 1
  BY LenProperties
<1>2. hits \subseteq Nat
  BY <1>1
<1>3. f = IF hits = {} THEN l + 1 ELSE Least(hits)
  BY DEF FirstOf, Hit
<1>4. CASE hits = {}
  BY <1>1, <1>3, <1>4
<1>5. ASSUME NEW m \in hits PROVE f \in hits /\ \A n \in hits : f <= n
  BY <1>2, <1>3, <1>5, LeastIs
<1>6. CASE hits # {}
  <2>1. f \in hits /\ \A n \in hits : f <= n
    BY <1>5, <1>6
  <2>2. f \in next_pair .. l /\ Hit(c, before, f)
    BY <2>1
  <2>3. ASSUME NEW n \in next_pair .. f - 1 PROVE ~Hit(c, before, n)
    <3>1. n \in next_pair .. l /\ ~(f <= n)
      BY <1>1, <2>2, <2>3
    <3>2. QED BY <2>1, <3>1
  <2>4. QED BY <1>1, <2>2, <2>3
<1>7. QED BY <1>4, <1>6

\* The loop moves to a pair behind the one it is at.
LEMMA MoveOnIs ==
  ASSUME Parameters \in Seq(Bytes), next_pair \in 1 .. Len(Parameters) + 1,
         NEW before \in BOOLEAN, MoveOn(before)
  PROVE  next_pair' # NULL => next_pair' \in 1 .. Len(Parameters) + 1
<1>1. PICK d : d = pair_delimiter(before)
  OBVIOUS
<1>2. d \in next_pair .. Len(Parameters) + 1
  BY <1>1, FirstOfIs DEF pair_delimiter, FirstHit
<1>3. next_pair' = IF d > Len(Parameters) THEN NULL ELSE d + 1
  BY <1>1 DEF MoveOn
<1>4. Len(Parameters) \in Nat
  BY LenProperties
<1>5. QED BY <1>2, <1>3, <1>4

\* What create_node makes is a node, not linked to any.
LEMMA NodeIs ==
  ASSUME Parameters \in Seq(Bytes), next_pair \in 1 .. Len(Parameters) + 1,
         NEW before \in BOOLEAN, HasName(before)
  PROVE  Node(before) \in Nodes /\ Node(before).next = NULL
<1>1. PICK d, e : d = pair_delimiter(before) /\ e = name_delimiter(before)
  OBVIOUS
<1>2. /\ d \in next_pair .. Len(Parameters) + 1 /\ e \in next_pair .. Len(Parameters) + 1
      /\ Len(Parameters) \in Nat
  BY <1>1, FirstOfIs, LenProperties DEF pair_delimiter, name_delimiter, FirstHit
<1>3. e < d
  BY <1>1 DEF HasName
<1>4. SubSeq(Parameters, next_pair, e - 1) \in Seq(Bytes)
  <2>1. next_pair \in 1 .. Len(Parameters) + 1 /\ e - 1 \in next_pair - 1 .. Len(Parameters)
    BY <1>2, <1>3
  <2>2. QED BY <2>1, SubSeqProperties
<1>5. Between(Parameters, e, d) \in Seq(Bytes)
  <2>1. e \in 0 .. Len(Parameters) /\ d \in 1 .. Len(Parameters) + 1
    BY <1>2, <1>3
  <2>2. QED BY <1>3, <2>1, BetweenIs
<1>6. Node(before) = [name |-> SubSeq(Parameters, next_pair, e - 1),
                      value |-> Between(Parameters, e, d), next |-> NULL, prev |-> NULL]
  BY <1>1 DEF Node
<1>7. NULL \in Int
  BY DEF NULL
<1>8. QED BY <1>4, <1>5, <1>6, <1>7 DEF Nodes

\* Setting prev changes nothing else.
LEMMA PrevSet ==
  ASSUME NEW node \in Nodes, NEW p \in Int, NEW one, one = [node EXCEPT !.prev = p]
  PROVE  /\ one \in Nodes /\ one.prev = p /\ one.next = node.next
         /\ one.name = node.name /\ one.value = node.value
BY DEF Nodes

\* Nor does setting next.
LEMMA NextSet ==
  ASSUME NEW node \in Nodes, NEW n \in Int, NEW one, one = [node EXCEPT !.next = n]
  PROVE  /\ one \in Nodes /\ one.next = n /\ one.prev = node.prev
         /\ one.name = node.name /\ one.value = node.value
BY DEF Nodes

\* add_param keeps the links and adds the node behind all others.
LEMMA LinkedIs ==
  ASSUME NEW list, InOrder(list), NEW node \in Nodes, node.next = NULL,
         NEW new, new = Linked(list, node)
  PROVE  /\ InOrder(new) /\ Len(list) \in Nat /\ Len(new) = Len(list) + 1
         /\ \A k \in 1 .. Len(list) :
              new[k].name = list[k].name /\ new[k].value = list[k].value
         /\ new[Len(new)].name = node.name /\ new[Len(new)].value = node.value
<1>0. list \in Seq(Nodes) /\ Len(list) \in Nat
  BY DEF InOrder
<1>1. PICK l \in Nat : l = Len(list)
  BY <1>0
<1>2. /\ \A k \in 1 .. l : list[k] \in Nodes
      /\ DOMAIN list = 1 .. l
  BY <1>0, <1>1, LenProperties, ElementOfSeq
<1>3. \A k \in 1 .. l : /\ list[k].next = IF k = l THEN NULL ELSE k + 1
                        /\ list[k].prev = IF k = 1 THEN l ELSE k - 1
  BY <1>1 DEF InOrder
<1>4. CASE list = << >>
  <2> DEFINE only == [node EXCEPT !.prev = 1]
  <2>1. new = <<only>> /\ l = 0
    BY <1>1, <1>4 DEF Linked
  <2>2. only \in Nodes /\ only.next = NULL /\ only.prev = 1 /\ only.name = node.name /\ only.value = node.value
    BY PrevSet
  <2> HIDE DEF only
  <2>3. new \in Seq(Nodes) /\ Len(new) = 1 /\ new[1] = only
    BY <2>1, <2>2
  <2>4. \A k \in 1 .. Len(new) : k = 1
    BY <2>3
  <2>5. InOrder(new)
    BY <2>2, <2>3, <2>4 DEF InOrder
  <2>6. QED BY <1>1, <2>1, <2>2, <2>3, <2>5
<1>5. CASE list # << >>
  <2> DEFINE last == [node EXCEPT !.prev = l]
             old == [list EXCEPT ![1].prev = l + 1, ![l].next = l + 1]
             Prev(k) == IF k = 1 THEN [list[1] EXCEPT !.prev = l + 1] ELSE list[k]
             Moved(k) == IF k = l THEN [Prev(k) EXCEPT !.next = l + 1] ELSE Prev(k)
  <2>1. l # 0
    BY <1>0, <1>1, <1>5, EmptySeq
  <2>2. list[1].prev = l
    BY <1>3, <2>1
  <2>3. new = Append(old, last)
    BY <1>1, <1>5, <2>2 DEF Linked
  <2>4. last \in Nodes /\ last.next = NULL /\ last.prev = l /\ last.name = node.name /\ last.value = node.value
    BY PrevSet
  <2>5. old = [k \in 1 .. l |-> Moved(k)]
    BY <1>2, <2>1
  <2> HIDE DEF old, last
  <2>6. ASSUME NEW k \in 1 .. l
        PROVE  /\ Moved(k) \in Nodes /\ Moved(k).next = k + 1
               /\ Moved(k).prev = IF k = 1 THEN l + 1 ELSE k - 1
               /\ Moved(k).name = list[k].name /\ Moved(k).value = list[k].value
    <3>1. /\ Prev(k) \in Nodes /\ Prev(k).next = list[k].next
          /\ Prev(k).prev = IF k = 1 THEN l + 1 ELSE k - 1
          /\ Prev(k).name = list[k].name /\ Prev(k).value = list[k].value
      <4>1. CASE k = 1
        <5>1. list[1] \in Nodes /\ l + 1 \in Int /\ Prev(k) = [list[1] EXCEPT !.prev = l + 1]
          BY <1>2, <4>1
        <5> HIDE DEF Prev
        <5>2. QED BY <4>1, <5>1, PrevSet
      <4>2. CASE k # 1
        BY <1>2, <1>3, <4>2
      <4>3. QED BY <4>1, <4>2
    <3> HIDE DEF Prev
    <3>2. CASE k = l
      BY <3>1, <3>2, NextSet
    <3>3. CASE k # l
      BY <1>3, <3>1, <3>3
    <3>4. QED BY <3>2, <3>3
  <2> HIDE DEF Moved, Prev
  <2>7. old \in Seq(Nodes) /\ Len(old) = l /\ \A k \in 1 .. l : old[k] = Moved(k)
    BY <2>5, <2>6
  <2>8. /\ new \in Seq(Nodes) /\ Len(new) = l + 1 /\ new[l + 1] = last
        /\ \A k \in 1 .. l : new[k] = Moved(k)
    BY <2>3, <2>4, <2>7, AppendProperties
  <2>9. ASSUME NEW k \in 1 .. l + 1
        PROVE  /\ new[k].next = IF k = l + 1 THEN NULL ELSE k + 1
               /\ new[k].prev = IF k = 1 THEN l + 1 ELSE k - 1
    <3>1. CASE k = l + 1
      <4>1. new[k].next = NULL /\ new[k].prev = l /\ k # 1 /\ k - 1 = l
        BY <2>1, <2>4, <2>8, <3>1
      <4>2. QED BY <3>1, <4>1
    <3>2. CASE k \in 1 .. l
      <4>1. /\ new[k].next = k + 1 /\ k # l + 1
            /\ new[k].prev = IF k = 1 THEN l + 1 ELSE k - 1
        BY <2>6, <2>8, <3>2
      <4>2. QED BY <4>1
    <3>3. QED BY <3>1, <3>2
  <2>10. InOrder(new)
    BY <2>8, <2>9 DEF InOrder
  <2>11. QED BY <1>1, <2>4, <2>6, <2>8, <2>10
<1>6. QED BY <1>4, <1>5

-----------------------------------------------------------------------------
(* The steps of make_req keep its types                                    *)

\* These together.
Shape ==
  /\ Holding
  /\ TextSound
  /\ PairsSound
  /\ InOrder(nodes)
  /\ RequestSound

\* Nothing is allocated when make_req is called.
LEMMA InitHolding == Init => Holding
BY DEF Init, Holding, Points, Final

\* The exits of allocate_request and create_node free what was made before them.
LEMMA NothingLeft ==
  ASSUME NEW thing \in AllocateThings \cup NodeThings
  PROVE  MadeBefore[thing] \ Undone[thing] = {}
BY DEF AllocateThings, NodeThings, RequestThings, MadeBefore, Undone

\* No step keeps anything its next point does not own.
LEMMA MakeReqHolding ==
  ASSUME Holding, MakeReq
  PROVE  Holding'
<1> USE DEF Holding, Points, Final, Things, RequestThings, AllocateThings
<1>1. CASE Allocate \/ AllocateFails
  BY <1>1, NothingLeft DEF Allocate, AllocateFails
<1>2. CASE CheckFails \/ CheckPasses \/ NoFuncArena
  BY <1>2 DEF CheckFails, CheckPasses, NoFuncArena
<1>3. CASE Sections
  BY <1>3 DEF Sections, SectionRead, SectionMissing, SectionRefused, SectionAborts, Reading
<1>4. CASE Incomplete \/ NoPayloadMemory \/ StartPairs \/ NoParams
  BY <1>4 DEF Incomplete, NoPayloadMemory, StartPairs, NoParams, Judged
<1>5. CASE Pairs
  BY <1>5, NothingLeft DEF Pairs, SkipPair, AddParam, ParamLost, PairsDone, AtPair
<1>6. CASE Finish \/ DestroyReq
  BY <1>6 DEF Finish, DestroyReq
<1>7. QED BY <1>1, <1>2, <1>3, <1>4, <1>5, <1>6 DEF MakeReq

\* Nor is there anything else.
LEMMA InitShape == Init => Shape
<1> SUFFICES ASSUME Init PROVE Shape
  OBVIOUS
<1>1. TextSound
  BY RawIs DEF Init, TextSound
<1>2. PairsSound
  BY DEF Init, PairsSound
<1>3. InOrder(nodes)
  BY DEF Init, InOrder
<1>4. RequestSound
  BY DEF Init, RequestSound, NoRequest, UNKNOWN
<1>5. QED BY <1>1, <1>2, <1>3, <1>4, InitHolding DEF Shape

\* A step reads a section, leaves one out, or keeps the text.
LEMMA NextText ==
  ASSUME Shape, MakeReq
  PROVE  TextSound'
<1>1. CASE UNCHANGED <<raw, text>>
  BY <1>1 DEF Shape, TextSound, text
<1>2. CASE SectionRead
  BY <1>2, GetSectionText DEF Shape, SectionRead
<1>3. CASE SectionMissing \/ SectionRefused
  BY <1>3, GetNothingText DEF Shape, SectionMissing, SectionRefused
<1>4. SectionRead \/ SectionMissing \/ SectionRefused \/ UNCHANGED <<raw, text>>
  BY DEF MakeReq, Sections, Pairs, Allocate, AllocateFails, CheckFails, CheckPasses, NoFuncArena,
         SectionAborts, Incomplete, NoPayloadMemory, StartPairs, NoParams, SkipPair, AddParam,
         ParamLost, PairsDone, Finish, DestroyReq
<1>5. QED BY <1>1, <1>2, <1>3, <1>4

\* What keeps the text and the page keeps the parameters.
LEMMA SameParameters ==
  ASSUME UNCHANGED text
  PROVE  Parameters' = Parameters
BY DEF text, Parameters, StringAt, Between

\* The loop over the pairs begins with all sections and stays in the parameters.
LEMMA NextPairs ==
  ASSUME Shape, MakeReq
  PROVE  PairsSound'
<1> USE DEF PairsSound
<1>1. CASE Allocate \/ AllocateFails \/ CheckFails \/ CheckPasses \/ NoFuncArena
           \/ Incomplete \/ NoPayloadMemory \/ DestroyReq
  BY <1>1 DEF Shape, Allocate, AllocateFails, CheckFails, CheckPasses, NoFuncArena, Incomplete,
              NoPayloadMemory, DestroyReq, Judged, parms, NULL
<1>2. CASE Sections
  BY <1>2 DEF Shape, Sections, SectionRead, SectionMissing, SectionRefused, SectionAborts,
     Reading, parms
<1>3. ASSUME Judged, Complete PROVE Len(sections) = 3 /\ \A i \in 1 .. 3 : Present(i)
  <2>1. Len(sections) = 3 /\ DOMAIN sections = 1 .. 3
    BY <1>3 DEF Shape, TextSound, Judged, Names
  <2>2. QED BY <1>3, <2>1 DEF Complete, Present
<1>4. CASE StartPairs \/ NoParams
  <2>1. /\ Len(sections)' = 3 /\ \A i \in 1 .. 3 : Present(i)'
        /\ Len(sections) = 3 /\ Present(2) /\ UNCHANGED text
    BY <1>3, <1>4 DEF StartPairs, NoParams, text, Present
  <2>2. Parameters \in Seq(Bytes) /\ Parameters' = Parameters
    BY <2>1, ParametersSound, SameParameters DEF ParametersIs, Shape
  <2>3. 1 \in 1 .. Len(Parameters') + 1
    BY <2>2, LenProperties
  <2>4. (next_pair' = 1 /\ pc' = "pairs") \/ (next_pair' = next_pair /\ pc = "sections")
    BY <1>4 DEF StartPairs, NoParams, Judged, parms
  <2>5. QED BY <2>1, <2>3, <2>4 DEF Shape
<1>5. CASE SkipPair \/ AddParam \/ ParamLost
  <2>1. PICK before \in BOOLEAN : AtPair /\ MoveOn(before) /\ UNCHANGED <<pc, text>>
    BY <1>5 DEF SkipPair, AddParam, ParamLost
  <2>2. /\ pc = "pairs" /\ next_pair \in 1 .. Len(Parameters) + 1
        /\ Len(sections) = 3 /\ \A i \in 1 .. 3 : Present(i)
    BY <2>1 DEF Shape, AtPair
  <2>3. Parameters \in Seq(Bytes) /\ Parameters' = Parameters
    BY <2>1, <2>2, ParametersSound, SameParameters DEF ParametersIs, Shape
  <2>4. next_pair' # NULL => next_pair' \in 1 .. Len(Parameters') + 1
    BY <2>1, <2>2, <2>3, MoveOnIs
  <2>5. Len(sections)' = 3 /\ \A i \in 1 .. 3 : Present(i)'
    BY <2>1, <2>2 DEF text, Present
  <2>6. QED BY <2>1, <2>2, <2>4, <2>5
<1>6. CASE PairsDone
  BY <1>6 DEF Shape, PairsDone, parms, text, Present
<1>7. CASE Finish
  BY <1>7 DEF Shape, Finish, parms, text, Present
<1>8. QED BY <1>1, <1>2, <1>4, <1>5, <1>6, <1>7 DEF MakeReq, Pairs

\* Only AddParam changes the list.
LEMMA NextList ==
  ASSUME Shape, MakeReq
  PROVE  InOrder(nodes)'
<1>1. CASE AddParam
  <2>1. PICK before \in BOOLEAN : AtPair /\ HasName(before) /\ nodes' = Linked(nodes, Node(before))
    BY <1>1 DEF AddParam
  <2>2. Parameters \in Seq(Bytes) /\ next_pair \in 1 .. Len(Parameters) + 1
    BY <2>1, ParametersSound DEF Shape, PairsSound, AtPair, ParametersIs
  <2>3. Node(before) \in Nodes /\ Node(before).next = NULL
    BY <2>1, <2>2, NodeIs
  <2>4. QED BY <2>1, <2>3, LinkedIs DEF Shape
<1>2. AddParam \/ UNCHANGED nodes
  BY DEF MakeReq, Sections, Pairs, Allocate, AllocateFails, CheckFails, CheckPasses, NoFuncArena,
         SectionRead, SectionMissing, SectionRefused,
         SectionAborts, Incomplete, NoPayloadMemory, StartPairs, NoParams, SkipPair,
         ParamLost, PairsDone, Finish, DestroyReq, parms
<1>3. CASE UNCHANGED nodes
  BY <1>3 DEF Shape, InOrder
<1>4. QED BY <1>1, <1>2, <1>3

\* string_type_to_int gives one of the five types or none.
LEMMA TypeIs ==
  ASSUME NEW name
  PROVE  string_type_to_int(name) \in {UNKNOWN} \cup 0 .. 4
BY DEF string_type_to_int, types, UNKNOWN

\* The request has one of these types.
LEMMA NextRequest ==
  ASSUME Shape, MakeReq
  PROVE  RequestSound'
<1> USE DEF RequestSound
<1>1. CASE StartPairs \/ NoParams
  <2>1. req' = [req EXCEPT !.request_type = string_type_to_int(Type)]
    BY <1>1 DEF StartPairs, NoParams
  <2>2. QED BY <1>1, <2>1, TypeIs DEF Shape, StartPairs, NoParams
<1>2. CASE Finish
  BY <1>2 DEF Shape, Finish
<1>3. CASE Sections
  BY <1>3 DEF Shape, Sections, SectionRead, SectionMissing, SectionRefused, SectionAborts
<1>4. CASE Pairs
  BY <1>4 DEF Shape, Pairs, SkipPair, AddParam, ParamLost, PairsDone
<1>5. CASE Allocate \/ AllocateFails \/ CheckFails \/ CheckPasses \/ NoFuncArena
           \/ Incomplete \/ NoPayloadMemory \/ DestroyReq
  BY <1>5 DEF Shape, Allocate, AllocateFails, CheckFails, CheckPasses, NoFuncArena, Incomplete,
              NoPayloadMemory, DestroyReq
<1>6. QED BY <1>1, <1>2, <1>3, <1>4, <1>5 DEF MakeReq

-----------------------------------------------------------------------------
(* The elements of a set of numbers in their order                         *)

\* The k-th element has k elements up to itself.
UpTo(S, n) == {m \in S : m <= n}

\* A larger element has more elements up to itself.
LEMMA UpToGrows ==
  ASSUME NEW S \in SUBSET Nat, IsFiniteSet(S), NEW n \in S, NEW m \in S, m < n
  PROVE  Cardinality(UpTo(S, m)) < Cardinality(UpTo(S, n))
<1>1. IsFiniteSet(UpTo(S, n)) /\ UpTo(S, m) \in SUBSET UpTo(S, n)
  <2>1. UpTo(S, n) \in SUBSET S
    BY DEF UpTo
  <2>2. UpTo(S, m) \in SUBSET UpTo(S, n)
    <3>1. n \in Nat /\ m \in Nat /\ \A k \in S : k \in Nat
      OBVIOUS
    <3>2. \A k \in S : k <= m => k <= n
      BY <3>1
    <3>3. QED BY <3>2 DEF UpTo
  <2>3. QED BY <2>1, <2>2, FS_Subset
<1>2. n \in UpTo(S, n) /\ n \notin UpTo(S, m)
  BY DEF UpTo
<1>3. /\ IsFiniteSet(UpTo(S, m)) /\ Cardinality(UpTo(S, m)) <= Cardinality(UpTo(S, n))
      /\ Cardinality(UpTo(S, n)) = Cardinality(UpTo(S, m)) => UpTo(S, n) = UpTo(S, m)
  BY <1>1, FS_Subset
<1>4. Cardinality(UpTo(S, m)) \in Nat /\ Cardinality(UpTo(S, n)) \in Nat
  BY <1>1, <1>3, FS_CardinalityType
<1>5. UpTo(S, n) # UpTo(S, m)
  BY <1>2
<1>6. QED BY <1>3, <1>4, <1>5

\* Increasing lists every element of a finite set once, the smaller first.
LEMMA IncreasingIs ==
  ASSUME NEW S \in SUBSET Nat, IsFiniteSet(S), NEW b, b = Increasing(S), NEW c, c = Cardinality(S)
  PROVE  /\ c \in Nat /\ b \in [1 .. c -> S]
         /\ \A j, k \in 1 .. c : j < k => b[j] < b[k]
         /\ \A n \in S : \E k \in 1 .. c : b[k] = n
<1> DEFINE Rank(n) == Cardinality(UpTo(S, n))
           f == [n \in S |-> Rank(n)]
<1>1. c \in Nat
  BY FS_CardinalityType
<1>2. ASSUME NEW n \in S PROVE Rank(n) \in 1 .. c
  <2>1. UpTo(S, n) \in SUBSET S /\ n \in UpTo(S, n)
    BY DEF UpTo
  <2>2. /\ IsFiniteSet(UpTo(S, n)) /\ Rank(n) <= c
    BY <2>1, FS_Subset
  <2>3. Rank(n) \in Nat /\ Rank(n) # 0
    BY <2>1, <2>2, FS_CardinalityType, FS_EmptySet
  <2>4. QED BY <1>1, <2>2, <2>3
<1>3. \A n, m \in S : m < n => Rank(m) < Rank(n)
  BY UpToGrows
<1> HIDE DEF Rank
<1>4. ASSUME NEW n \in S, NEW m \in S, Rank(n) = Rank(m) PROVE n = m
  <2>1. Rank(n) \in Nat /\ n \in Nat /\ m \in Nat
    BY <1>1, <1>2
  <2>2. ~(n < m) /\ ~(m < n)
    BY <1>3, <1>4, <2>1
  <2>3. QED BY <2>1, <2>2
<1>5. f \in [S -> 1 .. c] /\ \A n, m \in S : f[n] = f[m] => n = m
  BY <1>2, <1>4
<1>6. f \in Injection(S, 1 .. c)
  BY <1>5, Fun_IsInj
<1>7. IsFiniteSet(1 .. c) /\ Cardinality(1 .. c) = c
  BY <1>1, FS_Interval
<1>8. f \in Surjection(S, 1 .. c)
  BY <1>6, <1>7, FS_Injection
<1>9. ASSUME NEW k \in 1 .. c PROVE \E n \in S : Rank(n) = k
  <2>1. \E n \in S : f[n] = k
    BY <1>8 DEF Surjection
  <2>2. QED BY <2>1
<1>10. b = [k \in 1 .. c |-> CHOOSE n \in S : Rank(n) = k]
  BY DEF Increasing, UpTo, Rank
<1>11. ASSUME NEW k \in 1 .. c PROVE b[k] \in S /\ Rank(b[k]) = k
  BY <1>9, <1>10
<1>12. b \in [1 .. c -> S]
  BY <1>10, <1>11
<1>13. ASSUME NEW j \in 1 .. c, NEW k \in 1 .. c, j < k PROVE b[j] < b[k]
  <2>1. /\ b[j] \in S /\ b[k] \in S /\ b[j] \in Nat /\ b[k] \in Nat
        /\ Rank(b[j]) = j /\ Rank(b[k]) = k
    BY <1>11
  <2>2. ~(b[k] < b[j]) /\ b[k] # b[j]
    BY <1>1, <1>3, <1>13, <2>1
  <2>3. QED BY <2>1, <2>2
<1>14. ASSUME NEW n \in S PROVE \E k \in 1 .. c : b[k] = n
  <2>1. Rank(n) \in 1 .. c
    BY <1>2
  <2>2. b[Rank(n)] = n
    BY <1>4, <1>11, <2>1
  <2>3. QED BY <2>1, <2>2
<1>15. QED BY <1>1, <1>12, <1>13, <1>14

\* b lists the c elements of S in their order.
Lists(b, c, S) ==
  /\ b \in [1 .. c -> S]
  /\ \A j, k \in 1 .. c : j < k => b[j] < b[k]
  /\ \A n \in S : \E k \in 1 .. c : b[k] = n

\* What lists the elements of a set that way is what Increasing gives.
LEMMA IncreasingIsOnly ==
  ASSUME NEW c, c \in Nat, NEW S, S \in SUBSET Nat, NEW b, Lists(b, c, S)
  PROVE  IsFiniteSet(S) /\ Cardinality(S) = c /\ Increasing(S) = b
<1> USE DEF Lists
<1>0. \A j \in 1 .. c : b[j] \in Nat /\ j \in Nat
  <2>1. \A n \in S : n \in Nat
    OBVIOUS
  <2>2. \A j \in 1 .. c : b[j] \in S /\ j \in Nat
    OBVIOUS
  <2>3. QED BY <2>1, <2>2
<1>1. \A j, k \in 1 .. c : b[j] = b[k] => j = k
  BY <1>0
<1>2. \A j, k \in 1 .. c : b[j] <= b[k] <=> j <= k
  BY <1>0, <1>1
<1>3. b \in Bijection(1 .. c, S)
  BY <1>1, Fun_IsBij
<1>4. Cardinality(S) = c /\ IsFiniteSet(S)
  <2>1. ExistsBijection(1 .. c, S)
    BY <1>3 DEF ExistsBijection
  <2>2. QED BY <2>1, FS_CountingElements, FS_NatBijection
<1>5. ASSUME NEW k \in 1 .. c PROVE Cardinality(UpTo(S, b[k])) = k
  <2> DEFINE T == UpTo(S, b[k])
             g == [j \in 1 .. k |-> b[j]]
  <2>1. \A j \in 1 .. k : j \in 1 .. c /\ j <= k
    OBVIOUS
  <2>2. g \in [1 .. k -> T]
    BY <1>0, <1>2, <2>1 DEF UpTo
  <2>3. \A i, j \in 1 .. k : g[i] = g[j] => i = j
    BY <1>1, <2>1
  <2>4. ASSUME NEW n \in T PROVE \E j \in 1 .. k : g[j] = n
    <3>1. PICK j \in 1 .. c : b[j] = n
      BY DEF UpTo
    <3>2. j <= k
      BY <1>2, <3>1 DEF UpTo
    <3>3. j \in 1 .. k
      BY <3>2
    <3>4. QED BY <3>1, <3>3
  <2>5. g \in Bijection(1 .. k, T)
    BY <2>2, <2>3, <2>4, Fun_IsBij
  <2>6. ExistsBijection(1 .. k, T)
    BY <2>5 DEF ExistsBijection
  <2>7. QED BY <2>6, FS_CountingElements
<1>6. ASSUME NEW k \in 1 .. c PROVE b[k] = CHOOSE n \in S : Cardinality(UpTo(S, n)) = k
  <2>1. ASSUME NEW n \in S, Cardinality(UpTo(S, n)) = k PROVE n = b[k]
    <3>1. PICK j \in 1 .. c : b[j] = n
      OBVIOUS
    <3>2. j = k
      BY <1>5, <2>1, <3>1
    <3>3. QED BY <3>1, <3>2
  <2>2. b[k] \in S /\ Cardinality(UpTo(S, b[k])) = k
    BY <1>5
  <2>3. QED BY <2>1, <2>2
<1>7. Increasing(S) = [k \in 1 .. c |-> CHOOSE n \in S : Cardinality(UpTo(S, n)) = k]
  BY <1>4 DEF Increasing, UpTo
<1>8. QED BY <1>4, <1>6, <1>7

-----------------------------------------------------------------------------
(* Escapes                                                                 *)

\* The cardinalities of the runs of backslashes.
LEMMA OneAndTwo == Cardinality(0 .. 0) = 1 /\ Cardinality(0 .. 1) = 2
<1>1. 0 .. 0 = {0} /\ 0 .. 1 = {0} \cup {1}
  OBVIOUS
<1>2. IsFiniteSet({0}) /\ Cardinality({0}) = 1
  BY FS_Singleton
<1>3. Cardinality({0} \cup {1}) = Cardinality({0}) + 1
  BY <1>2, FS_AddElement
<1>4. QED BY <1>1, <1>2, <1>3

\* Where no backslash is escaped, is_escaped is right.
LEMMA MaskedIs ==
  ASSUME NEW S, NEW s \in Seq(S), PlainlyEscaped(s), NEW n \in 1 .. Len(s)
  PROVE  Masked(s, n) <=> is_escaped(s, n)
<1> DEFINE Run == {k \in 0 .. n - 1 : \A m \in n - k .. n - 1 : s[m] = "\\"}
<1>1. n \in Nat /\ 1 <= n /\ Len(s) \in Nat /\ n <= Len(s)
  BY LenProperties
<1>2. Masked(s, n) <=> (Cardinality(Run) - 1) % 2 = 1
  BY DEF Masked
<1>3. CASE is_escaped(s, n)
  <2>1. n > 1 /\ s[n - 1] = "\\"
    BY <1>3 DEF is_escaped
  <2>2. n > 2 => s[n - 2] # "\\"
    <3> SUFFICES ASSUME n > 2 PROVE s[n - 2] # "\\"
      OBVIOUS
    <3>1. n - 1 \in 2 .. Len(s) /\ (n - 1) - 1 = n - 2
      BY <1>1
    <3>2. <<s[n - 2], s[n - 1]>> # <<"\\", "\\">>
      BY <3>1 DEF PlainlyEscaped
    <3>3. QED BY <2>1, <3>2
  <2>3. ASSUME NEW k \in Run PROVE k \in {0, 1}
    <3>1. CASE k >= 2
      <4>1. n - 2 \in n - k .. n - 1 /\ n > 2
        BY <1>1, <3>1
      <4>2. QED BY <2>2, <4>1
    <3>2. QED BY <3>1
  <2>4. 0 \in Run
    BY <1>1
  <2>5. 1 \in Run
    <3>1. 1 \in 0 .. n - 1 /\ \A m \in n - 1 .. n - 1 : m = n - 1
      BY <1>1, <2>1
    <3>2. QED BY <2>1, <3>1
  <2> HIDE DEF Run
  <2>6. Run = 0 .. 1
    BY <2>3, <2>4, <2>5
  <2>7. Cardinality(Run) = 2
    BY <2>6, OneAndTwo
  <2>8. QED BY <1>2, <1>3, <2>7
<1>4. CASE ~is_escaped(s, n)
  <2>1. ASSUME NEW k \in Run PROVE k = 0
    <3>1. CASE k >= 1
      <4>1. n - 1 \in n - k .. n - 1 /\ n > 1
        BY <1>1, <3>1
      <4>2. QED BY <1>4, <4>1 DEF is_escaped
    <3>2. QED BY <3>1
  <2>2. 0 \in Run
    BY <1>1
  <2> HIDE DEF Run
  <2>3. Run = 0 .. 0
    BY <2>1, <2>2
  <2>4. Cardinality(Run) = 1
    BY <2>3, OneAndTwo
  <2>5. QED BY <1>2, <1>4, <2>4
<1>5. QED BY <1>3, <1>4

\* The unmasked places are then those is_escaped does not exclude.
LEMMA UnmaskedIs ==
  ASSUME NEW S, NEW s \in Seq(S), PlainlyEscaped(s), NEW chars
  PROVE  /\ Unmasked(s, chars) = {n \in 1 .. Len(s) : s[n] \in chars /\ ~is_escaped(s, n)}
         /\ Unmasked(s, chars) \in SUBSET Nat /\ IsFiniteSet(Unmasked(s, chars))
<1>1. DOMAIN s = 1 .. Len(s) /\ Len(s) \in Nat
  BY LenProperties
<1>2. Unmasked(s, chars) = {n \in 1 .. Len(s) : s[n] \in chars /\ ~is_escaped(s, n)}
  BY <1>1, MaskedIs DEF Unmasked
<1>3. IsFiniteSet(1 .. Len(s)) /\ Unmasked(s, chars) \in SUBSET (1 .. Len(s))
  BY <1>1, <1>2, FS_Interval
<1>4. IsFiniteSet(Unmasked(s, chars))
  BY <1>3, FS_Subset
<1>5. QED BY <1>2, <1>3, <1>4

-----------------------------------------------------------------------------
(* What the sections are copies of                                         *)

\* The i-th section is the text between o and c, the first braces from `from` on,
\* and stands in the page with a zero behind.
Cut(i, from, o, c) ==
  /\ o = escaped_strchr(raw, from, "{") /\ c = escaped_strchr(raw, from, "}")
  /\ o \in from .. Len(raw) /\ c \in o + 1 .. Len(raw) - 1
  /\ sections[i] \in Nat /\ sections[i] + (c - o) <= used
  /\ \A k \in 1 .. c - o - 1 : page[sections[i] + k] = raw[o + k]
  /\ page[sections[i] + (c - o)] = NUL

\* Each section begins where the search for the one before it ended.
Cuts(o, c) ==
  /\ o \in [DOMAIN sections -> Nat] /\ c \in [DOMAIN sections -> Nat]
  /\ \A i \in DOMAIN sections : Cut(i, IF i = 1 THEN 1 ELSE c[i - 1] + 1, o[i], c[i])
  /\ cursor = IF sections = << >> THEN 1 ELSE c[Len(sections)] + 1

\* Unless a section ended before it began, the sections found so far are such cuts,
\* one behind the other.
AllPresent == \A i \in DOMAIN sections : Present(i)
SectionsCut == ~strayed /\ AllPresent => \E o, c : Cuts(o, c)

\* A section that was cut is read as it was written.
LEMMA CutIs ==
  ASSUME TextSound, NEW i \in DOMAIN sections, NEW from \in Nat \ {0}, NEW o,
         NEW c, Cut(i, from, o, c)
  PROVE  StringAt(sections[i]) = Between(raw, o, c)
<1>1. /\ raw \in Seq(Chars) /\ Len(raw) \in Nat /\ page \in Seq(Bytes) /\ NUL \notin Chars
      /\ used \in Nat /\ used <= Len(page) /\ Len(page) \in Nat
  BY RawIs DEF TextSound
<1>2. /\ o \in from .. Len(raw) /\ c \in o + 1 .. Len(raw) - 1
      /\ \A k \in 1 .. c - o - 1 : page[sections[i] + k] = raw[o + k]
      /\ page[sections[i] + (c - o)] = NUL
  BY DEF Cut
<1>3. PICK a \in Nat : a = sections[i] /\ a + (c - o) <= used
  BY DEF Cut
<1>4. o \in Nat /\ c \in Nat /\ 1 <= o /\ o < c /\ c < Len(raw)
  BY <1>1, <1>2
<1> DEFINE d == c - o
           zeros == {n \in a + 1 .. Len(page) : page[n] = NUL}
<1>5. d \in Nat /\ d >= 1 /\ a + d <= Len(page) /\ a + d \in Nat
  BY <1>1, <1>3, <1>4
<1>6. a + d \in zeros
  BY <1>2, <1>3, <1>5
<1>7. \A k \in 1 .. d - 1 : page[a + k] = raw[o + k] /\ raw[o + k] \in Chars
  <2>1. \A k \in 1 .. d - 1 : o + k \in 1 .. Len(raw)
    BY <1>1, <1>4
  <2>2. QED BY <1>1, <1>2, <1>3, <2>1, ElementOfSeq
<1>8. ASSUME NEW n \in zeros PROVE a + d <= n
  <2>1. CASE n < a + d
    <3>1. n - a \in 1 .. d - 1 /\ a + (n - a) = n
      BY <1>1, <1>5, <2>1
    <3>2. page[n] \in Chars
      BY <1>7, <3>1
    <3>3. QED BY <1>1, <3>2
  <2>2. QED BY <1>1, <1>5, <2>1
<1>9. zeros \in SUBSET Nat
  BY <1>1
<1>10. PICK z : z = Least(zeros)
  OBVIOUS
<1>11. z \in zeros /\ z <= a + d
  BY <1>6, <1>9, <1>10, LeastIs
<1>12. z = a + d
  BY <1>1, <1>5, <1>8, <1>11
<1>13. StringAt(a) = Between(page, a, a + d)
  BY <1>10, <1>12 DEF StringAt
<1> HIDE DEF d, zeros
<1>14. /\ Between(page, a, a + d) \in Seq(Bytes) /\ Len(Between(page, a, a + d)) = d - 1
       /\ \A k \in 1 .. d - 1 : Between(page, a, a + d)[k] = page[a + k]
  <2>2. PICK n \in Nat : n = a + d
    BY <1>5
  <2>1. a \in 0 .. Len(page) /\ n \in 1 .. Len(page) + 1 /\ a < n /\ n - 1 - a = d - 1
    BY <1>1, <1>5, <2>2
  <2>3. /\ Between(page, a, n) \in Seq(Bytes) /\ Len(Between(page, a, n)) = n - 1 - a
        /\ \A k \in 1 .. n - 1 - a : Between(page, a, n)[k] = page[a + k]
    <3>1. page \in Seq(Bytes)
      BY <1>1
    <3>2. QED BY <2>1, <3>1, BetweenIs
  <2>4. QED BY <2>1, <2>2, <2>3, Zenon
<1>15. /\ Between(raw, o, c) \in Seq(Chars) /\ Len(Between(raw, o, c)) = d - 1
       /\ \A k \in 1 .. d - 1 : Between(raw, o, c)[k] = raw[o + k]
  <2>1. /\ o \in 0 .. Len(raw) /\ c \in 1 .. Len(raw) + 1 /\ c - 1 - o = d - 1
    BY <1>1, <1>4 DEF d
  <2>2. /\ Between(raw, o, c) \in Seq(Chars) /\ Len(Between(raw, o, c)) = c - 1 - o
        /\ \A k \in 1 .. c - 1 - o : Between(raw, o, c)[k] = raw[o + k]
    BY <1>1, <1>4, <2>1, BetweenIs
  <2>3. QED BY <2>1, <2>2, Zenon
<1>16. Between(raw, o, c) \in Seq(Bytes)
  BY <1>15 DEF Bytes
<1>17. PICK p, r : p = Between(page, a, a + d) /\ r = Between(raw, o, c)
  OBVIOUS
<1>18. /\ p \in Seq(Bytes) /\ r \in Seq(Bytes) /\ Len(p) = d - 1 /\ Len(r) = d - 1
       /\ \A k \in 1 .. d - 1 : p[k] = page[a + k] /\ r[k] = raw[o + k]
  BY <1>14, <1>15, <1>16, <1>17, Zenon
<1>19. \A k \in 1 .. Len(p) : p[k] = r[k]
  BY <1>7, <1>18, Zenon
<1>20. p = r
  BY <1>18, <1>19, SeqEqual
<1>21. QED BY <1>3, <1>13, <1>17, <1>20, Zenon

\* A difference.
LEMMA GapIs ==
  ASSUME NEW p \in Nat, NEW n \in Int, NEW q \in p + 1 .. n
  PROVE  q - p \in Nat /\ q - p >= 1
OBVIOUS

\* A step that reads a section adds a cut.
LEMMA SectionReadCuts ==
  ASSUME TextSound, SectionsCut, SectionRead
  PROVE  SectionsCut'
<1> SUFFICES ASSUME ~strayed', AllPresent' PROVE \E o, c : Cuts(o, c)'
  BY DEF SectionsCut
<1>1. /\ Reading /\ Found /\ InPage /\ GetSection /\ raw' = raw
      /\ ~strayed /\ ~(Size < 0)
  BY DEF SectionRead
<1>2. /\ sections \in Seq(0 .. Len(page) - 1 \cup {NULL}) /\ Len(sections) \in Nat
      /\ DOMAIN sections = 1 .. Len(sections)
      /\ page \in Seq(Bytes) /\ Len(page) \in Nat /\ used \in Nat /\ used <= Len(page)
      /\ (page # << >> => page[Len(page)] = NUL) /\ cursor \in Nat
  BY DEF TextSound
<1>3. PICK L \in Nat : L = Len(sections)
  BY <1>2
<1>4. /\ sections' = Append(sections, Aligned) /\ DOMAIN sections' = 1 .. L + 1
      /\ sections'[L + 1] = Aligned /\ \A i \in 1 .. L : sections'[i] = sections[i]
      /\ sections' # << >> /\ Len(sections') = L + 1
  <2>1. sections' = Append(sections, Aligned)
    BY <1>1, Zenon DEF GetSection
  <2>2. Aligned \in Int
    BY <1>1, SectionIs
  <2>3. 0 .. Len(page) - 1 \cup {NULL} \subseteq Int
    BY DEF NULL
  <2>4. sections \in Seq(Int)
    BY <1>2, <2>3, SeqMonotonic, Zenon
  <2>5. QED BY <1>3, <2>1, <2>2, <2>4, AppendProperties
<1>5. AllPresent
  <2>1. \A i \in 1 .. L : i \in DOMAIN sections' /\ sections'[i] # NULL
    BY <1>4 DEF AllPresent, Present
  <2>2. QED BY <1>2, <1>3, <1>4, <2>1 DEF AllPresent, Present
<1>6. PICK o, c : Cuts(o, c)
  BY <1>1, <1>5 DEF SectionsCut
<1>7. /\ start \in cursor .. Len(raw) /\ end \in cursor .. Len(raw) - 1
      /\ Len(raw) \in Nat \ {0} /\ Size \in Int /\ Size # 0 /\ Size = end - start
      /\ Aligned \in Nat /\ used <= Aligned
      /\ Copied \in Seq(Bytes)
      /\ Size > 0 => /\ Len(Copied) = Size - 1
                     /\ \A k \in 1 .. Size - 1 : Copied[k] = raw[start + k]
  BY <1>1, SectionIs
<1>8. Size > 0
  BY <1>1, <1>7
<1>9. PICK d \in Nat : d = Size /\ d >= 1 /\ d - 1 \in Nat
  BY <1>7, <1>8
<1>10. PICK a \in Nat : a = Aligned /\ used <= a
  BY <1>7
<1>11. /\ \A k \in 1 .. d - 1 : page'[a + k] = raw[start + k]
       /\ page'[a + d] = NUL
       /\ \A n \in 1 .. a : n <= Len(page) => page'[n] = page[n]
  <2>1. page' = Written(a, Copied)
    BY <1>1, <1>10 DEF GetSection
  <2>2. /\ \A k \in 1 .. Len(Copied) : page'[a + k] = Copied[k]
        /\ page'[a + Len(Copied) + 1] = NUL
        /\ \A n \in 1 .. a : n <= Len(page) => page'[n] = page[n]
    <3>1. page \in Seq(Bytes) /\ (page # << >> => page[Len(page)] = NUL)
      BY <1>2
    <3>2. Copied \in Seq(Bytes)
      BY <1>7
    <3>3. PICK w, m : w = page' /\ m = Copied
      OBVIOUS
    <3>4. m \in Seq(Bytes) /\ w = Written(a, m)
      BY <2>1, <3>2, <3>3, Zenon
    <3>5. /\ \A k \in 1 .. Len(m) : w[a + k] = m[k]
          /\ w[a + Len(m) + 1] = NUL
          /\ \A n \in 1 .. a : n <= Len(page) => w[n] = page[n]
      BY <3>1, <3>4, WrittenIs
    <3>6. QED BY <3>3, <3>5, Zenon
  <2>3. Len(Copied) = d - 1 /\ a + (d - 1) + 1 = a + d
    BY <1>7, <1>8, <1>9
  <2>4. \A k \in 1 .. d - 1 : Copied[k] = raw[start + k]
    BY <1>7, <1>8, <1>9
  <2>5. QED BY <2>2, <2>3, <2>4
<1>12. used' = a + d /\ used <= used' /\ used' \in Nat
  BY <1>1, <1>2, <1>7, <1>9, <1>10 DEF GetSection
<1>20. PICK st, en : st = start /\ en = end
  OBVIOUS
<1> DEFINE oo == [i \in 1 .. L + 1 |-> IF i = L + 1 THEN st ELSE o[i]]
           cc == [i \in 1 .. L + 1 |-> IF i = L + 1 THEN en ELSE c[i]]
           From(f, i) == IF i = 1 THEN 1 ELSE f[i - 1] + 1
<1>13. /\ o \in [1 .. L -> Nat] /\ c \in [1 .. L -> Nat]
       /\ \A i \in 1 .. L : Cut(i, From(c, i), o[i], c[i])
       /\ cursor = From(c, L + 1)
  <2>1. sections = << >> <=> L = 0
    BY <1>2, <1>3, EmptySeq
  <2>2. (L + 1) - 1 = L /\ (L + 1 = 1 <=> L = 0)
    OBVIOUS
  <2>3. QED BY <1>2, <1>3, <1>6, <2>1, <2>2 DEF Cuts
<1>14. /\ oo \in [1 .. L + 1 -> Nat] /\ cc \in [1 .. L + 1 -> Nat]
       /\ \A i \in 1 .. L + 1 : From(cc, i) = From(c, i)
       /\ oo[L + 1] = st /\ cc[L + 1] = en
       /\ \A i \in 1 .. L : oo[i] = o[i] /\ cc[i] = c[i]
  <2>1. st \in Nat /\ en \in Nat
    BY <1>2, <1>7, <1>20
  <2>2. \A i \in 1 .. L + 1 : i # L + 1 => i \in 1 .. L
    OBVIOUS
  <2>3. \A i \in 1 .. L : i \in 1 .. L + 1 /\ i # L + 1
    OBVIOUS
  <2>4. oo \in [1 .. L + 1 -> Nat] /\ cc \in [1 .. L + 1 -> Nat]
    BY <1>13, <2>1, <2>2
  <2>5. \A i \in 1 .. L : oo[i] = o[i] /\ cc[i] = c[i]
    BY <2>3
  <2>6. \A i \in 1 .. L + 1 : i # 1 => i - 1 \in 1 .. L
    OBVIOUS
  <2>7. \A i \in 1 .. L + 1 : From(cc, i) = From(c, i)
    BY <2>5, <2>6
  <2>8. L + 1 \in 1 .. L + 1
    OBVIOUS
  <2>9. QED BY <2>4, <2>5, <2>7, <2>8
<1> HIDE DEF oo, cc
<1>15. ASSUME NEW i \in 1 .. L PROVE Cut(i, From(c, i), o[i], c[i])'
  <2>1. Cut(i, From(c, i), o[i], c[i])
    BY <1>13
  <2> HIDE DEF From
  <2>2. PICK f, p, q : f = From(c, i) /\ p = o[i] /\ q = c[i] /\ Cut(i, f, p, q)
    BY <2>1
  <2>3. PICK s \in Nat : s = sections[i] /\ s = sections'[i]
    BY <1>4, <2>2 DEF Cut
  <2>4. /\ p = escaped_strchr(raw, f, "{") /\ q = escaped_strchr(raw, f, "}")
        /\ p \in f .. Len(raw) /\ q \in p + 1 .. Len(raw) - 1
        /\ s + (q - p) <= used
    BY <2>2, <2>3 DEF Cut
  <2>5. /\ \A k \in 1 .. q - p - 1 : page[s + k] = raw[p + k]
        /\ page[s + (q - p)] = NUL
    BY <2>2, <2>3 DEF Cut
  <2>10. p \in Nat /\ q \in Nat /\ Len(raw) \in Nat
    BY <1>7, <1>13, <2>2
  <2>12. PICK e \in Nat : e = q - p /\ e >= 1 /\ s + e <= used
    <3>1. q - p \in Nat /\ q - p >= 1
      <4>1. PICK n \in Int : n = Len(raw) - 1
        BY <2>10
      <4>2. q \in p + 1 .. n
        BY <2>4, <4>1, Zenon
      <4>3. QED BY <2>10, <4>2, GapIs
    <3>2. QED BY <2>4, <3>1
  <2>6. \A k \in 1 .. q - p : page'[s + k] = page[s + k]
    <3>1. \A k \in 1 .. e : s + k \in 1 .. a /\ s + k <= Len(page)
      BY <1>2, <1>10, <2>12
    <3>2. QED BY <1>11, <2>12, <3>1
  <2>7. s + (q - p) <= used'
    BY <1>2, <1>12, <2>12
  <2>8. /\ \A k \in 1 .. q - p - 1 : page'[s + k] = raw[p + k]
        /\ page'[s + (q - p)] = NUL
    <3>1. q - p \in 1 .. q - p /\ \A k \in 1 .. q - p - 1 : k \in 1 .. q - p
      BY <2>12
    <3>2. QED BY <2>5, <2>6, <3>1
  <2>9. Cut(i, f, p, q)'
    BY <1>1, <2>3, <2>4, <2>7, <2>8 DEF Cut
  <2>11. QED BY <2>2, <2>9
<1>16. Cut(L + 1, From(c, L + 1), st, en)'
  <2>1. PICK f : f = From(c, L + 1) /\ f = cursor
    BY <1>13
  <2>2. st = escaped_strchr(raw, f, "{") /\ en = escaped_strchr(raw, f, "}")
    BY <1>20, <2>1 DEF start, end
  <2>3. /\ st \in Nat /\ en \in Nat /\ Len(raw) \in Nat /\ f \in Nat
        /\ st \in f .. Len(raw) /\ en \in f .. Len(raw) - 1 /\ d = en - st
    BY <1>2, <1>7, <1>9, <1>20, <2>1
  <2>4. en \in st + 1 .. Len(raw) - 1
    BY <1>9, <2>3
  <2>5. \A k \in 1 .. d - 1 : page'[a + k] = raw[st + k]
    BY <1>11, <1>20
  <2>6. a = sections'[L + 1] /\ a + d <= used' /\ page'[a + d] = NUL /\ raw' = raw
    BY <1>1, <1>4, <1>10, <1>11, <1>12
  <2> HIDE DEF From
  <2>7. Cut(L + 1, f, st, en)'
    BY <2>2, <2>3, <2>4, <2>5, <2>6 DEF Cut
  <2>8. QED BY <2>1, <2>7
<1>17. Cuts(oo, cc)'
  <2>1. \A i \in 1 .. L + 1 : Cut(i, From(cc, i), oo[i], cc[i])'
    <3>1. ASSUME NEW i \in 1 .. L + 1 PROVE Cut(i, From(cc, i), oo[i], cc[i])'
      <4> HIDE DEF From
      <4>1. CASE i = L + 1
        BY <1>14, <1>16, <4>1
      <4>2. CASE i \in 1 .. L
        BY <1>14, <1>15, <4>2
      <4>3. QED BY <4>1, <4>2
    <3>2. QED BY <3>1
  <2>2. cursor' = en + 1
    BY <1>1, <1>20 DEF GetSection
  <2>3. QED BY <1>4, <1>14, <2>1, <2>2 DEF Cuts
<1>18. QED BY <1>17

\* Whatever keeps raw and text keeps the cuts.
LEMMA SameCuts ==
  ASSUME SectionsCut, UNCHANGED <<raw, text, strayed>>
  PROVE  SectionsCut'
<1>1. UNCHANGED <<raw, cursor, page, used, sections, strayed>>
  BY DEF text
<1>2. AllPresent' = AllPresent /\ \A o, c : Cuts(o, c)' = Cuts(o, c)
  BY <1>1 DEF AllPresent, Present, Cuts, Cut
<1>3. QED BY <1>1, <1>2 DEF SectionsCut

\* A section that is not read leaves one missing; no other step touches them.
LEMMA NextCuts ==
  ASSUME Shape, SectionsCut, MakeReq
  PROVE  SectionsCut'
<1>1. CASE SectionRead
  BY <1>1, SectionReadCuts DEF Shape
<1>2. CASE SectionMissing \/ SectionRefused
  <2>1. sections' = Append(sections, NULL) /\ sections \in Seq(Int) /\ NULL \in Int
    BY <1>2 DEF SectionMissing, SectionRefused, GetNothing, Shape, TextSound, NULL
  <2>2. Len(sections) + 1 \in DOMAIN sections' /\ sections'[Len(sections) + 1] = NULL
    BY <2>1, AppendProperties, LenProperties
  <2>3. ~AllPresent'
    BY <2>2 DEF AllPresent, Present
  <2>4. QED BY <2>3 DEF SectionsCut
<1>3. CASE UNCHANGED <<raw, text, strayed>>
  BY <1>3, SameCuts
<1>4. SectionRead \/ SectionMissing \/ SectionRefused \/ UNCHANGED <<raw, text, strayed>>
  BY DEF MakeReq, Sections, Pairs, Allocate, AllocateFails, CheckFails, CheckPasses, NoFuncArena,
         SectionAborts, Incomplete, NoPayloadMemory, StartPairs, NoParams, SkipPair, AddParam,
         ParamLost, PairsDone, Finish, DestroyReq
<1>5. QED BY <1>1, <1>2, <1>3, <1>4

\* The request has the type and the payload of its sections.
Kept == /\ pc \in {"pairs", "finish", "accepted"} => req.request_type = string_type_to_int(Type)
        /\ pc = "accepted" => req.payload = Payload

\* What keeps the page and the sections keeps the three strings.
LEMMA SameStrings ==
  ASSUME UNCHANGED text
  PROVE  Type' = Type /\ Parameters' = Parameters /\ Payload' = Payload
BY DEF text, Type, Parameters, Payload, StringAt, Between

\* The type is set when the sections are judged, the payload in the end.
LEMMA NextKept ==
  ASSUME Shape, Kept, MakeReq
  PROVE  Kept'
<1>1. CASE StartPairs \/ NoParams
  <2>1. req' = [req EXCEPT !.request_type = string_type_to_int(Type)] /\ UNCHANGED text
        /\ pc' # "accepted"
    BY <1>1 DEF StartPairs, NoParams
  <2>2. req'.request_type = string_type_to_int(Type)
    BY <2>1 DEF Shape, RequestSound
  <2>3. QED BY <2>1, <2>2, SameStrings DEF Kept
<1>2. CASE Finish
  <2>1. req' = [req EXCEPT !.payload = Payload] /\ UNCHANGED text /\ pc = "finish" /\ pc' = "accepted"
    BY <1>2 DEF Finish
  <2>2. req'.payload = Payload /\ req'.request_type = req.request_type
    BY <2>1 DEF Shape, RequestSound
  <2>3. QED BY <2>1, <2>2, SameStrings DEF Kept
<1>3. CASE Pairs
  <2>1. pc = "pairs" /\ pc' \in {"pairs", "finish"} /\ UNCHANGED <<text, req>>
    BY <1>3 DEF Pairs, SkipPair, AddParam, ParamLost, PairsDone, AtPair
  <2>2. QED BY <2>1, SameStrings DEF Kept
<1>4. CASE Sections
  <2>1. pc' \in {"sections", "aborted"}
    BY <1>4 DEF Sections, SectionRead, SectionMissing, SectionRefused, SectionAborts, Reading
  <2>2. QED BY <2>1 DEF Kept
<1>5. CASE Allocate \/ AllocateFails \/ CheckFails \/ CheckPasses \/ NoFuncArena
           \/ Incomplete \/ NoPayloadMemory \/ DestroyReq
  <2>1. pc' \in {"check", "refused", "refuse", "sections"}
    BY <1>5 DEF Allocate, AllocateFails, CheckFails, CheckPasses, NoFuncArena, Incomplete,
                NoPayloadMemory, DestroyReq
  <2>2. QED BY <2>1 DEF Kept
<1>6. QED BY <1>1, <1>2, <1>3, <1>4, <1>5 DEF MakeReq

-----------------------------------------------------------------------------
(* Requests of the documented form                                         *)

\* The text is of the form request.h describes.
Good == PlainlyEscaped(raw) /\ Formed(raw, Braces(raw))

\* Nothing before p stops a search for c that starts at `from`.
Stops(s, from, p, c) ==
  /\ from \in Nat \ {0} /\ p \in from .. Len(s)
  /\ s[p] = c /\ ~is_escaped(s, p)
  /\ \A n \in from .. p - 1 : s[n] = c => is_escaped(s, n)

\* It is then p that the search finds.
LEMMA StrchrAt ==
  ASSUME NEW S, NEW s \in Seq(S), NEW from, NEW p, NEW c, Stops(s, from, p, c)
  PROVE  escaped_strchr(s, from, c) = p
<1>0. /\ from \in Nat \ {0} /\ p \in from .. Len(s)
      /\ s[p] = c /\ ~is_escaped(s, p)
      /\ \A n \in from .. p - 1 : s[n] = c => is_escaped(s, n)
  BY DEF Stops
<1>1. Len(s) \in Nat
  BY LenProperties
<1>2. p \in Delimiters(s, from, c)
  BY <1>0, <1>1 DEF Delimiters
<1>3. PICK e : e = escaped_strchr(s, from, c)
  OBVIOUS
<1>4. \/ e = 0 /\ Delimiters(s, from, c) = {}
      \/ /\ e \in from .. Len(s) /\ s[e] = c /\ ~is_escaped(s, e)
         /\ \A n \in Delimiters(s, from, c) : e <= n
  BY <1>0, <1>3, StrchrIs
<1>5. e \in from .. Len(s) /\ s[e] = c /\ ~is_escaped(s, e) /\ e <= p
  BY <1>0, <1>2, <1>4
<1>6. e \notin from .. p - 1
  BY <1>0, <1>5
<1>7. e = p
  BY <1>0, <1>1, <1>5, <1>6
<1>8. QED BY <1>3, <1>7

\* Six numbers, each smaller than the next.
LEMMA SixIs ==
  ASSUME NEW U \in SUBSET Nat, NEW b \in [1 .. 6 -> U],
         \A j, k \in 1 .. 6 : j < k => b[j] < b[k],
         \A n \in U : \E k \in 1 .. 6 : b[k] = n
  PROVE  /\ {b[1], b[2], b[3], b[4], b[5], b[6]} = U
         /\ b[1] < b[2] /\ b[2] < b[3] /\ b[3] < b[4] /\ b[4] < b[5] /\ b[5] < b[6]
<1>1. /\ 1 \in 1 .. 6 /\ 2 \in 1 .. 6 /\ 3 \in 1 .. 6 /\ 4 \in 1 .. 6 /\ 5 \in 1 .. 6 /\ 6 \in 1 .. 6
      /\ 1 < 2 /\ 2 < 3 /\ 3 < 4 /\ 4 < 5 /\ 5 < 6
      /\ \A k \in 1 .. 6 : k \in {1, 2, 3, 4, 5, 6}
  OBVIOUS
<1>2. b[1] < b[2] /\ b[2] < b[3] /\ b[3] < b[4] /\ b[4] < b[5] /\ b[5] < b[6]
  BY <1>1
<1>3. {b[1], b[2], b[3], b[4], b[5], b[6]} \subseteq U
  BY <1>1
<1>4. \A n \in U : n \in {b[1], b[2], b[3], b[4], b[5], b[6]}
  BY <1>1
<1>5. QED BY <1>2, <1>3, <1>4

\* The unescaped braces of s are these six.
SixBraces(s, o1, c1, o2, c2, o3, c3) ==
  /\ \A n \in 1 .. Len(s) : s[n] = "{" => is_escaped(s, n) \/ n \in {o1, o2, o3}
  /\ \A n \in 1 .. Len(s) : s[n] = "}" => is_escaped(s, n) \/ n \in {c1, c2, c3}
  /\ s[o1] = "{" /\ s[c1] = "}" /\ s[o2] = "{" /\ s[c2] = "}" /\ s[o3] = "{" /\ s[c3] = "}"
  /\ ~is_escaped(s, o1) /\ ~is_escaped(s, c1) /\ ~is_escaped(s, o2)
  /\ ~is_escaped(s, c2) /\ ~is_escaped(s, o3) /\ ~is_escaped(s, c3)

\* They lie apart.
Rising(l, o1, c1, o2, c2, o3, c3) ==
  /\ {o1, c1, o2, c2, o3, c3} \subseteq 1 .. l
  /\ o1 < c1 /\ c1 < o2 /\ o2 < c2 /\ c2 < o3 /\ o3 < c3

\* Between two of the six are only those in between.
LEMMA SixApart ==
  ASSUME NEW l \in Nat, NEW o1, NEW c1, NEW o2, NEW c2, NEW o3, NEW c3,
         Rising(l, o1, c1, o2, c2, o3, c3)
  PROVE  /\ o1 \in 1 .. l /\ \A n \in 1 .. o1 - 1 : n \in 1 .. l /\ n \notin {o1, o2, o3}
         /\ c1 \in 1 .. l /\ \A n \in 1 .. c1 - 1 : n \in 1 .. l /\ n \notin {c1, c2, c3}
         /\ o2 \in c1 + 1 .. l /\ \A n \in c1 + 1 .. o2 - 1 : n \in 1 .. l /\ n \notin {o1, o2, o3}
         /\ c2 \in c1 + 1 .. l /\ \A n \in c1 + 1 .. c2 - 1 : n \in 1 .. l /\ n \notin {c1, c2, c3}
         /\ o3 \in c2 + 1 .. l /\ \A n \in c2 + 1 .. o3 - 1 : n \in 1 .. l /\ n \notin {o1, o2, o3}
         /\ c3 \in c2 + 1 .. l /\ \A n \in c2 + 1 .. c3 - 1 : n \in 1 .. l /\ n \notin {c1, c2, c3}
         /\ c1 + 1 \in Nat \ {0} /\ c2 + 1 \in Nat \ {0} /\ 1 \in Nat \ {0}
BY DEF Rising

\* Where they are found.
LEMMA SixFound ==
  ASSUME NEW S, NEW s \in Seq(S),
         NEW o1, NEW c1, NEW o2, NEW c2, NEW o3, NEW c3,
         Rising(Len(s), o1, c1, o2, c2, o3, c3), SixBraces(s, o1, c1, o2, c2, o3, c3)
  PROVE  /\ escaped_strchr(s, 1, "{") = o1 /\ escaped_strchr(s, 1, "}") = c1
         /\ escaped_strchr(s, c1 + 1, "{") = o2 /\ escaped_strchr(s, c1 + 1, "}") = c2
         /\ escaped_strchr(s, c2 + 1, "{") = o3 /\ escaped_strchr(s, c2 + 1, "}") = c3
<1>1. PICK l \in Nat : l = Len(s)
  BY LenProperties
<1>2. Rising(l, o1, c1, o2, c2, o3, c3)
  BY <1>1
<1>3. /\ o1 \in 1 .. l /\ \A n \in 1 .. o1 - 1 : n \in 1 .. l /\ n \notin {o1, o2, o3}
      /\ c1 \in 1 .. l /\ \A n \in 1 .. c1 - 1 : n \in 1 .. l /\ n \notin {c1, c2, c3}
      /\ o2 \in c1 + 1 .. l /\ \A n \in c1 + 1 .. o2 - 1 : n \in 1 .. l /\ n \notin {o1, o2, o3}
      /\ c2 \in c1 + 1 .. l /\ \A n \in c1 + 1 .. c2 - 1 : n \in 1 .. l /\ n \notin {c1, c2, c3}
      /\ o3 \in c2 + 1 .. l /\ \A n \in c2 + 1 .. o3 - 1 : n \in 1 .. l /\ n \notin {o1, o2, o3}
      /\ c3 \in c2 + 1 .. l /\ \A n \in c2 + 1 .. c3 - 1 : n \in 1 .. l /\ n \notin {c1, c2, c3}
      /\ c1 + 1 \in Nat \ {0} /\ c2 + 1 \in Nat \ {0} /\ 1 \in Nat \ {0}
  BY <1>2, SixApart
<1>4. Stops(s, 1, o1, "{")
  BY <1>1, <1>3, Zenon DEF Stops, SixBraces
<1>5. Stops(s, 1, c1, "}")
  BY <1>1, <1>3, Zenon DEF Stops, SixBraces
<1>6. Stops(s, c1 + 1, o2, "{")
  BY <1>1, <1>3, Zenon DEF Stops, SixBraces
<1>7. Stops(s, c1 + 1, c2, "}")
  BY <1>1, <1>3, Zenon DEF Stops, SixBraces
<1>8. Stops(s, c2 + 1, o3, "{")
  BY <1>1, <1>3, Zenon DEF Stops, SixBraces
<1>9. Stops(s, c2 + 1, c3, "}")
  BY <1>1, <1>3, Zenon DEF Stops, SixBraces
<1>10. QED BY <1>4, <1>5, <1>6, <1>7, <1>8, <1>9, StrchrAt

\* The six braces of a request of the documented form, and its delimiters.
LEMMA FormedIs ==
  ASSUME raw \in Raws, Good, NEW b, b = Braces(raw)
  PROVE  /\ {b[1], b[2], b[3], b[4], b[5], b[6]} \subseteq 1 .. Len(raw)
         /\ b[1] < b[2] /\ b[2] < b[3] /\ b[3] < b[4] /\ b[4] < b[5] /\ b[5] < b[6]
         /\ b[2] # b[1] + 1
         /\ Delimited
         /\ escaped_strchr(raw, 1, "{") = b[1] /\ escaped_strchr(raw, 1, "}") = b[2]
         /\ escaped_strchr(raw, b[2] + 1, "{") = b[3] /\ escaped_strchr(raw, b[2] + 1, "}") = b[4]
         /\ escaped_strchr(raw, b[4] + 1, "{") = b[5] /\ escaped_strchr(raw, b[4] + 1, "}") = b[6]
<1>1. /\ raw \in Seq(Chars) /\ Len(raw) \in Nat \ {0} /\ DOMAIN raw = 1 .. Len(raw)
      /\ raw[Len(raw)] = "]"
  BY RawIs
<1>2. /\ PlainlyEscaped(raw) /\ Len(b) = 6 /\ raw[1] = "["
      /\ \A k \in 1 .. 6 : raw[b[k]] = IF k % 2 = 1 THEN "{" ELSE "}"
      /\ b[1] = 2 /\ b[3] = b[2] + 1 /\ b[5] = b[4] + 1 /\ b[6] = Len(raw) - 1
      /\ b[2] # b[1] + 1
  BY DEF Good, Formed
<1>3. PICK U : U = Unmasked(raw, {"{", "}"})
  OBVIOUS
<1>4. U = {n \in 1 .. Len(raw) : raw[n] \in {"{", "}"} /\ ~is_escaped(raw, n)}
      /\ U \in SUBSET Nat /\ IsFiniteSet(U)
  BY <1>1, <1>2, <1>3, UnmaskedIs
<1>5. PICK c : c = Cardinality(U)
  OBVIOUS
<1>6. b = Increasing(U)
  BY <1>3 DEF Braces
<1>7. /\ c \in Nat /\ b \in [1 .. c -> U]
      /\ \A j, k \in 1 .. c : j < k => b[j] < b[k]
      /\ \A n \in U : \E k \in 1 .. c : b[k] = n
  <2>1. U \in SUBSET Nat /\ IsFiniteSet(U)
    BY <1>4
  <2>2. QED BY <1>5, <1>6, <2>1, IncreasingIs
<1>8. c = 6
  <2>1. b \in Seq(U) /\ DOMAIN b = 1 .. c
    BY <1>7
  <2>2. Len(b) = c
    BY <1>7, <2>1, LenProperties
  <2>3. QED BY <1>2, <2>2
<1>9. /\ {b[1], b[2], b[3], b[4], b[5], b[6]} = U
      /\ b[1] < b[2] /\ b[2] < b[3] /\ b[3] < b[4] /\ b[4] < b[5] /\ b[5] < b[6]
  <2>1. /\ U \in SUBSET Nat /\ b \in [1 .. 6 -> U]
        /\ \A j, k \in 1 .. 6 : j < k => b[j] < b[k]
        /\ \A n \in U : \E k \in 1 .. 6 : b[k] = n
    BY <1>4, <1>7, <1>8
  <2>2. QED BY <2>1, SixIs
<1>10. /\ raw[b[1]] = "{" /\ raw[b[2]] = "}" /\ raw[b[3]] = "{"
       /\ raw[b[4]] = "}" /\ raw[b[5]] = "{" /\ raw[b[6]] = "}"
  <2>1. /\ raw[b[1]] = IF 1 % 2 = 1 THEN "{" ELSE "}"
        /\ raw[b[2]] = IF 2 % 2 = 1 THEN "{" ELSE "}"
        /\ raw[b[3]] = IF 3 % 2 = 1 THEN "{" ELSE "}"
        /\ raw[b[4]] = IF 4 % 2 = 1 THEN "{" ELSE "}"
        /\ raw[b[5]] = IF 5 % 2 = 1 THEN "{" ELSE "}"
        /\ raw[b[6]] = IF 6 % 2 = 1 THEN "{" ELSE "}"
    <3>1. 1 \in 1 .. 6 /\ 2 \in 1 .. 6 /\ 3 \in 1 .. 6 /\ 4 \in 1 .. 6 /\ 5 \in 1 .. 6 /\ 6 \in 1 .. 6
      OBVIOUS
    <3>2. QED BY <1>2, <3>1, Zenon
  <2>2. 1 % 2 = 1 /\ 2 % 2 # 1 /\ 3 % 2 = 1 /\ 4 % 2 # 1 /\ 5 % 2 = 1 /\ 6 % 2 # 1
    OBVIOUS
  <2>3. QED BY <2>1, <2>2, Zenon
<1>11. PICK o1, c1, o2, c2, o3, c3 :
         o1 = b[1] /\ c1 = b[2] /\ o2 = b[3] /\ c2 = b[4] /\ o3 = b[5] /\ c3 = b[6]
  OBVIOUS
<1>12. {o1, c1, o2, c2, o3, c3} \subseteq 1 .. Len(raw)
  BY <1>4, <1>9, <1>11
<1>13. o1 < c1 /\ c1 < o2 /\ o2 < c2 /\ c2 < o3 /\ o3 < c3
  BY <1>9, <1>11
<1>14. Delimited
  <2>1. o1 = 2 /\ c3 = Len(raw) - 1 /\ c1 # o1 + 1
    BY <1>2, <1>11
  <2>2. Len(raw) >= 8
    BY <1>1, <1>12, <1>13, <2>1
  <2>3. QED BY <1>1, <1>2, <2>2 DEF Delimited
<1>15. /\ escaped_strchr(raw, 1, "{") = o1 /\ escaped_strchr(raw, 1, "}") = c1
       /\ escaped_strchr(raw, c1 + 1, "{") = o2 /\ escaped_strchr(raw, c1 + 1, "}") = c2
       /\ escaped_strchr(raw, c2 + 1, "{") = o3 /\ escaped_strchr(raw, c2 + 1, "}") = c3
  <2>1. {o1, c1, o2, c2, o3, c3} = U
    BY <1>9, <1>11
  <2>2. /\ \A n \in 1 .. Len(raw) : raw[n] \in {"{", "}"} => is_escaped(raw, n) \/ n \in U
        /\ \A n \in U : ~is_escaped(raw, n)
    BY <1>4
  <2>3. raw[o1] = "{" /\ raw[c1] = "}" /\ raw[o2] = "{" /\ raw[c2] = "}" /\ raw[o3] = "{" /\ raw[c3] = "}"
    BY <1>10, <1>11, Zenon
  <2>4. "{" # "}"
    OBVIOUS
  <2>5. SixBraces(raw, o1, c1, o2, c2, o3, c3)
    <3>1. ASSUME NEW n \in 1 .. Len(raw), raw[n] = "{", ~is_escaped(raw, n)
          PROVE  n \in {o1, o2, o3}
      <4>1. n \in {o1, c1, o2, c2, o3, c3}
        BY <2>1, <2>2, <3>1, Zenon
      <4>2. n # c1 /\ n # c2 /\ n # c3
        BY <2>3, <2>4, <3>1, Zenon
      <4>3. QED BY <4>1, <4>2, Zenon
    <3>2. ASSUME NEW n \in 1 .. Len(raw), raw[n] = "}", ~is_escaped(raw, n)
          PROVE  n \in {c1, c2, c3}
      <4>1. n \in {o1, c1, o2, c2, o3, c3}
        BY <2>1, <2>2, <3>2, Zenon
      <4>2. n # o1 /\ n # o2 /\ n # o3
        BY <2>3, <2>4, <3>2, Zenon
      <4>3. QED BY <4>1, <4>2, Zenon
    <3>3. QED BY <2>1, <2>2, <2>3, <3>1, <3>2, Zenon DEF SixBraces
  <2>6. Rising(Len(raw), o1, c1, o2, c2, o3, c3)
    BY <1>12, <1>13 DEF Rising
  <2>7. raw \in Seq(Chars)
    BY <1>1
  <2>8. QED BY <2>5, <2>6, <2>7, SixFound
<1>16. {b[1], b[2], b[3], b[4], b[5], b[6]} \subseteq 1 .. Len(raw)
  BY <1>4, <1>9
<1>17. /\ escaped_strchr(raw, 1, "{") = b[1] /\ escaped_strchr(raw, 1, "}") = b[2]
       /\ escaped_strchr(raw, b[2] + 1, "{") = b[3] /\ escaped_strchr(raw, b[2] + 1, "}") = b[4]
       /\ escaped_strchr(raw, b[4] + 1, "{") = b[5] /\ escaped_strchr(raw, b[4] + 1, "}") = b[6]
  BY <1>11, <1>15, Zenon
<1>18. b[2] # b[1] + 1
  BY <1>2
<1>19. QED BY <1>9, <1>14, <1>16, <1>17, <1>18, Zenon

\* The cuts of such a request are at its braces.
LEMMA CutsAre ==
  ASSUME TextSound, Good, NEW o, NEW c, Cuts(o, c), NEW b, b = Braces(raw)
  PROVE  /\ Len(sections) \in 0 .. 3
         /\ Len(sections) >= 1 => o[1] = b[1] /\ c[1] = b[2]
         /\ Len(sections) >= 2 => o[2] = b[3] /\ c[2] = b[4]
         /\ Len(sections) >= 3 => o[3] = b[5] /\ c[3] = b[6]
         /\ Len(sections) = 0 => cursor = 1
         /\ Len(sections) = 1 => cursor = b[2] + 1
         /\ Len(sections) = 2 => cursor = b[4] + 1
<1>1. PICK l \in 0 .. 3 : l = Len(sections)
  <2>1. Len(sections) \in Nat /\ Len(sections) <= 3
    BY DEF TextSound
  <2>2. \A n \in Nat : n <= 3 => n \in 0 .. 3
    OBVIOUS
  <2>3. QED BY <2>1, <2>2, Zenon
<1>2. DOMAIN sections = 1 .. l /\ (sections = << >> <=> l = 0)
  <2>1. sections \in Seq(0 .. Len(page) - 1 \cup {NULL})
    BY DEF TextSound
  <2>2. QED BY <1>1, <2>1, LenProperties, EmptySeq
<1>3. /\ \A i \in 1 .. l : /\ o[i] = escaped_strchr(raw, IF i = 1 THEN 1 ELSE c[i - 1] + 1, "{")
                           /\ c[i] = escaped_strchr(raw, IF i = 1 THEN 1 ELSE c[i - 1] + 1, "}")
      /\ cursor = IF l = 0 THEN 1 ELSE c[l] + 1
  BY <1>1, <1>2 DEF Cuts, Cut
<1>4. /\ escaped_strchr(raw, 1, "{") = b[1] /\ escaped_strchr(raw, 1, "}") = b[2]
      /\ escaped_strchr(raw, b[2] + 1, "{") = b[3] /\ escaped_strchr(raw, b[2] + 1, "}") = b[4]
      /\ escaped_strchr(raw, b[4] + 1, "{") = b[5] /\ escaped_strchr(raw, b[4] + 1, "}") = b[6]
  BY FormedIs DEF TextSound
<1>5. l >= 1 => /\ o[1] = escaped_strchr(raw, 1, "{") /\ c[1] = escaped_strchr(raw, 1, "}")
  <2>1. l >= 1 => 1 \in 1 .. l
    OBVIOUS
  <2>2. QED BY <1>3, <2>1, Zenon
<1>6. l >= 2 => /\ o[2] = escaped_strchr(raw, c[1] + 1, "{")
                /\ c[2] = escaped_strchr(raw, c[1] + 1, "}")
  <2>1. l >= 2 => 2 \in 1 .. l /\ 2 # 1 /\ 2 - 1 = 1
    OBVIOUS
  <2>2. QED BY <1>3, <2>1
<1>7. l >= 3 => /\ o[3] = escaped_strchr(raw, c[2] + 1, "{")
                /\ c[3] = escaped_strchr(raw, c[2] + 1, "}")
  <2>1. l >= 3 => 3 \in 1 .. l /\ 3 # 1 /\ 3 - 1 = 2
    OBVIOUS
  <2>2. QED BY <1>3, <2>1
<1>8. (l >= 2 => l >= 1) /\ (l >= 3 => l >= 2)
  OBVIOUS
<1>9. l >= 1 => o[1] = b[1] /\ c[1] = b[2]
  BY <1>4, <1>5, Zenon
<1>10. l >= 2 => o[2] = b[3] /\ c[2] = b[4]
  BY <1>4, <1>6, <1>8, <1>9, Zenon
<1>11. l >= 3 => o[3] = b[5] /\ c[3] = b[6]
  BY <1>4, <1>7, <1>8, <1>10, Zenon
<1>12. /\ l = 0 => cursor = 1
       /\ l = 1 => cursor = c[1] + 1
       /\ l = 2 => cursor = c[2] + 1
  <2>1. 1 # 0 /\ 2 # 0
    OBVIOUS
  <2>2. QED BY <1>3, <2>1, Zenon
<1>13. (l = 1 => l >= 1) /\ (l = 2 => l >= 2)
  OBVIOUS
<1>14. QED BY <1>1, <1>9, <1>10, <1>11, <1>12, <1>13, Zenon

\* The next section of such a request is found, and memory is all it lacks.
LEMMA NextSection ==
  ASSUME TextSound, Good, SectionsCut, ~strayed, AllPresent, Reading
  PROVE  Found /\ Size > 0 /\ InPage /\ WrapsTwice
<1>1. PICK o, c : Cuts(o, c)
  BY DEF SectionsCut
<1>2. PICK b : b = Braces(raw)
  OBVIOUS
<1>3. /\ Len(sections) \in 0 .. 3
      /\ Len(sections) = 0 => cursor = 1
      /\ Len(sections) = 1 => cursor = b[2] + 1
      /\ Len(sections) = 2 => cursor = b[4] + 1
  BY <1>1, <1>2, CutsAre
<1>4. Len(sections) \in {0, 1, 2}
  BY <1>3 DEF Reading, Names
<1>5. /\ {b[1], b[2], b[3], b[4], b[5], b[6]} \subseteq 1 .. Len(raw)
      /\ b[1] < b[2] /\ b[3] < b[4] /\ b[5] < b[6]
      /\ escaped_strchr(raw, 1, "{") = b[1] /\ escaped_strchr(raw, 1, "}") = b[2]
      /\ escaped_strchr(raw, b[2] + 1, "{") = b[3] /\ escaped_strchr(raw, b[2] + 1, "}") = b[4]
      /\ escaped_strchr(raw, b[4] + 1, "{") = b[5] /\ escaped_strchr(raw, b[4] + 1, "}") = b[6]
  BY <1>2, FormedIs DEF TextSound
<1>6. \/ start = b[1] /\ end = b[2]
      \/ start = b[3] /\ end = b[4]
      \/ start = b[5] /\ end = b[6]
  BY <1>3, <1>4, <1>5, Zenon DEF start, end
<1>7. PICK st, en : st = start /\ en = end
  OBVIOUS
<1>8. Len(raw) \in Nat /\ st \in 1 .. Len(raw) /\ en \in 1 .. Len(raw) /\ st < en
  BY <1>5, <1>6, <1>7, RawIs DEF TextSound
<1>9. Found /\ Size > 0 /\ Size \in Nat
  BY <1>7, <1>8 DEF Found, Size
<1>10. InPage /\ WrapsTwice
  <2>1. Aligned \in Nat /\ Align \in Nat \ {0}
    BY <1>9, SectionIs, RequestAssumption
  <2>2. QED BY <1>9, <2>1 DEF InPage, WrapsTwice
<1>11. QED BY <1>9, <1>10

\* Such a request is not refused while memory lasts.
FormedSound ==
  Good /\ ~oom => pc \notin {"refuse", "refused", "aborted"} /\ ~strayed /\ AllPresent

\* With its three sections such a request is complete.
LEMMA GoodComplete ==
  ASSUME TextSound, Good, SectionsCut, ~strayed, AllPresent, Len(sections) = 3,
         NEW b, b = Braces(raw)
  PROVE  /\ Complete
         /\ Type = Between(raw, b[1], b[2])
         /\ Parameters = Between(raw, b[3], b[4])
         /\ Payload = Between(raw, b[5], b[6])
<1>1. PICK o, c : Cuts(o, c)
  BY DEF SectionsCut
<1>2. o[1] = b[1] /\ c[1] = b[2] /\ o[2] = b[3] /\ c[2] = b[4] /\ o[3] = b[5] /\ c[3] = b[6]
  <2>1. Len(sections) >= 1 /\ Len(sections) >= 2 /\ Len(sections) >= 3
    OBVIOUS
  <2>2. QED BY <1>1, <2>1, CutsAre
<1>3. DOMAIN sections = 1 .. 3 /\ 1 \in DOMAIN sections /\ 2 \in DOMAIN sections /\ 3 \in DOMAIN sections
  BY DEF TextSound
<1>4. ASSUME NEW i \in DOMAIN sections PROVE StringAt(sections[i]) = Between(raw, o[i], c[i])
  <2>1. PICK f : f = (IF i = 1 THEN 1 ELSE c[i - 1] + 1) /\ Cut(i, f, o[i], c[i])
    BY <1>1 DEF Cuts
  <2>2. f \in Nat \ {0}
    <3>1. i # 1 => i - 1 \in DOMAIN sections
      BY <1>3
    <3>2. c \in [DOMAIN sections -> Nat]
      BY <1>1 DEF Cuts
    <3>3. QED BY <2>1, <3>1, <3>2
  <2>3. QED BY <2>1, <2>2, CutIs
<1>5. /\ Type = Between(raw, b[1], b[2])
      /\ Parameters = Between(raw, b[3], b[4])
      /\ Payload = Between(raw, b[5], b[6])
  BY <1>2, <1>3, <1>4, Zenon DEF Type, Parameters, Payload
<1>6. Type # << >>
  <2>1. /\ {b[1], b[2], b[3], b[4], b[5], b[6]} \subseteq 1 .. Len(raw)
        /\ b[1] < b[2] /\ b[2] # b[1] + 1
    BY FormedIs DEF TextSound
  <2>2. PICK p, q : p = b[1] /\ q = b[2]
    OBVIOUS
  <2>3. raw \in Seq(Chars) /\ Len(raw) \in Nat
    BY RawIs DEF TextSound
  <2>4. p \in 0 .. Len(raw) /\ q \in 1 .. Len(raw) + 1 /\ p < q /\ q - 1 - p > 0
    <3>1. PICK l \in Nat : l = Len(raw)
      BY <2>3
    <3>2. p \in 1 .. l /\ q \in 1 .. l /\ p < q /\ q # p + 1
      BY <2>1, <2>2, <3>1, Zenon
    <3>3. p \in 0 .. l /\ q \in 1 .. l + 1 /\ p < q /\ q - 1 - p > 0
      BY <3>2
    <3>4. QED BY <3>1, <3>3, Zenon
  <2>5. Len(Between(raw, p, q)) = q - 1 - p
    BY <2>3, <2>4, BetweenIs
  <2>6. Len(Between(raw, p, q)) > 0
    BY <2>4, <2>5
  <2>7. Between(raw, p, q) # << >>
    BY <2>6
  <2>8. QED BY <1>5, <2>2, <2>7, Zenon
<1>7. NULL \notin {sections[i] : i \in DOMAIN sections}
  BY DEF AllPresent, Present
<1>8. QED BY <1>5, <1>6, <1>7 DEF Complete

\* Every refusal of such a request needs an allocation that fails.
LEMMA NextFormed ==
  ASSUME Shape, SectionsCut, FormedSound, MakeReq
  PROVE  FormedSound'
<1> SUFFICES ASSUME Good', ~oom'
             PROVE  pc' \notin {"refuse", "refused", "aborted"} /\ ~strayed' /\ AllPresent'
  BY DEF FormedSound
<1>1. raw' = raw /\ Good /\ ~oom
  <2>1. raw' = raw
    BY DEF MakeReq, Sections, Pairs, Allocate, AllocateFails, CheckFails, CheckPasses,
       NoFuncArena,
           SectionRead, SectionMissing, SectionRefused, SectionAborts, Incomplete, NoPayloadMemory,
           StartPairs, NoParams, SkipPair, AddParam, ParamLost, PairsDone, Finish, DestroyReq, vars
  <2>2. Good
    BY <2>1 DEF Good
  <2>3. oom' = oom \/ oom' = TRUE \/ oom' = (oom \/ WrapsTwice)
    BY DEF MakeReq, Sections, Pairs, Allocate, AllocateFails, CheckFails, CheckPasses,
       NoFuncArena,
           SectionRead, SectionMissing, SectionRefused, SectionAborts, Incomplete, NoPayloadMemory,
           StartPairs, NoParams, SkipPair, AddParam, ParamLost, PairsDone, Finish, DestroyReq, vars
  <2>4. oom \in BOOLEAN
    BY DEF Shape, RequestSound
  <2>5. ~oom
    BY <2>3, <2>4, Zenon
  <2>6. QED BY <2>1, <2>2, <2>5, Zenon
<1>2. pc \notin {"refuse", "refused", "aborted"} /\ ~strayed /\ AllPresent
  BY <1>1 DEF FormedSound
<1>3. TextSound
  BY DEF Shape
<1>4. CASE Sections
  <2>1. Reading
    BY <1>4 DEF Sections, SectionRead, SectionMissing, SectionRefused, SectionAborts
  <2>2. Found /\ Size > 0 /\ InPage /\ WrapsTwice
    BY <1>1, <1>2, <1>3, <2>1, NextSection
  <2>3. SectionRead
    BY <1>4, <2>2 DEF Sections, SectionMissing, SectionRefused, SectionAborts
  <2>4. pc' = "sections" /\ sections' = Append(sections, Aligned)
        /\ strayed' = (strayed \/ Size < 0)
    BY <2>3 DEF SectionRead, GetSection, Reading
  <2>5. Size \in Int /\ Aligned \in Nat
    BY <1>3, <2>2, SectionIs
  <2>6. ~strayed'
    <3>1. ~(Size < 0)
      BY <2>2, <2>5
    <3>2. QED BY <1>2, <2>4, <3>1, Zenon
  <2>7. AllPresent'
    <3>1. PICK a \in Nat : a = Aligned
      BY <2>5
    <3>2. sections \in Seq(Int) /\ a # NULL /\ a \in Int
      BY <1>3 DEF TextSound, NULL
    <3>3. PICK l \in Nat : l = Len(sections)
      BY <3>2, LenProperties
    <3>4. /\ DOMAIN sections = 1 .. l /\ DOMAIN sections' = 1 .. l + 1
          /\ sections'[l + 1] = a /\ \A i \in 1 .. l : sections'[i] = sections[i]
      BY <2>4, <3>1, <3>2, <3>3, AppendProperties, LenProperties
    <3>5. \A i \in 1 .. l : sections[i] # NULL
      BY <1>2, <3>4 DEF AllPresent, Present
    <3>6. \A i \in 1 .. l + 1 : i = l + 1 \/ i \in 1 .. l
      OBVIOUS
    <3>7. \A i \in 1 .. l + 1 : sections'[i] # NULL
      BY <3>2, <3>4, <3>5, <3>6, Zenon
    <3>8. QED BY <3>4, <3>7 DEF AllPresent, Present
  <2>8. QED BY <2>4, <2>6, <2>7
<1>5. CASE Incomplete
  <2>1. Len(sections) = 3 /\ ~Complete
    BY <1>5 DEF Incomplete, Judged, Names
  <2>2. PICK b : b = Braces(raw)
    OBVIOUS
  <2>3. Complete
    BY <1>1, <1>2, <1>3, <2>1, <2>2, GoodComplete
  <2>4. QED BY <2>1, <2>3
<1>6. CASE CheckFails
  <2>1. ~Delimited
    BY <1>6 DEF CheckFails
  <2>2. PICK b : b = Braces(raw)
    OBVIOUS
  <2>3. Delimited
    BY <1>1, <1>3, <2>2, FormedIs DEF TextSound
  <2>4. QED BY <2>1, <2>3
<1>7. CASE AllocateFails \/ NoFuncArena \/ NoPayloadMemory \/ DestroyReq \/ NoParams \/ ParamLost
  BY <1>2, <1>7 DEF AllocateFails, NoFuncArena, NoPayloadMemory, DestroyReq, NoParams, ParamLost
<1>8. CASE Allocate \/ CheckPasses \/ StartPairs \/ SkipPair \/ AddParam \/ PairsDone \/ Finish
  <2>1. pc' \in {"check", "sections", "pairs", "finish", "accepted"} /\ UNCHANGED <<text, strayed>>
    BY <1>8 DEF Allocate, CheckPasses, StartPairs, SkipPair, AddParam, PairsDone, Finish, AtPair
  <2>2. AllPresent'
    BY <1>2, <2>1 DEF text, AllPresent, Present
  <2>3. QED BY <1>2, <2>1, <2>2
<1>9. QED BY <1>4, <1>5, <1>6, <1>7, <1>8 DEF MakeReq, Pairs

\* A request of the documented form is what its braces say.
LEMMA AcceptedHolds ==
  ASSUME Shape, SectionsCut, Kept, FormedSound
  PROVE  FormedAccepted
<1> SUFFICES ASSUME pc \in Final, ~oom, Good
             PROVE  pc = "accepted" /\ Holds(Braces(raw))
  BY DEF FormedAccepted, Good
<1>1. pc = "accepted" /\ ~strayed /\ AllPresent
  BY DEF FormedSound, Final
<1>2. TextSound /\ Len(sections) = 3
  BY <1>1 DEF Shape, PairsSound
<1>3. PICK b : b = Braces(raw)
  OBVIOUS
<1>4. /\ Type = Between(raw, b[1], b[2])
      /\ Parameters = Between(raw, b[3], b[4])
      /\ Payload = Between(raw, b[5], b[6])
  BY <1>1, <1>2, <1>3, GoodComplete
<1>5. req.request_type = string_type_to_int(Type) /\ req.payload = Payload
  BY <1>1 DEF Kept
<1>6. Holds(b)
  BY <1>4, <1>5 DEF Holds
<1>7. QED BY <1>1, <1>3, <1>6

\* q is an unescaped ch, the only one from p on.
EndsAt(s, p, q, ch) ==
  s[q] = ch /\ ~is_escaped(s, q) /\ Unmasked(s, {ch}) \cap p .. q = {q}

\* A search that stops at q has no other place to stop before it.
LEMMA OnlyOne ==
  ASSUME NEW S, NEW s \in Seq(S), PlainlyEscaped(s), NEW from \in Nat \ {0}, NEW ch,
         NEW p,
         NEW q, p \in from .. Len(s), q \in p + 1 .. Len(s), q = escaped_strchr(s, from, ch)
  PROVE  EndsAt(s, p, q, ch)
<1>1. PICK l \in Nat : l = Len(s)
  BY LenProperties
<1>2. p \in Nat /\ q \in Nat /\ from <= p /\ p < q /\ q <= l /\ q # 0 /\ q \in p .. q /\ q \in 1 .. l
      /\ \A n \in p .. q : n \in from .. l /\ n \in 1 .. l /\ n \in Nat /\ (q <= n => n = q)
  BY <1>1
<1>3. \A n : n \in Unmasked(s, {ch}) <=> n \in 1 .. l /\ s[n] = ch /\ ~is_escaped(s, n)
  <2>1. Unmasked(s, {ch}) = {n \in 1 .. l : s[n] \in {ch} /\ ~is_escaped(s, n)}
    BY <1>1, UnmaskedIs
  <2>2. \A x : x \in {ch} <=> x = ch
    OBVIOUS
  <2>3. QED BY <2>1, <2>2, Zenon
<1>4. \/ q = 0
      \/ /\ s[q] = ch /\ ~is_escaped(s, q)
         /\ \A n \in Delimiters(s, from, ch) : q <= n
  BY StrchrIs
<1>5. s[q] = ch /\ ~is_escaped(s, q) /\ \A n \in Delimiters(s, from, ch) : q <= n
  BY <1>2, <1>4, Zenon
<1>6. q \in Unmasked(s, {ch}) \cap p .. q
  BY <1>2, <1>3, <1>5, Zenon
<1>7. ASSUME NEW n \in Unmasked(s, {ch}) \cap p .. q PROVE n = q
  <2>1. n \in p .. q /\ s[n] = ch /\ ~is_escaped(s, n)
    BY <1>3, Zenon
  <2>2. n \in Delimiters(s, from, ch)
    BY <1>1, <1>2, <2>1, Zenon DEF Delimiters
  <2>3. q <= n
    BY <1>5, <2>2, Zenon
  <2>4. QED BY <1>2, <2>1, <2>3, Zenon
<1>8. Unmasked(s, {ch}) \cap p .. q = {q}
  BY <1>6, <1>7, Zenon
<1>9. QED BY <1>5, <1>8, Zenon DEF EndsAt

\* Where a section was cut.
LEMMA CutEnds ==
  ASSUME raw \in Raws, PlainlyEscaped(raw), NEW i, NEW from \in Nat \ {0}, NEW p,
         NEW q, Cut(i, from, p, q)
  PROVE  raw[p] = "{" /\ ~is_escaped(raw, p) /\ EndsAt(raw, p, q, "}")
<1>1. raw \in Seq(Chars) /\ Len(raw) \in Nat
  BY RawIs
<1>2. /\ p = escaped_strchr(raw, from, "{") /\ q = escaped_strchr(raw, from, "}")
      /\ p \in from .. Len(raw) /\ q \in p + 1 .. Len(raw) - 1
  BY DEF Cut
<1>3. p # 0 /\ q \in p + 1 .. Len(raw)
  <2>1. PICK l \in Nat : l = Len(raw)
    BY <1>1
  <2>2. p \in from .. l /\ q \in p + 1 .. l - 1
    BY <1>2, <2>1, Zenon
  <2>3. p # 0 /\ q \in p + 1 .. l
    BY <2>2
  <2>4. QED BY <2>1, <2>3, Zenon
<1>4. raw[p] = "{" /\ ~is_escaped(raw, p)
  <2>1. p = escaped_strchr(raw, from, "{") /\ p # 0 /\ Len(raw) \in Nat
    BY <1>1, <1>2, <1>3, Zenon
  <2>2. FoundAt(raw, from, "{", p)
    BY <2>1, StrchrFinds, Zenon
  <2>3. QED BY <2>2, Zenon DEF FoundAt
<1>5. EndsAt(raw, p, q, "}")
  BY <1>1, <1>2, <1>3, OnlyOne, Zenon
<1>6. QED BY <1>4, <1>5

\* Increasing lists six numbers that rise.
LEMMA SixListed ==
  ASSUME NEW l \in Nat, NEW o1, NEW c1, NEW o2, NEW c2, NEW o3, NEW c3,
         Rising(l, o1, c1, o2, c2, o3, c3), NEW S, S = {o1, c1, o2, c2, o3, c3},
         NEW b, b = <<o1, c1, o2, c2, o3, c3>>
  PROVE  Cardinality(S) = 6 /\ Increasing(S) = b
<1>1. /\ o1 \in Nat /\ c1 \in Nat /\ o2 \in Nat /\ c2 \in Nat /\ o3 \in Nat /\ c3 \in Nat
      /\ o1 < c1 /\ c1 < o2 /\ o2 < c2 /\ c2 < o3 /\ o3 < c3
  BY DEF Rising
<1>2. /\ b[1] = o1 /\ b[2] = c1 /\ b[3] = o2 /\ b[4] = c2 /\ b[5] = o3 /\ b[6] = c3
      /\ DOMAIN b = 1 .. 6 /\ b = [k \in 1 .. 6 |-> b[k]]
  OBVIOUS
<1>3. \A k \in 1 .. 6 : k \in {1, 2, 3, 4, 5, 6}
  OBVIOUS
<1>4. b \in [1 .. 6 -> S]
  BY <1>2, <1>3
<1>5. S \in SUBSET Nat
  BY <1>1
<1>6. \A n \in S : \E k \in 1 .. 6 : b[k] = n
  <2>1. 1 \in 1 .. 6 /\ 2 \in 1 .. 6 /\ 3 \in 1 .. 6 /\ 4 \in 1 .. 6 /\ 5 \in 1 .. 6 /\ 6 \in 1 .. 6
    OBVIOUS
  <2>2. QED BY <1>2, <2>1, Zenon
<1>7. ASSUME NEW j \in 1 .. 6, NEW k \in 1 .. 6, j < k PROVE b[j] < b[k]
  <2>1. j \in {1, 2, 3, 4, 5} /\ k \in {2, 3, 4, 5, 6}
    BY <1>7
  <2>2. CASE j = 1
    BY <1>1, <1>2, <1>7, <2>1, <2>2
  <2>3. CASE j = 2
    BY <1>1, <1>2, <1>7, <2>1, <2>3
  <2>4. CASE j = 3
    BY <1>1, <1>2, <1>7, <2>1, <2>4
  <2>5. CASE j = 4
    BY <1>1, <1>2, <1>7, <2>1, <2>5
  <2>6. CASE j = 5
    BY <1>1, <1>2, <1>7, <2>1, <2>6
  <2>7. QED BY <2>1, <2>2, <2>3, <2>4, <2>5, <2>6
<1>8. PICK c \in Nat : c = 6
  OBVIOUS
<1>9. Lists(b, c, S)
  BY <1>4, <1>6, <1>7, <1>8 DEF Lists
<1>10. Cardinality(S) = c /\ Increasing(S) = b
  BY <1>5, <1>8, <1>9, IncreasingIsOnly, Zenon
<1>11. QED BY <1>8, <1>10

\* The three cuts of what is accepted.
LEMMA OrderHolds ==
  ASSUME Shape, SectionsCut, Kept
  PROVE  SectionsInOrder
<1> SUFFICES ASSUME pc = "accepted", ~strayed, PlainlyEscaped(raw)
             PROVE  \E S \in kSubset(6, Unmasked(raw, {"{", "}"})) :
                      LET b == Increasing(S)
                      IN /\ \A k \in {1, 3, 5} :
                              /\ raw[b[k]] = "{"
                              /\ Unmasked(raw, {"}"}) \cap b[k] .. b[k + 1] = {b[k + 1]}
                         /\ Holds(b)
  BY DEF SectionsInOrder
<1>1. TextSound /\ Len(sections) = 3 /\ DOMAIN sections = 1 .. 3
  BY DEF Shape, PairsSound, TextSound
<1>2. AllPresent
  BY <1>1 DEF Shape, PairsSound, AllPresent
<1>3. PICK o, c : Cuts(o, c)
  BY <1>2 DEF SectionsCut
<1>4. PICK o1, c1, o2, c2, o3, c3 :
        o1 = o[1] /\ c1 = c[1] /\ o2 = o[2] /\ c2 = c[2] /\ o3 = o[3] /\ c3 = c[3]
  OBVIOUS
<1>5. raw \in Seq(Chars) /\ Len(raw) \in Nat
  BY <1>1, RawIs DEF TextSound
<1>6. Cut(1, 1, o1, c1) /\ Cut(2, c1 + 1, o2, c2) /\ Cut(3, c2 + 1, o3, c3)
  <2>1. \A i \in 1 .. 3 : Cut(i, IF i = 1 THEN 1 ELSE c[i - 1] + 1, o[i], c[i])
    BY <1>1, <1>3 DEF Cuts
  <2>2. 1 \in 1 .. 3 /\ 2 \in 1 .. 3 /\ 3 \in 1 .. 3 /\ 2 # 1 /\ 3 # 1 /\ 2 - 1 = 1 /\ 3 - 1 = 2
    OBVIOUS
  <2>3. Cut(1, 1, o[1], c[1])
    BY <2>1, <2>2, Zenon
  <2>4. Cut(2, c[2 - 1] + 1, o[2], c[2]) /\ Cut(3, c[3 - 1] + 1, o[3], c[3])
    BY <2>1, <2>2, Zenon
  <2>5. QED BY <1>4, <2>2, <2>3, <2>4, Zenon
<1>7. /\ o1 \in 1 .. Len(raw) /\ c1 \in o1 + 1 .. Len(raw) - 1
      /\ o2 \in c1 + 1 .. Len(raw) /\ c2 \in o2 + 1 .. Len(raw) - 1
      /\ o3 \in c2 + 1 .. Len(raw) /\ c3 \in o3 + 1 .. Len(raw) - 1
  BY <1>6, Zenon DEF Cut
<1>8. Rising(Len(raw), o1, c1, o2, c2, o3, c3) /\ 1 \in Nat \ {0} /\ c1 + 1 \in Nat \ {0} /\ c2 + 1 \in Nat \ {0}
      /\ c1 \in o1 + 1 .. Len(raw) /\ c2 \in o2 + 1 .. Len(raw) /\ c3 \in o3 + 1 .. Len(raw)
  BY <1>5, <1>7 DEF Rising
<1>9. raw \in Raws
  BY <1>1 DEF TextSound
<1>10. raw[o1] = "{" /\ ~is_escaped(raw, o1) /\ EndsAt(raw, o1, c1, "}")
  BY <1>6, <1>8, <1>9, CutEnds
<1>11. raw[o2] = "{" /\ ~is_escaped(raw, o2) /\ EndsAt(raw, o2, c2, "}")
  BY <1>6, <1>8, <1>9, CutEnds
<1>12. raw[o3] = "{" /\ ~is_escaped(raw, o3) /\ EndsAt(raw, o3, c3, "}")
  BY <1>6, <1>8, <1>9, CutEnds
<1>13. PICK S, b : S = {o1, c1, o2, c2, o3, c3} /\ b = <<o1, c1, o2, c2, o3, c3>>
  OBVIOUS
<1>14. Cardinality(S) = 6 /\ Increasing(S) = b
  BY <1>5, <1>8, <1>13, SixListed
<1>15. S \in kSubset(6, Unmasked(raw, {"{", "}"}))
  <2>1. Unmasked(raw, {"{", "}"}) = {n \in 1 .. Len(raw) : raw[n] \in {"{", "}"} /\ ~is_escaped(raw, n)}
    BY <1>5, UnmaskedIs
  <2>2. {o1, c1, o2, c2, o3, c3} \subseteq 1 .. Len(raw)
    BY <1>8 DEF Rising
  <2>3. S \subseteq Unmasked(raw, {"{", "}"})
    BY <1>10, <1>11, <1>12, <1>13, <2>1, <2>2 DEF EndsAt
  <2>4. QED BY <1>14, <2>3 DEF kSubset
<1>16. b[1] = o1 /\ b[2] = c1 /\ b[3] = o2 /\ b[4] = c2 /\ b[5] = o3 /\ b[6] = c3
  BY <1>13
<1>17. ASSUME NEW k \in {1, 3, 5}
       PROVE  raw[b[k]] = "{" /\ Unmasked(raw, {"}"}) \cap b[k] .. b[k + 1] = {b[k + 1]}
  <2>1. 1 + 1 = 2 /\ 3 + 1 = 4 /\ 5 + 1 = 6
    OBVIOUS
  <2>2. CASE k = 1
    BY <1>10, <1>16, <2>1, <2>2, Zenon DEF EndsAt
  <2>3. CASE k = 3
    BY <1>11, <1>16, <2>1, <2>3, Zenon DEF EndsAt
  <2>4. CASE k = 5
    BY <1>12, <1>16, <2>1, <2>4, Zenon DEF EndsAt
  <2>5. QED BY <1>17, <2>2, <2>3, <2>4
<1>18. Holds(b)
  <2>1. 1 \in DOMAIN sections /\ 2 \in DOMAIN sections /\ 3 \in DOMAIN sections
    BY <1>1
  <2>2. StringAt(sections[1]) = Between(raw, o1, c1)
    BY <1>1, <1>6, <1>8, <2>1, CutIs
  <2>3. StringAt(sections[2]) = Between(raw, o2, c2)
    BY <1>1, <1>6, <1>8, <2>1, CutIs
  <2>4. StringAt(sections[3]) = Between(raw, o3, c3)
    BY <1>1, <1>6, <1>8, <2>1, CutIs
  <2>5. req.request_type = string_type_to_int(Type) /\ req.payload = Payload
    BY DEF Kept
  <2>6. QED BY <1>16, <2>2, <2>3, <2>4, <2>5, Zenon DEF Holds, Type, Parameters, Payload
<1>19. \A k \in {1, 3, 5} : raw[b[k]] = "{" /\ Unmasked(raw, {"}"}) \cap b[k] .. b[k + 1] = {b[k + 1]}
  BY <1>17
<1>20. QED BY <1>14, <1>15, <1>18, <1>19, Zenon

-----------------------------------------------------------------------------
(* What the parameters are described to be                                 *)

\* The commas between the pairs with the ends of the text, the colons of the k-th
\* pair, the pairs with a name, and what stands before and behind the first colon.
Ends(s)   == Unmasked(s, {","}) \cup {0, Len(s) + 1}
Commas(s) == Increasing(Ends(s))
Colons(s, k) == Unmasked(s, {":"}) \cap Commas(s)[k] + 1 .. Commas(s)[k + 1] - 1
Named(s) == {k \in 1 .. Len(Commas(s)) - 1 :
               Colons(s, k) # {} /\ Least(Colons(s, k)) # Commas(s)[k] + 1}
PairAt(s, k) == <<Between(s, Commas(s)[k], Least(Colons(s, k))),
                  Between(s, Least(Colons(s, k)), Commas(s)[k + 1])>>

\* Pairings in these terms.
LEMMA PairingsIs ==
  ASSUME NEW s
  PROVE  Pairings(s) = [n \in DOMAIN Increasing(Named(s)) |-> PairAt(s, Increasing(Named(s))[n])]
BY DEF Pairings, Ends, Commas, Colons, Named, PairAt

\* The commas rise from 0 to the end, and between two neighbours is no other.
Row(s, g, N) ==
  /\ N \in Nat /\ N >= 2 /\ Len(g) = N
  /\ \A k \in 1 .. N : g[k] \in 0 .. Len(s) + 1
  /\ g[1] = 0 /\ g[N] = Len(s) + 1
  /\ \A k \in 1 .. N - 1 : /\ g[k] < g[k + 1]
                           /\ k # 1 => g[k] \in Unmasked(s, {","})
                           /\ \A n \in g[k] + 1 .. g[k + 1] - 1 : n \notin Unmasked(s, {","})

\* The commas of a text, with its two ends, are such a row.
LEMMA CommasIs ==
  ASSUME NEW S, NEW s \in Seq(S), PlainlyEscaped(s)
  PROVE  Row(s, Commas(s), Len(Commas(s)))
<1>1. PICK U, V, l, g, c : /\ U = Unmasked(s, {","}) /\ V = Ends(s) /\ l = Len(s)
                           /\ g = Commas(s) /\ c = Cardinality(Ends(s))
  OBVIOUS
<1>2. U \in SUBSET (1 .. l) /\ IsFiniteSet(U) /\ l \in Nat
  <2>1. /\ Unmasked(s, {","}) = {n \in 1 .. Len(s) : s[n] \in {","} /\ ~is_escaped(s, n)}
        /\ IsFiniteSet(Unmasked(s, {","}))
    BY UnmaskedIs
  <2>2. Len(s) \in Nat
    BY LenProperties
  <2>3. Unmasked(s, {","}) \in SUBSET (1 .. Len(s))
    BY <2>1
  <2>4. QED BY <1>1, <2>1, <2>2, <2>3, Zenon
<1>3. V = U \cup {0, l + 1} /\ V \in SUBSET (0 .. l + 1) /\ V \in SUBSET Nat
  <2>1. V = U \cup {0, l + 1}
    BY <1>1, Zenon DEF Ends
  <2>2. \A n \in V : n \in 0 .. l + 1 /\ n \in Nat
    BY <1>2, <2>1
  <2>3. QED BY <2>1, <2>2
<1>4. IsFiniteSet(V)
  <2>1. IsFiniteSet(0 .. l + 1)
    BY <1>2, FS_Interval
  <2>2. QED BY <1>3, <2>1, FS_Subset
<1>5. /\ c \in Nat /\ g \in [1 .. c -> V]
      /\ \A j, k \in 1 .. c : j < k => g[j] < g[k]
      /\ \A n \in V : \E k \in 1 .. c : g[k] = n
  <2>1. g = Increasing(V) /\ c = Cardinality(V)
    BY <1>1 DEF Commas
  <2>2. V \in SUBSET Nat
    BY <1>3
  <2>3. QED BY <1>4, <2>1, <2>2, IncreasingIs
<1>6. Len(g) = c
  <2>1. g \in Seq(V) /\ DOMAIN g = 1 .. c
    BY <1>5
  <2>2. QED BY <1>5, <2>1, LenProperties
<1>7. \A k \in 1 .. c : g[k] \in 0 .. l + 1 /\ g[k] \in Nat
  BY <1>3, <1>5
<1>8. PICK a \in 1 .. c, z \in 1 .. c : g[a] = 0 /\ g[z] = l + 1
  BY <1>3, <1>5
<1>9. a = 1 /\ z = c /\ c >= 2
  <2>1. ~(1 < a)
    <3>1. 1 \in 1 .. c /\ (1 < a => g[1] < g[a])
      BY <1>5, <1>8
    <3>2. ~(g[1] < 0)
      BY <1>2, <1>7, <3>1
    <3>3. QED BY <1>8, <3>1, <3>2
  <2>2. ~(z < c)
    <3>1. c \in 1 .. c /\ (z < c => g[z] < g[c])
      BY <1>5, <1>8
    <3>2. ~(l + 1 < g[c])
      BY <1>2, <1>7, <3>1
    <3>3. QED BY <1>8, <3>1, <3>2
  <2>3. a # z
    <3>1. 0 # l + 1
      BY <1>2
    <3>2. QED BY <1>8, <3>1
  <2>4. QED BY <1>5, <1>8, <2>1, <2>2, <2>3
<1>10. ASSUME NEW k \in 1 .. c - 1
       PROVE  /\ g[k] < g[k + 1]
              /\ k # 1 => g[k] \in U
              /\ \A n \in g[k] + 1 .. g[k + 1] - 1 : n \notin U
  <2>1. k \in 1 .. c /\ k + 1 \in 1 .. c /\ k < k + 1 /\ k < c /\ k \in Nat /\ c \in 1 .. c /\ 1 \in 1 .. c
    BY <1>5
  <2>2. g[k] < g[k + 1]
    BY <1>5, <2>1
  <2>3. ASSUME k # 1 PROVE g[k] \in U
    <3>1. 1 < k
      BY <2>1, <2>3
    <3>2. g[1] < g[k] /\ g[k] < g[c] /\ g[k] \in V
      BY <1>5, <2>1, <3>1
    <3>3. g[k] # 0 /\ g[k] # l + 1
      BY <1>2, <1>7, <1>8, <1>9, <2>1, <3>2
    <3>4. QED BY <1>3, <3>2, <3>3
  <2>4. ASSUME NEW n \in g[k] + 1 .. g[k + 1] - 1, n \in U PROVE FALSE
    <3>1. n \in V
      BY <1>3, <2>4
    <3>2. PICK j \in 1 .. c : g[j] = n
      BY <1>5, <3>1
    <3>3. g[k] \in Nat /\ g[k + 1] \in Nat /\ n \in Nat /\ g[k] < n /\ n < g[k + 1]
      <4>1. PICK x \in Nat, y \in Nat : x = g[k] /\ y = g[k + 1]
        BY <1>7, <2>1, Zenon
      <4>2. n \in x + 1 .. y - 1
        BY <4>1, Zenon
      <4>3. n \in Nat /\ x < n /\ n < y
        BY <4>2
      <4>4. QED BY <4>1, <4>3, Zenon
    <3>4. j \in Nat /\ (j < k + 1 => j = k \/ j < k)
      BY <2>1
    <3>5. ~(j < k) /\ j # k
      <4>1. j < k => g[j] < g[k]
        BY <1>5, <2>1
      <4>2. QED BY <3>2, <3>3, <4>1
    <3>6. ~(k + 1 < j) /\ j # k + 1
      <4>1. k + 1 < j => g[k + 1] < g[j]
        BY <1>5, <2>1
      <4>2. QED BY <3>2, <3>3, <4>1
    <3>7. QED BY <2>1, <3>4, <3>5, <3>6
  <2>5. QED BY <2>2, <2>3, <2>4
<1>11. Row(s, g, c)
  <2>1. c \in Nat /\ c >= 2 /\ Len(g) = c /\ g[1] = 0 /\ g[c] = Len(s) + 1
    BY <1>1, <1>5, <1>6, <1>8, <1>9, Zenon
  <2>2. \A k \in 1 .. c : g[k] \in 0 .. Len(s) + 1
    BY <1>1, <1>7, Zenon
  <2>3. \A k \in 1 .. c - 1 :
          /\ g[k] < g[k + 1]
          /\ k # 1 => g[k] \in Unmasked(s, {","})
          /\ \A n \in g[k] + 1 .. g[k + 1] - 1 : n \notin Unmasked(s, {","})
    BY <1>1, <1>10, Zenon
  <2>4. QED BY <2>1, <2>2, <2>3, Zenon DEF Row
<1>12. QED BY <1>1, <1>6, <1>11, Zenon

-----------------------------------------------------------------------------
(* What the loop over the pairs finds                                      *)

\* No backslash is escaped, and the text does not begin with a separator.
Clean(s) == PlainlyEscaped(s) /\ (s # << >> => s[1] \notin {",", ":"})

\* A place behind another is a place of the text.
LEMMA RangeIs ==
  ASSUME NEW l \in Nat, NEW p \in 1 .. l + 1, NEW n \in p .. l
  PROVE  p \in Nat /\ 1 <= p /\ n \in 1 .. l /\ n \in Nat /\ l # 0
OBVIOUS

\* Behind a comma, or at the start of a clean text, what the loop looks for is
\* what the description means.
LEMMA HitIs ==
  ASSUME Parameters \in Seq(Bytes), Clean(Parameters),
         next_pair \in 1 .. Len(Parameters) + 1,
         next_pair # 1 => next_pair - 1 \in Unmasked(Parameters, {","}),
         NEW c \in {",", ":"}, NEW before \in BOOLEAN, NEW n \in next_pair .. Len(Parameters)
  PROVE  Hit(c, before, n) <=> n \in Unmasked(Parameters, {c})
<1>1. PICK s, p : s = Parameters /\ p = next_pair
  OBVIOUS
<1>2. /\ s \in Seq(Bytes) /\ Len(s) \in Nat /\ p \in Nat /\ 1 <= p /\ n \in p .. Len(s)
      /\ n \in 1 .. Len(s) /\ n \in Nat /\ Len(s) # 0
  <2>1. s \in Seq(Bytes) /\ Len(s) \in Nat /\ p \in 1 .. Len(s) + 1 /\ n \in p .. Len(s)
    BY <1>1, LenProperties, Zenon
  <2>2. PICK l \in Nat : l = Len(s)
    BY <2>1
  <2>3. p \in 1 .. l + 1 /\ n \in p .. l
    BY <2>1, <2>2, Zenon
  <2>4. p \in Nat /\ 1 <= p /\ n \in 1 .. l /\ n \in Nat /\ l # 0
    BY <2>2, <2>3, RangeIs, Zenon
  <2>5. QED BY <2>1, <2>2, <2>4, Zenon
<1>3. PlainlyEscaped(s) /\ (s # << >> => s[1] \notin {",", ":"})
  BY <1>1 DEF Clean
<1>4. \A m : m \in Unmasked(s, {c}) <=> m \in 1 .. Len(s) /\ s[m] = c /\ ~is_escaped(s, m)
  <2>1. Unmasked(s, {c}) = {m \in 1 .. Len(s) : s[m] \in {c} /\ ~is_escaped(s, m)}
    BY <1>2, <1>3, UnmaskedIs
  <2>2. \A x : x \in {c} <=> x = c
    OBVIOUS
  <2>3. QED BY <2>1, <2>2, Zenon
<1>5. Hit(c, before, n) <=> s[n] = c /\ IF n = p THEN ~(n = 1 /\ before) ELSE ~is_escaped(s, n)
  BY <1>1, Zenon DEF Hit
<1>6. CASE n # p
  BY <1>1, <1>2, <1>4, <1>5, <1>6, Zenon
<1>7. CASE n = p /\ n = 1
  <2>1. s # << >>
    BY <1>2, EmptySeq
  <2>2. s[n] # c
    BY <1>3, <1>7, <2>1, Zenon
  <2>3. QED BY <1>1, <1>4, <1>5, <2>2, Zenon
<1>8. CASE n = p /\ n # 1
  <2>1. s[n - 1] = ","
    <3>1. Unmasked(s, {","}) = {m \in 1 .. Len(s) : s[m] \in {","} /\ ~is_escaped(s, m)}
      BY <1>2, <1>3, UnmaskedIs
    <3>2. QED BY <1>1, <1>8, <3>1
  <2>2. ~is_escaped(s, n)
    BY <2>1 DEF is_escaped
  <2>3. QED BY <1>1, <1>2, <1>4, <1>5, <1>8, <2>2, Zenon
<1>9. QED BY <1>6, <1>7, <1>8

\* What is found is in the text or right behind it.
LEMMA MidRange ==
  ASSUME NEW l \in Nat, NEW p \in 1 .. l + 1, NEW f \in p .. l + 1
  PROVE  /\ f # l + 1 => f <= l
         /\ \A n \in p .. f - 1 : n \in p .. l
         /\ f <= l => f \in p .. l
OBVIOUS

\* The first of the described places, or the end of the text.
LEMMA FoundIs ==
  ASSUME Parameters \in Seq(Bytes), Clean(Parameters),
         next_pair \in 1 .. Len(Parameters) + 1,
         next_pair # 1 => next_pair - 1 \in Unmasked(Parameters, {","}),
         NEW c \in {",", ":"}, NEW before \in BOOLEAN, NEW f, f = FirstOf(c, before)
  PROVE  /\ f \in next_pair .. Len(Parameters) + 1
         /\ f # Len(Parameters) + 1 => f \in Unmasked(Parameters, {c})
         /\ \A n \in next_pair .. f - 1 : n \notin Unmasked(Parameters, {c})
<1>1. /\ f \in next_pair .. Len(Parameters) + 1
      /\ f <= Len(Parameters) => Hit(c, before, f)
      /\ \A n \in next_pair .. f - 1 : ~Hit(c, before, n)
  <2>1. FirstHit(c, before, f)
    BY FirstOfIs, Zenon
  <2>2. QED BY <2>1, Zenon DEF FirstHit
<1>2. PICK l, p : l = Len(Parameters) /\ p = next_pair
  OBVIOUS
<1>3. /\ f # l + 1 => f <= l
      /\ \A n \in p .. f - 1 : n \in p .. l
      /\ f <= l => f \in p .. l
  <2>1. l \in Nat
    BY <1>2, LenProperties, Zenon
  <2>2. p \in 1 .. l + 1 /\ f \in p .. l + 1
    BY <1>1, <1>2, Zenon
  <2>3. QED BY <2>1, <2>2, MidRange
<1>4. \A n \in p .. l : Hit(c, before, n) <=> n \in Unmasked(Parameters, {c})
  BY <1>2, HitIs
<1>5. QED BY <1>1, <1>2, <1>3, <1>4, Zenon

\* Two searches for the same thing find the same.
LEMMA FirstSame ==
  ASSUME NEW l \in Nat, NEW U, NEW q \in 0 .. l, NEW f \in q + 1 .. l + 1,
         NEW r \in q + 1 .. l + 1,
         f # l + 1 => f \in U, r # l + 1 => r \in U,
         \A n \in q + 1 .. f - 1 : n \notin U, \A n \in q + 1 .. r - 1 : n \notin U
  PROVE  f = r
<1>1. f < r => f # l + 1 /\ f \in q + 1 .. r - 1
  OBVIOUS
<1>2. r < f => r # l + 1 /\ r \in q + 1 .. f - 1
  OBVIOUS
<1>3. ~(f < r) /\ ~(r < f)
  BY <1>1, <1>2, Zenon
<1>4. QED BY <1>3

\* e is the least of the colons K if it lies before r, and there is none if not.
ColonAt(K, e, r) == (K # {} <=> e < r) /\ (e < r => Least(K) = e)

\* The first colon, when it lies before the comma, is the least of the colons that do.
LEMMA LeastSame ==
  ASSUME NEW l \in Nat, NEW C, NEW q \in 0 .. l, NEW e \in q + 1 .. l + 1,
         NEW r \in q + 1 .. l + 1,
         e # l + 1 => e \in C, \A n \in q + 1 .. e - 1 : n \notin C,
         NEW K, K = C \cap q + 1 .. r - 1
  PROVE  ColonAt(K, e, r)
<1>1. K \in SUBSET Nat
  OBVIOUS
<1>2. ASSUME NEW n \in K PROVE e <= n /\ e < r
  <2>1. ~(n < e)
    <3>1. n < e => n \in q + 1 .. e - 1
      OBVIOUS
    <3>2. QED BY <3>1
  <2>2. QED BY <2>1
<1>3. ASSUME e < r PROVE e \in K
  BY <1>3
<1>4. ASSUME e < r PROVE Least(K) = e
  <2>1. e \in K
    BY <1>3, <1>4
  <2>2. PICK x : x = Least(K)
    OBVIOUS
  <2>3. x \in K /\ x <= e
    BY <1>1, <2>1, <2>2, LeastIs
  <2>4. e <= x
    BY <1>2, <2>3
  <2>5. x = e
    BY <2>3, <2>4
  <2>6. QED BY <2>2, <2>5
<1>5. QED BY <1>2, <1>3, <1>4 DEF ColonAt

\* Neighbours in a row.
LEMMA NextIndex ==
  ASSUME NEW N \in Nat, NEW m \in 1 .. N - 1
  PROVE  m \in 1 .. N /\ m + 1 \in 1 .. N /\ (m + 1 = N \/ m + 1 \in 1 .. N - 1) /\ m + 1 # 1
OBVIOUS

\* The gap between two neighbours.
LEMMA GapRange ==
  ASSUME NEW l \in Nat, NEW q \in 0 .. l + 1, NEW r \in 0 .. l + 1, q < r
  PROVE  q \in 0 .. l /\ r \in q + 1 .. l + 1 /\ q + 1 \in 1 .. l + 1 /\ (q + 1 # 1 => q # 0) /\ (q + 1) - 1 = q
OBVIOUS

\* At the m-th comma the loop finds the next one, and a name if there is one.
LEMMA PairIs ==
  ASSUME Parameters \in Seq(Bytes), Clean(Parameters),
         NEW s, s = Parameters, NEW g, g = Commas(s), NEW N, N = Len(g),
         NEW m \in 1 .. N - 1, next_pair = g[m] + 1, NEW before \in BOOLEAN
  PROVE  /\ next_pair \in 1 .. Len(Parameters) + 1
         /\ pair_delimiter(before) = g[m + 1]
         /\ HasName(before) <=> m \in Named(s)
         /\ HasName(before) => Least(Colons(s, m)) = name_delimiter(before)
<1>1. Row(s, g, N) /\ PlainlyEscaped(s) /\ s \in Seq(Bytes)
  BY CommasIs DEF Clean
<1>2. PICK l \in Nat : l = Len(s)
  BY <1>1, LenProperties
<1>3. N \in Nat /\ m \in 1 .. N /\ m + 1 \in 1 .. N /\ (m + 1 = N \/ m + 1 \in 1 .. N - 1) /\ m + 1 # 1
  <2>1. N \in Nat
    BY <1>1 DEF Row
  <2>2. QED BY <2>1, NextIndex
<1>4. PICK q, r : q = g[m] /\ r = g[m + 1]
  OBVIOUS
<1>5. PICK U, C : U = Unmasked(s, {","}) /\ C = Unmasked(s, {":"})
  OBVIOUS
<1>6. /\ q \in 0 .. l + 1 /\ r \in 0 .. l + 1 /\ q < r
      /\ q # 0 => q \in U
      /\ r # l + 1 => r \in U
      /\ \A n \in q + 1 .. r - 1 : n \notin U
  <2>1. \A k \in 1 .. N : g[k] \in 0 .. l + 1
    BY <1>1, <1>2 DEF Row
  <2>2. /\ g[1] = 0 /\ g[N] = l + 1
        /\ \A k \in 1 .. N - 1 : /\ g[k] < g[k + 1]
                                 /\ k # 1 => g[k] \in U
                                 /\ \A n \in g[k] + 1 .. g[k + 1] - 1 : n \notin U
    BY <1>1, <1>2, <1>5, Zenon DEF Row
  <2>3. q \in 0 .. l + 1 /\ r \in 0 .. l + 1
    BY <1>3, <1>4, <2>1, Zenon
  <2>4. q < r /\ \A n \in q + 1 .. r - 1 : n \notin U
    BY <1>4, <2>2, Zenon
  <2>5. q # 0 => q \in U
    BY <1>4, <2>2, Zenon
  <2>6. r # l + 1 => r \in U
    BY <1>3, <1>4, <2>2, Zenon
  <2>7. QED BY <2>3, <2>4, <2>5, <2>6
<1>7. q \in 0 .. l /\ r \in q + 1 .. l + 1 /\ q + 1 \in 1 .. l + 1 /\ (q + 1 # 1 => q # 0) /\ (q + 1) - 1 = q
  BY <1>2, <1>6, GapRange
<1>8. /\ next_pair \in 1 .. Len(Parameters) + 1
      /\ next_pair # 1 => next_pair - 1 \in Unmasked(Parameters, {","})
  BY <1>2, <1>4, <1>5, <1>6, <1>7, Zenon
<1>9. PICK f, e : f = pair_delimiter(before) /\ e = name_delimiter(before)
  OBVIOUS
<1>10. /\ f \in next_pair .. Len(Parameters) + 1
       /\ f # Len(Parameters) + 1 => f \in Unmasked(Parameters, {","})
       /\ \A n \in next_pair .. f - 1 : n \notin Unmasked(Parameters, {","})
  BY <1>8, <1>9, FoundIs DEF pair_delimiter
<1>11. /\ e \in next_pair .. Len(Parameters) + 1
       /\ e # Len(Parameters) + 1 => e \in Unmasked(Parameters, {":"})
       /\ \A n \in next_pair .. e - 1 : n \notin Unmasked(Parameters, {":"})
  BY <1>8, <1>9, FoundIs DEF name_delimiter
<1>12. f = r
  <2>1. /\ f \in q + 1 .. l + 1 /\ (f # l + 1 => f \in U) /\ \A n \in q + 1 .. f - 1 : n \notin U
    BY <1>2, <1>4, <1>5, <1>10, Zenon
  <2>2. QED BY <1>2, <1>6, <1>7, <2>1, FirstSame
<1>13. Colons(s, m) = C \cap q + 1 .. r - 1
  BY <1>4, <1>5, Zenon DEF Colons
<1>14. PICK K : K = Colons(s, m)
  OBVIOUS
<1>15. ColonAt(K, e, r)
  <2>1. /\ e \in q + 1 .. l + 1 /\ (e # l + 1 => e \in C) /\ \A n \in q + 1 .. e - 1 : n \notin C
    BY <1>2, <1>4, <1>5, <1>11, Zenon
  <2>2. K = C \cap q + 1 .. r - 1
    BY <1>13, <1>14, Zenon
  <2>3. l \in Nat /\ q \in 0 .. l /\ r \in q + 1 .. l + 1
    BY <1>2, <1>7, Zenon
  <2>4. QED BY <2>1, <2>2, <2>3, LeastSame, Zenon
<1>16. m \in Named(s) <=> K # {} /\ Least(K) # q + 1
  BY <1>4, <1>14, Zenon DEF Named
<1>17. HasName(before) <=> e < r /\ e # q + 1
  BY <1>4, <1>9, <1>12, Zenon DEF HasName
<1>18. QED BY <1>4, <1>8, <1>9, <1>12, <1>14, <1>15, <1>16, <1>17, Zenon DEF ColonAt

-----------------------------------------------------------------------------
(* What the loop has made of the parameters                                *)

\* The nodes of list are those pairs of s that t lists.
Listing(s, list, t, T) ==
  /\ Lists(t, Len(list), T)
  /\ \A k \in 1 .. Len(list) : Pair(list[k]) = PairAt(s, t[k])

\* The loop is behind the m-th of the pairs of s; the nodes are the pairs t lists
\* of those that have a name, all of them unless memory ran out.
Made(s, m, T, t) ==
  /\ m \in 0 .. Len(Commas(s)) - 1
  /\ next_pair = IF m = Len(Commas(s)) - 1 THEN NULL ELSE Commas(s)[m + 1] + 1
  /\ T \subseteq Named(s) /\ \A k \in T : k <= m
  /\ ~oom => \A k \in Named(s) : k <= m => k \in T
  /\ Listing(s, nodes, t, T)

\* The loop begins with an empty list, and is always behind some of the pairs.
PairsMade ==
  /\ pc \notin {"pairs", "finish", "accepted"} => nodes = << >>
  /\ pc \in {"pairs", "finish", "accepted"} /\ Clean(Parameters) =>
       \E m, T, t : Made(Parameters, m, T, t)

\* Nothing lists nothing.
LEMMA EmptyLists == Lists(<< >>, Len(<< >>), {})
BY DEF Lists

\* One more, larger than all that are listed.
LEMMA ListsMore ==
  ASSUME NEW c \in Nat, NEW T \in SUBSET Nat, NEW t, Lists(t, c, T),
         NEW x \in Nat, \A k \in T : k < x,
         NEW u, u = [k \in 1 .. c + 1 |-> IF k = c + 1 THEN x ELSE t[k]]
  PROVE  Lists(u, c + 1, T \cup {x})
<1>1. /\ t \in [1 .. c -> T]
      /\ \A j, k \in 1 .. c : j < k => t[j] < t[k]
      /\ \A n \in T : \E k \in 1 .. c : t[k] = n
  BY DEF Lists
<1>2. /\ c + 1 \in 1 .. c + 1 /\ u[c + 1] = x
      /\ \A k \in 1 .. c : k \in 1 .. c + 1 /\ k # c + 1 /\ u[k] = t[k] /\ t[k] \in T
      /\ \A k \in 1 .. c + 1 : k = c + 1 \/ k \in 1 .. c
  BY <1>1
<1>3. u \in [1 .. c + 1 -> T \cup {x}]
  BY <1>1, <1>2
<1>4. ASSUME NEW j \in 1 .. c + 1, NEW k \in 1 .. c + 1, j < k PROVE u[j] < u[k]
  <2>1. j \in 1 .. c
    BY <1>4
  <2>2. CASE k = c + 1
    BY <1>2, <2>1, <2>2
  <2>3. CASE k \in 1 .. c
    BY <1>1, <1>2, <1>4, <2>1, <2>3
  <2>4. QED BY <1>2, <2>2, <2>3
<1>5. ASSUME NEW n \in T \cup {x} PROVE \E k \in 1 .. c + 1 : u[k] = n
  <2>1. CASE n = x
    BY <1>2, <2>1
  <2>2. CASE n \in T
    BY <1>1, <1>2, <2>2
  <2>3. QED BY <2>1, <2>2
<1>6. QED BY <1>3, <1>4, <1>5 DEF Lists

\* The pair the loop is at is one of them.
LEMMA PositionIs ==
  ASSUME NEW N \in Nat, NEW m \in 0 .. N - 1, m # N - 1
  PROVE  m \in Nat /\ m + 1 \in 1 .. N - 1 /\ m + 1 \in 0 .. N - 1
         /\ \A k \in 1 .. N - 1 : k \in Nat /\ (k <= m => k < m + 1) /\ (k <= m + 1 => k = m + 1 \/ k <= m)
OBVIOUS

\* The last pair ends where the text does.
LEMMA LastIndex ==
  ASSUME NEW N \in Nat, NEW k \in 1 .. N - 1
  PROVE  k + 1 \in 1 .. N /\ (k = N - 1 => k + 1 = N) /\ (k # N - 1 => k + 1 \in 1 .. N - 1 /\ k + 1 # 1)
OBVIOUS

\* A function with one more argument.
LEMMA ExtendedIs ==
  ASSUME NEW c \in Nat, NEW t, NEW x,
         NEW u, u = [k \in 1 .. c + 1 |-> IF k = c + 1 THEN x ELSE t[k]]
  PROVE  /\ u[c + 1] = x /\ \A k \in 1 .. c : u[k] = t[k]
         /\ \A k \in 1 .. c + 1 : k = c + 1 \/ k \in 1 .. c
OBVIOUS

\* Where the loop is, while it has a next pair.
LEMMA MadeAt ==
  ASSUME Parameters \in Seq(Bytes), Clean(Parameters), NEW s, s = Parameters,
         NEW g, g = Commas(s), NEW N, N = Len(g),
         NEW m, NEW T, NEW t, Made(s, m, T, t), next_pair # NULL
  PROVE  /\ N \in Nat /\ m \in 0 .. N - 1 /\ m + 1 \in 1 .. N - 1 /\ m + 1 \in 0 .. N - 1
         /\ next_pair = g[m + 1] + 1
         /\ T \in SUBSET Nat /\ \A k \in T : k < m + 1
         /\ \A k \in Named(s) : k \in Nat /\ (k <= m + 1 => k = m + 1 \/ k <= m)
<1>1. Row(s, g, N)
  BY CommasIs DEF Clean
<1>2. N \in Nat
  BY <1>1 DEF Row
<1>3. /\ m \in 0 .. N - 1 /\ m # N - 1 /\ next_pair = g[m + 1] + 1
      /\ T \subseteq Named(s) /\ \A k \in T : k <= m
  BY Zenon DEF Made
<1>4. \A k \in Named(s) : k \in 1 .. N - 1
  BY DEF Named
<1>5. m \in Nat /\ m + 1 \in 1 .. N - 1 /\ m + 1 \in 0 .. N - 1
      /\ \A k \in 1 .. N - 1 : k \in Nat /\ (k <= m => k < m + 1) /\ (k <= m + 1 => k = m + 1 \/ k <= m)
  BY <1>2, <1>3, PositionIs, Zenon
<1>6. QED BY <1>2, <1>3, <1>4, <1>5, Zenon

\* The loop moves behind one more.
LEMMA MovedIs ==
  ASSUME Parameters \in Seq(Bytes), Clean(Parameters), NEW s, s = Parameters,
         NEW g, g = Commas(s), NEW N, N = Len(g),
         NEW m, m \in 0 .. N - 1, m + 1 \in 1 .. N - 1, next_pair = g[m + 1] + 1,
         NEW before \in BOOLEAN, MoveOn(before)
  PROVE  next_pair' = IF m + 1 = N - 1 THEN NULL ELSE g[(m + 1) + 1] + 1
<1>1. Row(s, g, N) /\ PlainlyEscaped(s) /\ s \in Seq(Bytes)
  BY CommasIs DEF Clean
<1>2. PICK l \in Nat : l = Len(s)
  BY <1>1, LenProperties
<1>3. PICK k : k = m + 1
  OBVIOUS
<1>4. k \in 1 .. N - 1 /\ next_pair = g[k] + 1
  BY <1>3, Zenon
<1>5. pair_delimiter(before) = g[k + 1]
  BY <1>4, PairIs
<1>6. N \in Nat /\ k + 1 \in 1 .. N /\ (k = N - 1 => k + 1 = N) /\ (k # N - 1 => k + 1 \in 1 .. N - 1 /\ k + 1 # 1)
  <2>1. N \in Nat
    BY <1>1 DEF Row
  <2>2. QED BY <1>4, <2>1, LastIndex
<1>7. PICK r : r = g[k + 1]
  OBVIOUS
<1>8. /\ k = N - 1 => r = l + 1
      /\ k # N - 1 => r \in Unmasked(s, {","})
  BY <1>1, <1>2, <1>6, <1>7, Zenon DEF Row
<1>9. (k = N - 1 => r > l) /\ (k # N - 1 => ~(r > l))
  <2>1. k = N - 1 => r > l
    BY <1>2, <1>8
  <2>2. \A n \in Unmasked(s, {","}) : n \in 1 .. l
    <3>1. DOMAIN s = 1 .. l
      BY <1>1, <1>2, LenProperties
    <3>2. QED BY <3>1, Zenon DEF Unmasked
  <2>3. \A n \in 1 .. l : ~(n > l)
    BY <1>2
  <2>4. QED BY <1>8, <2>1, <2>2, <2>3, Zenon
<1>10. next_pair' = IF r > l THEN NULL ELSE r + 1
  BY <1>2, <1>5, <1>7, Zenon DEF MoveOn
<1>11. QED BY <1>3, <1>7, <1>9, <1>10, Zenon

\* A node more, behind the others.
LEMMA AddedIs ==
  ASSUME Parameters \in Seq(Bytes), Clean(Parameters), NEW s, s = Parameters,
         next_pair # NULL, NEW m, NEW T, NEW t, Made(s, m, T, t),
         next_pair \in 1 .. Len(Parameters) + 1,
         InOrder(nodes), NEW before \in BOOLEAN, HasName(before), nodes' = Linked(nodes, Node(before)),
         NEW u, u = [k \in 1 .. Len(nodes) + 1 |-> IF k = Len(nodes) + 1 THEN m + 1 ELSE t[k]]
  PROVE  Listing(s, nodes', u, T \cup {m + 1})
<1>1. PICK g, N : g = Commas(s) /\ N = Len(g)
  OBVIOUS
<1>2. /\ m + 1 \in 1 .. N - 1 /\ next_pair = g[m + 1] + 1 /\ N \in Nat
      /\ T \in SUBSET Nat /\ \A k \in T : k < m + 1
  BY <1>1, MadeAt
<1>3. Node(before) \in Nodes /\ Node(before).next = NULL
  BY NodeIs
<1>4. PICK node, new : node = Node(before) /\ new = nodes'
  OBVIOUS
<1>5. /\ Len(nodes) \in Nat /\ Len(new) = Len(nodes) + 1
      /\ \A k \in 1 .. Len(nodes) :
           new[k].name = nodes[k].name /\ new[k].value = nodes[k].value
      /\ new[Len(new)].name = node.name /\ new[Len(new)].value = node.value
  BY SMTT(20), <1>3, <1>4, LinkedIs
<1>6. PICK c \in Nat : c = Len(nodes)
  BY <1>5
<1>7. Lists(t, c, T) /\ \A k \in 1 .. c : Pair(nodes[k]) = PairAt(s, t[k])
  BY <1>6 DEF Made, Listing
<1>8. PICK x \in Nat : x = m + 1
  BY <1>2
<1>9. /\ u[c + 1] = x /\ \A k \in 1 .. c : u[k] = t[k]
      /\ \A k \in 1 .. c + 1 : k = c + 1 \/ k \in 1 .. c
  BY <1>6, <1>8, ExtendedIs
<1>10. Lists(u, c + 1, T \cup {x})
  BY <1>2, <1>6, <1>7, <1>8, ListsMore
<1>11. Pair(node) = PairAt(s, x)
  <2>1. /\ pair_delimiter(before) = g[x + 1]
        /\ Least(Colons(s, x)) = name_delimiter(before)
    BY <1>1, <1>2, <1>8, PairIs
  <2>2. PICK e, r, q : e = name_delimiter(before) /\ r = pair_delimiter(before) /\ q = g[x]
    OBVIOUS
  <2>3. PairAt(s, x) = <<Between(s, q, e), Between(s, e, r)>>
    BY <1>1, <2>1, <2>2, Zenon DEF PairAt
  <2>4. node.name = SubSeq(s, q + 1, e - 1) /\ node.value = Between(s, e, r)
    BY <1>2, <1>4, <1>8, <2>2 DEF Node
  <2>5. QED BY <2>3, <2>4, Zenon DEF Pair, Between
<1>12. ASSUME NEW k \in 1 .. c + 1 PROVE Pair(new[k]) = PairAt(s, u[k])
  <2>1. CASE k = c + 1
    BY <1>5, <1>6, <1>9, <1>11, <2>1, Zenon DEF Pair
  <2>2. CASE k \in 1 .. c
    BY <1>5, <1>6, <1>7, <1>9, <2>2, Zenon DEF Pair
  <2>3. QED BY <1>9, <2>1, <2>2
<1>13. QED BY <1>4, <1>5, <1>6, <1>8, <1>10, <1>12, Zenon DEF Listing

\* The steps of the loop, and those before and behind it.
LEMMA NextMade ==
  ASSUME Shape, PairsMade, MakeReq
  PROVE  PairsMade'
<1>1. CASE Allocate \/ AllocateFails \/ CheckFails \/ CheckPasses \/ NoFuncArena
           \/ Incomplete \/ NoPayloadMemory \/ DestroyReq
  <2>1. /\ pc \notin {"pairs", "finish", "accepted"} /\ pc' \notin {"pairs", "finish", "accepted"}
        /\ nodes' = nodes
    BY <1>1 DEF Allocate, AllocateFails, CheckFails, CheckPasses, NoFuncArena, Incomplete,
                NoPayloadMemory, DestroyReq, Judged, parms
  <2>2. QED BY <2>1 DEF PairsMade
<1>2. CASE Sections
  <2>1. /\ pc \notin {"pairs", "finish", "accepted"} /\ pc' \notin {"pairs", "finish", "accepted"}
        /\ nodes' = nodes
    BY <1>2 DEF Sections, SectionRead, SectionMissing, SectionRefused, SectionAborts, Reading,
       parms
  <2>2. QED BY <2>1 DEF PairsMade
<1>3. CASE StartPairs \/ NoParams
  <2>1. /\ pc = "sections" /\ pc' \in {"pairs", "finish"} /\ nodes' = nodes /\ UNCHANGED text
        /\ nodes = << >>
    BY <1>3 DEF StartPairs, NoParams, Judged, parms, PairsMade
  <2>2. PICK s : s = Parameters /\ s = Parameters'
    BY <2>1, SameParameters
  <2>3. ASSUME Clean(s) PROVE \E m, T, t : Made(s, m, T, t)'
    <3>1. s \in Seq(Bytes)
      <4>1. Len(sections) = 3 /\ Present(2)
        <5>1. TextSound /\ Judged /\ Complete
          BY <1>3 DEF Shape, StartPairs, NoParams
        <5>2. Len(sections) = 3 /\ DOMAIN sections = 1 .. 3
          BY <5>1 DEF TextSound, Judged, Names
        <5>3. QED BY <5>1, <5>2 DEF Complete, Present
      <4>2. QED BY <2>2, <4>1, ParametersSound DEF ParametersIs, Shape
    <3>2. PICK N : N = Len(Commas(s)) /\ N \in Nat /\ N >= 2 /\ Commas(s)[1] = 0
      BY <2>3, <3>1, CommasIs DEF Clean, Row
    <3>3. 0 \in 0 .. N - 1 /\ N - 1 \in 0 .. N - 1 /\ 0 # N - 1
      BY <3>2
    <3>4. Listing(s, nodes', << >>, {})
      BY <2>1, EmptyLists DEF Listing
    <3>5. \A k \in Named(s) : ~(k <= 0)
      BY <3>2 DEF Named
    <3>6. CASE StartPairs
      <4>1. next_pair' = 0 + 1
        BY <3>6 DEF StartPairs
      <4>2. Made(s, 0, {}, << >>)'
        BY <3>2, <3>3, <3>4, <3>5, <4>1 DEF Made
      <4>3. QED BY <4>2
    <3>7. CASE NoParams
      <4>1. next_pair' = NULL /\ oom'
        BY <2>1, <3>7 DEF NoParams, parms, Shape, PairsSound
      <4>2. Made(s, N - 1, {}, << >>)'
        BY <3>2, <3>3, <3>4, <4>1 DEF Made
      <4>3. QED BY <4>2
    <3>8. QED BY <1>3, <3>6, <3>7
  <2>4. QED BY <2>1, <2>2, <2>3 DEF PairsMade
<1>4. CASE PairsDone \/ Finish
  <2>1. /\ pc \in {"pairs", "finish"} /\ pc' \in {"finish", "accepted"}
        /\ UNCHANGED <<text, next_pair, nodes, oom>>
    BY <1>4 DEF PairsDone, Finish, parms
  <2>2. PICK s : s = Parameters /\ s = Parameters'
    BY <2>1, SameParameters
  <2>3. \A m, T, t : Made(s, m, T, t) => Made(s, m, T, t)'
    BY <2>1 DEF Made, Listing
  <2>4. QED BY <2>1, <2>2, <2>3 DEF PairsMade
<1>5. CASE SkipPair \/ AddParam \/ ParamLost
  <2>1. PICK before \in BOOLEAN :
          /\ AtPair /\ MoveOn(before) /\ UNCHANGED <<pc, text>>
          /\ \/ ~HasName(before) /\ UNCHANGED <<nodes, oom>>
             \/ HasName(before) /\ nodes' = Linked(nodes, Node(before)) /\ UNCHANGED oom
             \/ HasName(before) /\ UNCHANGED nodes /\ oom'
    BY <1>5 DEF SkipPair, AddParam, ParamLost
  <2>2. /\ pc = "pairs" /\ pc' = "pairs" /\ next_pair # NULL /\ next_pair \in 1 .. Len(Parameters) + 1
        /\ Parameters \in Seq(Bytes) /\ InOrder(nodes)
    BY <2>1, ParametersSound DEF Shape, PairsSound, AtPair, ParametersIs
  <2>3. PICK s : s = Parameters /\ s = Parameters'
    BY <2>1, SameParameters
  <2>4. ASSUME Clean(s) PROVE \E m, T, t : Made(s, m, T, t)'
    <3>1. PICK m, T, t : Made(s, m, T, t)
      BY <2>2, <2>3, <2>4 DEF PairsMade
    <3>2. PICK g, N, x : g = Commas(s) /\ N = Len(g) /\ x = m + 1
      OBVIOUS
    <3>20. Clean(Parameters) /\ MoveOn(before)
      BY <2>1, <2>3, <2>4, Zenon
    <3>21. /\ m \in 0 .. N - 1 /\ m + 1 \in 1 .. N - 1 /\ m + 1 \in 0 .. N - 1
           /\ next_pair = g[m + 1] + 1
           /\ T \in SUBSET Nat /\ \A k \in T : k < m + 1
           /\ \A k \in Named(s) : k \in Nat /\ (k <= m + 1 => k = m + 1 \/ k <= m)
      BY <2>2, <2>3, <3>1, <3>2, <3>20, MadeAt, ZenonT(60)
    <3>3. /\ m \in 0 .. N - 1 /\ x \in 1 .. N - 1 /\ x \in 0 .. N - 1
          /\ next_pair = g[x] + 1
          /\ T \in SUBSET Nat /\ \A k \in T : k < x
          /\ \A k \in Named(s) : k \in Nat /\ (k <= x => k = x \/ k <= m)
      BY <3>2, <3>21, Zenon
    <3>4. next_pair' = IF x = N - 1 THEN NULL ELSE g[x + 1] + 1
      <4>1. next_pair' = IF m + 1 = N - 1 THEN NULL ELSE g[(m + 1) + 1] + 1
        BY <2>2, <2>3, <3>2, <3>20, <3>21, MovedIs, ZenonT(60)
      <4>2. QED BY <3>2, <4>1, Zenon
    <3>5. HasName(before) <=> x \in Named(s)
      BY <2>2, <2>3, <2>4, <3>2, <3>3, PairIs
    <3>6. /\ T \subseteq Named(s) /\ (~oom => \A k \in Named(s) : k <= m => k \in T)
          /\ Listing(s, nodes, t, T)
      BY <3>1 DEF Made
    <3>7. x \in Nat /\ \A k \in T : k <= x
      <4>1. x \in Nat /\ \A k \in T : k \in Nat /\ k < x
        BY <3>3
      <4>2. QED BY <4>1
    <3>8. CASE ~HasName(before) /\ UNCHANGED <<nodes, oom>>
      <4>1. ~oom => \A k \in Named(s) : k <= x => k \in T
        BY <3>3, <3>5, <3>6, <3>8, Zenon
      <4>2. Made(s, x, T, t)'
        BY <3>2, <3>3, <3>4, <3>6, <3>7, <3>8, <4>1, Zenon DEF Made
      <4>3. QED BY <4>2
    <3>9. CASE HasName(before) /\ UNCHANGED nodes /\ oom'
      <4>1. Made(s, x, T, t)'
        BY <3>2, <3>3, <3>4, <3>6, <3>7, <3>9, Zenon DEF Made
      <4>2. QED BY <4>1
    <3>10. CASE HasName(before) /\ nodes' = Linked(nodes, Node(before)) /\ UNCHANGED oom
      <4>1. PICK u : u = [k \in 1 .. Len(nodes) + 1 |-> IF k = Len(nodes) + 1 THEN m + 1 ELSE t[k]]
        OBVIOUS
      <4>2. Listing(s, nodes', u, T \cup {m + 1})
        BY <2>2, <2>3, <2>4, <3>1, <3>10, <4>1, AddedIs, Zenon
      <4>3. PICK W : W = T \cup {x}
        OBVIOUS
      <4>4. W \subseteq Named(s) /\ \A k \in W : k <= x
        BY <3>5, <3>6, <3>7, <3>10, <4>3
      <4>5. ~oom => \A k \in Named(s) : k <= x => k \in W
        BY <3>3, <3>6, <4>3
      <4>6. Made(s, x, W, u)'
        BY <3>2, <3>3, <3>4, <3>10, <4>2, <4>3, <4>4, <4>5, Zenon DEF Made
      <4>7. QED BY <4>6
    <3>11. QED BY <2>1, <3>8, <3>9, <3>10
  <2>5. QED BY <2>2, <2>3, <2>4 DEF PairsMade
<1>6. QED BY <1>1, <1>2, <1>3, <1>4, <1>5 DEF MakeReq, Pairs

-----------------------------------------------------------------------------
(* The list as it is walked                                                *)

\* The walk from the head goes through the nodes in the order of their creation.
LEMMA WalkIs ==
  ASSUME InOrder(nodes)
  PROVE  \A n \in 1 .. Len(nodes) : Walk[n] = n
<1>1. PICK l \in Nat : l = Len(nodes)
  BY LenProperties DEF InOrder
<1>2. \A k \in 1 .. l : nodes[k].next = IF k = l THEN NULL ELSE k + 1
  BY <1>1 DEF InOrder
<1> DEFINE Step(f) == [n \in 1 .. l |-> IF n = 1 THEN 1
                                        ELSE IF f[n - 1] = NULL THEN NULL ELSE nodes[f[n - 1]].next]
           W == [n \in 1 .. l |-> n]
<1>3. Walk = CHOOSE f : f = Step(f)
  BY <1>1 DEF Walk
<1>4. W = Step(W)
  <2>1. ASSUME NEW n \in 1 .. l PROVE W[n] = Step(W)[n]
    <3>1. CASE n = 1
      BY <3>1
    <3>2. CASE n # 1
      <4>1. n - 1 \in 1 .. l /\ n - 1 # l /\ n - 1 # NULL /\ (n - 1) + 1 = n
        BY <3>2 DEF NULL
      <4>2. W[n - 1] = n - 1 /\ nodes[n - 1].next = n
        BY <1>2, <4>1
      <4>3. QED BY <3>2, <4>1, <4>2
    <3>3. QED BY <3>1, <3>2
  <2>2. QED BY <2>1
<1>5. Walk = Step(Walk)
  BY <1>3, <1>4
<1>6. ASSUME NEW n \in 1 .. l
      PROVE  Walk[n] = IF n = 1 THEN 1
                       ELSE IF Walk[n - 1] = NULL THEN NULL ELSE nodes[Walk[n - 1]].next
  BY <1>5
<1> HIDE DEF Step, W
<1> DEFINE Bad == {n \in 1 .. l : Walk[n] # n}
<1>7. ASSUME NEW n \in Bad PROVE FALSE
  <2>1. Bad \in SUBSET Nat
    OBVIOUS
  <2>2. PICK w : w = Least(Bad)
    OBVIOUS
  <2>3. w \in Bad /\ \A k \in Bad : w <= k
    BY <2>1, <2>2, <1>7, LeastIs
  <2>4. w \in 1 .. l /\ Walk[w] # w
    BY <2>3
  <2>5. w # 1
    BY <1>6, <2>4
  <2>6. w - 1 \in 1 .. l /\ ~(w <= w - 1) /\ w - 1 # l /\ w - 1 # NULL /\ (w - 1) + 1 = w
    BY <2>4, <2>5 DEF NULL
  <2>7. Walk[w - 1] = w - 1
    BY <2>3, <2>6
  <2>8. Walk[w] = nodes[w - 1].next
    BY <1>6, <2>4, <2>5, <2>6, <2>7
  <2>9. nodes[w - 1].next = w
    BY <1>2, <2>6
  <2>10. QED BY <2>4, <2>8, <2>9
<1>8. QED BY <1>1, <1>7

\* The linked list is sound.
LEMMA SoundList ==
  ASSUME InOrder(nodes)
  PROVE  Sound(nodes)
<1>1. PICK l \in Nat : l = Len(nodes)
  BY LenProperties DEF InOrder
<1>2. DOMAIN nodes = 1 .. l /\ (nodes # << >> => l # 0)
  BY <1>1, LenProperties, EmptySeq DEF InOrder
<1>3. \A k \in 1 .. l : /\ nodes[k].next = IF k = l THEN NULL ELSE k + 1
                        /\ nodes[k].prev = IF k = 1 THEN l ELSE k - 1
  BY <1>1 DEF InOrder
<1>4. \A n \in 1 .. l : Walk[n] = n
  BY <1>1, WalkIs
<1> SUFFICES ASSUME nodes # << >>
             PROVE  /\ {Walk[n] : n \in DOMAIN nodes} = DOMAIN nodes
                    /\ nodes[Walk[l]].next = NULL
                    /\ \A n \in 2 .. l : nodes[Walk[n]].prev = Walk[n - 1]
                    /\ nodes[1].prev = Walk[l]
  BY <1>1, Zenon DEF Sound
<1>5. l \in 1 .. l /\ 1 \in 1 .. l
  BY <1>2
<1>6. {Walk[n] : n \in DOMAIN nodes} = DOMAIN nodes
  BY <1>2, <1>4
<1>7. nodes[Walk[l]].next = NULL
  <2>1. Walk[l] = l
    BY <1>4, <1>5
  <2>2. QED BY <1>3, <1>5, <2>1
<1>8. ASSUME NEW n \in 2 .. l PROVE nodes[Walk[n]].prev = Walk[n - 1]
  <2>1. n \in 1 .. l /\ n - 1 \in 1 .. l /\ n # 1
    OBVIOUS
  <2>2. Walk[n] = n /\ Walk[n - 1] = n - 1
    BY <1>4, <2>1
  <2>3. QED BY <1>3, <2>1, <2>2
<1>9. nodes[1].prev = Walk[l]
  <2>1. Walk[l] = l
    BY <1>4, <1>5
  <2>2. QED BY <1>3, <1>5, <2>1
<1>10. QED BY <1>6, <1>7, <1>8, <1>9

\* The c elements of t are chosen from the d of nn.
Chosen(t, c, nn, d) ==
  \E S \in SUBSET (1 .. d) :
    /\ Cardinality(S) = c
    /\ \A k \in 1 .. c : Increasing(S)[k] \in 1 .. d /\ nn[Increasing(S)[k]] = t[k]

\* What a list of some of N's elements lists is a choice from N's own list.
LEMMA ListsWithin ==
  ASSUME NEW N \in SUBSET Nat, IsFiniteSet(N), NEW T \in SUBSET N, NEW c \in Nat,
         NEW t, Lists(t, c, T),
         NEW nn, nn = Increasing(N), NEW d, d = Cardinality(N)
  PROVE  Chosen(t, c, nn, d)
<1>1. /\ d \in Nat /\ nn \in [1 .. d -> N]
      /\ \A j, k \in 1 .. d : j < k => nn[j] < nn[k]
      /\ \A n \in N : \E k \in 1 .. d : nn[k] = n
  BY IncreasingIs
<1>2. /\ t \in [1 .. c -> T]
      /\ \A j, k \in 1 .. c : j < k => t[j] < t[k]
      /\ \A n \in T : \E k \in 1 .. c : t[k] = n
  BY DEF Lists
<1>3. ASSUME NEW j \in 1 .. d, NEW k \in 1 .. d, nn[j] <= nn[k] PROVE j <= k
  <2>1. nn[j] \in Nat /\ nn[k] \in Nat
    BY <1>1
  <2>2. ~(k < j)
    <3>1. k < j => nn[k] < nn[j]
      BY <1>1
    <3>2. QED BY <1>3, <2>1, <3>1
  <2>3. QED BY <1>1, <2>2
<1> DEFINE At(k) == CHOOSE j \in 1 .. d : nn[j] = t[k]
           u == [k \in 1 .. c |-> At(k)]
           S == {At(k) : k \in 1 .. c}
<1>4. ASSUME NEW k \in 1 .. c PROVE At(k) \in 1 .. d /\ nn[At(k)] = t[k] /\ At(k) \in Nat
  <2>1. t[k] \in N
    BY <1>2
  <2>2. \E j \in 1 .. d : nn[j] = t[k]
    BY <1>1, <2>1
  <2>3. At(k) \in 1 .. d /\ nn[At(k)] = t[k]
    BY <2>2
  <2> HIDE DEF At
  <2>4. At(k) \in Nat
    BY <2>3
  <2>5. QED BY <2>3, <2>4
<1> HIDE DEF At
<1>5. ASSUME NEW j \in 1 .. c, NEW k \in 1 .. c, j < k PROVE At(j) < At(k)
  <2>1. t[j] < t[k] /\ t[j] \in Nat /\ t[k] \in Nat
    BY <1>2, <1>5
  <2>2. ~(At(k) <= At(j))
    <3>1. At(k) <= At(j) => t[k] <= t[j]
      <4>1. ASSUME At(k) <= At(j) PROVE t[k] <= t[j]
        <5>1. At(k) < At(j) \/ At(k) = At(j)
          BY <1>4, <4>1
        <5>2. CASE At(k) = At(j)
          BY <1>4, <2>1, <5>2
        <5>3. CASE At(k) < At(j)
          <6>1. nn[At(k)] < nn[At(j)]
            BY <1>1, <1>4, <5>3
          <6>2. QED BY <1>4, <2>1, <6>1
        <5>4. QED BY <5>1, <5>2, <5>3
      <4>2. QED BY <4>1
    <3>2. QED BY <2>1, <3>1
  <2>3. QED BY <1>4, <2>2
<1>6. Lists(u, c, S)
  <2>1. u \in [1 .. c -> S]
    OBVIOUS
  <2>2. \A k \in 1 .. c : u[k] = At(k)
    OBVIOUS
  <2>3. \A j, k \in 1 .. c : j < k => u[j] < u[k]
    BY <1>5, <2>2
  <2>4. \A n \in S : \E k \in 1 .. c : u[k] = n
    BY <2>2
  <2>5. QED BY <2>1, <2>3, <2>4 DEF Lists
<1>7. S \in SUBSET (1 .. d) /\ S \in SUBSET Nat
  BY <1>4
<1>8. Cardinality(S) = c /\ Increasing(S) = u
  BY <1>6, <1>7, IncreasingIsOnly
<1>9. \A k \in 1 .. c : u[k] \in 1 .. d /\ nn[u[k]] = t[k]
  BY <1>4
<1> HIDE DEF u, S
<1>10. QED BY <1>7, <1>8, <1>9 DEF Chosen

\* The named pairs are finitely many numbers.
LEMMA NamedIs ==
  ASSUME NEW s, Len(Commas(s)) \in Nat
  PROVE  Named(s) \in SUBSET Nat /\ IsFiniteSet(Named(s))
<1>1. PICK n \in Nat : n = Len(Commas(s))
  OBVIOUS
<1>2. Named(s) \in SUBSET (1 .. n - 1)
  BY <1>1 DEF Named
<1>3. IsFiniteSet(1 .. n - 1) /\ \A k \in 1 .. n - 1 : k \in Nat
  BY SMTT(20), FS_Interval
<1>4. QED BY <1>2, <1>3, FS_Subset

\* In the end the list holds the parameters as they are described, all of them
\* unless memory ran out.
LEMMA ParamsHold ==
  ASSUME Shape, PairsMade
  PROVE  ParamsExact
<1>1. Sound(nodes)
  BY SoundList DEF Shape
<1> SUFFICES ASSUME pc = "accepted", Clean(Parameters)
             PROVE  IF oom THEN Listed \in Thinned(Pairings(Parameters))
                    ELSE Listed = Pairings(Parameters)
  BY <1>1 DEF ParamsExact, Clean
<1>2. PICK s : s = Parameters
  OBVIOUS
<1>3. s \in Seq(Bytes) /\ PlainlyEscaped(s)
  <2>1. TextSound /\ Len(sections) = 3 /\ \A i \in 1 .. 3 : Present(i)
    BY DEF Shape, PairsSound
  <2>2. Present(2)
    BY <2>1
  <2>3. Parameters \in Seq(Bytes)
    BY <2>1, <2>2, ParametersSound DEF ParametersIs
  <2>4. QED BY <1>2, <2>3 DEF Clean
<1>4. PICK m, T, t : Made(s, m, T, t)
  BY <1>2 DEF PairsMade
<1>5. PICK N : N = Len(Commas(s)) /\ N \in Nat
  BY <1>3, CommasIs DEF Row
<1>6. next_pair = NULL
  BY DEF Shape, PairsSound
<1>7. m = N - 1
  <2>1. PICK q : q = Commas(s)[m + 1]
    OBVIOUS
  <2>2. m # N - 1 => q \in Nat
    <3>1. m \in 0 .. N - 1
      BY <1>4, <1>5 DEF Made
    <3>2. Row(s, Commas(s), N)
      BY <1>3, <1>5, CommasIs
    <3>3. \A k \in 1 .. N : Commas(s)[k] \in Nat
      <4>1. Len(s) \in Nat /\ \A k \in 1 .. N : Commas(s)[k] \in 0 .. Len(s) + 1
        BY <1>3, <3>2, LenProperties DEF Row
      <4>2. QED BY <4>1
    <3>4. m # N - 1 => m + 1 \in 1 .. N
      BY <1>5, <3>1
    <3>5. QED BY <2>1, <3>3, <3>4
  <2>3. next_pair = IF m = N - 1 THEN NULL ELSE q + 1
    BY <1>4, <1>5, <2>1 DEF Made
  <2>4. \A n \in Nat : n + 1 # NULL
    BY DEF NULL
  <2>5. QED BY <1>6, <2>2, <2>3, <2>4
<1>8. T \subseteq Named(s) /\ (~oom => T = Named(s)) /\ Listing(s, nodes, t, T)
  <2>1. \A k \in Named(s) : k <= m
    BY <1>5, <1>7 DEF Named
  <2>2. QED BY <1>4, <2>1 DEF Made
<1>9. PICK c \in Nat : c = Len(nodes) /\ DOMAIN nodes = 1 .. c
  BY LenProperties DEF Shape, InOrder
<1>10. Lists(t, c, T) /\ \A k \in 1 .. c : Pair(nodes[k]) = PairAt(s, t[k])
  BY <1>8, <1>9 DEF Listing
<1>11. Listed = [n \in 1 .. c |-> PairAt(s, t[n])]
  <2>1. \A n \in 1 .. c : Walk[n] = n
    BY <1>9, WalkIs DEF Shape
  <2>2. \A n \in 1 .. c : Pair(nodes[Walk[n]]) = PairAt(s, t[n])
    BY <1>10, <2>1
  <2>3. QED BY <1>9, <2>2 DEF Listed
<1>12. Named(s) \in SUBSET Nat /\ IsFiniteSet(Named(s))
  BY <1>5, NamedIs
<1>13. PICK nn, d : nn = Increasing(Named(s)) /\ d = Cardinality(Named(s))
  OBVIOUS
<1>14. d \in Nat /\ DOMAIN nn = 1 .. d
  BY <1>12, <1>13, IncreasingIs
<1>15. Pairings(s) = [n \in 1 .. d |-> PairAt(s, nn[n])]
  BY <1>13, <1>14, PairingsIs
<1>16. CASE ~oom
  <2>1. T = Named(s) /\ T \in SUBSET Nat
    BY <1>8, <1>12, <1>16
  <2>2. Cardinality(T) = c /\ Increasing(T) = t
    BY <1>10, <2>1, IncreasingIsOnly
  <2>3. Listed = Pairings(s)
    BY <1>11, <1>13, <1>15, <2>1, <2>2
  <2>4. QED BY <1>2, <1>16, <2>3
<1>17. CASE oom
  <2>1. PICK S \in SUBSET (1 .. d) :
          /\ Cardinality(S) = c
          /\ \A k \in 1 .. c : Increasing(S)[k] \in 1 .. d /\ nn[Increasing(S)[k]] = t[k]
    <3>1. Chosen(t, c, nn, d)
      BY <1>8, <1>10, <1>12, <1>13, ListsWithin
    <3>2. QED BY <3>1 DEF Chosen
  <2>2. \A k \in 1 .. c : Pairings(s)[Increasing(S)[k]] = PairAt(s, t[k])
    BY <1>15, <2>1
  <2>3. Listed = [k \in 1 .. Cardinality(S) |-> Pairings(s)[Increasing(S)[k]]]
    BY <1>11, <2>1, <2>2
  <2>4. S \in SUBSET DOMAIN Pairings(s)
    BY <1>15
  <2>5. Listed \in Thinned(Pairings(s))
    BY <2>3, <2>4 DEF Thinned
  <2>6. QED BY <1>2, <1>17, <2>5
<1>18. QED BY <1>16, <1>17

-----------------------------------------------------------------------------
(* The invariant and what follows from it                                  *)

\* All of it together: what there is, what the sections are cut from, what is kept of
\* them, that a well-formed request is not refused, and what the pairs have become.
IInv == Shape /\ SectionsCut /\ Kept /\ FormedSound /\ PairsMade

\* It holds when make_req is called: nothing is there yet.
LEMMA InitIInv == Init => IInv
<1> SUFFICES ASSUME Init PROVE IInv
  OBVIOUS
<1>1. Shape
  BY InitShape
<1>2. SectionsCut
  <2>1. sections = << >> /\ cursor = 1 /\ DOMAIN << >> = {}
    BY DEF Init
  <2>2. Cuts(<< >>, << >>)
    BY <2>1 DEF Cuts
  <2>3. QED BY <2>2 DEF SectionsCut
<1>3. Kept
  BY DEF Init, Kept
<1>4. FormedSound
  <2>1. AllPresent
    BY DEF Init, AllPresent
  <2>2. QED BY <2>1 DEF Init, FormedSound
<1>5. PairsMade
  BY DEF Init, PairsMade
<1>6. QED BY <1>1, <1>2, <1>3, <1>4, <1>5 DEF IInv

\* Every step of make_req keeps it.
LEMMA NextIInv ==
  ASSUME IInv, MakeReq
  PROVE  IInv'
<1>1. Shape'
  <2>1. Holding'
    BY MakeReqHolding DEF IInv, Shape
  <2>2. TextSound' /\ PairsSound' /\ InOrder(nodes)' /\ RequestSound'
    BY NextText, NextPairs, NextList, NextRequest DEF IInv
  <2>3. QED BY <2>1, <2>2 DEF Shape
<1>2. SectionsCut'
  BY NextCuts DEF IInv
<1>3. Kept'
  BY NextKept DEF IInv
<1>4. FormedSound'
  BY NextFormed DEF IInv
<1>5. PairsMade'
  BY NextMade DEF IInv
<1>6. QED BY <1>1, <1>2, <1>3, <1>4, <1>5 DEF IInv

\* And so does a step that changes nothing.
LEMMA StutterIInv ==
  ASSUME IInv, UNCHANGED vars
  PROVE  IInv'
<1>1. /\ UNCHANGED <<pc, raw, text, next_pair, nodes, req, live, oom, strayed>>
      /\ UNCHANGED <<cursor, page, used, sections>>
  BY DEF vars, text, parms
<1>2. Type' = Type /\ Parameters' = Parameters /\ Payload' = Payload
  BY <1>1, SameStrings
<1>3. Shape'
  <2>1. Holding'
    BY <1>1 DEF IInv, Shape, Holding
  <2>2. TextSound'
    BY <1>1 DEF IInv, Shape, TextSound
  <2>3. PairsSound'
    BY <1>1, <1>2 DEF IInv, Shape, PairsSound, Present
  <2>4. InOrder(nodes)'
    BY <1>1 DEF IInv, Shape, InOrder
  <2>5. RequestSound'
    BY <1>1 DEF IInv, Shape, RequestSound
  <2>6. QED BY <2>1, <2>2, <2>3, <2>4, <2>5 DEF Shape
<1>4. SectionsCut'
  BY <1>1, SameCuts DEF IInv
<1>5. Kept'
  BY <1>1, <1>2 DEF IInv, Kept
<1>6. FormedSound'
  <2>1. Good' = Good /\ AllPresent' = AllPresent
    BY <1>1 DEF Good, AllPresent, Present
  <2>2. QED BY <1>1, <2>1 DEF IInv, FormedSound
<1>7. PairsMade'
  <2>1. PICK s : s = Parameters /\ s = Parameters'
    BY <1>2
  <2>2. \A m, T, t : Made(s, m, T, t) => Made(s, m, T, t)'
    BY <1>1 DEF Made, Listing
  <2>3. QED BY <1>1, <2>1, <2>2 DEF IInv, PairsMade
<1>8. QED BY <1>3, <1>4, <1>5, <1>6, <1>7 DEF IInv

\* It therefore always holds.
LEMMA Invariance == Spec => []IInv
<1>1. IInv /\ [MakeReq]_vars => IInv'
  BY NextIInv, StutterIInv
<1>2. QED BY InitIInv, <1>1, PTL DEF Spec

\* Every variable of make_req has its type, and the cursors stay in their texts.
THEOREM RequestTypeCorrect == Spec => []TypeOK
<1>1. ASSUME IInv PROVE TypeOK
  <2>1. Holding /\ TextSound /\ PairsSound /\ InOrder(nodes) /\ RequestSound
    BY <1>1 DEF IInv, Shape
  <2>2. pc \in Points /\ live \subseteq Things
    BY <2>1 DEF Holding, Points, Final
  <2>3. cursor \in 1 .. Len(raw) /\ used \in Nat /\ Len(sections) <= Len(Names)
    BY <2>1 DEF TextSound, Names
  <2>4. ASSUME NEW i \in DOMAIN sections PROVE sections[i] \in DOMAIN page \cup {0, NULL}
    <3>1. page \in Seq(Bytes) /\ sections \in Seq(0 .. Len(page) - 1 \cup {NULL})
      BY <2>1 DEF TextSound
    <3>2. DOMAIN page = 1 .. Len(page) /\ Len(page) \in Nat
      BY <3>1, LenProperties
    <3>3. sections[i] \in 0 .. Len(page) - 1 \cup {NULL}
      BY <2>4, <3>1
    <3>4. \A l \in Nat : \A n \in 0 .. l - 1 : n \in 1 .. l \/ n = 0
      OBVIOUS
    <3>5. QED BY <3>2, <3>3, <3>4
  <2>5. next_pair # NULL => next_pair \in 1 .. Len(Parameters) + 1
    BY <2>1 DEF PairsSound
  <2>6. ASSUME NEW k \in DOMAIN nodes
        PROVE  nodes[k].next \in DOMAIN nodes \cup {NULL} /\ nodes[k].prev \in DOMAIN nodes
    <3>1. PICK l \in Nat : l = Len(nodes) /\ DOMAIN nodes = 1 .. l
      BY <2>1, LenProperties DEF InOrder
    <3>2. /\ nodes[k].next = IF k = l THEN NULL ELSE k + 1
          /\ nodes[k].prev = IF k = 1 THEN l ELSE k - 1
      BY <2>1, <2>6, <3>1 DEF InOrder
    <3>3. k \in 1 .. l /\ l \in 1 .. l /\ (k # l => k + 1 \in 1 .. l) /\ (k # 1 => k - 1 \in 1 .. l)
      BY <2>6, <3>1
    <3>4. QED BY <3>1, <3>2, <3>3
  <2>7. req.request_type \in {UNKNOWN} \cup 0 .. 4 /\ {oom, strayed} \subseteq BOOLEAN
    BY <2>1 DEF RequestSound
  <2>8. QED BY <2>2, <2>3, <2>4, <2>5, <2>6, <2>7 DEF TypeOK
<1>2. QED BY <1>1, Invariance, PTL

\* Whatever the text and whichever allocation fails, make_req leaves nothing of
\* a request it refuses, and of one it accepts only the request.
THEOREM NothingLeaked == Spec => []AllReleased
<1>1. IInv => AllReleased
  BY DEF IInv, Shape, Holding, AllReleased
<1>2. QED BY <1>1, Invariance, PTL

\* format_req accepts every request of the form request.h describes, while memory
\* lasts, and takes its three parts from where the description puts them.
THEOREM WellFormedAccepted == Spec => []FormedAccepted
<1>1. IInv => FormedAccepted
  BY AcceptedHolds DEF IInv
<1>2. QED BY <1>1, Invariance, PTL

\* What format_req accepts has three sections in this order, each from an opening
\* brace to the first closing one behind it, unless one ended before it began.
THEOREM AcceptedInOrder == Spec => []SectionsInOrder
<1>1. IInv => SectionsInOrder
  BY OrderHolds DEF IInv
<1>2. QED BY <1>1, Invariance, PTL

\* format_params links its nodes soundly, and makes of the parameters the list
\* request.h describes; where memory runs out some are missing, none is changed.
THEOREM ParamsAsDescribed == Spec => []ParamsExact
<1>1. IInv => ParamsExact
  BY ParamsHold DEF IInv
<1>2. QED BY <1>1, Invariance, PTL

-----------------------------------------------------------------------------
(* make_req comes to an end                                                *)

\* How far make_req is from its end: first the point it has reached, and at a point
\* where it loops the sections or the bytes of the parameters still before it.
Phase ==
  CASE pc = "allocate" -> 5 [] pc = "check" -> 4 [] pc = "sections" -> 3 [] pc = "pairs" -> 2
    [] pc \in {"finish", "refuse"} -> 1 [] OTHER -> 0
Left ==
  CASE pc = "sections" -> Len(Names) - Len(sections)
    [] pc = "pairs" /\ next_pair # NULL -> Len(Parameters) + 2 - next_pair
    [] OTHER -> 0
Closer == /\ {Phase', Left'} \subseteq Nat
          /\ Phase' < Phase \/ (Phase' = Phase /\ Left' < Left)

\* At every point this is a number.
LEMMA LeftIs == Shape => Phase \in Nat /\ Left \in Nat
<1> SUFFICES ASSUME Shape PROVE Phase \in Nat /\ Left \in Nat
  OBVIOUS
<1>1. Phase \in Nat
  BY DEF Phase
<1>2. CASE pc = "sections"
  <2>1. sections \in Seq(0 .. Len(page) - 1 \cup {NULL}) /\ Len(sections) <= 3
    BY DEF Shape, TextSound
  <2>2. Len(sections) \in Nat
    BY <2>1, LenProperties
  <2>3. Left = 3 - Len(sections)
    BY <1>2 DEF Left, Names
  <2>4. QED BY <1>1, <2>1, <2>2, <2>3
<1>3. CASE pc = "pairs" /\ next_pair # NULL
  <2>1. Parameters \in Seq(Bytes) /\ next_pair \in 1 .. Len(Parameters) + 1
    BY <1>3, ParametersSound DEF Shape, PairsSound, ParametersIs
  <2>2. Len(Parameters) \in Nat
    BY <2>1, LenProperties
  <2>3. Left = Len(Parameters) + 2 - next_pair
    BY <1>3 DEF Left
  <2>4. QED BY <1>1, <2>1, <2>2, <2>3
<1>4. CASE pc # "sections" /\ ~(pc = "pairs" /\ next_pair # NULL)
  BY <1>1, <1>4 DEF Left
<1>5. QED BY <1>2, <1>3, <1>4

\* A section more is looked for, or the process aborts.
LEMMA SectionsCloser ==
  ASSUME Shape, Sections
  PROVE  Phase' < Phase \/ (Phase' = Phase /\ Left' < Left)
<1>1. pc = "sections" /\ Phase = 3 /\ Left = 3 - Len(sections)
  BY DEF Sections, SectionRead, SectionMissing, SectionRefused, SectionAborts, Reading,
         Phase, Left, Names
<1>2. CASE SectionAborts
  <2>1. Phase' = 0
    BY <1>2 DEF SectionAborts, Phase
  <2>2. QED BY <1>1, <2>1
<1>3. CASE SectionRead \/ SectionMissing \/ SectionRefused
  <2>1. pc' = "sections" /\ \E a : sections' = Append(sections, a)
    BY <1>1, <1>3 DEF SectionRead, SectionMissing, SectionRefused, GetSection, GetNothing
  <2>2. PICK S : sections \in Seq(S)
    BY DEF Shape, TextSound
  <2>3. Len(sections') = Len(sections) + 1 /\ Len(sections) \in Nat
    BY <2>1, <2>2, LenProperties
  <2>4. Phase' = 3 /\ Left' = 3 - Len(sections')
    BY <2>1 DEF Phase, Left, Names
  <2>5. QED BY <1>1, <2>3, <2>4
<1>4. QED BY <1>2, <1>3 DEF Sections

\* The loop over the pairs moves behind the comma it found.
LEMMA PairsCloser ==
  ASSUME Shape, Pairs
  PROVE  Phase' < Phase \/ (Phase' = Phase /\ Left' < Left)
<1>1. pc = "pairs" /\ Phase = 2
  BY DEF Pairs, SkipPair, AddParam, ParamLost, PairsDone, AtPair, Phase
<1>2. CASE PairsDone
  <2>1. Phase' = 1
    BY <1>2 DEF PairsDone, Phase
  <2>2. QED BY <1>1, <2>1
<1>3. CASE SkipPair \/ AddParam \/ ParamLost
  <2>1. PICK before \in BOOLEAN : AtPair /\ MoveOn(before) /\ UNCHANGED <<pc, text>>
    BY <1>3 DEF SkipPair, AddParam, ParamLost
  <2>2. /\ Parameters \in Seq(Bytes) /\ next_pair \in 1 .. Len(Parameters) + 1
        /\ Parameters' = Parameters /\ next_pair # NULL
    BY <2>1, ParametersSound, SameParameters DEF Shape, PairsSound, AtPair, ParametersIs
  <2>3. PICK l \in Nat : l = Len(Parameters)
    BY <2>2, LenProperties
  <2>4. PICK d : d = pair_delimiter(before)
    OBVIOUS
  <2>5. d \in next_pair .. l + 1
    BY <2>2, <2>3, <2>4, FirstOfIs DEF pair_delimiter, FirstHit
  <2>6. next_pair' = IF d > l THEN NULL ELSE d + 1
    BY <2>1, <2>3, <2>4 DEF MoveOn
  <2>7. Phase' = 2 /\ Left = l + 2 - next_pair
    BY <1>1, <2>1, <2>2, <2>3 DEF Phase, Left
  <2>8. Left' = IF next_pair' # NULL THEN l + 2 - next_pair' ELSE 0
    BY <1>1, <2>1, <2>2, <2>3 DEF Left
  <2>9. next_pair \in 1 .. l + 1
    BY <2>2, <2>3
  <2>10. Left' < Left
    BY <2>3, <2>5, <2>6, <2>7, <2>8, <2>9 DEF NULL
  <2>11. QED BY <1>1, <2>7, <2>10
<1>4. QED BY <1>2, <1>3 DEF Pairs

\* Every step ends at a later point, or at the same one with less left.
LEMMA MakeReqCloser ==
  ASSUME Shape, MakeReq
  PROVE  Phase' < Phase \/ (Phase' = Phase /\ Left' < Left)
<1>1. CASE Allocate \/ AllocateFails
  BY <1>1 DEF Allocate, AllocateFails, Phase
<1>2. CASE CheckFails \/ CheckPasses \/ NoFuncArena
  BY <1>2 DEF CheckFails, CheckPasses, NoFuncArena, Phase
<1>3. CASE Incomplete \/ NoPayloadMemory \/ StartPairs \/ NoParams
  BY <1>3 DEF Incomplete, NoPayloadMemory, StartPairs, NoParams, Judged, Phase
<1>4. CASE Finish \/ DestroyReq
  BY <1>4 DEF Finish, DestroyReq, Phase
<1>5. CASE Sections
  BY <1>5, SectionsCloser
<1>6. CASE Pairs
  BY <1>6, PairsCloser
<1>7. QED BY <1>1, <1>2, <1>3, <1>4, <1>5, <1>6 DEF MakeReq

\* Every step of make_req takes it closer to its end, for a text of any length and
\* whatever fails: each turn of the loop over the pairs moves behind what it has
\* looked at.  This is why it comes to an end.
THEOREM AlwaysMovesOn == Spec => [][Closer]_vars
<1>1. IInv => Phase \in Nat /\ Left \in Nat
  BY LeftIs DEF IInv
<1>2. IInv /\ (Phase \in Nat /\ Left \in Nat)' /\ [MakeReq]_vars => [Closer]_vars
  BY MakeReqCloser DEF IInv, Closer
<1>3. QED BY <1>1, <1>2, Invariance, PTL DEF Spec
=============================================================================
