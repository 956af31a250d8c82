---------------------------- MODULE RecvReqProofs ----------------------------
(***************************************************************************)
(* What TLAPS proves of RecvReq, for any stream of any length, any size of *)
(* the blocks and any maximum of a request: its safety invariants, and     *)
(* that what it returns is what make_req takes for granted.                *)
(***************************************************************************)
EXTENDS RecvReq, SequenceTheorems, WellFoundedInduction, TLAPS

\* Bytes that lie one behind the other in the stream.
Consecutive(s) == \A m, n \in DOMAIN s : s[n] - s[m] = n - m

\* The request being read fits in its allocation, with the zero behind it.
RoomForZero == Len(req) < cap

\* What was returned and what was thrown away lies in the bytes that are gone.
HistorySound ==
  /\ \A p \in returned \cup dropped : 1 <= p.from /\ p.to <= Len(gone)
  /\ \A p \in returned : p.from <= p.to

\* recv_buf holds less than it has room for, and nothing between its bytes is
\* missing.
BufferSound == ~strayed => Len(recv_buf) <= BlockSize /\ Consecutive(recv_buf)

\* More than there is room for is put into recv_buf only behind a ']' alone.
OverrunKnown == /\ Len(recv_buf) <= BlockSize + 1
                /\ Len(recv_buf) > BlockSize => StopAlone

\* No request ends in what was read so far, unless at its first byte.
NoEndYet ==
  \A n \in DOMAIN Visible(req) :
    input[req[n]] = Stop => IF n > 1 THEN input[req[n - 1]] = Escape ELSE strayed

\* The inductive invariant.
IInv == /\ TypeOK
        /\ RoomForZero
        /\ HistorySound
        /\ Consecutive(stream)
        /\ BufferSound
        /\ OverrunKnown
        /\ NoEndYet
        /\ StreamConserved
        /\ FramingExact

-----------------------------------------------------------------------------
(* Sequences                                                               *)

LEMMA PrefixIs ==
  ASSUME NEW S, NEW s \in Seq(S), NEW n \in Nat
  PROVE  /\ Prefix(s, n) \in Seq(S)
         /\ Len(Prefix(s, n)) = IF n < Len(s) THEN n ELSE Len(s)
         /\ \A i \in 1 .. Len(Prefix(s, n)) : Prefix(s, n)[i] = s[i]
<1> DEFINE k == IF n < Len(s) THEN n ELSE Len(s)
<1>1. k \in Nat /\ k <= Len(s) /\ \A i \in 1 .. k : s[i] \in S
  BY LenProperties, ElementOfSeq
<1>2. Prefix(s, n) = SubSeq(s, 1, k)
  BY DEF Prefix
<1> HIDE DEF k
<1>3. /\ SubSeq(s, 1, k) \in Seq(S)
      /\ Len(SubSeq(s, 1, k)) = k
      /\ \A i \in 1 .. k : SubSeq(s, 1, k)[i] = s[i]
  BY <1>1, SubSeqProperties
<1>4. QED BY <1>2, <1>3 DEF k

LEMMA SuffixIs ==
  ASSUME NEW S, NEW s \in Seq(S), NEW n \in 0 .. Len(s)
  PROVE  /\ Suffix(s, n) \in Seq(S)
         /\ Len(Suffix(s, n)) = Len(s) - n
         /\ \A i \in 1 .. Len(s) - n : Suffix(s, n)[i] = s[n + i]
<1>1. Len(s) \in Nat /\ n \in Nat /\ n <= Len(s) /\ \A i \in n + 1 .. Len(s) : s[i] \in S
  BY LenProperties, ElementOfSeq
<1>2. Suffix(s, n) = SubSeq(s, n + 1, Len(s))
  BY DEF Suffix
<1>3. /\ SubSeq(s, n + 1, Len(s)) \in Seq(S)
      /\ Len(SubSeq(s, n + 1, Len(s))) = Len(s) - n
      /\ \A i \in 1 .. Len(s) - n : SubSeq(s, n + 1, Len(s))[i] = s[n + i]
  BY <1>1, SubSeqProperties
<1>4. QED BY <1>2, <1>3

\* A suffix longer than what there is has nothing in it.
LEMMA SuffixBeyond ==
  ASSUME NEW S, NEW s \in Seq(S), NEW n \in Nat, n >= Len(s)
  PROVE  Suffix(s, n) = << >>
BY SubSeqEmpty, LenProperties DEF Suffix

LEMMA PrefixWhole ==
  ASSUME NEW S, NEW s \in Seq(S), NEW n \in Nat, n >= Len(s)
  PROVE  Prefix(s, n) = s
<1>1. /\ Prefix(s, n) \in Seq(S) /\ Len(Prefix(s, n)) = Len(s)
      /\ \A i \in 1 .. Len(s) : Prefix(s, n)[i] = s[i]
  BY PrefixIs, LenProperties
<1>2. QED BY <1>1, SeqEqual

\* A prefix and the rest.
LEMMA SplitAt ==
  ASSUME NEW S, NEW s \in Seq(S), NEW n \in 0 .. Len(s)
  PROVE  Prefix(s, n) \o Suffix(s, n) = s
<1>1. Len(s) \in Nat /\ n \in Nat /\ n <= Len(s)
  BY LenProperties
<1>2. /\ Prefix(s, n) \in Seq(S) /\ Len(Prefix(s, n)) = n
      /\ \A i \in 1 .. n : Prefix(s, n)[i] = s[i]
  BY <1>1, PrefixIs
<1>3. /\ Suffix(s, n) \in Seq(S) /\ Len(Suffix(s, n)) = Len(s) - n
      /\ \A i \in 1 .. Len(s) - n : Suffix(s, n)[i] = s[n + i]
  BY SuffixIs
<1>4. /\ Prefix(s, n) \o Suffix(s, n) \in Seq(S)
      /\ Len(Prefix(s, n) \o Suffix(s, n)) = Len(s)
      /\ \A i \in 1 .. Len(s) : (Prefix(s, n) \o Suffix(s, n))[i] =
           IF i <= n THEN Prefix(s, n)[i] ELSE Suffix(s, n)[i - n]
  BY <1>1, <1>2, <1>3, ConcatProperties
<1>5. ASSUME NEW i \in 1 .. Len(s)
      PROVE  (Prefix(s, n) \o Suffix(s, n))[i] = s[i]
  <2>1. CASE i <= n
    BY <1>1, <1>2, <1>4, <2>1
  <2>2. CASE i > n
    <3>1. i - n \in 1 .. Len(s) - n /\ n + (i - n) = i
      BY <1>1, <2>2
    <3>2. QED BY <1>1, <1>3, <1>4, <2>2, <3>1
  <2>3. i <= n \/ i > n
    BY <1>1
  <2>4. QED BY <2>1, <2>2, <2>3
<1>6. QED BY <1>4, <1>5, SeqEqual

\* A set of numbers has a least.
LEMMA LeastIs ==
  ASSUME NEW S \in SUBSET Nat, NEW m \in S
  PROVE  Least(S) \in S /\ \A n \in S : Least(S) <= n
<1>1. \E n \in S : \A k \in S : n <= k
  <2> DEFINE R == {ss \in Nat \X Nat : ss[1] < ss[2]}
  <2>1. IsWellFoundedOn(R, Nat)
    BY NatLessThanWellFounded DEF OpToRel
  <2>2. \A n, k \in Nat : k < n => <<k, n>> \in R
    OBVIOUS
  <2> HIDE DEF R
  <2>3. PICK n \in S : \A k \in S : ~(<<k, n>> \in R)
    BY <2>1, WFMin
  <2>4. \A k \in S : ~(k < n)
    BY <2>2, <2>3
  <2>5. QED BY <2>4
<1>2. QED BY <1>1 DEF Least

\* Elements of a concatenation.
LEMMA Concatenated ==
  ASSUME NEW S, NEW a \in Seq(S), NEW b \in Seq(S)
  PROVE  /\ a \o b \in Seq(S) /\ Len(a) \in Nat /\ Len(b) \in Nat
         /\ Len(a \o b) = Len(a) + Len(b)
         /\ \A i \in 1 .. Len(a) : (a \o b)[i] = a[i]
         /\ \A i \in 1 .. Len(b) : (a \o b)[Len(a) + i] = b[i]
<1>1. /\ a \o b \in Seq(S) /\ Len(a) \in Nat /\ Len(b) \in Nat
      /\ Len(a \o b) = Len(a) + Len(b)
      /\ \A i \in 1 .. Len(a) + Len(b) : (a \o b)[i] =
                  IF i <= Len(a) THEN a[i] ELSE b[i - Len(a)]
  BY ConcatProperties, LenProperties
<1>2. ASSUME NEW i \in 1 .. Len(a)
      PROVE  (a \o b)[i] = a[i]
  <2>1. i \in 1 .. Len(a) + Len(b) /\ i <= Len(a)
    BY <1>1
  <2>2. QED BY <1>1, <2>1
<1>3. ASSUME NEW i \in 1 .. Len(b)
      PROVE  (a \o b)[Len(a) + i] = b[i]
  <2>1. Len(a) + i \in 1 .. Len(a) + Len(b) /\ ~(Len(a) + i <= Len(a))
        /\ (Len(a) + i) - Len(a) = i
    BY <1>1
  <2>2. (a \o b)[Len(a) + i] = b[(Len(a) + i) - Len(a)]
    BY <1>1, <2>1
  <2>3. QED BY <2>1, <2>2
<1>4. QED BY <1>1, <1>2, <1>3

Increasing(s) == \A m, n \in DOMAIN s : m < n => s[m] < s[n]
Values(s)     == {s[n] : n \in DOMAIN s}

\* Of the parts of an increasing sequence each is increasing, and all of one lie
\* before all of the next.
LEMMA IncreasingParts ==
  ASSUME NEW S \in SUBSET Int, NEW a \in Seq(S), NEW b \in Seq(S)
  PROVE  /\ Increasing(a \o b) <=>
              /\ Increasing(a) /\ Increasing(b)
              /\ \A x \in Values(a), y \in Values(b) : x < y
         /\ Values(a \o b) = Values(a) \cup Values(b)
<1> DEFINE c == a \o b
<1>1. /\ Len(a) \in Nat /\ Len(b) \in Nat /\ Len(c) = Len(a) + Len(b)
      /\ \A i \in 1 .. Len(a) : c[i] = a[i]
      /\ \A i \in 1 .. Len(b) : c[Len(a) + i] = b[i]
      /\ DOMAIN a = 1 .. Len(a) /\ DOMAIN b = 1 .. Len(b) /\ DOMAIN c = 1 .. Len(c)
  BY Concatenated, LenProperties
<1> HIDE DEF c
<1>2. ASSUME NEW n \in DOMAIN c
      PROVE  n \in 1 .. Len(a) \/ \E k \in 1 .. Len(b) : n = Len(a) + k
  <2>1. CASE n <= Len(a)
    BY <1>1, <2>1
  <2>2. CASE ~(n <= Len(a))
    <3>1. n - Len(a) \in 1 .. Len(b) /\ n = Len(a) + (n - Len(a))
      BY <1>1, <2>2
    <3>2. QED BY <3>1
  <2>3. QED BY <2>1, <2>2
<1>3. \A i \in 1 .. Len(a), k \in 1 .. Len(b) :
        i \in DOMAIN c /\ Len(a) + k \in DOMAIN c /\ i < Len(a) + k
  BY <1>1
<1>4. Values(c) = Values(a) \cup Values(b)
  <2>1. ASSUME NEW n \in DOMAIN c
        PROVE  c[n] \in Values(a) \cup Values(b)
    BY <1>1, <1>2 DEF Values
  <2>2. \A n \in DOMAIN a : a[n] \in Values(c)
    <3> SUFFICES ASSUME NEW n \in DOMAIN a PROVE a[n] \in Values(c)
      OBVIOUS
    <3>1. n \in DOMAIN c /\ c[n] = a[n]
      BY <1>1
    <3>2. QED BY <3>1 DEF Values
  <2>3. \A n \in DOMAIN b : b[n] \in Values(c)
    <3> SUFFICES ASSUME NEW n \in DOMAIN b PROVE b[n] \in Values(c)
      OBVIOUS
    <3>1. Len(a) + n \in DOMAIN c /\ c[Len(a) + n] = b[n]
      BY <1>1
    <3>2. QED BY <3>1 DEF Values
  <2>4. QED BY <2>1, <2>2, <2>3 DEF Values
<1>5. ASSUME Increasing(c)
      PROVE  /\ Increasing(a) /\ Increasing(b)
             /\ \A x \in Values(a), y \in Values(b) : x < y
  <2>1. Increasing(a)
    BY <1>1, <1>5 DEF Increasing
  <2>2. Increasing(b)
    <3> SUFFICES ASSUME NEW m \in DOMAIN b, NEW n \in DOMAIN b, m < n
                 PROVE  b[m] < b[n]
      BY DEF Increasing
    <3>1. Len(a) + m \in DOMAIN c /\ Len(a) + n \in DOMAIN c /\ Len(a) + m < Len(a) + n
      BY <1>1
    <3>2. c[Len(a) + m] < c[Len(a) + n]
      BY <1>5, <3>1 DEF Increasing
    <3>3. QED BY <1>1, <3>2
  <2>3. ASSUME NEW m \in DOMAIN a, NEW n \in DOMAIN b
        PROVE  a[m] < b[n]
    <3>1. m \in DOMAIN c /\ Len(a) + n \in DOMAIN c /\ m < Len(a) + n
      BY <1>1, <1>3
    <3>2. c[m] < c[Len(a) + n]
      BY <1>5, <3>1 DEF Increasing
    <3>3. QED BY <1>1, <3>2
  <2>4. QED BY <2>1, <2>2, <2>3 DEF Values
<1>6. ASSUME Increasing(a), Increasing(b), \A x \in Values(a), y \in Values(b) : x < y
      PROVE  Increasing(c)
  <2> SUFFICES ASSUME NEW m \in DOMAIN c, NEW n \in DOMAIN c, m < n
               PROVE  c[m] < c[n]
    BY DEF Increasing
  <2>1. CASE n \in 1 .. Len(a)
    <3>1. m \in 1 .. Len(a)
      BY <1>1, <2>1
    <3>2. QED BY <1>1, <1>6, <2>1, <3>1 DEF Increasing
  <2>2. CASE m \in 1 .. Len(a) /\ n \notin 1 .. Len(a)
    <3>1. PICK k \in 1 .. Len(b) : n = Len(a) + k
      BY <1>2, <2>2
    <3>2. c[m] \in Values(a) /\ c[n] \in Values(b)
      BY <1>1, <2>2, <3>1 DEF Values
    <3>3. QED BY <1>6, <3>2
  <2>3. CASE m \notin 1 .. Len(a)
    <3>1. PICK k \in 1 .. Len(b) : m = Len(a) + k
      BY <1>2, <2>3
    <3>2. n \notin 1 .. Len(a)
      BY <1>1, <2>3
    <3>3. PICK j \in 1 .. Len(b) : n = Len(a) + j
      BY <1>2, <3>2
    <3>4. k < j
      BY <1>1, <3>1, <3>3
    <3>5. b[k] < b[j]
      BY <1>1, <1>6, <3>4 DEF Increasing
    <3>6. QED BY <1>1, <3>1, <3>3, <3>5
  <2>4. QED BY <2>1, <2>2, <2>3
<1>7. QED BY <1>4, <1>5, <1>6 DEF c

-----------------------------------------------------------------------------
(* What the string functions see                                           *)

\* They see the bytes before the first 0, and all if there is none.
LEMMA VisibleIs ==
  ASSUME NEW s \in Seq(DOMAIN input)
  PROVE  /\ Visible(s) \in Seq(DOMAIN input)
         /\ Len(Visible(s)) \in 0 .. Len(s)
         /\ DOMAIN Visible(s) = 1 .. Len(Visible(s))
         /\ \A i \in 1 .. Len(Visible(s)) : Visible(s)[i] = s[i] /\ input[s[i]] # Nul
         /\ Visible(s) = Prefix(s, Len(Visible(s)))
         /\ Len(Visible(s)) < Len(s) => input[s[Len(Visible(s)) + 1]] = Nul
<1> DEFINE zeros == {n \in DOMAIN s : input[s[n]] = Nul}
<1>1. Len(s) \in Nat /\ DOMAIN s = 1 .. Len(s)
  BY LenProperties
<1>2. zeros \in SUBSET Nat
  BY <1>1
<1>3. Visible(s) = IF zeros = {} THEN s ELSE Prefix(s, Least(zeros) - 1)
  BY DEF Visible
<1>4. CASE zeros = {}
  <2>1. Visible(s) = s /\ Prefix(s, Len(s)) = s
    BY <1>1, <1>3, <1>4, PrefixWhole
  <2>2. \A i \in 1 .. Len(s) : input[s[i]] # Nul
    BY <1>1, <1>4
  <2>3. QED BY <1>1, <2>1, <2>2
<1>5. CASE zeros # {}
  <2>1. PICK z : z = Least(zeros)
    OBVIOUS
  <2>2. z \in zeros /\ \A n \in zeros : z <= n
    BY <1>2, <1>5, <2>1, LeastIs
  <2>3. z \in 1 .. Len(s) /\ input[s[z]] = Nul
    BY <1>1, <2>2
  <2>4. \A i \in 1 .. z - 1 : i \in DOMAIN s /\ i \notin zeros
    BY <1>1, <2>2, <2>3
  <2>5. \A i \in 1 .. z - 1 : input[s[i]] # Nul
    BY <2>4
  <2> HIDE DEF zeros
  <2>6. Visible(s) = Prefix(s, z - 1)
    BY <1>3, <1>5, <2>1
  <2>7. z - 1 \in Nat /\ z - 1 < Len(s)
    BY <1>1, <2>3
  <2>8. /\ Prefix(s, z - 1) \in Seq(DOMAIN input) /\ Len(Prefix(s, z - 1)) = z - 1
        /\ \A i \in 1 .. z - 1 : Prefix(s, z - 1)[i] = s[i]
    BY <2>7, PrefixIs
  <2>9. DOMAIN Prefix(s, z - 1) = 1 .. z - 1
    BY <2>8, LenProperties
  <2>10. z - 1 \in 0 .. Len(s) /\ (z - 1) + 1 = z
    BY <1>1, <2>3
  <2>11. QED BY <2>3, <2>5, <2>6, <2>8, <2>9, <2>10
<1>6. QED BY <1>4, <1>5

\* What is seen of the first bytes is the same however many follow.
LEMMA VisiblePart ==
  ASSUME NEW s \in Seq(DOMAIN input), NEW b \in Seq(DOMAIN input),
         NEW n \in DOMAIN Visible(s \o b), n <= Len(s)
  PROVE  n \in DOMAIN Visible(s)
<1>1. /\ s \o b \in Seq(DOMAIN input) /\ Len(s) \in Nat
      /\ \A i \in 1 .. Len(s) : (s \o b)[i] = s[i]
  BY Concatenated
<1>2. PICK all \in Seq(DOMAIN input) : all = s \o b
  BY <1>1
<1>3. /\ n \in 1 .. Len(Visible(all))
      /\ \A i \in 1 .. Len(Visible(all)) : input[all[i]] # Nul
      /\ Len(Visible(all)) \in 0 .. Len(all) /\ Len(all) \in Nat
  BY <1>2, VisibleIs, LenProperties
<1>4. /\ Len(Visible(s)) \in 0 .. Len(s) /\ DOMAIN Visible(s) = 1 .. Len(Visible(s))
      /\ Len(Visible(s)) < Len(s) => input[s[Len(Visible(s)) + 1]] = Nul
  BY VisibleIs
<1>5. PICK v \in 0 .. Len(s) : v = Len(Visible(s))
  BY <1>4
<1>6. SUFFICES ASSUME ~(n <= v) PROVE FALSE
  BY <1>1, <1>3, <1>4, <1>5
<1>7. v < Len(s) /\ v + 1 \in 1 .. Len(s) /\ v + 1 \in 1 .. Len(Visible(all))
  BY <1>1, <1>3, <1>6
<1>8. input[s[v + 1]] = Nul /\ all[v + 1] = s[v + 1]
  BY <1>1, <1>2, <1>4, <1>5, <1>7
<1>9. QED BY <1>3, <1>7, <1>8

-----------------------------------------------------------------------------
(* The first state                                                         *)

LEMMA InitIInv == Init => IInv
<1> SUFFICES ASSUME Init PROVE IInv
  OBVIOUS
<1> USE RecvReqAssumption
<1>1. input \in Seq(Byte) /\ Len(input) \in Nat /\ DOMAIN input = 1 .. Len(input)
  <2>1. PICK n \in 0 .. MaxStream : input \in [1 .. n -> Byte]
    BY DEF Init, Streams
  <2>2. QED BY <2>1
<1>2. /\ stream \in Seq(DOMAIN input) /\ Len(stream) = Len(input)
      /\ DOMAIN stream = 1 .. Len(input)
      /\ \A n \in DOMAIN stream : stream[n] = n
  <2>1. stream = [n \in 1 .. Len(input) |-> n]
    BY <1>1 DEF Init
  <2>2. QED BY <1>1, <2>1
<1>3. /\ recv_buf = << >> /\ req = << >> /\ cap = BlockSize + 1 /\ gone = << >>
      /\ returned = {} /\ dropped = {} /\ strayed = FALSE
  BY DEF Init, FirstCap
<1>4. TypeOK
  <2>1. << >> \in Seq(DOMAIN input)
    BY EmptySeq
  <2>2. {stream, recv_buf, req, gone} \subseteq Seq(DOMAIN input)
    BY <1>2, <1>3, <2>1
  <2>3. cap \in Nat /\ returned \subseteq Place /\ dropped \subseteq Place
    BY <1>3
  <2>4. strayed \in BOOLEAN
    BY <1>3
  <2>5. QED BY <1>1, <1>3, <2>2, <2>3, <2>4 DEF TypeOK
<1>5. RoomForZero /\ HistorySound
  BY <1>3 DEF RoomForZero, HistorySound
<1>6. Consecutive(stream) /\ BufferSound /\ OverrunKnown
  <2>1. Len(recv_buf) = 0
    BY <1>3
  <2>2. OverrunKnown
    BY <2>1 DEF OverrunKnown
  <2>3. QED BY <1>1, <1>2, <1>3, <2>2 DEF Consecutive, BufferSound
<1>7. NoEndYet
  <2>1. << >> \in Seq(DOMAIN input) /\ Len(<< >>) = 0
    BY EmptySeq
  <2>2. DOMAIN Visible(<< >>) = 1 .. Len(Visible(<< >>)) /\ Len(Visible(<< >>)) \in 0 .. 0
    BY <2>1, VisibleIs
  <2>3. QED BY <1>3, <2>2 DEF NoEndYet
<1>8. StreamConserved
  <2>1. Kept = stream
    <3>1. << >> \o << >> = << >> /\ << >> \o stream = stream
      BY <1>2, EmptySeq, ConcatEmptySeq
    <3>2. QED BY <1>3, <3>1 DEF Kept
  <2>2. \A p \in DOMAIN input : p \in DOMAIN Kept /\ Kept[p] = p
    BY <1>1, <1>2, <2>1
  <2>3. \A m, n \in DOMAIN Kept : m < n => Kept[m] < Kept[n]
    BY <1>2, <2>1
  <2>4. QED BY <2>2, <2>3 DEF StreamConserved
<1>9. FramingExact
  <2>1. TrueEnds = {}
    BY <1>3 DEF TrueEnds
  <2>2. QED BY <1>3, <2>1 DEF FramingExact
<1>10. QED BY <1>4, <1>5, <1>6, <1>7, <1>8, <1>9 DEF IInv

-----------------------------------------------------------------------------
(* Reading a block                                                         *)

LEMMA TypesOf ==
  ASSUME TypeOK
  PROVE  /\ stream \in Seq(DOMAIN input) /\ recv_buf \in Seq(DOMAIN input)
         /\ req \in Seq(DOMAIN input) /\ gone \in Seq(DOMAIN input)
         /\ DOMAIN input = 1 .. Len(input) /\ Len(input) \in Nat
         /\ DOMAIN input \in SUBSET Int
         /\ Len(stream) \in Nat /\ Len(recv_buf) \in Nat
         /\ Len(req) \in Nat /\ Len(gone) \in Nat
<1>1. /\ stream \in Seq(DOMAIN input) /\ recv_buf \in Seq(DOMAIN input)
      /\ req \in Seq(DOMAIN input) /\ gone \in Seq(DOMAIN input)
      /\ input \in Seq(Byte)
  BY DEF TypeOK
<1>2. DOMAIN input = 1 .. Len(input) /\ Len(input) \in Nat
  BY <1>1, LenProperties
<1>3. QED BY <1>1, <1>2, LenProperties

\* What Consecutive says of parts.
LEMMA ConsecutivePart ==
  ASSUME NEW S \in SUBSET Int, NEW s \in Seq(S), NEW t \in Seq(S), NEW n \in Nat,
         Consecutive(s), n + Len(t) <= Len(s), \A i \in 1 .. Len(t) : t[i] = s[n + i]
  PROVE  Consecutive(t)
<1>1. Len(s) \in Nat /\ Len(t) \in Nat /\ DOMAIN s = 1 .. Len(s) /\ DOMAIN t = 1 .. Len(t)
  BY LenProperties
<1>2. ASSUME NEW m \in DOMAIN t, NEW k \in DOMAIN t
      PROVE  t[k] - t[m] = k - m
  <2>1. n + m \in DOMAIN s /\ n + k \in DOMAIN s
    BY <1>1
  <2>2. s[n + k] - s[n + m] = (n + k) - (n + m)
    BY <2>1 DEF Consecutive
  <2>3. t[k] = s[n + k] /\ t[m] = s[n + m]
    BY <1>1
  <2>4. QED BY <1>1, <2>2, <2>3
<1>3. QED BY <1>2 DEF Consecutive

\* The block comes first in what is left of the stream, and recv_buf is empty
\* behind it.
LEMMA BlockRead ==
  ASSUME IInv, NEW block \in Blocks \ {<< >>}, FromBuffer(block) \/ FromSocket(block)
  PROVE  /\ block \in Seq(DOMAIN input) /\ Len(block) \in 1 .. BlockSize
         /\ stream' \in Seq(DOMAIN input) /\ Consecutive(stream')
         /\ LeftInBuffer \in Seq(DOMAIN input) /\ Len(LeftInBuffer) <= 1
         /\ ~strayed => /\ Consecutive(block)
                        /\ LeftInBuffer = << >>
                        /\ recv_buf \o stream = block \o stream'
<1> USE RecvReqAssumption
<1>1. /\ stream \in Seq(DOMAIN input) /\ recv_buf \in Seq(DOMAIN input)
      /\ DOMAIN input \in SUBSET Int
      /\ Len(stream) \in Nat /\ Len(recv_buf) \in Nat
      /\ Consecutive(stream)
  BY TypesOf DEF IInv
<1>2. /\ LeftInBuffer \in Seq(DOMAIN input) /\ Len(LeftInBuffer) <= 1
      /\ Len(recv_buf) <= BlockSize => LeftInBuffer = << >>
  <2>1. CASE Len(recv_buf) <= BlockSize
    <3>1. LeftInBuffer = << >>
      BY <1>1, <2>1, SuffixBeyond DEF LeftInBuffer
    <3>2. << >> \in Seq(DOMAIN input) /\ Len(<< >>) <= 1
      BY EmptySeq
    <3>3. QED BY <3>1, <3>2
  <2>2. CASE ~(Len(recv_buf) <= BlockSize)
    <3>1. BlockSize \in 0 .. Len(recv_buf)
      BY <1>1, <2>2
    <3>2. /\ LeftInBuffer \in Seq(DOMAIN input)
          /\ Len(LeftInBuffer) = Len(recv_buf) - BlockSize
      BY <1>1, <3>1, SuffixIs DEF LeftInBuffer
    <3>3. Len(recv_buf) <= BlockSize + 1
      BY DEF IInv, OverrunKnown
    <3>4. Len(LeftInBuffer) <= 1
      BY <1>1, <3>2, <3>3
    <3>5. QED BY <2>2, <3>2, <3>4
  <2>3. QED BY <2>1, <2>2
<1>3. CASE FromBuffer(block)
  <2>1. block = Prefix(recv_buf, BlockSize) /\ stream' = stream /\ recv_buf # << >>
    BY <1>3 DEF FromBuffer
  <2>2. /\ block \in Seq(DOMAIN input)
        /\ Len(block) = IF BlockSize < Len(recv_buf) THEN BlockSize ELSE Len(recv_buf)
    BY <1>1, <2>1, PrefixIs
  <2>3. Len(recv_buf) # 0
    BY <1>1, <2>1, EmptySeq
  <2>4. Len(block) \in 1 .. BlockSize
    BY <1>1, <2>2, <2>3
  <2>5. ASSUME ~strayed
        PROVE  Consecutive(block) /\ LeftInBuffer = << >>
               /\ recv_buf \o stream = block \o stream'
    <3>1. Len(recv_buf) <= BlockSize /\ Consecutive(recv_buf)
      BY <2>5 DEF IInv, BufferSound
    <3>2. block = recv_buf
      BY <1>1, <2>1, <3>1, PrefixWhole
    <3>3. QED BY <1>2, <2>1, <3>1, <3>2
  <2>6. QED BY <1>1, <1>2, <2>1, <2>2, <2>4, <2>5
<1>4. CASE FromSocket(block)
  <2>1. /\ recv_buf = << >> /\ block = Prefix(stream, Len(block))
        /\ stream' = Suffix(stream, Len(block))
    BY <1>4 DEF FromSocket
  <2>2. PICK k \in 1 .. BlockSize : block = Prefix(stream, k)
    <3>1. Prefix(recv_buf, BlockSize) = << >>
      <4>1. Len(recv_buf) = 0 /\ BlockSize \in Nat /\ BlockSize >= 0
        <5>1. Len(recv_buf) = 0
          BY <2>1, EmptySeq
        <5>2. QED BY <5>1
      <4>2. Prefix(recv_buf, BlockSize) = recv_buf
        BY <1>1, <4>1, PrefixWhole, Zenon
      <4>3. QED BY <2>1, <4>2
    <3>2. block # << >> /\ block \in Blocks
      OBVIOUS
    <3>3. block # Prefix(recv_buf, BlockSize)
      BY <2>1, <3>1, <3>2
    <3>4. block \in {Prefix(stream, n) : n \in 1 .. BlockSize}
      BY <3>2, <3>3 DEF Blocks
    <3>5. QED BY <3>4
  <2>3. /\ block \in Seq(DOMAIN input)
        /\ Len(block) = IF k < Len(stream) THEN k ELSE Len(stream)
        /\ \A i \in 1 .. Len(block) : block[i] = stream[i]
    BY <1>1, <2>2, PrefixIs
  <2>4. Len(block) # 0
    BY <2>3, EmptySeq
  <2>5. Len(block) \in 1 .. BlockSize /\ Len(block) \in 0 .. Len(stream)
    BY <1>1, <2>3, <2>4
  <2>6. /\ stream' \in Seq(DOMAIN input) /\ Len(stream') = Len(stream) - Len(block)
        /\ \A i \in 1 .. Len(stream) - Len(block) : stream'[i] = stream[Len(block) + i]
    BY <1>1, <2>1, <2>5, SuffixIs, ZenonT(30)
  <2>7. Consecutive(stream')
    <3>1. PICK t \in Seq(DOMAIN input) : t = stream'
      BY <2>6
    <3>2. PICK n \in Nat : n = Len(block)
      BY <2>5
    <3>3. n + Len(t) <= Len(stream) /\ \A i \in 1 .. Len(t) : t[i] = stream[n + i]
      <4>1. Len(t) = Len(stream) - n
        BY <2>6, <3>1, <3>2
      <4>2. \A i \in 1 .. Len(t) : t[i] = stream[n + i]
        BY <2>6, <3>1, <3>2, <4>1
      <4>3. QED BY <1>1, <4>1, <4>2, SMTT(30)
    <3>4. PICK S \in SUBSET Int : S = DOMAIN input
      BY <1>1
    <3>5. PICK s \in Seq(S) : s = stream
      BY <1>1, <3>4
    <3>6. t \in Seq(S) /\ n + Len(t) <= Len(s) /\ \A i \in 1 .. Len(t) : t[i] = s[n + i]
      BY <3>3, <3>4, <3>5
    <3>7. Consecutive(t) <=> Consecutive(stream')
      BY <3>1 DEF Consecutive
    <3>8. Consecutive(s)
      BY <1>1, <3>5
    <3>9. QED BY <3>6, <3>7, <3>8, ConsecutivePart
  <2>8. Consecutive(block)
    <3>1. 0 + Len(block) <= Len(stream) /\ \A i \in 1 .. Len(block) : block[i] = stream[0 + i]
      BY <1>1, <2>3, <2>5
    <3>2. QED BY <1>1, <2>3, <3>1, ConsecutivePart
  <2>9. block \o stream' = stream
    BY <1>1, <2>1, <2>5, SplitAt
  <2>10. recv_buf \o stream = stream
    BY <1>1, <2>1, ConcatEmptySeq
  <2>11. LeftInBuffer = << >>
    <3>1. Len(recv_buf) <= BlockSize
      BY <2>1, EmptySeq
    <3>2. QED BY <1>2, <3>1
  <2>12. QED BY <1>2, <2>3, <2>5, <2>6, <2>7, <2>8, <2>9, <2>10, <2>11
<1>5. QED BY <1>3, <1>4

\* What the call holds and has to come, in the order it is read.
LEMMA KeptAsRead ==
  ASSUME IInv, ~strayed, NEW block, block \in Blocks \ {<< >>},
         FromBuffer(block) \/ FromSocket(block)
  PROVE  Kept = (gone \o (req \o block)) \o stream'
<1>1. stream \in Seq(DOMAIN input) /\ recv_buf \in Seq(DOMAIN input)
  BY TypesOf DEF IInv
<1>2. req \in Seq(DOMAIN input) /\ gone \in Seq(DOMAIN input)
  BY TypesOf DEF IInv
<1>3. block \in Seq(DOMAIN input) /\ stream' \in Seq(DOMAIN input)
      /\ recv_buf \o stream = block \o stream'
  BY BlockRead
<1>4. PICK gr : gr = gone \o req
  OBVIOUS
<1>5. gr \in Seq(DOMAIN input)
  BY <1>2, <1>4, ConcatProperties
<1>6. (gr \o recv_buf) \o stream = gr \o (recv_buf \o stream)
  BY <1>1, <1>5, ConcatAssociative
<1>7. gr \o (block \o stream') = (gr \o block) \o stream'
  BY <1>3, <1>5, ConcatAssociative
<1>8. gr \o block = gone \o (req \o block)
  <2>1. block \in Seq(DOMAIN input)
    BY <1>3
  <2>2. QED BY <1>2, <1>4, <2>1, ConcatAssociative
<1>9. (gr \o recv_buf) \o stream = (gone \o (req \o block)) \o stream'
  <2>1. gr \o (recv_buf \o stream) = gr \o (block \o stream')
    BY <1>3
  <2>2. QED BY <1>6, <1>7, <1>8, <2>1
<1>10. QED BY <1>4, <1>9 DEF Kept

-----------------------------------------------------------------------------
(* Bytes that go                                                           *)

\* When bytes go, those gone before stay what they were, ends among them.
LEMMA GoneGrows ==
  ASSUME TypeOK, NEW bytes, bytes \in Seq(DOMAIN input),
         gone' = gone \o bytes, input' = input
  PROVE  /\ gone' \in Seq(DOMAIN input)
         /\ Len(gone') = Len(gone) + Len(bytes)
         /\ \A n \in 1 .. Len(gone) :
              gone'[n] = gone[n] /\ (n \in TrueEnds' <=> n \in TrueEnds)
         /\ \A i \in 1 .. Len(bytes) : gone'[Len(gone) + i] = bytes[i]
         /\ \A n \in TrueEnds' : n \in 1 .. Len(gone')
         /\ \A i \in 1 .. Len(bytes) : i > 1 =>
              (Len(gone) + i \in TrueEnds' <=>
                 input[bytes[i]] = Stop /\ input[bytes[i - 1]] # Escape)
         /\ Len(bytes) >= 1 /\ Len(gone) + 1 \in TrueEnds' => input[bytes[1]] = Stop
<1>1. /\ gone' \in Seq(DOMAIN input) /\ Len(gone) \in Nat /\ Len(bytes) \in Nat
      /\ Len(gone') = Len(gone) + Len(bytes)
      /\ \A i \in 1 .. Len(gone) : gone'[i] = gone[i]
      /\ \A i \in 1 .. Len(bytes) : gone'[Len(gone) + i] = bytes[i]
  <2>1. gone \in Seq(DOMAIN input)
    BY TypesOf
  <2>2. QED BY <2>1, Concatenated
<1>2. DOMAIN gone = 1 .. Len(gone) /\ DOMAIN gone' = 1 .. Len(gone')
  <2>1. gone \in Seq(DOMAIN input)
    BY TypesOf
  <2>2. QED BY <1>1, <2>1, LenProperties
<1>3. TrueEnds' = {n \in DOMAIN gone' : /\ input[gone'[n]] = Stop
                                        /\ n > 1 => input[gone'[n - 1]] # Escape}
  BY DEF TrueEnds
<1>4. \A n \in 1 .. Len(gone) : n \in TrueEnds' <=> n \in TrueEnds
  <2> SUFFICES ASSUME NEW n \in 1 .. Len(gone) PROVE n \in TrueEnds' <=> n \in TrueEnds
    OBVIOUS
  <2>1. n \in DOMAIN gone /\ n \in DOMAIN gone' /\ gone'[n] = gone[n]
    BY <1>1, <1>2
  <2>2. n > 1 => gone'[n - 1] = gone[n - 1]
    BY <1>1
  <2>3. QED BY <1>3, <2>1, <2>2 DEF TrueEnds
<1>5. ASSUME NEW i \in 1 .. Len(bytes), i > 1
      PROVE  Len(gone) + i \in TrueEnds' <=>
               input[bytes[i]] = Stop /\ input[bytes[i - 1]] # Escape
  <2>1. /\ Len(gone) + i \in DOMAIN gone' /\ Len(gone) + i > 1
        /\ gone'[Len(gone) + i] = bytes[i]
    BY <1>1, <1>2, <1>5
  <2>2. i - 1 \in 1 .. Len(bytes) /\ Len(gone) + (i - 1) = (Len(gone) + i) - 1
    BY <1>1, <1>5
  <2>3. gone'[(Len(gone) + i) - 1] = bytes[i - 1]
    BY <1>1, <2>2
  <2>4. QED BY <1>3, <2>1, <2>3
<1>6. ASSUME Len(bytes) >= 1, Len(gone) + 1 \in TrueEnds'
      PROVE  input[bytes[1]] = Stop
  <2>1. gone'[Len(gone) + 1] = bytes[1]
    BY <1>1, <1>6
  <2>2. QED BY <1>3, <1>6, <2>1
<1>7. \A n \in TrueEnds' : n \in 1 .. Len(gone')
  BY <1>2, <1>3
<1>8. QED BY <1>1, <1>4, <1>5, <1>6, <1>7

\* What the properties say of what went before stays true.
LEMMA HistoryStays ==
  ASSUME IInv, NEW bytes, bytes \in Seq(DOMAIN input),
         gone' = gone \o bytes, input' = input
  PROVE  /\ \A r \in returned : r.to \in 1 .. Len(gone) /\ gone'[r.to] = gone[r.to]
         /\ ~strayed =>
              /\ \A p \in returned : \A n \in p.from .. p.to :
                   (n \in TrueEnds' <=> n = p.to) /\ input[gone'[n]] # Nul
              /\ \A n \in TrueEnds' : n \in 1 .. Len(gone) =>
                   Within(n, returned) \/ Within(n, dropped)
<1>1. \A n \in 1 .. Len(gone) : gone'[n] = gone[n] /\ (n \in TrueEnds' <=> n \in TrueEnds)
  BY GoneGrows DEF IInv
<1>2. Len(gone) \in Nat
  BY TypesOf DEF IInv
<1>3. ASSUME NEW r \in returned
      PROVE  /\ r.from \in Nat /\ r.to \in Nat
             /\ 1 <= r.from /\ r.from <= r.to /\ r.to <= Len(gone)
  <2>1. returned \subseteq Place
    BY DEF IInv, TypeOK
  <2>2. r.from \in Nat /\ r.to \in Nat
    BY <2>1 DEF Place
  <2>3. QED BY <2>2 DEF IInv, HistorySound
<1>4. \A r \in returned : r.to \in 1 .. Len(gone) /\ gone'[r.to] = gone[r.to]
  BY <1>1, <1>2, <1>3
<1>5. ASSUME ~strayed, NEW p \in returned, NEW n \in p.from .. p.to
      PROVE  (n \in TrueEnds' <=> n = p.to) /\ input[gone'[n]] # Nul
  <2>1. n \in 1 .. Len(gone)
    BY <1>2, <1>3
  <2>2. (n \in TrueEnds <=> n = p.to) /\ input[gone[n]] # Nul
    BY <1>5 DEF IInv, FramingExact
  <2>3. QED BY <1>1, <2>1, <2>2
<1>6. ASSUME ~strayed, NEW n \in TrueEnds', n \in 1 .. Len(gone)
      PROVE  Within(n, returned) \/ Within(n, dropped)
  <2>1. n \in TrueEnds
    BY <1>1, <1>6
  <2>2. QED BY <1>6, <2>1 DEF IInv, FramingExact
<1>7. QED BY <1>4, <1>5, <1>6

\* Nothing is kept of a request that is thrown away but what the socket holds.
LEMMA ThrowStep ==
  ASSUME IInv, NEW bytes, bytes \in Seq(DOMAIN input), Throw(bytes),
         stream' \in Seq(DOMAIN input), Consecutive(stream'),
         recv_buf' \in Seq(DOMAIN input), Len(recv_buf') <= 1, strayed' = strayed,
         ~strayed => recv_buf' = << >> /\ Kept = (gone \o bytes) \o stream'
  PROVE  IInv'
<1> USE RecvReqAssumption
<1>1. /\ gone' = gone \o bytes /\ dropped' = dropped \cup {PlaceOf(Len(bytes))}
      /\ req' = << >> /\ cap' = BlockSize + 1
      /\ input' = input /\ returned' = returned
  BY DEF Throw, Restart, FirstCap
<1>2. Len(gone) \in Nat /\ Len(bytes) \in Nat
  <2>1. Len(bytes) \in Nat
    BY LenProperties
  <2>2. QED BY <2>1, TypesOf DEF IInv
<1>3. gone' \in Seq(DOMAIN input) /\ Len(gone') = Len(gone) + Len(bytes)
      /\ \A n \in TrueEnds' : n \in 1 .. Len(gone')
  BY <1>1, GoneGrows DEF IInv
<1>4. PICK p : p = PlaceOf(Len(bytes))
  OBVIOUS
<1>5. p \in Place /\ p.from = Len(gone) + 1 /\ p.to = Len(gone) + Len(bytes)
  BY <1>2, <1>4 DEF PlaceOf, Place
<1>6. << >> \in Seq(DOMAIN input) /\ Len(<< >>) = 0
  BY EmptySeq
<1>7. TypeOK'
  <2>1. input' \in Seq(Byte) /\ cap' \in Nat /\ returned' \subseteq Place
    BY <1>1 DEF IInv, TypeOK
  <2>2. dropped' \subseteq Place
    BY <1>1, <1>4, <1>5 DEF IInv, TypeOK
  <2>3. strayed' \in BOOLEAN
    BY DEF IInv, TypeOK
  <2>4. {stream, recv_buf, req, gone}' \subseteq Seq(DOMAIN input')
    <3>1. req' \in Seq(DOMAIN input)
      BY <1>1, <1>6
    <3>2. QED BY <1>1, <1>3, <3>1
  <2>5. QED BY <1>1, <2>1, <2>2, <2>3, <2>4 DEF TypeOK
<1>8. RoomForZero'
  BY <1>1, <1>6 DEF RoomForZero
<1>9. HistorySound'
  <2>1. \A q \in returned : 1 <= q.from /\ q.to <= Len(gone') /\ q.from <= q.to
    <3> SUFFICES ASSUME NEW q \in returned
                 PROVE  1 <= q.from /\ q.to <= Len(gone') /\ q.from <= q.to
      OBVIOUS
    <3>1. q \in Place /\ 1 <= q.from /\ q.to <= Len(gone) /\ q.from <= q.to
      BY DEF IInv, HistorySound, TypeOK
    <3>2. q.to \in Nat
      BY <3>1 DEF Place
    <3>3. QED BY <1>2, <1>3, <3>1, <3>2
  <2>2. \A q \in dropped : 1 <= q.from /\ q.to <= Len(gone')
    <3> SUFFICES ASSUME NEW q \in dropped
                 PROVE  1 <= q.from /\ q.to <= Len(gone')
      OBVIOUS
    <3>1. q \in Place /\ 1 <= q.from /\ q.to <= Len(gone)
      BY DEF IInv, HistorySound, TypeOK
    <3>2. q.to \in Nat
      BY <3>1 DEF Place
    <3>3. QED BY <1>2, <1>3, <3>1, <3>2
  <2>3. 1 <= p.from /\ p.to <= Len(gone')
    BY <1>2, <1>3, <1>5
  <2>4. QED BY <1>1, <1>4, <2>1, <2>2, <2>3 DEF HistorySound
<1>10. Consecutive(stream)'
  BY DEF Consecutive
<1>11. BufferSound'
  <2>1. ~strayed' => recv_buf' = << >>
    OBVIOUS
  <2>2. QED BY <1>6, <2>1 DEF BufferSound, Consecutive
<1>12. OverrunKnown'
  <2>1. Len(recv_buf') \in Nat
    BY LenProperties
  <2>2. Len(recv_buf') <= BlockSize
    BY <2>1
  <2>3. QED BY <2>1, <2>2 DEF OverrunKnown
<1>13. NoEndYet'
  <2>1. Visible(req)' = << >>
    BY <1>1 DEF Visible
  <2>2. QED BY <2>1 DEF NoEndYet
<1>14. StreamConserved'
  <2> SUFFICES ASSUME ~strayed' PROVE StreamConserved!2'
    BY DEF StreamConserved
  <2>1. ~strayed /\ recv_buf' = << >> /\ Kept = gone' \o stream'
    BY <1>1
  <2>2. Kept' = Kept
    <3>1. Kept' = ((gone' \o << >>) \o << >>) \o stream'
      BY <1>1, <2>1 DEF Kept
    <3>2. gone' \o << >> = gone'
      BY <1>3, ConcatEmptySeq
    <3>3. QED BY <2>1, <3>1, <3>2
  <2>3. \A r \in returned : gone'[r.to] = gone[r.to]
    BY <1>1, HistoryStays
  <2>4. StreamConserved!2
    BY <2>1 DEF IInv, StreamConserved
  <2>5. QED BY <1>1, <2>2, <2>3, <2>4
<1>15. FramingExact'
  <2> SUFFICES ASSUME ~strayed' PROVE FramingExact!2'
    BY DEF FramingExact
  <2>1. \A q \in returned' : \A n \in q.from .. q.to :
          (n \in TrueEnds' <=> n = q.to) /\ input'[gone'[n]] # Nul
    BY <1>1, HistoryStays
  <2>2. ASSUME NEW n \in TrueEnds'
        PROVE  Within(n, returned)' \/ Within(n, dropped)'
    <3>1. n \in 1 .. Len(gone')
      BY <1>3
    <3>2. CASE n \in 1 .. Len(gone)
      <4>1. Within(n, returned) \/ Within(n, dropped)
        BY <1>1, <3>2, HistoryStays
      <4>2. QED BY <1>1, <4>1 DEF Within
    <3>3. CASE n \notin 1 .. Len(gone)
      <4>1. p.from <= n /\ n <= p.to
        BY <1>2, <1>3, <1>5, <3>1, <3>3
      <4>2. p \in dropped'
        BY <1>1, <1>4
      <4>3. QED BY <4>1, <4>2 DEF Within
    <3>4. QED BY <3>2, <3>3
  <2>3. QED BY <2>1, <2>2
<1>16. QED BY <1>7, <1>8, <1>9, <1>10, <1>11, <1>13, <1>14, <1>15, <1>12 DEF IInv

-----------------------------------------------------------------------------
(* A step preserves the invariant                                          *)

LEMMA ReadFailsIInv == IInv /\ ReadFails => IInv'
<1> SUFFICES ASSUME IInv, ReadFails PROVE IInv'
  OBVIOUS
<1>1. /\ recv_buf = << >> /\ Throw(req) /\ stream' = stream
      /\ recv_buf' = recv_buf /\ strayed' = strayed
  BY DEF ReadFails
<1>2. /\ stream \in Seq(DOMAIN input) /\ req \in Seq(DOMAIN input)
      /\ recv_buf \in Seq(DOMAIN input)
  BY TypesOf DEF IInv
<1>3. Consecutive(stream') <=> Consecutive(stream)
  BY <1>1 DEF Consecutive
<1>4. Kept = (gone \o req) \o stream
  <2>1. gone \o req \in Seq(DOMAIN input)
    <3>1. gone \in Seq(DOMAIN input)
      BY TypesOf DEF IInv
    <3>2. QED BY <1>2, <3>1, ConcatProperties
  <2>2. (gone \o req) \o << >> = gone \o req
    BY <2>1, ConcatEmptySeq
  <2>3. QED BY <1>1, <2>2 DEF Kept
<1>5. Consecutive(stream')
  BY <1>3 DEF IInv
<1>6. Kept = (gone \o req) \o stream'
  BY <1>1, <1>4
<1>7. Len(recv_buf') <= 1
  BY <1>1, EmptySeq
<1>8. QED BY <1>1, <1>2, <1>5, <1>6, <1>7, ThrowStep

LEMMA ThrownIInv ==
  ASSUME IInv, NEW block, block \in Blocks \ {<< >>}, FromBuffer(block) \/ FromSocket(block),
         TooLong(block) \/ OutOfMemory(block)
  PROVE  IInv'
<1>1. Throw(req \o block) /\ recv_buf' = LeftInBuffer /\ strayed' = strayed
  BY DEF TooLong, OutOfMemory
<1>2. /\ block \in Seq(DOMAIN input)
      /\ LeftInBuffer \in Seq(DOMAIN input) /\ Len(LeftInBuffer) <= 1
      /\ stream' \in Seq(DOMAIN input) /\ Consecutive(stream')
      /\ ~strayed => LeftInBuffer = << >>
  BY BlockRead
<1>3. req \o block \in Seq(DOMAIN input)
  <2>1. req \in Seq(DOMAIN input)
    BY TypesOf DEF IInv
  <2>2. QED BY <1>2, <2>1, ConcatProperties
<1>4. ~strayed => Kept = (gone \o (req \o block)) \o stream'
  BY KeptAsRead
<1>5. PICK bytes : bytes = req \o block
  OBVIOUS
<1>6. /\ bytes \in Seq(DOMAIN input) /\ Throw(bytes)
      /\ ~strayed => Kept = (gone \o bytes) \o stream'
  BY <1>1, <1>3, <1>4, <1>5
<1>7. QED BY <1>1, <1>2, <1>6, ThrowStep

LEMMA UnfinishedIInv ==
  ASSUME IInv, NEW block, block \in Blocks \ {<< >>}, FromBuffer(block) \/ FromSocket(block),
         Unfinished(block)
  PROVE  IInv'
<1> USE RecvReqAssumption
<1>1. PICK before \in BOOLEAN :
        /\ Fits(block)
        /\ Ends(Visible(req \o block), before) = {}
        /\ req' = req \o block
        /\ cap' \in Grown(Len(req) + Len(block))
        /\ recv_buf' = LeftInBuffer
        /\ Stray(req \o block)
        /\ UNCHANGED <<input, gone, returned, dropped>>
  BY DEF Unfinished
<1>2. /\ block \in Seq(DOMAIN input)
      /\ LeftInBuffer \in Seq(DOMAIN input) /\ Len(LeftInBuffer) <= 1
      /\ stream' \in Seq(DOMAIN input) /\ Consecutive(stream')
      /\ ~strayed => LeftInBuffer = << >>
  BY BlockRead
<1>3. req' \in Seq(DOMAIN input) /\ Len(req') = Len(req) + Len(block)
      /\ Len(req) \in Nat /\ Len(block) \in Nat
  <2>1. req \in Seq(DOMAIN input)
    BY TypesOf DEF IInv
  <2>2. QED BY <1>1, <1>2, <2>1, Concatenated
<1>4. cap' \in Nat /\ Len(req') < cap'
  <2>1. cap \in Nat
    BY DEF IInv, TypeOK
  <2>2. cap' \in Len(req) + Len(block) + 1 ..
                   IF Len(req) + Len(block) < cap THEN cap ELSE 2 * (Len(req) + Len(block))
    BY <1>1 DEF Grown
  <2>3. QED BY <1>3, <2>1, <2>2
<1>5. strayed' = (strayed \/ input[req'[1]] = Stop)
  BY <1>1 DEF Stray
<1>6. TypeOK'
  <2>1. input' \in Seq(Byte) /\ returned' \subseteq Place /\ dropped' \subseteq Place
    BY <1>1 DEF IInv, TypeOK
  <2>2. strayed' \in BOOLEAN
    <3>1. strayed \in BOOLEAN
      BY DEF IInv, TypeOK
    <3>2. QED BY <1>5, <3>1
  <2>3. {stream, recv_buf, req, gone}' \subseteq Seq(DOMAIN input')
    <3>1. gone \in Seq(DOMAIN input)
      BY TypesOf DEF IInv
    <3>2. QED BY <1>1, <1>2, <1>3, <3>1
  <2>4. Len(req') < MaxMessage
    BY <1>1, <1>3 DEF Fits
  <2>5. QED BY <1>4, <2>1, <2>2, <2>3, <2>4 DEF TypeOK
<1>7. RoomForZero'
  BY <1>4 DEF RoomForZero
<1>8. HistorySound'
  BY <1>1 DEF IInv, HistorySound
<1>9. Consecutive(stream)'
  BY <1>2 DEF Consecutive
<1>10. BufferSound'
  <2>1. ~strayed' => recv_buf' = << >>
    BY <1>1, <1>2, <1>5
  <2>2. Len(<< >>) = 0
    OBVIOUS
  <2>3. QED BY <2>1, <2>2 DEF BufferSound, Consecutive
<1>11. OverrunKnown'
  <2>1. Len(LeftInBuffer) \in Nat
    BY <1>2, LenProperties
  <2>2. Len(recv_buf') <= BlockSize
    BY <1>1, <1>2, <2>1
  <2>3. QED BY <1>1, <2>1, <2>2 DEF OverrunKnown
<1>12. NoEndYet'
  <2>1. PICK all : all = req'
    OBVIOUS
  <2>2. all \in Seq(DOMAIN input)
    BY <1>3, <2>1
  <2>3. /\ DOMAIN Visible(all) = 1 .. Len(Visible(all)) /\ Len(Visible(all)) \in Nat
        /\ \A i \in 1 .. Len(Visible(all)) : Visible(all)[i] = all[i]
    BY <2>2, VisibleIs
  <2>4. Visible(req)' = Visible(all)
    BY <1>1, <2>1 DEF Visible
  <2>5. ASSUME NEW n \in DOMAIN Visible(all), input[all[n]] = Stop, n > 1
        PROVE  input[all[n - 1]] = Escape
    <3>1. n # 1
      BY <2>5
    <3>2. n > 1 /\ n - 1 \in 1 .. Len(Visible(all)) /\ n \in 1 .. Len(Visible(all))
      BY <2>3, <3>1
    <3>3. n \notin Ends(Visible(all), before)
      BY <1>1, <2>1
    <3>4. Escaped(Visible(all), n, before)
      BY <2>3, <2>5, <3>2, <3>3 DEF Ends
    <3>5. input[Visible(all)[n - 1]] = Escape
      BY <3>1, <3>4 DEF Escaped
    <3>6. QED BY <2>3, <3>2, <3>5
  <2>6. ASSUME NEW n \in DOMAIN Visible(all), input[all[n]] = Stop, ~(n > 1)
        PROVE  strayed'
    <3>1. n = 1
      BY <2>3, <2>6
    <3>2. QED BY <1>5, <2>1, <2>6, <3>1
  <2>7. QED BY <1>1, <2>1, <2>4, <2>5, <2>6 DEF NoEndYet
<1>13. StreamConserved'
  <2> SUFFICES ASSUME ~strayed' PROVE StreamConserved!2'
    BY DEF StreamConserved
  <2>1. ~strayed
    BY <1>5
  <2>2. Kept' = Kept
    <3>1. Kept' = ((gone \o req') \o << >>) \o stream'
      BY <1>1, <1>2, <2>1 DEF Kept
    <3>2. gone \o req' \in Seq(DOMAIN input)
      <4>1. gone \in Seq(DOMAIN input)
        BY TypesOf DEF IInv
      <4>2. QED BY <1>3, <4>1, ConcatProperties
    <3>3. (gone \o req') \o << >> = gone \o req'
      BY <3>2, ConcatEmptySeq
    <3>4. Kept = (gone \o (req \o block)) \o stream'
      BY <2>1, KeptAsRead
    <3>5. QED BY <1>1, <3>1, <3>3, <3>4
  <2>3. StreamConserved!2
    BY <2>1 DEF IInv, StreamConserved
  <2>4. QED BY <1>1, <2>2, <2>3
<1>14. FramingExact'
  <2>1. TrueEnds' = TrueEnds
    BY <1>1 DEF TrueEnds
  <2>2. ~strayed' => ~strayed
    BY <1>5
  <2>3. QED BY <1>1, <2>1, <2>2 DEF IInv, FramingExact, Within
<1>15. QED BY <1>6, <1>7, <1>8, <1>9, <1>10, <1>12, <1>13, <1>14, <1>11 DEF IInv

\* A piece cut out of an increasing sequence: nothing else is missing from what
\* is left, and it is increasing.
LEMMA CutOut ==
  ASSUME NEW S \in SUBSET Int, NEW a, a \in Seq(S), NEW c, c \in Seq(S),
         NEW r, r \in Seq(S), NEW k \in 0 .. Len(r),
         Increasing((a \o r) \o c)
  PROVE  /\ Increasing((a \o Prefix(r, k)) \o c)
         /\ \A x \in Values((a \o r) \o c) :
              \/ x \in Values((a \o Prefix(r, k)) \o c)
              \/ \E j \in k + 1 .. Len(r) : x = r[j]
<1>1. Len(r) \in Nat /\ k \in Nat /\ k <= Len(r)
  BY LenProperties
<1>2. PICK v : v = Prefix(r, k)
  OBVIOUS
<1>3. PICK h : h = Suffix(r, k)
  OBVIOUS
<1>4. v \in Seq(S)
  BY <1>1, <1>2, PrefixIs
<1>5. h \in Seq(S) /\ Len(h) = Len(r) - k /\ \A i \in 1 .. Len(r) - k : h[i] = r[k + i]
  BY <1>3, SuffixIs
<1>6. r = v \o h
  BY <1>2, <1>3, SplitAt
<1>7. a \o r \in Seq(S)
  BY ConcatProperties
<1>8. a \o v \in Seq(S)
  BY <1>4, ConcatProperties
<1>9. /\ Increasing(a \o r) /\ Increasing(c)
      /\ \A x \in Values(a \o r), y \in Values(c) : x < y
      /\ Values((a \o r) \o c) = Values(a \o r) \cup Values(c)
  BY <1>7, IncreasingParts
<1>10. /\ Increasing(a) /\ Increasing(r)
       /\ \A x \in Values(a), y \in Values(r) : x < y
       /\ Values(a \o r) = Values(a) \cup Values(r)
  BY <1>9, IncreasingParts
<1>11. Increasing(v) /\ Values(r) = Values(v) \cup Values(h)
  BY <1>4, <1>5, <1>6, <1>10, IncreasingParts
<1>12. Increasing(a \o v) /\ Values(a \o v) = Values(a) \cup Values(v)
  BY <1>4, <1>10, <1>11, IncreasingParts
<1>13. /\ Increasing((a \o v) \o c)
       /\ Values((a \o v) \o c) = Values(a \o v) \cup Values(c)
  <2>1. \A x \in Values(a \o v), y \in Values(c) : x < y
    BY <1>9, <1>10, <1>11, <1>12
  <2>2. QED BY <1>8, <1>9, <1>12, <2>1, IncreasingParts
<1>14. ASSUME NEW x \in Values(h)
       PROVE  \E j \in k + 1 .. Len(r) : x = r[j]
  <2>1. PICK i \in DOMAIN h : x = h[i]
    BY DEF Values
  <2>2. i \in 1 .. Len(r) - k
    BY <1>5, LenProperties
  <2>3. k + i \in k + 1 .. Len(r) /\ x = r[k + i]
    BY <1>1, <1>5, <2>1, <2>2
  <2>4. QED BY <2>3
<1>15. QED BY <1>2, <1>9, <1>10, <1>11, <1>12, <1>13, <1>14

\* What is put into recv_buf has the right type, is at most one byte more than there
\* is room for, and is all the string functions see of the rest when that is less than
\* a block and recv_buf is empty.
LEMMA PutInBufIs ==
  ASSUME NEW rest, rest \in Seq(DOMAIN input), LeftInBuffer \in Seq(DOMAIN input),
         Len(LeftInBuffer) <= 1
  PROVE  /\ PutInBuf(rest) \in Seq(DOMAIN input)
         /\ Len(PutInBuf(rest)) <= BlockSize + 1
         /\ Len(rest) < BlockSize => Len(PutInBuf(rest)) <= BlockSize
         /\ LeftInBuffer = << >> /\ Len(rest) < BlockSize => PutInBuf(rest) = Visible(rest)
<1> USE RecvReqAssumption
<1>1. PICK v : v = Visible(rest)
  OBVIOUS
<1>2. v \in Seq(DOMAIN input) /\ Len(v) \in 0 .. Len(rest)
  BY <1>1, VisibleIs
<1>3. Len(v) \in Nat /\ Len(rest) \in Nat /\ Len(LeftInBuffer) \in Nat
  <2>1. Len(v) \in Nat /\ Len(rest) \in Nat
    BY <1>2, LenProperties
  <2>2. QED BY <2>1, LenProperties
<1>4. PICK n \in Int : n = BufCap - Len(LeftInBuffer)
  <2>1. BlockSize + 1 \in Int
    OBVIOUS
  <2>2. (BlockSize + 1) - Len(LeftInBuffer) \in Int
    BY <1>3, <2>1
  <2>3. QED BY <2>2 DEF BufCap
<1>5. PutInBuf(rest) = LeftInBuffer \o Prefix(v, n)
  BY <1>1, <1>4 DEF PutInBuf
<1>6. Prefix(v, n) \in Seq(DOMAIN input)
  <2>1. CASE n >= 0
    BY <1>2, <2>1, PrefixIs
  <2>2. CASE n < 0
    <3>1. Prefix(v, n) = SubSeq(v, 1, n)
      BY <1>3, <2>2 DEF Prefix
    <3>2. SubSeq(v, 1, n) = << >>
      BY <1>2, <2>2, SubSeqEmpty
    <3>3. QED BY <3>1, <3>2, EmptySeq
  <2>3. QED BY <2>1, <2>2
<1>7. ASSUME LeftInBuffer = << >>, Len(rest) < BlockSize
      PROVE  PutInBuf(rest) = v
  <2>1. n = BlockSize + 1
    <3>1. Len(LeftInBuffer) = 0
      BY <1>7
    <3>2. QED BY <1>4, <3>1 DEF BufCap
  <2>2. n \in Nat /\ n >= Len(v)
    BY <1>2, <1>3, <1>7, <2>1
  <2>3. Prefix(v, n) = v
    BY <1>2, <2>2, PrefixWhole
  <2>4. << >> \o v = v
    BY <1>2, ConcatEmptySeq
  <2>5. QED BY <1>5, <1>7, <2>3, <2>4
<1>8. /\ PutInBuf(rest) \in Seq(DOMAIN input)
      /\ Len(PutInBuf(rest)) = Len(LeftInBuffer) + Len(Prefix(v, n))
  BY <1>5, <1>6, ConcatProperties
<1>9. n \in Nat /\ n = (BlockSize + 1) - Len(LeftInBuffer)
  BY <1>3, <1>4 DEF BufCap
<1>10. Len(Prefix(v, n)) = IF n < Len(v) THEN n ELSE Len(v)
  BY <1>2, <1>9, PrefixIs
<1>11. Len(PutInBuf(rest)) <= BlockSize + 1
  BY <1>3, <1>8, <1>9, <1>10
<1>12. Len(rest) < BlockSize => Len(PutInBuf(rest)) <= BlockSize
  BY <1>2, <1>3, <1>8, <1>9, <1>10
<1>13. QED BY <1>1, <1>7, <1>8, <1>11, <1>12

\* Where a request ends: behind the bytes read before, at the first ']' that no
\* '\' precedes.
EndFound(all, before, e) == /\ Ends(Visible(all), before) # {}
                            /\ e = Least(Ends(Visible(all), before))
EndRight(all, e) ==
  /\ e \in 1 .. Len(all)
  /\ input[all[e]] = Stop /\ \A i \in 1 .. e : input[all[i]] # Nul
  /\ e > 1 => e > Len(req)
  /\ ~strayed /\ input[all[1]] # Stop =>
       /\ e > Len(req) /\ e > 1
       /\ \A i \in 1 .. e : i > 1 =>
            (i = e <=> input[all[i]] = Stop /\ input[all[i - 1]] # Escape)

LEMMA EndIs ==
  ASSUME IInv, NEW block, block \in Seq(DOMAIN input), NEW before \in BOOLEAN,
         NEW all, all = req \o block, NEW e, EndFound(all, before, e)
  PROVE  EndRight(all, e)
<1> USE DEF EndFound, EndRight
<1>1. req \in Seq(DOMAIN input) /\ Len(req) \in Nat
  BY TypesOf DEF IInv
<1>2. all \in Seq(DOMAIN input) /\ \A i \in 1 .. Len(req) : all[i] = req[i]
  BY <1>1, Concatenated
<1>3. Len(all) \in Nat
  BY <1>2, LenProperties
<1>4. PICK v : v = Visible(all)
  OBVIOUS
<1>5. /\ DOMAIN v = 1 .. Len(v) /\ Len(v) \in 0 .. Len(all)
      /\ \A i \in 1 .. Len(v) : v[i] = all[i] /\ input[all[i]] # Nul
  BY <1>2, <1>4, VisibleIs
<1>6. Ends(v, before) = {n \in DOMAIN v : input[v[n]] = Stop /\ ~Escaped(v, n, before)}
  BY DEF Ends
<1>7. e \in Ends(v, before) /\ \A n \in Ends(v, before) : e <= n
  <2>1. Ends(v, before) \in SUBSET Nat
    BY <1>3, <1>5, <1>6
  <2>2. PICK m : m \in Ends(v, before)
    BY <1>4
  <2>3. QED BY <1>4, <2>1, <2>2, LeastIs
<1>8. e \in 1 .. Len(v) /\ input[all[e]] = Stop
  <2>1. e \in DOMAIN v /\ input[v[e]] = Stop
    BY <1>6, <1>7
  <2>2. QED BY <1>5, <2>1
<1>9. e \in 1 .. Len(all) /\ \A i \in 1 .. e : input[all[i]] # Nul
  <2>1. PICK k \in Nat : k = Len(all)
    BY <1>3
  <2>2. PICK j \in 0 .. k : j = Len(v)
    BY <1>5, <2>1
  <2>3. e \in 1 .. j
    BY <1>8, <2>2
  <2>4. e \in 1 .. k /\ \A i \in 1 .. e : i \in 1 .. j
    BY <2>3
  <2>5. QED BY <1>5, <2>1, <2>2, <2>4
<1>10. ASSUME NEW i \in 1 .. e, i > 1
       PROVE  i = e <=> input[all[i]] = Stop /\ input[all[i - 1]] # Escape
  <2>1. i \in 1 .. Len(v) /\ i - 1 \in 1 .. Len(v)
    BY <1>3, <1>5, <1>8, <1>10
  <2>2. v[i] = all[i] /\ v[i - 1] = all[i - 1]
    BY <1>5, <2>1
  <2>3. Escaped(v, i, before) <=> input[all[i - 1]] = Escape
    <3>1. i # 1
      BY <1>10
    <3>2. QED BY <2>2, <3>1 DEF Escaped
  <2>4. i \in Ends(v, before) <=> input[all[i]] = Stop /\ input[all[i - 1]] # Escape
    BY <1>5, <1>6, <2>1, <2>2, <2>3
  <2>5. i = e <=> i \in Ends(v, before)
    <3>1. i \in Ends(v, before) => e <= i
      BY <1>7
    <3>2. i <= e /\ i \in Int /\ e \in Int
      BY <1>3, <1>5, <1>8
    <3>3. QED BY <1>7, <3>1, <3>2
  <2>6. QED BY <2>4, <2>5
<1>11. ASSUME e > 1
       PROVE  e > Len(req)
  <2> SUFFICES ASSUME e <= Len(req) PROVE FALSE
    BY <1>1, <1>3, <1>9
  <2>1. e > 1
    BY <1>11
  <2>2. e \in DOMAIN Visible(req)
    BY <1>1, <1>4, <1>5, <1>8, VisiblePart
  <2>3. e \in 1 .. Len(req) /\ e - 1 \in 1 .. Len(req)
    BY <1>1, <1>9, <2>1
  <2>4. input[req[e]] = Stop
    BY <1>2, <1>8, <2>3
  <2>5. input[req[e - 1]] = Escape
    BY <2>1, <2>2, <2>4 DEF IInv, NoEndYet
  <2>6. input[all[e - 1]] = Escape
    BY <1>2, <2>3, <2>5
  <2>7. e \in 1 .. e
    BY <1>9
  <2>8. QED BY <1>10, <2>1, <2>6, <2>7
<1>12. input[all[1]] # Stop => e > 1
  <2>1. e # 1 => e > 1
    BY <1>9
  <2>2. QED BY <1>8, <2>1
<1>13. QED BY <1>8, <1>9, <1>10, <1>11, <1>12

\* What is behind an end in the block is less than a block.
LEMMA RestShort ==
  ASSUME NEW r, r \in Seq(DOMAIN input), NEW b, b \in Seq(DOMAIN input),
         NEW all, all = r \o b, Len(b) \in 1 .. BlockSize,
         NEW e \in 1 .. Len(all), e > Len(r)
  PROVE  Len(Suffix(all, e)) < BlockSize
<1> USE RecvReqAssumption
<1>1. /\ all \in Seq(DOMAIN input) /\ Len(r) \in Nat /\ Len(b) \in Nat
      /\ Len(all) = Len(r) + Len(b)
  BY Concatenated
<1>2. e \in 0 .. Len(all)
  BY <1>1
<1>3. Len(Suffix(all, e)) = Len(all) - e
  BY <1>1, <1>2, SuffixIs
<1>4. QED BY <1>1, <1>2, <1>3

\* What is behind the end lies in the block, so it is consecutive and less than
\* one.
RestRight(all, e, rest) ==
  /\ Len(rest) < BlockSize
  /\ \A j \in 1 .. Len(rest) : rest[j] - all[e] = j
  /\ \A i, j \in 1 .. Len(rest) : rest[j] - rest[i] = j - i

LEMMA RestIs ==
  ASSUME NEW r, r \in Seq(DOMAIN input), NEW b, b \in Seq(DOMAIN input),
         NEW all, all = r \o b, Len(b) \in 1 .. BlockSize, Consecutive(b),
         NEW e \in 1 .. Len(all), e > Len(r),
         NEW rest, rest = Suffix(all, e)
  PROVE  RestRight(all, e, rest)
<1> USE RecvReqAssumption
<1>1. /\ all \in Seq(DOMAIN input) /\ Len(r) \in Nat /\ Len(b) \in Nat
      /\ Len(all) = Len(r) + Len(b)
      /\ \A i \in 1 .. Len(b) : all[Len(r) + i] = b[i]
  BY Concatenated
<1>2. PICK x \in Nat : x = Len(r)
  BY <1>1
<1>3. PICK y \in 1 .. BlockSize : y = Len(b)
  OBVIOUS
<1>4. e \in 1 .. x + y /\ e > x
  BY <1>1, <1>2, <1>3
<1>5. /\ Len(rest) = (x + y) - e
      /\ \A j \in 1 .. (x + y) - e : rest[j] = all[e + j]
  <2>1. e \in 0 .. Len(all)
    BY <1>1, <1>2, <1>3, <1>4
  <2>2. /\ Len(rest) = Len(all) - e
        /\ \A j \in 1 .. Len(all) - e : rest[j] = all[e + j]
    <3>1. PICK w : w = all
      OBVIOUS
    <3>2. w \in Seq(DOMAIN input) /\ e \in 0 .. Len(w) /\ rest = Suffix(w, e)
      BY <1>1, <2>1, <3>1
    <3>3. PICK k \in 0 .. Len(w) : k = e
      BY <3>2
    <3>4. /\ Len(Suffix(w, k)) = Len(w) - k
          /\ \A j \in 1 .. Len(w) - k : Suffix(w, k)[j] = w[k + j]
      <4>1. w \in Seq(DOMAIN input)
        BY <3>2
      <4>2. QED BY ONLY <4>1, SuffixIs
    <3>5. QED BY <3>1, <3>2, <3>3, <3>4
  <2>3. QED BY <1>1, <1>2, <1>3, <2>2
<1>6. DOMAIN b = 1 .. y
  BY <1>3, LenProperties
<1>7. \A i, j \in 1 .. y : b[j] - b[i] = j - i
  BY <1>6 DEF Consecutive
<1>8. e - x \in 1 .. y /\ all[e] = b[e - x]
  <2>1. e - x \in 1 .. y /\ x + (e - x) = e
    BY <1>4
  <2>2. QED BY <1>1, <1>2, <1>3, <2>1
<1>9. ASSUME NEW j \in 1 .. (x + y) - e
      PROVE  (e - x) + j \in 1 .. y /\ rest[j] = b[(e - x) + j]
  <2>1. (e - x) + j \in 1 .. y /\ x + ((e - x) + j) = e + j
    BY <1>4
  <2>2. QED BY <1>1, <1>2, <1>3, <1>5, <2>1, SMTT(30)
<1>10. \A j \in 1 .. Len(rest) : rest[j] - all[e] = j
  <2> SUFFICES ASSUME NEW j \in 1 .. (x + y) - e PROVE rest[j] - all[e] = j
    BY <1>5
  <2>1. b[(e - x) + j] - b[e - x] = ((e - x) + j) - (e - x)
    BY <1>7, <1>8, <1>9
  <2>2. ((e - x) + j) - (e - x) = j
    OBVIOUS
  <2>3. QED BY <1>8, <1>9, <2>1, <2>2
<1>11. \A i, j \in 1 .. Len(rest) : rest[j] - rest[i] = j - i
  <2> SUFFICES ASSUME NEW i \in 1 .. (x + y) - e, NEW j \in 1 .. (x + y) - e
               PROVE  rest[j] - rest[i] = j - i
    BY <1>5
  <2>1. b[(e - x) + j] - b[(e - x) + i] = ((e - x) + j) - ((e - x) + i)
    BY <1>7, <1>9
  <2>2. ((e - x) + j) - ((e - x) + i) = j - i
    OBVIOUS
  <2>3. QED BY <1>9, <2>1, <2>2
<1>12. Len(rest) < BlockSize
  <2>1. (x + y) - e < BlockSize
    BY <1>4
  <2>2. QED BY <1>5, <2>1
<1>13. QED BY <1>10, <1>11, <1>12 DEF RestRight

LEMMA FinishedIInv ==
  ASSUME IInv, NEW block, block \in Blocks \ {<< >>}, FromBuffer(block) \/ FromSocket(block),
         Finished(block)
  PROVE  IInv'
<1> USE RecvReqAssumption
<1>1. PICK before \in BOOLEAN :
        /\ Ends(Visible(req \o block), before) # {}
        /\ returned' = returned \cup
                         {PlaceOf(Least(Ends(Visible(req \o block), before)))}
        /\ gone' = gone \o Prefix(req \o block, Least(Ends(Visible(req \o block), before)))
        /\ recv_buf' = PutInBuf(Suffix(req \o block,
                                       Least(Ends(Visible(req \o block), before))))
        /\ Restart
        /\ Stray(req \o block)
        /\ UNCHANGED <<input, dropped>>
  BY DEF Finished
<1>2. PICK all : all = req \o block
  OBVIOUS
<1>3. PICK e : e = Least(Ends(Visible(all), before))
  OBVIOUS
<1>4. PICK taken : taken = Prefix(all, e)
  OBVIOUS
<1>5. PICK rest : rest = Suffix(all, e)
  OBVIOUS
<1>6. PICK p : p = PlaceOf(e)
  OBVIOUS
<1>7. /\ Ends(Visible(all), before) # {}
      /\ returned' = returned \cup {p} /\ dropped' = dropped /\ input' = input
      /\ gone' = gone \o taken /\ recv_buf' = PutInBuf(rest)
      /\ req' = << >> /\ cap' = BlockSize + 1
      /\ strayed' = (strayed \/ input[all[1]] = Stop)
  BY <1>1, <1>2, <1>3, <1>4, <1>5, <1>6 DEF Restart, FirstCap, Stray
<1>8. /\ block \in Seq(DOMAIN input) /\ Len(block) \in 1 .. BlockSize
      /\ LeftInBuffer \in Seq(DOMAIN input) /\ Len(LeftInBuffer) <= 1
      /\ stream' \in Seq(DOMAIN input) /\ Consecutive(stream')
      /\ ~strayed => Consecutive(block) /\ LeftInBuffer = << >>
  BY BlockRead
<1>9. all \in Seq(DOMAIN input) /\ Len(all) \in Nat
  <2>1. req \in Seq(DOMAIN input)
    BY TypesOf DEF IInv
  <2>2. all \in Seq(DOMAIN input)
    BY <1>2, <1>8, <2>1, ConcatProperties
  <2>3. QED BY <2>2, LenProperties
<1>10. /\ e \in 1 .. Len(all)
       /\ input[all[e]] = Stop /\ \A i \in 1 .. e : input[all[i]] # Nul
       /\ e > 1 => e > Len(req)
       /\ ~strayed /\ input[all[1]] # Stop =>
            /\ e > Len(req) /\ e > 1
            /\ \A i \in 1 .. e : i > 1 =>
                 (i = e <=> input[all[i]] = Stop /\ input[all[i - 1]] # Escape)
  <2>1. block \in Seq(DOMAIN input)
    BY <1>8
  <2>2. EndFound(all, before, e)
    BY <1>3, <1>7 DEF EndFound
  <2>3. EndRight(all, e)
    BY <1>2, <2>1, <2>2, EndIs, Zenon
  <2>4. QED BY <2>3 DEF EndRight
<1>11. /\ taken \in Seq(DOMAIN input) /\ Len(taken) = e
       /\ \A i \in 1 .. e : taken[i] = all[i]
  <2>1. e \in Nat /\ e <= Len(all)
    BY <1>9, <1>10
  <2>2. Len(taken) = IF e < Len(all) THEN e ELSE Len(all)
    BY <1>4, <1>9, <2>1, PrefixIs
  <2>3. Len(taken) = e
    BY <1>9, <2>1, <2>2
  <2>4. QED BY <1>4, <1>9, <2>1, <2>3, PrefixIs
<1>12. rest \in Seq(DOMAIN input) /\ Len(rest) \in Nat
  <2>1. e \in 0 .. Len(all)
    BY <1>9, <1>10
  <2>2. rest \in Seq(DOMAIN input)
    BY <1>5, <1>9, <2>1, SuffixIs
  <2>3. QED BY <2>2, LenProperties
<1>13. all = taken \o rest
  <2>1. e \in 0 .. Len(all)
    BY <1>9, <1>10
  <2>2. QED BY <1>4, <1>5, <1>9, <2>1, SplitAt
<1>14. ~strayed' => ~strayed /\ input[all[1]] # Stop
  BY <1>7
<1>15. ~strayed' => /\ Len(rest) < BlockSize
                    /\ \A j \in 1 .. Len(rest) : rest[j] - all[e] = j
                    /\ \A i, j \in 1 .. Len(rest) : rest[j] - rest[i] = j - i
  <2> SUFFICES ASSUME ~strayed'
               PROVE  /\ Len(rest) < BlockSize
                      /\ \A j \in 1 .. Len(rest) : rest[j] - all[e] = j
                      /\ \A i, j \in 1 .. Len(rest) : rest[j] - rest[i] = j - i
    OBVIOUS
  <2>1. PICK r : r = req
    OBVIOUS
  <2>2. r \in Seq(DOMAIN input)
    BY <2>1, TypesOf DEF IInv
  <2>3. Consecutive(block) /\ e \in 1 .. Len(all) /\ e > Len(r)
    BY <1>8, <1>10, <1>14, <2>1
  <2>4. all = r \o block
    BY <1>2, <2>1
  <2>5. block \in Seq(DOMAIN input) /\ Len(block) \in 1 .. BlockSize
    BY <1>8
  <2>6. RestRight(all, e, rest)
    BY <1>5, <2>2, <2>3, <2>4, <2>5, RestIs, Zenon
  <2>7. QED BY <2>6 DEF RestRight
<1>16. PICK v : v = Visible(rest)
  OBVIOUS
<1>17. /\ v \in Seq(DOMAIN input) /\ Len(v) \in 0 .. Len(rest)
       /\ \A i \in 1 .. Len(v) : v[i] = rest[i]
       /\ v = Prefix(rest, Len(v))
       /\ Len(v) < Len(rest) => input[rest[Len(v) + 1]] = Nul
  BY <1>12, <1>16, VisibleIs
<1>18. recv_buf' \in Seq(DOMAIN input) /\ (~strayed' => recv_buf' = v)
  BY <1>7, <1>8, <1>12, <1>14, <1>15, <1>16, PutInBufIs
<1>19. /\ gone' \in Seq(DOMAIN input) /\ Len(gone') = Len(gone) + e
       /\ Len(gone) \in Nat
       /\ \A i \in 1 .. e : gone'[Len(gone) + i] = all[i]
       /\ \A n \in TrueEnds' : n \in 1 .. Len(gone')
  <2>1. Len(gone) \in Nat
    BY TypesOf DEF IInv
  <2>2. TypeOK /\ taken \in Seq(DOMAIN input) /\ gone' = gone \o taken /\ input' = input
    BY <1>7, <1>11 DEF IInv
  <2>3. /\ gone' \in Seq(DOMAIN input) /\ Len(gone') = Len(gone) + Len(taken)
        /\ \A i \in 1 .. Len(taken) : gone'[Len(gone) + i] = taken[i]
        /\ \A n \in TrueEnds' : n \in 1 .. Len(gone')
    BY <2>2, GoneGrows
  <2>4. \A i \in 1 .. e : gone'[Len(gone) + i] = all[i]
    BY <1>11, <2>3
  <2>5. QED BY <1>11, <2>1, <2>3, <2>4
<1>20. p \in Place /\ p.from = Len(gone) + 1 /\ p.to = Len(gone) + e
  BY <1>6, <1>9, <1>10, <1>19 DEF PlaceOf, Place
<1>21. << >> \in Seq(DOMAIN input) /\ Len(<< >>) = 0
  BY EmptySeq
<1>22. TypeOK'
  <2>1. input' \in Seq(Byte) /\ cap' \in Nat /\ dropped' \subseteq Place
    BY <1>7 DEF IInv, TypeOK
  <2>2. returned' \subseteq Place
    BY <1>7, <1>20 DEF IInv, TypeOK
  <2>3. strayed' \in BOOLEAN
    <3>1. strayed \in BOOLEAN
      BY DEF IInv, TypeOK
    <3>2. QED BY <1>7, <3>1
  <2>4. {stream, recv_buf, req, gone}' \subseteq Seq(DOMAIN input')
    <3>1. req' \in Seq(DOMAIN input)
      BY <1>7, <1>21
    <3>2. QED BY <1>7, <1>8, <1>18, <1>19, <3>1
  <2>5. QED BY <1>7, <2>1, <2>2, <2>3, <2>4 DEF TypeOK
<1>23. RoomForZero'
  BY <1>7, <1>21 DEF RoomForZero
<1>24. HistorySound'
  <2>1. ASSUME NEW q \in returned \cup dropped
        PROVE  1 <= q.from /\ q.to <= Len(gone')
    <3>1. q \in Place /\ 1 <= q.from /\ q.to <= Len(gone)
      BY DEF IInv, HistorySound, TypeOK
    <3>2. q.to \in Nat
      BY <3>1 DEF Place
    <3>3. QED BY <1>9, <1>10, <1>19, <3>1, <3>2
  <2>2. \A q \in returned : q.from <= q.to
    BY DEF IInv, HistorySound
  <2>3. 1 <= p.from /\ p.to <= Len(gone') /\ p.from <= p.to
    BY <1>9, <1>10, <1>19, <1>20
  <2>4. QED BY <1>7, <2>1, <2>2, <2>3 DEF HistorySound
<1>25. Consecutive(stream)'
  BY <1>8 DEF Consecutive
<1>26. BufferSound'
  <2> SUFFICES ASSUME ~strayed' PROVE Len(v) <= BlockSize /\ Consecutive(v)
    BY <1>18 DEF BufferSound, Consecutive
  <2>1. PICK k \in 0 .. Len(rest) : k = Len(v)
    BY <1>17
  <2>2. DOMAIN v = 1 .. k
    BY <1>17, <2>1, LenProperties
  <2>3. \A i \in 1 .. k : i \in 1 .. Len(rest) /\ v[i] = rest[i]
    BY <1>12, <1>17, <2>1
  <2>4. \A i, j \in 1 .. k : v[j] - v[i] = j - i
    BY <1>15, <2>3
  <2>5. Len(v) <= BlockSize
    BY <1>12, <1>15, <2>1
  <2>6. QED BY <2>2, <2>4, <2>5 DEF Consecutive
<1>27. OverrunKnown'
  <2>1. /\ Len(PutInBuf(rest)) <= BlockSize + 1
        /\ Len(rest) < BlockSize => Len(PutInBuf(rest)) <= BlockSize
    BY <1>8, <1>12, PutInBufIs
  <2>2. Len(recv_buf') \in Nat
    BY <1>18, LenProperties
  <2>3. CASE e > 1
    <3>1. req \in Seq(DOMAIN input)
      BY TypesOf DEF IInv
    <3>2. Len(rest) < BlockSize
      BY <1>2, <1>5, <1>8, <1>10, <2>3, <3>1, RestShort
    <3>3. Len(recv_buf') <= BlockSize
      BY <1>7, <2>1, <3>2
    <3>4. QED BY <2>2, <3>3 DEF OverrunKnown
  <2>4. CASE e = 1
    <3>1. Len(gone') = Len(gone) + 1 /\ p.from = Len(gone') /\ p.to = Len(gone')
      BY <1>19, <1>20, <2>4
    <3>2. input'[gone'[Len(gone')]] = Stop
      BY <1>7, <1>10, <1>19, <2>4, <3>1
    <3>3. StopAlone'
      BY <1>7, <3>1, <3>2 DEF StopAlone
    <3>4. QED BY <1>7, <2>1, <3>3 DEF OverrunKnown
  <2>5. QED BY <1>9, <1>10, <2>3, <2>4
<1>28. NoEndYet'
  <2>1. Visible(req)' = << >>
    BY <1>7 DEF Visible
  <2>2. QED BY <2>1 DEF NoEndYet
<1>29. StreamConserved'
  <2> SUFFICES ASSUME ~strayed' PROVE StreamConserved!2'
    BY DEF StreamConserved
  <2>1. PICK k \in 0 .. Len(rest) : k = Len(v)
    BY <1>17
  <2>2. PICK a : a = gone'
    OBVIOUS
  <2>3. PICK c : c = stream'
    OBVIOUS
  <2>4. a \in Seq(DOMAIN input) /\ c \in Seq(DOMAIN input)
    BY <1>8, <1>19, <2>2, <2>3
  <2>5. Kept = (a \o rest) \o c
    <3>1. gone \o (taken \o rest) = (gone \o taken) \o rest
      <4>1. gone \in Seq(DOMAIN input)
        BY TypesOf DEF IInv
      <4>2. taken \in Seq(DOMAIN input) /\ rest \in Seq(DOMAIN input)
        BY <1>11, <1>12
      <4>3. QED BY <4>1, <4>2, ConcatAssociative, SMTT(30)
    <3>2. Kept = (gone \o (req \o block)) \o stream'
      BY <1>14, KeptAsRead
    <3>3. QED BY <1>2, <1>7, <1>13, <2>2, <2>3, <3>1, <3>2
  <2>6. Kept' = (a \o Prefix(rest, k)) \o c
    <3>1. Kept' = ((a \o << >>) \o v) \o c
      BY <1>7, <1>18, <2>2, <2>3 DEF Kept
    <3>2. a \o << >> = a
      BY <2>4, ConcatEmptySeq
    <3>3. QED BY <1>17, <2>1, <3>1, <3>2
  <2>7. Increasing(Kept) /\ StreamConserved!2
    BY <1>14 DEF IInv, StreamConserved, Increasing
  <2>8. DOMAIN input \in SUBSET Int
    BY TypesOf DEF IInv
  <2>9. /\ Increasing(Kept')
        /\ \A x \in Values(Kept) : x \in Values(Kept') \/ \E j \in k + 1 .. Len(rest) : x = rest[j]
    BY <1>12, <2>4, <2>5, <2>6, <2>7, <2>8, CutOut
  <2>10. ASSUME NEW x \in DOMAIN input, x \notin Values(Kept')
         PROVE  \E r \in returned' : \E z \in gone'[r.to] + 1 .. x :
                  input[z] = Nul /\ x - gone'[r.to] < BlockSize
    <3>1. CASE x \notin Values(Kept)
      <4>1. PICK r \in returned : \E z \in gone[r.to] + 1 .. x :
              input[z] = Nul /\ x - gone[r.to] < BlockSize
        BY <2>7, <3>1 DEF Values
      <4>2. gone'[r.to] = gone[r.to]
        BY <1>7, <1>11, HistoryStays
      <4>3. r \in returned'
        BY <1>7
      <4>4. QED BY <4>1, <4>2, <4>3
    <3>2. CASE x \in Values(Kept)
      <4>1. PICK j \in k + 1 .. Len(rest) : x = rest[j]
        BY <2>9, <2>10, <3>2
      <4>2. k + 1 \in 1 .. Len(rest) /\ j \in 1 .. Len(rest) /\ k < Len(rest) /\ k + 1 <= j
        BY <1>12, <4>1
      <4>3. rest[k + 1] - all[e] = k + 1 /\ x - all[e] = j
        BY <1>15, <4>1, <4>2
      <4>4. all[e] \in Int /\ rest[k + 1] \in Int /\ x \in Int
        <5>1. all[e] \in DOMAIN input /\ rest[k + 1] \in DOMAIN input
          BY <1>9, <1>10, <1>12, <4>2, ElementOfSeq
        <5>2. QED BY <2>8, <5>1
      <4>5. rest[k + 1] \in all[e] + 1 .. x /\ x - all[e] < BlockSize
        <5>1. j < BlockSize
          BY <1>12, <1>15, <4>2
        <5>2. QED BY <4>2, <4>3, <4>4, <5>1
      <4>6. input[rest[k + 1]] = Nul
        BY <1>17, <2>1, <4>2
      <4>7. gone'[p.to] = all[e]
        BY <1>9, <1>10, <1>19, <1>20
      <4>8. p \in returned'
        BY <1>7
      <4>9. QED BY <4>5, <4>6, <4>7, <4>8
    <3>3. QED BY <3>1, <3>2
  <2>11. QED BY <1>7, <2>9, <2>10 DEF Increasing, Values
<1>30. FramingExact'
  <2> SUFFICES ASSUME ~strayed' PROVE FramingExact!2'
    BY DEF FramingExact
  <2>1. \A q \in returned : \A n \in q.from .. q.to :
          (n \in TrueEnds' <=> n = q.to) /\ input[gone'[n]] # Nul
    BY <1>7, <1>11, <1>14, HistoryStays
  <2>2. ASSUME NEW n \in p.from .. p.to
        PROVE  (n \in TrueEnds' <=> n = p.to) /\ input[gone'[n]] # Nul
    <3>1. PICK i \in 1 .. e : n = Len(gone) + i
      <4>1. n - Len(gone) \in 1 .. e /\ n = Len(gone) + (n - Len(gone))
        BY <1>9, <1>10, <1>19, <1>20
      <4>2. QED BY <4>1
    <3>2. gone'[n] = all[i] /\ input[all[i]] # Nul
      <4>1. gone'[Len(gone) + i] = all[i]
        BY <1>19
      <4>2. QED BY <1>10, <3>1, <4>1
    <3>3. n = p.to <=> i = e
      <4>1. PICK g \in Nat : g = Len(gone)
        BY <1>19
      <4>2. n = g + i /\ p.to = g + e /\ e \in Int
        BY <1>9, <1>10, <1>20, <3>1, <4>1
      <4>3. QED BY <4>1, <4>2
    <3>4. n \in TrueEnds' <=> i = e
      <4>1. CASE i > 1
        <5>1. i \in 1 .. Len(taken) /\ i - 1 \in 1 .. e
          BY <1>9, <1>10, <1>11, <4>1
        <5>2. n \in TrueEnds' <=> input[taken[i]] = Stop /\ input[taken[i - 1]] # Escape
          BY <1>7, <1>11, <3>1, <4>1, <5>1, GoneGrows DEF IInv
        <5>3. QED BY <1>10, <1>11, <1>14, <4>1, <5>1, <5>2
      <4>2. CASE i = 1
        <5>1. n \notin TrueEnds'
          <6>1. Len(taken) >= 1 /\ taken[1] = all[1]
            BY <1>9, <1>10, <1>11
          <6>2. n \in TrueEnds' => input[taken[1]] = Stop
            BY <1>7, <1>11, <3>1, <4>2, <6>1, GoneGrows DEF IInv
          <6>3. QED BY <1>14, <6>1, <6>2
        <5>2. e > 1
          BY <1>10, <1>14
        <5>3. QED BY <4>2, <5>1, <5>2
      <4>3. QED BY <1>9, <1>10, <4>1, <4>2
    <3>5. QED BY <3>2, <3>3, <3>4
  <2>3. ASSUME NEW n \in TrueEnds'
        PROVE  Within(n, returned)' \/ Within(n, dropped)'
    <3>1. n \in 1 .. Len(gone')
      BY <1>19
    <3>2. CASE n \in 1 .. Len(gone)
      <4>1. Within(n, returned) \/ Within(n, dropped)
        BY <1>7, <1>11, <1>14, <3>2, HistoryStays
      <4>2. QED BY <1>7, <4>1 DEF Within
    <3>3. CASE n \notin 1 .. Len(gone)
      <4>1. p.from <= n /\ n <= p.to
        BY <1>9, <1>10, <1>19, <1>20, <3>1, <3>3
      <4>2. p \in returned'
        BY <1>7
      <4>3. QED BY <4>1, <4>2 DEF Within
    <3>4. QED BY <3>2, <3>3
  <2>4. QED BY <1>7, <2>1, <2>2, <2>3
<1>31. QED BY <1>22, <1>23, <1>24, <1>25, <1>26, <1>28, <1>29, <1>30, <1>27 DEF IInv

LEMMA NextIInv == IInv /\ [Next]_vars => IInv'
<1> SUFFICES ASSUME IInv, [Next]_vars PROVE IInv'
  OBVIOUS
<1>1. CASE ReadBlock
  <2>1. PICK block : /\ block \in Blocks \ {<< >>}
                     /\ FromBuffer(block) \/ FromSocket(block)
                     /\ \/ TooLong(block) \/ OutOfMemory(block)
                        \/ Unfinished(block) \/ Finished(block)
    BY <1>1 DEF ReadBlock
  <2>2. CASE TooLong(block) \/ OutOfMemory(block)
    BY <2>1, <2>2, ThrownIInv
  <2>3. CASE Unfinished(block)
    BY <2>1, <2>3, UnfinishedIInv
  <2>4. CASE Finished(block)
    BY <2>1, <2>4, FinishedIInv
  <2>5. QED BY <2>1, <2>2, <2>3, <2>4
<1>2. CASE ReadFails
  BY <1>2, ReadFailsIInv
<1>3. CASE UNCHANGED vars
  <2> USE <1>3 DEF vars
  <2>1. TypeOK' /\ RoomForZero' /\ HistorySound' /\ Consecutive(stream)'
    BY DEF IInv, TypeOK, RoomForZero, HistorySound, Consecutive
  <2>2. BufferSound' /\ OverrunKnown' /\ NoEndYet'
    BY DEF IInv, BufferSound, Consecutive, OverrunKnown, StopAlone, NoEndYet, Visible
  <2>3. StreamConserved'
    BY DEF IInv, StreamConserved, Kept
  <2>4. FramingExact'
    BY DEF IInv, FramingExact, TrueEnds, Within
  <2>5. QED BY <2>1, <2>2, <2>3, <2>4 DEF IInv
<1>4. QED BY <1>1, <1>2, <1>3 DEF Next

-----------------------------------------------------------------------------
(* What is returned is a request                                           *)

\* The bytes of a request returned, as make_req gets them.
Text(p) == [n \in 1 .. p.to - p.from + 1 |-> input[gone[p.from + n - 1]]]

\* It has no byte 0, ends with the byte that ends a request, and is shorter than
\* the maximum.
Whole(text) == /\ text \in Seq(Byte \ {Nul})
               /\ text # << >> /\ text[Len(text)] = Stop
               /\ Len(text) < MaxMessage
TextsWhole == \A p \in returned : Whole(Text(p))

LEMMA PlaceIs ==
  ASSUME IInv, NEW p \in returned
  PROVE  /\ p.from \in Nat /\ p.to \in Nat /\ Len(gone) \in Nat
         /\ 1 <= p.from /\ p.from <= p.to /\ p.to <= Len(gone)
<1>1. returned \subseteq Place
  BY DEF IInv, TypeOK
<1>2. p.from \in Nat /\ p.to \in Nat
  BY <1>1 DEF Place
<1>3. QED BY <1>2, TypesOf DEF IInv, HistorySound

\* Texts already returned are not touched.
LEMMA TextsStay ==
  ASSUME IInv, NEW bytes, bytes \in Seq(DOMAIN input),
         gone' = gone \o bytes, input' = input, NEW p \in returned
  PROVE  Text(p)' = Text(p)
<1>1. PICK from \in Nat, to \in Nat : from = p.from /\ to = p.to
  BY PlaceIs
<1>2. ASSUME NEW n \in 1 .. to - from + 1
      PROVE  gone'[from + n - 1] = gone[from + n - 1]
  <2>1. from + n - 1 \in 1 .. Len(gone)
    BY SMTT(20), <1>1, PlaceIs
  <2>2. QED BY <2>1, GoneGrows DEF IInv
<1>3. QED BY <1>1, <1>2 DEF Text

LEMMA NothingTextsWhole ==
  ASSUME IInv, TextsWhole, input' = input, returned' = returned,
         \/ gone' = gone
         \/ \E bytes : bytes \in Seq(DOMAIN input) /\ gone' = gone \o bytes
  PROVE  TextsWhole'
<1>1. ASSUME NEW p \in returned
      PROVE  Text(p)' = Text(p)
  <2>1. CASE gone' = gone
    BY <2>1 DEF Text
  <2>2. CASE \E bytes : bytes \in Seq(DOMAIN input) /\ gone' = gone \o bytes
    <3>1. PICK bytes : bytes \in Seq(DOMAIN input) /\ gone' = gone \o bytes
      BY <2>2
    <3>2. QED BY <3>1, TextsStay
  <2>3. QED BY <2>1, <2>2
<1>2. ASSUME NEW p \in returned'
      PROVE  Whole(Text(p)')
  <2>1. p \in returned
    BY <1>2
  <2>2. Whole(Text(p)) /\ Text(p)' = Text(p)
    BY <1>1, <2>1 DEF TextsWhole
  <2>3. QED BY <2>2
<1>3. QED BY <1>2 DEF TextsWhole, Whole

\* The bytes in front of the end that is found, the end included.
LEMMA TakenWhole ==
  ASSUME RecvReqAssumption, IInv, NEW all \in Seq(DOMAIN input), NEW e, EndRight(all, e),
         Len(all) < MaxMessage,
         gone' = gone \o Prefix(all, e), input' = input,
         NEW p, p = PlaceOf(e)
  PROVE  Whole(Text(p)')
<1>1. /\ e \in 1 .. Len(all) /\ Len(all) \in Nat
      /\ input[all[e]] = Stop /\ \A i \in 1 .. e : input[all[i]] # Nul
  BY LenProperties DEF EndRight
<1>2. PICK g \in Nat : g = Len(gone)
  BY TypesOf DEF IInv
<1>3. PICK taken : taken = Prefix(all, e)
  OBVIOUS
<1>4. /\ taken \in Seq(DOMAIN input) /\ Len(taken) = e
      /\ \A i \in 1 .. e : taken[i] = all[i]
  <2>1. e \in Nat /\ e <= Len(all)
    BY <1>1
  <2>2. Len(taken) = IF e < Len(all) THEN e ELSE Len(all)
    BY <1>3, <2>1, PrefixIs
  <2>3. Len(taken) = e
    BY <1>1, <2>1, <2>2
  <2>4. QED BY <1>3, <2>1, <2>3, PrefixIs
<1>5. \A i \in 1 .. e : gone'[g + i] = all[i]
  <2>1. \A i \in 1 .. Len(taken) : gone'[Len(gone) + i] = taken[i]
    BY <1>3, <1>4, GoneGrows DEF IInv
  <2>2. QED BY <1>2, <1>4, <2>1
<1>6. Text(p)' = [n \in 1 .. e |-> input[all[n]]]
  <2>1. p.from = g + 1 /\ p.to = g + e
    BY <1>2 DEF PlaceOf
  <2>2. (g + e) - (g + 1) + 1 = e
    BY <1>1
  <2>3. \A n \in 1 .. e : (g + 1) + n - 1 = g + n
    BY <1>1
  <2>4. ASSUME NEW n \in 1 .. e
        PROVE  input'[gone'[(g + 1) + n - 1]] = input[all[n]]
    BY <1>5, <2>3
  <2>5. Text(p)' = [n \in 1 .. (g + e) - (g + 1) + 1 |-> input'[gone'[(g + 1) + n - 1]]]
    BY <2>1 DEF Text
  <2>6. Text(p)' = [n \in 1 .. e |-> input'[gone'[(g + 1) + n - 1]]]
    BY <2>2, <2>5
  <2>7. QED BY <2>4, <2>6
<1>7. PICK text : text = [n \in 1 .. e |-> input[all[n]]]
  OBVIOUS
<1>8. e \in Nat \ {0} /\ e < MaxMessage
  BY <1>1, RecvReqAssumption DEF RecvReqAssumption
<1>9. ASSUME NEW n \in 1 .. e
      PROVE  input[all[n]] \in Byte \ {Nul}
  <2>1. n \in 1 .. Len(all)
    BY <1>1
  <2>2. all[n] \in DOMAIN input
    BY <2>1, ElementOfSeq
  <2>3. input \in Seq(Byte)
    BY DEF IInv, TypeOK
  <2>4. all[n] \in 1 .. Len(input)
    BY <2>2, <2>3, LenProperties
  <2>5. input[all[n]] \in Byte
    BY <2>3, <2>4, ElementOfSeq
  <2>6. QED BY <1>1, <2>5
<1>10. text \in Seq(Byte \ {Nul}) /\ Len(text) = e
  BY <1>7, <1>8, <1>9
<1>11. text[e] = Stop /\ text # << >>
  BY SMTT(20), <1>1, <1>7, <1>8, <1>10
<1>12. QED BY <1>6, <1>7, <1>8, <1>10, <1>11 DEF Whole

LEMMA FinishedTextsWhole ==
  ASSUME IInv, TextsWhole, NEW block, block \in Blocks \ {<< >>},
         FromBuffer(block) \/ FromSocket(block), Finished(block)
  PROVE  TextsWhole'
<1> USE RecvReqAssumption
<1>1. PICK before \in BOOLEAN :
        /\ Fits(block)
        /\ Ends(Visible(req \o block), before) # {}
        /\ returned' = returned \cup
                         {PlaceOf(Least(Ends(Visible(req \o block), before)))}
        /\ gone' = gone \o Prefix(req \o block, Least(Ends(Visible(req \o block), before)))
        /\ input' = input
  BY DEF Finished
<1>2. PICK all : all = req \o block
  OBVIOUS
<1>3. PICK e : e = Least(Ends(Visible(all), before))
  OBVIOUS
<1>4. block \in Seq(DOMAIN input)
  BY BlockRead
<1>5. all \in Seq(DOMAIN input) /\ Len(all) < MaxMessage
  <2>1. req \in Seq(DOMAIN input)
    BY TypesOf DEF IInv
  <2>2. all \in Seq(DOMAIN input) /\ Len(all) = Len(req) + Len(block)
    BY <1>2, <1>4, <2>1, ConcatProperties
  <2>3. QED BY <1>1, <2>2 DEF Fits
<1>6. EndRight(all, e)
  <2>1. EndFound(all, before, e)
    BY <1>1, <1>2, <1>3 DEF EndFound
  <2>2. QED BY <1>2, <1>4, <2>1, EndIs, Zenon
<1>7. gone' = gone \o Prefix(all, e) /\ returned' = returned \cup {PlaceOf(e)}
  BY <1>1, <1>2, <1>3
<1>8. Prefix(all, e) \in Seq(DOMAIN input)
  <2>1. e \in Nat
    BY <1>5, <1>6, LenProperties DEF EndRight
  <2>2. QED BY <1>5, <2>1, PrefixIs
<1>9. ASSUME NEW p \in returned
      PROVE  Whole(Text(p)')
  <2>1. Text(p)' = Text(p)
    BY <1>1, <1>7, <1>8, TextsStay
  <2>2. QED BY <2>1 DEF TextsWhole
<1>10. PICK p : p = PlaceOf(e)
  OBVIOUS
<1>11. Whole(Text(p)')
  BY <1>1, <1>5, <1>6, <1>7, <1>10, TakenWhole
<1>12. QED BY <1>7, <1>9, <1>10, <1>11 DEF TextsWhole, Whole

LEMMA NextTextsWhole == IInv /\ TextsWhole /\ [Next]_vars => TextsWhole'
<1> SUFFICES ASSUME IInv, TextsWhole, [Next]_vars PROVE TextsWhole'
  OBVIOUS
<1>1. CASE ReadBlock
  <2>1. PICK block : /\ block \in Blocks \ {<< >>}
                     /\ FromBuffer(block) \/ FromSocket(block)
                     /\ \/ TooLong(block) \/ OutOfMemory(block)
                        \/ Unfinished(block) \/ Finished(block)
    BY <1>1 DEF ReadBlock
  <2>2. CASE TooLong(block) \/ OutOfMemory(block)
    <3>1. /\ gone' = gone \o (req \o block)
          /\ input' = input /\ returned' = returned
      BY <2>2 DEF TooLong, OutOfMemory, Throw
    <3>2. req \o block \in Seq(DOMAIN input)
      <4>1. req \in Seq(DOMAIN input) /\ block \in Seq(DOMAIN input)
        BY <2>1, TypesOf, BlockRead DEF IInv
      <4>2. QED BY <4>1, ConcatProperties
    <3>3. QED BY <3>1, <3>2, NothingTextsWhole
  <2>3. CASE Unfinished(block)
    <3>1. gone' = gone /\ input' = input /\ returned' = returned
      BY <2>3 DEF Unfinished
    <3>2. QED BY <3>1, NothingTextsWhole
  <2>4. CASE Finished(block)
    BY <2>1, <2>4, FinishedTextsWhole
  <2>5. QED BY <2>1, <2>2, <2>3, <2>4
<1>2. CASE ReadFails
  <2>1. gone' = gone \o req /\ input' = input /\ returned' = returned
    BY <1>2 DEF ReadFails, Throw
  <2>2. req \in Seq(DOMAIN input)
    BY TypesOf DEF IInv
  <2>3. QED BY <2>1, <2>2, NothingTextsWhole
<1>3. CASE UNCHANGED vars
  <2>1. gone' = gone /\ input' = input /\ returned' = returned
    BY <1>3 DEF vars
  <2>2. QED BY <2>1, NothingTextsWhole
<1>4. QED BY <1>1, <1>2, <1>3 DEF Next

-----------------------------------------------------------------------------
(* What holds of every behaviour                                           *)

LEMMA Inductive == Spec => []IInv
<1>1. Init => IInv
  BY InitIInv
<1>2. IInv /\ [Next]_vars => IInv'
  BY NextIInv
<1>3. QED BY <1>1, <1>2, PTL DEF Spec

\* recv_req's variables have their types, and a request being read is shorter
\* than max_msg_len.
THEOREM RecvReqTypeCorrect == Spec => []TypeOK
<1>1. IInv => TypeOK
  BY DEF IInv
<1>2. QED BY <1>1, Inductive, PTL

\* Whatever the stream, the size of the blocks and the maximum of a request, recv_req
\* writes nothing past the end of req_start: cap has always been doubled in time.
\* put_in_buf writes at most the one byte past the end of recv_buf that its cap field
\* counts too many, and only behind a ']' taken for escaped in one block and not in a
\* later one; every other rest fits, even after is_escaped has read before the allocation.
THEOREM BuffersCorrect == Spec => []BuffersInBounds
<1>1. IInv => BuffersInBounds
  BY DEF IInv, RoomForZero, OverrunKnown, BuffersInBounds, BufSize
<1>2. QED BY <1>1, Inductive, PTL

\* Over any stream, what comes out of recv_buf and the socket is the stream in
\* its order, but for bytes behind a byte 0 less than a block behind a request.
THEOREM StreamCorrect == Spec => []StreamConserved
<1>1. IInv => StreamConserved
  BY DEF IInv
<1>2. QED BY <1>1, Inductive, PTL

\* However the stream is cut into blocks, the requests recv_req returns end where
\* those of the client do, until is_escaped has read before the allocation.
THEOREM FramingCorrect == Spec => []FramingExact
<1>1. IInv => FramingExact
  BY DEF IInv
<1>2. QED BY <1>1, Inductive, PTL

\* Whatever the client sends and however it is cut, even after is_escaped has
\* read before the allocation, a request recv_req returns is one make_req is
\* written for: it has no byte 0, ends with the ']' that was found, and is
\* shorter than max_msg_len.  This is what Request assumes of its texts.
THEOREM RequestsWhole == Spec => []TextsWhole
<1>1. Init => TextsWhole
  BY DEF Init, TextsWhole
<1>2. IInv /\ TextsWhole /\ [Next]_vars => TextsWhole'
  BY NextTextsWhole
<1>3. QED BY <1>1, <1>2, Inductive, PTL DEF Spec
=============================================================================
