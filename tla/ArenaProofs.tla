----------------------------- MODULE ArenaProofs -----------------------------
(***************************************************************************)
(* What TLAPS proves of Arena, for any page size, any addresses, any sizes *)
(* and alignments asked for, and any number of pages and blocks.           *)
(***************************************************************************)
EXTENDS Arena, TLAPS

\* The pages of an arena are allocated, no other arena has them, and the page
\* its head calls the last is one of them, though not always the last.
Chains ==
  \A a \in heads :
    /\ Chain(a) \subseteq live
    /\ prev[a] \in Chain(a)
    /\ \A b \in heads \ {a} : Chain(a) \cap Chain(b) = {}

\* A page malloc has not returned yet has no successor.
Fresh == \A p \in Pages : p > made => next[p] = NULL

\* An allocation looks at a page of its arena.
CallSound == Allocating => call.arena \in heads /\ call.page \in Chain(call.arena)

\* Until an arena of several pages is given away the head knows the last page,
\* and each page is in an arena.
Ungrafted ==
  ~grafted => /\ \A p \in live : \E a \in heads : p \in Chain(a)
              /\ \A a \in heads : next[prev[a]] = NULL

\* The page of a block is in no other arena; it may have left its own.
BlocksAtHome ==
  \A b \in blocks : \A a \in heads \ {b.arena} : b.page \notin Chain(a)

\* An enlarged page stays empty only until the allocation it was enlarged for has
\* its block, and a head, which a reset empties, is never enlarged.
Enlarged ==
  /\ \A a \in heads : capacity[a] = DefPage
  /\ \A p \in Pages :
       size[p] = 0 /\ capacity[p] > DefPage /\ p \notin wrapped =>
         /\ Allocating /\ p = call.page
         /\ capacity[p] = call.sz + call.align - 1 /\ capacity[p] < SizeSpace

\* The inductive invariant.
IInv == /\ TypeOK
        /\ Chains
        /\ Fresh
        /\ CallSound
        /\ Ungrafted
        /\ BlocksSound
        /\ BlocksAtHome
        /\ Enlarged

-----------------------------------------------------------------------------
(* Alignment                                                               *)

LEMMA ModRange ==
  ASSUME NEW x \in Int, NEW a \in Nat \ {0}
  PROVE  x % a \in 0 .. a - 1
OBVIOUS

LEMMA DivMod ==
  ASSUME NEW x \in Int, NEW a \in Nat \ {0}
  PROVE  x = (x \div a) * a + (x % a) /\ x \div a \in Int
OBVIOUS

\* The only multiple of a from 0 to a - 1 is 0.
LEMMA SmallMultiple ==
  ASSUME NEW e \in Int, NEW a \in Nat \ {0}, e * a \in 0 .. a - 1
  PROVE  e * a = 0
<1>1. CASE e = 0
  BY <1>1
<1>2. CASE e >= 1
  <2>1. (e - 1) * a >= 0 /\ (e - 1) * a = e * a - a
    BY <1>2
  <2>2. QED BY <2>1
<1>3. CASE e <= -1
  <2>1. (-e - 1) * a >= 0 /\ (-e - 1) * a = -(e * a) - a
    BY <1>3
  <2>2. QED BY <2>1
<1>4. QED BY <1>1, <1>2, <1>3

LEMMA MultipleMod ==
  ASSUME NEW q \in Int, NEW a \in Nat \ {0}
  PROVE  (q * a) % a = 0
<1> DEFINE x == q * a
           d == x \div a
           r == x % a
<1>1. x \in Int
  OBVIOUS
<1>2. x = d * a + r /\ d \in Int /\ r \in 0 .. a - 1
  BY <1>1, DivMod, ModRange
<1>3. (q - d) * a = r /\ q - d \in Int
  BY <1>2
<1> HIDE DEF r, d
<1>4. r = 0
  BY <1>2, <1>3, SmallMultiple
<1>5. QED BY <1>4 DEF r

\* A sum below the number of sizes does not wrap.
LEMMA SmallMod ==
  ASSUME NEW a \in Nat \ {0}, NEW x \in 0 .. a - 1
  PROVE  x % a = x
<1> DEFINE d == x \div a
           r == x % a
<1>1. x = d * a + r /\ d \in Int /\ r \in 0 .. a - 1
  BY DivMod, ModRange
<1> HIDE DEF d, r
<1>2. CASE r <= x
  <2>1. d * a \in 0 .. a - 1
    BY <1>1, <1>2
  <2>2. d * a = 0
    BY <1>1, <2>1, SmallMultiple
  <2>3. QED BY <1>1, <2>2 DEF r
<1>3. CASE x < r
  <2>1. (-d) * a = -(d * a) /\ -d \in Int
    BY <1>1
  <2>2. (-d) * a \in 0 .. a - 1
    BY <1>1, <1>3, <2>1
  <2>3. (-d) * a = 0
    BY <2>1, <2>2, SmallMultiple
  <2>4. QED BY <1>1, <1>3, <2>1, <2>3
<1>4. QED BY <1>1, <1>2, <1>3

\* A sum below twice the number of sizes wraps once.
LEMMA WrapsOnce ==
  ASSUME NEW a \in Nat \ {0}, NEW x \in a .. 2 * a - 1
  PROVE  x % a = x - a
<1> DEFINE d == x \div a
           r == x % a
<1>1. x = d * a + r /\ d \in Int /\ r \in 0 .. a - 1
  BY DivMod, ModRange
<1> HIDE DEF d, r
<1>2. (d - 1) * a = d * a - a /\ d - 1 \in Int /\ (1 - d) * a = a - d * a /\ 1 - d \in Int
  BY <1>1
<1>3. (d - 1) * a = x - a - r
  BY <1>1, <1>2
<1>4. CASE r <= x - a
  <2>1. (d - 1) * a \in 0 .. a - 1
    BY <1>1, <1>3, <1>4
  <2>2. (d - 1) * a = 0
    BY <1>2, <2>1, SmallMultiple
  <2>3. QED BY <1>1, <1>3, <2>2 DEF r
<1>5. CASE x - a < r
  <2>1. (1 - d) * a \in 0 .. a - 1
    BY <1>1, <1>2, <1>5
  <2>2. (1 - d) * a = 0
    BY <1>2, <2>1, SmallMultiple
  <2>3. QED BY <1>1, <1>2, <1>5, <2>2
<1>6. QED BY <1>1, <1>4, <1>5

\* The padding _calculate_align_offset computes aligns any address.
LEMMA PaddingAligns ==
  ASSUME NEW x \in Int, NEW a \in Nat \ {0}
  PROVE  (x + ((-x) % a)) % a = 0
<1> DEFINE r == (-x) % a
           q == (-x) \div a
<1>1. -x = q * a + r /\ q \in Int /\ r \in 0 .. a - 1
  BY DivMod, ModRange
<1> HIDE DEF r, q
<1>2. (-q) * a = -(q * a)
  BY <1>1
<1>3. x + r = (-q) * a
  BY <1>1, <1>2
<1>4. ((-q) * a) % a = 0
  BY <1>1, MultipleMod
<1>5. QED BY <1>3, <1>4 DEF r

-----------------------------------------------------------------------------
(* Chains of pages, whatever links them                                    *)

Linking         == [Pages -> Pages \cup {NULL}]
ClosedIn(f, S)  == \A p \in S : f[p] # NULL => f[p] \in S
Reach(f, a)     == {p \in Pages : \A S \in SUBSET Pages : a \in S /\ ClosedIn(f, S) => p \in S}

LEMMA ReachClosed ==
  ASSUME NEW f \in Linking, NEW a \in Pages
  PROVE  a \in Reach(f, a) /\ Reach(f, a) \subseteq Pages /\ ClosedIn(f, Reach(f, a))
<1>1. ASSUME NEW p \in Reach(f, a), f[p] # NULL
      PROVE  f[p] \in Reach(f, a)
  <2>1. f[p] \in Pages
    BY <1>1 DEF Reach, Linking
  <2>2. ASSUME NEW S \in SUBSET Pages, a \in S, ClosedIn(f, S)
        PROVE  f[p] \in S
    <3>1. p \in S
      BY <2>2 DEF Reach
    <3>2. QED BY <1>1, <2>2, <3>1 DEF ClosedIn
  <2>3. QED BY <2>1, <2>2 DEF Reach
<1>2. QED BY <1>1 DEF Reach, ClosedIn

LEMMA ReachLeast ==
  ASSUME NEW f, NEW a, NEW S \in SUBSET Pages, a \in S, ClosedIn(f, S)
  PROVE  Reach(f, a) \subseteq S
BY DEF Reach

\* A page without successor is a chain of its own.
LEMMA ReachAlone ==
  ASSUME NEW f \in Linking, NEW a \in Pages, f[a] = NULL
  PROVE  Reach(f, a) = {a}
<1>1. {a} \in SUBSET Pages /\ ClosedIn(f, {a})
  BY DEF ClosedIn
<1>2. Reach(f, a) \subseteq {a}
  BY <1>1, ReachLeast
<1>3. QED BY <1>2, ReachClosed

\* A chain whose links are kept stays as it is.
LEMMA ReachSame ==
  ASSUME NEW f \in Linking, NEW g \in Linking, NEW a \in Pages,
         \A p \in Reach(f, a) : g[p] = f[p]
  PROVE  Reach(g, a) = Reach(f, a)
<1>1. /\ a \in Reach(f, a) /\ Reach(f, a) \in SUBSET Pages /\ ClosedIn(f, Reach(f, a))
      /\ a \in Reach(g, a) /\ Reach(g, a) \in SUBSET Pages /\ ClosedIn(g, Reach(g, a))
  BY ReachClosed
<1>2. Reach(g, a) \subseteq Reach(f, a)
  <2>1. ClosedIn(g, Reach(f, a))
    BY <1>1 DEF ClosedIn
  <2>2. QED BY <1>1, <2>1, ReachLeast
<1>3. Reach(f, a) \subseteq Reach(g, a)
  <2>1. ClosedIn(f, Reach(g, a))
    BY <1>1, <1>2 DEF ClosedIn
  <2>2. QED BY <1>1, <2>1, ReachLeast
<1>4. QED BY <1>2, <1>3

\* A new link at a page t of the chain: t stays in the chain, the new successor n
\* enters it with no more than what n leads to, and nothing leaves it when t was
\* the last.
LEMMA ReachRelinked ==
  ASSUME NEW f \in Linking, NEW a \in Pages, NEW t \in Reach(f, a),
         NEW n \in Pages \cup {NULL}, NEW D \in SUBSET Pages,
         ClosedIn(f, D), n # NULL => n \in D,
         NEW g \in Linking, g[t] = n, \A p \in Pages \ {t} : g[p] = f[p]
  PROVE  /\ t \in Reach(g, a)
         /\ n # NULL => n \in Reach(g, a)
         /\ Reach(g, a) \subseteq Reach(f, a) \cup D
         /\ f[t] = NULL => Reach(f, a) \subseteq Reach(g, a)
<1>1. /\ a \in Reach(f, a) /\ Reach(f, a) \in SUBSET Pages /\ ClosedIn(f, Reach(f, a))
      /\ t \in Pages
  BY ReachClosed
<1>2. g \in Linking /\ g[t] = n /\ \A p \in Pages \ {t} : g[p] = f[p]
  OBVIOUS
<1>3. a \in Reach(g, a) /\ Reach(g, a) \in SUBSET Pages /\ ClosedIn(g, Reach(g, a))
  BY <1>2, ReachClosed
<1>4. t \in Reach(g, a)
  <2>1. SUFFICES ASSUME t \notin Reach(g, a) PROVE FALSE
    OBVIOUS
  <2>2. ClosedIn(f, Reach(g, a))
    BY <1>2, <1>3, <2>1 DEF ClosedIn
  <2>3. Reach(f, a) \subseteq Reach(g, a)
    BY <1>3, <2>2, ReachLeast
  <2>4. QED BY <2>1, <2>3
<1>5. n # NULL => n \in Reach(g, a)
  BY <1>2, <1>3, <1>4 DEF ClosedIn
<1>6. Reach(g, a) \subseteq Reach(f, a) \cup D
  <2>1. ClosedIn(g, Reach(f, a) \cup D)
    BY <1>1, <1>2 DEF ClosedIn
  <2>2. a \in Reach(f, a) \cup D /\ Reach(f, a) \cup D \in SUBSET Pages
    BY <1>1
  <2>3. QED BY <2>1, <2>2, ReachLeast
<1>7. ASSUME f[t] = NULL PROVE Reach(f, a) \subseteq Reach(g, a)
  <2>1. ClosedIn(f, Reach(g, a))
    BY <1>2, <1>3, <1>7 DEF ClosedIn
  <2>2. QED BY <1>3, <2>1, ReachLeast
<1>8. QED BY <1>2, <1>4, <1>5, <1>6, <1>7

\* The chains of the model are these, before a step and after it.
LEMMA ChainNow ==
  ASSUME NEW a
  PROVE  Chain(a) = Reach(next, a)
BY DEF Chain, Closed, Reach, ClosedIn

LEMMA ChainNext ==
  ASSUME NEW a
  PROVE  Chain(a)' = Reach(next', a)
BY DEF Chain, Closed, Reach, ClosedIn

LEMMA SameChain ==
  ASSUME UNCHANGED next, NEW a
  PROVE  Chain(a)' = Chain(a)
BY DEF Chain, Closed

-----------------------------------------------------------------------------
(* The first state                                                         *)

LEMMA InitIInv == Init => IInv
<1> SUFFICES ASSUME Init PROVE IInv
  OBVIOUS
<1> USE ArenaAssumption DEF Init
<1>1. TypeOK
  <2>1. /\ next \in [Pages -> Pages \cup {NULL}] /\ prev \in [Pages -> Pages \cup {NULL}]
        /\ size \in [Pages -> Nat] /\ capacity \in [Pages -> Nat]
        /\ base \in [Pages -> Bases \cup {0}]
        /\ \A p \in Pages : size[p] <= capacity[p]
    OBVIOUS
  <2>2. /\ made \in 0 .. MaxPages /\ live \subseteq 1 .. made /\ heads \subseteq live
        /\ blocks \subseteq Block /\ call \in Call \cup {NULL, ABORTED}
    OBVIOUS
  <2>3. grafted \in BOOLEAN /\ wrapped \subseteq Pages
    OBVIOUS
  <2>4. QED BY <2>1, <2>2, <2>3 DEF TypeOK
<1>2. Chains /\ Fresh /\ CallSound /\ BlocksSound /\ BlocksAtHome
  BY DEF Chains, Fresh, CallSound, BlocksSound, BlocksAtHome, Allocating
<1>3. Ungrafted
  BY DEF Ungrafted
<1>4. Enlarged
  BY DEF Enlarged
<1>5. QED BY <1>1, <1>2, <1>3, <1>4 DEF IInv

-----------------------------------------------------------------------------
(* What the steps share                                                    *)

\* An allocation in progress has an arena and a page, a size and an alignment.
LEMMA CallType ==
  ASSUME TypeOK, Allocating
  PROVE  /\ call \in Call
         /\ call.arena \in Pages /\ call.page \in Pages
         /\ call.sz \in 1 .. SizeSpace - 1 /\ call.align \in 1 .. DefPage
         /\ Offset \in 0 .. call.align - 1
         /\ Used \in 0 .. SizeSpace - 1
         /\ call.sz + call.align <= SizeSpace => Used = call.sz + Offset
<1>1. call \in Call
  BY DEF TypeOK, Allocating
<1>2. /\ call.arena \in Pages /\ call.page \in Pages
      /\ call.sz \in 1 .. SizeSpace - 1 /\ call.align \in 1 .. DefPage
  BY <1>1, ArenaAssumption DEF Call
<1>3. base[call.page] \in Nat /\ size[call.page] \in Nat
  BY <1>2, ArenaAssumption DEF TypeOK
<1>4. /\ SizeSpace \in Nat \ {0} /\ call.sz \in Nat \ {0} /\ call.align \in Nat \ {0}
      /\ DefPage \in Nat
  BY <1>2, ArenaAssumption
<1> DEFINE x == -(base[call.page] + size[call.page])
<1>5. x \in Int
  BY <1>3
<1> HIDE DEF x
<1>6. x % call.align \in 0 .. call.align - 1
  BY <1>4, <1>5, ModRange
<1>7. Offset \in 0 .. call.align - 1
  BY <1>6 DEF Offset, x
<1> DEFINE y == call.sz + Offset
<1>8. y \in Int /\ y \in Nat
  BY <1>4, <1>7
<1>9. y % SizeSpace \in 0 .. SizeSpace - 1
  <2> HIDE DEF y
  <2>1. QED BY <1>4, <1>8, ModRange
<1>10. ASSUME call.sz + call.align <= SizeSpace
       PROVE  y % SizeSpace = y
  <2>1. y \in 0 .. SizeSpace - 1
    BY <1>4, <1>7, <1>10
  <2> HIDE DEF y
  <2>2. QED BY <1>4, <2>1, SmallMod
<1>11. QED BY <1>1, <1>2, <1>7, <1>9, <1>10 DEF Used

\* Sums that do not wrap are those of the integers.
LEMMA StraightSums ==
  ASSUME TypeOK, Allocating, Straight
  PROVE  /\ Used = call.sz + Offset
         /\ (size[call.page] + Used) % SizeSpace = size[call.page] + Used
<1>1. /\ call.page \in Pages /\ call.sz \in Nat \ {0} /\ Offset \in Nat
      /\ SizeSpace \in Nat \ {0}
  <2>1. /\ call.page \in Pages /\ call.sz \in 1 .. SizeSpace - 1
        /\ call.align \in 1 .. DefPage /\ Offset \in 0 .. call.align - 1
    BY CallType
  <2>2. QED BY <2>1, ArenaAssumption
<1>2. size[call.page] \in Nat
  BY <1>1 DEF TypeOK
<1>3. call.sz + Offset \in 0 .. SizeSpace - 1
  BY <1>1, <1>2 DEF Straight
<1>4. Used = call.sz + Offset
  BY <1>1, <1>3, SmallMod DEF Used
<1>5. size[call.page] + Used \in 0 .. SizeSpace - 1
  BY <1>1, <1>2, <1>4 DEF Straight
<1>6. QED BY <1>1, <1>4, <1>5, SmallMod

\* The pages of an arena that is not touched.
LEMMA BlocksKept ==
  ASSUME IInv, blocks' \subseteq blocks,
         \A b \in blocks' : /\ b.page \in live' /\ b.arena \in heads'
                            /\ base'[b.page] = base[b.page] /\ size'[b.page] = size[b.page]
                            /\ b.page \notin wrapped' => b.page \notin wrapped
  PROVE  BlocksSound'
<1>1. ASSUME NEW b \in blocks'
      PROVE  /\ b.page \in live' /\ b.arena \in heads'
             /\ (base'[b.page] + b.from) % b.align = 0
             /\ b.page \notin wrapped' =>
                  /\ b.to <= size'[b.page]
                  /\ \A c \in blocks' \ {b} :
                       c.page = b.page => b.to <= c.from \/ c.to <= b.from
  <2>1. /\ (base[b.page] + b.from) % b.align = 0
        /\ b.page \notin wrapped =>
             /\ b.to <= size[b.page]
             /\ \A c \in blocks \ {b} : c.page = b.page => b.to <= c.from \/ c.to <= b.from
    BY DEF IInv, BlocksSound
  <2>2. /\ b.page \in live' /\ b.arena \in heads'
        /\ base'[b.page] = base[b.page] /\ size'[b.page] = size[b.page]
        /\ b.page \notin wrapped' => b.page \notin wrapped
    OBVIOUS
  <2>3. QED BY <2>1, <2>2
<1>2. QED BY <1>1 DEF BlocksSound

\* malloc returns a page nobody has.
LEMMA PageIsNew ==
  ASSUME IInv, NEW cap \in Nat, NewPage(cap), NEW n, n = made + 1
  PROVE  /\ n \in Pages /\ n \notin live /\ next[n] = NULL
         /\ live' = live \cup {n} /\ made' = n
         /\ made \in 0 .. MaxPages /\ n \in 0 .. MaxPages
         /\ size' \in [Pages -> Nat] /\ capacity' \in [Pages -> Nat]
         /\ base' \in [Pages -> Bases \cup {0}]
         /\ size'[n] = 0 /\ capacity'[n] = cap
         /\ \A p \in Pages \ {n} :
              size'[p] = size[p] /\ capacity'[p] = capacity[p] /\ base'[p] = base[p]
         /\ live' \subseteq 1 .. made' /\ live \subseteq Pages
         /\ \A p \in Pages : size'[p] <= capacity'[p]
<1> USE DEF NewPage
<1>1. /\ n \in Pages /\ made \in 0 .. MaxPages /\ n \in 0 .. MaxPages
      /\ n \notin live /\ live \subseteq Pages /\ live' \subseteq 1 .. made'
  BY ArenaAssumption DEF IInv, TypeOK, Pages
<1>2. next[n] = NULL
  BY <1>1 DEF IInv, Fresh
<1>3. /\ size' \in [Pages -> Nat] /\ capacity' \in [Pages -> Nat]
      /\ base' \in [Pages -> Bases \cup {0}]
      /\ size'[n] = 0 /\ capacity'[n] = cap
      /\ \A p \in Pages \ {n} :
           size'[p] = size[p] /\ capacity'[p] = capacity[p] /\ base'[p] = base[p]
  BY <1>1 DEF IInv, TypeOK
<1>4. \A p \in Pages : size'[p] <= capacity'[p]
  BY <1>1, <1>3 DEF IInv, TypeOK
<1>5. QED BY <1>1, <1>2, <1>3, <1>4

-----------------------------------------------------------------------------
(* A new arena                                                             *)

LEMMA CreateArenaStep ==
  ASSUME IInv, CreateArena
  PROVE  IInv'
<1>0. PICK n : n = made + 1
  OBVIOUS
<1>1. /\ n \in Pages /\ n \notin live /\ next[n] = NULL
      /\ live' = live \cup {n} /\ made' = n /\ made \in 0 .. MaxPages /\ n \in 0 .. MaxPages
      /\ size' \in [Pages -> Nat] /\ capacity' \in [Pages -> Nat]
      /\ base' \in [Pages -> Bases \cup {0}]
      /\ size'[n] = 0 /\ capacity'[n] = DefPage
      /\ \A p \in Pages \ {n} :
           size'[p] = size[p] /\ capacity'[p] = capacity[p] /\ base'[p] = base[p]
      /\ live' \subseteq 1 .. made' /\ live \subseteq Pages
      /\ \A p \in Pages : size'[p] <= capacity'[p]
  BY <1>0, PageIsNew, ArenaAssumption DEF CreateArena
<1>2. /\ prev' = [prev EXCEPT ![n] = n] /\ heads' = heads \cup {n}
      /\ UNCHANGED <<next, blocks, call, grafted, wrapped>>
      /\ Idle /\ ~Allocating /\ ~Allocating'
  BY <1>0 DEF CreateArena, Idle, Allocating
<1>3. TypeOK'
  BY <1>1, <1>2 DEF IInv, TypeOK
<1>4. heads \subseteq live /\ next \in Linking /\ prev \in Linking /\ n \notin heads
  BY <1>1 DEF IInv, TypeOK, Linking
<1>5. Chain(n)' = {n} /\ \A a : Chain(a)' = Chain(a)
  <2>1. Reach(next, n) = {n}
    BY <1>1, <1>4, ReachAlone
  <2>2. QED BY <1>2, <2>1, ChainNow, SameChain
<1>6. prev'[n] = n /\ \A a \in heads : prev'[a] = prev[a]
  BY <1>1, <1>2, <1>4 DEF Linking
<1>7. Chains'
  BY <1>1, <1>2, <1>4, <1>5, <1>6 DEF IInv, Chains
<1>8. Fresh'
  BY <1>0, <1>1, <1>2 DEF IInv, Fresh, Pages
<1>9. CallSound'
  BY <1>2 DEF CallSound
<1>10. Ungrafted'
  <2> SUFFICES ASSUME ~grafted
               PROVE  /\ \A p \in live' : \E a \in heads' : p \in Chain(a)'
                      /\ \A a \in heads' : next'[prev'[a]] = NULL
    BY <1>2 DEF Ungrafted
  <2>1. /\ \A p \in live : \E a \in heads : p \in Chain(a)
        /\ \A a \in heads : next[prev[a]] = NULL
    BY DEF IInv, Ungrafted
  <2>2. \A p \in live' : \E a \in heads' : p \in Chain(a)'
    BY <1>1, <1>2, <1>5, <2>1
  <2>3. QED BY <1>1, <1>2, <1>6, <2>1, <2>2
<1>11. BlocksSound'
  <2>1. \A b \in blocks' : /\ b.page \in live' /\ b.arena \in heads'
                           /\ base'[b.page] = base[b.page] /\ size'[b.page] = size[b.page]
                           /\ b.page \notin wrapped' => b.page \notin wrapped
    BY <1>1, <1>2 DEF IInv, BlocksSound
  <2>2. QED BY <1>2, <2>1, BlocksKept
<1>12. BlocksAtHome'
  BY <1>1, <1>2, <1>5 DEF IInv, BlocksAtHome, BlocksSound
<1>13. Enlarged'
  BY <1>1, <1>2, <1>4, ArenaAssumption DEF IInv, TypeOK, Enlarged
<1>14. QED BY <1>3, <1>7, <1>8, <1>9, <1>10, <1>11, <1>12, <1>13 DEF IInv

-----------------------------------------------------------------------------
(* An allocation                                                           *)

\* Only the call changes.
LEMMA CallStep ==
  ASSUME IInv,
         UNCHANGED <<links, sizes, made, live, heads, blocks, grafted, wrapped>>,
         TypeOK', CallSound', Enlarged'
  PROVE  IInv'
<1> USE DEF IInv, links, sizes
<1>1. \A a : Chain(a)' = Chain(a)
  BY SameChain
<1>2. Chains' /\ Fresh'
  BY <1>1 DEF Chains, Fresh
<1>3. Ungrafted'
  BY <1>1 DEF Ungrafted
<1>4. BlocksSound' /\ BlocksAtHome'
  BY <1>1 DEF BlocksSound, BlocksAtHome
<1>5. QED BY <1>2, <1>3, <1>4

\* The page looked at has no enlarged and empty page's room to spare: such a page
\* takes the block it was enlarged for.
LEMMA EnlargedFits ==
  ASSUME IInv, Allocating, size[call.page] = 0, capacity[call.page] > DefPage,
         call.page \notin wrapped
  PROVE  Fits
<1>1. /\ call.page \in Pages /\ Used \in 0 .. SizeSpace - 1
      /\ call.sz \in 1 .. SizeSpace - 1 /\ call.align \in 1 .. DefPage
      /\ Offset \in 0 .. call.align - 1
      /\ call.sz + call.align <= SizeSpace => Used = call.sz + Offset
  BY CallType DEF IInv
<1>2. capacity[call.page] = call.sz + call.align - 1 /\ capacity[call.page] < SizeSpace
  BY <1>1 DEF IInv, Enlarged
<1>3. SizeSpace \in Nat \ {0} /\ DefPage \in Nat
  BY ArenaAssumption
<1>4. Used <= capacity[call.page]
  BY <1>1, <1>2, <1>3
<1>5. (size[call.page] + Used) % SizeSpace = Used
  <2>1. size[call.page] + Used = Used
    BY <1>1
  <2>2. Used % SizeSpace = Used
    BY <1>1, <1>3, SmallMod
  <2>3. QED BY <2>1, <2>2
<1>6. QED BY <1>4, <1>5 DEF Fits

\* Nothing is enlarged where the search leaves a page, or gives up.
LEMMA NoneEnlarged ==
  ASSUME IInv, ~Allocating \/ ~Fits, NEW p \in Pages, size[p] = 0, p \notin wrapped
  PROVE  ~(capacity[p] > DefPage)
BY EnlargedFits DEF IInv, Enlarged

LEMMA AllocStartStep ==
  ASSUME IInv, NEW a \in heads, NEW sz \in Sizes, NEW align \in Aligns, Alloc(a, sz, align)
  PROVE  IInv'
<1>1. /\ call' = [arena |-> a, page |-> a, sz |-> sz, align |-> align]
      /\ UNCHANGED <<links, sizes, made, live, heads, blocks, grafted, wrapped>> /\ ~Allocating
  BY DEF Alloc, Idle, Allocating
<1>2. a \in Pages /\ next \in Linking
  BY ArenaAssumption DEF IInv, TypeOK, Pages, Linking
<1>3. call' \in Call
  BY <1>1, <1>2 DEF Call
<1>4. TypeOK'
  BY <1>1, <1>3 DEF IInv, TypeOK, links, sizes
<1>5. a \in Chain(a)' /\ a \in heads'
  BY <1>1, <1>2, ReachClosed, ChainNow, SameChain DEF links
<1>6. CallSound'
  BY <1>1, <1>5, SameChain DEF CallSound, links
<1>7. \A p \in Pages : size[p] = 0 /\ p \notin wrapped => ~(capacity[p] > DefPage)
  BY <1>1, NoneEnlarged
<1>8. Enlarged'
  BY <1>1, <1>7 DEF IInv, Enlarged, sizes
<1>9. QED BY <1>1, <1>4, <1>6, <1>8, CallStep

LEMMA NextPageStep ==
  ASSUME IInv, NextPage
  PROVE  IInv'
<1>1. /\ call' = [call EXCEPT !.page = next[call.page]] /\ Allocating /\ ~Fits
      /\ next[call.page] # NULL
      /\ UNCHANGED <<links, sizes, made, live, heads, blocks, grafted, wrapped>>
  BY DEF NextPage
<1>2. call \in Call /\ call.arena \in Pages /\ call.page \in Pages /\ next \in Linking
  BY <1>1, CallType DEF IInv, TypeOK, Linking
<1>3. next[call.page] \in Pages
  BY <1>1, <1>2 DEF Linking
<1>4. /\ call' \in Call /\ call'.arena = call.arena /\ call'.page = next[call.page]
  BY <1>1, <1>2, <1>3 DEF Call
<1>5. TypeOK'
  BY <1>1, <1>4 DEF IInv, TypeOK, links, sizes
<1>6. PICK a \in heads : a = call.arena /\ call.page \in Chain(a)
  BY <1>1 DEF IInv, CallSound
<1>7. next[call.page] \in Chain(a)
  BY <1>1, <1>2, <1>6, ReachClosed, ChainNow DEF ClosedIn
<1>8. Chain(call.arena)' = Chain(a)
  <2>1. call'.arena = a
    BY <1>4, <1>6
  <2>2. QED BY <1>1, <2>1, SameChain DEF Chain, Closed, links
<1>9. CallSound'
  BY <1>1, <1>4, <1>6, <1>7, <1>8 DEF CallSound
<1>10. \A p \in Pages : size[p] = 0 /\ p \notin wrapped => ~(capacity[p] > DefPage)
  BY <1>1, NoneEnlarged
<1>11. Enlarged'
  BY <1>1, <1>10 DEF IInv, Enlarged, sizes
<1>12. QED BY <1>1, <1>5, <1>9, <1>11, CallStep

\* The call ends without a block: no memory, or the assertion.
LEMMA GiveUpStep ==
  ASSUME IInv, ~Fits, call' \in {NULL, ABORTED},
         UNCHANGED <<links, sizes, made, live, heads, blocks, grafted, wrapped>>
  PROVE  IInv'
<1>1. TypeOK'
  BY DEF IInv, TypeOK, links, sizes
<1>2. CallSound'
  BY DEF CallSound, Allocating
<1>3. \A p \in Pages : size[p] = 0 /\ p \notin wrapped => ~(capacity[p] > DefPage)
  BY NoneEnlarged
<1>4. Enlarged'
  BY <1>3 DEF IInv, Enlarged, sizes
<1>5. QED BY <1>1, <1>2, <1>4, CallStep

\* The block handed out is aligned and, if no sum wraps, lies behind all the
\* page's others and within what the page is then filled to.
LEMMA NewBlock ==
  ASSUME IInv, AllocDone
  PROVE  \E b \in Block :
           /\ b.arena = call.arena /\ b.page = call.page
           /\ (base[b.page] + b.from) % b.align = 0
           /\ size[b.page] <= b.from
           /\ Straight => b.to = (size[b.page] + Used) % SizeSpace /\ b.to > size[b.page]
           /\ blocks' = blocks \cup {b}
<1> DEFINE from == size[call.page] + Offset
           b == [arena |-> call.arena, page |-> call.page, from |-> from,
                 to |-> from + call.sz, align |-> call.align]
<1>1. Allocating /\ blocks' = blocks \cup {b}
  BY DEF AllocDone
<1>2. /\ call \in Call /\ call.arena \in Pages /\ call.page \in Pages
      /\ call.sz \in Nat \ {0} /\ call.align \in Nat \ {0}
      /\ Offset \in 0 .. call.align - 1
  <2>1. /\ call \in Call /\ call.arena \in Pages /\ call.page \in Pages
        /\ call.sz \in 1 .. SizeSpace - 1 /\ call.align \in 1 .. DefPage
        /\ Offset \in 0 .. call.align - 1
    BY <1>1, CallType DEF IInv
  <2>2. QED BY <2>1, ArenaAssumption
<1>3. size[call.page] \in Nat /\ base[call.page] \in Nat
  BY <1>2, ArenaAssumption DEF IInv, TypeOK
<1>4. from \in Nat /\ from + call.sz \in Nat /\ size[call.page] <= from
  BY <1>2, <1>3
<1>5. call.align \in Aligns
  BY <1>2 DEF Call
<1>6. (base[call.page] + from) % call.align = 0
  <2> DEFINE x == base[call.page] + size[call.page]
  <2>1. x \in Int /\ base[call.page] + from = x + Offset
    BY <1>2, <1>3
  <2>2. Offset = (-x) % call.align
    BY DEF Offset
  <2> HIDE DEF x
  <2>3. (x + ((-x) % call.align)) % call.align = 0
    BY <1>2, <2>1, PaddingAligns
  <2>4. QED BY <2>1, <2>2, <2>3
<1>7. ASSUME Straight
      PROVE  /\ from + call.sz = (size[call.page] + Used) % SizeSpace
             /\ from + call.sz > size[call.page]
  <2>1. Used = call.sz + Offset /\ (size[call.page] + Used) % SizeSpace = size[call.page] + Used
    BY <1>1, <1>7, StraightSums DEF IInv
  <2>2. from + call.sz = size[call.page] + Used
    BY <1>2, <1>3, <2>1
  <2>3. from + call.sz > size[call.page]
    BY <1>2, <1>3
  <2>4. QED BY <2>1, <2>2, <2>3
<1> HIDE DEF from
<1>8. b \in Block
  BY <1>2, <1>4, <1>5 DEF Block
<1>9. QED BY <1>1, <1>4, <1>6, <1>7, <1>8

LEMMA AllocDoneStep ==
  ASSUME IInv, AllocDone
  PROVE  IInv'
<1> DEFINE sum == (size[call.page] + Used) % SizeSpace
<1>1. /\ Allocating /\ sum <= capacity[call.page] /\ call' = NULL /\ ~Allocating'
      /\ size' = [size EXCEPT ![call.page] = sum]
      /\ UNCHANGED <<links, capacity, base, made, live, heads, grafted>>
  BY DEF AllocDone, Fits, Allocating
<1>2. PICK b \in Block :
        /\ b.arena = call.arena /\ b.page = call.page
        /\ (base[b.page] + b.from) % b.align = 0
        /\ size[b.page] <= b.from
        /\ Straight => b.to = sum /\ b.to > size[b.page]
        /\ blocks' = blocks \cup {b}
  BY NewBlock
<1>3. wrapped' = (IF Straight THEN wrapped ELSE wrapped \cup {b.page})
  BY <1>2 DEF AllocDone
<1>4. /\ b.page \in Pages /\ sum \in Nat
      /\ size' \in [Pages -> Nat] /\ size'[b.page] = sum /\ sum <= capacity[b.page]
      /\ \A p \in Pages \ {b.page} : size'[p] = size[p]
      /\ size[b.page] \in Nat
  <2>1. call.page \in Pages /\ Used \in 0 .. SizeSpace - 1 /\ SizeSpace \in Nat \ {0}
    BY <1>1, CallType, ArenaAssumption DEF IInv
  <2>2. size \in [Pages -> Nat] /\ size[call.page] + Used \in Int
    BY <2>1 DEF IInv, TypeOK
  <2>3. sum \in 0 .. SizeSpace - 1
    BY <2>1, <2>2, ModRange
  <2> HIDE DEF sum
  <2>4. QED BY <1>1, <1>2, <2>1, <2>2, <2>3
<1> HIDE DEF sum
<1>5. TypeOK'
  <2>1. \A p \in Pages : size'[p] <= capacity'[p]
    BY <1>1, <1>4 DEF IInv, TypeOK
  <2>2. blocks' \subseteq Block /\ wrapped' \subseteq Pages
    BY <1>2, <1>3, <1>4 DEF IInv, TypeOK
  <2>3. QED BY <1>1, <1>4, <2>1, <2>2 DEF IInv, TypeOK, links
<1>6. \A a : Chain(a)' = Chain(a)
  BY <1>1, SameChain DEF links
<1>7. Chains' /\ Fresh' /\ CallSound' /\ Ungrafted'
  BY <1>1, <1>6 DEF IInv, Chains, Fresh, CallSound, Ungrafted, links
<1>8. b.arena \in heads /\ b.page \in Chain(b.arena) /\ b.page \in live
  BY <1>1, <1>2 DEF IInv, CallSound, Chains
<1>9. BlocksAtHome'
  <2>1. \A a \in heads \ {b.arena} : b.page \notin Chain(a)
    BY <1>8 DEF IInv, Chains
  <2>2. QED BY <1>1, <1>2, <1>6, <2>1 DEF IInv, BlocksAtHome
<1>10. \A c \in blocks : c.page = b.page /\ b.page \notin wrapped => c.to <= b.from
  <2>1. ASSUME NEW c \in blocks, c.page = b.page, b.page \notin wrapped
        PROVE  c.to <= b.from
    <3>1. c.to <= size[b.page] /\ c.to \in Nat /\ b.from \in Nat
      BY <2>1 DEF IInv, BlocksSound, TypeOK, Block
    <3>2. QED BY <1>2, <1>4, <3>1
  <2>2. QED BY <2>1
<1>11. BlocksSound'
  <2>1. \A c \in blocks : c.page \notin wrapped' => c.to <= size'[c.page]
    <3>1. ASSUME NEW c \in blocks, c.page \notin wrapped'
          PROVE  c.to <= size'[c.page]
      <4>1. c.page \notin wrapped
        BY <1>3, <3>1
      <4>2. c.to \in Nat /\ c.page \in Pages /\ c.to <= size[c.page] /\ size[c.page] \in Nat
        BY <4>1 DEF IInv, TypeOK, BlocksSound, Block
      <4>3. CASE c.page = b.page
        <5>1. Straight /\ b.to = sum /\ b.to > size[b.page]
          BY <1>2, <1>3, <3>1, <4>3
        <5>2. QED BY <1>4, <4>2, <4>3, <5>1
      <4>4. CASE c.page # b.page
        BY <1>4, <4>2, <4>4
      <4>5. QED BY <4>3, <4>4
    <3>2. QED BY <3>1
  <2>2. b.page \notin wrapped' => b.to <= size'[b.page]
    BY <1>2, <1>3, <1>4
  <2>3. \A c, d \in blocks' : c # d /\ c.page = d.page /\ c.page \notin wrapped'
                             => c.to <= d.from \/ d.to <= c.from
    <3>1. wrapped \subseteq wrapped'
      BY <1>3
    <3>2. \A c, d \in blocks : c # d /\ c.page = d.page /\ c.page \notin wrapped
                               => c.to <= d.from \/ d.to <= c.from
      BY DEF IInv, BlocksSound
    <3>3. QED BY <1>2, <1>10, <3>1, <3>2
  <2>4. \A c \in blocks' : c.page \in live' /\ c.arena \in heads'
                           /\ (base'[c.page] + c.from) % c.align = 0
    BY <1>1, <1>2, <1>8 DEF IInv, BlocksSound
  <2>5. QED BY <1>2, <2>1, <2>2, <2>3, <2>4 DEF BlocksSound
<1>12. Enlarged'
  <2>1. ASSUME NEW p \in Pages, size'[p] = 0, p \notin wrapped'
        PROVE  ~(capacity[p] > DefPage)
    <3>1. CASE p = b.page
      <4>1. Straight /\ b.to = sum /\ b.to > size[b.page] /\ b.to \in Nat
        BY <1>2, <1>3, <2>1, <3>1 DEF Block
      <4>2. QED BY <1>4, <2>1, <3>1, <4>1
    <3>2. CASE p # b.page
      <4>1. size[p] = 0 /\ p \notin wrapped
        BY <1>3, <1>4, <2>1, <3>2
      <4>2. QED BY <1>2, <3>2, <4>1 DEF IInv, Enlarged
    <3>3. QED BY <3>1, <3>2
  <2>2. QED BY <1>1, <2>1 DEF IInv, Enlarged
<1>13. QED BY <1>5, <1>7, <1>9, <1>11, <1>12 DEF IInv

-----------------------------------------------------------------------------
(* Pages added and taken away                                              *)

\* A new successor n of the page the head a calls last: only a's chain changes.
LEMMA Relinked ==
  ASSUME IInv, NEW a \in heads, NEW n \in Pages \cup {NULL},
         NEW D \in SUBSET Pages, ClosedIn(next, D), n # NULL => n \in D,
         next' = [next EXCEPT ![prev[a]] = n]
  PROVE  /\ next' \in Linking /\ prev[a] \in Chain(a) /\ prev[a] \in Pages
         /\ next'[prev[a]] = n /\ \A p \in Pages \ {prev[a]} : next'[p] = next[p]
         /\ prev[a] \in Chain(a)'
         /\ n # NULL => n \in Chain(a)'
         /\ Chain(a)' \subseteq Chain(a) \cup D
         /\ next[prev[a]] = NULL => Chain(a) \subseteq Chain(a)'
         /\ \A b \in heads \ {a} : Chain(b)' = Chain(b)
<1>1. PICK t : t = prev[a]
  OBVIOUS
<1>2. /\ next \in Linking /\ a \in Pages /\ t \in Reach(next, a) /\ t \in Pages
      /\ heads \subseteq Pages
  <2>1. t \in Chain(a)
    BY <1>1 DEF IInv, Chains
  <2>2. heads \subseteq Pages
    BY ArenaAssumption DEF IInv, TypeOK, Pages
  <2>3. next \in Linking
    BY DEF IInv, TypeOK, Linking
  <2>4. QED BY <2>1, <2>2, <2>3, ChainNow, ReachClosed
<1>3. PICK g : g = next'
  OBVIOUS
<1>4. g = [next EXCEPT ![t] = n]
  BY <1>1, <1>3
<1>5. g \in Linking /\ g[t] = n /\ \A p \in Pages \ {t} : g[p] = next[p]
  BY <1>2, <1>4 DEF Linking
<1>6. /\ t \in Reach(g, a)
      /\ n # NULL => n \in Reach(g, a)
      /\ Reach(g, a) \subseteq Reach(next, a) \cup D
      /\ next[t] = NULL => Reach(next, a) \subseteq Reach(g, a)
  <2>1. PICK f : f = next
    OBVIOUS
  <2>2. f \in Linking /\ t \in Reach(f, a) /\ ClosedIn(f, D)
        /\ \A p \in Pages \ {t} : g[p] = f[p]
    BY <1>2, <1>5, <2>1
  <2>3. /\ t \in Reach(g, a)
        /\ n # NULL => n \in Reach(g, a)
        /\ Reach(g, a) \subseteq Reach(f, a) \cup D
        /\ f[t] = NULL => Reach(f, a) \subseteq Reach(g, a)
    BY <1>2, <1>5, <2>2, ReachRelinked
  <2>4. QED BY <2>1, <2>3
<1>7. ASSUME NEW b \in heads \ {a}
      PROVE  Chain(b)' = Chain(b)
  <2>1. b \in Pages /\ t \notin Chain(b) /\ Chain(b) \subseteq Pages
    <3>1. Chain(a) \cap Chain(b) = {} /\ t \in Chain(a)
      BY <1>1 DEF IInv, Chains
    <3>2. QED BY <1>2, <3>1 DEF Chain
  <2>2. \A p \in Reach(next, b) : g[p] = next[p]
    BY <1>5, <2>1, ChainNow
  <2>3. Reach(g, b) = Reach(next, b)
    BY <1>2, <1>5, <2>1, <2>2, ReachSame
  <2>4. QED BY <1>3, <2>3, ChainNow, ChainNext
<1>8. Chain(a) = Reach(next, a) /\ Chain(a)' = Reach(g, a)
  BY <1>3, ChainNow, ChainNext
<1>9. QED BY <1>1, <1>2, <1>3, <1>5, <1>6, <1>7, <1>8

LEMMA GrowFailsStep ==
  ASSUME IInv, GrowFails
  PROVE  IInv'
<1>1. /\ Allocating /\ ~Fits /\ ~Allocating'
      /\ next' = [next EXCEPT ![prev[call.arena]] = NULL] /\ call' = NULL
      /\ UNCHANGED <<prev, sizes, made, live, heads, blocks, grafted, wrapped>>
  BY DEF GrowFails, Allocating
<1>2. PICK a \in heads : a = call.arena
  BY <1>1 DEF IInv, CallSound
<1>3. next' = [next EXCEPT ![prev[a]] = NULL]
  BY <1>1, <1>2
<1>4. /\ next' \in Linking /\ prev[a] \in Chain(a) /\ prev[a] \in Pages
      /\ next'[prev[a]] = NULL /\ \A p \in Pages \ {prev[a]} : next'[p] = next[p]
      /\ prev[a] \in Chain(a)'
      /\ Chain(a)' \subseteq Chain(a)
      /\ next[prev[a]] = NULL => Chain(a) \subseteq Chain(a)'
      /\ \A b \in heads \ {a} : Chain(b)' = Chain(b)
  <2>1. ClosedIn(next, {}) /\ {} \in SUBSET Pages /\ NULL \in Pages \cup {NULL}
    BY DEF ClosedIn
  <2>2. /\ next' \in Linking /\ prev[a] \in Chain(a) /\ prev[a] \in Pages
        /\ next'[prev[a]] = NULL /\ \A p \in Pages \ {prev[a]} : next'[p] = next[p]
        /\ prev[a] \in Chain(a)'
        /\ Chain(a)' \subseteq Chain(a) \cup {}
        /\ next[prev[a]] = NULL => Chain(a) \subseteq Chain(a)'
        /\ \A b \in heads \ {a} : Chain(b)' = Chain(b)
    BY <1>3, <2>1, Relinked, Zenon
  <2>3. QED BY <2>2
<1>5. TypeOK'
  BY <1>1, <1>4 DEF IInv, TypeOK, sizes, Linking
<1>6. Chains'
  BY <1>1, <1>4 DEF IInv, Chains
<1>7. Fresh'
  BY <1>1, <1>4 DEF IInv, Fresh
<1>8. CallSound'
  BY <1>1 DEF CallSound
<1>9. Ungrafted'
  <2> SUFFICES ASSUME ~grafted
               PROVE  /\ \A p \in live : \E b \in heads : p \in Chain(b)'
                      /\ \A b \in heads : next'[prev[b]] = NULL
    BY <1>1 DEF Ungrafted
  <2>1. /\ \A p \in live : \E b \in heads : p \in Chain(b)
        /\ \A b \in heads : next[prev[b]] = NULL
    BY DEF IInv, Ungrafted
  <2>2. \A b \in heads : Chain(b) \subseteq Chain(b)'
    BY <1>4, <2>1
  <2>3. \A b \in heads : prev[b] \in Pages
    BY DEF IInv, Chains, Chain
  <2>4. QED BY <1>4, <2>1, <2>2, <2>3
<1>10. BlocksSound'
  BY <1>1 DEF IInv, BlocksSound, sizes
<1>11. BlocksAtHome'
  BY <1>1, <1>4 DEF IInv, BlocksAtHome
<1>12. Enlarged'
  <2>1. \A p \in Pages : size[p] = 0 /\ p \notin wrapped => ~(capacity[p] > DefPage)
    BY <1>1, NoneEnlarged
  <2>2. QED BY <1>1, <2>1 DEF IInv, Enlarged, sizes
<1>13. QED BY <1>5, <1>6, <1>7, <1>8, <1>9, <1>10, <1>11, <1>12 DEF IInv

LEMMA AddPageStep ==
  ASSUME IInv, AddPage
  PROVE  IInv'
<1>1. /\ Allocating /\ ~Fits /\ NewPage(GrownCap) /\ Asserted
      /\ UNCHANGED <<heads, blocks, grafted, wrapped>>
  BY DEF AddPage
<1>2. PICK n : n = made + 1
  OBVIOUS
<1>3. PICK a \in heads : a = call.arena
  BY <1>1 DEF IInv, CallSound
<1>4. /\ next' = [next EXCEPT ![prev[a]] = n]
      /\ prev' = [prev EXCEPT ![n] = prev[a], ![a] = n]
      /\ call' = [call EXCEPT !.page = n]
  BY <1>2, <1>3 DEF AddPage, Link
<1>5. PICK cap : cap = GrownCap
  OBVIOUS
<1>6. /\ call \in Call /\ call.arena \in Pages
      /\ call.sz \in 1 .. SizeSpace - 1 /\ call.align \in 1 .. DefPage
  BY <1>1, CallType DEF IInv
<1>7. cap \in Nat /\ (cap > DefPage => cap = call.sz + call.align - 1 /\ cap < SizeSpace)
  <2>1. SizeSpace \in Nat /\ DefPage \in 1 .. SizeSpace - 1
    BY ArenaAssumption
  <2>2. CASE Used > DefPage
    <3> DEFINE x == call.sz + call.align - 1
    <3>1. x \in Nat /\ x \in 0 .. 2 * SizeSpace - 1 /\ x - SizeSpace <= DefPage
      BY <1>6, <2>1
    <3>2. cap = x % SizeSpace /\ cap > DefPage
      BY <1>1, <1>5, <2>2 DEF GrownCap, Asserted
    <3> HIDE DEF x
    <3>3. CASE x < SizeSpace
      BY <2>1, <3>1, <3>2, <3>3, SmallMod DEF x
    <3>4. CASE x >= SizeSpace
      <4>1. SizeSpace \in Nat \ {0} /\ x \in SizeSpace .. 2 * SizeSpace - 1
        BY <2>1, <3>1, <3>4
      <4>2. x % SizeSpace = x - SizeSpace
        BY <4>1, WrapsOnce
      <4>3. QED BY <2>1, <3>1, <3>2, <4>2
    <3>5. QED BY <2>1, <3>1, <3>3, <3>4
  <2>3. CASE ~(Used > DefPage)
    BY <1>5, <2>1, <2>3 DEF GrownCap
  <2>4. QED BY <2>2, <2>3
<1>8. NewPage(cap)
  BY <1>1, <1>5 DEF NewPage
<1>9. /\ n \in Pages /\ n \notin live /\ next[n] = NULL
      /\ live' = live \cup {n} /\ made' = n
      /\ made \in 0 .. MaxPages /\ n \in 0 .. MaxPages
      /\ size' \in [Pages -> Nat] /\ capacity' \in [Pages -> Nat]
      /\ base' \in [Pages -> Bases \cup {0}]
      /\ size'[n] = 0 /\ capacity'[n] = cap
      /\ \A p \in Pages \ {n} :
           size'[p] = size[p] /\ capacity'[p] = capacity[p] /\ base'[p] = base[p]
      /\ live' \subseteq 1 .. made' /\ live \subseteq Pages
      /\ \A p \in Pages : size'[p] <= capacity'[p]
  BY <1>2, <1>7, <1>8, PageIsNew
<1>10. n # NULL
  BY <1>9, NullAssumption
<1>11. /\ next' \in Linking /\ prev[a] \in Chain(a) /\ prev[a] \in Pages
       /\ next'[prev[a]] = n /\ \A p \in Pages \ {prev[a]} : next'[p] = next[p]
       /\ n \in Chain(a)'
       /\ Chain(a)' \subseteq Chain(a) \cup {n}
       /\ next[prev[a]] = NULL => Chain(a) \subseteq Chain(a)'
       /\ \A b \in heads \ {a} : Chain(b)' = Chain(b)
  <2>1. ClosedIn(next, {n}) /\ {n} \in SUBSET Pages
    BY <1>9 DEF ClosedIn
  <2>2. QED BY <1>4, <1>9, <1>10, <2>1, Relinked
<1>12. /\ heads \subseteq live /\ prev' \in Linking
       /\ prev'[a] = n /\ \A b \in heads \ {a} : prev'[b] = prev[b]
  <2>1. heads \subseteq live /\ prev \in Linking
    BY DEF IInv, TypeOK, Linking
  <2>2. QED BY <1>4, <1>9, <1>11, <2>1 DEF Linking
<1>13. call' \in Call /\ call'.arena = a /\ call'.page = n
       /\ call'.sz = call.sz /\ call'.align = call.align
  BY <1>3, <1>4, <1>6, <1>9 DEF Call
<1>14. TypeOK'
  BY <1>1, <1>9, <1>11, <1>12, <1>13 DEF IInv, TypeOK, Linking
<1>15. Chains'
  <2>1. \A b \in heads : Chain(b) \subseteq live /\ n \notin Chain(b)
    BY <1>9 DEF IInv, Chains
  <2>2. \A b \in heads : Chain(b)' \subseteq live' /\ prev'[b] \in Chain(b)'
    BY <1>9, <1>11, <1>12, <2>1 DEF IInv, Chains
  <2>3. \A b \in heads : \A c \in heads \ {b} : Chain(b)' \cap Chain(c)' = {}
    BY <1>11, <2>1 DEF IInv, Chains
  <2>4. QED BY <1>1, <2>2, <2>3 DEF Chains
<1>16. Fresh'
  <2>1. prev[a] \in live
    BY <1>11 DEF IInv, Chains
  <2>2. prev[a] \in 1 .. made
    BY <2>1 DEF IInv, TypeOK
  <2>3. QED BY <1>2, <1>9, <1>11, <2>2 DEF IInv, Fresh, Pages
<1>17. CallSound'
  <2>1. Chain(call.arena)' = Chain(a)'
    BY <1>13 DEF Chain, Closed
  <2>2. QED BY <1>1, <1>11, <1>13, <2>1 DEF CallSound
<1>18. Ungrafted'
  <2> SUFFICES ASSUME ~grafted
               PROVE  /\ \A p \in live' : \E b \in heads : p \in Chain(b)'
                      /\ \A b \in heads : next'[prev'[b]] = NULL
    BY <1>1 DEF Ungrafted
  <2>1. /\ \A p \in live : \E b \in heads : p \in Chain(b)
        /\ \A b \in heads : next[prev[b]] = NULL
    BY DEF IInv, Ungrafted
  <2>2. \A b \in heads : Chain(b) \subseteq Chain(b)'
    BY <1>11, <2>1
  <2>3. \A p \in live' : \E b \in heads : p \in Chain(b)'
    BY <1>9, <1>11, <2>1, <2>2
  <2>4. \A b \in heads \ {a} : prev[b] \in Pages /\ prev[b] # prev[a]
    BY <1>11 DEF IInv, Chains, Chain
  <2>5. n # prev[a]
    BY <1>9, <1>11 DEF IInv, Chains
  <2>6. next'[prev'[a]] = NULL
    BY <1>9, <1>11, <1>12, <2>5
  <2>7. ASSUME NEW b \in heads \ {a}
        PROVE  next'[prev'[b]] = NULL
    BY <1>11, <1>12, <2>1, <2>4
  <2>8. QED BY <2>3, <2>6, <2>7
<1>19. BlocksSound'
  <2>1. \A b \in blocks' : /\ b.page \in live' /\ b.arena \in heads'
                           /\ base'[b.page] = base[b.page] /\ size'[b.page] = size[b.page]
                           /\ b.page \notin wrapped' => b.page \notin wrapped
    BY <1>1, <1>9 DEF IInv, BlocksSound
  <2>2. QED BY <1>1, <2>1, BlocksKept
<1>20. BlocksAtHome'
  BY <1>1, <1>9, <1>11 DEF IInv, BlocksAtHome, BlocksSound
<1>21. Enlarged'
  <2>1. \A p \in Pages : size[p] = 0 /\ p \notin wrapped => ~(capacity[p] > DefPage)
    BY <1>1, NoneEnlarged
  <2>2. \A p \in Pages \ {n} : size'[p] = 0 /\ p \notin wrapped' => ~(capacity'[p] > DefPage)
    BY <1>1, <1>9, <2>1
  <2>3. capacity'[n] > DefPage => /\ capacity'[n] = call'.sz + call'.align - 1
                                  /\ capacity'[n] < SizeSpace
    BY <1>7, <1>9, <1>13
  <2>4. \A b \in heads : capacity'[b] = DefPage
    BY <1>9, <1>12 DEF IInv, Enlarged
  <2>5. Allocating'
    BY <1>13, NullAssumption DEF Allocating
  <2>6. QED BY <1>1, <1>9, <1>13, <2>2, <2>3, <2>4, <2>5 DEF Enlarged
<1>22. QED BY <1>14, <1>15, <1>16, <1>17, <1>18, <1>19, <1>20, <1>21 DEF IInv

-----------------------------------------------------------------------------
(* Arenas given away, reset and destroyed                                  *)

LEMMA GiveChildStep ==
  ASSUME IInv, NEW a \in heads, NEW c \in heads, GiveChild(a, c)
  PROVE  IInv'
<1>1. /\ ~Allocating /\ ~Allocating' /\ c # a
      /\ next' = [next EXCEPT ![prev[a]] = c]
      /\ prev' = [prev EXCEPT ![a] = c, ![c] = prev[a]]
      /\ heads' = heads \ {c}
      /\ grafted' = (grafted \/ next[c] # NULL)
      /\ UNCHANGED <<sizes, made, live, call, wrapped>>
  BY DEF GiveChild, Idle, Allocating
<1>2. blocks' = {[b EXCEPT !.arena = IF b.arena = c THEN a ELSE b.arena] : b \in blocks}
  BY DEF GiveChild
<1>3. /\ a \in Pages /\ c \in Pages /\ heads \subseteq Pages /\ heads \subseteq live
      /\ next \in Linking /\ prev \in Linking
  <2>1. made \in 0 .. MaxPages /\ live \subseteq 1 .. made /\ heads \subseteq live
    BY DEF IInv, TypeOK
  <2>2. live \subseteq Pages
    BY <2>1, ArenaAssumption DEF Pages
  <2>3. next \in Linking /\ prev \in Linking
    BY DEF IInv, TypeOK, Linking
  <2>4. QED BY <2>1, <2>2, <2>3
<1>4. c # NULL /\ Chain(c) \in SUBSET Pages /\ c \in Chain(c) /\ ClosedIn(next, Chain(c))
  <2>1. c # NULL
    BY <1>3, NullAssumption
  <2>2. Chain(c) = Reach(next, c)
    BY <1>3, ChainNow
  <2>3. QED BY <1>3, <2>1, <2>2, ReachClosed
<1>5. /\ next' \in Linking /\ prev[a] \in Chain(a) /\ prev[a] \in Pages
      /\ next'[prev[a]] = c /\ \A p \in Pages \ {prev[a]} : next'[p] = next[p]
      /\ c \in Chain(a)'
      /\ Chain(a)' \subseteq Chain(a) \cup Chain(c)
      /\ next[prev[a]] = NULL => Chain(a) \subseteq Chain(a)'
      /\ \A b \in heads \ {a} : Chain(b)' = Chain(b)
  <2>1. PICK D \in SUBSET Pages : D = Chain(c)
    BY <1>4
  <2>2. ClosedIn(next, D) /\ c \in D /\ c \in Pages \cup {NULL}
    BY <1>3, <1>4, <2>1
  <2>3. /\ next' \in Linking /\ prev[a] \in Chain(a) /\ prev[a] \in Pages
        /\ next'[prev[a]] = c /\ \A p \in Pages \ {prev[a]} : next'[p] = next[p]
        /\ c # NULL => c \in Chain(a)'
        /\ Chain(a)' \subseteq Chain(a) \cup D
        /\ next[prev[a]] = NULL => Chain(a) \subseteq Chain(a)'
        /\ \A b \in heads \ {a} : Chain(b)' = Chain(b)
    BY <1>1, <2>2, Relinked, Zenon
  <2>4. QED BY <1>4, <2>1, <2>3
<1>6. /\ prev' \in Linking /\ prev'[a] = c
      /\ \A b \in heads \ {a, c} : prev'[b] = prev[b]
  BY <1>1, <1>3, <1>5 DEF Linking
<1>7. ASSUME NEW d \in blocks'
      PROVE  \E b \in blocks :
               /\ d \in Block
               /\ d.arena = (IF b.arena = c THEN a ELSE b.arena)
               /\ d.page = b.page /\ d.from = b.from /\ d.to = b.to /\ d.align = b.align
               /\ d = [b EXCEPT !.arena = IF b.arena = c THEN a ELSE b.arena]
  <2>1. PICK b \in blocks : d = [b EXCEPT !.arena = IF b.arena = c THEN a ELSE b.arena]
    BY <1>2
  <2>2. b \in Block
    BY DEF IInv, TypeOK
  <2>3. /\ d \in Block /\ d.arena = (IF b.arena = c THEN a ELSE b.arena)
        /\ d.page = b.page /\ d.from = b.from /\ d.to = b.to /\ d.align = b.align
    BY <1>3, <2>1, <2>2 DEF Block
  <2>4. QED BY <2>1, <2>3
<1>8. TypeOK'
  <2>1. blocks' \subseteq Block
    BY <1>7
  <2>2. grafted' \in BOOLEAN
    BY <1>1
  <2>3. QED BY <1>1, <1>5, <1>6, <2>1, <2>2 DEF IInv, TypeOK, Linking, sizes
<1>9. Chains'
  <2>1. \A b \in heads' : Chain(b)' \subseteq live' /\ prev'[b] \in Chain(b)'
    <3>1. \A b \in heads : Chain(b) \subseteq live /\ prev[b] \in Chain(b)
      BY DEF IInv, Chains
    <3>2. Chain(a)' \subseteq live' /\ prev'[a] \in Chain(a)'
      BY <1>1, <1>5, <1>6, <3>1
    <3>3. ASSUME NEW b \in heads' \ {a}
          PROVE  Chain(b)' \subseteq live' /\ prev'[b] \in Chain(b)'
      <4>1. b \in heads \ {a, c}
        BY <1>1
      <4>2. Chain(b)' = Chain(b) /\ prev'[b] = prev[b] /\ live' = live
        BY <1>1, <1>5, <1>6, <4>1
      <4>3. QED BY <3>1, <4>1, <4>2
    <3>4. QED BY <3>2, <3>3
  <2>2. \A b \in heads' : \A d \in heads' \ {b} : Chain(b)' \cap Chain(d)' = {}
    <3>1. \A b \in heads' \ {a} : Chain(b) \cap Chain(a) = {} /\ Chain(b) \cap Chain(c) = {}
      BY <1>1 DEF IInv, Chains
    <3>2. \A b \in heads' \ {a} : Chain(b)' \cap Chain(a)' = {}
      BY <1>1, <1>5, <3>1
    <3>3. \A b, d \in heads' \ {a} : b # d => Chain(b)' \cap Chain(d)' = {}
      BY <1>1, <1>5 DEF IInv, Chains
    <3>4. QED BY <3>2, <3>3
  <2>3. QED BY <2>1, <2>2 DEF Chains
<1>10. Fresh'
  <2>1. prev[a] \in live
    BY <1>5 DEF IInv, Chains
  <2>2. prev[a] \in 1 .. made
    BY <2>1 DEF IInv, TypeOK
  <2>3. QED BY <1>1, <1>5, <2>2 DEF IInv, TypeOK, Fresh, Pages
<1>11. CallSound'
  BY <1>1 DEF CallSound
<1>12. Ungrafted'
  <2> SUFFICES ASSUME ~grafted, next[c] = NULL
               PROVE  /\ \A p \in live : \E b \in heads' : p \in Chain(b)'
                      /\ \A b \in heads' : next'[prev'[b]] = NULL
    BY <1>1 DEF Ungrafted
  <2>1. /\ \A p \in live : \E b \in heads : p \in Chain(b)
        /\ \A b \in heads : next[prev[b]] = NULL
    BY DEF IInv, Ungrafted
  <2>2. Chain(c) = {c}
    BY <1>3, ReachAlone, ChainNow
  <2>3. \A p \in live : \E b \in heads' : p \in Chain(b)'
    BY <1>1, <1>5, <2>1, <2>2
  <2>4. Chain(a) \cap Chain(c) = {}
    BY <1>1 DEF IInv, Chains
  <2>5. next'[prev'[a]] = NULL
    BY <1>3, <1>4, <1>5, <1>6, <2>4
  <2>6. ASSUME NEW b \in heads' \ {a}
        PROVE  next'[prev'[b]] = NULL
    <3>1. prev[b] \in Pages /\ prev[b] # prev[a]
      BY <1>1, <1>5 DEF IInv, Chains, Chain
    <3>2. b \in heads \ {a, c}
      BY <1>1
    <3>3. prev'[b] = prev[b] /\ next[prev[b]] = NULL
      BY <1>6, <2>1, <3>2
    <3>4. QED BY <1>5, <3>1, <3>3
  <2>7. QED BY <2>3, <2>5, <2>6
<1>13. BlocksSound'
  <2>1. ASSUME NEW d \in blocks', NEW e \in blocks', d # e, d.page = e.page,
               d.page \notin wrapped
        PROVE  d.to <= e.from \/ e.to <= d.from
    BY <1>7, <2>1 DEF IInv, BlocksSound
  <2>2. ASSUME NEW d \in blocks'
        PROVE  /\ d.page \in live' /\ d.arena \in heads'
               /\ (base'[d.page] + d.from) % d.align = 0
               /\ d.page \notin wrapped => d.to <= size'[d.page]
    BY <1>1, <1>7 DEF IInv, BlocksSound, sizes
  <2>3. QED BY <1>1, <2>1, <2>2 DEF BlocksSound
<1>14. BlocksAtHome'
  <2>1. ASSUME NEW d \in blocks', NEW b \in heads' \ {d.arena}
        PROVE  d.page \notin Chain(b)'
    <3>1. PICK e \in blocks : d.arena = (IF e.arena = c THEN a ELSE e.arena) /\ d.page = e.page
      BY <1>7
    <3>2. CASE b = a
      <4>1. e.page \notin Chain(a) /\ e.page \notin Chain(c)
        BY <3>1, <3>2 DEF IInv, BlocksAtHome
      <4>2. QED BY <1>5, <3>1, <3>2, <4>1
    <3>3. CASE b # a
      <4>1. b \in heads \ {a, e.arena}
        BY <1>1, <3>1, <3>3
      <4>2. QED BY <1>5, <3>1, <4>1 DEF IInv, BlocksAtHome
    <3>4. QED BY <3>2, <3>3
  <2>2. QED BY <2>1 DEF BlocksAtHome
<1>15. Enlarged'
  BY <1>1 DEF IInv, Enlarged, sizes
<1>16. QED BY <1>8, <1>9, <1>10, <1>11, <1>12, <1>13, <1>14, <1>15 DEF IInv

LEMMA ResetStep ==
  ASSUME IInv, NEW a \in heads, Reset(a)
  PROVE  IInv'
<1>1. /\ ~Allocating /\ ~Allocating'
      /\ size' = [size EXCEPT ![a] = 0]
      /\ prev' = [prev EXCEPT ![a] = a] /\ next' = [next EXCEPT ![a] = NULL]
      /\ live' = live \ (Chain(a) \ {a})
      /\ blocks' = {b \in blocks : b.arena # a} /\ wrapped' = wrapped \ {a}
      /\ UNCHANGED <<capacity, base, made, heads, call, grafted>>
  BY DEF Reset, Release, Idle, Allocating
<1>2. /\ a \in Pages /\ heads \subseteq Pages /\ heads \subseteq live
      /\ next \in Linking /\ prev \in Linking
  BY ArenaAssumption DEF IInv, TypeOK, Pages, Linking
<1>3. /\ \A b \in heads : b \in Chain(b) /\ Chain(b) \subseteq Pages /\ Chain(b) \subseteq live
      /\ \A b \in heads \ {a} : Chain(b) \cap Chain(a) = {}
  <2>1. \A b \in heads : b \in Chain(b)
    BY <1>2, ReachClosed, ChainNow
  <2>2. QED BY <2>1 DEF IInv, Chains, Chain
<1>4. /\ next' \in Linking /\ next'[a] = NULL
      /\ \A p \in Pages \ {a} : next'[p] = next[p]
      /\ prev' \in Linking /\ prev'[a] = a
      /\ \A b \in heads \ {a} : prev'[b] = prev[b]
      /\ size' \in [Pages -> Nat] /\ size'[a] = 0
      /\ \A p \in Pages \ {a} : size'[p] = size[p]
  BY <1>1, <1>2 DEF IInv, TypeOK, Linking
<1>5. Chain(a)' = {a}
  <2>1. PICK g \in Linking : g = next'
    BY <1>4
  <2>2. Reach(g, a) = {a}
    BY <1>2, <1>4, <2>1, ReachAlone
  <2>3. QED BY <2>1, <2>2, ChainNext
<1>6. ASSUME NEW b \in heads \ {a}
      PROVE  Chain(b)' = Chain(b)
  <2>1. PICK g \in Linking : g = next'
    BY <1>4
  <2>2. \A p \in Reach(next, b) : g[p] = next[p]
    BY <1>3, <1>4, <2>1, ChainNow
  <2>3. b \in Pages
    BY <1>2
  <2>4. Reach(g, b) = Reach(next, b)
    BY <1>2, <2>2, <2>3, ReachSame
  <2>5. QED BY <2>1, <2>4, ChainNow, ChainNext
<1>7. \A b \in heads : Chain(b)' \subseteq live' /\ b \in live'
  BY <1>1, <1>3, <1>5, <1>6
<1>8. TypeOK'
  <2>1. \A p \in Pages : size'[p] <= capacity'[p]
    BY <1>1, <1>4 DEF IInv, TypeOK
  <2>2. /\ live' \subseteq 1 .. made' /\ heads' \subseteq live' /\ blocks' \subseteq Block
        /\ wrapped' \subseteq Pages
    BY <1>1, <1>7 DEF IInv, TypeOK
  <2>3. QED BY <1>1, <1>4, <2>1, <2>2 DEF IInv, TypeOK, Linking
<1>9. Chains'
  <2>1. \A b \in heads : prev'[b] \in Chain(b)'
    BY <1>4, <1>5, <1>6 DEF IInv, Chains
  <2>2. \A b \in heads : \A d \in heads \ {b} : Chain(b)' \cap Chain(d)' = {}
    <3>1. \A b \in heads : Chain(b)' \subseteq Chain(b)
      BY <1>3, <1>5, <1>6
    <3>2. QED BY <3>1 DEF IInv, Chains
  <2>3. QED BY <1>1, <1>7, <2>1, <2>2 DEF Chains
<1>10. Fresh'
  BY <1>1, <1>4 DEF IInv, Fresh
<1>11. CallSound'
  BY <1>1 DEF CallSound
<1>12. Ungrafted'
  <2> SUFFICES ASSUME ~grafted
               PROVE  /\ \A p \in live' : \E b \in heads : p \in Chain(b)'
                      /\ \A b \in heads : next'[prev'[b]] = NULL
    BY <1>1 DEF Ungrafted
  <2>1. /\ \A p \in live : \E b \in heads : p \in Chain(b)
        /\ \A b \in heads : next[prev[b]] = NULL
    BY DEF IInv, Ungrafted
  <2>2. \A p \in live' : \E b \in heads : p \in Chain(b)'
    BY <1>1, <1>5, <1>6, <2>1
  <2>3. \A b \in heads \ {a} : prev[b] \in Pages /\ prev[b] # a
    BY <1>3 DEF IInv, Chains
  <2>4. QED BY <1>4, <2>1, <2>2, <2>3
<1>13. ASSUME NEW b \in blocks'
       PROVE  /\ b \in blocks /\ b.arena \in heads \ {a} /\ b.page \notin Chain(a)
              /\ b.page \in live' /\ b.page # a
  <2>1. b \in blocks /\ b.arena \in heads \ {a} /\ b.page \in live
    BY <1>1 DEF IInv, BlocksSound
  <2>2. b.page \notin Chain(a)
    BY <2>1 DEF IInv, BlocksAtHome
  <2>3. QED BY <1>1, <1>3, <2>1, <2>2
<1>14. BlocksSound'
  <2>1. \A b \in blocks' : /\ b.page \in live' /\ b.arena \in heads'
                           /\ base'[b.page] = base[b.page] /\ size'[b.page] = size[b.page]
                           /\ b.page \notin wrapped' => b.page \notin wrapped
    <3>1. live' \subseteq Pages
      <4>1. live \subseteq 1 .. made /\ made \in 0 .. MaxPages
        BY DEF IInv, TypeOK
      <4>2. live \subseteq Pages
        BY <4>1, ArenaAssumption DEF Pages
      <4>3. QED BY <1>1, <4>2
    <3>2. QED BY <1>1, <1>4, <1>13, <3>1
  <2>2. blocks' \subseteq blocks
    BY <1>1
  <2>3. QED BY <2>1, <2>2, BlocksKept
<1>15. BlocksAtHome'
  BY <1>1, <1>5, <1>6, <1>13 DEF IInv, BlocksAtHome
<1>16. Enlarged'
  <2>1. ~(capacity[a] > DefPage)
    BY ArenaAssumption DEF IInv, Enlarged
  <2>2. \A p \in Pages : size'[p] = 0 /\ p \notin wrapped' => ~(capacity[p] > DefPage)
    BY <1>1, <1>4, <2>1, NoneEnlarged
  <2>3. QED BY <1>1, <2>2 DEF IInv, Enlarged
<1>17. QED BY <1>8, <1>9, <1>10, <1>11, <1>12, <1>14, <1>15, <1>16 DEF IInv

LEMMA DestroyStep ==
  ASSUME IInv, NEW a \in heads, Destroy(a)
  PROVE  IInv'
<1>1. /\ ~Allocating /\ ~Allocating'
      /\ live' = live \ Chain(a) /\ heads' = heads \ {a}
      /\ blocks' = {b \in blocks : b.arena # a} /\ wrapped' = wrapped \ {a}
      /\ UNCHANGED <<links, sizes, made, call, grafted>>
  BY DEF Destroy, Release, Idle, Allocating
<1>2. /\ a \in Chain(a)
      /\ \A b \in heads' : b \in Chain(b) /\ Chain(b) \subseteq live'
      /\ \A b : Chain(b)' = Chain(b)
  <2>1. \A b \in heads : b \in Pages
    BY ArenaAssumption DEF IInv, TypeOK, Pages
  <2>2. next \in Linking
    BY DEF IInv, TypeOK, Linking
  <2>3. \A b \in heads : b \in Chain(b)
    BY <2>1, <2>2, ReachClosed, ChainNow
  <2>4. \A b : Chain(b)' = Chain(b)
    BY <1>1, SameChain DEF links
  <2>5. QED BY <1>1, <2>3, <2>4 DEF IInv, Chains
<1>3. TypeOK'
  <2>1. /\ live' \subseteq 1 .. made' /\ heads' \subseteq live' /\ blocks' \subseteq Block
        /\ wrapped' \subseteq Pages
    BY <1>1, <1>2 DEF IInv, TypeOK, links, sizes
  <2>2. QED BY <1>1, <2>1 DEF IInv, TypeOK, links, sizes
<1>4. Chains' /\ Fresh' /\ CallSound'
  BY <1>1, <1>2 DEF IInv, Chains, Fresh, CallSound, links
<1>5. Ungrafted'
  BY <1>1, <1>2 DEF IInv, Ungrafted, links
<1>6. ASSUME NEW b \in blocks'
      PROVE  b \in blocks /\ b.arena \in heads' /\ b.page \in live' /\ b.page # a
  <2>1. b \in blocks /\ b.arena \in heads \ {a} /\ b.page \in live
    BY <1>1 DEF IInv, BlocksSound
  <2>2. QED BY <1>1, <1>2, <2>1 DEF IInv, BlocksAtHome
<1>7. BlocksSound'
  BY <1>1, <1>6, BlocksKept DEF sizes
<1>8. BlocksAtHome'
  BY <1>1, <1>2 DEF IInv, BlocksAtHome
<1>9. Enlarged'
  <2>1. ~(capacity[a] > DefPage)
    BY ArenaAssumption DEF IInv, Enlarged
  <2>2. QED BY <1>1, <2>1 DEF IInv, Enlarged, sizes
<1>10. QED BY <1>3, <1>4, <1>5, <1>7, <1>8, <1>9 DEF IInv

-----------------------------------------------------------------------------
(* The theorems                                                            *)

LEMMA NextIInv == IInv /\ [Next]_vars => IInv'
<1> SUFFICES ASSUME IInv, [Next]_vars PROVE IInv'
  OBVIOUS
<1>1. CASE CreateArena
  BY <1>1, CreateArenaStep
<1>2. CASE NextPage
  BY <1>2, NextPageStep
<1>3. CASE AddPage
  BY <1>3, AddPageStep
<1>4. CASE GrowFails
  BY <1>4, GrowFailsStep
<1>5. CASE AddFails \/ GrowAborts
  BY <1>5, GiveUpStep DEF AddFails, GrowAborts
<1>6. CASE AllocDone
  BY <1>6, AllocDoneStep
<1>7. ASSUME NEW a \in heads, NEW sz \in Sizes, NEW align \in Aligns, Alloc(a, sz, align)
      PROVE  IInv'
  BY <1>7, AllocStartStep
<1>8. ASSUME NEW a \in heads, NEW child \in heads, GiveChild(a, child)
      PROVE  IInv'
  BY <1>8, GiveChildStep
<1>9. ASSUME NEW a \in heads, Reset(a)
      PROVE  IInv'
  BY <1>9, ResetStep
<1>10. ASSUME NEW a \in heads, Destroy(a)
       PROVE  IInv'
  BY <1>10, DestroyStep
<1>11. CASE UNCHANGED vars
  <2>1. UNCHANGED <<links, sizes, made, live, heads, blocks, grafted, wrapped>> /\ UNCHANGED call
    BY <1>11 DEF vars, links, sizes
  <2>2. TypeOK' /\ CallSound' /\ Enlarged'
    BY <2>1 DEF IInv, TypeOK, CallSound, Enlarged, Allocating, Chain, Closed, links, sizes
  <2>3. QED BY <2>1, <2>2, CallStep
<1>12. QED BY <1>1, <1>2, <1>3, <1>4, <1>5, <1>6, <1>7, <1>8, <1>9, <1>10, <1>11
          DEF Next, AllocStep

LEMMA Inductive == Spec => []IInv
<1>1. Init => IInv
  BY InitIInv
<1>2. IInv /\ [Next]_vars => IInv'
  BY NextIInv
<1>3. QED BY <1>1, <1>2, PTL DEF Spec

\* Every variable of an arena keeps its type, and no page is filled beyond its
\* capacity.
THEOREM ArenaTypeCorrect == Spec => []TypeOK
<1>1. IInv => TypeOK
  BY DEF IInv
<1>2. QED BY <1>1, Inductive, PTL

\* The blocks _arena_aligned_alloc hands out are aligned and stay allocated until
\* their arena goes; they are within their page and apart from each other, except
\* on a page whose size a sum of size_t that wrapped has set back.
THEOREM BlocksCorrect == Spec => []BlocksSound
<1>1. IInv => BlocksSound
  BY DEF IInv
<1>2. QED BY <1>1, Inductive, PTL

\* arena_reset and arena_destroy free each page once, however arenas were given
\* to one another, and lose none before an arena of several pages is given away.
THEOREM PagesFreedOnce == Spec => []FreedOnce
<1>1. IInv => FreedOnce
  <2> SUFFICES ASSUME IInv PROVE FreedOnce
    OBVIOUS
  <2>1. ASSUME NEW a \in heads
        PROVE  Chain(a) \subseteq live /\ \A b \in heads \ {a} : Chain(a) \cap Chain(b) = {}
    BY DEF IInv, Chains
  <2>2. ASSUME ~grafted
        PROVE  live = UNION {Chain(a) : a \in heads}
    <3>1. \A p \in live : \E a \in heads : p \in Chain(a)
      BY <2>2 DEF IInv, Ungrafted
    <3>2. \A p : p \in UNION {Chain(a) : a \in heads} <=> \E a \in heads : p \in Chain(a)
      OBVIOUS
    <3>3. QED BY <2>1, <3>1, <3>2
  <2>3. QED BY <2>1, <2>2 DEF FreedOnce
<1>2. QED BY <1>1, Inductive, PTL

\* The page _inc_arena_page enlarges takes the block, wherever realloc puts it.
THEOREM EnlargedPageFits == Spec => []GrownPageFits
<1>1. IInv => GrownPageFits
  BY EnlargedFits DEF GrownPageFits
<1>2. QED BY <1>1, Inductive, PTL
=============================================================================
