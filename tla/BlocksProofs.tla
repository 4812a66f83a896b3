------------------------------ MODULE BlocksProofs ------------------------------
(***************************************************************************)
(* What Blocks.tla promises, for any grace, policies, lengths and lags:    *)
(* types, no gaps, blocks finished once and in order, no time away counted *)
(* as work and no work lost.                                               *)
(*                                                                         *)
(* Everything rests on one idea: the blocks a call works on are chains.  A *)
(* chain leads from one moment to another through blocks that follow one   *)
(* another, each within its interval.  Chains join and come apart; what a  *)
(* call finishes is a chain from `final`, what it holds one from there to  *)
(* the open block.                                                         *)
(***************************************************************************)
EXTENDS Blocks, SequenceTheorems, FiniteSetTheorems, WellFoundedInduction, TLAPS

-------------------------------------------------------------------------------
(* Chains of blocks *)

Fit(b) == b.from =< b.to /\ b.to - b.from =< b.interval

Chain(q, x, y) ==
  /\ q \in Seq(Block) /\ x \in Nat /\ y \in Nat
  /\ \A i \in 1 .. Len(q) : Fit(q[i])
  /\ Tiles(q)
  /\ IF q = <<>> THEN y = x ELSE q[1].from = x /\ q[Len(q)].to = y

(* A nonempty set of numbers has a least one.                                *)
LEMMA Least ==
  ASSUME NEW S \in SUBSET Nat, S # {}
  PROVE  \E m \in S : \A n \in S : m =< n
  <1> DEFINE R == OpToRel(<, Nat)
  <1>1. \A n, m \in S : <<n, m>> \in R <=> n < m
    BY DEF OpToRel
  <1>2. IsWellFoundedOn(R, Nat)
    BY NatLessThanWellFounded
  <1> HIDE DEF R
  <1>3. PICK m \in S : \A n \in S : <<n, m>> \notin R
    BY <1>2, WFMin
  <1>4. \A n \in S : n \in Nat /\ m \in Nat /\ ~(n < m)
    BY <1>1, <1>3
  <1>5. QED
    BY <1>4

(* A set of indices that holds every index before one of its own is counted  *)
(* by its length: Active and CutAtLastActivity keep as many blocks as qualify, *)
(* which are the first ones.                                                 *)
LEMMA PrefixCount ==
  ASSUME NEW N \in Nat, NEW S, S \subseteq 1 .. N,
         \A i \in 1 .. N : \A j \in S : i =< j => i \in S
  PROVE  Cardinality(S) \in 0 .. N /\ S = 1 .. Cardinality(S)
  <1>1. CASE S = 1 .. N
    <2>1. Cardinality(1 .. N) = IF 1 > N THEN 0 ELSE N - 1 + 1
      BY FS_Interval
    <2>2. Cardinality(1 .. N) = N
      BY <2>1
    <2>3. QED
      BY <1>1, <2>2
  <1>2. CASE S # 1 .. N
    <2> DEFINE Gap == (1 .. N) \ S
    <2>1. Gap \in SUBSET Nat /\ Gap # {}
      <3>1. \E i \in 1 .. N : i \notin S
        BY <1>2
      <3>2. QED
        BY <3>1
    <2>2. PICK g \in Gap : \A n \in Gap : g =< n
      BY <2>1, Least
    <2>3. g \in 1 .. N /\ g \notin S
      BY <2>2
    <2>4. S = 1 .. (g - 1)
      <3>1. ASSUME NEW i \in S PROVE i \in 1 .. (g - 1)
        <4>1. i \in 1 .. N
          BY <3>1
        <4>2. ~(g =< i)
          BY <2>3, <3>1
        <4>3. QED
          BY <2>3, <4>1, <4>2
      <3>2. ASSUME NEW i \in 1 .. (g - 1) PROVE i \in S
        <4>1. i \in 1 .. N /\ ~(g =< i)
          BY <2>3
        <4>2. i \notin Gap
          BY <2>2, <4>1
        <4>3. QED
          BY <4>1, <4>2
      <3>3. QED
        BY <3>1, <3>2
    <2>5. Cardinality(1 .. (g - 1)) = IF 1 > g - 1 THEN 0 ELSE (g - 1) - 1 + 1
      BY <2>3, FS_Interval
    <2>6. Cardinality(1 .. (g - 1)) = g - 1
      BY <2>3, <2>5
    <2>7. QED
      BY <2>3, <2>4, <2>6
  <1>3. QED
    BY <1>1, <1>2

(* What a block is made of.                                                  *)
LEMMA BlockFields ==
  ASSUME NEW b \in Block
  PROVE  b.from \in Nat /\ b.to \in Nat /\ b.interval \in Nat
  BY DEF Block

(* The blocks of a chain, one by one.                                        *)
LEMMA ChainParts ==
  ASSUME NEW q, NEW x, NEW y, Chain(q, x, y)
  PROVE  /\ q \in Seq(Block) /\ Len(q) \in Nat /\ x \in Nat /\ y \in Nat
         /\ q # <<>> => Len(q) \in Nat \ {0} /\ q[1].from = x /\ q[Len(q)].to = y
         /\ q = <<>> => Len(q) = 0 /\ x = y
         /\ \A i \in 1 .. Len(q) : /\ q[i] \in Block /\ q[i].from =< q[i].to
                                   /\ q[i].to - q[i].from =< q[i].interval
                                   /\ q[i].from \in Nat /\ q[i].to \in Nat
         /\ \A i \in 1 .. Len(q) - 1 : q[i].to = q[i + 1].from
  <1>1. /\ q \in Seq(Block) /\ x \in Nat /\ y \in Nat
        /\ \A i \in 1 .. Len(q) : Fit(q[i])
        /\ \A i \in 1 .. Len(q) - 1 : q[i].to = q[i + 1].from
        /\ q = <<>> => y = x
        /\ q # <<>> => q[1].from = x /\ q[Len(q)].to = y
    BY DEF Chain, Tiles
  <1>2. Len(q) \in Nat /\ (q = <<>> => Len(q) = 0) /\ (q # <<>> => Len(q) \in Nat \ {0})
    BY <1>1, LenProperties, EmptySeq
  <1>3. \A i \in 1 .. Len(q) : q[i] \in Block
    BY <1>1, ElementOfSeq
  <1>4. \A i \in 1 .. Len(q) : q[i].from \in Nat /\ q[i].to \in Nat
    BY <1>3, BlockFields
  <1>5. QED
    BY <1>1, <1>2, <1>3, <1>4 DEF Fit

(* A chain, from its blocks.                                                 *)
LEMMA ChainMade ==
  ASSUME NEW q \in Seq(Block), NEW x \in Nat, NEW y \in Nat,
         \A i \in 1 .. Len(q) : q[i].from =< q[i].to /\ q[i].to - q[i].from =< q[i].interval,
         \A i \in 1 .. Len(q) - 1 : q[i].to = q[i + 1].from,
         q = <<>> => x = y,
         q # <<>> => q[1].from = x /\ q[Len(q)].to = y
  PROVE  Chain(q, x, y)
  BY DEF Chain, Tiles, Fit

(* No blocks lead nowhere.                                                   *)
LEMMA ChainEmpty ==
  ASSUME NEW x \in Nat
  PROVE  Chain(<<>>, x, x)
  <1>1. <<>> \in Seq(Block) /\ Len(<<>>) = 0
    BY EmptySeq
  <1>2. QED
    BY <1>1 DEF Chain, Tiles

(* A chain leads forward: its blocks start after its beginning, end before its *)
(* end, and each ends before the next ones start.                            *)
LEMMA ChainRises ==
  ASSUME NEW q, NEW x, NEW y, Chain(q, x, y)
  PROVE  /\ x =< y
         /\ \A i \in 1 .. Len(q) : x =< q[i].from /\ q[i].to =< y
         /\ \A i, j \in 1 .. Len(q) : i < j => q[i].to =< q[j].from
         /\ \A i, j \in 1 .. Len(q) : i =< j => q[i].to =< q[j].to
  <1> DEFINE n == Len(q)
  <1>1. /\ n \in Nat /\ x \in Nat /\ y \in Nat
        /\ q # <<>> => n \in Nat \ {0} /\ q[1].from = x /\ q[n].to = y
        /\ q = <<>> => n = 0 /\ x = y
        /\ \A i \in 1 .. n : q[i].from =< q[i].to /\ q[i].from \in Nat /\ q[i].to \in Nat
        /\ \A i \in 1 .. n - 1 : q[i].to = q[i + 1].from
    BY ChainParts
  <1> HIDE DEF n
  <1>2. \A i, j \in 1 .. n : i =< j => q[i].to =< q[j].to
    <2> SUFFICES ASSUME NEW i \in 1 .. n PROVE \A j \in 1 .. n : i =< j => q[i].to =< q[j].to
      OBVIOUS
    <2> DEFINE Bad == {j \in i .. n : ~(q[i].to =< q[j].to)}
    <2>1. ASSUME Bad # {} PROVE FALSE
      <3>1. Bad \in SUBSET Nat
        BY <1>1
      <3>2. PICK j \in Bad : \A k \in Bad : j =< k
        BY <2>1, <3>1, Least
      <3>3. j \in i .. n /\ ~(q[i].to =< q[j].to)
        BY <3>2
      <3>4. j # i
        BY <1>1, <3>3
      <3>5. j - 1 \in i .. n /\ j - 1 \in 1 .. n - 1 /\ j \in 1 .. n /\ (j - 1) + 1 = j
        BY <1>1, <3>3, <3>4
      <3>6. j - 1 \notin Bad
        BY <3>2, <3>5
      <3>7. q[i].to =< q[j - 1].to
        BY <3>5, <3>6
      <3>8. q[j - 1].to = q[j].from /\ q[j].from =< q[j].to
        BY <1>1, <3>5
      <3>9. /\ q[i].to \in Nat /\ q[j - 1].to \in Nat /\ q[j].from \in Nat
            /\ q[j].to \in Nat
        BY <1>1, <3>5
      <3>10. QED
        BY <3>3, <3>7, <3>8, <3>9
    <2>2. QED
      BY <1>1, <2>1
  <1>3. \A i, j \in 1 .. n : i < j => q[i].to =< q[j].from
    <2> SUFFICES ASSUME NEW i \in 1 .. n, NEW j \in 1 .. n, i < j
                 PROVE  q[i].to =< q[j].from
      OBVIOUS
    <2>1. j - 1 \in 1 .. n - 1 /\ j - 1 \in 1 .. n /\ i =< j - 1 /\ (j - 1) + 1 = j
      BY <1>1
    <2>2. q[i].to =< q[j - 1].to
      BY <1>2, <2>1
    <2>3. q[j - 1].to = q[j].from
      BY <1>1, <2>1
    <2>4. QED
      BY <2>2, <2>3
  <1>4. \A i \in 1 .. n : x =< q[i].from /\ q[i].to =< y
    <2> SUFFICES ASSUME NEW i \in 1 .. n PROVE x =< q[i].from /\ q[i].to =< y
      OBVIOUS
    <2>1. n \in Nat \ {0} /\ q[1].from = x /\ q[n].to = y /\ 1 \in 1 .. n /\ n \in 1 .. n
      BY <1>1
    <2>2. q[i].to =< q[n].to
      BY <1>2, <2>1
    <2>3. CASE i = 1
      BY <1>1, <2>1, <2>2, <2>3
    <2>4. CASE i # 1
      <3>1. q[1].to =< q[i].from
        BY <1>3, <2>1, <2>4
      <3>2. q[1].from =< q[1].to /\ q[1].from \in Nat /\ q[1].to \in Nat /\ q[i].from \in Nat
        BY <1>1, <2>1
      <3>3. QED
        BY <2>1, <2>2, <3>1, <3>2
    <2>5. QED
      BY <2>3, <2>4
  <1>5. x =< y
    <2>1. CASE q = <<>>
      BY <1>1, <2>1
    <2>2. CASE q # <<>>
      <3>1. 1 \in 1 .. n /\ q[1].from = x
        BY <1>1, <2>2
      <3>2. q[1].from =< q[1].to /\ q[1].to =< y /\ q[1].to \in Nat
        BY <1>1, <1>4, <3>1
      <3>3. QED
        BY <1>1, <3>1, <3>2
    <2>3. QED
      BY <2>1, <2>2
  <1>6. QED
    BY <1>2, <1>3, <1>4, <1>5 DEF n

(* Two chains that meet are one.                                             *)
LEMMA ChainJoin ==
  ASSUME NEW a, NEW b, NEW x, NEW y, NEW z, Chain(a, x, y), Chain(b, y, z)
  PROVE  Chain(a \o b, x, z)
  <1>1. CASE a = <<>>
    <2>1. a \o b = b /\ x = y
      BY <1>1, ChainParts, ConcatEmptySeq
    <2>2. QED
      BY <2>1
  <1>2. CASE b = <<>>
    <2>1. a \o b = a /\ y = z
      BY <1>2, ChainParts, ConcatEmptySeq
    <2>2. QED
      BY <2>1
  <1>3. CASE a # <<>> /\ b # <<>>
    <2> DEFINE c == a \o b
               m == Len(a)
               n == Len(b)
    <2>1. /\ a \in Seq(Block) /\ b \in Seq(Block)
          /\ m \in Nat \ {0} /\ n \in Nat \ {0} /\ x \in Nat /\ z \in Nat
          /\ a[1].from = x /\ a[m].to = y /\ b[1].from = y /\ b[n].to = z
      BY <1>3, ChainParts
    <2>2. /\ c \in Seq(Block) /\ Len(c) = m + n
          /\ \A i \in 1 .. m + n : c[i] = IF i =< m THEN a[i] ELSE b[i - m]
      BY <2>1, ConcatProperties
    <2>3. /\ \A i \in 1 .. m : a[i].from =< a[i].to /\ a[i].to - a[i].from =< a[i].interval
          /\ \A i \in 1 .. m - 1 : a[i].to = a[i + 1].from
      BY ChainParts
    <2>4. /\ \A i \in 1 .. n : b[i].from =< b[i].to /\ b[i].to - b[i].from =< b[i].interval
          /\ \A i \in 1 .. n - 1 : b[i].to = b[i + 1].from
      BY ChainParts
    <2> HIDE DEF c, m, n
    <2>5. ASSUME NEW i \in 1 .. Len(c)
          PROVE  c[i].from =< c[i].to /\ c[i].to - c[i].from =< c[i].interval
      <3>1. CASE i =< m
        <4>1. i \in 1 .. m /\ i \in 1 .. m + n
          BY <2>1, <2>2, <3>1
        <4>2. c[i] = a[i]
          BY <2>2, <3>1, <4>1
        <4>3. QED
          BY <2>3, <4>1, <4>2
      <3>2. CASE i > m
        <4>1. i - m \in 1 .. n /\ c[i] = b[i - m]
          BY <2>1, <2>2, <3>2
        <4>2. QED
          BY <2>4, <4>1
      <3>3. QED
        BY <2>1, <2>2, <3>1, <3>2
    <2>6. ASSUME NEW i \in 1 .. Len(c) - 1
          PROVE  c[i].to = c[i + 1].from
      <3>1. CASE i < m
        <4>1. /\ i \in 1 .. m - 1 /\ i \in 1 .. m + n /\ i + 1 \in 1 .. m + n
              /\ i =< m /\ i + 1 =< m
          BY <2>1, <2>2, <3>1
        <4>2. c[i] = a[i] /\ c[i + 1] = a[i + 1]
          BY <2>2, <4>1
        <4>3. QED
          BY <2>3, <4>1, <4>2
      <3>2. CASE i = m
        <4>1. c[i] = a[m] /\ c[i + 1] = b[1]
          BY <2>1, <2>2, <3>2
        <4>2. QED
          BY <2>1, <4>1
      <3>3. CASE i > m
        <4>1. i - m \in 1 .. n - 1 /\ c[i] = b[i - m] /\ c[i + 1] = b[(i - m) + 1]
          <5>1. i \in 1 .. m + n /\ i + 1 \in 1 .. m + n /\ ~(i =< m) /\ ~(i + 1 =< m)
            BY <2>1, <2>2, <3>3
          <5>2. (i + 1) - m = (i - m) + 1 /\ i - m \in 1 .. n - 1
            BY <2>1, <2>2, <3>3
          <5>3. c[i] = b[i - m] /\ c[i + 1] = b[(i + 1) - m]
            BY <2>2, <5>1
          <5>4. QED
            BY <5>2, <5>3
        <4>2. QED
          BY <2>4, <4>1
      <3>4. QED
        BY <2>1, <2>2, <3>1, <3>2, <3>3
    <2>7. c # <<>> /\ c[1] = a[1] /\ c[Len(c)] = b[n]
      <3>1. c[1] = a[1]
        BY <2>1, <2>2
      <3>2. m + n \in 1 .. m + n /\ ~(m + n =< m) /\ (m + n) - m = n
        BY <2>1
      <3>3. c[Len(c)] = b[n]
        BY <2>2, <3>2
      <3>4. Len(c) # 0
        BY <2>1, <2>2
      <3>5. QED
        BY <3>1, <3>3, <3>4, EmptySeq
    <2>8. Chain(c, x, z)
      BY <2>1, <2>2, <2>5, <2>6, <2>7, ChainMade
    <2>9. QED
      BY <2>8 DEF c
  <1>4. QED
    BY <1>1, <1>2, <1>3

(* A block that fits is a chain of its own.                                  *)
LEMMA ChainOne ==
  ASSUME NEW b \in Block, Fit(b)
  PROVE  Chain(<<b>>, b.from, b.to)
  <1>1. <<b>> \in Seq(Block) /\ Len(<<b>>) = 1 /\ <<b>>[1] = b /\ <<b>> # <<>>
    OBVIOUS
  <1>2. b.from \in Nat /\ b.to \in Nat
    BY BlockFields
  <1>3. \A i \in 1 .. Len(<<b>>) : <<b>>[i] = b
    BY <1>1
  <1>4. \A i \in 1 .. Len(<<b>>) - 1 : <<b>>[i].to = <<b>>[i + 1].from
    BY <1>1
  <1> DEFINE q == <<b>>
  <1>5. /\ q \in Seq(Block) /\ Len(q) = 1 /\ q # <<>> /\ q[1] = b /\ q[Len(q)] = b
        /\ \A i \in 1 .. Len(q) : q[i] = b
        /\ \A i \in 1 .. Len(q) - 1 : q[i].to = q[i + 1].from
    BY <1>1, <1>3, <1>4
  <1> HIDE DEF q
  <1>6. Chain(q, b.from, b.to)
    BY <1>2, <1>5 DEF Chain, Tiles
  <1>7. QED
    BY <1>6 DEF q

(* A block that starts where a chain ends makes it longer.                   *)
LEMMA ChainAppend ==
  ASSUME NEW q, NEW x, NEW y, Chain(q, x, y), NEW b \in Block, Fit(b), b.from = y
  PROVE  Chain(Append(q, b), x, b.to)
  <1>1. Chain(<<b>>, y, b.to)
    BY ChainOne
  <1>2. Chain(q \o <<b>>, x, b.to)
    BY <1>1, ChainJoin
  <1>3. q \in Seq(Block)
    BY ChainParts
  <1>4. q \o <<b>> = Append(q, b)
    BY <1>3
  <1>5. QED
    BY <1>2, <1>4

(* A chain comes apart at any of its blocks.                                 *)
LEMMA ChainCut ==
  ASSUME NEW q, NEW x, NEW y, Chain(q, x, y), NEW n \in 0 .. Len(q)
  PROVE  \E m \in Nat : /\ Chain(SubSeq(q, 1, n), x, m)
                        /\ Chain(SubSeq(q, n + 1, Len(q)), m, y)
  <1> DEFINE a == SubSeq(q, 1, n)
             b == SubSeq(q, n + 1, Len(q))
             N == Len(q)
  <1>1. /\ q \in Seq(Block) /\ N \in Nat /\ x \in Nat /\ y \in Nat
        /\ q # <<>> => N \in Nat \ {0} /\ q[1].from = x /\ q[N].to = y
        /\ q = <<>> => N = 0 /\ x = y
        /\ \A i \in 1 .. N : /\ q[i] \in Block /\ q[i].from =< q[i].to
                             /\ q[i].to - q[i].from =< q[i].interval
                             /\ q[i].from \in Nat /\ q[i].to \in Nat
        /\ \A i \in 1 .. N - 1 : q[i].to = q[i + 1].from
    BY ChainParts
  <1>2. n \in Nat /\ n =< N
    BY <1>1
  <1>3. /\ a \in Seq(Block) /\ Len(a) = n /\ \A i \in 1 .. n : a[i] = q[i]
    <2>1. \A i \in 1 .. n : q[i] \in Block
      BY <1>1, <1>2
    <2>2. /\ a \in Seq(Block) /\ Len(a) = IF 1 =< n THEN n - 1 + 1 ELSE 0
          /\ \A i \in 1 .. n - 1 + 1 : a[i] = q[1 + i - 1]
      BY <1>2, <2>1, SubSeqProperties
    <2>3. n - 1 + 1 = n /\ \A i \in 1 .. n : 1 + i - 1 = i
      BY <1>2
    <2>4. QED
      BY <1>2, <2>2, <2>3
  <1>4. /\ b \in Seq(Block) /\ Len(b) = N - n /\ \A i \in 1 .. N - n : b[i] = q[n + i]
    <2>1. \A i \in n + 1 .. N : q[i] \in Block
      BY <1>1, <1>2
    <2>2. /\ b \in Seq(Block) /\ Len(b) = IF n + 1 =< N THEN N - (n + 1) + 1 ELSE 0
          /\ \A i \in 1 .. N - (n + 1) + 1 : b[i] = q[(n + 1) + i - 1]
      <3>1. n + 1 \in Int /\ N \in Int
        BY <1>1, <1>2
      <3>2. QED
        BY <2>1, <3>1, SubSeqProperties
    <2>3. N - (n + 1) + 1 = N - n /\ \A i \in 1 .. N - n : (n + 1) + i - 1 = n + i
      BY <1>1, <1>2
    <2>4. N \in Nat /\ n \in Nat /\ (n + 1 =< N \/ n = N)
      BY <1>1, <1>2
    <2> HIDE DEF N
    <2>5. Len(b) = N - n
      BY <2>2, <2>3, <2>4
    <2>6. QED
      BY <2>2, <2>3, <2>5
  <1> DEFINE m == IF n = 0 THEN x ELSE q[n].to
  <1> HIDE DEF a, b, N
  <1>5. m \in Nat
    BY <1>1, <1>2
  <1>6. Chain(a, x, m)
    <2>1. a = <<>> <=> n = 0
      BY <1>2, <1>3, EmptySeq
    <2>2. a # <<>> => a[1].from = x /\ a[Len(a)].to = m
      <3> HAVE a # <<>>
      <3>1. n # 0 /\ 1 \in 1 .. n /\ n \in 1 .. n
        BY <1>2, <2>1
      <3>2. q # <<>>
        BY <1>1, <1>2, <3>1
      <3>3. a[1] = q[1] /\ a[Len(a)] = q[n] /\ m = q[n].to
        BY <1>3, <3>1
      <3>4. QED
        BY <1>1, <3>2, <3>3
    <2>3. \A i \in 1 .. Len(a) : /\ a[i].from =< a[i].to
                                 /\ a[i].to - a[i].from =< a[i].interval
      <3> TAKE i \in 1 .. Len(a)
      <3>1. i \in 1 .. n /\ i \in 1 .. N /\ a[i] = q[i]
        BY <1>1, <1>2, <1>3
      <3>2. QED
        BY <1>1, <3>1
    <2>4. \A i \in 1 .. Len(a) - 1 : a[i].to = a[i + 1].from
      <3> TAKE i \in 1 .. Len(a) - 1
      <3>1. i \in 1 .. N - 1 /\ a[i] = q[i] /\ a[i + 1] = q[i + 1]
        BY <1>1, <1>2, <1>3
      <3>2. QED
        BY <1>1, <3>1
    <2>5. n = 0 => x = m
      OBVIOUS
    <2> HIDE DEF m
    <2>6. QED
      BY <1>1, <1>3, <1>5, <2>1, <2>2, <2>3, <2>4, <2>5, ChainMade
  <1>7. Chain(b, m, y)
    <2>1. b = <<>> <=> n = N
      BY <1>1, <1>2, <1>4, EmptySeq
    <2>2. b # <<>> => b[1].from = m /\ b[Len(b)].to = y
      <3> HAVE b # <<>>
      <3>1. n # N /\ N - n \in 1 .. N - n /\ 1 \in 1 .. N - n /\ n + (N - n) = N /\ N # 0
        BY <1>1, <1>2, <2>1
      <3>2. b[1] = q[n + 1] /\ b[Len(b)] = q[N]
        BY <1>4, <3>1
      <3>3. q # <<>>
        BY <1>1, <3>1
      <3>4. q[n + 1].from = m
        <4>1. CASE n = 0
          BY <1>1, <3>3, <4>1
        <4>2. CASE n # 0
          <5>1. n \in 1 .. N - 1
            BY <1>1, <1>2, <3>1, <4>2
          <5>2. q[n].to = q[n + 1].from
            BY <1>1, <5>1
          <5>3. QED
            BY <4>2, <5>2
        <4>3. QED
          BY <4>1, <4>2
      <3>5. QED
        BY <1>1, <3>2, <3>3, <3>4
    <2>3. \A i \in 1 .. Len(b) : /\ b[i].from =< b[i].to
                                 /\ b[i].to - b[i].from =< b[i].interval
      <3> TAKE i \in 1 .. Len(b)
      <3>1. i \in 1 .. N - n /\ n + i \in 1 .. N /\ b[i] = q[n + i]
        BY <1>1, <1>2, <1>4
      <3>2. QED
        BY <1>1, <3>1
    <2>4. \A i \in 1 .. Len(b) - 1 : b[i].to = b[i + 1].from
      <3> TAKE i \in 1 .. Len(b) - 1
      <3>1. /\ n + i \in 1 .. N - 1 /\ i \in 1 .. N - n /\ i + 1 \in 1 .. N - n
            /\ n + (i + 1) = (n + i) + 1
        BY <1>1, <1>2, <1>4
      <3>2. b[i] = q[n + i] /\ b[i + 1] = q[(n + i) + 1]
        BY <1>4, <3>1
      <3>3. QED
        BY <1>1, <3>1, <3>2
    <2>5. n = N => m = y
      <3> HAVE n = N
      <3>1. CASE N = 0
        <4>1. q = <<>>
          BY <1>1, <3>1
        <4>2. QED
          BY <1>1, <3>1, <4>1
      <3>2. CASE N # 0
        <4>1. q # <<>>
          BY <1>1, <3>2
        <4>2. QED
          BY <1>1, <3>2, <4>1
      <3>3. QED
        BY <3>1, <3>2
    <2> HIDE DEF m
    <2>6. QED
      BY <1>1, <1>4, <1>5, <2>1, <2>2, <2>3, <2>4, <2>5, ChainMade
  <1>8. QED
    BY <1>5, <1>6, <1>7 DEF a, b, N

(* A function on 1 .. n is a sequence of n elements.                         *)
LEMMA SeqMade ==
  ASSUME NEW n \in Nat, NEW S, NEW f \in [1 .. n -> S]
  PROVE  f \in Seq(S) /\ Len(f) = n
  <1>1. f \in Seq(S)
    BY SeqDef
  <1>2. Len(f) \in Nat /\ 1 .. Len(f) = 1 .. n
    BY <1>1, LenProperties
  <1>3. QED
    BY <1>1, <1>2

(* What is cut at the last activity: from the same beginning, a chain whose  *)
(* blocks end with the activity at the latest, and which keeps all the time  *)
(* before it.                                                                *)
LEMMA CutChain ==
  ASSUME NEW q, NEW x, NEW y, Chain(q, x, y), q # <<>>, NEW last \in Nat
  PROVE  /\ \E z \in Nat : /\ Chain(CutAtLastActivity(q, last), x, z)
                           /\ z =< y /\ (z >= last \/ z = y)
         /\ \A i \in 1 .. Len(CutAtLastActivity(q, last)) :
              CutAtLastActivity(q, last)[i].to =< last
  <1> DEFINE N == Len(q)
             left == {i \in DOMAIN q : q[i].to =< last \/ q[i].from < last}
             n == Cardinality(left)
             r == [i \in 1 .. n |-> [q[i] EXCEPT !.to = Earliest(@, last)]]
  <1>0. CutAtLastActivity(q, last) = r
    BY DEF CutAtLastActivity
  <1>1. /\ q \in Seq(Block) /\ N \in Nat \ {0} /\ x \in Nat /\ y \in Nat
        /\ q[1].from = x /\ q[N].to = y /\ DOMAIN q = 1 .. N
        /\ \A i \in 1 .. N : /\ q[i] \in Block /\ q[i].from =< q[i].to
                             /\ q[i].to - q[i].from =< q[i].interval
                             /\ q[i].from \in Nat /\ q[i].to \in Nat
                             /\ q[i].interval \in Nat
        /\ \A i \in 1 .. N - 1 : q[i].to = q[i + 1].from
    <2>1. q \in Seq(Block)
      BY ChainParts
    <2>2. DOMAIN q = 1 .. N
      BY <2>1, LenProperties
    <2>3. \A i \in 1 .. N : q[i] \in Block
      BY ChainParts
    <2>4. \A i \in 1 .. N : q[i].interval \in Nat
      BY <2>3, BlockFields
    <2>5. QED
      BY <2>1, <2>2, <2>4, ChainParts
  <1>2. /\ x =< y
        /\ \A i, j \in 1 .. N : i < j => q[i].to =< q[j].from
        /\ \A i \in 1 .. N : q[i].to =< y
    BY ChainRises
  <1> HIDE DEF N
  <1>3. left = {i \in 1 .. N : q[i].to =< last \/ q[i].from < last}
    BY <1>1
  <1> HIDE DEF left
  <1>4. \A i, j \in 1 .. N : i < j /\ j \in left => q[i].to =< last
    <2> SUFFICES ASSUME NEW i \in 1 .. N, NEW j \in 1 .. N, i < j, j \in left
                 PROVE  q[i].to =< last
      OBVIOUS
    <2>1. q[i].to =< q[j].from /\ q[j].from =< q[j].to
      BY <1>1, <1>2
    <2>2. q[j].to =< last \/ q[j].from < last
      BY <1>3
    <2>3. q[i].to \in Nat /\ q[j].from \in Nat /\ q[j].to \in Nat
      BY <1>1
    <2>4. QED
      BY <2>1, <2>2, <2>3
  <1>5. n \in 0 .. N /\ left = 1 .. n
    <2>1. left \subseteq 1 .. N
      BY <1>3
    <2>2. \A i \in 1 .. N : \A j \in left : i =< j => i \in left
      <3> TAKE i \in 1 .. N
      <3> TAKE j \in left
      <3> HAVE i =< j
      <3>1. j \in 1 .. N /\ (i = j \/ i < j)
        BY <1>1, <2>1
      <3>2. i < j => q[i].to =< last
        BY <1>4, <3>1
      <3>3. QED
        BY <1>3, <3>1, <3>2
    <2>3. QED
      BY <1>1, <2>1, <2>2, PrefixCount
  <1> HIDE DEF n
  <1>6. ASSUME NEW i \in 1 .. n
        PROVE  /\ i \in 1 .. N /\ r[i] \in Block
               /\ r[i].from = q[i].from /\ r[i].interval = q[i].interval
               /\ r[i].to = Earliest(q[i].to, last)
    <2>1. i \in 1 .. N
      BY <1>1, <1>5
    <2>2. r[i] = [q[i] EXCEPT !.to = Earliest(@, last)]
      OBVIOUS
    <2>3. q[i] \in Block
      BY <1>1, <2>1
    <2>4. Earliest(q[i].to, last) \in Nat
      BY <1>1, <2>1 DEF Earliest
    <2>5. r[i].from = q[i].from /\ r[i].interval = q[i].interval /\ r[i].idle = q[i].idle
          /\ r[i].to = Earliest(q[i].to, last)
      BY <2>2, <2>3 DEF Block
    <2>6. r[i] \in Block
      BY <2>2, <2>3, <2>4 DEF Block
    <2>7. QED
      BY <2>1, <2>5, <2>6
  <1>7. r \in Seq(Block) /\ Len(r) = n
    <2>1. n \in Nat
      BY <1>1, <1>5
    <2>2. r \in [1 .. n -> Block]
      BY <1>6
    <2>3. QED
      BY <2>1, <2>2, SeqMade
  <1> HIDE DEF r
  <1>8. \A i \in 1 .. Len(r) : /\ r[i].from =< r[i].to
                               /\ r[i].to - r[i].from =< r[i].interval
                               /\ r[i].to =< last /\ r[i].to \in Nat
    <2> TAKE i \in 1 .. Len(r)
    <2>1. /\ i \in 1 .. N /\ i \in left
          /\ r[i].from = q[i].from /\ r[i].interval = q[i].interval
          /\ r[i].to = Earliest(q[i].to, last)
      BY <1>5, <1>6, <1>7
    <2>2. q[i].to =< last \/ q[i].from < last
      BY <1>3, <2>1
    <2>3. /\ q[i].from =< q[i].to /\ q[i].to - q[i].from =< q[i].interval
          /\ q[i].from \in Nat /\ q[i].to \in Nat /\ q[i].interval \in Nat
      BY <1>1, <2>1
    <2>4. QED
      BY <2>1, <2>2, <2>3 DEF Earliest
  <1>9. \A i \in 1 .. Len(r) - 1 : r[i].to = r[i + 1].from
    <2> TAKE i \in 1 .. Len(r) - 1
    <2>1. i \in 1 .. n /\ i + 1 \in 1 .. n /\ i < i + 1
      BY <1>5, <1>7
    <2>2. i \in 1 .. N /\ i + 1 \in 1 .. N /\ i + 1 \in left
      BY <1>5, <1>6, <2>1
    <2>3. q[i].to =< last
      BY <1>4, <2>1, <2>2
    <2>4. r[i].to = q[i].to
      BY <1>6, <2>1, <2>3 DEF Earliest
    <2>5. i \in 1 .. N - 1
      BY <1>1, <2>2
    <2>6. QED
      BY <1>1, <1>6, <2>1, <2>4, <2>5
  <1> DEFINE z == IF n = 0 THEN x ELSE r[n].to
  <1>10. n \in Nat /\ n =< N /\ (n # 0 => n \in 1 .. n /\ 1 \in 1 .. n)
    BY <1>1, <1>5
  <1>11. z \in Nat /\ z =< y /\ (z >= last \/ z = y)
    <2>1. CASE n = N
      <3>1. r[N].to = Earliest(q[N].to, last)
        BY <1>1, <1>6, <2>1
      <3>2. QED
        BY <1>1, <2>1, <3>1 DEF Earliest
    <2>2. CASE n # N
      <3>1. n + 1 \in 1 .. N /\ n + 1 \notin left
        BY <1>1, <1>5, <1>10, <2>2
      <3>2. q[n + 1].from >= last
        BY <1>1, <1>3, <3>1
      <3>3. CASE n = 0
        BY <1>1, <1>2, <3>2, <3>3
      <3>4. CASE n # 0
        <4>1. n \in 1 .. N - 1 /\ n \in 1 .. N /\ n \in 1 .. n
          BY <1>1, <1>10, <2>2, <3>4
        <4>2. q[n].to >= last /\ q[n].to \in Nat
          BY <1>1, <3>2, <4>1
        <4>3. r[n].to = Earliest(q[n].to, last) /\ q[n].to =< y
          BY <1>2, <1>6, <4>1
        <4>4. r[n].to = last /\ last =< y
          BY <1>1, <4>2, <4>3 DEF Earliest
        <4>5. QED
          BY <3>4, <4>4
      <3>5. QED
        BY <3>3, <3>4
    <2>3. QED
      BY <2>1, <2>2
  <1>12. Chain(r, x, z)
    <2>1. r = <<>> <=> n = 0
      BY <1>7, <1>10, EmptySeq
    <2>2. r # <<>> => r[1].from = x /\ r[Len(r)].to = z
      BY <1>1, <1>6, <1>7, <1>10, <2>1
    <2>3. r = <<>> => x = z
      BY <2>1
    <2> HIDE DEF z
    <2>4. QED
      BY <1>1, <1>7, <1>8, <1>9, <1>11, <2>2, <2>3, ChainMade
  <1>13. \A i \in 1 .. Len(r) : r[i].to =< last
    BY <1>8
  <1>14. QED
    <2> HIDE DEF z
    <2>1. QED
      BY <1>0, <1>11, <1>12, <1>13

(* Of a chain, the blocks that end with the user active are its first ones,  *)
(* as many as Active counts.                                                 *)
LEMMA ActiveIsPrefix ==
  ASSUME NEW s, NEW q, NEW x, NEW y, Chain(q, x, y), NEW activity \in Nat
  PROVE  \E n \in 0 .. Len(q) :
           /\ Active(s, q, activity) = SubSeq(q, 1, n)
           /\ Holding(s) => n = 0
           /\ \A i \in 1 .. n : q[i].to - activity =< HoldGrace
  <1>1. q \in Seq(Block) /\ Len(q) \in Nat
    BY ChainParts
  <1>2. CASE Holding(s)
    <2>1. Active(s, q, activity) = <<>>
      BY <1>2 DEF Active
    <2>2. SubSeq(q, 1, 0) = <<>>
      BY SubSeqEmpty
    <2>3. 0 \in 0 .. Len(q) /\ 1 .. 0 = {}
      BY <1>1
    <2>4. QED
      BY <2>1, <2>2, <2>3
  <1>3. CASE ~Holding(s)
    <2> DEFINE S == {i \in DOMAIN q : q[i].to - activity =< HoldGrace}
    <2>1. Active(s, q, activity) = SubSeq(q, 1, Cardinality(S))
      BY <1>3 DEF Active
    <2>2. S = {i \in 1 .. Len(q) : q[i].to - activity =< HoldGrace}
      BY <1>1, LenProperties
    <2> HIDE DEF S
    <2>3. \A i \in 1 .. Len(q) : \A j \in S : i =< j => i \in S
      <3> TAKE i \in 1 .. Len(q)
      <3> TAKE j \in S
      <3> HAVE i =< j
      <3>1. j \in 1 .. Len(q) /\ q[j].to - activity =< HoldGrace
        BY <2>2
      <3>2. q[i].to =< q[j].to
        BY <3>1, ChainRises
      <3>3. q[i].to \in Nat /\ q[j].to \in Nat
        BY <3>1, ChainParts
      <3>4. QED
        BY <2>2, <3>1, <3>2, <3>3, BlocksAssumption
    <2>4. S \subseteq 1 .. Len(q)
      BY <2>2
    <2>5. Cardinality(S) \in 0 .. Len(q) /\ S = 1 .. Cardinality(S)
      BY <1>1, <2>3, <2>4, PrefixCount
    <2>6. \A i \in 1 .. Cardinality(S) : q[i].to - activity =< HoldGrace
      BY <2>2, <2>5
    <2>7. QED
      BY <1>3, <2>1, <2>5, <2>6
  <1>4. QED
    BY <1>2, <1>3

-------------------------------------------------------------------------------
(* The stretch and its boundaries *)

(* What a stretch is made of.                                                *)
LEMMA StretchFields ==
  ASSUME NEW s \in Stretch
  PROVE  /\ s.since \in Nat /\ s.start \in Nat /\ s.heldActivity \in Nat
         /\ s.open \in Policies /\ s.next \in Policies /\ s.held \in Seq(Block)
         /\ s.open.interval \in Nat \ {0} /\ s.next.interval \in Nat \ {0}
         /\ s.open.idle \in Nat \cup {Off} /\ s.next.idle \in Nat \cup {Off}
  <1>1. /\ s.since \in Nat /\ s.start \in Nat /\ s.heldActivity \in Nat
        /\ s.open \in Policies /\ s.next \in Policies /\ s.held \in Seq(Block)
    BY DEF Stretch
  <1>2. \A p \in Policies : p.interval \in Nat \ {0} /\ p.idle \in Nat \cup {Off}
    BY BlocksAssumption
  <1>3. QED
    BY <1>1, <1>2

(* A finished block is a block, and fits when its time is within the interval. *)
LEMMA FinishMade ==
  ASSUME NEW from \in Nat, NEW to \in Nat, NEW p \in Policies
  PROVE  /\ Finish(from, to, p) \in Block
         /\ Finish(from, to, p).from = from /\ Finish(from, to, p).to = Latest(from, to)
         /\ Latest(from, to) \in Nat
         /\ to < from + p.interval => Fit(Finish(from, to, p))
         /\ to =< from + p.interval => Fit(Finish(from, to, p))
  <1>1. p.interval \in Nat \ {0} /\ p.idle \in Nat \cup {Off}
    BY BlocksAssumption
  <1>2. Latest(from, to) \in Nat
    BY DEF Latest
  <1>3. /\ Finish(from, to, p).from = from /\ Finish(from, to, p).to = Latest(from, to)
        /\ Finish(from, to, p).interval = p.interval
    BY DEF Finish
  <1>4. Finish(from, to, p) \in Block
    BY <1>1, <1>2 DEF Finish, Block
  <1>5. ASSUME to =< from + p.interval PROVE Fit(Finish(from, to, p))
    <2>1. from =< Latest(from, to) /\ Latest(from, to) - from =< p.interval
      BY <1>1, <1>5 DEF Latest
    <2>2. QED
      BY <1>3, <2>1 DEF Fit
  <1>6. to < from + p.interval => to =< from + p.interval
    BY <1>1
  <1>7. QED
    BY <1>2, <1>3, <1>4, <1>5, <1>6

(* The boundaries are instants, an interval of the policy apart.             *)
LEMMA BoundarySteps ==
  ASSUME NEW s \in Stretch, NEW k \in Nat \ {0}
  PROVE  /\ Boundary(s, k) \in Nat
         /\ Boundary(s, k + 1) = Boundary(s, k) + s.next.interval
         /\ Boundary(s, 1) = s.start + s.open.interval
  <1>1. s.start \in Nat /\ s.open.interval \in Nat /\ s.next.interval \in Nat
    BY StretchFields
  <1>2. \A a \in Nat, b \in Nat : a * b \in Nat /\ (a + 1) * b = a * b + b /\ 0 * b = 0
    BY SMT
  <1>3. k - 1 \in Nat /\ (k + 1) - 1 = (k - 1) + 1 /\ 1 - 1 = 0
    OBVIOUS
  <1> DEFINE c == k - 1
             i == s.next.interval
  <1>4. /\ Boundary(s, k) = s.start + s.open.interval + c * i
        /\ Boundary(s, k + 1) = s.start + s.open.interval + (c + 1) * i
        /\ Boundary(s, 1) = s.start + s.open.interval + 0 * i
    BY <1>3 DEF Boundary
  <1>5. c \in Nat /\ i \in Nat
    BY <1>1, <1>3
  <1> HIDE DEF c
  <1>6. c * i \in Nat /\ (c + 1) * i = c * i + i /\ 0 * i = 0
    BY <1>2, <1>5
  <1> HIDE DEF i
  <1>7. QED
    <2> DEFINE t == c * i
    <2>1. t \in Nat /\ (c + 1) * i = t + i
      BY <1>6
    <2>2. Boundary(s, k) = s.start + s.open.interval + t
      BY <1>4
    <2> HIDE DEF t
    <2>3. QED
      BY <1>1, <1>4, <1>5, <1>6, <2>1, <2>2 DEF i

(* roll passes exactly the boundaries up to its moment.                      *)
LEMMA BoundariesUpTo ==
  ASSUME NEW s \in Stretch, NEW until \in Nat
  PROVE  /\ Boundaries(s, until) \in Nat
         /\ Boundaries(s, until) = 0 => s.start + s.open.interval > until
         /\ Boundaries(s, until) # 0 =>
              /\ Boundary(s, Boundaries(s, until)) \in Nat
              /\ Boundary(s, Boundaries(s, until)) =< until
              /\ Boundary(s, Boundaries(s, until)) + s.next.interval > until
  <1> DEFINE i == s.next.interval
             f == s.start + s.open.interval
             n == Boundaries(s, until)
  <1>1. i \in Nat \ {0} /\ f \in Nat /\ Boundary(s, 1) = f
    <2>1. s.start \in Nat /\ s.open.interval \in Nat /\ i \in Nat \ {0}
      BY StretchFields
    <2>2. Boundary(s, 1) = s.start + s.open.interval
      BY BoundarySteps
    <2>3. QED
      BY <2>1, <2>2
  <1>2. n = IF Boundary(s, 1) > until THEN 0 ELSE 1 + (until - Boundary(s, 1)) \div i
    BY DEF Boundaries
  <1>3. \A k : Boundary(s, k) = f + (k - 1) * i
    BY DEF Boundary
  <1> HIDE DEF i, f, n
  <1>4. CASE f > until
    <2>1. n = 0
      BY <1>1, <1>2, <1>4
    <2>2. QED
      BY <1>4, <2>1 DEF f, n
  <1>5. CASE ~(f > until)
    <2> DEFINE a == until - f
               d == a \div i
    <2>1. a \in Nat
      BY <1>1, <1>5
    <2>2. n = 1 + d
      BY <1>1, <1>2, <1>5
    <2> HIDE DEF a
    <2>3. d \in Nat /\ d * i =< a /\ a < d * i + i /\ d * i \in Nat
      BY <1>1, <2>1, SMT
    <2> HIDE DEF d
    <2>4. n \in Nat /\ n # 0 /\ n - 1 = d
      BY <2>2, <2>3
    <2>5. Boundary(s, n) = f + d * i
      BY <1>3, <2>4
    <2> DEFINE t == d * i
    <2>6. t \in Nat /\ t =< a /\ a < t + i /\ Boundary(s, n) = f + t
      BY <2>3, <2>5
    <2> HIDE DEF t
    <2>7. Boundary(s, n) \in Nat /\ Boundary(s, n) =< until /\ Boundary(s, n) + i > until
      BY <1>1, <2>1, <2>6 DEF a
    <2>8. QED
      BY <2>4, <2>7 DEF n, i
  <1>6. QED
    BY <1>4, <1>5

(* Moving the open block past the boundaries keeps the rest of the stretch, and *)
(* leaves an open block that began in time and is within its interval.       *)
LEMMA RolledKeeps ==
  ASSUME NEW s \in Stretch, NEW until \in Nat
  PROVE  /\ Rolled(s, until) \in Stretch
         /\ Rolled(s, until).held = s.held /\ Rolled(s, until).since = s.since
         /\ Rolled(s, until).heldActivity = s.heldActivity
         /\ Rolled(s, until).next = s.next
         /\ Rolled(s, until).start =< Latest(s.start, until)
         /\ until < Rolled(s, until).start + Rolled(s, until).open.interval
  <1> DEFINE n == Boundaries(s, until)
             b == Boundary(s, n)
             r == Rolled(s, until)
  <1>1. /\ n \in Nat
        /\ n = 0 => s.start + s.open.interval > until
        /\ n # 0 => b \in Nat /\ b =< until /\ b + s.next.interval > until
    BY BoundariesUpTo
  <1>2. r = IF n = 0 THEN s ELSE [s EXCEPT !.start = b, !.open = s.next]
    BY DEF Rolled
  <1> HIDE DEF n, b, r
  <1>3. s.start \in Nat /\ s.next \in Policies
    BY StretchFields
  <1>4. CASE n = 0
    <2>1. r = s
      BY <1>2, <1>4
    <2>2. s.start =< Latest(s.start, until)
      BY <1>3 DEF Latest
    <2>3. s.start + s.open.interval \in Nat
      BY StretchFields
    <2>4. until < s.start + s.open.interval
      BY <1>1, <1>4, <2>3
    <2>5. QED
      BY <2>1, <2>2, <2>4 DEF r
  <1>5. CASE n # 0
    <2>1. r = [s EXCEPT !.start = b, !.open = s.next]
      BY <1>2, <1>5
    <2>2. b \in Nat /\ b =< until /\ b + s.next.interval > until
      BY <1>1, <1>5
    <2>3. r \in Stretch
      BY <1>3, <2>1, <2>2 DEF Stretch
    <2>4. /\ r.held = s.held /\ r.since = s.since /\ r.heldActivity = s.heldActivity
          /\ r.next = s.next /\ r.start = b /\ r.open = s.next
      BY <2>1 DEF Stretch
    <2>5. b =< Latest(s.start, until)
      BY <1>3, <2>2 DEF Latest
    <2>6. b + s.next.interval \in Nat
      <3>1. s.next.interval \in Nat
        BY StretchFields
      <3>2. QED
        BY <2>2, <3>1
    <2>7. until < b + s.next.interval
      BY <2>2, <2>6
    <2>8. QED
      BY <2>3, <2>4, <2>5, <2>7 DEF r
  <1>6. QED
    BY <1>4, <1>5

(* The blocks roll passes are a chain from the open block to the next one.   *)
LEMMA PassedChain ==
  ASSUME NEW s \in Stretch, NEW until \in Nat
  PROVE  Chain(Passed(s, until), s.start, Rolled(s, until).start)
  <1> DEFINE n == Boundaries(s, until)
             from(k) == IF k = 1 THEN s.start ELSE Boundary(s, k - 1)
             pol(k) == IF k = 1 THEN s.open ELSE s.next
             q == [k \in 1 .. n |-> Finish(from(k), Boundary(s, k), pol(k))]
             y == Rolled(s, until).start
  <1>0. Passed(s, until) = q
    BY DEF Passed
  <1>1. n \in Nat
    BY BoundariesUpTo
  <1>2. n = 0 => y = s.start
    BY DEF Rolled
  <1>3. n # 0 => y = Boundary(s, n)
    <2> HAVE n # 0
    <2>1. Rolled(s, until) = [s EXCEPT !.start = Boundary(s, n), !.open = s.next]
      BY DEF Rolled
    <2>2. QED
      BY <2>1 DEF Stretch
  <1> HIDE DEF n
  <1>4. s.start \in Nat /\ s.open \in Policies /\ s.next \in Policies
    BY StretchFields
  <1>5. y \in Nat
    <2>1. Rolled(s, until) \in Stretch
      BY RolledKeeps
    <2>2. QED
      BY <2>1, StretchFields
  <1> HIDE DEF y
  <1>6. ASSUME NEW k \in 1 .. n
        PROVE  /\ from(k) \in Nat /\ Boundary(s, k) \in Nat /\ pol(k) \in Policies
               /\ Boundary(s, k) = from(k) + pol(k).interval
               /\ from(k) =< Boundary(s, k)
    <2>0. s.open.interval \in Nat /\ s.next.interval \in Nat
      BY StretchFields
    <2>1. k \in Nat \ {0}
      BY <1>1
    <2>2. Boundary(s, k) \in Nat
      BY <2>1, BoundarySteps
    <2>3. CASE k = 1
      <3>1. Boundary(s, k) = s.start + s.open.interval
        BY <2>1, <2>3, BoundarySteps
      <3>2. s.start =< s.start + s.open.interval
        BY <1>4, <2>0
      <3>3. QED
        BY <1>4, <2>2, <2>3, <3>1, <3>2
    <2>4. CASE k # 1
      <3>1. k - 1 \in Nat \ {0} /\ (k - 1) + 1 = k
        BY <2>1, <2>4
      <3>2. /\ Boundary(s, k - 1) \in Nat
            /\ Boundary(s, (k - 1) + 1) = Boundary(s, k - 1) + s.next.interval
        BY <3>1, BoundarySteps
      <3>3. Boundary(s, k) = Boundary(s, k - 1) + s.next.interval
        BY <3>1, <3>2
      <3>4. Boundary(s, k - 1) =< Boundary(s, k - 1) + s.next.interval
        BY <2>0, <3>2
      <3>5. QED
        BY <1>4, <2>2, <2>4, <3>2, <3>3, <3>4
    <2>5. QED
      BY <2>3, <2>4
  <1>7. ASSUME NEW k \in 1 .. n
        PROVE  /\ q[k] \in Block /\ Fit(q[k])
               /\ q[k].from = from(k) /\ q[k].to = Boundary(s, k)
    <2> DEFINE f == from(k)
               b == Boundary(s, k)
               p == pol(k)
    <2>1. q[k] = Finish(f, b, p)
      OBVIOUS
    <2>2. f \in Nat /\ b \in Nat /\ p \in Policies /\ b = f + p.interval /\ f =< b
      BY <1>6
    <2> HIDE DEF q, f, b, p
    <2>3. b =< f + p.interval
      BY <2>2
    <2>4. /\ Finish(f, b, p) \in Block
          /\ Finish(f, b, p).from = f /\ Finish(f, b, p).to = Latest(f, b)
          /\ b =< f + p.interval => Fit(Finish(f, b, p))
      <3>1. f \in Nat /\ b \in Nat /\ p \in Policies
        BY <2>2
      <3>2. QED
        BY <3>1, FinishMade
    <2>5. Latest(f, b) = b
      BY <2>2 DEF Latest
    <2>6. QED
      BY <2>1, <2>3, <2>4, <2>5 DEF f, b
  <1>8. q \in Seq(Block) /\ Len(q) = n
    <2>1. q \in [1 .. n -> Block]
      BY <1>7
    <2>2. QED
      BY <1>1, <2>1, SeqMade
  <1>9. \A k \in 1 .. n - 1 : q[k].to = q[k + 1].from
    <2> TAKE k \in 1 .. n - 1
    <2>1. k \in 1 .. n /\ k + 1 \in 1 .. n /\ k + 1 # 1 /\ (k + 1) - 1 = k
      BY <1>1
    <2>2. q[k].to = Boundary(s, k) /\ q[k + 1].from = from(k + 1)
      BY <1>7, <2>1
    <2>3. from(k + 1) = Boundary(s, k)
      BY <2>1
    <2>4. QED
      BY <2>2, <2>3
  <1>10. q # <<>> => q[1].from = s.start /\ q[Len(q)].to = y
    <2> HAVE q # <<>>
    <2>1. n # 0 /\ 1 \in 1 .. n /\ n \in 1 .. n
      BY <1>1, <1>8, EmptySeq
    <2>2. q[1].from = from(1) /\ q[n].to = Boundary(s, n)
      BY <1>7, <2>1
    <2>3. QED
      BY <1>3, <1>8, <2>1, <2>2
  <1>11. q = <<>> => s.start = y
    BY <1>2, <1>8, EmptySeq
  <1>12. \A k \in 1 .. Len(q) : Fit(q[k])
    BY <1>7, <1>8
  <1> HIDE DEF q
  <1>13. Chain(q, s.start, y)
    BY <1>4, <1>5, <1>8, <1>9, <1>10, <1>11, <1>12 DEF Chain, Tiles
  <1>14. QED
    BY <1>0, <1>13 DEF y

-------------------------------------------------------------------------------
(* The inductive invariant *)

\* Held blocks are a chain to the open block, which began in the past.  They are
\* held for the user's absence since `heldActivity`: it lasts, or there was input
\* after the last of them, and the next tick releases them.
Good(s) ==
  /\ s \in Stretch
  /\ Chain(s.held, UnsavedSince(s), s.start)
  /\ s.start =< now /\ s.since =< now
  /\ Holding(s) => \/ s.heldActivity = ActivityOf(s)
                   \/ s.heldActivity < ActivityOf(s) /\ s.start =< input

Inv ==
  /\ now \in 0 .. MaxTime /\ input \in 0 .. now /\ final \in 0 .. now
  /\ raw \in Seq(Block) /\ \A i \in 1 .. Len(raw) : Fit(raw[i])
  /\ stretch # NoStretch => Good(stretch) /\ UnsavedSince(stretch) = final

Before(q, t) == \A i \in 1 .. Len(q) : q[i].to =< t

(* Joined sequences of blocks end by a moment when both do.                  *)
LEMMA BeforeJoin ==
  ASSUME NEW a \in Seq(Block), NEW b \in Seq(Block), NEW t, Before(a, t), Before(b, t)
  PROVE  Before(a \o b, t)
  <1> SUFFICES ASSUME NEW i \in 1 .. Len(a \o b) PROVE (a \o b)[i].to =< t
    BY DEF Before
  <1>1. /\ Len(a \o b) = Len(a) + Len(b)
        /\ \A j \in 1 .. Len(a) + Len(b) :
             (a \o b)[j] = IF j =< Len(a) THEN a[j] ELSE b[j - Len(a)]
    BY ConcatProperties
  <1>2. Len(a) \in Nat /\ Len(b) \in Nat
    BY LenProperties
  <1>3. CASE i =< Len(a)
    <2>1. i \in 1 .. Len(a) /\ (a \o b)[i] = a[i]
      BY <1>1, <1>2, <1>3
    <2>2. QED
      BY <2>1 DEF Before
  <1>4. CASE i > Len(a)
    <2>1. i - Len(a) \in 1 .. Len(b) /\ (a \o b)[i] = b[i - Len(a)]
      BY <1>1, <1>2, <1>4
    <2>2. QED
      BY <2>1 DEF Before
  <1>5. QED
    BY <1>1, <1>2, <1>3, <1>4

(* What roll passes depends on the open block, its start and the policy only. *)
LEMMA SamePassed ==
  ASSUME NEW s, NEW t, NEW until,
         t.start = s.start, t.open = s.open, t.next = s.next
  PROVE  Passed(t, until) = Passed(s, until)
  <1>1. \A k : Boundary(t, k) = Boundary(s, k)
    BY DEF Boundary
  <1>2. Boundaries(t, until) = Boundaries(s, until)
    BY <1>1 DEF Boundaries
  <1>3. QED
    BY <1>1, <1>2 DEF Passed

(* Releasing and holding blocks touch nothing else of the stretch.           *)
LEMMA Released ==
  ASSUME NEW s \in Stretch
  PROVE  /\ Release(s) \in Stretch
         /\ Release(s).held = <<>>
         /\ Release(s).start = s.start /\ Release(s).since = s.since
         /\ Release(s).open = s.open /\ Release(s).next = s.next
  <1>1. <<>> \in Seq(Block)
    BY EmptySeq
  <1>2. QED
    BY <1>1 DEF Release, Stretch

(* ... with the blocks appended, and the activity kept of the first hold.    *)
LEMMA Held ==
  ASSUME NEW s \in Stretch, NEW q \in Seq(Block), NEW activity \in Nat
  PROVE  /\ Hold(s, q, activity) \in Stretch
         /\ Hold(s, q, activity).held = s.held \o q
         /\ Hold(s, q, activity).start = s.start /\ Hold(s, q, activity).since = s.since
         /\ Hold(s, q, activity).open = s.open /\ Hold(s, q, activity).next = s.next
         /\ Holding(s) => Hold(s, q, activity).heldActivity = s.heldActivity
         /\ ~Holding(s) /\ q # <<>> => Hold(s, q, activity).heldActivity = activity
  <1>1. s.held \in Seq(Block) /\ s.heldActivity \in Nat
    BY StretchFields
  <1>2. s.held \o q \in Seq(Block)
    BY <1>1, ConcatProperties
  <1>3. CASE q = <<>>
    <2>1. Hold(s, q, activity) = s
      BY <1>3 DEF Hold
    <2>2. s.held \o q = s.held
      BY <1>1, <1>3, ConcatEmptySeq
    <2>3. QED
      BY <1>3, <2>1, <2>2
  <1>4. CASE q # <<>>
    <2> DEFINE a == IF Holding(s) THEN s.heldActivity ELSE activity
               l == s.held \o q
    <2>1. Hold(s, q, activity) = [s EXCEPT !.held = l, !.heldActivity = a]
      BY <1>4 DEF Hold
    <2>2. a \in Nat /\ l \in Seq(Block)
      BY <1>1, <1>2
    <2>3. /\ Holding(s) => a = s.heldActivity
          /\ ~Holding(s) => a = activity
      OBVIOUS
    <2> HIDE DEF a, l
    <2>4. /\ Hold(s, q, activity) \in Stretch
          /\ Hold(s, q, activity).held = l
          /\ Hold(s, q, activity).start = s.start /\ Hold(s, q, activity).since = s.since
          /\ Hold(s, q, activity).open = s.open /\ Hold(s, q, activity).next = s.next
          /\ Hold(s, q, activity).heldActivity = a
      BY <2>1, <2>2 DEF Stretch
    <2>5. QED
      BY <2>3, <2>4 DEF l
  <1>5. QED
    BY <1>3, <1>4

(* Where the unsaved time of a stretch begins, from the chain it holds.      *)
LEMMA UnsavedFrom ==
  ASSUME NEW s, NEW x, Chain(s.held, x, s.start)
  PROVE  UnsavedSince(s) = x /\ x \in Nat /\ x =< s.start
  <1>1. /\ s.held # <<>> => s.held[1].from = x
        /\ s.held = <<>> => x = s.start
        /\ x \in Nat
    BY ChainParts
  <1>2. x =< s.start
    BY ChainRises
  <1>3. QED
    BY <1>1, <1>2 DEF UnsavedSince, Holding

(* Everything finished up to a moment: a chain to the open block, which began *)
(* by then or before and is within its interval.                             *)
LEMMA ClosedChain ==
  ASSUME NEW s \in Stretch, NEW x, Chain(s.held, x, s.start), NEW at \in Nat
  PROVE  /\ Closed(s, at).stretch \in Stretch
         /\ Closed(s, at).stretch.held = <<>>
         /\ Closed(s, at).stretch.since = s.since
         /\ Closed(s, at).stretch.start =< Latest(s.start, at)
         /\ at < Closed(s, at).stretch.start + Closed(s, at).stretch.open.interval
         /\ Chain(Closed(s, at).blocks, x, Closed(s, at).stretch.start)
  <1> DEFINE f == Release(s)
             r == Rolled(f, at)
             p == Passed(f, at)
  <1>1. f \in Stretch /\ f.held = <<>> /\ f.start = s.start /\ f.since = s.since
    BY Released
  <1>2. Closed(s, at).stretch = r /\ Closed(s, at).blocks = s.held \o p
    BY DEF Closed
  <1> HIDE DEF f
  <1>3. /\ r \in Stretch /\ r.held = f.held /\ r.since = f.since
        /\ r.start =< Latest(f.start, at) /\ at < r.start + r.open.interval
    BY <1>1, RolledKeeps
  <1>4. Chain(p, f.start, r.start)
    BY <1>1, PassedChain
  <1> HIDE DEF r, p
  <1>5. Chain(p, s.start, r.start)
    BY <1>1, <1>4
  <1>6. Chain(s.held \o p, x, r.start)
    BY <1>5, ChainJoin
  <1>7. QED
    BY <1>1, <1>2, <1>3, <1>6

-------------------------------------------------------------------------------
(* tick *)

\* What a tick lets go of, ends and goes on holding.
LetGo(s) == IF WasWork(s) THEN s.held ELSE <<>>

Unheld(s) == IF WasWork(s) THEN Release(s) ELSE s

Done(s) ==
  IF IdleOn(s) THEN Active(Unheld(s), Passed(Unheld(s), now), ActivityOf(s))
  ELSE Passed(Unheld(s), now)

Later(s) ==
  SubSeq(Passed(Unheld(s), now), Len(Done(s)) + 1, Len(Passed(Unheld(s), now)))

HoldingOn(s) == IF IdleOn(s) THEN Hold(Unheld(s), Later(s), ActivityOf(s)) ELSE Unheld(s)

(* A tick turns what is not yet saved into two chains that meet: what it ends *)
(* for sure, and what it goes on holding.  Of the first no block is of time  *)
(* away, if the policy looks for it.                                         *)
LEMMA TickSplits ==
  ASSUME Inv, stretch # NoStretch
  PROVE  \E k \in Nat :
           /\ Chain(LetGo(stretch) \o Done(stretch), final, k)
           /\ Chain(HoldingOn(stretch).held, k, Rolled(HoldingOn(stretch), now).start)
           /\ HoldingOn(stretch) \in Stretch
           /\ HoldingOn(stretch).start = stretch.start
           /\ HoldingOn(stretch).since = stretch.since
           /\ IdleOn(stretch) => Before(LetGo(stretch) \o Done(stretch),
                                       ActivityOf(stretch) + HoldGrace)
           /\ HoldingOn(stretch).held # <<>> =>
                HoldingOn(stretch).heldActivity = ActivityOf(stretch)
  <1> DEFINE s == stretch
             act == ActivityOf(s)
             released == LetGo(s)
             s1 == Unheld(s)
             passed == Passed(s1, now)
             done == Done(s)
             later == Later(s)
             h == HoldingOn(s)
             r == Rolled(h, now)
  <1>1. /\ s \in Stretch /\ Chain(s.held, final, s.start)
        /\ Holding(s) => s.heldActivity = act \/ (s.heldActivity < act /\ s.start =< input)
        /\ now \in Nat /\ input \in Nat /\ final \in Nat
    BY BlocksAssumption DEF Inv, Good
  <1>2. /\ s.held \in Seq(Block) /\ s.start \in Nat /\ s.since \in Nat
        /\ s.heldActivity \in Nat
    BY <1>1, StretchFields
  <1>3. act \in Nat /\ input =< act /\ act + HoldGrace \in Nat /\ act =< act + HoldGrace
    BY <1>1, <1>2, BlocksAssumption DEF ActivityOf, Latest
  <1>4. /\ s1 \in Stretch /\ s1.start = s.start /\ s1.since = s.since /\ s1.open = s.open
        /\ s1.next = s.next
        /\ WasWork(s) => s1.held = <<>> /\ released = s.held
        /\ ~WasWork(s) => s1 = s /\ released = <<>>
    BY <1>1, Released DEF LetGo, Unheld
  <1>5. Holding(s1) => Holding(s) /\ ~WasWork(s) /\ IdleOn(s)
    BY <1>4 DEF Holding, WasWork
  <1>6. Chain(passed, s1.start, Rolled(s1, now).start)
    BY <1>1, <1>4, PassedChain
  <1>7. passed \in Seq(Block) /\ Len(passed) \in Nat
    BY <1>6, ChainParts
  <1> HIDE DEF act, passed, released, s1, done, later, h
  <1>8. \E n \in 0 .. Len(passed) :
           /\ done = SubSeq(passed, 1, n)
           /\ Holding(s1) => n = 0
           /\ IdleOn(s) => \A i \in 1 .. n : passed[i].to - act =< HoldGrace
           /\ ~IdleOn(s) => n = Len(passed)
    <2>1. CASE IdleOn(s)
      <3>1. done = Active(s1, passed, act)
        BY <2>1 DEF passed, act, done, s1, Done
      <3>2. \E n \in 0 .. Len(passed) :
               /\ Active(s1, passed, act) = SubSeq(passed, 1, n)
               /\ Holding(s1) => n = 0
               /\ \A i \in 1 .. n : passed[i].to - act =< HoldGrace
        BY <1>3, <1>6, ActiveIsPrefix
      <3>3. QED
        BY <2>1, <3>1, <3>2
    <2>2. CASE ~IdleOn(s)
      <3>1. done = passed
        BY <2>2 DEF passed, done, s1, Done
      <3>2. SubSeq(passed, 1, Len(passed)) = passed
        BY <1>7, SubSeqFull
      <3>3. ~Holding(s1)
        BY <1>5, <2>2
      <3>4. Len(passed) \in 0 .. Len(passed)
        BY <1>7
      <3>5. QED
        BY <2>2, <3>1, <3>2, <3>3, <3>4
    <2>3. QED
      BY <2>1, <2>2
  <1>9. PICK n \in 0 .. Len(passed) :
           /\ done = SubSeq(passed, 1, n)
           /\ Holding(s1) => n = 0
           /\ IdleOn(s) => \A i \in 1 .. n : passed[i].to - act =< HoldGrace
           /\ ~IdleOn(s) => n = Len(passed)
    BY <1>8
  <1>10. /\ Len(done) = n
         /\ \A i \in 1 .. n : done[i] = passed[i]
    <2>1. n \in Nat /\ n =< Len(passed)
      BY <1>7, <1>9
    <2>2. \A i \in 1 .. n : passed[i] \in Block
      BY <1>7, <2>1, ElementOfSeq
    <2>3. /\ Len(done) = IF 1 =< n THEN n - 1 + 1 ELSE 0
          /\ \A i \in 1 .. n - 1 + 1 : done[i] = passed[1 + i - 1]
      BY <1>9, <2>1, <2>2, SubSeqProperties
    <2>4. n - 1 + 1 = n /\ \A i \in 1 .. n : 1 + i - 1 = i
      BY <2>1
    <2>5. QED
      BY <2>1, <2>3, <2>4
  <1>11. later = SubSeq(passed, n + 1, Len(passed))
    BY <1>10 DEF passed, later, done, s1, Later
  <1>12. PICK m \in Nat : /\ Chain(done, s1.start, m)
                          /\ Chain(later, m, Rolled(s1, now).start)
    <2>1. \E m \in Nat : /\ Chain(SubSeq(passed, 1, n), s1.start, m)
                         /\ Chain(SubSeq(passed, n + 1, Len(passed)), m,
                                  Rolled(s1, now).start)
      BY <1>6, ChainCut
    <2>2. QED
      BY <1>9, <1>11, <2>1
  <1>13. done \in Seq(Block) /\ later \in Seq(Block)
    BY <1>12, ChainParts
  <1>14. Before(done, act + HoldGrace) \/ ~IdleOn(s)
    <2> SUFFICES ASSUME IdleOn(s) PROVE Before(done, act + HoldGrace)
      OBVIOUS
    <2>1. ASSUME NEW i \in 1 .. Len(done) PROVE done[i].to =< act + HoldGrace
      <3>1. i \in 1 .. n /\ done[i] = passed[i]
        BY <1>10
      <3>2. done[i].to - act =< HoldGrace
        BY <1>9, <3>1
      <3>3. done[i].to \in Nat
        BY <1>12, ChainParts
      <3>4. QED
        BY <1>3, <3>2, <3>3, BlocksAssumption
    <2>2. QED
      BY <2>1 DEF Before
  <1>15. Before(released, act + HoldGrace) \/ ~IdleOn(s)
    <2> SUFFICES ASSUME IdleOn(s) PROVE Before(released, act + HoldGrace)
      OBVIOUS
    <2>1. CASE WasWork(s)
      <3>1. Holding(s) /\ act > s.heldActivity
        BY <2>1 DEF WasWork, act
      <3>2. s.start =< input
        BY <1>1, <1>2, <1>3, <3>1 DEF act
      <3>3. \A i \in 1 .. Len(s.held) : s.held[i].to =< s.start /\ s.held[i].to \in Nat
        BY <1>1, ChainRises, ChainParts
      <3>4. \A i \in 1 .. Len(s.held) : s.held[i].to =< act + HoldGrace
        BY <1>1, <1>2, <1>3, <3>2, <3>3
      <3>5. QED
        BY <1>4, <2>1, <3>4 DEF Before
    <2>2. CASE ~WasWork(s)
      <3>1. Len(released) = 0
        BY <1>4, <2>2, EmptySeq
      <3>2. QED
        BY <3>1 DEF Before
    <2>3. QED
      BY <2>1, <2>2
  <1>16. released \in Seq(Block)
    BY <1>2, <1>4, EmptySeq
  <1>17. IdleOn(s) => Before(released \o done, act + HoldGrace)
    BY <1>13, <1>14, <1>15, <1>16, BeforeJoin
  <1>18. /\ h \in Stretch /\ h.held = s1.held \o later
         /\ h.start = s1.start /\ h.since = s1.since /\ h.open = s1.open /\ h.next = s1.next
         /\ Holding(s1) => h.heldActivity = s1.heldActivity
         /\ ~Holding(s1) /\ h.held # <<>> => h.heldActivity = act
    <2>1. s1.held \in Seq(Block)
      BY <1>4, StretchFields
    <2>2. CASE IdleOn(s)
      <3>1. h = Hold(s1, later, act)
        BY <2>2 DEF act, h, s1, later, HoldingOn
      <3>2. /\ Hold(s1, later, act) \in Stretch
            /\ Hold(s1, later, act).held = s1.held \o later
            /\ Hold(s1, later, act).start = s1.start
            /\ Hold(s1, later, act).since = s1.since
            /\ Hold(s1, later, act).open = s1.open /\ Hold(s1, later, act).next = s1.next
            /\ Holding(s1) => Hold(s1, later, act).heldActivity = s1.heldActivity
            /\ ~Holding(s1) /\ later # <<>> => Hold(s1, later, act).heldActivity = act
        <4>1. s1 \in Stretch /\ later \in Seq(Block) /\ act \in Nat
          BY <1>3, <1>4, <1>13
        <4>2. QED
          BY <4>1, Held
      <3>3. ~Holding(s1) => s1.held \o later = later
        BY <1>13, ConcatEmptySeq DEF Holding
      <3>4. QED
        BY <3>1, <3>2, <3>3
    <2>3. CASE ~IdleOn(s)
      <3>1. h = s1 /\ ~Holding(s1) /\ n = Len(passed)
        BY <1>5, <1>9, <2>3 DEF h, s1, HoldingOn
      <3>2. later = <<>>
        <4>1. n + 1 \in Int /\ Len(passed) \in Int /\ Len(passed) < n + 1
          BY <1>7, <3>1
        <4>2. QED
          BY <1>11, <4>1, SubSeqEmpty
      <3>3. s1.held \o later = s1.held /\ s1.held = <<>>
        BY <2>1, <3>1, <3>2, ConcatEmptySeq DEF Holding
      <3>4. QED
        BY <1>4, <3>1, <3>3
    <2>4. QED
      BY <2>2, <2>3
  <1>19. Chain(later, m, r.start)
    <2>1. Rolled(s1, now).start = r.start
      <3>1. Chain(passed, s1.start, Rolled(s1, now).start)
        BY <1>6
      <3>2. Passed(h, now) = passed
        BY <1>18, SamePassed DEF passed
      <3>3. Chain(passed, s1.start, r.start)
        BY <1>1, <1>18, <3>2, PassedChain
      <3>4. QED
        BY <3>1, <3>3, ChainParts
    <2>2. QED
      BY <1>12, <2>1
  <1>20. h.held # <<>> => h.heldActivity = act
    <2>1. CASE Holding(s1)
      <3>1. Holding(s) /\ ~WasWork(s) /\ IdleOn(s) /\ s1 = s
        BY <1>4, <1>5, <2>1
      <3>2. ~(act > s.heldActivity)
        BY <3>1 DEF WasWork, act
      <3>3. s.heldActivity = act
        BY <1>1, <1>2, <1>3, <3>1, <3>2 DEF act
      <3>4. QED
        BY <1>18, <2>1, <3>1, <3>3
    <2>2. CASE ~Holding(s1)
      BY <1>18, <2>2
    <2>3. QED
      BY <2>1, <2>2
  <1>21. \E k \in Nat : Chain(released \o done, final, k) /\ Chain(h.held, k, r.start)
    <2>1. CASE Holding(s1)
      <3>1. s1 = s /\ released = <<>> /\ n = 0
        BY <1>4, <1>5, <1>9, <2>1
      <3>2. done = <<>>
        BY <1>10, <1>13, <3>1, EmptySeq
      <3>3. released \o done = <<>>
        BY <1>13, <3>1, <3>2, ConcatEmptySeq
      <3>4. m = s.start
        BY <1>12, <3>1, <3>2, ChainParts
      <3>5. Chain(s.held \o later, final, r.start)
        BY <1>1, <1>19, <3>4, ChainJoin
      <3>6. Chain(h.held, final, r.start)
        BY <1>18, <3>1, <3>5
      <3>7. Chain(released \o done, final, final)
        BY <1>1, <3>3, ChainEmpty
      <3>8. QED
        BY <1>1, <3>6, <3>7
    <2>2. CASE ~Holding(s1)
      <3>1. s1.held = <<>>
        BY <2>2 DEF Holding
      <3>2. Chain(released, final, s.start)
        BY <1>1, <1>4, <3>1
      <3>3. Chain(done, s.start, m)
        BY <1>4, <1>12
      <3>4. Chain(released \o done, final, m)
        BY <3>2, <3>3, ChainJoin
      <3>5. h.held = later
        BY <1>13, <1>18, <3>1, ConcatEmptySeq
      <3>6. QED
        BY <1>12, <1>19, <3>4, <3>5
    <2>3. QED
      BY <2>1, <2>2
  <1>22. h.start = s.start /\ h.since = s.since /\ h \in Stretch
    BY <1>4, <1>18
  <1>23. QED
    BY <1>17, <1>20, <1>21, <1>22 DEF act, released, done, h

(* What a tick ends is a chain from where the final time ended; what it leaves *)
(* continues there.  A stretch it ends for inactivity is final at least to the *)
(* last activity, and while idle detection is on nothing it ends is time away. *)
LEMMA TickedChain ==
  ASSUME Inv, stretch # NoStretch
  PROVE  \E m \in Nat :
           /\ Chain(Ticked(stretch).blocks, final, m)
           /\ Ticked(stretch).stretch = NoStretch => ActivityOf(stretch) =< m /\ m =< now
           /\ Ticked(stretch).stretch # NoStretch =>
                /\ Good(Ticked(stretch).stretch)
                /\ UnsavedSince(Ticked(stretch).stretch) = m
           /\ IdleOn(stretch) =>
                Before(Ticked(stretch).blocks, ActivityOf(stretch) + HoldGrace)
  <1> DEFINE s == stretch
             act == ActivityOf(s)
             front == LetGo(s) \o Done(s)
             h == HoldingOn(s)
             r == Rolled(h, now)
             away == r.open.idle # Off /\ now - act >= r.open.idle
             fin == Finish(r.start, now, r.open)
             left == CutAtLastActivity(Append(r.held, fin), act)
             t == Ticked(s)
  <1>1. t = [blocks  |-> front \o (IF away THEN left ELSE <<>>),
             stretch |-> IF away THEN NoStretch ELSE r]
    BY DEF Ticked, LetGo, Done, Later, Unheld, HoldingOn
  <1>2. PICK k \in Nat :
           /\ Chain(front, final, k)
           /\ Chain(h.held, k, r.start)
           /\ h \in Stretch /\ h.start = s.start /\ h.since = s.since
           /\ IdleOn(s) => Before(front, act + HoldGrace)
           /\ h.held # <<>> => h.heldActivity = act
    BY TickSplits
  <1>3. /\ s \in Stretch /\ s.start =< now /\ s.since =< now
        /\ now \in Nat /\ input \in Nat /\ input =< now
    BY BlocksAssumption DEF Inv, Good
  <1>4. s.start \in Nat /\ s.since \in Nat
    BY <1>3, StretchFields
  <1>5. act \in Nat /\ act =< now /\ act = Latest(input, s.since)
    BY <1>3, <1>4 DEF ActivityOf, Latest
  <1> HIDE DEF front, h, act, away, fin, left, r, t
  <1>6. /\ r \in Stretch /\ r.held = h.held /\ r.since = h.since
        /\ r.heldActivity = h.heldActivity
        /\ r.start =< Latest(h.start, now)
        /\ now < r.start + r.open.interval
    BY <1>2, <1>3, RolledKeeps DEF r
  <1>7. r.start \in Nat /\ r.open \in Policies /\ r.start =< now
    <2>1. r.start \in Nat /\ r.open \in Policies
      BY <1>6, StretchFields
    <2>2. Latest(h.start, now) = now
      BY <1>2, <1>3, <1>4 DEF Latest
    <2>3. QED
      BY <1>6, <2>1, <2>2
  <1>8. Chain(r.held, k, r.start)
    BY <1>2, <1>6
  <1>9. CASE away
    <2>1. t.blocks = front \o left /\ t.stretch = NoStretch
      BY <1>1, <1>9
    <2>2. fin \in Block /\ Fit(fin) /\ fin.from = r.start /\ fin.to = now
      <3>1. Latest(r.start, now) = now
        BY <1>3, <1>7 DEF Latest
      <3> DEFINE from == r.start
                 p == r.open
      <3>2. from \in Nat /\ now \in Nat /\ p \in Policies /\ now < from + p.interval
        BY <1>3, <1>6, <1>7
      <3>3. fin = Finish(from, now, p)
        BY DEF fin
      <3> HIDE DEF from, p
      <3>4. /\ Finish(from, now, p) \in Block
            /\ Finish(from, now, p).from = from
            /\ Finish(from, now, p).to = Latest(from, now)
            /\ now < from + p.interval => Fit(Finish(from, now, p))
        BY <3>2, FinishMade
      <3>5. QED
        BY <3>1, <3>2, <3>3, <3>4 DEF from
    <2>3. Chain(Append(r.held, fin), k, now)
      BY <1>8, <2>2, ChainAppend
    <2>4. Append(r.held, fin) # <<>>
      <3>1. r.held \in Seq(Block)
        BY <1>6, StretchFields
      <3>2. QED
        BY <2>2, <3>1
    <2>5. /\ \E z \in Nat : Chain(left, k, z) /\ z =< now /\ (z >= act \/ z = now)
          /\ \A i \in 1 .. Len(left) : left[i].to =< act
      <3> DEFINE q == Append(r.held, fin)
      <3>1. left = CutAtLastActivity(q, act)
        BY DEF left
      <3>2. Chain(q, k, now) /\ q # <<>> /\ act \in Nat
        BY <1>5, <2>3, <2>4
      <3> HIDE DEF q
      <3>3. /\ \E z \in Nat : /\ Chain(CutAtLastActivity(q, act), k, z)
                              /\ z =< now /\ (z >= act \/ z = now)
            /\ \A i \in 1 .. Len(CutAtLastActivity(q, act)) :
                 CutAtLastActivity(q, act)[i].to =< act
        BY <3>2, CutChain
      <3>4. QED
        BY <3>1, <3>3
    <2>6. PICK z \in Nat : Chain(left, k, z) /\ z =< now /\ (z >= act \/ z = now)
      BY <2>5
    <2>7. Chain(t.blocks, final, z)
      BY <1>2, <2>1, <2>6, ChainJoin
    <2>8. act =< z /\ z =< now
      BY <1>3, <1>5, <2>6
    <2>9. IdleOn(s) => Before(t.blocks, act + HoldGrace)
      <3>1. front \in Seq(Block) /\ left \in Seq(Block)
        BY <1>2, <2>6, ChainParts
      <3>2. \A i \in 1 .. Len(left) : left[i].to \in Nat
        BY <2>6, ChainParts
      <3>3. Before(left, act + HoldGrace)
        BY <1>5, <2>5, <3>2, BlocksAssumption DEF Before
      <3>4. QED
        BY <1>2, <2>1, <3>1, <3>3, BeforeJoin
    <2>10. QED
      BY <2>1, <2>6, <2>7, <2>8, <2>9 DEF t, act
  <1>10. CASE ~away
    <2>1. t.blocks = front \o <<>> /\ t.stretch = r
      BY <1>1, <1>10
    <2>2. front \in Seq(Block)
      BY <1>2, ChainParts
    <2>3. t.blocks = front
      BY <2>1, <2>2, ConcatEmptySeq
    <2>4. UnsavedSince(r) = k
      BY <1>8, UnsavedFrom
    <2>5. ActivityOf(r) = act
      BY <1>2, <1>5, <1>6 DEF ActivityOf
    <2>6. Holding(r) => r.heldActivity = ActivityOf(r)
      BY <1>2, <1>6, <2>5 DEF Holding
    <2>7. Good(r)
      BY <1>2, <1>3, <1>6, <1>7, <1>8, <2>4, <2>6 DEF Good
    <2>8. r # NoStretch
      BY <1>6, BlocksAssumption
    <2>9. QED
      BY <1>2, <2>1, <2>3, <2>4, <2>7, <2>8 DEF t, act
  <1>11. QED
    BY <1>9, <1>10

-------------------------------------------------------------------------------
(* The steps *)

\* What a step ends, if anything: a chain from where the final time ended to
\* where it ends now, returned but for what is too short.
Ends ==
  raw' # <<>> =>
    /\ Chain(raw', final, final')
    /\ finished' = {b \in Range(raw') : LongEnough(b)}

(* A call that ends a chain of blocks moves the final time to its end.       *)
LEMMA FinishedChain ==
  ASSUME NEW q, NEW m, Chain(q, final, m), Finished(q)
  PROVE  Ends /\ final' = m /\ raw' = q /\ finished' = {b \in Range(q) : LongEnough(b)}
  <1>1. /\ q = <<>> => m = final
        /\ q # <<>> => q[Len(q)].to = m
    BY ChainParts
  <1>2. /\ raw' = q /\ final' = IF q = <<>> THEN final ELSE q[Len(q)].to
        /\ finished' = {b \in Range(q) : LongEnough(b)}
    BY DEF Finished
  <1>3. final' = m
    BY <1>1, <1>2
  <1>4. QED
    BY <1>2, <1>3 DEF Ends

(* What the invariant asks of a new state in which no block or a chain ended. *)
LEMMA InvMade ==
  ASSUME now' \in 0 .. MaxTime, input' \in 0 .. now', final' \in 0 .. now',
         raw' = <<>> \/ (\E x : Chain(raw', x, final')),
         stretch' # NoStretch => Good(stretch)' /\ UnsavedSince(stretch)' = final'
  PROVE  Inv'
  <1>1. raw' \in Seq(Block) /\ \A i \in 1 .. Len(raw') : Fit(raw'[i])
    <2>1. CASE raw' = <<>>
      <3>1. <<>> \in Seq(Block) /\ Len(<<>>) = 0
        BY EmptySeq
      <3>2. QED
        BY <2>1, <3>1
    <2>2. CASE \E x : Chain(raw', x, final')
      BY <2>2 DEF Chain
    <2>3. QED
      BY <2>1, <2>2
  <1>2. QED
    BY <1>1 DEF Inv

(* Moments a call may be about lie in the past.                              *)
LEMMA MomentsArePast ==
  ASSUME Inv, NEW at \in Moments
  PROVE  at \in Nat /\ at =< now /\ now \in Nat
  <1>1. now \in Nat /\ MaxLag \in Nat
    BY BlocksAssumption DEF Inv
  <1>2. Latest(0, now - MaxLag) \in Nat
    BY <1>1 DEF Latest
  <1>3. QED
    BY <1>1, <1>2 DEF Moments

(* Starting a stretch.                                                       *)
LEMMA StartStep ==
  ASSUME Inv, NEW at \in Moments, NEW p \in Policies, Start(at, p)
  PROVE  Inv' /\ Ends
  <1>1. /\ stretch' = [since |-> at, start |-> at, open |-> p, next |-> p,
                       held |-> <<>>, heldActivity |-> 0]
        /\ final' = at /\ raw' = <<>> /\ now' = now /\ input' = input
    BY DEF Start
  <1>2. at \in Nat /\ at =< now /\ now \in Nat
    BY MomentsArePast
  <1>3. <<>> \in Seq(Block)
    BY EmptySeq
  <1> DEFINE s == [since |-> at, start |-> at, open |-> p, next |-> p,
                   held |-> <<>>, heldActivity |-> 0]
  <1>4. s \in Stretch
    BY <1>2, <1>3 DEF Stretch
  <1>5. s.held = <<>> /\ s.start = at /\ s.since = at
    OBVIOUS
  <1>6. stretch' = s
    BY <1>1
  <1> HIDE DEF s
  <1>7. Chain(s.held, at, s.start)
    BY <1>2, <1>5, ChainEmpty
  <1>8. UnsavedSince(s) = at
    BY <1>7, UnsavedFrom
  <1>9. Good(stretch)' /\ UnsavedSince(stretch)' = at
    BY <1>1, <1>2, <1>4, <1>5, <1>6, <1>7, <1>8 DEF Good, Holding, UnsavedSince
  <1>10. now' \in 0 .. MaxTime /\ input' \in 0 .. now' /\ final' \in 0 .. now'
    BY <1>1, <1>2 DEF Inv
  <1>11. Inv'
    BY <1>1, <1>9, <1>10, InvMade
  <1>12. QED
    BY <1>1, <1>11 DEF Ends

(* A tick.                                                                   *)
LEMMA TickStep ==
  ASSUME Inv, Tick
  PROVE  /\ Inv' /\ Ends
         /\ IdleOn(stretch) =>
              \A b \in finished' : b.to =< ActivityOf(stretch) + HoldGrace
         /\ stretch' = NoStretch => final' >= ActivityOf(stretch)
  <1> DEFINE t == Ticked(stretch)
  <1>1. /\ stretch # NoStretch /\ Finished(t.blocks) /\ stretch' = t.stretch
        /\ now' = now /\ input' = input
    BY DEF Tick
  <1> HIDE DEF t
  <1>2. PICK m \in Nat :
          /\ Chain(t.blocks, final, m)
          /\ t.stretch = NoStretch => ActivityOf(stretch) =< m /\ m =< now
          /\ t.stretch # NoStretch => Good(t.stretch) /\ UnsavedSince(t.stretch) = m
          /\ IdleOn(stretch) => Before(t.blocks, ActivityOf(stretch) + HoldGrace)
    BY <1>1, TickedChain DEF t
  <1>3. /\ Ends /\ final' = m /\ raw' = t.blocks
        /\ finished' = {b \in Range(t.blocks) : LongEnough(b)}
    BY <1>1, <1>2, FinishedChain
  <1>4. now \in 0 .. MaxTime /\ input \in 0 .. now /\ now \in Nat
    BY BlocksAssumption DEF Inv
  <1>5. m =< now
    <2>1. CASE t.stretch = NoStretch
      BY <1>2, <2>1
    <2>2. CASE t.stretch # NoStretch
      <3>1. /\ Chain(t.stretch.held, m, t.stretch.start) /\ t.stretch.start =< now
            /\ t.stretch \in Stretch
        BY <1>2, <2>2 DEF Good
      <3>2. m =< t.stretch.start /\ t.stretch.start \in Nat
        BY <3>1, UnsavedFrom, StretchFields
      <3>3. QED
        BY <1>4, <3>1, <3>2
    <2>3. QED
      BY <2>1, <2>2
  <1>6. stretch' # NoStretch => Good(stretch)' /\ UnsavedSince(stretch)' = final'
    <2> HAVE stretch' # NoStretch
    <2>1. Good(t.stretch) /\ UnsavedSince(t.stretch) = m
      BY <1>1, <1>2
    <2>2. QED
      BY <1>1, <1>3, <2>1 DEF Good, UnsavedSince, Holding, ActivityOf
  <1>7. Inv'
    <2>1. now' \in 0 .. MaxTime /\ input' \in 0 .. now' /\ final' \in 0 .. now'
      BY <1>1, <1>3, <1>4, <1>5
    <2>2. \E x : Chain(raw', x, final')
      BY <1>2, <1>3
    <2>3. QED
      BY <1>6, <2>1, <2>2, InvMade
  <1>8. IdleOn(stretch) => \A b \in finished' : b.to =< ActivityOf(stretch) + HoldGrace
    <2> SUFFICES ASSUME IdleOn(stretch), NEW b \in finished'
                 PROVE  b.to =< ActivityOf(stretch) + HoldGrace
      OBVIOUS
    <2>1. t.blocks \in Seq(Block)
      BY <1>2, ChainParts
    <2>2. PICK i \in 1 .. Len(t.blocks) : b = t.blocks[i]
      BY <1>3, <2>1, LenProperties DEF Range
    <2>3. QED
      BY <1>2, <2>2 DEF Before
  <1>9. stretch' = NoStretch => final' >= ActivityOf(stretch)
    <2> HAVE stretch' = NoStretch
    <2>1. ActivityOf(stretch) =< m
      BY <1>1, <1>2
    <2>2. ActivityOf(stretch) \in Nat
      <3>1. stretch \in Stretch
        BY <1>1 DEF Inv, Good
      <3>2. QED
        BY <1>4, <3>1, StretchFields DEF ActivityOf, Latest
    <2>3. QED
      BY <1>3, <2>1, <2>2
  <1>10. QED
    BY <1>3, <1>7, <1>8, <1>9

(* Everything up to a moment, and the open block ended there.                *)
LEMMA ClosedAt ==
  ASSUME Inv, stretch # NoStretch, NEW at \in Moments, NEW end \in Nat,
         end = at \/ end = Latest(at, Closed(stretch, at).stretch.start)
  PROVE  LET c == Closed(stretch, at)
             q == Append(c.blocks, Finish(c.stretch.start, end, c.stretch.open))
         IN  /\ c.stretch \in Stretch /\ c.stretch.held = <<>> /\ c.stretch.since =< now
             /\ Chain(q, final, Latest(at, c.stretch.start))
             /\ Latest(at, c.stretch.start) \in Nat
             /\ at =< Latest(at, c.stretch.start) /\ Latest(at, c.stretch.start) =< now
  <1> DEFINE c == Closed(stretch, at)
             from == c.stretch.start
             p == c.stretch.open
             last == Latest(at, from)
             b == Finish(from, end, p)
  <1>1. at \in Nat /\ at =< now /\ now \in Nat
    BY MomentsArePast
  <1>2. /\ stretch \in Stretch /\ Chain(stretch.held, final, stretch.start)
        /\ stretch.start =< now /\ stretch.since =< now
    BY DEF Inv, Good
  <1>3. /\ c.stretch \in Stretch /\ c.stretch.held = <<>>
        /\ c.stretch.since = stretch.since
        /\ from =< Latest(stretch.start, at)
        /\ at < from + p.interval
        /\ Chain(c.blocks, final, from)
    BY <1>1, <1>2, ClosedChain
  <1>4. from \in Nat /\ p \in Policies /\ p.interval \in Nat /\ stretch.start \in Nat
    BY <1>2, <1>3, StretchFields
  <1>5. end = at \/ end = last
    OBVIOUS
  <1> HIDE DEF c, from, p
  <1>6. last \in Nat /\ at =< last /\ from =< last /\ last =< now
    BY <1>1, <1>2, <1>3, <1>4 DEF Latest
  <1>7. Latest(from, end) = last /\ end =< from + p.interval
    BY <1>1, <1>3, <1>4, <1>5 DEF Latest
  <1>8. /\ b \in Block /\ b.from = from /\ b.to = Latest(from, end)
        /\ end =< from + p.interval => Fit(b)
    BY <1>4, FinishMade
  <1> HIDE DEF b, last
  <1>9. b \in Block /\ Fit(b) /\ b.from = from /\ b.to = last
    BY <1>7, <1>8
  <1>10. Chain(Append(c.blocks, b), final, last)
    BY <1>3, <1>9, ChainAppend
  <1>11. QED
    BY <1>2, <1>3, <1>6, <1>10 DEF c, from, p, b, last

(* Ending the stretch.                                                       *)
LEMMA EndStep ==
  ASSUME Inv, NEW at \in Moments, End(at)
  PROVE  Inv' /\ Ends /\ final' >= at
  <1> DEFINE c == Closed(stretch, at)
             last == Latest(at, c.stretch.start)
             q == Append(c.blocks, Finish(c.stretch.start, at, c.stretch.open))
  <1>1. /\ stretch # NoStretch /\ Finished(q) /\ stretch' = NoStretch
        /\ now' = now /\ input' = input
    BY DEF End
  <1>2. at \in Nat /\ now \in Nat
    BY MomentsArePast
  <1>3. Chain(q, final, last) /\ last \in Nat /\ at =< last /\ last =< now
    <2> HIDE DEF q
    <2>1. Chain(q, final, last) /\ last \in Nat /\ at =< last /\ last =< now
      BY <1>1, <1>2, ClosedAt DEF q
    <2>2. QED
      BY <2>1
  <1> HIDE DEF q, last
  <1>4. Ends /\ final' = last /\ raw' = q
    BY <1>1, <1>3, FinishedChain
  <1>5. Inv'
    <2>1. now' \in 0 .. MaxTime /\ input' \in 0 .. now' /\ final' \in 0 .. now'
      BY <1>1, <1>2, <1>3, <1>4 DEF Inv
    <2>2. \E x : Chain(raw', x, final')
      BY <1>3, <1>4
    <2>3. QED
      BY <1>1, <2>1, <2>2, InvMade
  <1>6. QED
    BY <1>2, <1>3, <1>4, <1>5

(* Cutting it, and going on with the new policy.                             *)
LEMMA CutStep ==
  ASSUME Inv, NEW at \in Moments, Cut(at)
  PROVE  Inv' /\ Ends /\ final' >= at
  <1> DEFINE c == Closed(stretch, at)
             last == Latest(at, c.stretch.start)
             q == Append(c.blocks, Finish(c.stretch.start, last, c.stretch.open))
             s == [c.stretch EXCEPT !.start = last, !.open = c.stretch.next]
  <1>1. /\ stretch # NoStretch /\ Finished(q) /\ stretch' = s
        /\ now' = now /\ input' = input
    BY DEF Cut
  <1>2. at \in Nat /\ at =< now /\ now \in Nat
    BY MomentsArePast
  <1>3. last \in Nat
    <2>1. stretch \in Stretch /\ Chain(stretch.held, final, stretch.start)
      BY <1>1 DEF Inv, Good
    <2>2. c.stretch \in Stretch
      BY <1>2, <2>1, ClosedChain
    <2>3. c.stretch.start \in Nat
      BY <2>2, StretchFields
    <2>4. QED
      BY <1>2, <2>3 DEF Latest
  <1>4. /\ Chain(q, final, last) /\ at =< last /\ last =< now
        /\ c.stretch \in Stretch /\ c.stretch.held = <<>> /\ c.stretch.since =< now
    BY <1>1, <1>3, ClosedAt
  <1>5. s \in Stretch /\ s.start = last /\ s.held = <<>> /\ s.since = c.stretch.since
    <2>1. c.stretch.next \in Policies
      BY <1>4, StretchFields
    <2> DEFINE d == c.stretch
    <2>2. d \in Stretch /\ d.next \in Policies /\ d.held = <<>> /\ d.since = c.stretch.since
      BY <1>4, <2>1
    <2>3. s = [d EXCEPT !.start = last, !.open = d.next]
      OBVIOUS
    <2> HIDE DEF d, last, s
    <2>4. s \in Stretch /\ s.start = last /\ s.held = d.held /\ s.since = d.since
      BY <1>3, <2>2, <2>3 DEF Stretch
    <2>5. QED
      BY <2>2, <2>4
  <1> HIDE DEF q, last, s, c
  <1>6. Ends /\ final' = last /\ raw' = q
    BY <1>1, <1>4, FinishedChain
  <1>7. Chain(s.held, last, s.start)
    BY <1>3, <1>5, ChainEmpty
  <1>8. UnsavedSince(s) = last
    BY <1>7, UnsavedFrom
  <1>9. Good(stretch)' /\ UnsavedSince(stretch)' = last
    BY <1>1, <1>4, <1>5, <1>7, <1>8 DEF Good, Holding, UnsavedSince
  <1>10. Inv'
    <2>1. now' \in 0 .. MaxTime /\ input' \in 0 .. now' /\ final' \in 0 .. now'
      BY <1>1, <1>2, <1>3, <1>4, <1>6 DEF Inv
    <2>2. \E x : Chain(raw', x, final')
      BY <1>4, <1>6
    <2>3. QED
      BY <1>6, <1>9, <2>1, <2>2, InvMade
  <1>11. QED
    BY <1>2, <1>3, <1>4, <1>6, <1>10

(* A new policy, for the blocks that start from now on.                      *)
LEMMA PolicyStep ==
  ASSUME Inv, NEW p \in Policies, UpdatePolicy(p)
  PROVE  Inv' /\ Ends
  <1> DEFINE s == [stretch EXCEPT !.next = p]
  <1>1. /\ stretch # NoStretch /\ stretch' = s
        /\ raw' = <<>> /\ now' = now /\ input' = input /\ final' = final
    BY DEF UpdatePolicy
  <1>2. Good(stretch) /\ UnsavedSince(stretch) = final /\ stretch \in Stretch
    BY <1>1 DEF Inv, Good
  <1>3. /\ s \in Stretch /\ s.held = stretch.held /\ s.start = stretch.start
        /\ s.since = stretch.since /\ s.heldActivity = stretch.heldActivity
    BY <1>2 DEF Stretch
  <1> HIDE DEF s
  <1>4. Good(stretch)' /\ UnsavedSince(stretch)' = final
    BY <1>1, <1>2, <1>3 DEF Good, Holding, UnsavedSince, ActivityOf
  <1>5. now' \in 0 .. MaxTime /\ input' \in 0 .. now' /\ final' \in 0 .. now'
    BY <1>1 DEF Inv
  <1>6. Inv'
    BY <1>1, <1>4, <1>5, InvMade
  <1>7. QED
    BY <1>1, <1>6 DEF Ends

(* Time passes, with input or without.  New input is later than every held   *)
(* block.                                                                    *)
LEMMA PassStep ==
  ASSUME Inv, Pass
  PROVE  Inv' /\ Ends
  <1>1. /\ now < MaxTime /\ now' = now + 1 /\ input' \in {input, now'}
        /\ raw' = <<>> /\ stretch' = stretch /\ final' = final
    BY DEF Pass
  <1>2. now \in 0 .. MaxTime /\ input \in 0 .. now /\ final \in 0 .. now /\ MaxTime \in Nat
    BY BlocksAssumption DEF Inv
  <1>3. now' \in 0 .. MaxTime /\ input' \in 0 .. now' /\ final' \in 0 .. now'
    BY <1>1, <1>2
  <1>4. stretch # NoStretch => Good(stretch)' /\ UnsavedSince(stretch)' = final'
    <2> HAVE stretch # NoStretch
    <2>1. Good(stretch) /\ UnsavedSince(stretch) = final /\ stretch \in Stretch
      BY DEF Inv, Good
    <2>2. stretch.start \in Nat /\ stretch.since \in Nat /\ stretch.heldActivity \in Nat
      BY <2>1, StretchFields
    <2>3. stretch.start =< now /\ stretch.since =< now
      BY <2>1 DEF Good
    <2>4. stretch.start =< now' /\ stretch.since =< now'
      BY <1>1, <1>2, <2>2, <2>3
    <2>5. Holding(stretch) =>
            \/ stretch.heldActivity = ActivityOf(stretch)'
            \/ stretch.heldActivity < ActivityOf(stretch)' /\ stretch.start =< input'
      <3> HAVE Holding(stretch)
      <3>1. \/ stretch.heldActivity = Latest(input, stretch.since)
            \/ /\ stretch.heldActivity < Latest(input, stretch.since)
               /\ stretch.start =< input
        BY <2>1 DEF Good, ActivityOf
      <3>2. ActivityOf(stretch)' = Latest(input', stretch.since)
        BY <1>1 DEF ActivityOf
      <3>3. CASE input' = input
        BY <3>1, <3>2, <3>3
      <3>4. CASE input' = now'
        <4>1. Latest(input, stretch.since) =< now /\ Latest(input', stretch.since) = now + 1
          BY <1>1, <1>2, <2>2, <2>3, <3>4 DEF Latest
        <4>2. Latest(input, stretch.since) \in Nat
          BY <1>2, <2>2 DEF Latest
        <4>3. stretch.heldActivity < now + 1
          BY <1>2, <2>2, <3>1, <4>1, <4>2
        <4>4. QED
          BY <1>1, <2>4, <3>2, <3>4, <4>1, <4>3
      <3>5. QED
        BY <1>1, <3>3, <3>4
    <2>6. /\ stretch' \in Stretch /\ Holding(stretch)' = Holding(stretch)
          /\ Chain(stretch.held, UnsavedSince(stretch), stretch.start)
          /\ UnsavedSince(stretch)' = UnsavedSince(stretch)
      BY <1>1, <2>1 DEF Good, Holding, UnsavedSince
    <2>7. Good(stretch)'
      BY <1>1, <2>1, <2>4, <2>5, <2>6 DEF Good
    <2>8. QED
      BY <1>1, <2>1, <2>6, <2>7
  <1>5. Inv'
    BY <1>1, <1>3, <1>4, InvMade
  <1>6. QED
    BY <1>1, <1>5 DEF Ends

-------------------------------------------------------------------------------
(* The theorems *)

(* The invariant holds at first: nothing is tracked.                         *)
LEMMA InitInv == Init => Inv
  <1> SUFFICES ASSUME Init PROVE Inv
    OBVIOUS
  <1>1. now = 0 /\ input = 0 /\ final = 0 /\ raw = <<>> /\ stretch = NoStretch
    BY DEF Init
  <1>2. <<>> \in Seq(Block) /\ Len(<<>>) = 0
    BY EmptySeq
  <1>3. 0 \in 0 .. MaxTime /\ 0 \in 0 .. 0
    BY BlocksAssumption
  <1>4. QED
    BY <1>1, <1>2, <1>3 DEF Inv

\* What a step promises of what it ends, action by action.
Promised ==
  /\ Ends
  /\ call'.op = "tick" /\ IdleOn(stretch) =>
       \A b \in finished' : b.to =< ActivityOf(stretch) + HoldGrace
  /\ call'.op \in {"end", "cut"} => final' >= call'.at
  /\ call'.op = "tick" /\ stretch # NoStretch /\ stretch' = NoStretch =>
       final' >= ActivityOf(stretch)

(* Every step keeps the invariant and what the calls promise.                *)
LEMMA NextKeeps ==
  ASSUME Inv, Next
  PROVE  Inv' /\ Promised
  <1>1. ASSUME NEW at \in Moments, NEW p \in Policies, Start(at, p)
        PROVE  Inv' /\ Promised
    <2>1. call'.op = "start"
      BY <1>1 DEF Start
    <2>2. Inv' /\ Ends
      BY <1>1, StartStep
    <2>3. QED
      BY <2>1, <2>2 DEF Promised
  <1>2. CASE Tick
    <2>1. call'.op = "tick"
      BY <1>2 DEF Tick
    <2>2. /\ Inv' /\ Ends
          /\ IdleOn(stretch) =>
               \A b \in finished' : b.to =< ActivityOf(stretch) + HoldGrace
          /\ stretch' = NoStretch => final' >= ActivityOf(stretch)
      BY <1>2, TickStep
    <2>3. QED
      BY <2>1, <2>2 DEF Promised
  <1>3. ASSUME NEW at \in Moments, End(at)
        PROVE  Inv' /\ Promised
    <2>1. call'.op = "end" /\ call'.at = at
      BY <1>3 DEF End
    <2>2. Inv' /\ Ends /\ final' >= at
      BY <1>3, EndStep
    <2>3. QED
      BY <2>1, <2>2 DEF Promised
  <1>4. ASSUME NEW at \in Moments, Cut(at)
        PROVE  Inv' /\ Promised
    <2>1. call'.op = "cut" /\ call'.at = at
      BY <1>4 DEF Cut
    <2>2. Inv' /\ Ends /\ final' >= at
      BY <1>4, CutStep
    <2>3. QED
      BY <2>1, <2>2 DEF Promised
  <1>5. ASSUME NEW p \in Policies, UpdatePolicy(p)
        PROVE  Inv' /\ Promised
    <2>1. call'.op = "policy"
      BY <1>5 DEF UpdatePolicy
    <2>2. Inv' /\ Ends
      BY <1>5, PolicyStep
    <2>3. QED
      BY <2>1, <2>2 DEF Promised
  <1>6. CASE Pass
    <2>1. call'.op = "none"
      BY <1>6 DEF Pass, Idling
    <2>2. Inv' /\ Ends
      BY <1>6, PassStep
    <2>3. QED
      BY <2>1, <2>2 DEF Promised
  <1>7. QED
    BY <1>1, <1>2, <1>3, <1>4, <1>5, <1>6 DEF Next

(* A step that changes nothing keeps the invariant.                          *)
LEMMA StutterKeeps ==
  ASSUME Inv, UNCHANGED vars
  PROVE  Inv'
  <1>1. /\ now' = now /\ input' = input /\ final' = final /\ raw' = raw
        /\ stretch' = stretch
    BY DEF vars
  <1>2. QED
    BY <1>1 DEF Inv, Good, UnsavedSince, Holding, ActivityOf

(* The inductive invariant: what the stretch holds is a chain from the final *)
(* time to an open block in the past, and blocks are held for an absence that *)
(* lasts or that the next tick sees ended.                                   *)
THEOREM Invariant == Spec => []Inv
  <1>1. Init => Inv
    BY InitInv
  <1>2. Inv /\ [Next]_vars => Inv'
    BY NextKeeps, StutterKeeps
  <1>3. QED
    BY <1>1, <1>2, PTL DEF Spec

(* The clock, the stretch and the blocks ended have their types, and no block *)
(* ends before it starts.                                                    *)
THEOREM TypeCorrect == Spec => []TypeOK
  <1>1. ASSUME Inv PROVE TypeOK
    <2>1. now \in 0 .. MaxTime /\ input \in 0 .. now /\ final \in 0 .. MaxTime
      BY <1>1, BlocksAssumption DEF Inv
    <2>2. stretch # NoStretch => stretch \in Stretch
      BY <1>1 DEF Inv, Good
    <2>3. raw \in Seq(Block) /\ \A b \in Range(raw) : b.from =< b.to
      <3>1. raw \in Seq(Block) /\ \A i \in 1 .. Len(raw) : Fit(raw[i])
        BY <1>1 DEF Inv
      <3>2. DOMAIN raw = 1 .. Len(raw)
        BY <3>1, LenProperties
      <3>3. QED
        BY <3>1, <3>2 DEF Range, Fit
    <2>4. QED
      BY <2>1, <2>2, <2>3 DEF TypeOK
  <1>2. QED
    BY <1>1, Invariant, PTL

(* Blocks follow one another without gaps: the held ones, then the open one, *)
(* from exactly where the finished time ends.                                *)
THEOREM TimeHasNoGaps == Spec => []NoGaps
  <1>1. ASSUME Inv PROVE NoGaps
    <2> SUFFICES ASSUME stretch # NoStretch
                 PROVE  /\ Tiles(stretch.held) /\ UnsavedSince(stretch) = final
                        /\ Holding(stretch) =>
                             stretch.held[Len(stretch.held)].to = stretch.start
      BY DEF NoGaps
    <2>1. /\ Chain(stretch.held, UnsavedSince(stretch), stretch.start)
          /\ UnsavedSince(stretch) = final
      BY <1>1 DEF Inv, Good
    <2>2. QED
      BY <2>1 DEF Chain, Holding
  <1>2. QED
    BY <1>1, Invariant, PTL

(* What is ended is ended once and in order, from where the final time ended, *)
(* within the interval, and returned unless it is too short.                 *)
THEOREM EndsOnceInOrder == Spec => FinishedInOrder
  <1>1. ASSUME Inv, Next, raw' # <<>>
        PROVE  /\ raw'[1].from = final
               /\ Tiles(raw')
               /\ \A b \in Range(raw') : /\ b.to - b.from =< b.interval
                                         /\ b \in finished' \/ b.to - b.from < MinBlock
    <2> DEFINE q == raw'
    <2>1. /\ Chain(q, final, final')
          /\ finished' = {b \in Range(q) : LongEnough(b)}
      BY <1>1, NextKeeps DEF Promised, Ends
    <2>2. q # <<>>
      BY <1>1
    <2> HIDE DEF q
    <2>3. q[1].from = final /\ Tiles(q) /\ q \in Seq(Block) /\ \A i \in 1 .. Len(q) : Fit(q[i])
      BY <2>1, <2>2 DEF Chain
    <2>4. ASSUME NEW b \in Range(q)
          PROVE  b.to - b.from =< b.interval /\ (b \in finished' \/ b.to - b.from < MinBlock)
      <3>1. DOMAIN q = 1 .. Len(q)
        BY <2>3, LenProperties
      <3>2. PICK i \in 1 .. Len(q) : b = q[i]
        BY <2>4, <3>1 DEF Range
      <3>3. Fit(b) /\ b \in Block
        BY <2>3, <3>2, ElementOfSeq
      <3>4. b.from \in Nat /\ b.to \in Nat
        BY <3>3, BlockFields
      <3>5. LongEnough(b) \/ b.to - b.from < MinBlock
        BY <3>4, BlocksAssumption DEF LongEnough
      <3>6. QED
        BY <2>1, <2>4, <3>3, <3>5 DEF Fit
    <2>5. QED
      BY <2>3, <2>4 DEF q
  <1>2. Inv /\ [Next]_vars =>
          [raw' # <<>> =>
             /\ raw'[1].from = final
             /\ Tiles(raw')
             /\ \A b \in Range(raw') : /\ b.to - b.from =< b.interval
                                       /\ b \in finished' \/ b.to - b.from < MinBlock]_vars
    BY <1>1
  <1>3. QED
    BY <1>2, Invariant, PTL DEF Spec, FinishedInOrder

(* While the open block looks for absence, nothing a tick returns ends more  *)
(* than the grace after the user's last input.                               *)
THEOREM AbsenceIsNotWork == Spec => AwayIsNotWork
  <1>1. Inv /\ [Next]_vars =>
          [call'.op = "tick" /\ IdleOn(stretch) =>
             \A b \in finished' : b.to =< ActivityOf(stretch) + HoldGrace]_vars
    BY NextKeeps DEF Promised
  <1>2. QED
    BY <1>1, Invariant, PTL DEF Spec, AwayIsNotWork

(* Ending or cutting at a moment leaves nothing before it undecided; a stretch *)
(* ended for inactivity keeps all up to the last input.                      *)
THEOREM NoWorkIsLost == Spec => WorkIsKept
  <1>1. Inv /\ [Next]_vars =>
          [/\ call'.op \in {"end", "cut"} => final' >= call'.at
           /\ call'.op = "tick" /\ stretch # NoStretch /\ stretch' = NoStretch
                => final' >= ActivityOf(stretch)]_vars
    BY NextKeeps DEF Promised
  <1>2. QED
    BY <1>1, Invariant, PTL DEF Spec, WorkIsKept

================================================================================
