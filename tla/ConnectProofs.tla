--------------------------- MODULE ConnectProofs ---------------------------
(* Proofs about what the connect agent keeps: the block in an rc file, for    *)
(* every set of lines and configurations, and, below, its local proxy.        *)
EXTENDS RcFile, Forwarder, SequenceTheorems, FiniteSetTheorems, TLAPS

Plain == Line \union {Blank}

\* Two processes that rewrite the file at the same time are a race. Only a
\* process about to write has a file open, and the tmp file only while there
\* is one.
ProcessInv ==
    /\ \A p, q \in Process : p # q /\ Rewriting(p) /\ Rewriting(q) => raced
    /\ \A p \in Process : pc[p] # "write" => fd[p] = "none"
    /\ \A p \in Process : fd[p] = "tmp" => tmp # None

\* What is in the file, on its way to it or in the tmp file about to replace it
\* has the user's lines and at most one block.
Fine(s) == Whole(s) /\ Keeps(s, safe)

FileInv ==
    ~broken /\ ~raced =>
        /\ Fine(rc)
        /\ \A p \in Process :
              /\ pc[p] \in {"open", "write"} => Fine(next[p])
              /\ pc[p] = "write" => fd[p] = "tmp" /\ tmp = <<>>
              /\ pc[p] = "rename" => (tmp # None => Fine(tmp))

IInv == TypeOK /\ ProcessInv /\ FileInv

-----------------------------------------------------------------------------
(* Counting the lines kept.                                                   *)

LEMMA IntervalSize ==
    ASSUME NEW i \in Int, NEW j \in Int, j >= i - 1
    PROVE  IsFiniteSet(i..j) /\ Cardinality(i..j) = j - i + 1
BY FS_Interval

LEMMA RankType ==
    ASSUME NEW K, NEW i \in Int
    PROVE  IsFiniteSet(K \intersect 1..i) /\ Cardinality(K \intersect 1..i) \in Nat
<1>1. IsFiniteSet(1..i)
  BY FS_Interval
<1>2. IsFiniteSet(K \intersect 1..i)
  BY <1>1, FS_Intersection
<1> QED BY <1>2, FS_CardinalityType

\* Some element of a set of positions is the k-th of them.
LEMMA RankReached ==
    ASSUME NEW n \in Nat, NEW K \in SUBSET (1..n), NEW k \in 1..Cardinality(K)
    PROVE  \E i \in K : Cardinality(K \intersect 1..i) = k
<1> DEFINE rank == [i \in Nat |-> Cardinality(K \intersect 1..i)]
<1>1. rank \in [Nat -> Nat]
  <2>1. \A i \in Nat : Cardinality(K \intersect 1..i) \in Nat
    BY RankType
  <2> QED BY <2>1
<1>2. rank[n] = Cardinality(K) /\ k \in Nat /\ 1 <= k /\ k <= rank[n]
  <2>1. K \intersect 1..n = K
    OBVIOUS
  <2>2. rank[n] = Cardinality(K)
    BY <2>1
  <2> QED BY <1>1, <2>2
<1>3. rank[0] = 0
  <2>1. K \intersect 1..0 = {}
    OBVIOUS
  <2> QED BY <2>1, FS_EmptySet
<1>4. \A i \in Nat \ {0} :
         /\ i \in K => rank[i] = rank[i - 1] + 1
         /\ i \notin K => rank[i] = rank[i - 1]
  <2> SUFFICES ASSUME NEW i \in Nat \ {0}
               PROVE  /\ i \in K => rank[i] = rank[i - 1] + 1
                      /\ i \notin K => rank[i] = rank[i - 1]
    OBVIOUS
  <2>1. /\ IsFiniteSet(K \intersect 1..i - 1)
        /\ i \notin K \intersect 1..i - 1
    <3>1. i - 1 \in Int
      OBVIOUS
    <3>2. IsFiniteSet(K \intersect 1..i - 1)
      BY <3>1, RankType
    <3> QED BY <3>2
  <2>2. i - 1 \in Nat
    OBVIOUS
  <2>3. CASE i \in K
    <3>1. K \intersect 1..i = (K \intersect 1..i - 1) \union {i}
      BY <2>3
    <3>2. Cardinality(K \intersect 1..i) = Cardinality(K \intersect 1..i - 1) + 1
      BY <2>1, <3>1, FS_AddElement
    <3> QED BY <2>2, <2>3, <3>2
  <2>4. CASE i \notin K
    <3>1. K \intersect 1..i = K \intersect 1..i - 1
      BY <2>4
    <3> QED BY <2>2, <2>4, <3>1
  <2> QED BY <2>3, <2>4
<1>5. \A i \in Nat : rank[i] = Cardinality(K \intersect 1..i)
  OBVIOUS
<1> HIDE DEF rank
<1>6. PICK i \in Nat : rank[i] >= k /\ \A j \in Nat : j < i => ~(rank[j] >= k)
  <2> DEFINE T == {i \in Nat : rank[i] >= k}
  <2>1. T \subseteq Nat /\ T # {}
    BY <1>1, <1>2
  <2>2. PICK i \in T : \A j \in T : <<j, i>> \notin OpToRel(<, Nat)
    BY <2>1, NatLessThanWellFounded, WFMin
  <2> QED BY <2>1, <2>2 DEF OpToRel
<1>7. i - 1 \in Nat /\ rank[i - 1] < k
  BY <1>1, <1>2, <1>3, <1>6
<1>8. i \in K /\ rank[i] = k
  BY <1>1, <1>2, <1>4, <1>6, <1>7
<1> QED BY <1>5, <1>8

LEMMA KeptType ==
    ASSUME NEW S, NEW s \in Seq(S)
    PROVE  /\ Kept(s) \in SUBSET (1..Len(s)) /\ Cardinality(Kept(s)) \in Nat
           /\ \A k \in 1..Cardinality(Kept(s)) :
                 /\ KeptLine(s, k) \in Kept(s)
                 /\ Cardinality(Kept(s) \intersect 1..KeptLine(s, k)) = k
<1>1. Len(s) \in Nat /\ Kept(s) \in SUBSET (1..Len(s))
  BY DEF Kept
<1>2. Cardinality(Kept(s)) \in Nat
  <2>1. IsFiniteSet(1..Len(s))
    BY <1>1, FS_Interval
  <2>2. IsFiniteSet(Kept(s))
    BY <1>1, <2>1, FS_Subset
  <2> QED BY <2>2, FS_CardinalityType
<1>3. ASSUME NEW k \in 1..Cardinality(Kept(s))
      PROVE  /\ KeptLine(s, k) \in Kept(s)
             /\ Cardinality(Kept(s) \intersect 1..KeptLine(s, k)) = k
  <2>1. \E i \in Kept(s) : Cardinality(Kept(s) \intersect 1..i) = k
    BY <1>1, RankReached
  <2> QED BY <2>1 DEF KeptLine
<1> QED BY <1>1, <1>2, <1>3

LEMMA StripType ==
    ASSUME NEW S, NEW s \in Seq(S)
    PROVE  /\ Strip(s) \in Seq(S) /\ Len(Strip(s)) = Cardinality(Kept(s))
           /\ \A k \in 1..Len(Strip(s)) : Strip(s)[k] = s[KeptLine(s, k)]
<1> DEFINE n == Cardinality(Kept(s))
<1>1. n \in Nat /\ \A k \in 1..n : KeptLine(s, k) \in 1..Len(s)
  BY KeptType
<1>2. \A k \in 1..n : s[KeptLine(s, k)] \in S
  BY <1>1
<1>3. Strip(s) = [k \in 1..n |-> s[KeptLine(s, k)]]
  BY DEF Strip
<1> HIDE DEF n
<1>4. Strip(s) \in [1..n -> S]
  BY <1>2, <1>3
<1>5. Strip(s) \in Seq(S) /\ Len(Strip(s)) = n
  BY <1>1, <1>4
<1> QED BY <1>3, <1>5 DEF n

-----------------------------------------------------------------------------
(* What Strip leaves of a file with one block, and of one with none.          *)

LEMMA KeptWithout ==
    ASSUME NEW s \in Seq(Lines), \A i \in DOMAIN s : s[i] \in Plain
    PROVE  Kept(s) = 1..Len(s)
<1>1. \A i \in 1..Len(s) : \A j \in 1..i : ~Opens(s, j)
  BY LinesAssumption DEF Plain, Opens
<1> QED BY <1>1 DEF Kept, Covered

LEMMA StripWithout ==
    ASSUME NEW s \in Seq(Lines), \A i \in DOMAIN s : s[i] \in Plain
    PROVE  Len(Strip(s)) = Len(s) /\ \A k \in 1..Len(s) : Strip(s)[k] = s[k]
<1>1. Len(s) \in Nat /\ Kept(s) = 1..Len(s)
  BY KeptWithout
<1>2. Cardinality(Kept(s)) = Len(s)
  BY <1>1, FS_Interval
<1>3. ASSUME NEW k \in 1..Len(s) PROVE KeptLine(s, k) = k
  <2> DEFINE i == KeptLine(s, k)
  <2>1. i \in 1..Len(s) /\ Cardinality(Kept(s) \intersect 1..i) = k
    BY <1>1, <1>2, KeptType
  <2> HIDE DEF i
  <2>2. Kept(s) \intersect 1..i = 1..i
    BY <1>1, <2>1
  <2>3. Cardinality(1..i) = i
    BY <2>1, FS_Interval
  <2> QED BY <2>1, <2>2, <2>3 DEF i
<1> QED BY <1>2, <1>3, StripType

LEMMA KeptAround ==
    ASSUME NEW s \in Seq(Lines), NEW a \in 1..Len(s) - 2, BlockAt(s, a)
    PROVE  Kept(s) = (1..a - 1) \union (a + 3..Len(s))
<1>1. Len(s) \in Nat /\ DOMAIN s = 1..Len(s) /\ a \in Nat /\ a + 2 \in 1..Len(s)
  OBVIOUS
<1>2. \A j \in 1..Len(s) : (s[j] = Start <=> j = a) /\ (s[j] = End <=> j = a + 2)
  <2>1. \A j \in 1..Len(s) : j \in {a, a + 1, a + 2} \/ s[j] \in Plain
    BY <1>1 DEF BlockAt, Plain
  <2>2. Start \notin Plain /\ End \notin Plain /\ Start # End
    BY LinesAssumption DEF Plain
  <2>3. s[a] = Start /\ s[a + 1] # Start /\ s[a + 1] # End /\ s[a + 2] = End
    BY LinesAssumption DEF BlockAt
  <2> QED BY <1>1, <2>1, <2>2, <2>3
<1>3. Opens(s, a) /\ \A j \in 1..Len(s) : Opens(s, j) => j = a
  <2>1. a + 2 \in Ends(s, a)
    BY <1>1, <1>2 DEF Ends
  <2> QED BY <1>1, <1>2, <2>1 DEF Opens
<1>4. ASSUME NEW i \in 1..Len(s) PROVE Covered(s, i) <=> i \in a..a + 2
  <2>1. CASE i \in a..a + 2
    <3>1. a \in 1..i /\ \A k \in a..i - 1 : s[k] # End
      BY <1>1, <1>2, <2>1
    <3> QED BY <1>3, <2>1, <3>1 DEF Covered
  <2>2. CASE i < a
    BY <1>1, <1>3, <2>2 DEF Covered
  <2>3. CASE i > a + 2
    <3>1. a + 2 \in a..i - 1 /\ s[a + 2] = End
      BY <1>1, <1>2, <2>3
    <3> QED BY <1>1, <1>3, <2>3, <3>1 DEF Covered
  <2> QED BY <1>1, <2>1, <2>2, <2>3
<1> QED BY <1>1, <1>4 DEF Kept

LEMMA StripAround ==
    ASSUME NEW s \in Seq(Lines), NEW a \in 1..Len(s) - 2, BlockAt(s, a)
    PROVE  /\ Len(Strip(s)) = Len(s) - 3
           /\ \A k \in 1..Len(s) - 3 :
                 Strip(s)[k] = s[IF k < a THEN k ELSE k + 3]
<1> DEFINE low == 1..a - 1
           high(i) == a + 3..i
<1>1. Len(s) \in Nat /\ a \in Nat /\ 1 <= a /\ a + 2 <= Len(s)
  OBVIOUS
<1>2. ASSUME NEW i \in Nat, a + 2 <= i
      PROVE  Cardinality(low \union high(i)) = i - 3
  <2>1. IsFiniteSet(low) /\ Cardinality(low) = a - 1
    <3>1. a - 1 \in Int /\ 1 \in Int /\ a - 1 >= 1 - 1
      BY <1>1
    <3>2. IsFiniteSet(low) /\ Cardinality(low) = (a - 1) - 1 + 1
      BY <3>1, IntervalSize
    <3> QED BY <1>1, <3>2
  <2>2. IsFiniteSet(high(i)) /\ Cardinality(high(i)) = i - a - 2
    <3>1. a + 3 \in Int /\ i \in Int /\ i >= (a + 3) - 1
      BY <1>1, <1>2
    <3>2. IsFiniteSet(high(i)) /\ Cardinality(high(i)) = i - (a + 3) + 1
      BY <3>1, IntervalSize
    <3> QED BY <1>1, <3>2
  <2>3. low \intersect high(i) = {}
    BY <1>1
  <2>4. Cardinality(low \intersect high(i)) = 0
    BY <2>3, FS_EmptySet
  <2>5. Cardinality(low \union high(i)) = (a - 1) + (i - a - 2) - 0
    <3> HIDE DEF low, high
    <3> QED BY <2>1, <2>2, <2>4, FS_Union
  <2> QED BY <1>1, <2>5
<1>3. Kept(s) = low \union high(Len(s))
  BY KeptAround
<1>4. Cardinality(Kept(s)) = Len(s) - 3
  BY <1>1, <1>2, <1>3
<1>5. ASSUME NEW k \in 1..Len(s) - 3
      PROVE  KeptLine(s, k) = IF k < a THEN k ELSE k + 3
  <2> DEFINE i == KeptLine(s, k)
  <2>1. i \in Kept(s) /\ Cardinality(Kept(s) \intersect 1..i) = k
    BY <1>4, KeptType
  <2> HIDE DEF i
  <2>2. CASE i \in low
    <3>1. Kept(s) \intersect 1..i = 1..i
      BY <1>1, <1>3, <2>2
    <3>2. Cardinality(1..i) = i
      BY <1>1, <2>2, FS_Interval
    <3>3. i = k
      BY <2>1, <3>1, <3>2
    <3>4. k < a
      BY <1>1, <2>2, <3>3
    <3> QED BY <3>3, <3>4 DEF i
  <2>3. CASE i \in high(Len(s))
    <3>1. Kept(s) \intersect 1..i = low \union high(i)
      BY <1>1, <1>3, <2>3
    <3>2. Cardinality(low \union high(i)) = i - 3
      BY <1>1, <1>2, <2>3
    <3>3. i - 3 = k
      BY <2>1, <3>1, <3>2
    <3>4. i = k + 3 /\ ~(k < a)
      BY <1>1, <2>3, <3>3
    <3> QED BY <3>4 DEF i
  <2> QED BY <1>3, <2>1, <2>2, <2>3
<1> QED BY <1>4, <1>5, StripType

-----------------------------------------------------------------------------
(* What a rewrite keeps.                                                      *)

\* A file whose lines are lines of s in their order, all the user's among them.
LEMMA KeepsSelected ==
    ASSUME NEW s \in Seq(Lines), NEW u \in Seq(Lines), NEW t \in Seq(Line),
           NEW g \in [1..Len(u) -> 1..Len(s)],
           \A k, l \in 1..Len(u) : k < l <=> g[k] < g[l],
           \A k \in 1..Len(u) : u[k] = s[g[k]],
           \A k \in 1..Len(s) : s[k] \in Line => \E l \in 1..Len(u) : g[l] = k,
           Keeps(s, t)
    PROVE  Keeps(u, t)
<1>1. ASSUME NEW i \in DOMAIN t PROVE \E l \in DOMAIN u : u[l] = t[i]
  <2>1. PICK k \in 1..Len(s) : s[k] = t[i]
    BY DEF Keeps
  <2>2. t[i] \in Line
    OBVIOUS
  <2>3. PICK l \in 1..Len(u) : g[l] = k
    BY <2>1, <2>2
  <2> QED BY <2>1, <2>3
<1>2. ASSUME NEW k \in DOMAIN u, NEW l \in DOMAIN u,
             NEW i \in DOMAIN t, NEW j \in DOMAIN t, u[k] = t[i], u[l] = t[j]
      PROVE  k < l <=> i < j
  <2>1. s[g[k]] = t[i] /\ s[g[l]] = t[j] /\ g[k] \in DOMAIN s /\ g[l] \in DOMAIN s
    BY <1>2
  <2>2. g[k] < g[l] <=> i < j
    BY <2>1 DEF Keeps
  <2> QED BY <2>2
<1> QED BY <1>1, <1>2 DEF Keeps

\* Lines that are not the user's may follow.
LEMMA KeepsMore ==
    ASSUME NEW s \in Seq(Lines), NEW y \in Seq(Lines), NEW t \in Seq(Line),
           \A i \in 1..Len(y) : y[i] \notin Line, Keeps(s, t)
    PROVE  Keeps(s \o y, t)
<1> DEFINE u == s \o y
<1>1. /\ u \in Seq(Lines) /\ Len(u) = Len(s) + Len(y)
      /\ \A i \in 1..Len(u) : u[i] = IF i <= Len(s) THEN s[i] ELSE y[i - Len(s)]
      /\ DOMAIN u = 1..Len(u) /\ DOMAIN s = 1..Len(s)
  BY ConcatProperties
<1>2. \A i \in DOMAIN t : t[i] \in Line
  OBVIOUS
<1> HIDE DEF u
<1>3. \A k \in 1..Len(u) : u[k] \in Line => k \in 1..Len(s) /\ u[k] = s[k]
  BY <1>1
<1>4. \A k \in 1..Len(s) : k \in 1..Len(u) /\ u[k] = s[k]
  BY <1>1
<1>5. Keeps(u, t)
  BY <1>1, <1>2, <1>3, <1>4 DEF Keeps
<1> QED BY <1>5 DEF u

LEMMA StripPlain ==
    ASSUME NEW s \in Seq(Lines), Whole(s)
    PROVE  /\ Strip(s) \in Seq(Lines)
           /\ \A k \in DOMAIN Strip(s) : Strip(s)[k] \in Plain
<1>1. Strip(s) \in Seq(Lines) /\ DOMAIN Strip(s) = 1..Len(Strip(s))
  BY StripType
<1>2. CASE \A i \in DOMAIN s : s[i] \in Plain
  BY <1>1, <1>2, StripWithout
<1>3. ASSUME NEW a \in 1..Len(s) - 2, BlockAt(s, a)
      PROVE  \A k \in DOMAIN Strip(s) : Strip(s)[k] \in Plain
  <2>1. \A k \in 1..Len(s) - 3 :
           (IF k < a THEN k ELSE k + 3) \in DOMAIN s \ a..a + 2
    OBVIOUS
  <2>2. \A k \in 1..Len(s) - 3 : s[IF k < a THEN k ELSE k + 3] \in Plain
    BY <1>3, <2>1 DEF BlockAt, Plain
  <2> QED BY <1>1, <1>3, <2>2, StripAround
<1> QED BY <1>1, <1>2, <1>3 DEF Whole, Plain

LEMMA StripKeeps ==
    ASSUME NEW s \in Seq(Lines), NEW t \in Seq(Line), Whole(s), Keeps(s, t)
    PROVE  Keeps(Strip(s), t)
<1> DEFINE u == Strip(s)
<1>1. u \in Seq(Lines)
  BY StripType
<1>2. CASE \A i \in DOMAIN s : s[i] \in Plain
  <2>1. Len(u) = Len(s) /\ \A k \in 1..Len(s) : u[k] = s[k]
    BY <1>2, StripWithout
  <2> HIDE DEF u
  <2>2. u = s
    BY <1>1, <2>1, SeqEqual
  <2> QED BY <2>2 DEF u
<1>3. ASSUME NEW a \in 1..Len(s) - 2, BlockAt(s, a) PROVE Keeps(u, t)
  <2> DEFINE g == [k \in 1..Len(u) |-> IF k < a THEN k ELSE k + 3]
  <2>1. Len(u) = Len(s) - 3 /\ Len(s) \in Nat
    BY <1>3, StripAround
  <2>2. \A k \in 1..Len(u) : u[k] = s[g[k]]
    BY <1>3, <2>1, StripAround
  <2> HIDE DEF u
  <2>3. g \in [1..Len(u) -> 1..Len(s)]
    BY <2>1
  <2>4. \A k, l \in 1..Len(u) : k < l <=> g[k] < g[l]
    BY <2>1
  <2>5. ASSUME NEW k \in 1..Len(s), s[k] \in Line
        PROVE  \E l \in 1..Len(u) : g[l] = k
    <3>1. k # a /\ k # a + 1 /\ k # a + 2
      BY <1>3, <2>5, LinesAssumption DEF BlockAt
    <3>2. CASE k < a
      <4>1. k \in 1..Len(u) /\ g[k] = k
        BY <2>1, <3>2
      <4> QED BY <4>1
    <3>3. CASE k > a + 2
      <4>1. k - 3 \in 1..Len(u) /\ g[k - 3] = k
        BY <2>1, <3>3
      <4> QED BY <4>1
    <3> QED BY <3>1, <3>2, <3>3
  <2> HIDE DEF g
  <2> QED BY <1>1, <2>2, <2>3, <2>4, <2>5, KeepsSelected, ZenonT(40)
<1> QED BY <1>2, <1>3 DEF Whole, Plain

LEMMA RewrittenFine ==
    ASSUME NEW s \in Seq(Lines), NEW t \in Seq(Line), Whole(s), Keeps(s, t),
           NEW v \in Config \union {None}
    PROVE  /\ Rewritten(s, v) \in Seq(Lines)
           /\ Whole(Rewritten(s, v)) /\ Keeps(Rewritten(s, v), t)
<1> DEFINE u == Strip(s)
           y == <<Blank>> \o Block(v)
<1>1. u \in Seq(Lines) /\ (\A k \in DOMAIN u : u[k] \in Plain) /\ Keeps(u, t)
  BY StripPlain, StripKeeps
<1>2. CASE v = None
  BY <1>1, <1>2 DEF Rewritten, Whole, Plain
<1>3. CASE v \in Config
  <2>1. /\ <<Blank>> \in Seq(Lines) /\ Block(v) \in Seq(Lines)
        /\ y \in Seq(Lines) /\ Len(y) = 4
        /\ y[1] = Blank /\ y[2] = Start /\ y[3] = v /\ y[4] = End
    BY <1>3 DEF Block, Lines
  <2> HIDE DEF u, y
  <2>2. Rewritten(s, v) = u \o y
    <3>1. v # None
      BY <1>3, NoneAssumption
    <3>2. (u \o <<Blank>>) \o Block(v) = u \o y
      BY <1>1, <2>1, ConcatAssociative DEF y
    <3> QED BY <3>1, <3>2 DEF Rewritten, u
  <2>3. /\ u \o y \in Seq(Lines) /\ Len(u \o y) = Len(u) + 4
        /\ \A i \in 1..Len(u) : (u \o y)[i] = u[i]
        /\ \A i \in 1..4 : (u \o y)[Len(u) + i] = y[i]
    <3>1. /\ u \o y \in Seq(Lines) /\ Len(u \o y) = Len(u) + 4
          /\ \A i \in 1..Len(u) + 4 :
                (u \o y)[i] = IF i <= Len(u) THEN u[i] ELSE y[i - Len(u)]
      <4>1. u \in Seq(Lines) /\ y \in Seq(Lines) /\ Len(y) = 4
        BY <1>1, <2>1
      <4>2. /\ u \o y \in Seq(Lines) /\ Len(u \o y) = Len(u) + Len(y)
            /\ \A i \in 1..Len(u) + Len(y) :
                  (u \o y)[i] = IF i <= Len(u) THEN u[i] ELSE y[i - Len(u)]
        BY <4>1, ConcatProperties
      <4> QED BY <4>1, <4>2
    <3>2. Len(u) \in Nat
      BY <1>1
    <3>3. ASSUME NEW i \in 1..4 PROVE (u \o y)[Len(u) + i] = y[i]
      <4>1. /\ Len(u) + i \in 1..Len(u) + 4 /\ ~(Len(u) + i <= Len(u))
            /\ (Len(u) + i) - Len(u) = i
        BY <3>2
      <4> QED BY <3>1, <4>1
    <3>4. ASSUME NEW i \in 1..Len(u) PROVE (u \o y)[i] = u[i]
      BY <3>1, <3>2
    <3> QED BY <3>1, <3>3, <3>4
  <2>4. Keeps(u \o y, t)
    <3>1. \A i \in 1..Len(y) : y[i] \notin Line
      BY <1>3, <2>1, LinesAssumption
    <3> QED BY <1>1, <2>1, <3>1, KeepsMore
  <2>5. Whole(u \o y)
    <3> DEFINE a == Len(u) + 2
    <3>1. Len(u) \in Nat /\ a \in 1..Len(u \o y) - 2
      BY <1>1, <2>3
    <3>2. BlockAt(u \o y, a)
      <4>1. (u \o y)[a] = Start /\ (u \o y)[a + 1] = v /\ (u \o y)[a + 2] = End
        BY <2>1, <2>3, <3>1
      <4>2. ASSUME NEW i \in DOMAIN (u \o y), i \notin a..a + 2
            PROVE  (u \o y)[i] \in Line \union {Blank}
        <5>1. i \in 1..Len(u) \/ i = Len(u) + 1
          BY <2>3, <3>1, <4>2
        <5>2. (u \o y)[Len(u) + 1] = Blank
          BY <2>1, <2>3
        <5> QED BY <1>1, <2>3, <5>1, <5>2 DEF Plain
      <4> QED BY <1>3, <4>1, <4>2 DEF BlockAt
    <3> QED BY <3>1, <3>2 DEF Whole
  <2> QED BY <2>2, <2>3, <2>4, <2>5
<1> QED BY <1>2, <1>3

-----------------------------------------------------------------------------
LEMMA RewrittenType ==
    ASSUME NEW s \in Seq(Lines), NEW v \in Config \union {None}
    PROVE  Rewritten(s, v) \in Seq(Lines)
<1>1. Strip(s) \in Seq(Lines)
  BY StripType
<1>2. CASE v = None
  BY <1>1, <1>2 DEF Rewritten
<1>3. CASE v # None
  <2>1. <<Blank>> \in Seq(Lines) /\ Block(v) \in Seq(Lines)
    BY <1>3 DEF Block, Lines
  <2> QED BY <1>1, <1>3, <2>1, ConcatProperties DEF Rewritten
<1> QED BY <1>2, <1>3

LEMMA OverlayType ==
    ASSUME NEW s \in Seq(Lines), NEW old \in Seq(Lines)
    PROVE  /\ Overlay(s, old) \in Seq(Lines)
           /\ old = <<>> => Overlay(s, old) = s
<1>1. Len(s) \in Nat /\ Len(old) \in Nat
  OBVIOUS
<1>2. SubSeq(old, Len(s) + 1, Len(old)) \in Seq(Lines)
  <2>1. \A i \in Len(s) + 1..Len(old) : old[i] \in Lines
    BY <1>1
  <2> QED BY <1>1, <2>1, SubSeqProperties
<1>3. Overlay(s, old) \in Seq(Lines)
  BY <1>2, ConcatProperties DEF Overlay
<1>4. ASSUME old = <<>> PROVE Overlay(s, old) = s
  <2>1. Len(old) < Len(s) + 1
    BY <1>1, <1>4
  <2>2. SubSeq(old, Len(s) + 1, Len(old)) = <<>>
    BY <1>1, <2>1, SubSeqEmpty
  <2> QED BY <2>2, ConcatEmptySeq DEF Overlay
<1> QED BY <1>3, <1>4

LEMMA RemoveAtType ==
    ASSUME NEW s \in Seq(Lines), NEW i \in DOMAIN s
    PROVE  RemoveAt(s, i) \in Seq(Lines)
<1>1. SubSeq(s, 1, i - 1) \in Seq(Lines)
  <2>1. \A j \in 1..i - 1 : s[j] \in Lines
    OBVIOUS
  <2> QED BY <2>1, SubSeqProperties
<1>2. SubSeq(s, i + 1, Len(s)) \in Seq(Lines)
  <2>1. \A j \in i + 1..Len(s) : s[j] \in Lines
    OBVIOUS
  <2> QED BY <2>1, SubSeqProperties
<1> QED BY <1>1, <1>2, ConcatProperties DEF RemoveAt

LEMMA InitIInv == Init => IInv
<1> SUFFICES ASSUME Init PROVE IInv
  OBVIOUS
<1>1. TypeOK
  <2>1. <<>> \in Seq(Lines) /\ <<>> \in Seq(Line)
    BY EmptySeq
  <2> QED BY <2>1 DEF Init, TypeOK
<1>2. ProcessInv
  BY DEF Init, ProcessInv, Process, Rewriting
<1>3. FileInv
  BY DEF Init, FileInv, Process, Fine, Whole, Keeps
<1> QED BY <1>1, <1>2, <1>3 DEF IInv

LEMMA TypePreserved == IInv /\ [Next]_vars => TypeOK'
<1> SUFFICES ASSUME IInv, [Next]_vars PROVE TypeOK'
  OBVIOUS
<1> USE DEF IInv, TypeOK, process, outside, history
<1>0. "monitor" \in Process /\ "command" \in Process
  BY DEF Process
<1>1. ASSUME NEW p \in Process, ReadRc(p) PROVE TypeOK'
  <2>1. Rewritten(rc, loaded[p]) \in Seq(Lines)
    BY RewrittenType
  <2>2. next' \in [Process -> Seq(Lines)]
    BY <1>1, <2>1 DEF ReadRc
  <2>3. pc' \in [Process -> {"down", "check", "read", "open", "write", "rename"}]
    BY <1>1 DEF ReadRc, Finish
  <2> QED BY <1>1, <2>2, <2>3 DEF ReadRc
<1>2. ASSUME NEW p \in Process, OpenTmp(p) PROVE TypeOK'
  BY <1>2 DEF OpenTmp
<1>3. ASSUME NEW p \in Process, WriteTmp(p) PROVE TypeOK'
  <2>1. next[p] \in Seq(Lines) /\ Overlay(next[p], rc) \in Seq(Lines)
    BY OverlayType
  <2>2. fd[p] = "tmp" => Overlay(next[p], tmp) \in Seq(Lines)
    BY <2>1, OverlayType DEF ProcessInv
  <2>3. rc' \in Seq(Lines) /\ tmp' \in Seq(Lines) \union {None}
    BY <1>3, <2>1, <2>2 DEF WriteTmp
  <2> QED BY <1>3, <2>3 DEF WriteTmp
<1>4. ASSUME NEW p \in Process, Rename(p) PROVE TypeOK'
  BY <1>4 DEF Rename, Finish
<1>5. ASSUME NEW p \in Process, Killed(p) PROVE TypeOK'
  BY <1>5 DEF Killed
<1>6. ASSUME NEW v \in Config, Configure(v) PROVE TypeOK'
  BY <1>6 DEF Configure
<1>7. ASSUME NEW v \in Config \union {None}, Command(v) PROVE TypeOK'
  BY <1>0, <1>7 DEF Command, Begin
<1>8. CASE MonitorStarts
  BY <1>0, <1>8 DEF MonitorStarts
<1>9. CASE CheckAndRecover
  BY <1>0, <1>9 DEF CheckAndRecover, Begin
<1>10. ASSUME NEW u \in Line, AddLine(u) PROVE TypeOK'
  <2>1. Append(rc, u) \in Seq(Lines) /\ Append(safe, u) \in Seq(Line)
    BY DEF Lines
  <2> QED BY <1>10, <2>1 DEF AddLine
<1>11. ASSUME NEW i \in DOMAIN rc, DeleteMarker(i) PROVE TypeOK'
  BY <1>11, RemoveAtType DEF DeleteMarker
<1>12. CASE DeleteBlock
  BY <1>12, StripType DEF DeleteBlock
<1>13. CASE Permit
  BY <1>13 DEF Permit
<1>14. CASE UNCHANGED vars
  BY <1>14 DEF vars
<1> QED BY <1>1, <1>2, <1>3, <1>4, <1>5, <1>6, <1>7, <1>8, <1>9, <1>10, <1>11,
        <1>12, <1>13, <1>14 DEF Next, Rewrite, Install, Uninstall, User

LEMMA BeginIsARace ==
    ASSUME TypeOK, ProcessInv, NEW p \in Process, NEW v, Begin(p, v),
           pc[p] \in {"down", "check"}, fd' = fd, tmp' = tmp
    PROVE  ProcessInv'
<1> USE DEF TypeOK, ProcessInv, Rewriting
<1>1. /\ pc'[p] = "read" /\ \A q \in Process \ {p} : pc'[q] = pc[q]
      /\ raced => raced'
      /\ (\E q \in Process \ {p} : Rewriting(q)) => raced'
  BY DEF Begin
<1>2. ASSUME NEW q \in Process, NEW r \in Process, q # r,
             Rewriting(q)', Rewriting(r)'
      PROVE  raced'
  <2>1. CASE q = p
    BY <1>1, <1>2, <2>1
  <2>2. CASE r = p
    BY <1>1, <1>2, <2>2
  <2>3. CASE q # p /\ r # p
    BY <1>1, <1>2, <2>3
  <2> QED BY <2>1, <2>2, <2>3
<1>3. ASSUME NEW q \in Process, pc'[q] # "write" PROVE fd'[q] = "none"
  BY <1>1, <1>3
<1> QED BY <1>2, <1>3

LEMMA ProcessPreserved == IInv /\ [Next]_vars => ProcessInv'
<1> SUFFICES ASSUME IInv, [Next]_vars PROVE ProcessInv'
  OBVIOUS
<1> USE DEF IInv, TypeOK, ProcessInv, Rewriting, process, outside, history
<1>0. "monitor" \in Process /\ "command" \in Process
  BY DEF Process
<1>1. ASSUME NEW p \in Process, ReadRc(p) PROVE ProcessInv'
  <2>1. /\ pc[p] = "read" /\ pc'[p] \in {"open", "check", "down"}
        /\ \A q \in Process \ {p} : pc'[q] = pc[q]
        /\ UNCHANGED <<fd, tmp, raced>>
    BY <1>1 DEF ReadRc, Finish
  <2> QED BY <2>1
<1>2. ASSUME NEW p \in Process, OpenTmp(p) PROVE ProcessInv'
  <2>1. <<>> # None
    <3>1. <<>> \in Seq(Lines)
      BY EmptySeq
    <3> QED BY <3>1, NoneAssumption
  <2> QED BY <1>2, <2>1 DEF OpenTmp
<1>3. ASSUME NEW p \in Process, WriteTmp(p) PROVE ProcessInv'
  <2>1. next[p] \in Seq(Lines)
    OBVIOUS
  <2>2. fd[p] = "tmp" => Overlay(next[p], tmp) \in Seq(Lines)
    BY <2>1, OverlayType
  <2>3. fd[p] = "tmp" => Overlay(next[p], tmp) # None
    BY <2>2, NoneAssumption
  <2>4. tmp' = tmp \/ tmp' # None
    BY <1>3, <2>3 DEF WriteTmp
  <2> QED BY <1>3, <2>4 DEF WriteTmp
<1>4. ASSUME NEW p \in Process, Rename(p) PROVE ProcessInv'
  BY <1>4 DEF Rename, Finish
<1>5. ASSUME NEW p \in Process, Killed(p) PROVE ProcessInv'
  BY <1>5 DEF Killed
<1>6. ASSUME NEW v \in Config, Configure(v) PROVE ProcessInv'
  BY <1>6 DEF Configure
<1>7. ASSUME NEW v \in Config \union {None}, Command(v) PROVE ProcessInv'
  BY <1>0, <1>7, BeginIsARace DEF Command
<1>8. CASE MonitorStarts
  BY <1>0, <1>8 DEF MonitorStarts
<1>9. CASE CheckAndRecover
  BY <1>0, <1>9, BeginIsARace DEF CheckAndRecover
<1>10. CASE User
  BY <1>10 DEF User, AddLine, DeleteMarker, DeleteBlock
<1>11. CASE Permit
  BY <1>11 DEF Permit
<1>12. CASE UNCHANGED vars
  BY <1>12 DEF vars
<1> QED BY <1>1, <1>2, <1>3, <1>4, <1>5, <1>6, <1>7, <1>8, <1>9, <1>10, <1>11,
        <1>12 DEF Next, Rewrite, Install, Uninstall

\* A line added to the file and to the lines that must stay.
LEMMA KeepsAppended ==
    ASSUME NEW s \in Seq(Lines), NEW t \in Seq(Line), NEW u \in Line,
           \A i \in DOMAIN s : s[i] # u, \A i \in DOMAIN t : t[i] # u, Keeps(s, t)
    PROVE  Keeps(Append(s, u), t) /\ Keeps(Append(s, u), Append(t, u))
<1> DEFINE z == Append(s, u)
           w == Append(t, u)
<1>1. /\ Len(s) \in Nat /\ DOMAIN z = 1..Len(s) + 1 /\ z[Len(s) + 1] = u
      /\ DOMAIN s = 1..Len(s) /\ \A i \in 1..Len(s) : z[i] = s[i]
  BY DEF Lines
<1>2. /\ Len(t) \in Nat /\ DOMAIN w = 1..Len(t) + 1 /\ w[Len(t) + 1] = u
      /\ DOMAIN t = 1..Len(t) /\ \A i \in 1..Len(t) : w[i] = t[i]
  OBVIOUS
<1> HIDE DEF z, w
<1>3. /\ \A k \in 1..Len(s) + 1 : k \in DOMAIN s \/ k = Len(s) + 1
      /\ \A i \in 1..Len(t) + 1 : i \in DOMAIN t \/ i = Len(t) + 1
  BY <1>1, <1>2
<1>4. Keeps(z, t)
  <2>1. ASSUME NEW i \in DOMAIN t PROVE \E k \in DOMAIN z : z[k] = t[i]
    BY <1>1 DEF Keeps
  <2>2. ASSUME NEW k \in DOMAIN z, NEW i \in DOMAIN t, z[k] = t[i]
        PROVE  k \in DOMAIN s /\ s[k] = t[i]
    BY <1>1, <1>3, <2>2
  <2> QED BY <2>1, <2>2 DEF Keeps
<1>5. Keeps(z, w)
  <2>1. ASSUME NEW i \in DOMAIN w PROVE \E k \in DOMAIN z : z[k] = w[i]
    <3>1. CASE i \in DOMAIN t
      BY <1>2, <1>4, <3>1 DEF Keeps
    <3>2. CASE i = Len(t) + 1
      BY <1>1, <1>2, <3>2
    <3> QED BY <1>2, <1>3, <3>1, <3>2
  <2>2. ASSUME NEW k \in DOMAIN z, NEW i \in DOMAIN w, z[k] = w[i]
        PROVE  \/ k \in DOMAIN s /\ i \in DOMAIN t /\ s[k] = t[i]
               \/ k = Len(s) + 1 /\ i = Len(t) + 1
    BY <1>1, <1>2, <1>3, <2>2
  <2>3. ASSUME NEW k \in DOMAIN z, NEW l \in DOMAIN z,
               NEW i \in DOMAIN w, NEW j \in DOMAIN w, z[k] = w[i], z[l] = w[j]
        PROVE  k < l <=> i < j
    <3>1. \/ k \in DOMAIN s /\ i \in DOMAIN t /\ s[k] = t[i]
          \/ k = Len(s) + 1 /\ i = Len(t) + 1
      BY <2>2, <2>3
    <3>2. \/ l \in DOMAIN s /\ j \in DOMAIN t /\ s[l] = t[j]
          \/ l = Len(s) + 1 /\ j = Len(t) + 1
      BY <2>2, <2>3
    <3> QED BY <1>1, <1>2, <3>1, <3>2 DEF Keeps
  <2> QED BY <2>1, <2>3 DEF Keeps
<1> QED BY <1>4, <1>5 DEF z, w

LEMMA WholeAppended ==
    ASSUME NEW s \in Seq(Lines), NEW u \in Line, Whole(s)
    PROVE  Whole(Append(s, u))
<1> DEFINE z == Append(s, u)
<1>1. /\ Len(s) \in Nat /\ DOMAIN z = 1..Len(s) + 1 /\ z[Len(s) + 1] = u
      /\ DOMAIN s = 1..Len(s) /\ (\A i \in 1..Len(s) : z[i] = s[i])
      /\ Len(z) = Len(s) + 1
  BY DEF Lines
<1> HIDE DEF z
<1>2. ASSUME \A i \in DOMAIN s : s[i] \in Line \union {Blank} PROVE Whole(z)
  BY <1>1, <1>2 DEF Whole
<1>3. ASSUME NEW a \in 1..Len(s) - 2, BlockAt(s, a) PROVE Whole(z)
  <2>1. a \in 1..Len(z) - 2
    BY <1>1
  <2>2. BlockAt(z, a)
    <3>1. z[a] = s[a] /\ z[a + 1] = s[a + 1] /\ z[a + 2] = s[a + 2]
      BY <1>1
    <3>2. ASSUME NEW i \in DOMAIN z, i \notin a..a + 2
          PROVE  z[i] \in Line \union {Blank}
      BY <1>1, <1>3, <3>2 DEF BlockAt
    <3> QED BY <1>3, <3>1, <3>2 DEF BlockAt
  <2> QED BY <2>1, <2>2 DEF Whole
<1>4. ASSUME \E a \in 1..Len(s) - 2 : BlockAt(s, a) PROVE Whole(z)
  <2>1. PICK a \in 1..Len(s) - 2 : BlockAt(s, a)
    BY <1>4
  <2> QED BY <1>3, <2>1
<1>5. \/ \A i \in DOMAIN s : s[i] \in Line \union {Blank}
      \/ \E a \in 1..Len(s) - 2 : BlockAt(s, a)
  BY DEF Whole
<1> QED BY <1>2, <1>4, <1>5 DEF z

LEMMA BeginKeepsFile ==
    ASSUME IInv, NEW p \in Process, NEW v, Begin(p, v),
           UNCHANGED <<rc, tmp, next, fd, safe, broken>>
    PROVE  FileInv'
<1> SUFFICES ASSUME ~broken', ~raced' PROVE FileInv'
  BY DEF FileInv
<1>1. ~broken /\ ~raced
  BY DEF Begin
<1>2. \A q \in Process : pc'[q] = pc[q] \/ pc'[q] = "read"
  BY DEF IInv, TypeOK, Begin
<1> QED BY <1>1, <1>2 DEF IInv, FileInv, Fine

LEMMA FilePreserved == IInv /\ [Next]_vars => FileInv'
<1> SUFFICES ASSUME IInv, [Next]_vars PROVE FileInv'
  OBVIOUS
<1> USE DEF process, outside, history
<1>0. /\ TypeOK /\ ProcessInv /\ FileInv
      /\ \A p \in Process : loaded[p] \in Config \union {None}
      /\ rc \in Seq(Lines) /\ safe \in Seq(Line)
  BY DEF IInv, TypeOK
\* While one process rewrites the file the other does not.
<1>a. ASSUME NEW p \in Process, NEW q \in Process, ~raced, Rewriting(p), q # p
      PROVE  pc[q] \notin {"open", "write", "rename"}
  BY <1>0, <1>a DEF ProcessInv, Rewriting
<1>1. ASSUME NEW p \in Process, ReadRc(p) PROVE FileInv'
  <2> SUFFICES ASSUME ~broken, ~raced PROVE FileInv'
    BY <1>1 DEF ReadRc, FileInv
  <2> DEFINE s == Rewritten(rc, loaded[p])
  <2>1. Whole(s) /\ Keeps(s, safe)
    BY <1>0, RewrittenFine DEF FileInv, Fine
  <2>2. /\ UNCHANGED <<rc, tmp, safe, fd>>
        /\ \A q \in Process \ {p} : pc'[q] = pc[q] /\ next'[q] = next[q]
        /\ \/ pc'[p] = "open" /\ next'[p] = s
           \/ pc'[p] \in {"down", "check"}
    BY <1>0, <1>1 DEF ReadRc, Finish, TypeOK
  <2> HIDE DEF s
  <2> QED BY <1>0, <2>1, <2>2 DEF FileInv, Fine
<1>2. ASSUME NEW p \in Process, OpenTmp(p) PROVE FileInv'
  <2> SUFFICES ASSUME ~broken, ~raced PROVE FileInv'
    BY <1>2 DEF OpenTmp, FileInv
  <2>1. \A q \in Process \ {p} : pc[q] \notin {"open", "write", "rename"}
    BY <1>2, <1>a DEF OpenTmp, Rewriting
  <2>2. /\ UNCHANGED <<rc, next, safe>> /\ tmp' = <<>> /\ pc[p] = "open"
        /\ \A q \in Process \ {p} : pc'[q] = pc[q]
        /\ pc'[p] = "write" /\ fd'[p] = "tmp"
    BY <1>0, <1>2 DEF OpenTmp, TypeOK
  <2> QED BY <1>0, <2>1, <2>2 DEF FileInv, Fine
<1>3. ASSUME NEW p \in Process, WriteTmp(p) PROVE FileInv'
  <2> SUFFICES ASSUME ~broken, ~raced PROVE FileInv'
    BY <1>3 DEF WriteTmp, FileInv
  <2>1. \A q \in Process \ {p} : pc[q] \notin {"open", "write", "rename"}
    BY <1>3, <1>a DEF WriteTmp, Rewriting
  <2>2. Whole(next[p]) /\ Keeps(next[p], safe) /\ fd[p] = "tmp" /\ tmp = <<>>
    BY <1>0, <1>3 DEF FileInv, Fine, WriteTmp
  <2>3. Overlay(next[p], tmp) = next[p]
    <3>1. next[p] \in Seq(Lines) /\ tmp \in Seq(Lines)
      BY <1>0, <2>2, EmptySeq DEF TypeOK
    <3> QED BY <2>2, <3>1, OverlayType
  <2>4. /\ UNCHANGED <<rc, safe>> /\ tmp' = next[p]
        /\ \A q \in Process \ {p} : pc'[q] = pc[q]
        /\ pc'[p] = "rename"
    BY <1>0, <1>3, <2>2, <2>3 DEF WriteTmp, TypeOK
  <2> QED BY <1>0, <2>1, <2>2, <2>4 DEF FileInv, Fine
<1>4. ASSUME NEW p \in Process, Rename(p) PROVE FileInv'
  <2> SUFFICES ASSUME ~broken, ~raced PROVE FileInv'
    BY <1>4 DEF Rename, FileInv
  <2>1. \A q \in Process \ {p} : pc[q] \notin {"open", "write", "rename"}
    BY <1>4, <1>a DEF Rename, Rewriting
  <2>2. /\ UNCHANGED safe
        /\ rc' = rc \/ (tmp # None /\ rc' = tmp)
        /\ \A q \in Process \ {p} : pc'[q] = pc[q]
        /\ pc[p] = "rename" /\ pc'[p] \in {"down", "check"}
    BY <1>0, <1>4 DEF Rename, Finish, TypeOK
  <2>3. Whole(rc') /\ Keeps(rc', safe')
    <3>1. Fine(rc) /\ (tmp # None => Fine(tmp))
      BY <1>0, <2>2 DEF FileInv
    <3> QED BY <2>2, <3>1 DEF Fine
  <2> QED BY <1>0, <2>1, <2>2, <2>3 DEF FileInv, Fine
<1>5. ASSUME NEW p \in Process, Killed(p) PROVE FileInv'
  <2>1. /\ UNCHANGED <<rc, tmp, safe, broken, raced>> /\ pc'[p] = "down"
        /\ \A q \in Process \ {p} :
              pc'[q] = pc[q] /\ next'[q] = next[q] /\ fd'[q] = fd[q]
    BY <1>0, <1>5 DEF Killed, TypeOK
  <2> QED BY <1>0, <2>1 DEF FileInv, Fine
<1>6. ASSUME NEW v \in Config, Configure(v) PROVE FileInv'
  BY <1>0, <1>6 DEF Configure, FileInv, Fine
<1>7. ASSUME NEW v \in Config \union {None}, Command(v) PROVE FileInv'
  <2>1. "command" \in Process
    BY DEF Process
  <2> QED BY <1>7, <2>1, BeginKeepsFile DEF Command
<1>8. CASE MonitorStarts
  <2>1. /\ UNCHANGED <<rc, tmp, next, fd, safe, broken, raced>>
        /\ \A q \in Process : pc'[q] = pc[q] \/ pc'[q] = "check"
    BY <1>0, <1>8 DEF MonitorStarts, TypeOK
  <2> QED BY <1>0, <2>1 DEF FileInv, Fine
<1>9. CASE CheckAndRecover
  <2>1. "monitor" \in Process
    BY DEF Process
  <2> QED BY <1>9, <2>1, BeginKeepsFile DEF CheckAndRecover
<1>10. ASSUME NEW u \in Line, AddLine(u) PROVE FileInv'
  <2> SUFFICES ASSUME ~broken, ~raced PROVE FileInv'
    BY <1>10 DEF AddLine, FileInv
  <2>1. Whole(rc) /\ Keeps(rc, safe)
    BY <1>0 DEF FileInv, Fine
  <2>2. (\A i \in DOMAIN rc : rc[i] # u) /\ (\A i \in DOMAIN safe : safe[i] # u)
    BY <1>0, <1>10 DEF AddLine, Contains
  <2>3. /\ rc' = Append(rc, u) /\ UNCHANGED <<tmp, pc, next, fd>>
        /\ \/ safe' = safe
           \/ safe' = Append(safe, u) /\ \A p \in Process : ~Rewriting(p)
    BY <1>10 DEF AddLine
  <2>4. Whole(rc') /\ Keeps(rc', safe')
    <3>1. Whole(Append(rc, u))
      BY <1>0, <2>1, WholeAppended
    <3>2. Keeps(Append(rc, u), safe) /\ Keeps(Append(rc, u), Append(safe, u))
      BY <1>0, <2>1, <2>2, KeepsAppended
    <3> QED BY <2>3, <3>1, <3>2
  <2> QED BY <1>0, <2>3, <2>4 DEF FileInv, Fine, Rewriting
<1>11. ASSUME NEW i \in DOMAIN rc, DeleteMarker(i) PROVE FileInv'
  BY <1>11 DEF DeleteMarker, FileInv
<1>12. CASE DeleteBlock
  <2> SUFFICES ASSUME ~broken, ~raced PROVE FileInv'
    BY <1>12 DEF DeleteBlock, FileInv
  <2>1. Whole(rc) /\ Keeps(rc, safe)
    BY <1>0 DEF FileInv, Fine
  <2>2. Keeps(Strip(rc), safe)
    BY <1>0, <2>1, StripKeeps
  <2>3. Whole(Strip(rc))
    BY <1>0, <2>1, StripPlain DEF Whole, Plain
  <2> QED BY <1>0, <1>12, <2>2, <2>3 DEF DeleteBlock, FileInv, Fine
<1>13. CASE Permit
  BY <1>0, <1>13 DEF Permit, FileInv, Fine
<1>14. CASE UNCHANGED vars
  BY <1>0, <1>14 DEF vars, FileInv, Fine
<1> QED BY <1>1, <1>2, <1>3, <1>4, <1>5, <1>6, <1>7, <1>8, <1>9, <1>10, <1>11,
        <1>12, <1>13, <1>14 DEF Next, Rewrite, Install, Uninstall, User, IInv, TypeOK

LEMMA IInvAlways == Spec => []IInv
<1>1. IInv /\ [Next]_vars => IInv'
  BY TypePreserved, ProcessPreserved, FilePreserved DEF IInv
<1> QED BY InitIInv, <1>1, PTL DEF Spec

\* Every reachable state of the file, the processes and the user is well typed.
THEOREM TypeCorrect == Spec => []TypeOK
<1>1. IInv => TypeOK
  BY DEF IInv
<1> QED BY <1>1, IInvAlways, PTL

\* No install, uninstall, recovery or kill loses or reorders a line of the user.
THEOREM LinesStayHolds == Spec => []LinesStay
<1>1. IInv => LinesStay
  BY DEF IInv, FileInv, Fine, LinesStay
<1> QED BY <1>1, IInvAlways, PTL

\* The file has one whole block or none.
THEOREM OneBlockHolds == Spec => []OneBlock
<1>1. IInv => OneBlock
  BY DEF IInv, FileInv, Fine, OneBlock
<1> QED BY <1>1, IInvAlways, PTL

-----------------------------------------------------------------------------
(* The local proxy, for every set of connections, both modes and every number *)
(* of chunks. TLC runs one connection; what connections share is the listener *)
(* and the wait at the end, and that is what QuietInv is about.               *)

\* Nobody is queued at a closed listener, so no handler starts after it.
QuietInv ==
    /\ serve # "accepting" => ~listening
    /\ ~listening => \A c \in Conn : connPc[c] # "queued"
    /\ serve = "returned" => \A c \in Conn : ~Handled(c)

\* The upstream socket belongs to the handler, the copiers to the splice.
OwnInv ==
    \A c \in Conn :
        /\ ~Handled(c) => ~upOpen[c]
        /\ connPc[c] = "closed" =>
              \A s \in Side : copier[c][s] \in {"off", "ended"}
        /\ connPc[c] \notin {"splice", "closed"} =>
              \A s \in Side : copier[c][s] = "off"

\* The chunk a copier holds is the only one neither lost nor written.
Held(c, s) == IF copier[c][s] = "write" THEN 1 ELSE 0

CountInv ==
    \A c \in Conn, s \in Side :
        copier[c][s] # "ended" => lost[c][s] + put[c][s] + Held(c, s) = taken[c][s]

\* A deadline is the other copier's end. The first end needs a peer that is
\* gone, or one whose whole stream was written.
Delivered(c, s) ==
    /\ copier[c][s] = "ended" /\ fin[c][s]
    /\ lost[c][s] + put[c][s] = sent[c][s]

EndInv ==
    \A c \in Conn :
        /\ \A s \in Side : deadline[c][s] => copier[c][Other(s)] = "ended"
        /\ (\E s \in Side : copier[c][s] = "ended") =>
              (\E s \in Side : gone[c][s]) \/ (\E s \in Side : Delivered(c, s))

ProxyInv == ProxyTypeOK /\ QuietInv /\ OwnInv /\ CountInv /\ EndInv

LEMMA PerSideType ==
    ASSUME NEW S, NEW v \in S
    PROVE  PerSide(v) \in [Conn -> [Side -> S]]
BY DEF PerSide

LEMMA SideUpdate ==
    ASSUME NEW S, NEW f \in [Conn -> [Side -> S]], NEW c \in Conn,
           NEW s \in Side, NEW v \in S
    PROVE  [f EXCEPT ![c][s] = v] \in [Conn -> [Side -> S]]
OBVIOUS

LEMMA InitProxyInv == ProxyInit => ProxyInv
<1> SUFFICES ASSUME ProxyInit PROVE ProxyInv
  OBVIOUS
<1> USE ProxyBoundsAssumption
<1>1. ProxyTypeOK
  <2>1. PerSide(0) \in [Conn -> [Side -> Nat]]
        /\ PerSide(0) \in [Conn -> [Side -> 0..Room]]
    <3>1. 0 \in Nat /\ 0 \in 0..Room
      OBVIOUS
    <3> QED BY <3>1, PerSideType
  <2>2. PerSide(FALSE) \in [Conn -> [Side -> BOOLEAN]]
    BY PerSideType
  <2>3. PerSide("off") \in [Conn -> [Side -> {"off", "read", "write", "ended"}]]
    BY PerSideType
  <2> QED BY <2>1, <2>2, <2>3 DEF ProxyInit, ProxyTypeOK, States
<1>2. QuietInv /\ OwnInv
  BY DEF ProxyInit, QuietInv, OwnInv, Handled, PerSide
<1>3. CountInv /\ EndInv
  BY DEF ProxyInit, CountInv, EndInv, Held, Delivered, PerSide
<1> QED BY <1>1, <1>2, <1>3 DEF ProxyInv

LEMMA ProxyTypePreserved == ProxyTypeOK /\ [ProxyNext]_proxyVars => ProxyTypeOK'
<1> SUFFICES ASSUME ProxyTypeOK, [ProxyNext]_proxyVars PROVE ProxyTypeOK'
  OBVIOUS
<1> USE ProxyBoundsAssumption
<1> USE DEF ProxyTypeOK, States, Side, Other, server, data, peers, copies
<1>1. CASE Cancel
  BY <1>1 DEF Cancel
<1>2. CASE CloseListener
  BY <1>2 DEF CloseListener
<1>3. CASE AcceptFails
  BY <1>3 DEF AcceptFails
<1>4. CASE Return
  BY <1>4 DEF Return
<1>5. ASSUME NEW c \in Conn, Connect(c) PROVE ProxyTypeOK'
  BY <1>5 DEF Connect
<1>6. ASSUME NEW c \in Conn, Accept(c) PROVE ProxyTypeOK'
  BY <1>6 DEF Accept
<1>7. ASSUME NEW c \in Conn, Handler(c) PROVE ProxyTypeOK'
  <2>1. CASE ReadConnect(c)
    BY <2>1 DEF ReadConnect, DropBuffered
  <2>2. CASE RequestFails(c)
    BY <2>2 DEF RequestFails, Close
  <2>3. CASE DialSucceeds(c)
    BY <2>3 DEF DialSucceeds
  <2>4. CASE DialFails(c)
    BY <2>4 DEF DialFails, Fallback
  <2>5. CASE InnerAnswered(c)
    BY <2>5 DEF InnerAnswered, DropBuffered
  <2>6. CASE InnerFails(c)
    BY <2>6 DEF InnerFails, Fallback
  <2>7. CASE DirectDial(c)
    BY <2>7 DEF DirectDial, Close
  <2>8. CASE Acknowledge(c)
    <3>1. [s \in Side |-> "read"] \in [Side -> {"off", "read", "write", "ended"}]
      OBVIOUS
    <3> HIDE DEF Side
    <3>2. CASE copier' = [copier EXCEPT ![c] = [s \in Side |-> "read"]]
      <4>1. copier' \in [Conn -> [Side -> {"off", "read", "write", "ended"}]]
        BY <3>1, <3>2
      <4> QED BY <2>8, <4>1 DEF Acknowledge, Close
    <3>3. CASE UNCHANGED copier
      BY <2>8, <3>3 DEF Acknowledge, Close
    <3> QED BY <2>8, <3>2, <3>3 DEF Acknowledge
  <2>9. CASE SpliceEnds(c)
    BY <2>9 DEF SpliceEnds, Close
  <2> QED BY <1>7, <2>1, <2>2, <2>3, <2>4, <2>5, <2>6, <2>7, <2>8, <2>9 DEF Handler
<1>8. ASSUME NEW c \in Conn, NEW s \in Side, Peer(c, s) PROVE ProxyTypeOK'
  <2> HIDE DEF Side
  <2>1. CASE PeerSends(c, s)
    <3>1. sent[c][s] + 1 \in Nat
      OBVIOUS
    <3>2. sent' \in [Conn -> [Side -> Nat]]
      BY <2>1, <3>1, SideUpdate DEF PeerSends
    <3> QED BY <2>1, <3>2 DEF PeerSends
  <2>2. CASE PeerReads(c, s)
    <3>1. pending[c][s] - 1 \in 0..Room
      BY <2>2 DEF PeerReads
    <3>2. pending' \in [Conn -> [Side -> 0..Room]]
      BY <2>2, <3>1, SideUpdate DEF PeerReads
    <3> QED BY <2>2, <3>2 DEF PeerReads
  <2>3. CASE PeerFins(c, s)
    <3>1. fin' \in [Conn -> [Side -> BOOLEAN]]
      BY <2>3, SideUpdate DEF PeerFins
    <3> QED BY <2>3, <3>1 DEF PeerFins
  <2>4. CASE PeerGoes(c, s)
    <3>1. gone' \in [Conn -> [Side -> BOOLEAN]]
      BY <2>4, SideUpdate DEF PeerGoes
    <3> QED BY <2>4, <3>1 DEF PeerGoes
  <2> QED BY <1>8, <2>1, <2>2, <2>3, <2>4 DEF Peer
<1>9. ASSUME NEW c \in Conn, NEW s \in Side, Copier(c, s) PROVE ProxyTypeOK'
  <2>1. Other(s) \in Side
    OBVIOUS
  <2> HIDE DEF Side, Other
  <2>2. CASE CopierReads(c, s)
    <3>0. taken[c][s] + 1 \in Nat
      OBVIOUS
    <3>1. taken' \in [Conn -> [Side -> Nat]]
      BY <2>2, <3>0, SideUpdate DEF CopierReads
    <3>2. copier' \in [Conn -> [Side -> {"off", "read", "write", "ended"}]]
      BY <2>2, SideUpdate DEF CopierReads
    <3> QED BY <2>2, <3>1, <3>2 DEF CopierReads
  <2>3. ASSUME EndCopier(c, s),
               UNCHANGED <<connPc, server, upOpen, data, peers>>
        PROVE  ProxyTypeOK'
    <3>1. copier' \in [Conn -> [Side -> {"off", "read", "write", "ended"}]]
      BY <2>3, SideUpdate DEF EndCopier
    <3>2. deadline' \in [Conn -> [Side -> BOOLEAN]]
      BY <2>1, <2>3, SideUpdate DEF EndCopier
    <3> QED BY <2>3, <3>1, <3>2
  <2>4. CASE CopierWrites(c, s)
    <3> DEFINE o == Other(s)
    <3>1. pending[c][o] + 1 \in 0..Room
      BY <2>1, <2>4 DEF CopierWrites
    <3>2. pending' \in [Conn -> [Side -> 0..Room]]
      BY <2>1, <2>4, <3>1, SideUpdate DEF CopierWrites
    <3>0. put[c][s] + 1 \in Nat
      OBVIOUS
    <3>3. put' \in [Conn -> [Side -> Nat]]
      BY <2>4, <3>0, SideUpdate DEF CopierWrites
    <3>4. copier' \in [Conn -> [Side -> {"off", "read", "write", "ended"}]]
      BY <2>4, SideUpdate DEF CopierWrites
    <3> QED BY <2>4, <3>2, <3>3, <3>4 DEF CopierWrites
  <2> QED BY <1>9, <2>2, <2>3, <2>4 DEF Copier, CopierReadEnds, CopierWriteFails
<1>10. CASE UNCHANGED proxyVars
  BY <1>10 DEF proxyVars
<1> QED BY <1>1, <1>2, <1>3, <1>4, <1>5, <1>6, <1>7, <1>8, <1>9, <1>10 DEF ProxyNext
LEMMA QuietPreserved == ProxyInv /\ [ProxyNext]_proxyVars => QuietInv'
<1> SUFFICES ASSUME ProxyInv, [ProxyNext]_proxyVars PROVE QuietInv'
  OBVIOUS
<1> USE DEF ProxyInv, ProxyTypeOK, QuietInv, Handled, States,
        server, data, peers, copies
<1>1. CASE Cancel
  BY <1>1 DEF Cancel
<1>2. CASE CloseListener
  BY <1>2 DEF CloseListener
<1>3. CASE AcceptFails
  BY <1>3 DEF AcceptFails
<1>4. CASE Return
  BY <1>4 DEF Return
<1>5. ASSUME NEW c \in Conn, Connect(c) PROVE QuietInv'
  BY <1>5 DEF Connect
<1>6. ASSUME NEW c \in Conn, Accept(c) PROVE QuietInv'
  BY <1>6 DEF Accept
<1>7. ASSUME NEW c \in Conn, Handler(c) PROVE QuietInv'
  <2>1. CASE ReadConnect(c)
    BY <2>1 DEF ReadConnect, DropBuffered
  <2>2. CASE RequestFails(c)
    BY <2>2 DEF RequestFails, Close
  <2>3. CASE DialSucceeds(c)
    BY <2>3 DEF DialSucceeds
  <2>4. CASE DialFails(c)
    BY <2>4 DEF DialFails, Fallback
  <2>5. CASE InnerAnswered(c)
    BY <2>5 DEF InnerAnswered, DropBuffered
  <2>6. CASE InnerFails(c)
    BY <2>6 DEF InnerFails, Fallback
  <2>7. CASE DirectDial(c)
    BY <2>7 DEF DirectDial, Close
  <2>8. CASE Acknowledge(c)
    BY <2>8 DEF Acknowledge, Close
  <2>9. CASE SpliceEnds(c)
    BY <2>9 DEF SpliceEnds, Close
  <2> QED BY <1>7, <2>1, <2>2, <2>3, <2>4, <2>5, <2>6, <2>7, <2>8, <2>9 DEF Handler
<1>8. ASSUME NEW c \in Conn, NEW s \in Side, Peer(c, s) PROVE QuietInv'
  <2>1. CASE PeerSends(c, s)
    BY <2>1 DEF PeerSends
  <2>2. CASE PeerReads(c, s)
    BY <2>2 DEF PeerReads
  <2>3. CASE PeerFins(c, s)
    BY <2>3 DEF PeerFins
  <2>4. CASE PeerGoes(c, s)
    BY <2>4 DEF PeerGoes
  <2> QED BY <1>8, <2>1, <2>2, <2>3, <2>4 DEF Peer
<1>9. ASSUME NEW c \in Conn, NEW s \in Side, Copier(c, s) PROVE QuietInv'
  <2>1. CASE CopierReads(c, s)
    BY <2>1 DEF CopierReads
  <2>2. CASE CopierReadEnds(c, s)
    BY <2>2 DEF CopierReadEnds, EndCopier
  <2>3. CASE CopierWrites(c, s)
    BY <2>3 DEF CopierWrites
  <2>4. CASE CopierWriteFails(c, s)
    BY <2>4 DEF CopierWriteFails, EndCopier
  <2> QED BY <1>9, <2>1, <2>2, <2>3, <2>4 DEF Copier
<1>10. CASE UNCHANGED proxyVars
  BY <1>10 DEF proxyVars
<1> QED BY <1>1, <1>2, <1>3, <1>4, <1>5, <1>6, <1>7, <1>8, <1>9, <1>10 DEF ProxyNext

LEMMA OwnPreserved == ProxyInv /\ [ProxyNext]_proxyVars => OwnInv'
<1> SUFFICES ASSUME ProxyInv, [ProxyNext]_proxyVars PROVE OwnInv'
  OBVIOUS
<1> USE DEF ProxyInv, ProxyTypeOK, OwnInv, Handled, States, Side,
        server, data, peers, copies
<1>1. CASE Cancel
  BY <1>1 DEF Cancel
<1>2. CASE CloseListener
  BY <1>2 DEF CloseListener
<1>3. CASE AcceptFails
  BY <1>3 DEF AcceptFails
<1>4. CASE Return
  BY <1>4 DEF Return
<1>5. ASSUME NEW c \in Conn, Connect(c) PROVE OwnInv'
  BY <1>5 DEF Connect
<1>6. ASSUME NEW c \in Conn, Accept(c) PROVE OwnInv'
  BY <1>6 DEF Accept
<1>7. ASSUME NEW c \in Conn, Handler(c) PROVE OwnInv'
  <2>1. CASE ReadConnect(c)
    BY <2>1 DEF ReadConnect, DropBuffered
  <2>2. CASE RequestFails(c)
    BY <2>2 DEF RequestFails, Close
  <2>3. CASE DialSucceeds(c)
    BY <2>3 DEF DialSucceeds
  <2>4. CASE DialFails(c)
    BY <2>4 DEF DialFails, Fallback
  <2>5. CASE InnerAnswered(c)
    BY <2>5 DEF InnerAnswered, DropBuffered
  <2>6. CASE InnerFails(c)
    BY <2>6 DEF InnerFails, Fallback
  <2>7. CASE DirectDial(c)
    BY <2>7 DEF DirectDial, Close
  <2>8. CASE Acknowledge(c)
    <3>1. CASE copier' = [copier EXCEPT ![c] = [s \in Side |-> "read"]]
      <4>1. /\ \A s \in Side : copier'[c][s] = "read" /\ copier[c][s] = "off"
            /\ \A d \in Conn \ {c} : copier'[d] = copier[d]
        BY <2>8, <3>1 DEF Acknowledge
      <4> HIDE DEF Side
      <4> QED BY <2>8, <3>1, <4>1 DEF Acknowledge, Close
    <3>2. CASE UNCHANGED copier
      BY <2>8, <3>2 DEF Acknowledge, Close
    <3> QED BY <2>8, <3>1, <3>2 DEF Acknowledge
  <2>9. CASE SpliceEnds(c)
    BY <2>9 DEF SpliceEnds, Close
  <2> QED BY <1>7, <2>1, <2>2, <2>3, <2>4, <2>5, <2>6, <2>7, <2>8, <2>9 DEF Handler
<1>8. ASSUME NEW c \in Conn, NEW s \in Side, Peer(c, s) PROVE OwnInv'
  <2>1. CASE PeerSends(c, s)
    BY <2>1 DEF PeerSends
  <2>2. CASE PeerReads(c, s)
    BY <2>2 DEF PeerReads
  <2>3. CASE PeerFins(c, s)
    BY <2>3 DEF PeerFins
  <2>4. CASE PeerGoes(c, s)
    BY <2>4 DEF PeerGoes
  <2> QED BY <1>8, <2>1, <2>2, <2>3, <2>4 DEF Peer
<1>9. ASSUME NEW c \in Conn, NEW s \in Side, Copier(c, s) PROVE OwnInv'
  <2>1. CASE CopierReads(c, s)
    BY <2>1 DEF CopierReads
  <2>2. CASE CopierReadEnds(c, s)
    BY <2>2 DEF CopierReadEnds, EndCopier
  <2>3. CASE CopierWrites(c, s)
    BY <2>3 DEF CopierWrites
  <2>4. CASE CopierWriteFails(c, s)
    BY <2>4 DEF CopierWriteFails, EndCopier
  <2> QED BY <1>9, <2>1, <2>2, <2>3, <2>4 DEF Copier
<1>10. CASE UNCHANGED proxyVars
  BY <1>10 DEF proxyVars
<1> QED BY <1>1, <1>2, <1>3, <1>4, <1>5, <1>6, <1>7, <1>8, <1>9, <1>10 DEF ProxyNext

LEMMA CountPreserved == ProxyInv /\ [ProxyNext]_proxyVars => CountInv'
<1> SUFFICES ASSUME ProxyInv, [ProxyNext]_proxyVars PROVE CountInv'
  OBVIOUS
<1> USE DEF ProxyInv, ProxyTypeOK, OwnInv, CountInv, Held, Handled, Side,
        Other, server, data, peers, copies
<1>1. CASE Cancel
  BY <1>1 DEF Cancel
<1>2. CASE CloseListener
  BY <1>2 DEF CloseListener
<1>3. CASE AcceptFails
  BY <1>3 DEF AcceptFails
<1>4. CASE Return
  BY <1>4 DEF Return
<1>5. ASSUME NEW c \in Conn, Connect(c) PROVE CountInv'
  BY <1>5 DEF Connect
<1>6. ASSUME NEW c \in Conn, Accept(c) PROVE CountInv'
  BY <1>6 DEF Accept
<1>7. ASSUME NEW c \in Conn, Handler(c) PROVE CountInv'
  <2>1. CASE ReadConnect(c)
    BY <2>1 DEF ReadConnect, DropBuffered
  <2>2. CASE RequestFails(c)
    BY <2>2 DEF RequestFails, Close
  <2>3. CASE DialSucceeds(c)
    BY <2>3 DEF DialSucceeds
  <2>4. CASE DialFails(c)
    BY <2>4 DEF DialFails, Fallback
  <2>5. CASE InnerAnswered(c)
    BY <2>5 DEF InnerAnswered, DropBuffered
  <2>6. CASE InnerFails(c)
    BY <2>6 DEF InnerFails, Fallback
  <2>7. CASE DirectDial(c)
    BY <2>7 DEF DirectDial, Close
  <2>8. CASE Acknowledge(c)
    <3>1. CASE copier' = [copier EXCEPT ![c] = [s \in Side |-> "read"]]
      <4>1. /\ \A s \in Side : copier'[c][s] = "read" /\ copier[c][s] = "off"
            /\ \A d \in Conn \ {c} : copier'[d] = copier[d]
        BY <2>8, <3>1 DEF Acknowledge
      <4> HIDE DEF Side
      <4> QED BY <2>8, <3>1, <4>1 DEF Acknowledge, Close
    <3>2. CASE UNCHANGED copier
      BY <2>8, <3>2 DEF Acknowledge, Close
    <3> QED BY <2>8, <3>1, <3>2 DEF Acknowledge
  <2>9. CASE SpliceEnds(c)
    BY <2>9 DEF SpliceEnds, Close
  <2> QED BY <1>7, <2>1, <2>2, <2>3, <2>4, <2>5, <2>6, <2>7, <2>8, <2>9 DEF Handler
<1>8. ASSUME NEW c \in Conn, NEW s \in Side, Peer(c, s) PROVE CountInv'
  <2>1. CASE PeerSends(c, s)
    BY <2>1 DEF PeerSends
  <2>2. CASE PeerReads(c, s)
    BY <2>2 DEF PeerReads
  <2>3. CASE PeerFins(c, s)
    BY <2>3 DEF PeerFins
  <2>4. CASE PeerGoes(c, s)
    BY <2>4 DEF PeerGoes
  <2> QED BY <1>8, <2>1, <2>2, <2>3, <2>4 DEF Peer
<1>9. ASSUME NEW c \in Conn, NEW s \in Side, Copier(c, s) PROVE CountInv'
  <2>1. CASE CopierReads(c, s)
    BY <2>1 DEF CopierReads
  <2>2. CASE CopierReadEnds(c, s)
    BY <2>2 DEF CopierReadEnds, EndCopier
  <2>3. CASE CopierWrites(c, s)
    BY <2>3 DEF CopierWrites
  <2>4. CASE CopierWriteFails(c, s)
    BY <2>4 DEF CopierWriteFails, EndCopier
  <2> QED BY <1>9, <2>1, <2>2, <2>3, <2>4 DEF Copier
<1>10. CASE UNCHANGED proxyVars
  BY <1>10 DEF proxyVars
<1> QED BY <1>1, <1>2, <1>3, <1>4, <1>5, <1>6, <1>7, <1>8, <1>9, <1>10 DEF ProxyNext

LEMMA ReadCount ==
    ASSUME ProxyTypeOK, CountInv, NEW c \in Conn, NEW s \in Side, copier[c][s] = "read"
    PROVE  lost[c][s] + put[c][s] = taken[c][s]
<1>1. lost[c][s] \in Nat /\ put[c][s] \in Nat /\ taken[c][s] \in Nat
  BY DEF ProxyTypeOK
<1>2. lost[c][s] + put[c][s] + Held(c, s) = taken[c][s] /\ Held(c, s) = 0
  BY DEF CountInv, Held
<1> QED BY <1>1, <1>2

\* The peer that Fallback forgets had no copier yet.
LEMMA FallbackKeepsEnds ==
    ASSUME ProxyInv, NEW c \in Conn, \A s \in Side : copier[c][s] = "off",
           Fallback(c), UNCHANGED <<data, copies>>
    PROVE  EndInv'
<1>1. /\ sent' = sent /\ lost' = lost /\ put' = put
      /\ copier' = copier /\ deadline' = deadline
  BY DEF data, copies
<1>2. \A d \in Conn \ {c} : gone'[d] = gone[d] /\ fin'[d] = fin[d]
  BY DEF Fallback, ProxyInv, ProxyTypeOK
<1>3. \A s \in Side : copier[c][s] # "ended" /\ Other(s) \in Side
  BY DEF Other, Side
<1>4. \A d \in Conn, s \in Side : d # c => Delivered(d, s)' = Delivered(d, s)
  BY <1>1, <1>2 DEF Delivered
<1>5. \A s \in Side : ~deadline[c][s]
  BY <1>3 DEF ProxyInv, EndInv
<1>6. ASSUME NEW d \in Conn
      PROVE  /\ \A s \in Side : deadline'[d][s] => copier'[d][Other(s)] = "ended"
             /\ (\E s \in Side : copier'[d][s] = "ended") =>
                   \/ \E s \in Side : gone'[d][s]
                   \/ \E s \in Side : Delivered(d, s)'
  <2>1. CASE d = c
    BY <1>1, <1>3, <1>5, <2>1
  <2>2. CASE d # c
    BY <1>1, <1>2, <1>4, <2>2 DEF ProxyInv, EndInv
  <2> QED BY <2>1, <2>2
<1> QED BY <1>6 DEF EndInv

LEMMA EndPreserved == ProxyInv /\ [ProxyNext]_proxyVars => EndInv'
<1> SUFFICES ASSUME ProxyInv, [ProxyNext]_proxyVars PROVE EndInv'
  OBVIOUS
<1> USE DEF ProxyInv, ProxyTypeOK, OwnInv, CountInv, EndInv, Held, Delivered,
        Handled, Side, Other, server, data, peers, copies
<1>1. CASE Cancel
  BY <1>1 DEF Cancel
<1>2. CASE CloseListener
  BY <1>2 DEF CloseListener
<1>3. CASE AcceptFails
  BY <1>3 DEF AcceptFails
<1>4. CASE Return
  BY <1>4 DEF Return
<1>5. ASSUME NEW c \in Conn, Connect(c) PROVE EndInv'
  BY <1>5 DEF Connect
<1>6. ASSUME NEW c \in Conn, Accept(c) PROVE EndInv'
  BY <1>6 DEF Accept
<1>7. ASSUME NEW c \in Conn, Handler(c) PROVE EndInv'
  <2>1. CASE ReadConnect(c)
    BY <2>1 DEF ReadConnect, DropBuffered
  <2>2. CASE RequestFails(c)
    BY <2>2 DEF RequestFails, Close
  <2>3. CASE DialSucceeds(c)
    BY <2>3 DEF DialSucceeds
  <2>4. CASE DialFails(c)
    <3>0. \A s \in Side : copier[c][s] = "off"
      BY <2>4 DEF DialFails
    <3>1. Fallback(c) /\ UNCHANGED <<data, copies>>
      BY <2>4 DEF DialFails
    <3> QED BY <3>0, <3>1, FallbackKeepsEnds
  <2>5. CASE InnerAnswered(c)
    BY <2>5 DEF InnerAnswered, DropBuffered
  <2>6. CASE InnerFails(c)
    <3>0. \A s \in Side : copier[c][s] = "off"
      BY <2>6 DEF InnerFails
    <3>1. Fallback(c) /\ UNCHANGED <<data, copies>>
      BY <2>6 DEF InnerFails
    <3> QED BY <3>0, <3>1, FallbackKeepsEnds
  <2>7. CASE DirectDial(c)
    BY <2>7 DEF DirectDial, Close
  <2>8. CASE Acknowledge(c)
    <3>1. CASE copier' = [copier EXCEPT ![c] = [s \in Side |-> "read"]]
      <4>1. /\ \A s \in Side : copier'[c][s] = "read" /\ copier[c][s] = "off"
            /\ \A d \in Conn \ {c} : copier'[d] = copier[d]
        BY <2>8, <3>1, SMTT(60) DEF Acknowledge
      <4>2. \A s \in Side : ~deadline[c][s]
        BY <4>1
      <4>3. UNCHANGED <<data, peers, deadline>>
        BY <2>8 DEF Acknowledge
      <4>4. ASSUME NEW d \in Conn
            PROVE  /\ \A t \in Side : deadline'[d][t] => copier'[d][Other(t)] = "ended"
                   /\ (\E t \in Side : copier'[d][t] = "ended") =>
                         \/ \E t \in Side : gone'[d][t]
                         \/ \E t \in Side : Delivered(d, t)'
        <5>1. CASE d = c
          BY <4>1, <4>2, <4>3, <5>1
        <5>2. CASE d # c
          BY <4>1, <4>3, <5>2
        <5> QED BY <5>1, <5>2
      <4> QED BY <4>4
    <3>2. CASE UNCHANGED copier
      BY <2>8, <3>2 DEF Acknowledge, Close
    <3> QED BY <2>8, <3>1, <3>2 DEF Acknowledge
  <2>9. CASE SpliceEnds(c)
    BY <2>9 DEF SpliceEnds, Close
  <2> QED BY <1>7, <2>1, <2>2, <2>3, <2>4, <2>5, <2>6, <2>7, <2>8, <2>9 DEF Handler
<1>8. ASSUME NEW c \in Conn, NEW s \in Side, Peer(c, s) PROVE EndInv'
  <2>1. CASE PeerSends(c, s)
    BY <2>1 DEF PeerSends
  <2>2. CASE PeerReads(c, s)
    BY <2>2 DEF PeerReads
  <2>3. CASE PeerFins(c, s)
    BY <2>3 DEF PeerFins
  <2>4. CASE PeerGoes(c, s)
    BY <2>4 DEF PeerGoes
  <2> QED BY <1>8, <2>1, <2>2, <2>3, <2>4 DEF Peer
<1>9. ASSUME NEW c \in Conn, NEW s \in Side, Copier(c, s) PROVE EndInv'
  <2>1. CASE CopierReads(c, s)
    BY <2>1 DEF CopierReads
  <2>2. CASE CopierReadEnds(c, s)
    <3>1. /\ copier'[c][s] = "ended" /\ copier[c][s] = "read"
          /\ \A t \in Side \ {s} : copier'[c][t] = copier[c][t]
          /\ \A d \in Conn \ {c} : copier'[d] = copier[d] /\ deadline'[d] = deadline[d]
      BY <2>2 DEF CopierReadEnds, EndCopier
    <3>2. \A t \in Side : deadline'[c][t] => deadline[c][t] \/ t = Other(s)
      BY <2>2 DEF CopierReadEnds, EndCopier
    <3>3. UNCHANGED <<data, peers>>
      BY <2>2 DEF CopierReadEnds
    <3>4. \A t \in Side : deadline'[c][t] => copier'[c][Other(t)] = "ended"
      BY <3>1, <3>2
    <3>5. \A t \in Side : Delivered(c, t) => Delivered(c, t)'
      BY <3>1, <3>3
    <3>6. (\E t \in Side : gone[c][t]) \/ (\E t \in Side : Delivered(c, t)')
      <4>1. CASE deadline[c][s]
        <5>1. copier[c][Other(s)] = "ended"
          BY <4>1
        <5> QED BY <3>5, <5>1
      <4>2. CASE fin[c][s] /\ taken[c][s] = sent[c][s]
        <5>1. lost[c][s] + put[c][s] = taken[c][s]
          BY <3>1, ReadCount
        <5> QED BY <3>1, <3>3, <4>2, <5>1
      <4>3. CASE gone[c][s]
        BY <4>3
      <4> QED BY <2>2, <4>1, <4>2, <4>3 DEF CopierReadEnds
    <3>7. ASSUME NEW d \in Conn \ {c}
          PROVE  /\ \A t \in Side : deadline'[d][t] => copier'[d][Other(t)] = "ended"
                 /\ (\E t \in Side : copier'[d][t] = "ended") =>
                       \/ \E t \in Side : gone'[d][t]
                       \/ \E t \in Side : Delivered(d, t)'
      BY <3>1, <3>3
    <3>8. ASSUME NEW d \in Conn
          PROVE  /\ \A t \in Side : deadline'[d][t] => copier'[d][Other(t)] = "ended"
                 /\ (\E t \in Side : copier'[d][t] = "ended") =>
                       \/ \E t \in Side : gone'[d][t]
                       \/ \E t \in Side : Delivered(d, t)'
      <4>1. CASE d = c
        <5> HIDE DEF Side, Other, Delivered
        <5> QED BY <3>3, <3>4, <3>6, <4>1
      <4>2. CASE d # c
        BY <3>7, <4>2
      <4> QED BY <4>1, <4>2
    <3> HIDE DEF Side, Other, Delivered
    <3> QED BY <3>8
  <2>3. CASE CopierWrites(c, s)
    BY <2>3 DEF CopierWrites
  <2>4. CASE CopierWriteFails(c, s)
    BY <2>4 DEF CopierWriteFails, EndCopier
  <2> QED BY <1>9, <2>1, <2>2, <2>3, <2>4 DEF Copier
<1>10. CASE UNCHANGED proxyVars
  BY <1>10 DEF proxyVars
<1> QED BY <1>1, <1>2, <1>3, <1>4, <1>5, <1>6, <1>7, <1>8, <1>9, <1>10 DEF ProxyNext

LEMMA ProxyAlways == ProxySpec => []ProxyInv
<1>1. ProxyInv /\ [ProxyNext]_proxyVars => ProxyInv'
  BY ProxyTypePreserved, QuietPreserved, OwnPreserved, CountPreserved, EndPreserved
     DEF ProxyInv
<1> QED BY InitProxyInv, <1>1, PTL DEF ProxySpec

-----------------------------------------------------------------------------
\* Every reachable state of the agent's proxy is well typed.
THEOREM ProxyTypeCorrect == ProxySpec => []ProxyTypeOK
<1>1. ProxyInv => ProxyTypeOK
  BY DEF ProxyInv
<1> QED BY <1>1, ProxyAlways, PTL

\* When ListenAndServe has returned nothing of any connection is left running.
THEOREM ReturnedIsQuietHolds == ProxySpec => []ReturnedIsQuiet
<1>1. ProxyInv => ReturnedIsQuiet
  BY DEF ProxyInv, ProxyTypeOK, QuietInv, OwnInv, ReturnedIsQuiet, Handled, States
<1> QED BY <1>1, ProxyAlways, PTL

\* A splice whose peers are both there ends behind a stream that was delivered.
THEOREM EndedStreamIsDeliveredHolds == ProxySpec => []EndedStreamIsDelivered
<1>1. ProxyInv => EndedStreamIsDelivered
  BY DEF ProxyInv, EndInv, Delivered, EndedStreamIsDelivered, Side
<1> QED BY <1>1, ProxyAlways, PTL
=============================================================================
