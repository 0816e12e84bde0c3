------------------------- MODULE Transformer_proofs -------------------------
(***************************************************************************)
(* What Transformer guarantees for every set of jobs, keys and scripts,    *)
(* whatever results the scripts give, and any number of crashes and drops; *)
(* and what KaminoFraction makes of words of any size.                     *)
(***************************************************************************)
EXTENDS Transformer, KaminoFraction, FiniteSetTheorems, SequenceTheorems,
        WellFoundedInduction, TLAPS

Table == [Key -> Nat]

\* The table that a whole result makes of table t, and that a log of results
\* makes of the empty one.
Whole(t, r) == FoldLeft(LAMBDA u, item : Applied(item, u), t, r)
Replay(l)   == FoldLeft(LAMBDA t, r : Whole(t, r), Empty, l)
-----------------------------------------------------------------------------
(* Folds.  The induction is over the least number that fails.              *)

\* A set of numbers that is not empty has a least one.
LEMMA LeastNat ==
    ASSUME NEW T \in SUBSET Nat, T # {}
    PROVE  \E n \in T : \A m \in T : n <= m
<1>1. PICK n \in T : \A m \in T : ~ (<<m, n>> \in OpToRel(<, Nat))
    BY WFMin, NatLessThanWellFounded
<1>2. ASSUME NEW m \in T PROVE n <= m
    <2>1. ~ (<<m, n>> \in OpToRel(<, Nat))
        BY <1>1
    <2> QED BY <2>1 DEF OpToRel
<1> QED
    BY <1>2

\* A set of places in a sequence has a last one.
LEMMA MaxIs ==
    ASSUME NEW n \in Nat, NEW s \in SUBSET (1 .. n), s # {}
    PROVE  Max(s) \in s /\ \A y \in s : y <= Max(s)
<1> DEFINE U == {m \in Nat : \A y \in s : y <= m}
<1>1. U \in SUBSET Nat /\ U # {}
    <2>1. n \in U
        OBVIOUS
    <2> QED BY <2>1
<1>2. PICK m \in U : \A k \in U : m <= k
    BY <1>1, LeastNat
<1>3. m \in s
    <2>1. SUFFICES ASSUME m \notin s PROVE FALSE
        OBVIOUS
    <2>2. PICK y \in s : TRUE
        OBVIOUS
    <2>3. m - 1 \in U
        BY <2>1, <2>2
    <2> QED
        BY <1>2, <2>3
<1>4. \E x \in s : \A y \in s : x >= y
    BY <1>3
<1> QED
    BY <1>4 DEF Max

\* A step of the fold of a result over its items, or of a log over its results.
Step(kind, u, x) == IF kind = "item" THEN Applied(x, u) ELSE Whole(u, x)

\* g is the function that the fold of r, up to place n, is defined with.
Folds(kind, g, t, r, n) ==
    g = [s \in SUBSET (1 .. n) |->
           IF s = {} THEN t ELSE Step(kind, g[s \ {Max(s)}], r[Max(s)])]

\* There is one.
LEMMA IterExists ==
    ASSUME NEW kind, NEW t, NEW r, NEW n \in Nat
    PROVE  \E g : Folds(kind, g, t, r, n)
<1> DEFINE T == {m \in Nat : ~ \E g : Folds(kind, g, t, r, m)}
<1>1. SUFFICES ASSUME T # {} PROVE FALSE
    OBVIOUS
<1>2. PICK m \in T : \A k \in T : m <= k
    BY <1>1, LeastNat
<1>3. CASE m = 0
    <2> DEFINE g == [s \in SUBSET (1 .. 0) |-> t]
    <2>1. Folds(kind, g, t, r, 0)
        <3>1. \A s \in SUBSET (1 .. 0) : s = {}
            OBVIOUS
        <3> QED BY <3>1 DEF Folds
    <2> QED BY <1>3, <2>1
<1>4. CASE m # 0
    <2>1. m - 1 \in Nat /\ m - 1 \notin T
        BY <1>2, <1>4
    <2>2. PICK g : Folds(kind, g, t, r, m - 1)
        BY <2>1
    <2> DEFINE h == [s \in SUBSET (1 .. m) |->
                      IF m \in s THEN Step(kind, g[s \ {m}], r[m]) ELSE g[s]]
    <2>3. ASSUME NEW s \in SUBSET (1 .. m)
          PROVE  h[s] = IF s = {} THEN t ELSE Step(kind, h[s \ {Max(s)}], r[Max(s)])
        <3>1. CASE m \in s
            <4>1. Max(s) = m
                <5>1. Max(s) \in s /\ \A y \in s : y <= Max(s)
                    BY <3>1, MaxIs
                <5>2. m <= Max(s) /\ Max(s) \in 1 .. m
                    BY <3>1, <5>1
                <5> QED BY <5>2
            <4>2. h[s \ {m}] = g[s \ {m}]
                OBVIOUS
            <4> QED BY <3>1, <4>1, <4>2
        <3>2. CASE m \notin s
            <4>1. s \in SUBSET (1 .. m - 1)
                BY <3>2
            <4>2. g[s] = IF s = {} THEN t ELSE Step(kind, g[s \ {Max(s)}], r[Max(s)])
                BY <2>2, <4>1 DEF Folds
            <4>3. h[s] = g[s] /\ h[s \ {Max(s)}] = g[s \ {Max(s)}]
                BY <3>2
            <4> QED BY <4>2, <4>3
        <3> QED BY <3>1, <3>2
    <2>4. Folds(kind, h, t, r, m)
        BY <2>3 DEF Folds
    <2> QED BY <2>4
<1> QED
    BY <1>3, <1>4

\* Up to place k, it takes a step from what it is up to the place before.
LEMMA LastStep ==
    ASSUME NEW kind, NEW t, NEW q, NEW h, NEW n \in Nat, NEW k \in 1 .. n,
           Folds(kind, h, t, q, n)
    PROVE  h[1 .. k] = Step(kind, h[1 .. k - 1], q[k])
<1>1. /\ 1 .. k \in SUBSET (1 .. n) /\ k \in 1 .. k
      /\ 1 .. k # {} /\ (1 .. k) \ {k} = 1 .. k - 1
    OBVIOUS
<1>2. Max(1 .. k) \in 1 .. k /\ \A y \in 1 .. k : y <= Max(1 .. k)
    BY <1>1, MaxIs
<1>3. Max(1 .. k) = k
    BY <1>1, <1>2
<1> QED
    BY <1>1, <1>3 DEF Folds

\* g and h are the same up to place n.
Agree(g, h, n) == g[1 .. n] = h[1 .. n]

\* Two that fold the same places agree on them.
LEMMA IterAgree ==
    ASSUME NEW kind, NEW t, NEW r, NEW q, NEW g, NEW h, NEW n \in Nat, NEW m \in Nat,
           n <= m, \A i \in 1 .. n : r[i] = q[i],
           Folds(kind, g, t, r, n), Folds(kind, h, t, q, m)
    PROVE  Agree(g, h, n)
<1> USE DEF Agree
<1> DEFINE T == {k \in 0 .. n : g[1 .. k] # h[1 .. k]}
<1>1. SUFFICES ASSUME T # {} PROVE FALSE
    OBVIOUS
<1>2. PICK k \in T : \A i \in T : k <= i
    <2>1. T \in SUBSET Nat
        OBVIOUS
    <2> QED BY ONLY <1>1, <2>1, LeastNat
<1>3. k # 0
    <2>1. 1 .. 0 = {}
        OBVIOUS
    <2> QED BY <2>1, <1>2 DEF Folds
<1>4. k - 1 \in 0 .. n /\ g[1 .. k - 1] = h[1 .. k - 1]
    BY <1>2, <1>3
<1>6. /\ g[1 .. k] = Step(kind, g[1 .. k - 1], r[k])
      /\ h[1 .. k] = Step(kind, h[1 .. k - 1], q[k])
    BY <1>3, LastStep
<1> QED
    BY <1>2, <1>3, <1>4, <1>6

\* The whole of a result is that function, at all places.
LEMMA WholeFold ==
    ASSUME NEW t, NEW S, NEW r \in Seq(S)
    PROVE  \E g : Folds("item", g, t, r, Len(r)) /\ Whole(t, r) = g[1 .. Len(r)]
<1> DEFINE Eq(g) == g = [s \in SUBSET (DOMAIN r) |->
               IF s = {} THEN t ELSE Applied(r[Max(s)], g[s \ {Max(s)}])]
<1>1. Whole(t, r) = (CHOOSE g : Eq(g))[DOMAIN r]
    BY Zenon DEF Whole, FoldLeft, MapThenFoldSet
<1>2. DOMAIN r = 1 .. Len(r) /\ Len(r) \in Nat
    OBVIOUS
<1>3. ASSUME NEW g PROVE Eq(g) <=> Folds("item", g, t, r, Len(r))
    BY <1>2 DEF Folds, Step
<1> HIDE DEF Eq
<1>4. \E g : Eq(g)
    BY <1>2, <1>3, IterExists
<1>5. Eq(CHOOSE g : Eq(g))
    BY <1>4, Zenon
<1> QED
    BY <1>1, <1>2, <1>3, <1>5

\* A result without items changes nothing.
LEMMA WholeEmpty == \A t : Whole(t, << >>) = t
<1> SUFFICES ASSUME NEW t PROVE Whole(t, << >>) = t
    OBVIOUS
<1>1. << >> \in Seq({}) /\ Len(<< >>) = 0 /\ 1 .. 0 = {}
    OBVIOUS
<1>2. PICK g : Folds("item", g, t, << >>, 0) /\ Whole(t, << >>) = g[1 .. 0]
    BY <1>1, WholeFold
<1> QED
    BY <1>1, <1>2 DEF Folds

\* One more item is applied to what the others make.
LEMMA WholeAppend ==
    ASSUME NEW t, NEW S, NEW r \in Seq(S), NEW e \in S
    PROVE  Whole(t, Append(r, e)) = Applied(e, Whole(t, r))
<1> DEFINE kind == "item"
           more == Append(r, e)
           len == Len(r)
           len1 == Len(more)
<1>1. /\ more \in Seq(S) /\ len \in Nat /\ len1 \in Nat /\ len <= len1
      /\ len1 \in 1 .. len1 /\ len1 - 1 = len
      /\ more[len1] = e /\ \A i \in 1 .. len : r[i] = more[i]
    OBVIOUS
<1>2. PICK g : Folds(kind, g, t, r, len) /\ Whole(t, r) = g[1 .. len]
    BY WholeFold DEF kind
<1>3. PICK h : Folds(kind, h, t, more, len1) /\ Whole(t, more) = h[1 .. len1]
    BY <1>1, WholeFold
<1> HIDE DEF kind, len, len1, more
<1>4. g[1 .. len] = h[1 .. len]
    <2>1. len \in Nat /\ len1 \in Nat /\ len <= len1 /\ \A i \in 1 .. len : r[i] = more[i]
        BY <1>1
    <2>2. Folds(kind, g, t, r, len) /\ Folds(kind, h, t, more, len1)
        BY <1>2, <1>3
    <2>3. Agree(g, h, len)
        BY ONLY <2>1, <2>2, IterAgree
    <2> QED BY <2>3 DEF Agree
<1>5. h[1 .. len1] = Step(kind, h[1 .. len1 - 1], more[len1])
    BY <1>1, <1>3, LastStep
<1>6. Whole(t, more) = Applied(e, Whole(t, r))
    BY <1>1, <1>2, <1>3, <1>4, <1>5 DEF Step, kind
<1> QED
    BY <1>6 DEF more

\* So is the item after the first k of a result.
LEMMA WholeNext ==
    ASSUME NEW t, NEW S, NEW r \in Seq(S), NEW k \in 0 .. Len(r) - 1
    PROVE  Whole(t, SubSeq(r, 1, k + 1)) = Applied(r[k + 1], Whole(t, SubSeq(r, 1, k)))
<1> DEFINE p == SubSeq(r, 1, k)
<1>1. p \in Seq(S) /\ r[k + 1] \in S /\ SubSeq(r, 1, k + 1) = Append(p, r[k + 1])
    OBVIOUS
<1>2. Whole(t, Append(p, r[k + 1])) = Applied(r[k + 1], Whole(t, p))
    BY <1>1, WholeAppend
<1> QED
    BY <1>1, <1>2

\* The same for a log.
LEMMA ReplayFold ==
    ASSUME NEW S, NEW l \in Seq(S)
    PROVE  \E g : Folds("result", g, Empty, l, Len(l)) /\ Replay(l) = g[1 .. Len(l)]
<1> DEFINE Eq(g) == g = [s \in SUBSET (DOMAIN l) |->
               IF s = {} THEN Empty ELSE Whole(g[s \ {Max(s)}], l[Max(s)])]
<1>1. Replay(l) = (CHOOSE g : Eq(g))[DOMAIN l]
    BY Zenon DEF Replay, FoldLeft, MapThenFoldSet
<1>2. DOMAIN l = 1 .. Len(l) /\ Len(l) \in Nat
    OBVIOUS
<1>3. ASSUME NEW g PROVE Eq(g) <=> Folds("result", g, Empty, l, Len(l))
    BY <1>2 DEF Folds, Step
<1> HIDE DEF Eq
<1>4. \E g : Eq(g)
    BY <1>2, <1>3, IterExists
<1>5. Eq(CHOOSE g : Eq(g))
    BY <1>4, Zenon
<1> QED
    BY <1>1, <1>2, <1>3, <1>5

\* An empty log leaves the table empty.
LEMMA ReplayEmpty == Replay(<< >>) = Empty
<1>1. << >> \in Seq({}) /\ Len(<< >>) = 0 /\ 1 .. 0 = {}
    OBVIOUS
<1>2. PICK g : Folds("result", g, Empty, << >>, 0) /\ Replay(<< >>) = g[1 .. 0]
    BY <1>1, ReplayFold
<1> QED
    BY <1>1, <1>2 DEF Folds

\* One more result is applied to what the others make.
LEMMA ReplayAppend ==
    ASSUME NEW S, NEW l \in Seq(S), NEW e \in S
    PROVE  Replay(Append(l, e)) = Whole(Replay(l), e)
<1> DEFINE kind == "result"
           more == Append(l, e)
           len == Len(l)
           len1 == Len(more)
<1>1. /\ more \in Seq(S) /\ len \in Nat /\ len1 \in Nat /\ len <= len1
      /\ len1 \in 1 .. len1 /\ len1 - 1 = len
      /\ more[len1] = e /\ \A i \in 1 .. len : l[i] = more[i]
    OBVIOUS
<1>2. PICK g : Folds(kind, g, Empty, l, len) /\ Replay(l) = g[1 .. len]
    BY ReplayFold
<1>3. PICK h : Folds(kind, h, Empty, more, len1) /\ Replay(more) = h[1 .. len1]
    BY <1>1, ReplayFold
<1> HIDE DEF kind, len, len1, more
<1>4. g[1 .. len] = h[1 .. len]
    <2>1. len \in Nat /\ len1 \in Nat /\ len <= len1 /\ \A i \in 1 .. len : l[i] = more[i]
        BY <1>1
    <2> DEFINE t == Empty
    <2>2. Folds(kind, g, t, l, len) /\ Folds(kind, h, t, more, len1)
        BY <1>2, <1>3
    <2> HIDE DEF t
    <2>3. Agree(g, h, len)
        BY ONLY <2>1, <2>2, IterAgree
    <2> QED BY <2>3 DEF Agree
<1>5. h[1 .. len1] = Step(kind, h[1 .. len1 - 1], more[len1])
    BY <1>1, <1>3, LastStep
<1>6. Replay(more) = Whole(Replay(l), e)
    BY <1>1, <1>2, <1>3, <1>4, <1>5 DEF Step, kind
<1> QED
    BY <1>6 DEF more

-----------------------------------------------------------------------------
(* Rows that an UPDATE moves.                                              *)

\* g is the function that the sum of t over S is defined with.
Sums(g, t, S) ==
    g = [s \in SUBSET S |->
           IF s = {} THEN 0
           ELSE t[CHOOSE x \in s : TRUE] + g[s \ {CHOOSE x \in s : TRUE}]]

\* There is one, for finitely many keys.
LEMMA SumExists ==
    ASSUME NEW t, NEW S, IsFiniteSet(S)
    PROVE  \E g : Sums(g, t, S)
<1> DEFINE c(s) == CHOOSE x \in s : TRUE
           rec(g, s) == IF s = {} THEN 0 ELSE t[c(s)] + g[s \ {c(s)}]
           T == {k \in Nat : ~ \E g : \A s \in SUBSET S :
                                Cardinality(s) <= k => g[s] = rec(g, s)}
<1>1. ASSUME NEW s \in SUBSET S
      PROVE  /\ Cardinality(s) \in Nat /\ Cardinality(s) <= Cardinality(S)
             /\ Cardinality(s) = 0 => s = {}
             /\ s # {} => /\ s \ {c(s)} \in SUBSET S
                          /\ Cardinality(s \ {c(s)}) = Cardinality(s) - 1
    <2>1. IsFiniteSet(s) /\ Cardinality(s) <= Cardinality(S)
        BY FS_Subset
    <2>2. s # {} => c(s) \in s
        OBVIOUS
    <2> HIDE DEF c
    <2> QED BY <2>1, <2>2, FS_CardinalityType, FS_EmptySet, FS_RemoveElement
<1> HIDE DEF c
<1>2. T = {}
    <2>1. SUFFICES ASSUME T # {} PROVE FALSE
        OBVIOUS
    <2>2. PICK k \in T : \A i \in T : k <= i
        <3>1. T \in SUBSET Nat
            OBVIOUS
        <3> QED BY ONLY <2>1, <3>1, LeastNat
    <2>3. CASE k = 0
        <3> DEFINE g == [s \in SUBSET S |-> 0]
        <3>1. ASSUME NEW s \in SUBSET S, Cardinality(s) <= 0 PROVE g[s] = rec(g, s)
            <4>1. Cardinality(s) \in Nat /\ (Cardinality(s) = 0 => s = {})
                BY <1>1
            <4>2. s = {}
                BY <3>1, <4>1
            <4> QED BY <4>2
        <3> QED BY <2>2, <2>3, <3>1
    <2>4. CASE k # 0
        <3>1. k - 1 \in Nat /\ k - 1 \notin T
            <4>1. k \in Nat
                BY <2>2
            <4> HIDE DEF T
            <4> QED BY <2>2, <2>4, <4>1
        <3>2. PICK g : \A s \in SUBSET S : Cardinality(s) <= k - 1 => g[s] = rec(g, s)
            BY <3>1
        <3> DEFINE h == [s \in SUBSET S |-> rec(g, s)]
        <3>3. ASSUME NEW s \in SUBSET S, Cardinality(s) <= k PROVE h[s] = rec(h, s)
            <4>1. CASE s = {}
                BY <4>1
            <4>2. CASE s # {}
                <5> DEFINE r == s \ {c(s)}
                <5>1. r \in SUBSET S /\ Cardinality(r) <= k - 1
                    BY <1>1, <2>2, <3>3, <4>2
                <5>2. h[r] = g[r]
                    BY <3>2, <5>1
                <5> QED BY <4>2, <5>2
            <4> QED BY <4>1, <4>2
        <3> QED BY <2>2, <3>3
    <2> QED BY <2>3, <2>4
<1>3. Cardinality(S) \in Nat
    BY FS_CardinalityType
<1>4. PICK g : \A s \in SUBSET S : Cardinality(s) <= Cardinality(S) => g[s] = rec(g, s)
    BY <1>2, <1>3
<1> DEFINE h == [s \in SUBSET S |-> g[s]]
<1>5. ASSUME NEW s \in SUBSET S PROVE h[s] = rec(h, s)
    <2>1. g[s] = rec(g, s)
        BY <1>1, <1>4
    <2> QED BY <1>1, <2>1
<1>6. Sums(h, t, S)
    BY <1>5 DEF Sums, c
<1> QED
    BY <1>6

\* The sum is a number.
LEMMA SumType ==
    ASSUME NEW S, IsFiniteSet(S), NEW t \in [S -> Nat], NEW w \in SUBSET S
    PROVE  FoldFunctionOnSet(+, 0, t, w) \in Nat
<1> DEFINE c(s) == CHOOSE x \in s : TRUE
<1>1. IsFiniteSet(w)
    BY FS_Subset
<1>2. PICK g : Sums(g, t, w) /\ FoldFunctionOnSet(+, 0, t, w) = g[w]
    <2> DEFINE Eq(g) == g = [s \in SUBSET w |->
                  IF s = {} THEN 0
                  ELSE t[CHOOSE x \in s : TRUE] + g[s \ {CHOOSE x \in s : TRUE}]]
    <2>1. FoldFunctionOnSet(+, 0, t, w) = (CHOOSE g : Eq(g))[w]
        BY Zenon DEF FoldFunctionOnSet, MapThenFoldSet
    <2>2. ASSUME NEW g PROVE Eq(g) <=> Sums(g, t, w)
        BY DEF Sums
    <2> HIDE DEF Eq
    <2>3. \E g : Eq(g)
        BY <1>1, <2>2, SumExists
    <2>4. Eq(CHOOSE g : Eq(g))
        BY <2>3, Zenon
    <2> QED BY <2>1, <2>2, <2>4
<1> DEFINE T == {k \in Nat : \E s \in SUBSET w : Cardinality(s) = k /\ g[s] \notin Nat}
<1>3. T = {}
    <2>1. SUFFICES ASSUME T # {} PROVE FALSE
        OBVIOUS
    <2>2. PICK k \in T : \A i \in T : k <= i
        <3>1. T \in SUBSET Nat
            OBVIOUS
        <3> QED BY ONLY <2>1, <3>1, LeastNat
    <2>3. PICK s \in SUBSET w : Cardinality(s) = k /\ g[s] \notin Nat
        BY <2>2
    <2>4. g[s] = IF s = {} THEN 0 ELSE t[c(s)] + g[s \ {c(s)}]
        BY <1>2 DEF Sums
    <2>5. s # {}
        BY <2>3, <2>4
    <2>6. c(s) \in s
        BY <2>5
    <2> HIDE DEF c
    <2>7. IsFiniteSet(s)
        BY <1>1, FS_Subset
    <2>8. Cardinality(s \ {c(s)}) = k - 1 /\ k - 1 \in Nat
        <3>1. Cardinality(s \ {c(s)}) = Cardinality(s) - 1
            BY <2>6, <2>7, FS_RemoveElement
        <3>2. Cardinality(s \ {c(s)}) \in Nat
            BY <2>6, <2>7, FS_RemoveElement, FS_CardinalityType
        <3> QED BY <2>3, <3>1, <3>2
    <2>9. k - 1 \notin T
        <3>1. k \in Nat
            BY <2>2
        <3> HIDE DEF T
        <3> QED BY <2>2, <2>8, <3>1
    <2>10. g[s \ {c(s)}] \in Nat
        BY <2>8, <2>9
    <2> QED BY <2>3, <2>4, <2>5, <2>6, <2>10
<1>4. Cardinality(w) \in Nat
    BY <1>1, FS_CardinalityType
<1> QED
    BY <1>2, <1>3, <1>4

\* What an item makes of a table is a table.
LEMMA AppliedType ==
    ASSUME NEW item \in Item, NEW t \in Table
    PROVE  Applied(item, t) \in Table
<1> USE DEF Table
<1>1. item.data \in Key /\ item.where \in SUBSET Key
    BY DEF Item
<1>2. FoldFunctionOnSet(+, 0, t, item.where) \in Nat
    BY <1>1, SumType, TransformerAssumption
<1>3. CASE item.action = "INSERT"
    <2>1. Applied(item, t) = [t EXCEPT ![item.data] = @ + 1]
        BY <1>3 DEF Applied
    <2>2. [t EXCEPT ![item.data] = @ + 1] \in Table
        BY <1>1
    <2> QED BY <2>1, <2>2
<1>4. CASE item.action = "UPDATE"
    <2> DEFINE moved == FoldFunctionOnSet(+, 0, t, item.where)
               u == [k \in Key |-> (IF k \in item.where THEN 0 ELSE t[k])
                                  + (IF k = item.data THEN moved ELSE 0)]
    <2>1. Applied(item, t) = u
        BY <1>4 DEF Applied
    <2>2. moved \in Nat
        BY <1>2
    <2> HIDE DEF moved
    <2>3. u \in Table
        BY <2>2
    <2> QED BY <2>1, <2>3
<1>5. CASE item.action \notin {"INSERT", "UPDATE"}
    <2>1. item.action # "INSERT" /\ item.action # "UPDATE"
        BY <1>5
    <2>2. Applied(item, t) = [k \in Key |-> IF k \in item.where THEN 0 ELSE t[k]]
        BY <2>1 DEF Applied
    <2>3. [k \in Key |-> IF k \in item.where THEN 0 ELSE t[k]] \in Table
        OBVIOUS
    <2> QED BY <2>2, <2>3
<1> QED
    BY <1>3, <1>4, <1>5

-----------------------------------------------------------------------------
(* Items that are left to save.                                            *)

\* A suffix, place by place.
LEMMA SuffixIs ==
    ASSUME NEW S, NEW s \in Seq(S), NEW t \in Seq(S)
    PROVE  IsSuffix(s, t) <=> /\ Len(s) <= Len(t)
                              /\ \A i \in 1 .. Len(s) : s[i] = t[Len(t) - Len(s) + i]
<1> DEFINE m == Len(s)
           n == Len(t)
           p == SubSeq(Reverse(s), 1, m)
           q == SubSeq(Reverse(t), 1, m)
<1>1. /\ Reverse(s) \in Seq(S) /\ Len(Reverse(s)) = m
      /\ Reverse(t) \in Seq(S) /\ Len(Reverse(t)) = n
      /\ m \in Nat /\ n \in Nat
    BY DEF Reverse
<1>2. IsSuffix(s, t) <=> m <= n /\ p = q
    BY <1>1 DEF IsSuffix, IsPrefix
<1>3. ASSUME m <= n PROVE p = q <=> \A j \in 1 .. m : s[m - j + 1] = t[n - j + 1]
    <2>1. p = [j \in 1 .. m |-> s[m - j + 1]]
        BY <1>1 DEF Reverse
    <2>2. q = [j \in 1 .. m |-> t[n - j + 1]]
        BY <1>1, <1>3 DEF Reverse
    <2> HIDE DEF p, q
    <2>3. ASSUME p = q, NEW j \in 1 .. m PROVE s[m - j + 1] = t[n - j + 1]
        <3>1. p[j] = s[m - j + 1] /\ q[j] = t[n - j + 1]
            BY <2>1, <2>2
        <3> QED BY <2>3, <3>1
    <2>4. (\A j \in 1 .. m : s[m - j + 1] = t[n - j + 1]) => p = q
        BY <2>1, <2>2
    <2> QED BY <2>3, <2>4
<1>4. ASSUME m <= n
      PROVE  (\A j \in 1 .. m : s[m - j + 1] = t[n - j + 1])
                <=> (\A i \in 1 .. m : s[i] = t[n - m + i])
    <2>1. ASSUME \A j \in 1 .. m : s[m - j + 1] = t[n - j + 1], NEW i \in 1 .. m
          PROVE  s[i] = t[n - m + i]
        <3>1. /\ m - i + 1 \in 1 .. m /\ m - (m - i + 1) + 1 = i
              /\ n - (m - i + 1) + 1 = n - m + i
            BY <1>1
        <3> QED BY <2>1, <3>1
    <2>2. ASSUME \A i \in 1 .. m : s[i] = t[n - m + i], NEW j \in 1 .. m
          PROVE  s[m - j + 1] = t[n - j + 1]
        <3>1. m - j + 1 \in 1 .. m /\ n - m + (m - j + 1) = n - j + 1
            BY <1>1
        <3> QED BY <2>2, <3>1
    <2> QED BY <2>1, <2>2
<1> QED
    BY <1>2, <1>3, <1>4

\* The tail of a suffix is one.
LEMMA SuffixTail ==
    ASSUME NEW S, NEW s \in Seq(S), NEW t \in Seq(S), s # << >>, IsSuffix(s, t)
    PROVE  IsSuffix(Tail(s), t)
<1> DEFINE r == Tail(s)
<1>1. /\ r \in Seq(S) /\ Len(r) = Len(s) - 1 /\ Len(s) \in Nat \ {0} /\ Len(t) \in Nat
      /\ \A i \in 1 .. Len(r) : r[i] = s[i + 1]
    OBVIOUS
<1>2. Len(s) <= Len(t) /\ \A i \in 1 .. Len(s) : s[i] = t[Len(t) - Len(s) + i]
    BY SuffixIs
<1>3. ASSUME NEW i \in 1 .. Len(r) PROVE r[i] = t[Len(t) - Len(r) + i]
    <2>1. i + 1 \in 1 .. Len(s) /\ Len(t) - Len(s) + (i + 1) = Len(t) - Len(r) + i
        BY <1>1
    <2>2. s[i + 1] = t[Len(t) - Len(s) + (i + 1)]
        BY <1>2, <2>1
    <2> QED BY <1>1, <2>1, <2>2
<1>4. Len(r) <= Len(t)
    BY <1>1, <1>2
<1> HIDE DEF r
<1>5. IsSuffix(r, t)
    BY <1>1, <1>3, <1>4, SuffixIs
<1> QED
    BY <1>5 DEF r

\* The whole and the empty sequence are suffixes.
LEMMA SuffixEnds ==
    ASSUME NEW S, NEW t \in Seq(S)
    PROVE  IsSuffix(t, t) /\ IsSuffix(<< >>, t)
<1>1. Len(t) \in Nat /\ << >> \in Seq(S) /\ Len(<< >>) = 0
    OBVIOUS
<1>2. \A i \in 1 .. Len(t) : t[i] = t[Len(t) - Len(t) + i]
    BY <1>1
<1>3. IsSuffix(t, t)
    BY <1>1, <1>2, SuffixIs
<1>4. IsSuffix(<< >>, t)
    <2> DEFINE e == << >>
    <2>1. e \in Seq(S) /\ Len(e) = 0 /\ Len(e) <= Len(t) /\ 1 .. Len(e) = {}
        BY <1>1
    <2> HIDE DEF e
    <2>2. IsSuffix(e, t)
        BY <2>1, SuffixIs
    <2> QED BY <2>2 DEF e
<1> QED
    BY <1>3, <1>4

-----------------------------------------------------------------------------
(* The inductive invariant.                                                *)

Loaded == {"rpc", "account", "script", "long", "endless", "save", "saved"}

\* Past its load the worker has a script, and only while it saves, items left.
WorkerOK ==
    /\ worker \in [pc : {"idle", "load"} \cup Loaded,
                   id : Id \cup {None}, script : Script \cup {None},
                   todo : Seq(Item), result : Result \cup {<< >>},
                   work : Table \cup {None}]
    /\ worker.pc # "idle" => worker.id \in Id
    /\ worker.pc \in Loaded => worker.script \in Script
    /\ worker.todo # << >> => worker.pc = "save"

\* Whether the run of job i under way may still commit.
May(i) == IF worker.id = i /\ worker.pc \notin {"idle", "saved"} THEN 1 ELSE 0

\* The runs that Bull has granted job j, the one under way included.
Starts(j) == IF j.st = "none" THEN 1 + MaxStalledCount
             ELSE IF j.st = "waiting" THEN j.stalls ELSE j.stalls + 1

\* An active job is the worker's; a job that is not over has been granted as
\* many runs as it had stalls, each of which took a loss of the lock, and what
\* they committed or may commit is no more than that.
JobOK(i) ==
    /\ job[i].st = "active" => worker.pc # "idle" /\ worker.id = i
    /\ i \notin added => /\ job[i] = NoJob /\ commits[i] = 0
                         /\ worker.pc # "idle" => worker.id # i
    /\ job[i].st # "none" => job[i].stalls <= lost[i]
    /\ job[i].st = "stalled" => job[i].stalls < lost[i]
    /\ commits[i] + May(i) <= Starts(job[i])
    /\ commits[i] + May(i) <= 1 + lost[i]

JobsOK == \A i \in Id : JobOK(i)

\* After the late result no run is left that has loaded the trigger.
LateOK ==
    /\ late <= 1
    /\ late = 1 => ~live /\ worker.pc \notin Loaded \ {"saved"}

\* The transaction's table is the committed one with the items before todo.
SaveOK ==
    /\ log \in Seq(Result \cup {<< >>})
    /\ rows = Replay(log)
    /\ worker.work # None => worker.pc = "save"
    /\ worker.pc = "save" /\ worker.work = None => worker.todo = worker.result
    /\ worker.work # None =>
          worker.work = Whole(rows, SubSeq(worker.result, 1,
                                           Len(worker.result) - Len(worker.todo)))

IInv == TypeOK /\ WorkerOK /\ JobsOK /\ LateOK /\ SaveOK

\* What the queue makes of a job is a job.
LEMMA JobTypes ==
    ASSUME NEW j \in Job
    PROVE  /\ NoJob \in Job /\ Added(j) \in Job /\ Taken(j) \in Job
           /\ Orphaned(j) \in Job /\ Recovered(j) \in Job
<1> USE BullAssumption DEF Job, NoJob
<1>1. NoJob \in Job
    OBVIOUS
<1>2. Added(j) \in Job
    BY DEF Added
<1>3. Taken(j) \in Job /\ Orphaned(j) \in Job
    BY DEF Taken, Orphaned
<1>4. Recovered(j) \in Job
    <2>1. CASE j.stalls < MaxStalledCount
        <3>1. Recovered(j) = [j EXCEPT !.st = "waiting", !.stalls = @ + 1]
            BY <2>1 DEF Recovered
        <3>2. j.stalls + 1 \in 0 .. MaxStalledCount
            BY <2>1
        <3> QED BY <3>1, <3>2
    <2> QED BY <1>1, <2>1 DEF Recovered
<1> QED
    BY <1>1, <1>2, <1>3, <1>4

\* Results are sequences of items.
LEMMA ResultType == Result \cup {<< >>} \subseteq Seq(Item)
<1>1. ASSUME NEW r \in Result PROVE r \in Seq(Item)
    <2>1. PICK s \in Script : r \in {o.items : o \in Outcome[s]}
        BY DEF Result
    <2>2. PICK o \in Outcome[s] : r = o.items
        BY <2>1
    <2> QED BY <2>2, TransformerAssumption
<1>2. << >> \in Seq(Item)
    OBVIOUS
<1> QED
    BY <1>1, <1>2

\* Every step keeps the types and the shape of the worker.
LEMMA WorkerStep ==
    ASSUME TypeOK, WorkerOK, [Next]_vars
    PROVE  TypeOK' /\ WorkerOK'
<1> USE TransformerAssumption, BullAssumption
<1> USE DEF TypeOK, WorkerOK, Loaded, Table, IdleWorker
<1>0. \A j \in Job : /\ NoJob \in Job /\ Added(j) \in Job /\ Taken(j) \in Job
                     /\ Orphaned(j) \in Job /\ Recovered(j) \in Job
    BY JobTypes
<1>s. IsSuffix(<< >>, << >>) /\ << >> \in Seq(Item)
    <2> DEFINE e == << >>
    <2>1. e \in Seq(Item)
        OBVIOUS
    <2> HIDE DEF e
    <2>2. IsSuffix(e, e)
        BY <2>1, SuffixEnds
    <2> QED BY <2>1, <2>2 DEF e
<1>1. CASE Crash
    BY <1>1, <1>0, <1>s DEF Crash, catalog, data
<1>2. CASE Load
    BY <1>2, <1>s DEF Load, catalog, queue, data
<1>3. CASE FindNode
    BY <1>3, <1>s DEF FindNode, Goes, catalog, queue, data
<1>4. CASE ReadAccount
    BY <1>4, <1>s DEF ReadAccount, Goes, catalog, queue, data
<1>5. CASE RunScript
    <2>1. PICK o \in Outcome[worker.script] :
             worker' = [worker EXCEPT !.pc = "save", !.result = o.items, !.todo = o.items]
        BY <1>5 DEF RunScript
    <2>2. o.items \in Result /\ o.items \in Seq(Item) /\ IsSuffix(o.items, o.items)
        <3>1. worker.script \in Script
            BY <1>5 DEF RunScript
        <3>2. o.items \in Seq(Item)
            BY <3>1
        <3> QED BY <3>1, <3>2, SuffixEnds DEF Result
    <2> QED BY <1>5, <2>1, <2>2 DEF RunScript, catalog, queue, data
<1>6. CASE RunForever
    BY <1>6, <1>s DEF RunForever, Goes, catalog, queue, data
<1>7. CASE SaveItem
    <2> DEFINE t == IF worker.work = None THEN rows ELSE worker.work
    <2>1. worker.todo # << >> /\ worker.todo \in Seq(Item) /\ worker.result \in Seq(Item)
        BY <1>7, ResultType DEF SaveItem
    <2>2. Head(worker.todo) \in Item /\ Tail(worker.todo) \in Seq(Item)
        BY <2>1
    <2>3. t \in Table
        OBVIOUS
    <2>4. Applied(Head(worker.todo), t) \in Table
        BY <2>2, <2>3, AppliedType
    <2>5. IsSuffix(Tail(worker.todo), worker.result)
        BY <2>1, SuffixTail
    <2>6. worker' = [worker EXCEPT !.todo = Tail(worker.todo),
                                   !.work = Applied(Head(worker.todo), t)]
        BY <1>7 DEF SaveItem
    <2> HIDE DEF t
    <2> QED BY <1>7, <2>2, <2>4, <2>5, <2>6 DEF SaveItem, catalog, queue, data
<1>8. CASE Commit
    <2>1. worker' = [worker EXCEPT !.pc = "saved", !.work = None] /\ worker.todo = << >>
        BY <1>8 DEF Commit
    <2>2. rows' \in Table /\ late' \in Nat
        BY <1>8 DEF Commit
    <2>3. commits' \in [Id -> Nat]
        BY <1>8 DEF Commit
    <2>4. UNCHANGED <<job, added, lost, rpc, live, relation, script, crashes, drops>>
        BY <1>8 DEF Commit, catalog, queue
    <2>5. worker.pc = "save" /\ None \in Table \cup {None}
        BY <1>8 DEF Commit
    <2>6. WorkerOK'
        BY <2>1, <2>5
    <2>7. /\ worker'.pc = "saved" /\ worker'.id = worker.id /\ worker'.script = worker.script
          /\ worker'.result = worker.result /\ worker'.todo = worker.todo
          /\ worker'.work = None
        BY <2>1
    <2> HIDE DEF WorkerOK
    <2> QED BY <2>2, <2>3, <2>4, <2>6, <2>7
<1>9. CASE Finish
    BY <1>9, <1>0, <1>s DEF Finish, Ended, catalog, data
<1>10. CASE Fail
    BY <1>10, <1>0, <1>s DEF Fail, Ended, catalog, data
<1>11. ASSUME NEW i \in Id, Take(i) PROVE TypeOK' /\ WorkerOK'
    BY <1>11, <1>0, <1>s DEF Take, catalog, data
<1>12. ASSUME NEW i \in Id, StalledCheck(i) PROVE TypeOK' /\ WorkerOK'
    BY <1>12, <1>0 DEF StalledCheck, catalog, data
<1>13. ASSUME NEW i \in Id, AddJob(i) PROVE TypeOK' /\ WorkerOK'
    BY <1>13, <1>0 DEF AddJob, catalog, data
<1>14. ASSUME NEW s \in Script, UpdateTransformer(s) PROVE TypeOK' /\ WorkerOK'
    BY <1>14 DEF UpdateTransformer, queue, data
<1>15. CASE DeleteTrigger
    BY <1>15 DEF DeleteTrigger, queue, data
<1>16. CASE CreateTable
    BY <1>16 DEF CreateTable, queue, data
<1>17. ASSUME NEW mine \in BOOLEAN, DropTable(mine) PROVE TypeOK' /\ WorkerOK'
    <2>1. live' \in BOOLEAN /\ relation' \in BOOLEAN
        BY <1>17, Zenon DEF DropTable
    <2>2. rows' \in Table /\ drops' \in 0 .. MaxDrops
        BY <1>17 DEF DropTable, Empty
    <2>3. UNCHANGED <<job, added, lost, rpc, script, worker, commits, late, crashes>>
        BY <1>17 DEF DropTable, queue
    <2> QED BY <2>1, <2>2, <2>3
<1>18. CASE RunLong
    <2>1. lost' \in [Id -> Nat] /\ job' \in [Id -> Job]
        BY <1>18, <1>0 DEF RunLong
    <2> QED BY <1>18, <1>s, <2>1 DEF RunLong, Goes, catalog, data
<1>19. CASE UNCHANGED vars
    BY <1>19 DEF vars, catalog, queue, data
<1> QED
    BY <1>1, <1>2, <1>3, <1>4, <1>5, <1>6, <1>7, <1>8, <1>9, <1>10, <1>11, <1>12, <1>13,
       <1>14, <1>15, <1>16, <1>17, <1>18, <1>19 DEF Next, Handler, Bull, Users

\* A step that touches no job, and neither ends nor begins nor commits a run,
\* keeps what is said of jobs.
LEMMA JobsQuiet ==
    ASSUME JobsOK, UNCHANGED <<job, added, commits, lost>>, worker'.id = worker.id,
           worker.pc = "idle" <=> worker'.pc = "idle",
           worker.pc = "saved" <=> worker'.pc = "saved"
    PROVE  JobsOK'
BY DEF JobsOK, JobOK, May

\* Every step keeps what is said of jobs.
LEMMA JobsStep ==
    ASSUME TypeOK, WorkerOK, JobsOK, [Next]_vars
    PROVE  JobsOK'
<1> USE TransformerAssumption, BullAssumption
<1>a. /\ job \in [Id -> Job] /\ commits \in [Id -> Nat] /\ lost \in [Id -> Nat]
      /\ \A i \in Id : /\ job[i].st \in {"none", "waiting", "active", "stalled"}
                       /\ job[i].stalls \in 0 .. MaxStalledCount
    BY DEF TypeOK, Job
<1>b. /\ worker \in [pc : {"idle", "load"} \cup Loaded,
                   id : Id \cup {None}, script : Script \cup {None},
                   todo : Seq(Item), result : Result \cup {<< >>},
                   work : Table \cup {None}]
      /\ worker.pc # "idle" => worker.id \in Id
    BY DEF WorkerOK
<1>c. ASSUME NEW i \in Id
      PROVE  /\ JobOK(i) /\ May(i) \in {0, 1} /\ Starts(job[i]) \in Nat
             /\ commits[i] \in Nat /\ lost[i] \in Nat /\ job[i].stalls \in Nat
             /\ job[i].stalls <= MaxStalledCount
    BY <1>a DEF JobsOK, May, Starts
<1>d. NoJob.st = "none" /\ Starts(NoJob) = 1 + MaxStalledCount
    BY DEF NoJob, Starts
<1>1. CASE Crash
    <2> SUFFICES ASSUME NEW i \in Id PROVE JobOK(i)'
        BY DEF JobsOK
    <2>1. worker'.pc = "idle" /\ UNCHANGED <<added, commits>> /\ May(i)' = 0
        BY <1>1 DEF Crash, data, IdleWorker, May
    <2>2. /\ job' = [j \in Id |-> Orphaned(job[j])]
          /\ lost' = [j \in Id |-> lost[j] + IF job[j].st = "active" THEN 1 ELSE 0]
        BY <1>1 DEF Crash
    <2>3. CASE job[i].st = "active"
        <3>1. /\ job'[i].st = "stalled" /\ job'[i].stalls = job[i].stalls
              /\ lost'[i] = lost[i] + 1
            BY <1>a, <2>2, <2>3 DEF Orphaned, Job
        <3>2. Starts(job[i])' = Starts(job[i]) /\ i \in added
            BY <1>c, <1>d, <2>3, <3>1 DEF JobOK, Starts
        <3> QED BY <1>c, <2>1, <2>3, <3>1, <3>2 DEF JobOK
    <2>4. CASE job[i].st # "active"
        <3>1. job'[i] = job[i] /\ lost'[i] = lost[i]
            BY <1>a, <2>2, <2>4 DEF Orphaned
        <3> QED BY <1>c, <2>1, <2>4, <3>1 DEF JobOK, Starts
    <2> QED BY <2>3, <2>4
<1>2. CASE Load
    BY <1>b, <1>2, JobsQuiet DEF Load, queue, data, Loaded
<1>3. CASE FindNode
    BY <1>b, <1>3, JobsQuiet DEF FindNode, Goes, queue, data, Loaded
<1>4. CASE ReadAccount
    BY <1>b, <1>4, JobsQuiet DEF ReadAccount, Goes, queue, data, Loaded
<1>5. CASE RunScript
    BY <1>b, <1>5, JobsQuiet DEF RunScript, queue, data, Loaded
<1>6. CASE RunForever
    BY <1>b, <1>6, JobsQuiet DEF RunForever, Goes, queue, data, Loaded
<1>7. CASE SaveItem
    BY <1>b, <1>7, JobsQuiet DEF SaveItem, queue, data, Loaded
<1>8. CASE RunLong
    <2> SUFFICES ASSUME NEW i \in Id PROVE JobOK(i)'
        BY DEF JobsOK
    <2>1. /\ worker.id \in Id /\ worker.pc = "script"
          /\ worker'.pc = "long" /\ worker'.id = worker.id
          /\ UNCHANGED <<added, commits>> /\ May(i)' = May(i)
        BY <1>b, <1>8 DEF RunLong, Goes, data, May
    <2>2. /\ job' = [job EXCEPT ![worker.id] = Orphaned(@)]
          /\ lost' = [lost EXCEPT ![worker.id] = @ + 1]
        BY <1>8 DEF RunLong
    <2>3. CASE i = worker.id
        <3>1. /\ job'[i].stalls = job[i].stalls /\ lost'[i] = lost[i] + 1
              /\ job'[i].st = IF job[i].st = "active" THEN "stalled" ELSE job[i].st
            BY <1>a, <2>1, <2>2, <2>3 DEF Orphaned, Job
        <3>2. i \in added
            BY <1>c, <2>1, <2>3 DEF JobOK
        <3>3. Starts(job[i])' = Starts(job[i])
            BY <3>1 DEF Starts
        <3> QED BY <1>c, <2>1, <2>3, <3>1, <3>2, <3>3 DEF JobOK
    <2>4. CASE i # worker.id
        <3>1. job'[i] = job[i] /\ lost'[i] = lost[i]
            BY <1>a, <2>1, <2>2, <2>4
        <3> QED BY <1>c, <2>1, <2>4, <3>1 DEF JobOK
    <2> QED BY <2>3, <2>4
<1>9. CASE Commit
    <2> SUFFICES ASSUME NEW i \in Id PROVE JobOK(i)'
        BY DEF JobsOK
    <2>1. /\ worker.id \in Id /\ worker.pc = "save"
          /\ worker'.pc = "saved" /\ worker'.id = worker.id
          /\ commits' = [commits EXCEPT ![worker.id] = @ + 1]
          /\ UNCHANGED <<job, added, lost>>
        BY <1>b, <1>9 DEF Commit, queue
    <2>2. CASE i = worker.id
        <3>1. May(i) = 1 /\ May(i)' = 0 /\ commits'[i] = commits[i] + 1
            BY <1>a, <2>1, <2>2 DEF May
        <3>2. i \in added
            BY <1>c, <2>1, <2>2 DEF JobOK
        <3> QED BY <1>c, <2>1, <3>1, <3>2 DEF JobOK
    <2>3. CASE i # worker.id
        <3>1. May(i)' = May(i) /\ commits'[i] = commits[i]
            BY <1>a, <2>1, <2>3 DEF May
        <3> QED BY <1>c, <2>1, <2>3, <3>1 DEF JobOK
    <2> QED BY <2>2, <2>3
<1>10. ASSUME Ended, UNCHANGED <<added, commits, lost>>, worker.pc # "idle" PROVE JobsOK'
    <2> SUFFICES ASSUME NEW i \in Id PROVE JobOK(i)'
        BY DEF JobsOK
    <2>1. worker.id \in Id /\ worker'.pc = "idle" /\ May(i)' = 0
        BY <1>b, <1>10 DEF Ended, IdleWorker, May
    <2>2. job' = [job EXCEPT ![worker.id] = IF @.st = "active" THEN NoJob ELSE @]
        BY <1>10 DEF Ended
    <2>3. CASE i = worker.id /\ job[i].st = "active"
        <3>1. job'[i] = NoJob
            BY <1>a, <2>1, <2>2, <2>3
        <3>2. i \in added /\ Starts(job[i]) <= 1 + MaxStalledCount
            BY <1>c, <1>d, <2>3 DEF JobOK, Starts
        <3> QED BY <1>10, <1>c, <1>d, <2>1, <2>3, <3>1, <3>2 DEF JobOK
    <2>4. CASE ~(i = worker.id /\ job[i].st = "active")
        <3>1. job'[i] = job[i] /\ job[i].st # "active"
            BY <1>a, <1>c, <2>1, <2>2, <2>4 DEF JobOK
        <3> QED BY <1>10, <1>c, <2>1, <3>1 DEF JobOK, Starts
    <2> QED BY <2>3, <2>4
<1>11. CASE Finish
    BY <1>10, <1>11 DEF Finish, data
<1>12. CASE Fail
    BY <1>10, <1>12 DEF Fail, data
<1>13. ASSUME NEW k \in Id, Take(k) PROVE JobsOK'
    <2> SUFFICES ASSUME NEW i \in Id PROVE JobOK(i)'
        BY DEF JobsOK
    <2>1. /\ worker.pc = "idle" /\ job[k].st = "waiting" /\ worker'.pc = "load" /\ worker'.id = k
          /\ UNCHANGED <<added, commits, lost>>
        BY <1>13 DEF Take, data, IdleWorker
    <2>2. job' = [job EXCEPT ![k] = Taken(@)]
        BY <1>13 DEF Take
    <2>3. CASE i = k
        <3>1. job'[i].st = "active" /\ job'[i].stalls = job[i].stalls /\ May(i)' = 1
            BY <1>a, <2>1, <2>2, <2>3 DEF Taken, Job, May
        <3>2. i \in added
            BY <1>c, <2>1, <2>3 DEF JobOK, NoJob
        <3>3. commits[i] <= job[i].stalls
            BY <1>a, <1>c, <2>1, <2>3 DEF JobOK, Starts
        <3> QED BY <1>c, <2>1, <2>3, <3>1, <3>2, <3>3 DEF JobOK, Starts
    <2>4. CASE i # k
        <3>1. job'[i] = job[i] /\ job[i].st # "active" /\ May(i)' = 0
            BY <1>a, <1>c, <2>1, <2>2, <2>4 DEF JobOK, May
        <3> QED BY <1>c, <2>1, <2>4, <3>1 DEF JobOK
    <2> QED BY <2>3, <2>4
<1>14. ASSUME NEW k \in Id, StalledCheck(k) PROVE JobsOK'
    <2> SUFFICES ASSUME NEW i \in Id PROVE JobOK(i)'
        BY DEF JobsOK
    <2>1. /\ job[k].st = "stalled" /\ UNCHANGED <<added, commits, lost, worker>>
          /\ May(i)' = May(i)
        BY <1>14 DEF StalledCheck, data, May
    <2>2. job' = [job EXCEPT ![k] = Recovered(@)]
        BY <1>14 DEF StalledCheck
    <2>3. CASE i = k
        <3>1. \/ job'[i] = NoJob
              \/ job'[i].st = "waiting" /\ job'[i].stalls = job[i].stalls + 1
            BY <1>a, <2>1, <2>2, <2>3 DEF Recovered, Job
        <3>2. /\ i \in added /\ commits[i] + May(i) <= job[i].stalls + 1
              /\ job[i].stalls < lost[i]
            BY <1>c, <2>1, <2>3 DEF JobOK, NoJob, Starts
        <3> QED BY <1>c, <2>1, <3>1, <3>2, <1>d DEF JobOK, Starts
    <2>4. CASE i # k
        <3>1. job'[i] = job[i]
            BY <1>a, <2>1, <2>2, <2>4
        <3> QED BY <1>c, <2>1, <3>1 DEF JobOK
    <2> QED BY <2>3, <2>4
<1>15. ASSUME NEW k \in Id, AddJob(k) PROVE JobsOK'
    <2> SUFFICES ASSUME NEW i \in Id PROVE JobOK(i)'
        BY DEF JobsOK
    <2>1. /\ k \notin added /\ added' = added \cup {k}
          /\ UNCHANGED <<commits, lost, worker>> /\ May(i)' = May(i)
          /\ job' = [job EXCEPT ![k] = Added(@)]
        BY <1>15 DEF AddJob, data, May
    <2>2. CASE i = k
        <3>1. /\ job[i] = NoJob /\ commits[i] = 0 /\ May(i) = 0
              /\ worker.pc # "idle" => worker.id # i
            BY <1>c, <2>1, <2>2 DEF JobOK, May
        <3>2. job'[i] = [st |-> "waiting", tries |-> 0, stalls |-> 0]
            BY <1>a, <2>1, <2>2, <3>1 DEF Added, NoJob
        <3> QED BY <1>a, <2>1, <2>2, <3>1, <3>2 DEF JobOK, Starts
    <2>3. CASE i # k
        <3>1. job'[i] = job[i]
            BY <1>a, <2>1, <2>3
        <3> QED BY <1>c, <2>1, <2>3, <3>1 DEF JobOK
    <2> QED BY <2>2, <2>3
<1>16. ASSUME NEW s \in Script, UpdateTransformer(s) PROVE JobsOK'
    BY <1>16, JobsQuiet DEF UpdateTransformer, queue, data
<1>17. CASE DeleteTrigger
    BY <1>17, JobsQuiet DEF DeleteTrigger, queue, data
<1>18. CASE CreateTable
    BY <1>18, JobsQuiet DEF CreateTable, queue, data
<1>19. ASSUME NEW mine \in BOOLEAN, DropTable(mine) PROVE JobsOK'
    BY <1>19, JobsQuiet DEF DropTable, queue
<1>20. CASE UNCHANGED vars
    BY <1>20, JobsQuiet DEF vars, queue, data
<1> QED
    BY <1>1, <1>2, <1>3, <1>4, <1>5, <1>6, <1>7, <1>8, <1>9, <1>11, <1>12, <1>13,
       <1>14, <1>15, <1>16, <1>17, <1>18, <1>19, <1>20 DEF Next, Handler, Bull, Users

\* Every step keeps what is said of late results.
LEMMA LateStep ==
    ASSUME TypeOK, WorkerOK, LateOK, [Next]_vars
    PROVE  LateOK'
<1> USE DEF LateOK, Loaded
<1>a. /\ late \in Nat /\ live \in BOOLEAN
      /\ worker \in [pc : {"idle", "load"} \cup Loaded,
                   id : Id \cup {None}, script : Script \cup {None},
                   todo : Seq(Item), result : Result \cup {<< >>},
                   work : Table \cup {None}]
    BY DEF TypeOK, WorkerOK
<1>1. CASE Crash
    BY <1>1 DEF Crash, catalog, data, IdleWorker
<1>2. CASE Load
    BY <1>2 DEF Load, catalog, data
<1>3. CASE FindNode
    BY <1>a, <1>3 DEF FindNode, Goes, catalog, data
<1>4. CASE ReadAccount
    BY <1>a, <1>4 DEF ReadAccount, Goes, catalog, data
<1>5. CASE RunScript
    BY <1>a, <1>5 DEF RunScript, catalog, data
<1>6. CASE RunForever
    BY <1>a, <1>6 DEF RunForever, Goes, catalog, data
<1>7. CASE SaveItem
    BY <1>a, <1>7 DEF SaveItem, catalog, data
<1>8. CASE Commit
    BY <1>a, <1>8 DEF Commit, catalog
<1>9. CASE Finish
    BY <1>9 DEF Finish, Ended, catalog, data, IdleWorker
<1>10. CASE Fail
    BY <1>10 DEF Fail, Ended, catalog, data, IdleWorker
<1>11. ASSUME NEW i \in Id, Take(i) PROVE LateOK'
    BY <1>11 DEF Take, catalog, data, IdleWorker
<1>12. ASSUME NEW i \in Id, StalledCheck(i) PROVE LateOK'
    BY <1>12 DEF StalledCheck, catalog, data
<1>13. ASSUME NEW i \in Id, AddJob(i) PROVE LateOK'
    BY <1>13 DEF AddJob, catalog, data
<1>14. ASSUME NEW s \in Script, UpdateTransformer(s) PROVE LateOK'
    BY <1>14 DEF UpdateTransformer, data
<1>15. CASE DeleteTrigger
    BY <1>15 DEF DeleteTrigger, data
<1>16. CASE CreateTable
    BY <1>16 DEF CreateTable, data
<1>17. ASSUME NEW mine \in BOOLEAN, DropTable(mine) PROVE LateOK'
    BY <1>17 DEF DropTable
<1>18. CASE RunLong
    BY <1>a, <1>18 DEF RunLong, Goes, catalog, data
<1>19. CASE UNCHANGED vars
    BY <1>19 DEF vars, catalog, data
<1> QED
    BY <1>1, <1>2, <1>3, <1>4, <1>5, <1>6, <1>7, <1>8, <1>9, <1>10, <1>11, <1>12, <1>13,
       <1>14, <1>15, <1>16, <1>17, <1>18, <1>19 DEF Next, Handler, Bull, Users

\* A step that commits nothing and ends in no transaction keeps what is said of
\* saving.
LEMMA SaveQuiet ==
    ASSUME SaveOK, UNCHANGED <<rows, log>>, worker'.pc # "save", worker'.work = None
    PROVE  SaveOK'
BY DEF SaveOK

\* So does one that changes neither table nor worker.
LEMMA SaveStill ==
    ASSUME SaveOK, UNCHANGED <<rows, log, worker>>
    PROVE  SaveOK'
BY DEF SaveOK

\* Every step keeps what is said of saving.
LEMMA SaveStep ==
    ASSUME TypeOK, WorkerOK, SaveOK, [Next]_vars
    PROVE  SaveOK'
<1> USE TransformerAssumption
<1>a. /\ rows \in Table
      /\ worker \in [pc : {"idle", "load"} \cup Loaded,
                   id : Id \cup {None}, script : Script \cup {None},
                   todo : Seq(Item), result : Result \cup {<< >>},
                   work : Table \cup {None}]
      /\ IsSuffix(worker.todo, worker.result)
      /\ worker.pc # "save" => worker.work = None
    BY DEF TypeOK, WorkerOK, Table, SaveOK
<1>b. worker.result \in Seq(Item) /\ worker.todo \in Seq(Item)
    BY <1>a, ResultType
<1>1. CASE Crash
    BY <1>1, SaveQuiet DEF Crash, data, IdleWorker
<1>2. CASE Load
    BY <1>a, <1>2, SaveQuiet DEF Load, data
<1>3. CASE FindNode
    BY <1>a, <1>3, SaveQuiet DEF FindNode, Goes, data
<1>4. CASE ReadAccount
    BY <1>a, <1>4, SaveQuiet DEF ReadAccount, Goes, data
<1>5. CASE RunScript
    <2>1. PICK o \in Outcome[worker.script] :
             worker' = [worker EXCEPT !.pc = "save", !.result = o.items, !.todo = o.items]
        BY <1>5 DEF RunScript
    <2>2. worker'.work = None /\ worker'.todo = worker'.result
        BY <1>a, <1>5, <2>1 DEF RunScript
    <2> QED BY <1>5, <2>2 DEF RunScript, data, SaveOK
<1>6. CASE RunForever
    BY <1>a, <1>6, SaveQuiet DEF RunForever, Goes, data
<1>7. CASE SaveItem
    <2> DEFINE t == IF worker.work = None THEN rows ELSE worker.work
               r == worker.result
               k == Len(r) - Len(worker.todo)
    <2>1. worker.todo # << >> /\ worker.pc = "save" /\ UNCHANGED <<rows, log>>
        BY <1>7 DEF SaveItem, data
    <2>2. worker' = [worker EXCEPT !.todo = Tail(worker.todo),
                                   !.work = Applied(Head(worker.todo), t)]
        BY <1>7 DEF SaveItem
    <2>3. /\ worker'.pc = "save" /\ worker'.result = r
          /\ worker'.todo = Tail(worker.todo)
          /\ worker'.work = Applied(Head(worker.todo), t)
        BY <1>a, <2>1, <2>2
    <2>4. /\ Len(worker.todo) <= Len(r)
          /\ \A i \in 1 .. Len(worker.todo) : worker.todo[i] = r[k + i]
        BY <1>a, <1>b, SuffixIs
    <2>5. /\ Len(worker.todo) \in Nat \ {0} /\ Len(r) \in Nat
          /\ Head(worker.todo) = worker.todo[1] /\ Head(worker.todo) \in Item
          /\ Len(Tail(worker.todo)) = Len(worker.todo) - 1
        <3> DEFINE d == worker.todo
        <3>1. d \in Seq(Item) /\ d # << >> /\ r \in Seq(Item)
            BY <1>b, <2>1
        <3> HIDE DEF d, r
        <3>2. /\ Len(d) \in Nat \ {0} /\ Len(r) \in Nat
              /\ Head(d) = d[1] /\ Head(d) \in Item
              /\ Len(Tail(d)) = Len(d) - 1
            BY <3>1
        <3> QED BY <3>2 DEF d
    <2>6. Head(worker.todo) = r[k + 1] /\ Head(worker.todo) \in Item
        <3>1. 1 \in 1 .. Len(worker.todo)
            BY <2>5
        <3> QED BY <2>4, <2>5, <3>1
    <2>7. k \in 0 .. Len(r) - 1 /\ Len(r) - Len(Tail(worker.todo)) = k + 1
        <3> DEFINE d == worker.todo
        <3>1. Len(d) \in Nat \ {0} /\ Len(r) \in Nat /\ Len(d) <= Len(r)
              /\ Len(Tail(d)) = Len(d) - 1
            BY <2>4, <2>5
        <3> DEFINE a == Len(d)
                   b == Len(r)
                   c == Len(Tail(d))
        <3>2. a \in Nat \ {0} /\ b \in Nat /\ a <= b /\ c = a - 1
            BY <3>1
        <3> HIDE DEF a, b, c
        <3>3. b - a \in 0 .. b - 1 /\ b - c = b - a + 1
            BY <3>2
        <3> QED BY <3>3 DEF a, b, c
    <2>8. t = Whole(rows, SubSeq(r, 1, k))
        <3>1. CASE worker.work = None
            <4>1. k = 0
                BY <2>1, <2>5, <3>1 DEF SaveOK
            <4>2. SubSeq(r, 1, k) = << >>
                <5>1. SubSeq(r, 1, 0) = << >>
                    BY SubSeqEmpty
                <5> HIDE DEF k
                <5> QED BY <4>1, <5>1
            <4> QED BY <3>1, <4>2, WholeEmpty
        <3>2. CASE worker.work # None
            BY <3>2 DEF SaveOK
        <3> QED BY <3>1, <3>2
    <2>9. Applied(Head(worker.todo), t) = Whole(rows, SubSeq(r, 1, k + 1))
        <3>1. r \in Seq(Item)
            BY <1>b
        <3> HIDE DEF r, t, k
        <3>2. Whole(rows, SubSeq(r, 1, k + 1)) = Applied(r[k + 1], Whole(rows, SubSeq(r, 1, k)))
            BY <2>7, <3>1, WholeNext
        <3> QED BY <2>6, <2>8, <3>2
    <2>10. t \in Table
        BY <1>a
    <2>11. Applied(Head(worker.todo), t) \in Table
        BY <2>6, <2>10, AppliedType DEF Table
    <2>12. worker'.work # None
        BY <2>3, <2>11 DEF Table
    <2> HIDE DEF t, k
    <2>13. worker'.work = Whole(rows, SubSeq(r, 1, Len(r) - Len(worker'.todo)))
        BY <2>3, <2>7, <2>9
    <2> QED BY <2>1, <2>3, <2>12, <2>13 DEF SaveOK
<1>8. CASE Commit
    <2>1. /\ worker.pc = "save" /\ worker.todo = << >>
          /\ worker'.pc = "saved" /\ worker'.work = None
        BY <1>a, <1>8 DEF Commit
    <2>2. CASE worker.work = None
        BY <1>8, <2>1, <2>2, SaveQuiet DEF Commit
    <2>3. CASE worker.work # None
        <3>1. rows' = worker.work /\ log' = Append(log, worker.result)
            BY <1>8, <2>3 DEF Commit
        <3>2. SubSeq(worker.result, 1, Len(worker.result) - Len(worker.todo)) = worker.result
            BY <1>b, <2>1
        <3>3. rows' = Whole(Replay(log), worker.result)
            BY <2>3, <3>1, <3>2 DEF SaveOK
        <3>4. log \in Seq(Result \cup {<< >>}) /\ worker.result \in Result \cup {<< >>}
            BY <1>a DEF SaveOK
        <3>5. rows' = Replay(log')
            BY <3>1, <3>3, <3>4, ReplayAppend
        <3>6. log' \in Seq(Result \cup {<< >>})
            BY <3>1, <3>4
        <3> QED BY <2>1, <3>5, <3>6 DEF SaveOK
    <2> QED BY <2>2, <2>3
<1>9. CASE Finish
    BY <1>9, SaveQuiet DEF Finish, Ended, data, IdleWorker
<1>10. CASE Fail
    BY <1>10, SaveQuiet DEF Fail, Ended, data, IdleWorker
<1>11. ASSUME NEW i \in Id, Take(i) PROVE SaveOK'
    BY <1>11, SaveQuiet DEF Take, data, IdleWorker
<1>12. ASSUME NEW i \in Id, StalledCheck(i) PROVE SaveOK'
    BY <1>12, SaveStill DEF StalledCheck, data
<1>13. ASSUME NEW i \in Id, AddJob(i) PROVE SaveOK'
    BY <1>13, SaveStill DEF AddJob, data
<1>14. ASSUME NEW s \in Script, UpdateTransformer(s) PROVE SaveOK'
    BY <1>14, SaveStill DEF UpdateTransformer, data
<1>15. CASE DeleteTrigger
    BY <1>15, SaveStill DEF DeleteTrigger, data
<1>16. CASE CreateTable
    BY <1>16, SaveStill DEF CreateTable, data
<1>17. ASSUME NEW mine \in BOOLEAN, DropTable(mine) PROVE SaveOK'
    <2>1. worker.work = None /\ rows' = Empty /\ log' = << >> /\ worker' = worker
        BY <1>17 DEF DropTable
    <2>2. rows' = Replay(log') /\ log' \in Seq(Result \cup {<< >>})
        BY <2>1, ReplayEmpty
    <2> QED BY <2>1, <2>2 DEF SaveOK
<1>18. CASE RunLong
    BY <1>a, <1>18, SaveQuiet DEF RunLong, Goes, data
<1>19. CASE UNCHANGED vars
    BY <1>19, SaveStill DEF vars, data
<1> QED
    BY <1>1, <1>2, <1>3, <1>4, <1>5, <1>6, <1>7, <1>8, <1>9, <1>10, <1>11, <1>12, <1>13,
       <1>14, <1>15, <1>16, <1>17, <1>18, <1>19 DEF Next, Handler, Bull, Users

\* The invariant holds at the start.
LEMMA InitIInv == Init => IInv
<1> SUFFICES ASSUME Init PROVE IInv
    OBVIOUS
<1> USE TransformerAssumption, BullAssumption
<1>1. /\ worker = IdleWorker /\ worker.pc = "idle" /\ worker.work = None
      /\ worker.todo = << >> /\ worker.result = << >>
    BY DEF Init, IdleWorker
<1>2. WorkerOK
    BY <1>1 DEF WorkerOK, IdleWorker, Loaded
<1>3. TypeOK
    <2>1. NoJob \in Job
        BY DEF Job, NoJob
    <2>2. IsSuffix(worker.todo, worker.result)
        <3> DEFINE e == << >>
        <3>1. e \in Seq(Item)
            OBVIOUS
        <3> HIDE DEF e
        <3>2. IsSuffix(e, e)
            BY <3>1, SuffixEnds
        <3> QED BY <1>1, <3>2 DEF e
    <2>3. rows \in [Key -> Nat]
        BY DEF Init, Empty
    <2> QED BY <1>1, <2>1, <2>2, <2>3 DEF Init, IdleWorker, TypeOK
<1>4. JobsOK
    BY <1>1 DEF Init, JobsOK, JobOK, NoJob, May, Starts
<1>5. LateOK
    BY DEF Init, LateOK
<1>6. SaveOK
    BY <1>1, ReplayEmpty DEF Init, SaveOK
<1> QED
    BY <1>2, <1>3, <1>4, <1>5, <1>6 DEF IInv

\* Every step keeps it.
LEMMA StepIInv == IInv /\ [Next]_vars => IInv'
BY WorkerStep, JobsStep, LateStep, SaveStep DEF IInv

\* The invariant holds in every reachable state.
THEOREM Invariance == Spec => []IInv
BY InitIInv, StepIInv, PTL DEF Spec

\* Every state of the worker, the queue and the table is well typed: a result
\* that is being saved is one that the script gave, and the rows are counted.
THEOREM TypeCorrect == Spec => []TypeOK
<1>1. IInv => TypeOK
    BY DEF IInv
<1> QED
    BY <1>1, Invariance, PTL

\* The table holds the committed results one after another, each of them whole,
\* whatever refusals, crashes and drops come between two statements.
THEOREM ResultsAreWhole == Spec => []AllOrNothing
<1>1. IInv => AllOrNothing
    BY Zenon DEF IInv, SaveOK, AllOrNothing, Replay, Whole
<1> QED
    BY <1>1, Invariance, PTL

\* A result is committed again only by a job that lost its lock, once for each
\* loss, and no more often than Bull takes a job up again.
THEOREM OnlyLossRepeats == Spec => []RepeatedWhenLostOnly
<1>1. IInv => RepeatedWhenLostOnly
    <2> SUFFICES ASSUME IInv, NEW i \in Id
                 PROVE  commits[i] <= 1 + MaxStalledCount /\ commits[i] <= 1 + lost[i]
        BY DEF RepeatedWhenLostOnly
    <2>1. /\ commits[i] \in Nat /\ lost[i] \in Nat /\ May(i) \in {0, 1}
          /\ job[i].stalls \in 0 .. MaxStalledCount
        BY DEF IInv, TypeOK, Job, May
    <2>2. JobOK(i)
        BY DEF IInv, JobsOK
    <2>3. Starts(job[i]) <= 1 + MaxStalledCount /\ Starts(job[i]) \in Nat
        BY <2>1, BullAssumption DEF Starts
    <2> QED BY <2>1, <2>2, <2>3, BullAssumption DEF JobOK
<1> QED
    BY <1>1, Invariance, PTL

\* Of all the jobs of a deleted trigger at most one still writes.
THEOREM OneLateWrite == Spec => []LateWriteOnce
<1>1. IInv => LateWriteOnce
    BY DEF IInv, LateOK, LateWriteOnce
<1> QED
    BY <1>1, Invariance, PTL

-----------------------------------------------------------------------------
(* The fractions that scripts are helped with.                             *)

\* What is left of a number without its last digit is a smaller one.
LEMMA Digits ==
    ASSUME NEW n \in Nat, n >= 10
    PROVE  /\ n \div 10 \in Nat /\ n \div 10 >= 1 /\ n \div 10 < n
           /\ n % 10 \in 0 .. 9 /\ n = 10 * (n \div 10) + (n % 10)
OBVIOUS

\* g reads the numbers up to n.
Reads(g, n) ==
    g = [k \in 0 .. n |-> IF k < 10 THEN k ELSE 16 * g[k \div 10] + (k % 10)]

\* Two that read the same numbers agree on them.
LEMMA ReadsAgree ==
    ASSUME NEW n \in Nat, NEW m \in Nat, n <= m, NEW g, NEW h, Reads(g, n), Reads(h, m)
    PROVE  \A k \in 0 .. n : g[k] = h[k]
<1> DEFINE T == {k \in 0 .. n : g[k] # h[k]}
<1>1. SUFFICES ASSUME T # {} PROVE FALSE
    OBVIOUS
<1>2. PICK k \in T : \A i \in T : k <= i
    <2>1. T \in SUBSET Nat
        OBVIOUS
    <2> QED BY ONLY <1>1, <2>1, LeastNat
<1>3. /\ g[k] = IF k < 10 THEN k ELSE 16 * g[k \div 10] + (k % 10)
      /\ h[k] = IF k < 10 THEN k ELSE 16 * h[k \div 10] + (k % 10)
    BY <1>2 DEF Reads
<1>4. k >= 10
    BY <1>2, <1>3
<1>5. k \div 10 \in 0 .. n /\ k \div 10 < k
    BY <1>2, <1>4, Digits
<1>6. g[k \div 10] = h[k \div 10]
    BY <1>2, <1>5
<1> QED
    BY <1>2, <1>3, <1>6

\* There is one for every n.
LEMMA ReadsExist ==
    ASSUME NEW n \in Nat
    PROVE  \E g : Reads(g, n)
<1> DEFINE T == {m \in Nat : ~ \E g : Reads(g, m)}
<1>1. SUFFICES ASSUME T # {} PROVE FALSE
    OBVIOUS
<1>2. PICK m \in T : \A k \in T : m <= k
    BY <1>1, LeastNat
<1>3. CASE m < 10
    <2> DEFINE g == [k \in 0 .. m |-> k]
    <2>1. Reads(g, m)
        BY <1>3 DEF Reads
    <2> QED BY <1>2, <2>1
<1>4. CASE m >= 10
    <2>1. m - 1 \in Nat /\ m - 1 \notin T
        BY <1>2, <1>4
    <2>2. PICK g : Reads(g, m - 1)
        BY <2>1
    <2> DEFINE h == [k \in 0 .. m |-> IF k = m THEN 16 * g[m \div 10] + (m % 10) ELSE g[k]]
    <2>3. ASSUME NEW k \in 0 .. m
          PROVE  h[k] = IF k < 10 THEN k ELSE 16 * h[k \div 10] + (k % 10)
        <3>1. CASE k = m
            <4>1. m \div 10 \in 0 .. m /\ m \div 10 # m
                BY <1>4, Digits
            <4>2. h[m \div 10] = g[m \div 10]
                BY <4>1
            <4> QED BY <1>4, <3>1, <4>2
        <3>2. CASE k # m
            <4>1. k \in 0 .. m - 1
                BY <3>2
            <4>2. g[k] = IF k < 10 THEN k ELSE 16 * g[k \div 10] + (k % 10)
                BY <2>2, <4>1 DEF Reads
            <4>3. k >= 10 => h[k \div 10] = g[k \div 10]
                <5>1. k >= 10 => k \div 10 \in 0 .. m /\ k \div 10 # m
                    BY <4>1, Digits
                <5> QED BY <5>1
            <4>4. h[k] = g[k]
                BY <3>2
            <4> QED BY <4>1, <4>2, <4>3, <4>4
        <3> QED BY <3>1, <3>2
    <2>4. Reads(h, m)
        BY <2>3 DEF Reads
    <2> QED BY <1>2, <2>4
<1> QED
    BY <1>2, <1>3, <1>4

\* So Reread is what its definition says, for every number.
LEMMA RereadIs ==
    \A n \in Nat : Reread[n] = IF n < 10 THEN n ELSE 16 * Reread[n \div 10] + (n % 10)
<1> DEFINE Eq(g) == g = [n \in Nat |-> IF n < 10 THEN n ELSE 16 * g[n \div 10] + (n % 10)]
           At(n) == CHOOSE g : Reads(g, n)
           G == [n \in Nat |-> At(n)[n]]
<1>1. ASSUME NEW n \in Nat PROVE Reads(At(n), n)
    BY ReadsExist
<1> HIDE DEF At
<1>2. ASSUME NEW n \in Nat
      PROVE  G[n] = IF n < 10 THEN n ELSE 16 * G[n \div 10] + (n % 10)
    <2>1. At(n)[n] = IF n < 10 THEN n ELSE 16 * At(n)[n \div 10] + (n % 10)
        <3>1. Reads(At(n), n)
            BY <1>1
        <3> QED BY <3>1 DEF Reads
    <2>2. n >= 10 => G[n \div 10] = At(n)[n \div 10]
        <3> SUFFICES ASSUME n >= 10 PROVE At(n \div 10)[n \div 10] = At(n)[n \div 10]
            BY Digits
        <3>1. n \div 10 \in Nat /\ n \div 10 <= n /\ n \div 10 \in 0 .. n \div 10
            BY Digits
        <3>2. Reads(At(n \div 10), n \div 10) /\ Reads(At(n), n)
            BY <1>1, <3>1
        <3>3. \A k \in 0 .. n \div 10 : At(n \div 10)[k] = At(n)[k]
            BY ONLY <3>1, <3>2, ReadsAgree, n \in Nat
        <3> QED BY <3>1, <3>3
    <2> QED BY <2>1, <2>2
<1>3. Eq(G)
    BY <1>2
<1>4. Reread = CHOOSE g : Eq(g)
    BY Zenon DEF Reread
<1> HIDE DEF Eq
<1>5. Eq(Reread)
    BY <1>3, <1>4, Zenon
<1> QED
    BY <1>5 DEF Eq

\* Read as hexadecimal, a number of one digit is itself and all others are more.
LEMMA RereadMore ==
    ASSUME NEW n \in Nat
    PROVE  /\ Reread[n] \in Nat
           /\ IF n < 10 THEN Reread[n] = n ELSE Reread[n] > n
<1> DEFINE More(k) == Reread[k] \in Nat /\ IF k < 10 THEN Reread[k] = k ELSE Reread[k] > k
           T == {k \in Nat : ~More(k)}
<1>1. SUFFICES ASSUME T # {} PROVE FALSE
    OBVIOUS
<1>2. PICK k \in T : \A i \in T : k <= i
    BY <1>1, LeastNat
<1>3. CASE k < 10
    BY <1>2, <1>3, RereadIs
<1>4. CASE k >= 10
    <2> DEFINE d == k \div 10
    <2>1. d \in Nat /\ d >= 1 /\ d < k /\ k % 10 \in 0 .. 9 /\ k = 10 * d + (k % 10)
        BY <1>4, Digits
    <2>2. Reread[k] = 16 * Reread[d] + (k % 10)
        BY <1>4, RereadIs
    <2> HIDE DEF d
    <2>3. Reread[d] \in Nat /\ Reread[d] >= d
        BY <1>2, <2>1
    <2> QED BY <1>2, <1>4, <2>1, <2>2, <2>3
<1> QED
    BY <1>2, <1>3, <1>4

\* The greater number reads as the greater one.
LEMMA RereadGrows ==
    ASSUME NEW v \in Nat, NEW w \in Nat, v < w
    PROVE  Reread[v] < Reread[w]
<1> DEFINE T == {k \in Nat : \E i \in Nat : i < k /\ ~(Reread[i] < Reread[k])}
<1>1. SUFFICES ASSUME T # {} PROVE FALSE
    OBVIOUS
<1>2. PICK k \in T : \A j \in T : k <= j
    BY <1>1, LeastNat
<1>3. PICK i \in Nat : i < k /\ ~(Reread[i] < Reread[k])
    BY <1>2
<1>4. i >= 10 /\ k >= 10
    BY <1>2, <1>3, RereadMore
<1> DEFINE d == i \div 10
           e == k \div 10
<1>5. /\ d \in Nat /\ i % 10 \in 0 .. 9 /\ i = 10 * d + (i % 10)
      /\ e \in Nat /\ e < k /\ k % 10 \in 0 .. 9 /\ k = 10 * e + (k % 10)
    BY <1>2, <1>4, Digits
<1>6. /\ Reread[i] = 16 * Reread[d] + (i % 10)
      /\ Reread[k] = 16 * Reread[e] + (k % 10)
    BY <1>2, <1>4, RereadIs
<1> HIDE DEF d, e
<1>7. Reread[d] \in Nat /\ Reread[e] \in Nat
    BY <1>5, RereadMore
<1>8. d <= e
    BY <1>3, <1>5
<1>9. d < e => Reread[d] < Reread[e]
    BY <1>2, <1>5
<1> QED
    BY <1>3, <1>5, <1>6, <1>7, <1>8, <1>9

\* The first of some places is the least.
LEMMA MinIs ==
    ASSUME NEW s \in SUBSET Nat, s # {}
    PROVE  Min(s) \in s /\ \A y \in s : Min(s) <= y
<1>1. \E x \in s : \A y \in s : x <= y
    BY LeastNat
<1> QED
    BY <1>1 DEF Min

\* g is the function that the value of words q is defined with, from place l.
Values(g, q, base, l, n) ==
    g = [s \in SUBSET (l .. n) |->
           IF s = {} THEN 0 ELSE q[Min(s)] + base * g[s \ {Min(s)}]]

\* There is one.
LEMMA ValuesExist ==
    ASSUME NEW q, NEW base, NEW n \in Nat
    PROVE  \E g : Values(g, q, base, 1, n)
<1> DEFINE T == {m \in 0 .. n : ~ \E g : Values(g, q, base, n - m + 1, n)}
<1>1. SUFFICES ASSUME T # {} PROVE FALSE
    <2>1. n \in 0 .. n /\ n - n + 1 = 1
        OBVIOUS
    <2> QED BY <2>1
<1>2. PICK m \in T : \A k \in T : m <= k
    <2>1. T \in SUBSET Nat
        OBVIOUS
    <2> QED BY ONLY <1>1, <2>1, LeastNat
<1>3. CASE m = 0
    <2> DEFINE g == [s \in SUBSET (n + 1 .. n) |-> 0]
    <2>1. \A s \in SUBSET (n + 1 .. n) : s = {}
        OBVIOUS
    <2>2. Values(g, q, base, n + 1, n)
        BY <2>1 DEF Values
    <2>3. n - m + 1 = n + 1
        BY <1>3
    <2> QED BY <1>2, <2>2, <2>3
<1>4. CASE m # 0
    <2> DEFINE l == n - m + 1
    <2>1. m - 1 \in 0 .. n /\ m - 1 \notin T /\ n - (m - 1) + 1 = l + 1 /\ l \in Nat /\ l <= n
        BY <1>2, <1>4
    <2>2. PICK g : Values(g, q, base, l + 1, n)
        BY <2>1
    <2> HIDE DEF l
    <2> DEFINE h == [s \in SUBSET (l .. n) |->
                      IF l \in s THEN q[l] + base * g[s \ {l}] ELSE g[s]]
    <2>3. ASSUME NEW s \in SUBSET (l .. n)
          PROVE  h[s] = IF s = {} THEN 0 ELSE q[Min(s)] + base * h[s \ {Min(s)}]
        <3>1. CASE l \in s
            <4>1. Min(s) = l
                <5>1. s \in SUBSET Nat /\ s # {}
                    BY <2>1, <3>1
                <5>2. Min(s) \in s /\ \A y \in s : Min(s) <= y
                    BY <5>1, MinIs
                <5>3. Min(s) <= l /\ Min(s) \in l .. n
                    BY <3>1, <5>2
                <5> QED BY <2>1, <5>3
            <4>2. h[s \ {l}] = g[s \ {l}]
                OBVIOUS
            <4> QED BY <3>1, <4>1, <4>2
        <3>2. CASE l \notin s
            <4>1. s \in SUBSET (l + 1 .. n)
                BY <2>1, <3>2
            <4>2. g[s] = IF s = {} THEN 0 ELSE q[Min(s)] + base * g[s \ {Min(s)}]
                BY <2>2, <4>1 DEF Values
            <4>3. h[s] = g[s] /\ h[s \ {Min(s)}] = g[s \ {Min(s)}]
                BY <3>2
            <4> QED BY <4>2, <4>3
        <3> QED BY <3>1, <3>2
    <2>4. Values(h, q, base, l, n)
        BY <2>3 DEF Values
    <2> QED BY <1>2, <2>4 DEF l
<1> QED
    BY <1>3, <1>4

\* The value of words is that function, from the first place on.
LEMMA ValueIs ==
    ASSUME NEW q, NEW base, NEW n \in Nat, DOMAIN q = 1 .. n
    PROVE  \E g : Values(g, q, base, 1, n) /\ Value(q, base) = g[1 .. n]
<1> DEFINE Eq(g) == g = [s \in SUBSET (DOMAIN q) |->
               IF s = {} THEN 0 ELSE q[Min(s)] + base * g[s \ {Min(s)}]]
<1>1. Value(q, base) = (CHOOSE g : Eq(g))[DOMAIN q]
    BY Zenon DEF Value, FoldRight, MapThenFoldSet
<1>2. ASSUME NEW g PROVE Eq(g) <=> Values(g, q, base, 1, n)
    BY DEF Values
<1> HIDE DEF Eq
<1>3. \E g : Eq(g)
    BY <1>2, ValuesExist
<1>4. Eq(CHOOSE g : Eq(g))
    BY <1>3, Zenon
<1> QED
    BY <1>1, <1>2, <1>4

\* From place k on, it is the word there and base times the rest.
LEMMA FirstWord ==
    ASSUME NEW g, NEW q, NEW base, NEW n \in Nat, NEW k \in 1 .. n,
           Values(g, q, base, 1, n)
    PROVE  g[k .. n] = q[k] + base * g[k + 1 .. n]
<1>1. /\ k .. n \in SUBSET (1 .. n) /\ k .. n \in SUBSET Nat /\ k \in k .. n
      /\ (k .. n) \ {k} = k + 1 .. n
    OBVIOUS
<1>2. Min(k .. n) \in k .. n /\ Min(k .. n) <= k
    BY <1>1, MinIs
<1>3. Min(k .. n) = k
    BY <1>2
<1> QED
    BY <1>1, <1>3 DEF Values

\* A greater factor makes the product greater.
LEMMA Product ==
    ASSUME NEW base \in Nat \ {0}, NEW x \in Nat, NEW y \in Nat
    PROVE  /\ base * x \in Nat /\ base * y \in Nat
           /\ x < y => base * x < base * y
<1>1. ASSUME NEW z \in Nat PROVE base * z \in Nat
    OBVIOUS
<1>2. ASSUME x < y PROVE base * x < base * y
    <2> DEFINE d == y - x - 1
    <2>1. d \in Nat /\ y = x + d + 1
        BY <1>2
    <2> HIDE DEF d
    <2>2. base * y = base * x + base * d + base
        BY <2>1
    <2>3. base * d \in Nat /\ base * x \in Nat
        BY <1>1, <2>1
    <2> QED BY <2>2, <2>3
<1> QED
    BY <1>1, <1>2

\* A fraction, of any words in any base, is read right exactly when its words
\* are below ten, and is too large otherwise.
THEOREM FractionsTooLarge ==
    ASSUME NEW words \in Seq(Nat), NEW base \in Nat \ {0}
    PROVE  RightBelowTenOnly(words, base)
<1> DEFINE n == Len(words)
           made == [i \in DOMAIN words |-> Reread[words[i]]]
<1>1. n \in Nat /\ DOMAIN words = 1 .. n /\ DOMAIN made = 1 .. n
    OBVIOUS
<1>2. \A i \in 1 .. n : words[i] \in Nat /\ made[i] = Reread[words[i]]
    OBVIOUS
<1>3. Value(made, base) = Total(words, base)
    BY DEF Total
<1> HIDE DEF n, made
<1>4. PICK g : Values(g, words, base, 1, n) /\ Value(words, base) = g[1 .. n]
    BY <1>1, ValueIs
<1>5. PICK h : Values(h, made, base, 1, n) /\ Value(made, base) = h[1 .. n]
    BY <1>1, ValueIs
<1> DEFINE Compared(k) ==
             /\ g[k .. n] \in Nat /\ h[k .. n] \in Nat
             /\ IF \A i \in k .. n : words[i] < 10 THEN h[k .. n] = g[k .. n]
                                                   ELSE h[k .. n] > g[k .. n]
           T == {m \in 0 .. n : ~Compared(n - m + 1)}
<1>6. T = {}
    <2>1. SUFFICES ASSUME T # {} PROVE FALSE
        OBVIOUS
    <2>2. PICK m \in T : \A j \in T : m <= j
        <3>1. T \in SUBSET Nat
            BY <1>1
        <3> QED BY ONLY <2>1, <3>1, LeastNat
    <2>3. CASE m = 0
        <3>1. n - m + 1 .. n = {}
            BY <1>1, <2>3
        <3>2. g[n - m + 1 .. n] = 0 /\ h[n - m + 1 .. n] = 0
            BY <1>4, <1>5, <3>1 DEF Values
        <3> QED BY <2>2, <3>1, <3>2
    <2>4. CASE m # 0
        <3> DEFINE k == n - m + 1
        <3>1. k \in 1 .. n /\ m - 1 \in 0 .. n /\ n - (m - 1) + 1 = k + 1
            BY <1>1, <2>2, <2>4
        <3>2. Compared(k + 1)
            BY <2>2, <3>1
        <3>3. ~Compared(k)
            BY <2>2
        <3> DEFINE x == g[k + 1 .. n]
                   y == h[k + 1 .. n]
        <3>4. g[k .. n] = words[k] + base * x /\ h[k .. n] = made[k] + base * y
            <4>1. k \in 1 .. n /\ n \in Nat
                BY <1>1, <3>1
            <4> HIDE DEF k
            <4>2. g[k .. n] = words[k] + base * g[k + 1 .. n]
                BY ONLY <1>4, <4>1, FirstWord
            <4>3. h[k .. n] = made[k] + base * h[k + 1 .. n]
                BY ONLY <1>5, <4>1, FirstWord
            <4> QED BY <4>2, <4>3
        <3>5. x \in Nat /\ y \in Nat
            BY <3>2
        <3>6. /\ base * x \in Nat /\ base * y \in Nat
              /\ IF x < y THEN base * x < base * y ELSE x = y => base * x = base * y
            BY <3>5, Product
        <3>7. /\ words[k] \in Nat /\ made[k] \in Nat
              /\ IF words[k] < 10 THEN made[k] = words[k] ELSE made[k] > words[k]
            BY <1>2, <3>1, RereadMore
        <3>8. (\A i \in k .. n : words[i] < 10) <=>
                 words[k] < 10 /\ \A i \in k + 1 .. n : words[i] < 10
            <4>1. k .. n = {k} \cup (k + 1 .. n)
                BY <1>1, <3>1
            <4> QED BY <4>1
        <3>9. IF \A i \in k + 1 .. n : words[i] < 10 THEN y = x ELSE y > x
            BY <3>2
        <3> DEFINE u == base * x
                   v == base * y
        <3>a. g[k .. n] = words[k] + u /\ h[k .. n] = made[k] + v
            BY <3>4
        <3>b. u \in Nat /\ v \in Nat
            BY <3>6
        <3>c. IF \A i \in k + 1 .. n : words[i] < 10 THEN v = u ELSE v > u
            BY <3>5, <3>6, <3>9
        <3> HIDE DEF k, x, y, u, v
        <3>d. g[k .. n] \in Nat /\ h[k .. n] \in Nat
            <4>1. words[k] + u \in Nat /\ made[k] + v \in Nat
                BY <3>7, <3>b
            <4> QED BY <3>a, <4>1
        <3>e. IF \A i \in k .. n : words[i] < 10 THEN h[k .. n] = g[k .. n]
                                                 ELSE h[k .. n] > g[k .. n]
            <4>1. CASE \A i \in k + 1 .. n : words[i] < 10
                BY <3>7, <3>8, <3>a, <3>b, <3>c, <4>1
            <4>2. CASE ~ \A i \in k + 1 .. n : words[i] < 10
                BY <3>7, <3>8, <3>a, <3>b, <3>c, <4>2
            <4> QED BY <4>1, <4>2
        <3> QED BY <3>3, <3>d, <3>e
    <2> QED BY <2>3, <2>4
<1>7. Compared(1)
    <2>1. n \in 0 .. n /\ n - n + 1 = 1
        BY <1>1
    <2> QED BY <1>6, <2>1
<1> QED
    BY <1>1, <1>3, <1>4, <1>5, <1>7 DEF RightBelowTenOnly

\* Of some decimals one is the nearest, the greater one of two.
LEMMA Nearest ==
    ASSUME NEW f, f.multiplier \in Nat \ {0}, f.unit \in Nat,
           f.decimals \in SUBSET Nat, f.decimals # {}, NEW n \in Nat
    PROVE  /\ toDecimalFrom(n, f) \in f.decimals
           /\ \A h \in f.decimals :
                 \/ Distance(toDecimalFrom(n, f), n, f) < Distance(h, n, f)
                 \/ /\ Distance(toDecimalFrom(n, f), n, f) = Distance(h, n, f)
                    /\ h <= toDecimalFrom(n, f)
<1> DEFINE Far(g) == Distance(g, n, f)
           Best(g) == \A h \in f.decimals : Far(g) < Far(h) \/ (Far(g) = Far(h) /\ h <= g)
<1>1. ASSUME NEW g \in f.decimals
      PROVE  /\ f.multiplier * g \in Nat /\ f.multiplier * g = g * f.multiplier
             /\ n * f.unit \in Nat /\ Far(g) \in Nat
             /\ \/ Far(g) = f.multiplier * g - n * f.unit
                \/ Far(g) = n * f.unit - f.multiplier * g
    <2>1. f.multiplier * g \in Nat /\ n * f.unit \in Nat /\ f.multiplier * g = g * f.multiplier
        <3>1. g \in Nat
            OBVIOUS
        <3>2. \A x, y \in Nat : x * y \in Nat /\ x * y = y * x
            OBVIOUS
        <3> QED BY <3>1, <3>2
    <2> DEFINE a == g * f.multiplier
               c == n * f.unit
    <2>2. Far(g) = IF a - c < 0 THEN -(a - c) ELSE a - c
        BY DEF Distance
    <2>3. a \in Nat /\ c \in Nat
        BY <2>1
    <2>4. f.multiplier * g = a
        BY <2>1
    <2> HIDE DEF a, Far
    <2>5. Far(g) \in Nat /\ (Far(g) = a - c \/ Far(g) = c - a)
        <3> HIDE DEF c
        <3> QED BY <2>2, <2>3
    <2> QED BY <2>1, <2>4, <2>5
<1> HIDE DEF Far
<1>2. \E g \in f.decimals : Best(g)
    <2> DEFINE T == {Far(g) : g \in f.decimals}
    <2>1. PICK d \in T : \A e \in T : d <= e
        <3>1. T \in SUBSET Nat /\ T # {}
            BY <1>1
        <3> QED BY ONLY <3>1, LeastNat
    <2> DEFINE N == {g \in f.decimals : Far(g) = d}
    <2>2. PICK g \in N : TRUE
        BY <2>1
    <2>3. ASSUME NEW x \in N, NEW y \in N, NEW z \in N, x < y, y < z PROVE FALSE
        <3> DEFINE a == f.multiplier * x
                   b == f.multiplier * y
                   c == f.multiplier * z
                   k == n * f.unit
        <3>1. x \in Nat /\ y \in Nat /\ z \in Nat
            OBVIOUS
        <3>2. a \in Nat /\ b \in Nat /\ c \in Nat /\ a < b /\ b < c
            BY <2>3, <3>1, Product
        <3>3. /\ k \in Nat /\ d \in Nat
              /\ d = a - k \/ d = k - a
              /\ d = b - k \/ d = k - b
              /\ d = c - k \/ d = k - c
            BY <1>1
        <3> HIDE DEF a, b, c, k
        <3> QED BY <3>2, <3>3
    <2>4. PICK x \in N : \A y \in N : y <= x
        <3>1. CASE \E y \in N : g < y
            <4>1. PICK y \in N : g < y
                BY <3>1
            <4>2. \A z \in N : z <= y
                BY <2>2, <2>3, <4>1
            <4> QED BY <4>2
        <3>2. CASE ~ \E y \in N : g < y
            BY <2>2, <3>2
        <3> QED BY <3>1, <3>2
    <2>5. Best(x)
        <3> SUFFICES ASSUME NEW h \in f.decimals
                     PROVE  Far(x) < Far(h) \/ (Far(x) = Far(h) /\ h <= x)
            OBVIOUS
        <3>1. Far(x) = d /\ Far(h) \in T /\ Far(h) \in Nat /\ d \in Nat
            BY <1>1
        <3>2. d <= Far(h)
            BY <2>1, <3>1
        <3>3. Far(h) = d => h <= x
            BY <2>4
        <3> QED BY <3>1, <3>2, <3>3
    <2> QED BY <2>5
<1>3. toDecimalFrom(n, f) = CHOOSE g \in f.decimals : Best(g)
    BY Zenon DEF toDecimalFrom, Far
<1> HIDE DEF Best
<1>4. (CHOOSE g \in f.decimals : Best(g)) \in f.decimals /\ Best(CHOOSE g \in f.decimals : Best(g))
    BY <1>2, Zenon
<1> QED
    BY <1>3, <1>4, Zenon DEF Best, Far

\* The greater number is never rounded to less than the smaller one.
LEMMA RoundedInOrder ==
    ASSUME NEW f, f.multiplier \in Nat \ {0}, f.unit \in Nat,
           f.decimals \in SUBSET Nat, f.decimals # {},
           NEW v \in Nat, NEW w \in Nat, v <= w
    PROVE  toDecimalFrom(v, f) <= toDecimalFrom(w, f)
<1> DEFINE g == toDecimalFrom(v, f)
           h == toDecimalFrom(w, f)
           a == f.multiplier * g
           b == f.multiplier * h
           x == f.unit * v
           y == f.unit * w
<1>1. /\ g \in f.decimals /\ h \in f.decimals
      /\ \/ Distance(g, v, f) < Distance(h, v, f)
         \/ Distance(g, v, f) = Distance(h, v, f) /\ h <= g
      /\ \/ Distance(h, w, f) < Distance(g, w, f)
         \/ Distance(h, w, f) = Distance(g, w, f) /\ g <= h
    BY Nearest
<1>2. SUFFICES ASSUME h < g PROVE FALSE
    BY <1>1
<1> HIDE DEF g, h
<1>3. g \in Nat /\ h \in Nat
    BY <1>1
<1>4. a \in Nat /\ b \in Nat /\ b < a
    BY <1>2, <1>3, Product
<1>5. x \in Nat /\ y \in Nat /\ x <= y
    <2>1. CASE f.unit = 0
        <3>1. x = 0 /\ y = 0
            BY <2>1
        <3> QED BY <3>1
    <2>2. CASE f.unit # 0
        <3>1. x \in Nat /\ y \in Nat /\ (v < w => x < y)
            BY <2>2, Product
        <3> QED BY <3>1
    <2> QED BY <2>1, <2>2
<1>6. /\ g * f.multiplier = a /\ h * f.multiplier = b
      /\ v * f.unit = x /\ w * f.unit = y
    <2>1. \A i, j \in Nat : i * j = j * i
        OBVIOUS
    <2> QED BY <1>3, <2>1
<1>7. /\ Distance(g, v, f) = IF a - x < 0 THEN -(a - x) ELSE a - x
      /\ Distance(h, v, f) = IF b - x < 0 THEN -(b - x) ELSE b - x
      /\ Distance(g, w, f) = IF a - y < 0 THEN -(a - y) ELSE a - y
      /\ Distance(h, w, f) = IF b - y < 0 THEN -(b - y) ELSE b - y
    BY <1>6 DEF Distance
<1> HIDE DEF a, b, x, y
<1> QED
    BY <1>1, <1>2, <1>3, <1>4, <1>5, <1>7

\* The sum of one word is the word as it is read.
LEMMA TotalOfOne ==
    ASSUME NEW v \in Nat, NEW base \in Nat
    PROVE  Total(<<v>>, base) = Reread[v]
<1> DEFINE q == [i \in DOMAIN <<v>> |-> Reread[<<v>>[i]]]
<1>1. DOMAIN <<v>> = 1 .. 1 /\ DOMAIN q = 1 .. 1 /\ q[1] = Reread[v]
    OBVIOUS
<1>2. Total(<<v>>, base) = Value(q, base)
    BY DEF Total
<1> HIDE DEF q
<1>3. PICK g : Values(g, q, base, 1, 1) /\ Value(q, base) = g[1 .. 1]
    BY <1>1, ValueIs
<1>4. g[1 .. 1] = q[1] + base * g[2 .. 1]
    <2>1. \A n \in Nat : \A k \in 1 .. n :
             Values(g, q, base, 1, n) => g[k .. n] = q[k] + base * g[k + 1 .. n]
        BY FirstWord
    <2>2. 1 \in Nat /\ 1 \in 1 .. 1 /\ 1 + 1 = 2
        OBVIOUS
    <2> QED BY <1>3, <2>1, <2>2
<1>5. 2 .. 1 = {} /\ g[{}] = 0
    BY <1>3 DEF Values
<1>6. Reread[v] \in Nat
    BY RereadMore
<1> QED
    BY <1>1, <1>2, <1>3, <1>4, <1>5, <1>6

\* Fractions of one word, however large, never change places, whatever numbers
\* the quotients are rounded to.
THEOREM OrderIsNotReversed ==
    ASSUME NEW f, f.multiplier \in Nat \ {0}, f.unit \in Nat,
           f.decimals \in SUBSET Nat, f.decimals # {}, NEW base \in Nat \ {0}
    PROVE  \A v, w \in Nat : KeepsOrder(v, w, base, f)
<1> SUFFICES ASSUME NEW v \in Nat, NEW w \in Nat, v <= w
             PROVE  toDecimalFrom(Total(<<v>>, base), f) <= toDecimalFrom(Total(<<w>>, base), f)
    BY DEF KeepsOrder, toDecimalFromBfs
<1>1. Reread[v] \in Nat /\ Reread[w] \in Nat
    BY RereadMore
<1>2. Reread[v] <= Reread[w]
    <2>1. v < w => Reread[v] < Reread[w]
        BY RereadGrows
    <2> QED BY <1>1, <2>1
<1>3. Total(<<v>>, base) = Reread[v] /\ Total(<<w>>, base) = Reread[w]
    BY TotalOfOne
<1> QED
    BY <1>1, <1>2, <1>3, RoundedInOrder
=============================================================================
