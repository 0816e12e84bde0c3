--------------------------- MODULE MCTransformer ---------------------------
(* Instances of Transformer. *)
EXTENDS Transformer, FiniteSets, KaminoFraction

CONSTANTS j1, j2, a, b

Insert(k)    == [action |-> "INSERT", data |-> k, where |-> {}]
Update(w, k) == [action |-> "UPDATE", data |-> k, where |-> w]
Delete(w)    == [action |-> "DELETE", data |-> CHOOSE k \in Key : TRUE, where |-> w]
Array(items) == [is |-> "array", items |-> items]
Other(what)  == [is |-> what, items |-> <<>>]

\* One script replaces the row it keeps, one appends and may go wrong or not
\* return.
Outcomes ==
    [s \in Script |->
        CASE s = "keep"   -> {Array(<<Delete(Key), Insert(a), Update({a}, b)>>)}
          [] s = "append" -> {Array(<<Insert(a), Insert(b)>>),
                              Array(<<Insert(a), [Delete({a}) EXCEPT !.action = "other"]>>),
                              Other("object"), Other("error"), Other("endless")}]

\* The helper scripts call for big fractions: sums of words of up to 120, and
\* quotients rounded to a digit, of which 21/8 and 22/8 are the same.
ASSUME FractionOfWords ==
    LET f     == [multiplier |-> 8, unit |-> 1000, decimals |-> Decimals(1, 5)]
        Words == 0 .. 20 \cup {99, 100, 120}
    IN  /\ \A v, w \in 0 .. 120 : RightBelowTenOnly(<<v, w>>, 128)
        /\ \A u, v, w \in {0, 1, 9, 10, 15, 16, 99} : RightBelowTenOnly(<<u, v, w>>, 128)
        /\ \A v, w \in Words : KeepsOrder(v, w, 128, f)
        /\ toDecimalFromBfs(<<2>>, 128, f) = 300
        /\ toDecimalFromBfs(<<15>>, 128, f) = 3000
        /\ toDecimalFromBfs(<<15>>, 128, f) = toDecimalFromBfs(<<16>>, 128, f)
=============================================================================
