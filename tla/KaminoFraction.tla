--------------------------- MODULE KaminoFraction ---------------------------
(***************************************************************************)
(* How utils.kamino, which scripts are given, makes a number of the words  *)
(* of a big fraction.  Words are small here and their base too.            *)
(***************************************************************************)
EXTENDS Integers, Sequences, SequencesExt

\* `new BN(value.toString(), 16)': the decimal digits of a word read as hex.
Reread[n \in Nat] == IF n < 10 THEN n ELSE 16 * Reread[n \div 10] + (n % 10)

\* The words, the lowest first, in base U64_BASE.
Value(words, base) == FoldRight(LAMBDA w, high : w + base * high, words, 0)

\* The sum that toDecimalFromBfs makes of them.
Total(words, base) == Value([i \in DOMAIN words |-> Reread[words[i]]], base)

Power10[n \in Nat] == IF n = 0 THEN 1 ELSE 10 * Power10[n - 1]

\* The numbers of at most p significant digits that decimal.js can hold, up to
\* e places above the unit they are counted in.
Decimals(p, e) == {k * Power10[i] : k \in 0 .. Power10[p] - 1, i \in 0 .. e}

\* How far decimal g is from n divided by the multiplier.
Distance(g, n, f) ==
    LET d == g * f.multiplier - n * f.unit IN IF d < 0 THEN -d ELSE d

\* toDecimal, toDecimalFrom: the quotient is rounded to the nearest decimal,
\* half of a digit up.
toDecimalFrom(n, f) ==
    CHOOSE g \in f.decimals : \A h \in f.decimals :
        \/ Distance(g, n, f) < Distance(h, n, f)
        \/ Distance(g, n, f) = Distance(h, n, f) /\ h <= g

toDecimalFromBfs(words, base, f) == toDecimalFrom(Total(words, base), f)

\* The sum is right exactly when every word is below ten; all others come out
\* too large.
RightBelowTenOnly(words, base) ==
    LET right == Value(words, base)
        made  == Total(words, base)
    IN  IF \A i \in DOMAIN words : words[i] < 10 THEN made = right ELSE made > right

\* Fractions of one word never change places, but rounding may make two of them
\* equal.
KeepsOrder(v, w, base, f) ==
    v <= w => toDecimalFromBfs(<<v>>, base, f) <= toDecimalFromBfs(<<w>>, base, f)
=============================================================================
