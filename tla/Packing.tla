------------------------------ MODULE Packing ------------------------------
(***************************************************************************)
(* The greedy packing of context/selection.py, which memory/retrieval.py   *)
(* repeats: candidates are sorted by a key and taken while they fit.       *)
(*                                                                         *)
(* Candidates are a sequence, in the order in which they were listed; key  *)
(* and cost are functions of a candidate.  A key is a fraction, so that    *)
(* floats are compared exactly.                                            *)
(***************************************************************************)
EXTENDS Naturals, Sequences, FiniteSets, FiniteSetsExt, SequencesExt

Fraction(n, d) == [num |-> n, den |-> d]

Higher(x, y) == x.num * y.den > y.num * x.den

\* sorted(items, key=key, reverse=True): Python's sort is stable, and reverse
\* keeps the listed order of equal keys.
Ordered(items, key) ==
    LET i \prec j == \/ Higher(key[items[i]], key[items[j]])
                     \/ ~Higher(key[items[j]], key[items[i]]) /\ i < j
        place(j) == 1 + Cardinality({i \in DOMAIN items : i \prec j})
    IN  [n \in DOMAIN items |-> items[CHOOSE j \in DOMAIN items : place(j) = n]]

\* Mutant of GreedyPack: the loop stops at the first item that does not fit.
PackUntilFull(ordered, cost, budget) ==
    FoldLeft(LAMBDA acc, i :
                 IF cost[i] <= acc.left
                 THEN [acc EXCEPT !.kept = @ \cup {i}, !.left = @ - cost[i]]
                 ELSE [acc EXCEPT !.left = 0],
             [kept |-> {}, left |-> budget], ordered).kept

\* The loop: an item that does not fit is skipped, the loop goes on.
GreedyPack(ordered, cost, budget) ==
    FoldLeft(LAMBDA acc, i :
                 IF cost[i] <= acc.left
                 THEN [acc EXCEPT !.kept = @ \cup {i}, !.left = @ - cost[i]]
                 ELSE acc,
             [kept |-> {}, left |-> budget], ordered).kept

\* Min-max normalization of v within S; all of S is 1 when it does not vary.
Normalized(v, S) ==
    LET lo == Min(S)
        hi == Max(S)
    IN  IF lo = hi THEN Fraction(1, 1) ELSE Fraction(v - lo, hi - lo)
=============================================================================
