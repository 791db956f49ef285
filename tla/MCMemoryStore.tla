---------------------------- MODULE MCMemoryStore ----------------------------
(***************************************************************************)
(* Instances of MemoryStore for TLC.                                       *)
(***************************************************************************)
EXTENDS MemoryStore, TLC

CONSTANTS m1, m2, m3, c1, c2

ThreeMemories == {m1, m2, m3}
TwoWorking == {m1, m3}
TwoCallers == {c1, c2}

\* One working memory expires, the other and the episodic one do not.
OneExpires == [m \in Memories |-> IF m = m1 THEN 1 ELSE Forever]

\* They tie in everything but their cost and what is done with them.
Costs == [m \in Memories |-> IF m = m2 THEN 3 ELSE 2]
Importances == [m \in Memories |-> 1]
Relevances == [m \in Memories |-> 0]

\* Room for a cheaper one only; for the dearer one or both cheaper ones.
OneOrTwoFit == {2, 4}

\* Enough for a stale copy of the first, and to touch another.
Reads == [m \in Memories |-> IF m = m1 THEN 2 ELSE IF m = m2 THEN 1 ELSE 0]

Symmetry == Permutations(Callers)
=============================================================================
