------------------------------ MODULE MCStore ------------------------------
\* Two models that share a layer, and one command or two at a time.
EXTENDS Store, TLC

CONSTANTS p1, p2, latest, demo, d1, d2, l1, l2

Alike == Permutations({p1, p2}) \cup Permutations({d1, d2})
One == {p1}
Two == {p1, p2}
Twice == [d \in {d1, d2} |-> IF d = d1 THEN <<l1, l2>> ELSE <<l2>>]
Single == [d \in {d1} |-> <<l1>>]
Without == [d \in {d1, d2} |-> <<>>]
Shared == [d \in {d1, d2} |-> <<l1>>]
=============================================================================
