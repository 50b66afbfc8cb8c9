--------------------------- MODULE MCLedgerVerify ---------------------------
(* Two key versions and two key pairs, one server beside the commands of up to two operators. *)
EXTENDS LedgerVerify

CONSTANTS p1, p2, s1, o1, o2

MCVersion == {1, 2}
MCMaterial == {p1, p2}
MCConfig == {[version |-> 1, pub |-> p1], [version |-> 2, pub |-> p2]}
MCServer == {s1}
OneOperator == {o1}
TwoOperators == {o1, o2}
Symmetry == Permutations(TwoOperators)

\* Two commands at a time only while the rows are as they were written and no
\* verification is under way, neither of which has a part in the other.
Apart ==
    \/ troubles = 0 /\ ver = Genesis
    \/ \E o \in Operator : \A other \in Operator \ {o} : cmd[other] = Idle
ApartSpec == Init /\ [][Next /\ Apart']_vars
=============================================================================
