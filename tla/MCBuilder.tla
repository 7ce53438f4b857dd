------------------------------- MODULE MCBuilder -------------------------------
EXTENDS Builder

CONSTANTS b1, b2, s1, s2

\* Two businesses that name a site the same way, and a site only one has.
MCSites == [b \in Business |-> IF b = b1 THEN {s1, s2} ELSE IF b = b2 THEN {s2} ELSE {}]
=============================================================================
