------------------------------- MODULE MCLabor -------------------------------
(* A services firm, a private food firm and the public hospital; three        *)
(* workers, the second more skilled than the others, and a doctor.            *)
EXTENDS Labor

MCSkill == [h \in Households |-> IF h = 2 THEN 2 ELSE 1]

\* Of the wages, 3 alone is no float32: it is rounded up.
MCSingle == [w \in Wages |-> IF w = 3 THEN 4 ELSE w]
==============================================================================
