------------------------------ MODULE MCLoans ------------------------------
(* Values for Loans: a household (1) and a housing firm (11) that may close and come back.  Half
   of the principal is the interest of a week, rounded down; the installments are the annuities over
   one week and over two, rounded up, so that a miss that is made good lets no debt grow for ever. *)
EXTENDS Loans, TLC

Annuities == [p \in {1, 2} |-> p]
=============================================================================
