------------------------------- MODULE MCCare -------------------------------
(* Values for Care: a doctor and two patients, prices around the means. *)
EXTENDS Care

\* Whoever has no cash can only be lent to by the treasury.
TillMeans ==
  {[cash |-> 1, credit |-> "none"], [cash |-> 1, credit |-> "bank"], [cash |-> 0, credit |-> "treasury"]}
=============================================================================
