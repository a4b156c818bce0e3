----------------------------- MODULE MCPayments -----------------------------
(* Values for Payments: a baseline services firm (1), a private services firm (2) without owner,
   and a private firm of another category (3), whose payroll is not funded beforehand, owned and
   headed by the second of two workers. *)
EXTENDS Payments, TLC

Wages  == 1 :> 1 @@ 2 :> 2
Owners == 1 :> NoOne @@ 2 :> NoOne @@ 3 :> 2
Heads  == 1 :> NoOne @@ 2 :> NoOne @@ 3 :> 2
=============================================================================
