-------------------------------- MODULE Totals --------------------------------
(* The sum of the values of a function with a finite domain: sum(...) over a dictionary or a       *)
(* generator in the code's books (economy.py, experiments.py).                                     *)
EXTENDS Integers, FiniteSets, Functions

Total(f) == FoldFunction(LAMBDA x, y : x + y, 0, f)
==============================================================================
